SPECIFICATION Spec
CONSTANTS
  r = r
  s1 = s1
  s2 = s2
  c1 = c1
  c2 = c2
  Thread = {s1, s2, c1, c2}
  Root = s1
  SendTargets <- NestedSend
  CallTargets <- NestedCall
  Receivers = {}
  Repliers = {s1, s2}
  Destroyable = {}
  MaxSeq = 2
INVARIANTS
  NestedCallKeepsContext
CHECK_DEADLOCK FALSE
