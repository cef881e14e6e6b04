SPECIFICATION Spec
CONSTANTS
  r = r
  s1 = s1
  s2 = s2
  c1 = c1
  c2 = c2
  Thread = {s1, s2, c1}
  Root = s1
  SendTargets <- CrossSend
  CallTargets <- CrossCall
  Receivers = {}
  Repliers = {s1, s2}
  Destroyable = {}
  MaxSeq = 2
INVARIANTS
  NoStaleReply
CHECK_DEADLOCK FALSE
