SPECIFICATION FairSpec
CONSTANTS
  r = r
  s1 = s1
  s2 = s2
  c1 = c1
  c2 = c2
  Thread = {s1, c1, c2}
  Root = s1
  SendTargets <- LiveSend
  CallTargets <- LiveCall
  Receivers = {}
  Repliers = {s1}
  Destroyable = {}
  MaxSeq = 2
PROPERTIES
  CallsReturn
