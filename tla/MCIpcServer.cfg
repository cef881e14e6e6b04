SPECIFICATION Spec
CONSTANTS
  r = r
  s1 = s1
  s2 = s2
  c1 = c1
  c2 = c2
  Thread = {r, s1, s2, c1, c2}
  Root = r
  SendTargets <- ServerSend
  CallTargets <- ServerCall
  Receivers = {s2}
  Repliers = {s1}
  Destroyable = {c1, c2}
  MaxSeq = 2
INVARIANTS
  TypeOK
  LinkedOnce
  EndpointMatchesQueue
  NobodyForgotten
  CallGetsItsReply
  ReplyContextKept
PROPERTIES
  ImplementsDispatch
