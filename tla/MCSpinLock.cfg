SPECIFICATION FairSpec
CONSTANTS
  p1 = p1
  p2 = p2
  p3 = p3
  CPU <- Processors
  W = 5
  TryCpus <- Processors
INVARIANTS
  IInv
  MutualExclusion
PROPERTIES
  ImplementsFifoLock
  LockGranted
