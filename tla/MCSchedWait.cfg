SPECIFICATION FairWaitSpec
\* the kernel halts when the last runnable thread blocks
CHECK_DEADLOCK FALSE
CONSTANTS
  root = root
  a = a
  b = b
  Thread <- Threads
  Root = root
  Pager <- AllByRoot
  QUANTUM_TICKS <- Quanta
  UINT32 = 6
  BOOST_PERIOD = 5
  SetLevels <- None
  SetQuanta <- None
  Watched = a
INVARIANTS
  BoundedWait
PROPERTIES
  NoStarvation
