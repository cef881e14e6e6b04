SPECIFICATION HeldSpec
\* the kernel halts when the last runnable thread blocks
CHECK_DEADLOCK FALSE
CONSTANTS
  root = root
  a = a
  b = b
  Thread <- Threads
  Root = root
  Pager <- AllByRoot
  QUANTUM_TICKS <- Quanta
  UINT32 = 5
  BOOST_PERIOD = 2
  SetLevels <- AnyLevel
  SetQuanta <- AnyQuantum
INVARIANTS
  TypeOK
  ReadyIffQueued
  LongQuantumEnds
PROPERTIES
  ImplementsDispatch
