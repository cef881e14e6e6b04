SPECIFICATION TasksSpec
\* the root server stops when its child exits
CHECK_DEADLOCK FALSE
CONSTANTS
  rt = rt
  t1 = t1
  t2 = t2
  t3 = t3
  FutexThread <- FutexThreads
  Root = rt
  UserAddr = {0, 4, 8}
  Extract <- Extracted
  FUTEX_BUCKETS = 2
  Task <- GrantTasks
  RootTask = rt
  PagerOf <- GrantPagers
  Rights <- GrantRights
  BootPtes <- GrantBoot
  g_frames = 4
  Pool = {1}
  FbStart = 3
  FbPages = 1
  PAGE_SIZE = 2
  PAGE_SIZE_HUGE = 4
  WORD = 16
  VPAGES = 4
  PFNS = 4
  UINT16 = 3
  KernelPage = {2, 3}
  Vas = {2, 3}
  Pas = {2, 14}
  Lengths = {2}
  Prots = {{"read"}}
  Object = {1, 2, 3}
  Pmap = {1, 2}
  InitialCap = 1
  TIDS = 5
  MaxAddr = 6
  Ranges = 5
  Nil = Nil
  EHDR_SIZE = 4
  PHDR_SIZE = 1
  pool_bits = 12
  PoolFrames = {2, 3, 5, 6, 7, 9, 10, 11}
  STACK = 18
  STACK_END = 20
  SHARED_VA = 14
  UTCB_VA = 16
  CHILD_HEAP_VA = 10
  ADDRESS_END = 22
  SIZE = 16
  Requests = {1, 3, 4}
  VMA_POOL_MAX = 5
  MaxHandOuts = 12
INVARIANTS
  WaitqsExact
  RefsExact
  KernelFramesKept
  LookupExact
  RangesExact
  ImagesLoaded
  BuffersBacked
PROPERTIES
  WaiterWoken
  RightsNeverGrow
  NothingLeft
