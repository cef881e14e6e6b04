SPECIFICATION LibSpec
CONSTANTS
  ALIGN_SIZE_LOG2 = 1
  SL_INDEX_COUNT_LOG2 = 2
  FL_INDEX_MAX = 6
  SIZE_T = 256
  Pools <- TwoPools
  Sizes = {0, 1, 7, 13, 63}
  ReallocSizes = {5, 11, 15}
  Aligns = {2, 8}
  CPU = {c1, c2, c3}
  Block = {b1, b2, b3}
  Null = Null
  MaxKey = 10
  Nil = Nil
  ListHead = {h1, h2}
  ListNode = {n1, n2, n3, n4}
  NULL = NULL
  MemSize = 5
  Byte = {0, 1, 2}
SYMMETRY KmemSymmetry
INVARIANTS
  HeapExact
  NoFalseFailure
  OnePlace
  TreeExact
  RingsExact
  StringsExact
PROPERTIES
  ImplementsHeap
