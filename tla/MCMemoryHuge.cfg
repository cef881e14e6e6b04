SPECIFICATION Spec
CONSTANTS
  MAX_BUDDY_ORDER = 3
  PMM_POOL_START_PFN = 12
  LOW = 2
  DescriptorsPerPage = 8
  MemoryMaps <- Maps
  AnyFree = FALSE
  N = 2
  Data = 4
  Acpi = {1, 4}
  Sections <- KernelSections
  OverHuge = TRUE
INVARIANTS
  DataKept
