CONSTANTS
  PAGE = 4
  BITS = 2
  KERNEL_START = 1000
  KERNEL_END = 1012
  Maps <- MCMaps
SPECIFICATION MemSpec
INVARIANTS HeapPagesUnshared
