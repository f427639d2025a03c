CONSTANTS
  HEAP_START = 8
  HEAP_INITIAL_SIZE = 12
  PAGE_SIZE = 12
  HDR = 3
  ALIGN = 2
  MIN_SPLIT = 2
  FRAMES = 4
  WORD = 80
  Sizes = {3, 9}
SPECIFICATION FairSpec
INVARIANTS HeapInv NothingLost
PROPERTIES FirstFit CallsReturn ImplementsAllocator
