CONSTANTS
  MAX_ORDER = 2
  MaxPages = 20
  FrameBytes = 1
  PAGE_SIZE = 4
  MemMaps <- AllMaps
  AllocCounts <- AllCounts
SPECIFICATION Spec
CHECK_DEADLOCK FALSE
INVARIANTS
  NoPageTwice
  MemoryConserved
  FramesTruthful
PROPERTY
  ImplementsPageAllocator
