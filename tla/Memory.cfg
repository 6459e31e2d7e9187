\* Frames of three bytes, a heap of two pages and one level of page tables.
SPECIFICATION HeapSpec
CONSTANTS
  FRAME = 3
  HEAP_PAGES = 2
  LEVELS = 1
  MemoryMaps <- MCMemoryMaps
INVARIANTS FramesUsable FramesDisjoint FailsOnlyWhenFull
CHECK_DEADLOCK FALSE
