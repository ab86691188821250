SPECIFICATION Spec
CONSTANTS
  ALIGN_SIZE_LOG2 = 1
  SL_INDEX_COUNT_LOG2 = 2
  FL_INDEX_MAX = 7
  HeapMem = 16
  HeapSize = 76
  PoolMem = 92
  PoolSize = 24
  Sizes = {0, 3, 21}
  ReallocSizes = {9}
  Aligns = {1, 16}
  MaxLive = 3
INVARIANTS PoolTiled ListsExact LiveBlocksHold NothingLeaks FailsOnlyWhenFull
