SPECIFICATION BufferSpec
CONSTANTS
  MaxHistory = 3
  MaxSize = 9
  Sizes = {1}
  BatchesPerHook = 2
  MaxBatches = 3
INVARIANT NothingLost
CHECK_DEADLOCK FALSE
