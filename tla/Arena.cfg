SPECIFICATION ASpec
CONSTANTS
  PAGE_SIZE = 4
  ALIGNMENT = 2
  ARENA_SIZE = 3
  SIZE_RANGE = 16
  Requests = {1, 3, 5, 14}
  Frames = {0, 4, 8, 12}
INVARIANTS
  ATypeOK ListOwnsMapped BlocksMapped
PROPERTIES
  RetryFits ImplementsAllocator
CHECK_DEADLOCK FALSE
