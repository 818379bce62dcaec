SPECIFICATION Spec
CONSTANTS
  Programs <- AllPrograms
  maxCalleeInstrs = 7
  maxInstrsAfterInlining = 12
  MaxRuns = 1
  MaxDeletions = 0
INVARIANT
  CopyClosed
CHECK_DEADLOCK FALSE
