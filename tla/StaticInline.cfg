SPECIFICATION Spec
CONSTANTS
  Programs <- AllPrograms
  maxCalleeInstrs = 7
  maxInstrsAfterInlining = 12
  MaxRuns = 2
  MaxDeletions = 1
INVARIANTS
  GraphsWellFormed UsersListed SizeBounded AbortsExplained
PROPERTIES
  CallReplaced RunEnds
CHECK_DEADLOCK FALSE
