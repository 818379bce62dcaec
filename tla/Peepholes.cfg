SPECIFICATION Spec
CONSTANTS
  Programs <- AllPrograms
  WordBits = 3
  ShiftLimit = 2
INVARIANTS UsersAgree InputsPlaced ValuesKept MissesOnlyBehindRewrite
CHECK_DEADLOCK FALSE
