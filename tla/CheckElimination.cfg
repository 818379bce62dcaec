SPECIFICATION Spec
CONSTANTS
  NoBB = NoBB
  Programs <- AllPrograms
INVARIANT
  RemovedCovered
PROPERTY
  RemovalAborts
CHECK_DEADLOCK FALSE
