SPECIFICATION Spec
CONSTANTS
  NoBB = NoBB
  Graphs <- Forward
INVARIANTS
  DominatorsRight
CHECK_DEADLOCK FALSE
