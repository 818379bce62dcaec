SPECIFICATION Spec
CONSTANTS
  NoBB = NoBB
  MaxRuns = 2
  Graphs <- AllGraphs
INVARIANTS
  GreyIsStack IrreducibleFound LoopsAreNatural LoopTreeIsTree AbortsExplained
PROPERTIES
  Terminates
CHECK_DEADLOCK FALSE
