SPECIFICATION Spec
CONSTANTS
  NoBB = NoBB
  Graphs <- AllGraphs
INVARIANTS
  SemiDominatorsRight FindIsForestMinimum DominatorsFormTree AbortsOnlyOnBadGraph
  RightOnFourBlocks
CHECK_DEADLOCK FALSE
