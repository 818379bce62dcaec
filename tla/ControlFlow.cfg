SPECIFICATION Spec
CONSTANTS
  MaxBBs = 3
  MaxEdges = 4
INVARIANTS
  TypeOK EdgesAgree OnlyLastBBDangles
PROPERTIES
  PathsKept
CHECK_DEADLOCK FALSE
