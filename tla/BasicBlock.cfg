SPECIFICATION Spec
CONSTANTS
  MaxBBs = 3
  Phis = {p1, p2}
  Regulars = {i1, i2, i3}
  Null = Null
  AtPhiBoundary = FALSE
INVARIANT WellFormed
PROPERTY ImplementsBlockLists
CHECK_DEADLOCK FALSE
