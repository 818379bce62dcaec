SPECIFICATION Spec
CONSTANTS
  Graphs <- AllGraphs
INVARIANTS
  EachOnce SourcesFirst
CHECK_DEADLOCK FALSE
