SPECIFICATION Spec
CONSTANTS
  MaxDepth = 2
  MaxBreadth = 2
  MaxQueries = 4
  Starts <- AllStarts
  NULL = NULL
PROPERTY NoBranchIsMissed
CHECK_DEADLOCK FALSE
