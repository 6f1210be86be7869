SPECIFICATION MCSpec
CONSTANTS
  UINT32_MAX <- MCMax
  Characters = {}
  SmallSize = 3
  MaxDepth = 2
  Inputs <- MCInputs
  MaxFailures = 1
  Queries <- MCQueries
  Arrays <- MCArrays
INVARIANTS
  SortCorrect
  CanonExact
  IndexAgrees
  CaseSetExact
CHECK_DEADLOCK FALSE
