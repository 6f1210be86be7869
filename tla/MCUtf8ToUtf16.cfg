SPECIFICATION Spec
CONSTANTS
  MaxChars = 4
  Inputs <- MCInputs
INVARIANTS
  TablesInverse
  IndicesIncrease
  MatchesJsString
PROPERTY Converts
CHECK_DEADLOCK FALSE
