SPECIFICATION Spec
CONSTANTS
  Names <- MCNames
  Patterns <- MCPatterns
  CAPTURE_COUNT_MAX = 4
  MaxTokens = 3
INVARIANT GroupsNamed
CHECK_DEADLOCK FALSE
