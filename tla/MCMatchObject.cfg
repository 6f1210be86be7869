SPECIFICATION Spec
CONSTANTS
  Names <- MCNames
  Patterns <- MCPatterns
  CAPTURE_COUNT_MAX = 4
  MaxTokens = 5
INVARIANTS
  TypeOK
  LookupExact
  OneNamePerScope
  ReferencesNamed
  InsideNames
  IndicesAgree
CHECK_DEADLOCK FALSE
