SPECIFICATION ClassSpec
CONSTANTS
  UINT32_MAX <- MCMax
  Characters <- MCCharacters
  Operands <- MCOperands
  MaxLen = 4
  Classes <- MCClasses
  MaxRanges = 5
INVARIANTS
  FoundIffMember
  InBounds
  RangeOpExact
  ReadyForLookup
  MatchesDenoted
PROPERTIES
  Answers_Eventually
CHECK_DEADLOCK FALSE
