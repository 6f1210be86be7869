SPECIFICATION MCSpec
CONSTANTS
  Universe <- MCUniverse
  Canonical <- MCCanonical
  HashWidth = 5
  MinBits = 1
  CodeOf <- MCCodeOf
  Properties <- MCProperties
  Tables <- MCTables
  Classes <- MCClasses
INVARIANTS
  StringsInPlace
  ClassDenotes
  LongestFirst
CHECK_DEADLOCK FALSE
