SPECIFICATION FairSpec
CONSTANTS
  Threads = {t1}
  NoThread = NoThread
  Inputs <- AllInputs
  Methods = {"exec", "match", "match_all_list", "search", "split", "replace", "replace_all"}
  UserIndices = {0, 1, 3, 4}
  Limits = {0, 7}
INVARIANTS
  TypeOK
  MatchListsAll
  SearchFindsFirst
  SplitsAsReference
  ReplacesAll
  ReplacesOnlyMatches
PROPERTIES
  MethodsEnd
CHECK_DEADLOCK FALSE
