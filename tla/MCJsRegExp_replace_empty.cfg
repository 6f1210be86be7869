SPECIFICATION FairSpec
CONSTANTS
  Threads = {t1}
  NoThread = NoThread
  Inputs <- PairInputs
  Methods = {"replace_all"}
  UserIndices = {}
  Limits = {}
PROPERTY ReplaceEnds
CHECK_DEADLOCK FALSE
