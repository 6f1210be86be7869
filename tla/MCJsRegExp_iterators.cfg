SPECIFICATION Spec
CONSTANTS
  Threads = {t1, t2}
  NoThread = NoThread
  Inputs <- PairInputs
  Methods = {"match", "match_all"}
  UserIndices = {0, 2}
  Limits = {}
PROPERTY IteratorScans
CHECK_DEADLOCK FALSE
