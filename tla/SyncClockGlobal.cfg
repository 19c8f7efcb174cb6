SPECIFICATION FinalizerSpec
CONSTANTS
  MaxThreads = 3
  Var = {v}
  kDirtyTids = 1
  NoTid = NoTid
  MaxTime = 8
  MaxReuse = 0
INVARIANTS NothingNewSince
CHECK_DEADLOCK FALSE
