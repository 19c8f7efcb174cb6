SPECIFICATION Spec
CONSTANTS
  MaxThreads = 3
  Var = {v}
  kDirtyTids = 1
  NoTid = NoTid
  MaxTime = 8
  MaxReuse = 1
INVARIANTS NothingNewSince NoClockAhead
PROPERTIES NewThreadIsUnknown ImplementsClockModel
CHECK_DEADLOCK FALSE
