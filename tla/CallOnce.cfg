SPECIFICATION FairSpec
CONSTANTS
  Thread = {t1, t2, t3}
  Flag = {1, 2}
  MaxThrows = 2
INVARIANTS OnlyOneRuns NoDeadlock
PROPERTIES OnceForAll EveryCallReturns
CHECK_DEADLOCK FALSE
