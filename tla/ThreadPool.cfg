\* The pool, two workers, two clients, two tasks.
SPECIFICATION FairSpec
CONSTANTS
  Worker = {w1, w2}
  User = {u1, u2}
  Task = {t1, t2}
  Nobody = Nobody
INVARIANTS TasksConserved NoRaceOnTasks NoWakeupLost
PROPERTIES ImplementsService
PROPERTIES EveryTaskFinishes EveryWaitReturns DestructorReturns
CHECK_DEADLOCK FALSE
