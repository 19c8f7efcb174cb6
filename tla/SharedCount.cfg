SPECIFICATION FairSpec
CONSTANTS
  Thread = {t1, t2, t3}
  Handle = {h1, h2, h3, h4}
  NoHandle = NoHandle
INVARIANTS BlockOutlivesUsers
PROPERTIES LockFailsOnlyIfExpired ImplementsSharedObject NothingLeaks
CHECK_DEADLOCK FALSE
