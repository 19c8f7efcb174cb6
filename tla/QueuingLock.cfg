SPECIFICATION FairSpec
CONSTANTS
  Thread = {1, 2, 3}
  Lock = {1, 2}
  MaxDepth = 2
INVARIANTS StateTable WakeUpsAreInTime FieldsAreFree
PROPERTIES ImplementsFifoLock QueuedIsServed
CHECK_DEADLOCK FALSE
