SPECIFICATION FairSpec
CONSTANTS
  Thread = {t1, t2, t3, t4}
  MaxReaders = 2
INVARIANTS NoDeadlock
PROPERTIES ImplementsReadWriteLock WriterGoesFirst WriterGetsIn
