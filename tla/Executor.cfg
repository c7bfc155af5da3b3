\* Five calls in two batches on two slots and one thread; call 3 is too
\* large, call 5 has no factory, call 2 is a coroutine.  Nothing is left to do once both batches
\* have ended and the threads are done.
CONSTANTS
  t1 = t1
  t2 = t2
  t3 = t3
  b1 = b1
  b2 = b2
  None = None
  Calls = {1, 2, 3, 4, 5}
  Tasks = {t1, t2, t3}
  TaskOf <- SharedTask
  Batches = {b1, b2}
  BatchOf <- TwoBatches
  Sync = {1, 4}
  Missing = {5}
  TooLarge = {3}
  Slots = 2
  PoolSize = 1
SPECIFICATION FairSpec
CHECK_DEADLOCK FALSE
INVARIANTS SlotsKept CacheSound
PROPERTIES ImplementsContract EveryCallAnswered
