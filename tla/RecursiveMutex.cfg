SPECIFICATION RecMutexSpec
CONSTANTS
  Lockers = {t1, t2, t3, t4}
  NULL = NULL
  CounterRange = 6
  MaxDepth = 5
INVARIANTS OwnerExact NoLostWakeup
