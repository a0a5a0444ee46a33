SPECIFICATION PoolSpec
CONSTANTS
  Workers = {even_thread, odd_thread}
  Blocking <- AppBlocking
  NULL = NULL
INVARIANTS PooledAreIdle AtMostOnce ListsAreSequences
CHECK_DEADLOCK FALSE
