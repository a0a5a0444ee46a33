SPECIFICATION PoolSpec
CONSTANTS
  Workers = {even_thread, odd_thread}
  Blocking <- AppBlocking
  NULL = NULL
PROPERTY DispatchedJobsRun
CHECK_DEADLOCK FALSE
