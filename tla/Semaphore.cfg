SPECIFICATION ProgramSpec
CONSTANTS
  Threads = {"t1", "t2", "t3", "t4"}
  InitialPermits = 0
  MaxPosts = 7
  MaxSpurious = 2
INVARIANTS PermitsConserved CounterCountsSleepers PrintsInOrder CancelLeaks 
PROPERTIES AllEnd
CHECK_DEADLOCK FALSE
