SPECIFICATION FairSpec
CONSTANTS
  Threads = {th1, th2, th3}
  Rounds = 3
INVARIANTS CountExact NobodyEarly OneAwake
PROPERTY AllPass
CHECK_DEADLOCK FALSE
