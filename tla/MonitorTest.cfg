SPECIFICATION TestSpec
CONSTANTS
  Readers = {r1, r2, r3}
  Writers = {w1, w2, w3}
  Threads = {r1, r2, r3, w1, w2, w3}
  MaxReaders = 2
  MaxWriters = 2
INVARIANTS CountersExact SleepersHaveCause CsStatusHolds
PROPERTIES NeverForgotten Refinement
