SPECIFICATION TestSpec
CONSTANTS
  Readers = {r1, r2, r3}
  Writers = {w1, w2, w3}
  Threads = {r1, r2, r3, w1, w2, w3}
  NULL = NULL
INVARIANTS Exact SleepersHaveCause CsStatusHolds
PROPERTIES NeverForgotten Refinement
