SPECIFICATION Spec
CONSTANTS
  N_PHILOSOPHER = 5
  NULL = NULL
INVARIANTS Exact OnlyRingStops
CHECK_DEADLOCK FALSE
