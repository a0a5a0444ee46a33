SPECIFICATION Spec
CONSTANTS
  Producers = {p1, p2, p3}
  Consumers = {c1, c2, c3}
  Q_DEFAULT_SIZE = 5
  Items <- MCItems
  NULL = NULL
INVARIANTS AssertionsHold
PROPERTIES RingIsFifo AllFinish
CHECK_DEADLOCK FALSE
