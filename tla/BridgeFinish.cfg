SPECIFICATION BridgeSpec
CONSTANTS
  Threads = {l1, l2, r1, r2}
  LRBuses = {l1, l2}
  MaxReaders = 2
  MaxWriters = 2
  Crossings = 2
  NoBus = NoBus
PROPERTY BusesFinish
CHECK_DEADLOCK FALSE
