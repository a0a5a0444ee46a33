SPECIFICATION FairSpec
CONSTANTS
  Readers = {r1}
  Updaters = {u1}
  Creators = {c1, c2}
  Deleters = {d1}
  Rolls = {n1, n2}
  Students = {s1, s2}
  INCR = 1
  MarksRange = 2
  None = None
INVARIANTS ListSound RefCountExact NoUseAfterFree InsertionSucceeds ReadsWholeUpdates
PROPERTIES DeferredUntouched RemovedIsFreed
