------------------------------ MODULE RWLockSpec ------------------------------
(***************************************************************************)
(* What a reader/writer lock with a limit on each side promises: readers   *)
(* and writers are never inside together, and never more of either than    *)
(* the limit.  Both rw_lock.c of PART B and, with MaxWriters = 1 and a      *)
(* recursive writer left out, the one of PART A implement it.               *)
(***************************************************************************)
EXTENDS Integers, FiniteSets

CONSTANTS Threads, MaxReaders, MaxWriters

VARIABLES reading,   \* the threads that hold the lock to read
          writing    \* the threads that hold the lock to write

vars == <<reading, writing>>

Init == reading = {} /\ writing = {}

StartRead(t) ==
  /\ t \notin reading \cup writing
  /\ writing = {}
  /\ Cardinality(reading) < MaxReaders
  /\ reading' = reading \cup {t}
  /\ UNCHANGED writing

StartWrite(t) ==
  /\ t \notin reading \cup writing
  /\ reading = {}
  /\ Cardinality(writing) < MaxWriters
  /\ writing' = writing \cup {t}
  /\ UNCHANGED reading

EndRead(t) ==
  /\ t \in reading
  /\ reading' = reading \ {t}
  /\ UNCHANGED writing

EndWrite(t) ==
  /\ t \in writing
  /\ writing' = writing \ {t}
  /\ UNCHANGED reading

Next == \E t \in Threads : \/ StartRead(t) \/ EndRead(t)
                           \/ StartWrite(t) \/ EndWrite(t)

Spec == Init /\ [][Next]_vars
===============================================================================
