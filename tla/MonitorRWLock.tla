---------------------------- MODULE MonitorRWLock -----------------------------
(***************************************************************************)
(* PART B's monitor reader/writer lock, Monitor/rw_lock.c, used by any set *)
(* of threads.  Every function runs under state_mutex, which it releases   *)
(* only by returning or inside pthread_cond_wait, so one action is the     *)
(* code between two such points.  A thread in pthread_cond_wait is in      *)
(* readers_cv or writers_cv; a thread still in rd_lock or wr_lock that has *)
(* left that set is awake and re-tests the loop condition.                 *)
(***************************************************************************)
EXTENDS Integers, FiniteSets

CONSTANTS Threads,      \* the threads that use the lock
          MaxReaders,   \* MAX_NUMBER_OF_READERS
          MaxWriters    \* MAX_NUMBER_OF_WRITERS

ASSUME ThreadsFinite == IsFiniteSet(Threads)
ASSUME LimitsPositive == MaxReaders \in Nat \ {0} /\ MaxWriters \in Nat \ {0}

VARIABLES readers_active,    \* number_reader_thread_active
          writers_active,    \* number_writer_thread_active
          readers_waiting,   \* readers_waiting_threads
          writers_waiting,   \* writers_waiting_threads
          readers_cv,        \* the threads asleep on readers_cv
          writers_cv,        \* the threads asleep on writers_cv
          call               \* where each thread is with respect to the lock

rvars == <<readers_active, readers_waiting, readers_cv>>
wvars == <<writers_active, writers_waiting, writers_cv>>
vars == <<rvars, wvars, call>>

CallStates == {"idle", "rd_wait", "reading", "wr_wait", "writing"}

In(state) == {t \in Threads : call[t] = state}

TypeOK ==
  /\ readers_active \in Nat /\ readers_waiting \in Nat
  /\ writers_active \in Nat /\ writers_waiting \in Nat
  /\ readers_cv \subseteq In("rd_wait")
  /\ writers_cv \subseteq In("wr_wait")
  /\ call \in [Threads -> CallStates]

-------------------------------------------------------------------------------
(* rw_lock_init *)
Init ==
  /\ readers_active = 0 /\ readers_waiting = 0 /\ readers_cv = {}
  /\ writers_active = 0 /\ writers_waiting = 0 /\ writers_cv = {}
  /\ call = [t \in Threads |-> "idle"]

(* Names with "Wrong" are variants of the definition that follows, each    *)
(* with a slip the code might have; they are no part of the model and show *)
(* that a property notices the slip.                                       *)
WrongReaderBlocked == writers_active > 0 \/ readers_active > MaxReaders
WrongWriterBlocked == writers_active = MaxWriters

(* The conditions of the two while loops. *)
ReaderBlocked == writers_active > 0 \/ readers_active = MaxReaders
WriterBlocked == readers_active > 0 \/ writers_active = MaxWriters

(* rd_lock up to its first cond_wait, or to its return when the loop is    *)
(* not entered (the waiting counter is then raised and lowered at once).   *)
RdLock(t) ==
  /\ call[t] = "idle"
  /\ \/ /\ ReaderBlocked
        /\ readers_waiting' = readers_waiting + 1
        /\ readers_cv' = readers_cv \cup {t}
        /\ call' = [call EXCEPT ![t] = "rd_wait"]
        /\ UNCHANGED readers_active
     \/ /\ ~ReaderBlocked
        /\ readers_active' = readers_active + 1
        /\ call' = [call EXCEPT ![t] = "reading"]
        /\ UNCHANGED <<readers_waiting, readers_cv>>
  /\ UNCHANGED wvars

(* The loop of rd_lock after cond_wait has returned. *)
RdRetest(t) ==
  /\ call[t] = "rd_wait"
  /\ t \notin readers_cv
  /\ \/ /\ ReaderBlocked
        /\ readers_cv' = readers_cv \cup {t}
        /\ UNCHANGED <<readers_active, readers_waiting, call>>
     \/ /\ ~ReaderBlocked
        /\ readers_waiting' = readers_waiting - 1
        /\ readers_active' = readers_active + 1
        /\ call' = [call EXCEPT ![t] = "reading"]
        /\ UNCHANGED readers_cv
  /\ UNCHANGED wvars

(* wr_lock, the same way. *)
WrLock(t) ==
  /\ call[t] = "idle"
  /\ \/ /\ WriterBlocked
        /\ writers_waiting' = writers_waiting + 1
        /\ writers_cv' = writers_cv \cup {t}
        /\ call' = [call EXCEPT ![t] = "wr_wait"]
        /\ UNCHANGED writers_active
     \/ /\ ~WriterBlocked
        /\ writers_active' = writers_active + 1
        /\ call' = [call EXCEPT ![t] = "writing"]
        /\ UNCHANGED <<writers_waiting, writers_cv>>
  /\ UNCHANGED rvars

WrongWrRetest(t) ==   \* does not lower writers_waiting
  /\ call[t] = "wr_wait" /\ t \notin writers_cv
  /\ \/ WriterBlocked /\ writers_cv' = writers_cv \cup {t} /\ UNCHANGED <<writers_active, call>>
     \/ /\ ~WriterBlocked /\ writers_active' = writers_active + 1
        /\ call' = [call EXCEPT ![t] = "writing"] /\ UNCHANGED writers_cv
  /\ UNCHANGED <<writers_waiting, rvars>>

WrRetest(t) ==
  /\ call[t] = "wr_wait"
  /\ t \notin writers_cv
  /\ \/ /\ WriterBlocked
        /\ writers_cv' = writers_cv \cup {t}
        /\ UNCHANGED <<writers_active, writers_waiting, call>>
     \/ /\ ~WriterBlocked
        /\ writers_waiting' = writers_waiting - 1
        /\ writers_active' = writers_active + 1
        /\ call' = [call EXCEPT ![t] = "writing"]
        /\ UNCHANGED writers_cv
  /\ UNCHANGED rvars

(* pthread_cond_broadcast: every sleeper of the condition variable wakes.  *)
AfterBroadcast(cv, called) == IF called THEN {} ELSE cv

(* rw_lock_unlock.  The function is not told who calls it: it takes the    *)
(* branch for a reader whenever some reader is active.                     *)
ReaderLeaves ==
  LET last == readers_active = 1
      wakeWriters == last /\ writers_waiting > 0
      wakeReaders == ~wakeWriters /\ readers_waiting > 0
  IN /\ readers_active > 0
     /\ readers_active' = readers_active - 1
     /\ writers_cv' = AfterBroadcast(writers_cv, wakeWriters)
     /\ readers_cv' = AfterBroadcast(readers_cv, wakeReaders)
     /\ UNCHANGED <<writers_active, readers_waiting, writers_waiting>>

WrongWriterLeaves ==   \* wakes other writers only when it is the last to leave
  LET last == writers_active = 1
      wakeReaders == last /\ readers_waiting > 0
      wakeWriters == last /\ ~wakeReaders /\ writers_waiting > 0
  IN /\ readers_active = 0
     /\ writers_active' = writers_active - 1
     /\ readers_cv' = AfterBroadcast(readers_cv, wakeReaders)
     /\ writers_cv' = AfterBroadcast(writers_cv, wakeWriters)
     /\ UNCHANGED <<readers_active, readers_waiting, writers_waiting>>
WrongForgetReaders ==   \* has forgotten the readers
  /\ readers_active = 0
  /\ writers_active' = writers_active - 1
  /\ writers_cv' = AfterBroadcast(writers_cv, writers_waiting > 0)
  /\ UNCHANGED <<readers_active, readers_cv, readers_waiting, writers_waiting>>

WriterLeaves ==
  LET last == writers_active = 1
      wakeReaders == last /\ readers_waiting > 0
      wakeWriters == ~wakeReaders /\ writers_waiting > 0
  IN /\ readers_active = 0
     /\ writers_active' = writers_active - 1
     /\ readers_cv' = AfterBroadcast(readers_cv, wakeReaders)
     /\ writers_cv' = AfterBroadcast(writers_cv, wakeWriters)
     /\ UNCHANGED <<readers_active, readers_waiting, writers_waiting>>

Unlock(t) ==
  /\ call[t] \in {"reading", "writing"}
  /\ ReaderLeaves \/ WriterLeaves
  /\ call' = [call EXCEPT ![t] = "idle"]

(* pthread_cond_wait may return although nobody signalled. *)
SpuriousWakeup(t) ==
  /\ \/ t \in readers_cv /\ readers_cv' = readers_cv \ {t} /\ UNCHANGED writers_cv
     \/ t \in writers_cv /\ writers_cv' = writers_cv \ {t} /\ UNCHANGED readers_cv
  /\ UNCHANGED <<readers_active, readers_waiting, writers_active, writers_waiting, call>>

(* Any thread may call either lock function when it does not hold the lock, *)
(* and unlocks only what it holds.                                          *)
Next == \E t \in Threads : \/ RdLock(t) \/ RdRetest(t)
                           \/ WrLock(t) \/ WrRetest(t)
                           \/ Unlock(t) \/ SpuriousWakeup(t)

(* The scheduler runs every thread that can run, and a holder unlocks.  No *)
(* thread has to call the lock, and no spurious wakeup has to happen.      *)
Fairness == \A t \in Threads : WF_vars(RdRetest(t)) /\ WF_vars(WrRetest(t)) /\ WF_vars(Unlock(t))

Spec == Init /\ [][Next]_vars
FairSpec == Spec /\ Fairness

-------------------------------------------------------------------------------
(* The active counters, the only thing unlock decides by, count exactly    *)
(* the threads inside, and the waiting counters exactly the threads still  *)
(* inside rd_lock and wr_lock: nothing is counted twice or forgotten.      *)
CountersExact ==
  /\ readers_active = Cardinality(In("reading"))
  /\ writers_active = Cardinality(In("writing"))
  /\ readers_waiting = Cardinality(In("rd_wait"))
  /\ writers_waiting = Cardinality(In("wr_wait"))

(* Readers and writers are never inside together, and never more of them   *)
(* than the limits: what rw_lock.c's two loops wait for.                   *)
Exclusion ==
  /\ In("reading") = {} \/ In("writing") = {}
  /\ Cardinality(In("reading")) <= MaxReaders
  /\ Cardinality(In("writing")) <= MaxWriters

AwakeReaders == In("rd_wait") \ readers_cv
AwakeWriters == In("wr_wait") \ writers_cv

(* No wakeup is lost in unlock's choice of one condition variable: a       *)
(* thread sleeps only while its loop condition holds, except that after    *)
(* the only holder left, the sleepers of one kind may depend on an awake   *)
(* thread of the other kind that unlock preferred, and that only if their  *)
(* own limit is 1.                                                         *)
SleepersHaveCause ==
  /\ readers_cv # {} =>
        \/ ReaderBlocked
        \/ MaxReaders = 1 /\ AwakeWriters # {}
  /\ writers_cv # {} =>
        \/ WriterBlocked
        \/ MaxWriters = 1 /\ AwakeReaders # {}

(* A thread inside rd_lock or wr_lock is never forgotten: it gets the lock *)
(* or finds its loop condition true again and again.  (The code does not   *)
(* promise more: readers that come and go can keep a writer out for ever.) *)
NeverForgotten ==
  \A t \in Threads :
    /\ []<>(call[t] # "rd_wait" \/ ReaderBlocked)
    /\ []<>(call[t] # "wr_wait" \/ WriterBlocked)

(* The monitor implements the lock of RWLockSpec, the holders being the    *)
(* threads between the return of a lock function and unlock.               *)
Abstract == INSTANCE RWLockSpec WITH reading <- In("reading"), writing <- In("writing")
Refinement == Abstract!Spec
===============================================================================
