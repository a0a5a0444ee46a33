---------------------------- MODULE ReadWriteTest -----------------------------
(***************************************************************************)
(* ReadWriteLocks/test_custom.c: readers and writers that loop through the *)
(* lock of ReadWriteLock and count themselves inside, the readers under    *)
(* state_check_mutex and the writers under nothing but the lock itself.    *)
(***************************************************************************)
EXTENDS ReadWriteLock

CONSTANTS Readers, Writers   \* the threads that run read_thread_fn, write_thread_fn

ASSUME RolesPartitionThreads == Readers \cup Writers = Threads /\ Readers \cap Writers = {}

VARIABLES n_r, n_w,   \* the counts of the test
          seen,       \* what each writer has read of n_w in its n_w++ or n_w--
          at          \* the statement of its loop each thread comes to next

counts == <<n_r, n_w, seen>>
testVars == <<vars, counts, at>>

(* main *)
TestInit ==
  /\ Init
  /\ n_r = 0 /\ n_w = 0
  /\ seen = [t \in Writers |-> 0]
  /\ at = [t \in Threads |-> "lock"]

Goto(t, from, to) == at[t] = from /\ at' = [at EXCEPT ![t] = to]

(* A thread in the lock function comes out of it when it holds the lock. *)
InLock(t) ==
  /\ at[t] = "lock"
  /\ at' = IF call'[t] \in {"reading", "writing"} THEN [at EXCEPT ![t] = "enter"] ELSE at
  /\ UNCHANGED counts

CallLock(t) ==
  /\ \/ t \in Readers /\ RdLock(t)
     \/ t \in Writers /\ WrLock(t)
  /\ InLock(t)

WaitInLock(t) ==
  /\ \/ t \in Readers /\ RdRetest(t)
     \/ t \in Writers /\ WrRetest(t)
  /\ InLock(t)

(* reader_enter_cs, reader_leave_cs *)
ReaderCounts(t) ==
  /\ t \in Readers
  /\ \/ Goto(t, "enter", "check") /\ n_r' = n_r + 1
     \/ Goto(t, "leave", "unlock") /\ n_r' = n_r - 1
  /\ UNCHANGED <<vars, n_w, seen>>

(* writer_enter_cs, writer_leave_cs: a read and a write of n_w, between    *)
(* which other threads run.                                                *)
WriterReads(t) ==
  /\ t \in Writers
  /\ Goto(t, "enter", "entering") \/ Goto(t, "leave", "leaving")
  /\ seen' = [seen EXCEPT ![t] = n_w]
  /\ UNCHANGED <<vars, n_r, n_w>>

WriterCounts(t) ==
  /\ \/ Goto(t, "entering", "check") /\ n_w' = seen[t] + 1
     \/ Goto(t, "leaving", "unlock") /\ n_w' = seen[t] - 1
  /\ UNCHANGED <<vars, n_r, seen>>

(* The states cs_status_check accepts; it aborts the program in any other. *)
StatusValid ==
  \/ n_r = 0 /\ n_w = 0
  \/ n_r > 0 /\ n_w = 0
  \/ n_r = 0 /\ n_w = 1

ExecuteCS(t) == Goto(t, "check", "leave") /\ StatusValid /\ UNCHANGED <<vars, counts>>

LeaveLock(t) == Goto(t, "unlock", "lock") /\ Unlock(t) /\ UNCHANGED counts

Wakes(t) == SpuriousWakeup(t) /\ UNCHANGED <<counts, at>>

Continue(t) ==
  \/ WaitInLock(t) \/ ReaderCounts(t) \/ WriterReads(t) \/ WriterCounts(t)
  \/ ExecuteCS(t) \/ LeaveLock(t)

TestNext == \E t \in Threads : CallLock(t) \/ Continue(t) \/ Wakes(t)

(* A thread inside its loop is eventually run; that it begins another      *)
(* round is not assumed.                                                   *)
TestSpec == TestInit /\ [][TestNext]_testVars /\ \A t \in Threads : WF_testVars(Continue(t))

-------------------------------------------------------------------------------
(* No assertion of cs_status_check fails, although the writers' updates of *)
(* n_w are not atomic and are read by others under another mutex: the lock *)
(* alone orders them.                                                      *)
CsStatusHolds == (\E t \in Threads : at[t] = "check") => StatusValid
===============================================================================
