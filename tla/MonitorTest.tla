----------------------------- MODULE MonitorTest ------------------------------
(***************************************************************************)
(* Monitor/test_custom.c: reader and writer threads that loop for ever     *)
(* through the lock of MonitorRWLock, count themselves inside in n_r and   *)
(* n_w, and assert on the two counts.                                      *)
(***************************************************************************)
EXTENDS MonitorRWLock

CONSTANTS Readers, Writers   \* the threads that run read_thread_fn, write_thread_fn

ASSUME RolesPartitionThreads == Readers \cup Writers = Threads /\ Readers \cap Writers = {}

VARIABLES n_r, n_w,   \* the counts of the test, under state_check_mutex
          at          \* what each thread does next: "lock", "enter", "check", "leave", "unlock"

testVars == <<vars, n_r, n_w, at>>

(* main *)
TestInit ==
  /\ Init
  /\ n_r = 0 /\ n_w = 0
  /\ at = [t \in Threads |-> "lock"]

Goto(t, from, to) == at[t] = from /\ at' = [at EXCEPT ![t] = to]

(* A thread in the lock function comes out of it when it holds the lock. *)
LockReturns(t) ==
  at' = IF call'[t] \in {"reading", "writing"} THEN [at EXCEPT ![t] = "enter"] ELSE at

(* The calls of the lock functions, and what goes on in them after a wait. *)
CallLock(t) ==
  /\ at[t] = "lock"
  /\ \/ t \in Readers /\ RdLock(t)
     \/ t \in Writers /\ WrLock(t)
  /\ LockReturns(t)
  /\ UNCHANGED <<n_r, n_w>>

WaitInLock(t) ==
  /\ at[t] = "lock"
  /\ \/ t \in Readers /\ RdRetest(t)
     \/ t \in Writers /\ WrRetest(t)
  /\ LockReturns(t)
  /\ UNCHANGED <<n_r, n_w>>

(* reader_enter_cs and writer_enter_cs; reader_leave_cs and writer_leave_cs *)
Recount(t, d) ==
  /\ n_r' = IF t \in Readers THEN n_r + d ELSE n_r
  /\ n_w' = IF t \in Writers THEN n_w + d ELSE n_w
  /\ UNCHANGED vars

EnterCS(t) == Goto(t, "enter", "check") /\ Recount(t, 1)
LeaveCS(t) == Goto(t, "leave", "unlock") /\ Recount(t, -1)

(* The states cs_status_check accepts; it aborts the program in any other. *)
StatusValid ==
  /\ n_r >= 0 /\ n_w >= 0
  /\ \/ n_r = 0 /\ n_w = 0
     \/ n_r > 0 /\ n_r <= MaxReaders /\ n_w = 0
     \/ n_r = 0 /\ n_w > 0 /\ n_w <= MaxWriters

ExecuteCS(t) == Goto(t, "check", "leave") /\ StatusValid /\ UNCHANGED <<vars, n_r, n_w>>

LeaveLock(t) == Goto(t, "unlock", "lock") /\ Unlock(t) /\ UNCHANGED <<n_r, n_w>>

Wakes(t) == SpuriousWakeup(t) /\ UNCHANGED <<n_r, n_w, at>>

Continue(t) == WaitInLock(t) \/ EnterCS(t) \/ ExecuteCS(t) \/ LeaveCS(t) \/ LeaveLock(t)

TestNext == \E t \in Threads : CallLock(t) \/ Continue(t) \/ Wakes(t)

(* A thread inside its loop is eventually run.  That it begins another     *)
(* round is not assumed, so that what is shown of the waiting threads does *)
(* not rest on the others coming back.                                     *)
TestSpec == TestInit /\ [][TestNext]_testVars /\ \A t \in Threads : WF_testVars(Continue(t))

-------------------------------------------------------------------------------
(* No assertion of cs_status_check fails, whoever calls it and whenever:   *)
(* the counts of the test lag behind the lock's own by the threads between *)
(* a lock function and the count, yet never show what the lock forbids.    *)
CsStatusHolds == (\E t \in Threads : at[t] = "check") => StatusValid
===============================================================================
