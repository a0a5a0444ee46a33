---------------------------- MODULE ThreadBarrier -----------------------------
(***************************************************************************)
(* PART A's barrier, ThreadBarrier/threadbarrier.c (PART B's threadlib.c   *)
(* has the same functions), and the threads of its main.c, which all meet  *)
(* at it Rounds times.  thread_barrier_wait runs under the barrier's mutex *)
(* and one action is the code between two points where it gives it up.     *)
(***************************************************************************)
EXTENDS Integers, FiniteSets

CONSTANTS Threads,
          Rounds       \* the calls of thread_barrier_wait in the thread function

ASSUME ThreadsFinite == IsFiniteSet(Threads) /\ Threads # {}
ASSUME RoundsIsNumber == Rounds \in Nat

(* main.c initialises the barrier for all of its threads. *)
threshold_count == Cardinality(Threads)

VARIABLES curr_wait_count,
          is_ready_again,
          pc,          \* where each thread is in thread_barrier_wait
          cv,          \* the threads asleep on cv
          busy_cv,     \* the threads asleep on busy_cv
          begun,       \* ghost: calls of thread_barrier_wait of each thread
          done,        \* ghost: the calls that have returned
          disturbed    \* ghost: some sleeper of cv woke without a signal

vars == <<curr_wait_count, is_ready_again, pc, cv, busy_cv, begun, done, disturbed>>

(* out: not in the function; busy, wait, release: in, or just out of, the  *)
(* cond_wait of line 29, 34 and 45.                                        *)
Places == {"out", "busy", "wait", "release"}

In(place) == {t \in Threads : pc[t] = place}

TypeOK ==
  /\ curr_wait_count \in Nat
  /\ is_ready_again \in BOOLEAN
  /\ pc \in [Threads -> Places]
  /\ cv \subseteq In("wait") \cup In("release")
  /\ busy_cv \subseteq In("busy")
  /\ begun \in [Threads -> 0..Rounds] /\ done \in [Threads -> 0..Rounds]
  /\ disturbed \in BOOLEAN

-------------------------------------------------------------------------------
(* thread_barrier_init *)
Init ==
  /\ curr_wait_count = 0
  /\ is_ready_again = TRUE
  /\ pc = [t \in Threads |-> "out"]
  /\ cv = {} /\ busy_cv = {}
  /\ begun = [t \in Threads |-> 0] /\ done = [t \in Threads |-> 0]
  /\ disturbed = FALSE

(* pthread_cond_signal on cv, which wakes one of the sleepers, if any; the *)
(* waiters and the releasing thread sleep on the same condition variable.  *)
AfterSignal(sleepers) == IF sleepers = {} THEN {{}} ELSE {sleepers \ {u} : u \in sleepers}

Returns(t) ==
  /\ pc' = [pc EXCEPT ![t] = "out"]
  /\ done' = [done EXCEPT ![t] = @ + 1]

(* Names with "Wrong" are variants of the definition that follows, each    *)
(* with a slip the code might have; no part of the model uses them.        *)
WrongReleaseLoop(t) ==   \* opens the barrier without a broadcast on busy_cv
  \/ /\ curr_wait_count > 0
     /\ is_ready_again' = FALSE
     /\ \E rest \in AfterSignal(cv) : cv' = rest \cup {t}
     /\ pc' = [pc EXCEPT ![t] = "release"]
     /\ UNCHANGED <<busy_cv, done>>
  \/ /\ curr_wait_count = 0
     /\ is_ready_again' = TRUE
     /\ Returns(t)
     /\ UNCHANGED <<cv, busy_cv>>

(* The loop of the last thread to arrive: while some thread is counted as  *)
(* waiting, signal one and sleep on cv oneself; then open the barrier.     *)
ReleaseLoop(t) ==
  \/ /\ curr_wait_count > 0
     /\ is_ready_again' = FALSE
     /\ \E rest \in AfterSignal(cv) : cv' = rest \cup {t}
     /\ pc' = [pc EXCEPT ![t] = "release"]
     /\ UNCHANGED <<busy_cv, done>>
  \/ /\ curr_wait_count = 0
     /\ is_ready_again' = TRUE
     /\ busy_cv' = {}
     /\ Returns(t)
     /\ UNCHANGED cv

WrongArriveOneShort(t) ==   \* takes itself for the last one too early
  \/ /\ ~is_ready_again
     /\ pc' = [pc EXCEPT ![t] = "busy"]
     /\ busy_cv' = busy_cv \cup {t}
     /\ UNCHANGED <<curr_wait_count, is_ready_again, cv, done>>
  \/ /\ is_ready_again
     /\ curr_wait_count + 1 < threshold_count - 1
     /\ curr_wait_count' = curr_wait_count + 1
     /\ pc' = [pc EXCEPT ![t] = "wait"]
     /\ cv' = cv \cup {t}
     /\ UNCHANGED <<is_ready_again, busy_cv, done>>
  \/ /\ is_ready_again
     /\ curr_wait_count + 1 >= threshold_count - 1
     /\ ReleaseLoop(t)
     /\ UNCHANGED curr_wait_count

(* thread_barrier_wait from the test of line 27 to the return or the next  *)
(* cond_wait.                                                              *)
Arrive(t) ==
  \/ /\ ~is_ready_again
     /\ pc' = [pc EXCEPT ![t] = "busy"]
     /\ busy_cv' = busy_cv \cup {t}
     /\ UNCHANGED <<curr_wait_count, is_ready_again, cv, done>>
  \/ /\ is_ready_again
     /\ curr_wait_count + 1 < threshold_count
     /\ curr_wait_count' = curr_wait_count + 1
     /\ pc' = [pc EXCEPT ![t] = "wait"]
     /\ cv' = cv \cup {t}
     /\ UNCHANGED <<is_ready_again, busy_cv, done>>
  \/ /\ is_ready_again
     /\ curr_wait_count + 1 >= threshold_count
     /\ ReleaseLoop(t)
     /\ UNCHANGED curr_wait_count

Call(t) ==
  /\ pc[t] = "out" /\ begun[t] < Rounds
  /\ begun' = [begun EXCEPT ![t] = @ + 1]
  /\ Arrive(t)
  /\ UNCHANGED disturbed

(* A thread turned away by a barrier that is emptying tries again. *)
BusyRetest(t) ==
  /\ pc[t] = "busy" /\ t \notin busy_cv
  /\ Arrive(t)
  /\ UNCHANGED <<begun, disturbed>>

(* A waiter whose cond_wait has returned takes that for the opening of the *)
(* barrier, passes the signal on and leaves.                               *)
WrongWaitReturns(t) ==   \* does not pass the signal on
  /\ pc[t] = "wait" /\ t \notin cv
  /\ curr_wait_count' = curr_wait_count - 1
  /\ Returns(t)
  /\ UNCHANGED <<cv, is_ready_again, busy_cv, begun, disturbed>>
WrongWaitReturnsUncounted(t) ==   \* does not lower the count
  /\ pc[t] = "wait" /\ t \notin cv
  /\ cv' \in AfterSignal(cv)
  /\ Returns(t)
  /\ UNCHANGED <<curr_wait_count, is_ready_again, busy_cv, begun, disturbed>>

WaitReturns(t) ==
  /\ pc[t] = "wait" /\ t \notin cv
  /\ curr_wait_count' = curr_wait_count - 1
  /\ cv' \in AfterSignal(cv)
  /\ Returns(t)
  /\ UNCHANGED <<is_ready_again, busy_cv, begun, disturbed>>

(* The releasing thread's cond_wait has returned. *)
ReleaseRetest(t) ==
  /\ pc[t] = "release" /\ t \notin cv
  /\ ReleaseLoop(t)
  /\ UNCHANGED <<curr_wait_count, begun, disturbed>>

SpuriousWakeup(t) ==
  /\ \/ t \in cv /\ cv' = cv \ {t} /\ disturbed' = TRUE /\ UNCHANGED busy_cv
     \/ t \in busy_cv /\ busy_cv' = busy_cv \ {t} /\ UNCHANGED <<cv, disturbed>>
  /\ UNCHANGED <<curr_wait_count, is_ready_again, pc, begun, done>>

Run(t) == Call(t) \/ BusyRetest(t) \/ WaitReturns(t) \/ ReleaseRetest(t)

Next == \E t \in Threads : Run(t) \/ SpuriousWakeup(t)

Spec == Init /\ [][Next]_vars

(* Every thread that can run is eventually run. *)
FairSpec == Spec /\ \A t \in Threads : WF_vars(Run(t))

-------------------------------------------------------------------------------
(* The state is well formed.  The count on which the last arrival and the  *)
(* releasing loop are decided is that of the threads in the waiters'       *)
(* cond_wait, whatever wakes them, and the barrier is closed exactly while *)
(* a thread empties it.                                                    *)
CountExact ==
  /\ TypeOK
  /\ curr_wait_count = Cardinality(In("wait"))
  /\ is_ready_again <=> In("release") = {}

(* No thread leaves its k-th meeting before every thread has come to it.   *)
(* It rests on cond_wait not returning without a signal: the waiters do    *)
(* not test anything when they wake.                                       *)
NobodyEarly == ~disturbed => \A t, u \in Threads : done[t] <= begun[u]

(* One wakeup is handed from thread to thread while the barrier empties,   *)
(* and none exists while it fills: were there two, the releasing thread    *)
(* would run beside a leaving one; were there none, nobody would run.      *)
OneAwake ==
  ~disturbed =>
     Cardinality((In("wait") \cup In("release")) \ cv) = IF is_ready_again THEN 0 ELSE 1

(* All threads come through all their meetings. *)
AllPass == <>(disturbed \/ \A t \in Threads : done[t] = Rounds)
===============================================================================
