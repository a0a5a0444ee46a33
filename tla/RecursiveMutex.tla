---------------------------- MODULE RecursiveMutex ----------------------------
(***************************************************************************)
(* PART A's recursive mutex, RecursiveMutex/rec_mutex.c, used by threads   *)
(* that lock it up to MaxDepth times before they unlock it as often.  The  *)
(* counters n and n_waited are uint16_t and wrap at CounterRange.  Both    *)
(* functions run under state_mutex; one action is the code between two     *)
(* points where it is given up.                                            *)
(***************************************************************************)
EXTENDS Integers, FiniteSets

CONSTANTS Lockers,        \* the threads that use the mutex
          NULL,           \* no locking_thread
          CounterRange,   \* 2^16: the values of uint16_t
          MaxDepth        \* the nesting the callers keep to

ASSUME NullIsNoLocker == NULL \notin Lockers
ASSUME LockersFinite == IsFiniteSet(Lockers)
ASSUME RangesAreNumbers == CounterRange \in Nat \ {0, 1} /\ MaxDepth \in Nat \ {0}

(* What the callers have to guarantee for the counters not to wrap: the    *)
(* code does not check it.                                                 *)
RangeSuffices == MaxDepth < CounterRange /\ Cardinality(Lockers) < CounterRange

VARIABLES n,                \* self-locks of the owner
          n_waited,         \* threads in rec_mutex_lock
          locking_thread,   \* the owner or NULL
          mutex_cv,         \* its cv: the threads asleep on it
          waiting,          \* the threads in rec_mutex_lock, asleep or awake
          depth             \* the locks each thread has taken and not given back

rec_mutex == <<n, n_waited, locking_thread, mutex_cv, waiting, depth>>

(* Type correctness, and that neither counter has wrapped. *)
RecMutexTypeOK ==
  /\ n \in 0..MaxDepth
  /\ n_waited \in 0..Cardinality(Lockers)
  /\ locking_thread \in Lockers \cup {NULL}
  /\ waiting \subseteq Lockers
  /\ mutex_cv \subseteq waiting
  /\ depth \in [Lockers -> 0..MaxDepth]

-------------------------------------------------------------------------------
(* rec_mutex_init *)
rec_mutex_init ==
  /\ n = 0 /\ n_waited = 0
  /\ locking_thread = NULL
  /\ mutex_cv = {} /\ waiting = {}
  /\ depth = [t \in Lockers |-> 0]

(* ++ and -- on a uint16_t *)
Up(x) == IF x + 1 = CounterRange THEN 0 ELSE x + 1
Down(x) == IF x = 0 THEN CounterRange - 1 ELSE x - 1

(* The end of rec_mutex_lock for a thread that was not the owner. *)
Acquire(t) ==
  /\ n' = 1
  /\ locking_thread' = t
  /\ depth' = [depth EXCEPT ![t] = @ + 1]

(* rec_mutex_lock called by the owner *)
SelfLock(t) ==
  /\ t \notin waiting /\ depth[t] < MaxDepth
  /\ locking_thread = t
  /\ n' = Up(n)
  /\ depth' = [depth EXCEPT ![t] = @ + 1]
  /\ UNCHANGED <<n_waited, locking_thread, mutex_cv, waiting>>

(* rec_mutex_lock called by another thread, to its return or its cond_wait *)
Lock(t) ==
  /\ t \notin waiting /\ depth[t] < MaxDepth
  /\ locking_thread # t
  /\ \/ /\ n > 0
        /\ n_waited' = Up(n_waited)
        /\ mutex_cv' = mutex_cv \cup {t} /\ waiting' = waiting \cup {t}
        /\ UNCHANGED <<n, locking_thread, depth>>
     \/ /\ n = 0
        /\ Acquire(t)
        /\ UNCHANGED <<n_waited, mutex_cv, waiting>>

(* cond_wait has returned: the loop of rec_mutex_lock goes on. *)
Retest(t) ==
  /\ t \in waiting \ mutex_cv
  /\ \/ /\ n > 0
        /\ mutex_cv' = mutex_cv \cup {t}
        /\ UNCHANGED <<n, n_waited, locking_thread, waiting, depth>>
     \/ /\ n = 0
        /\ n_waited' = Down(n_waited)
        /\ waiting' = waiting \ {t}
        /\ Acquire(t)
        /\ UNCHANGED mutex_cv

(* pthread_cond_signal: one sleeper wakes, if there is one. *)
SignalMutex ==
  \/ mutex_cv = {} /\ mutex_cv' = mutex_cv
  \/ \E t \in mutex_cv : mutex_cv' = mutex_cv \ {t}

(* Names with "Wrong" are variants of the definition that follows, each    *)
(* with a slip the code might have; no part of the model uses them.        *)
WrongUnlock(t) ==   \* signals when more than one thread waits
  /\ t \notin waiting /\ depth[t] > 0 /\ locking_thread = t
  /\ n' = Down(n)
  /\ \/ /\ n' = 0 /\ locking_thread' = NULL
        /\ IF n_waited > 1 THEN SignalMutex ELSE UNCHANGED mutex_cv
     \/ n' # 0 /\ UNCHANGED <<locking_thread, mutex_cv>>
  /\ depth' = [depth EXCEPT ![t] = @ - 1]
  /\ UNCHANGED <<n_waited, waiting>>
WrongUnlockKeepsName(t) ==   \* does not reset locking_thread
  /\ t \notin waiting /\ depth[t] > 0 /\ locking_thread = t
  /\ n' = Down(n)
  /\ IF n' = 0 /\ n_waited > 0 THEN SignalMutex ELSE UNCHANGED mutex_cv
  /\ depth' = [depth EXCEPT ![t] = @ - 1]
  /\ UNCHANGED <<n_waited, waiting, locking_thread>>

(* rec_mutex_unlock, by a thread that has locked; the assertion stops any  *)
(* other thread.                                                           *)
Unlock(t) ==
  /\ t \notin waiting /\ depth[t] > 0
  /\ locking_thread = t     \* the assertion of line 38
  /\ n' = Down(n)
  /\ \/ /\ n' = 0
        /\ locking_thread' = NULL
        /\ IF n_waited > 0 THEN SignalMutex ELSE UNCHANGED mutex_cv
     \/ n' # 0 /\ UNCHANGED <<locking_thread, mutex_cv>>
  /\ depth' = [depth EXCEPT ![t] = @ - 1]
  /\ UNCHANGED <<n_waited, waiting>>

SpuriousRetest(t) ==
  /\ t \in mutex_cv
  /\ mutex_cv' = mutex_cv \ {t}
  /\ UNCHANGED <<n, n_waited, locking_thread, waiting, depth>>

RecMutexNext ==
  \E t \in Lockers : SelfLock(t) \/ Lock(t) \/ Retest(t) \/ Unlock(t) \/ SpuriousRetest(t)

RecMutexSpec == rec_mutex_init /\ [][RecMutexNext]_rec_mutex

-------------------------------------------------------------------------------
(* Only one thread has locks it has not given back, it is the one the      *)
(* mutex names, and n counts them: so the assertion of rec_mutex_unlock    *)
(* never fails for a thread that has locked.                               *)
DepthExact ==
  \A t \in Lockers : depth[t] = IF locking_thread = t THEN n ELSE 0

(* A free mutex has no owner's name left in it, and the waiting counter    *)
(* that decides about the signal is exact.                                 *)
FreeIsClean ==
  /\ n = 0 <=> locking_thread = NULL
  /\ n_waited = Cardinality(waiting)

(* The mutex has one owner at most, n counts its locks, and nothing of the *)
(* last owner is left when it is free, by which the next one gets in.      *)
OwnerExact == DepthExact /\ FreeIsClean

(* No wakeup is lost, although unlock signals one thread only and a third  *)
(* one may take the mutex before the signalled one runs: the mutex is not  *)
(* free with only sleepers in rec_mutex_lock.                              *)
NoLostWakeup == (n = 0 /\ waiting # {}) => waiting \ mutex_cv # {}
===============================================================================
