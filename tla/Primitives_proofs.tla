--------------------------- MODULE Primitives_proofs ---------------------------
(***************************************************************************)
(* PART A's two primitives made of a mutex, a counter and a condition      *)
(* variable: the semaphore for any number of threads, permits, posts and   *)
(* spurious wakeups, and the recursive mutex for any number of threads and *)
(* any nesting, as long as the uint16_t counters can hold them             *)
(* (RangeSuffices).  They share no state; their proofs count sets of       *)
(* threads alike.                                                          *)
(***************************************************************************)
EXTENDS Semaphore, RecursiveMutex, FiniteSetTheorems, TLAPS

(* The subsets of a finite set can be counted, and one more or less counts *)
(* one.                                                                    *)
LEMMA Counting ==
  ASSUME NEW T, IsFiniteSet(T), NEW S, S \subseteq T
  PROVE  /\ Cardinality(S) \in Nat /\ Cardinality(T) \in Nat
         /\ Cardinality(S) <= Cardinality(T)
         /\ Cardinality(S) = 0 <=> S = {}
         /\ \A t \in T \ S : Cardinality(S \cup {t}) = Cardinality(S) + 1
         /\ \A t \in S : Cardinality(S \ {t}) = Cardinality(S) - 1
<1>1. IsFiniteSet(S) /\ Cardinality(S) <= Cardinality(T)
  BY FS_Subset
<1>2. Cardinality(S) \in Nat /\ Cardinality(T) \in Nat
  BY <1>1, FS_CardinalityType
<1>3. Cardinality(S) = 0 <=> S = {}
  BY <1>1, FS_EmptySet
<1>4. \A t \in T \ S : Cardinality(S \cup {t}) = Cardinality(S) + 1
  BY <1>1, FS_AddElement
<1>5. \A t \in S : Cardinality(S \ {t}) = Cardinality(S) - 1
  BY <1>1, FS_RemoveElement
<1> QED
  BY <1>1, <1>2, <1>3, <1>4, <1>5

LEMMA CountingThreads ==
  ASSUME NEW S, S \subseteq Threads
  PROVE  /\ Cardinality(S) \in Nat /\ Cardinality(Threads) \in Nat
         /\ Cardinality(S) <= Cardinality(Threads)
         /\ Cardinality(S) = 0 <=> S = {}
         /\ \A t \in Threads \ S : Cardinality(S \cup {t}) = Cardinality(S) + 1
         /\ \A t \in S : Cardinality(S \ {t}) = Cardinality(S) - 1
  BY Counting, ThreadsFinite

LEMMA CountingLockers ==
  ASSUME NEW S, S \subseteq Lockers
  PROVE  /\ Cardinality(S) \in 0 .. Cardinality(Lockers)
         /\ Cardinality(S) = 0 <=> S = {}
         /\ \A t \in Lockers \ S : Cardinality(S \cup {t}) = Cardinality(S) + 1
         /\ \A t \in S : Cardinality(S \ {t}) = Cardinality(S) - 1
<1>1. Cardinality(S) \in Nat /\ Cardinality(Lockers) \in Nat /\ Cardinality(S) <= Cardinality(Lockers)
  BY Counting, LockersFinite
<1> QED
  BY <1>1, Counting, LockersFinite

LEMMA NumberOfLockers == Cardinality(Lockers) \in Nat
  BY LockersFinite, FS_CardinalityType

-------------------------------------------------------------------------------
(* The semaphore. *)

(* The types without the bounds of the counter, which rest on the account. *)
Typed ==
  /\ permit_counter \in Int
  /\ cv \subseteq Threads /\ awake \subseteq Threads \ cv
  /\ posts \in 0..MaxPosts /\ spurious \in 0..MaxSpurious
  /\ passed \in Nat

(* The counter is what was there and posted, less the waits that have      *)
(* begun: those that have returned and those that are still under way.     *)
Account ==
  permit_counter =
    InitialPermits + posts - passed - Cardinality(cv) - Cardinality(awake)

(* Inductive: what sema_post sees of the sleepers is CounterCountsSleepers. *)
IInv == Typed /\ Account /\ CounterCountsSleepers

LEMMA Counted ==
  ASSUME Typed
  PROVE  Cardinality(cv) \in Nat /\ Cardinality(awake) \in Nat /\ (Cardinality(cv) = 0 <=> cv = {})
  BY CountingThreads DEF Typed

(* A sleeper that wakes moves from one set to the other. *)
LEMMA WakeMoves ==
  ASSUME Typed, NEW t \in Threads, Wake(t)
  PROVE  /\ cv' \subseteq Threads /\ awake' \subseteq Threads \ cv'
         /\ Cardinality(cv') = Cardinality(cv) - 1
         /\ Cardinality(awake') = Cardinality(awake) + 1
<1>1. t \in cv /\ t \in Threads \ awake /\ cv' = cv \ {t} /\ awake' = awake \cup {t}
  BY DEF Typed, Wake
<1> QED
  BY <1>1, CountingThreads DEF Typed

LEMMA Initially == Init => IInv
<1> SUFFICES ASSUME Init PROVE IInv
  OBVIOUS
<1>1. Cardinality({}) = 0
  BY FS_EmptySet
<1> QED
  BY <1>1, CountsAreNumbers DEF Init, IInv, Typed, Account, CounterCountsSleepers, Positive

(* sema_wait up to its return or its cond_wait *)
LEMMA WaitKeeps == ASSUME IInv, NEW t \in Threads, Wait(t) PROVE IInv'
<1> USE DEF IInv, Typed, Account, CounterCountsSleepers, Positive
<1>1. Cardinality(cv) \in Nat /\ Cardinality(awake) \in Nat /\ (Cardinality(cv) = 0 <=> cv = {})
  BY Counted
<1>2. CASE permit_counter' < 0
  <2>1. /\ permit_counter' = permit_counter - 1 /\ cv' = cv \cup {t}
        /\ t \in Threads \ cv /\ t \notin awake
        /\ UNCHANGED <<awake, posts, spurious, passed>>
    BY <1>2 DEF Wait
  <2>2. Cardinality(cv') = Cardinality(cv) + 1
    BY <2>1, CountingThreads
  <2> QED
    BY <1>1, <1>2, <2>1, <2>2, CountsAreNumbers
<1>3. CASE permit_counter' >= 0
  <2>1. /\ permit_counter' = permit_counter - 1 /\ passed' = passed + 1
        /\ UNCHANGED <<cv, awake, posts, spurious>>
    BY <1>3 DEF Wait
  <2> QED
    BY <1>1, <1>3, <2>1, CountsAreNumbers
<1> QED
  BY <1>2, <1>3 DEF Wait

LEMMA WaitReturnsKeeps == ASSUME IInv, NEW t \in Threads, WaitReturns(t) PROVE IInv'
<1> USE DEF IInv, Typed, Account, CounterCountsSleepers
<1>1. Cardinality(cv) \in Nat /\ Cardinality(awake) \in Nat
  BY Counted
<1>2. Cardinality(awake') = Cardinality(awake) - 1
  BY CountingThreads DEF WaitReturns
<1> QED
  BY <1>1, <1>2, CountsAreNumbers DEF WaitReturns

(* sema_post, with and without a sleeper to wake *)
LEMMA PostKeeps == ASSUME IInv, NEW t \in Threads, Post(t) PROVE IInv'
<1> USE DEF IInv, Typed, Account, CounterCountsSleepers, Positive
<1>1. Cardinality(cv) \in Nat /\ Cardinality(awake) \in Nat /\ (Cardinality(cv) = 0 <=> cv = {})
  BY Counted
<1>2. /\ permit_counter' = permit_counter + 1
      /\ posts' = posts + 1 /\ posts' \in 0..MaxPosts
      /\ UNCHANGED <<passed, spurious>>
  BY CountsAreNumbers DEF Post
<1>3. CASE UNCHANGED <<cv, awake>> /\ (cv = {} \/ permit_counter' > 0)
  <2>1. permit_counter' > 0 => Cardinality(cv) = 0
    BY <1>1, <1>2
  <2>2. Cardinality(cv) = 0
    BY <1>1, <1>3, <2>1
  <2> QED
    BY <1>1, <1>2, <1>3, <2>2, CountsAreNumbers
<1>4. CASE permit_counter' <= 0 /\ \E u \in cv : Wake(u)
  <2>1. /\ cv' \subseteq Threads /\ awake' \subseteq Threads \ cv'
        /\ Cardinality(cv') = Cardinality(cv) - 1
        /\ Cardinality(awake') = Cardinality(awake) + 1
    BY <1>4, WakeMoves
  <2> QED
    BY <1>1, <1>2, <1>4, <2>1, CountsAreNumbers
<1> QED
  BY <1>2, <1>3, <1>4 DEF Post, Signal

LEMMA SpuriousKeeps == ASSUME IInv, NEW t \in Threads, SpuriousWakeup(t) PROVE IInv'
<1> USE DEF IInv, Typed, Account, CounterCountsSleepers, Positive
<1>1. Cardinality(cv) \in Nat /\ Cardinality(awake) \in Nat
  BY Counted
<1>2. /\ cv' \subseteq Threads /\ awake' \subseteq Threads \ cv'
      /\ Cardinality(cv') = Cardinality(cv) - 1
      /\ Cardinality(awake') = Cardinality(awake) + 1
  BY WakeMoves DEF SpuriousWakeup
<1>3. spurious' = spurious + 1 /\ spurious' \in 0..MaxSpurious
  BY CountsAreNumbers DEF SpuriousWakeup
<1> QED
  BY <1>1, <1>2, <1>3, CountsAreNumbers DEF SpuriousWakeup

LEMMA StepKeeps == IInv /\ [Next]_vars => IInv'
<1> SUFFICES ASSUME IInv, [Next]_vars PROVE IInv'
  OBVIOUS
<1>1. CASE UNCHANGED vars
  BY <1>1 DEF vars, IInv, Typed, Account, CounterCountsSleepers
<1> QED
  BY <1>1, WaitKeeps, WaitReturnsKeeps, PostKeeps, SpuriousKeeps DEF Next

(* The inductive invariant holds. *)
THEOREM Invariant == Spec => []IInv
  BY Initially, StepKeeps, PTL DEF Spec

-------------------------------------------------------------------------------
(* Type correctness, with the counter between minus the waits that may be  *)
(* pending and the permits that were ever there.                           *)
THEOREM TypeCorrect == Spec => []TypeOK
<1>1. ASSUME IInv PROVE TypeOK
  <2>1. Cardinality(cv) \in Nat /\ Cardinality(awake) \in Nat
    BY <1>1, Counted DEF IInv
  <2>2. Cardinality(cv) <= Cardinality(Threads) /\ Cardinality(Threads) \in Nat
    BY <1>1, CountingThreads DEF IInv, Typed
  <2>3. permit_counter <= InitialPermits + posts
    BY <1>1, <2>1, CountsAreNumbers DEF IInv, Typed, Account
  <2>4. permit_counter >= -(Cardinality(Threads) + spurious)
    BY <1>1, <2>1, <2>2 DEF IInv, Typed, CounterCountsSleepers, Positive
  <2> QED
    BY <1>1, <2>2, <2>3, <2>4, CountsAreNumbers DEF IInv, Typed, TypeOK
<1> QED
  BY Invariant, <1>1, PTL

(* The counter of sema.c tells sema_post of every sleeper.                 *)
THEOREM SleepersCounted == Spec => []CounterCountsSleepers
<1>1. IInv => CounterCountsSleepers
  BY DEF IInv
<1> QED
  BY Invariant, <1>1, PTL

(* Permits are conserved; each spurious wakeup costs one at most.          *)
THEOREM Conservation == Spec => []PermitsConserved
<1>1. ASSUME IInv PROVE PermitsConserved
  <2>1. Cardinality(cv) \in Nat /\ Cardinality(awake) \in Nat
    BY <1>1, Counted DEF IInv
  <2>2. passed + Cardinality(awake) + Positive(permit_counter) - InitialPermits - posts
          = Positive(-permit_counter) - Cardinality(cv)
    BY <1>1, <2>1, CountsAreNumbers DEF IInv, Typed, Account, Positive
  <2> QED
    BY <1>1, <2>2 DEF IInv, CounterCountsSleepers, PermitsConserved
<1> QED
  BY Invariant, <1>1, PTL
-------------------------------------------------------------------------------
(* The recursive mutex. *)

(* Inductive: that unlock's counter reaches 0 with the owner's last lock   *)
(* is DepthExact, and that its signal is sent when needed is FreeIsClean.  *)
RecMutexInv == RecMutexTypeOK /\ DepthExact /\ FreeIsClean /\ NoLostWakeup

LEMMA RecMutexInitially == rec_mutex_init => RecMutexInv
<1> SUFFICES ASSUME rec_mutex_init PROVE RecMutexInv
  OBVIOUS
<1>1. Cardinality({}) = 0
  BY FS_EmptySet
<1> QED
  BY <1>1, NumberOfLockers, NullIsNoLocker, RangesAreNumbers
     DEF rec_mutex_init, RecMutexInv, RecMutexTypeOK, DepthExact, FreeIsClean, NoLostWakeup

(* The owner locks again. *)
LEMMA SelfLockKeeps ==
  ASSUME RecMutexInv, RangeSuffices, NEW t \in Lockers, SelfLock(t) PROVE RecMutexInv'
<1> USE DEF RecMutexInv, RecMutexTypeOK, DepthExact, FreeIsClean, NoLostWakeup
<1>1. n = depth[t] /\ n > 0
  BY NullIsNoLocker DEF SelfLock
<1>2. n' = n + 1 /\ n' \in 0..MaxDepth
  BY <1>1, RangesAreNumbers DEF SelfLock, Up, RangeSuffices
<1>3. depth[t] + 1 = n' /\ depth' = [depth EXCEPT ![t] = depth[t] + 1]
  BY <1>1, <1>2 DEF SelfLock
<1>4. depth' = [depth EXCEPT ![t] = n'] /\ depth' \in [Lockers -> 0..MaxDepth]
  BY <1>2, <1>3
<1>5. RecMutexTypeOK'
  BY <1>2, <1>4 DEF SelfLock
<1>6. DepthExact'
  BY <1>1, <1>2, <1>4 DEF SelfLock
<1> QED
  BY <1>1, <1>2, <1>5, <1>6 DEF SelfLock

(* A thread gets the free mutex: nobody has a lock that is not given back. *)
LEMMA AcquireKeeps ==
  ASSUME RecMutexInv, NEW t \in Lockers, n = 0, Acquire(t)
  PROVE  /\ n' = 1 /\ n' \in 0..MaxDepth
         /\ locking_thread' \in Lockers
         /\ depth' \in [Lockers -> 0..MaxDepth]
         /\ DepthExact'
<1> USE DEF RecMutexInv, RecMutexTypeOK, DepthExact, FreeIsClean
<1>1. \A u \in Lockers : depth[u] = 0
  BY NullIsNoLocker
<1>2. depth[t] + 1 = 1 /\ depth' = [depth EXCEPT ![t] = depth[t] + 1]
  BY <1>1 DEF Acquire
<1>3. depth' = [depth EXCEPT ![t] = 1]
  BY <1>2
<1>4. 1 \in 0..MaxDepth
  BY RangesAreNumbers
<1> QED
  BY <1>1, <1>3, <1>4 DEF Acquire

(* Another thread calls rec_mutex_lock. *)
LEMMA LockKeeps ==
  ASSUME RecMutexInv, RangeSuffices, NEW t \in Lockers, Lock(t) PROVE RecMutexInv'
<1> USE DEF RecMutexInv, RecMutexTypeOK
<1>1. CASE n > 0
  <2>1. /\ n_waited' = Up(n_waited)
        /\ mutex_cv' = mutex_cv \cup {t} /\ waiting' = waiting \cup {t} /\ t \notin waiting
        /\ UNCHANGED <<n, locking_thread, depth>>
    BY <1>1 DEF Lock
  <2>2. Cardinality(waiting') = Cardinality(waiting) + 1 /\ Cardinality(waiting') <= Cardinality(Lockers)
    BY <2>1, CountingLockers
  <2>3. n_waited' = n_waited + 1 /\ n_waited' \in 0..Cardinality(Lockers)
    BY <2>1, <2>2, NumberOfLockers, RangesAreNumbers DEF Up, RangeSuffices, FreeIsClean
  <2>4. n_waited' = Cardinality(waiting')
    BY <2>2, <2>3 DEF FreeIsClean
  <2> QED
    BY <1>1, <2>1, <2>3, <2>4 DEF DepthExact, FreeIsClean, NoLostWakeup
<1>2. CASE n = 0
  <2>1. Acquire(t) /\ UNCHANGED <<n_waited, mutex_cv, waiting>>
    BY <1>2 DEF Lock
  <2>2. /\ n' = 1 /\ n' \in 0..MaxDepth /\ locking_thread' \in Lockers
        /\ depth' \in [Lockers -> 0..MaxDepth] /\ DepthExact'
    BY <1>2, <2>1, AcquireKeeps
  <2> QED
    BY <2>1, <2>2, NullIsNoLocker DEF FreeIsClean, NoLostWakeup
<1> QED
  BY <1>1, <1>2

(* A thread goes on after its cond_wait. *)
LEMMA RetestKeeps ==
  ASSUME RecMutexInv, NEW t \in Lockers, Retest(t) PROVE RecMutexInv'
<1> USE DEF RecMutexInv, RecMutexTypeOK
<1>1. CASE n > 0
  BY <1>1 DEF Retest, DepthExact, FreeIsClean, NoLostWakeup
<1>2. CASE n = 0
  <2>1. /\ n_waited' = Down(n_waited) /\ waiting' = waiting \ {t} /\ t \in waiting
        /\ Acquire(t) /\ mutex_cv' = mutex_cv /\ t \notin mutex_cv
    BY <1>2 DEF Retest
  <2>2. Cardinality(waiting') = Cardinality(waiting) - 1
    BY <2>1, CountingLockers
  <2>3. n_waited > 0
    BY <2>1, CountingLockers DEF FreeIsClean
  <2>4. n_waited' = n_waited - 1 /\ n_waited' \in 0..Cardinality(Lockers)
    BY <2>1, <2>3, NumberOfLockers DEF Down
  <2>5. n_waited' = Cardinality(waiting')
    BY <2>2, <2>4 DEF FreeIsClean
  <2>6. /\ n' = 1 /\ n' \in 0..MaxDepth /\ locking_thread' \in Lockers
        /\ depth' \in [Lockers -> 0..MaxDepth] /\ DepthExact'
    BY <1>2, <2>1, AcquireKeeps
  <2> QED
    BY <2>1, <2>4, <2>5, <2>6, NullIsNoLocker DEF FreeIsClean, NoLostWakeup
<1> QED
  BY <1>1, <1>2 DEF Retest

(* The owner gives one lock back; with the last, a sleeper is woken unless *)
(* nobody waits.                                                           *)
LEMMA UnlockKeeps ==
  ASSUME RecMutexInv, NEW t \in Lockers, Unlock(t) PROVE RecMutexInv'
<1> USE DEF RecMutexInv, RecMutexTypeOK
<1>1. n = depth[t] /\ n > 0 /\ locking_thread = t
  BY DEF Unlock, DepthExact
<1>2. n' = n - 1 /\ n' \in 0..MaxDepth
  BY <1>1, RangesAreNumbers DEF Unlock, Down
<1>3. depth' = [depth EXCEPT ![t] = n'] /\ depth' \in [Lockers -> 0..MaxDepth]
  BY <1>1, <1>2 DEF Unlock
<1>4. mutex_cv' \subseteq mutex_cv /\ UNCHANGED <<n_waited, waiting>>
  BY DEF Unlock, SignalMutex
<1>5. CASE n' = 0
  <2>1. locking_thread' = NULL /\ (n_waited > 0 => SignalMutex)
    BY <1>5 DEF Unlock
  <2>2. \A u \in Lockers : depth'[u] = 0
    BY <1>1, <1>3, <1>5 DEF DepthExact
  <2>3. waiting # {} => n_waited > 0
    BY CountingLockers DEF FreeIsClean
  <2>4. waiting # {} => waiting \ mutex_cv' # {}
    BY <2>1, <2>3 DEF SignalMutex
  <2> QED
    BY <1>2, <1>3, <1>4, <1>5, <2>1, <2>2, <2>4, NullIsNoLocker
       DEF DepthExact, FreeIsClean, NoLostWakeup
<1>6. CASE n' # 0
  <2>1. UNCHANGED <<locking_thread, mutex_cv>>
    BY <1>6 DEF Unlock
  <2> QED
    BY <1>1, <1>2, <1>3, <1>4, <1>6, <2>1 DEF DepthExact, FreeIsClean, NoLostWakeup
<1> QED
  BY <1>5, <1>6

LEMMA RecMutexStepKeeps == RecMutexInv /\ RangeSuffices /\ [RecMutexNext]_rec_mutex => RecMutexInv'
<1> SUFFICES ASSUME RecMutexInv, RangeSuffices, [RecMutexNext]_rec_mutex PROVE RecMutexInv'
  OBVIOUS
<1>1. CASE UNCHANGED rec_mutex
  BY <1>1 DEF rec_mutex, RecMutexInv, RecMutexTypeOK, DepthExact, FreeIsClean, NoLostWakeup
<1>2. ASSUME NEW t \in Lockers, SpuriousRetest(t) PROVE RecMutexInv'
  BY <1>2 DEF SpuriousRetest, RecMutexInv, RecMutexTypeOK, DepthExact, FreeIsClean, NoLostWakeup
<1> QED
  BY <1>1, <1>2, SelfLockKeeps, LockKeeps, RetestKeeps, UnlockKeeps DEF RecMutexNext

-------------------------------------------------------------------------------
(* The inductive invariant holds; the theorems after it are its parts.     *)
THEOREM RecMutexInvariant == ASSUME RangeSuffices PROVE RecMutexSpec => []RecMutexInv
<1>1. RangeSuffices /\ RecMutexInv /\ [RecMutexNext]_rec_mutex => RecMutexInv'
  BY RecMutexStepKeeps
<1> QED
  BY RecMutexInitially, <1>1, PTL DEF RecMutexSpec

(* Type correctness, with both counters in range: neither ever wraps.      *)
THEOREM RecMutexTypeCorrect == ASSUME RangeSuffices PROVE RecMutexSpec => []RecMutexTypeOK
<1>1. RecMutexInv => RecMutexTypeOK
  BY DEF RecMutexInv
<1> QED
  BY RecMutexInvariant, <1>1, PTL

(* One owner at a time, whose locks n counts, and nothing of the last owner *)
(* left behind: the mutual exclusion of the recursive mutex, and the reason *)
(* why unlock's assertion holds.                                           *)
THEOREM OneOwner == ASSUME RangeSuffices PROVE RecMutexSpec => []OwnerExact
<1>1. RecMutexInv => OwnerExact
  BY DEF RecMutexInv, OwnerExact
<1> QED
  BY RecMutexInvariant, <1>1, PTL

(* One signal of rec_mutex_unlock is enough, whoever takes the mutex first. *)
THEOREM OneSignalSuffices == ASSUME RangeSuffices PROVE RecMutexSpec => []NoLostWakeup
<1>1. RecMutexInv => NoLostWakeup
  BY DEF RecMutexInv
<1> QED
  BY RecMutexInvariant, <1>1, PTL
===============================================================================
