------------------------------ MODULE Semaphore -------------------------------
(***************************************************************************)
(* PART A's counting semaphore, "Semaphore Implementation/sema.c", used by *)
(* any threads.  sema_wait tests permit_counter with an if around its      *)
(* pthread_cond_wait, and so takes any return of cond_wait for a grant,    *)
(* also a return that nobody signalled.                                    *)
(***************************************************************************)
EXTENDS Integers, FiniteSets

CONSTANTS Threads,
          InitialPermits,   \* the count given to sema_init
          MaxPosts,         \* bound: calls of sema_post
          MaxSpurious       \* bound: returns of cond_wait without a signal

ASSUME ThreadsFinite == IsFiniteSet(Threads)
ASSUME CountsAreNumbers ==
  InitialPermits \in Nat /\ MaxPosts \in Nat /\ MaxSpurious \in Nat

VARIABLES permit_counter,
          cv,          \* the threads asleep in the cond_wait of sema_wait
          awake,       \* the threads whose cond_wait has returned
          posts,       \* ghost: calls of sema_post so far
          passed,      \* ghost: calls of sema_wait that have returned
          spurious     \* ghost: returns of cond_wait without a signal

vars == <<permit_counter, cv, awake, posts, passed, spurious>>

TypeOK ==
  /\ permit_counter \in -(Cardinality(Threads) + spurious) .. (InitialPermits + posts)
  /\ cv \subseteq Threads /\ awake \subseteq Threads \ cv
  /\ posts \in 0..MaxPosts /\ spurious \in 0..MaxSpurious
  /\ passed \in Nat

-------------------------------------------------------------------------------
(* sema_init *)
Init ==
  /\ permit_counter = InitialPermits
  /\ cv = {} /\ awake = {}
  /\ posts = 0 /\ passed = 0 /\ spurious = 0

(* Names with "Wrong" are variants of the definition that follows, each    *)
(* with a slip the code might have; no part of the model uses them.        *)
WrongWait(t) ==   \* sleeps when the counter becomes 0
  /\ t \notin cv \cup awake
  /\ permit_counter' = permit_counter - 1
  /\ \/ permit_counter' <= 0 /\ cv' = cv \cup {t} /\ UNCHANGED passed
     \/ permit_counter' > 0 /\ passed' = passed + 1 /\ UNCHANGED cv
  /\ UNCHANGED <<awake, posts, spurious>>

(* sema_wait, to its return or its cond_wait *)
Wait(t) ==
  /\ t \notin cv \cup awake
  /\ permit_counter' = permit_counter - 1
  /\ \/ permit_counter' < 0 /\ cv' = cv \cup {t} /\ UNCHANGED passed
     \/ permit_counter' >= 0 /\ passed' = passed + 1 /\ UNCHANGED cv
  /\ UNCHANGED <<awake, posts, spurious>>

(* cond_wait returns: sema_wait unlocks and returns without another test.  *)
WaitReturns(t) ==
  /\ t \in awake
  /\ awake' = awake \ {t}
  /\ passed' = passed + 1
  /\ UNCHANGED <<permit_counter, cv, posts, spurious>>

(* A sleeper leaves the condition variable. *)
Wake(t) == t \in cv /\ cv' = cv \ {t} /\ awake' = awake \cup {t}

(* pthread_cond_signal: one sleeper wakes, if there is one. *)
Signal ==
  \/ cv = {} /\ UNCHANGED <<cv, awake>>
  \/ \E u \in cv : Wake(u)

WrongPost(t) ==   \* does not signal when the counter becomes 0
  /\ t \notin cv \cup awake /\ posts < MaxPosts
  /\ permit_counter' = permit_counter + 1
  /\ IF permit_counter' < 0 THEN Signal ELSE UNCHANGED <<cv, awake>>
  /\ posts' = posts + 1
  /\ UNCHANGED <<passed, spurious>>
(* sema_post *)
Post(t) ==
  /\ t \notin cv \cup awake
  /\ posts < MaxPosts
  /\ permit_counter' = permit_counter + 1
  /\ IF permit_counter' <= 0 THEN Signal ELSE UNCHANGED <<cv, awake>>
  /\ posts' = posts + 1
  /\ UNCHANGED <<passed, spurious>>

SpuriousWakeup(t) ==
  /\ spurious < MaxSpurious
  /\ Wake(t)
  /\ spurious' = spurious + 1
  /\ UNCHANGED <<permit_counter, posts, passed>>

Next == \E t \in Threads : Wait(t) \/ WaitReturns(t) \/ Post(t) \/ SpuriousWakeup(t)

Spec == Init /\ [][Next]_vars

-------------------------------------------------------------------------------
Positive(x) == IF x > 0 THEN x ELSE 0

(* Permits are neither made nor lost: those there at first and those       *)
(* posted are free, or were taken by a wait that has returned, or belong   *)
(* to a thread on its way out of cond_wait.  Each spurious wakeup lets at  *)
(* most one wait through without a permit, so without any the account is   *)
(* exact.                                                                  *)
PermitsConserved ==
  passed + Cardinality(awake) + Positive(permit_counter) - InitialPermits - posts
     \in 0..spurious

(* A negative counter is the number of sleepers, on which the choice of    *)
(* sema_post to signal rests, up to those woken spuriously; and no thread  *)
(* sleeps while the counter has permits or is due to nobody.               *)
CounterCountsSleepers == Positive(-permit_counter) - Cardinality(cv) \in 0..spurious
===============================================================================
