-------------------------- MODULE DiningPhilosophers ---------------------------
(***************************************************************************)
(* PART A's dining philosophers: each takes its left spoon, waiting for it *)
(* if need be, then tries the right one and gives the left one back if     *)
(* that is in use.  "solution" is assignment_din_ph_soln.c (and its copy   *)
(* in din_phil_sequential); "assignment" is assignment_din_ph.c, which     *)
(* signals after it has unlocked the spoons it releases.                   *)
(***************************************************************************)
EXTENDS Integers

CONSTANTS N_PHILOSOPHER, NULL

ASSUME AtLeastTwo == N_PHILOSOPHER \in Nat /\ N_PHILOSOPHER >= 2
ASSUME NullIsNobody == NULL \notin 0 .. N_PHILOSOPHER - 1

Philosophers == 0 .. N_PHILOSOPHER - 1
Spoons == 0 .. N_PHILOSOPHER - 1

VARIABLES program,         \* which of the two runs
          is_used, phil,   \* of each spoon: in use, and by whom
          mutex,           \* the philosopher that holds a spoon's mutex, or NULL
          cv,              \* the philosophers asleep, each on its left spoon's cv
          at               \* where each philosopher is

vars == <<program, is_used, phil, mutex, cv, at>>

(* left, wait: before the left mutex, and in or just out of cond_wait.     *)
(* give_up: with the right mutex, about to lock the left one.              *)
(* release, release_right: about to lock the one or the other mutex.       *)
(* signal: both unlocked, about to signal (assignment only).               *)
PhilosopherPlaces ==
  {"left", "wait", "right", "give_up", "eat", "release", "release_right", "signal"}

TypeOK ==
  /\ program \in {"solution", "assignment"}
  /\ is_used \in [Spoons -> BOOLEAN]
  /\ phil \in [Spoons -> Philosophers \cup {NULL}]
  /\ mutex \in [Spoons -> Philosophers \cup {NULL}]
  /\ cv \subseteq {p \in Philosophers : at[p] = "wait"}
  /\ at \in [Philosophers -> PhilosopherPlaces]

-------------------------------------------------------------------------------
Left(p) == p
Right(p) == IF p = 0 THEN N_PHILOSOPHER - 1 ELSE p - 1

Init ==
  /\ program \in {"solution", "assignment"}
  /\ is_used = [s \in Spoons |-> FALSE]
  /\ phil = [s \in Spoons |-> NULL]
  /\ mutex = [s \in Spoons |-> NULL]
  /\ cv = {}
  /\ at = [p \in Philosophers |-> "left"]

Goto(p, place) == at' = [at EXCEPT ![p] = place]

Take(s, p) ==
  /\ is_used' = [is_used EXCEPT ![s] = TRUE]
  /\ phil' = [phil EXCEPT ![s] = p]

(* Wake the sleeper of each of these spoons: only the philosopher whose    *)
(* left spoon it is ever waits for one.                                    *)
SignalSpoons(S) == cv' = {q \in cv : Left(q) \notin S}

WrongGrabLeft(p) ==   \* takes the spoon without another test when woken
  /\ at[p] \in {"left", "wait"} /\ p \notin cv
  /\ mutex[Left(p)] = NULL
  /\ IF at[p] = "left" /\ is_used[Left(p)] /\ phil[Left(p)] # p
     THEN cv' = cv \cup {p} /\ Goto(p, "wait") /\ UNCHANGED <<is_used, phil>>
     ELSE Take(Left(p), p) /\ Goto(p, "right") /\ UNCHANGED cv
  /\ UNCHANGED <<program, mutex>>

(* Lock the left spoon, or come out of cond_wait with it; sleep while it   *)
(* is somebody else's, and grab it otherwise.                              *)
GrabLeft(p) ==
  /\ at[p] \in {"left", "wait"} /\ p \notin cv
  /\ mutex[Left(p)] = NULL
  /\ IF is_used[Left(p)] /\ phil[Left(p)] # p
     THEN cv' = cv \cup {p} /\ Goto(p, "wait") /\ UNCHANGED <<is_used, phil>>
     ELSE Take(Left(p), p) /\ Goto(p, "right") /\ UNCHANGED cv
  /\ UNCHANGED <<program, mutex>>

(* Lock the right spoon and grab it; or keep it locked to give up, if it   *)
(* is somebody else's.                                                     *)
TryRight(p) ==
  /\ at[p] = "right" /\ mutex[Right(p)] = NULL
  /\ \/ /\ ~is_used[Right(p)]
        /\ Take(Right(p), p) /\ Goto(p, "eat") /\ UNCHANGED mutex
     \/ /\ is_used[Right(p)] /\ phil[Right(p)] # p
        /\ mutex' = [mutex EXCEPT ![Right(p)] = p]
        /\ Goto(p, "give_up") /\ UNCHANGED <<is_used, phil>>
     \/ /\ is_used[Right(p)] /\ phil[Right(p)] = p
        /\ Goto(p, "eat") /\ UNCHANGED <<is_used, phil, mutex>>
  /\ UNCHANGED <<program, cv>>

(* philosopher_get_access_both_spoons asserts this where it gives up.      *)
HasLeft(p) == is_used[Left(p)] /\ phil[Left(p)] = p
HasBoth(p) == HasLeft(p) /\ is_used[Right(p)] /\ phil[Right(p)] = p

WrongGiveUp(p) ==   \* leaves the right spoon locked
  /\ at[p] = "give_up" /\ mutex[Left(p)] = NULL
  /\ HasLeft(p)
  /\ is_used' = [is_used EXCEPT ![Left(p)] = FALSE]
  /\ phil' = [phil EXCEPT ![Left(p)] = NULL]
  /\ Goto(p, "left")
  /\ UNCHANGED <<program, mutex, cv>>

(* Lock the left spoon as well, give it back without a signal, unlock both.*)
GiveUp(p) ==
  /\ at[p] = "give_up" /\ mutex[Left(p)] = NULL
  /\ HasLeft(p)
  /\ is_used' = [is_used EXCEPT ![Left(p)] = FALSE]
  /\ phil' = [phil EXCEPT ![Left(p)] = NULL]
  /\ mutex' = [mutex EXCEPT ![Right(p)] = NULL]
  /\ Goto(p, "left")
  /\ UNCHANGED <<program, cv>>

(* phil_eat reads both spoons without their mutexes. *)
Eat(p) ==
  /\ at[p] = "eat" /\ HasBoth(p)
  /\ Goto(p, "release")
  /\ UNCHANGED <<program, is_used, phil, mutex, cv>>

LockLeft(p) ==
  /\ at[p] = "release" /\ mutex[Left(p)] = NULL
  /\ mutex' = [mutex EXCEPT ![Left(p)] = p]
  /\ Goto(p, "release_right")
  /\ UNCHANGED <<program, is_used, phil, cv>>

(* Lock the right spoon too, give both back and unlock them; the solution  *)
(* has signalled by then.                                                  *)
ReleaseBoth(p) ==
  LET both == {Left(p), Right(p)} IN
  /\ at[p] = "release_right" /\ mutex[Right(p)] = NULL
  /\ HasBoth(p)
  /\ is_used' = [s \in Spoons |-> is_used[s] /\ s \notin both]
  /\ phil' = [s \in Spoons |-> IF s \in both THEN NULL ELSE phil[s]]
  /\ mutex' = [mutex EXCEPT ![Left(p)] = NULL]
  /\ \/ program = "solution" /\ SignalSpoons(both) /\ Goto(p, "left")
     \/ program = "assignment" /\ UNCHANGED cv /\ Goto(p, "signal")
  /\ UNCHANGED program

Signal(p) ==
  /\ at[p] = "signal"
  /\ SignalSpoons({Left(p), Right(p)})
  /\ Goto(p, "left")
  /\ UNCHANGED <<program, is_used, phil, mutex>>

SpuriousWakeup(p) ==
  /\ p \in cv /\ cv' = cv \ {p}
  /\ UNCHANGED <<program, is_used, phil, mutex, at>>

(* The loop of philosopher_fn *)
Run(p) ==
  \/ GrabLeft(p) \/ TryRight(p) \/ GiveUp(p)
  \/ Eat(p) \/ LockLeft(p) \/ ReleaseBoth(p) \/ Signal(p)

Next == \E p \in Philosophers : Run(p) \/ SpuriousWakeup(p)

(* Every philosopher that can run is eventually run. *)
Spec == Init /\ [][Next]_vars /\ \A p \in Philosophers : WF_vars(Run(p))

-------------------------------------------------------------------------------
(* Who holds what is told by where the philosophers are.  All assertions   *)
(* of the two programs follow, those that phil_eat evaluates without a     *)
(* mutex included.                                                         *)
SpoonsExact ==
  \A s \in Spoons :
    /\ is_used[s] <=> phil[s] # NULL
    /\ \A p \in Philosophers :
         phil[s] = p <=>
           \/ s = Left(p)
              /\ at[p] \in {"right", "give_up", "eat", "release", "release_right"}
           \/ s = Right(p) /\ at[p] \in {"eat", "release", "release_right"}

MutexesExact ==
  \A s \in Spoons : \A p \in Philosophers :
    mutex[s] = p <=> \/ s = Right(p) /\ at[p] = "give_up"
                     \/ s = Left(p) /\ at[p] = "release_right"

(* A philosopher asleep waits for a neighbour who has its left spoon, or   *)
(* is about to signal it: the signal that giving up omits is missed by     *)
(* nobody, as the sleeper of that spoon could only be the one giving up.   *)
SleepersHaveCause ==
  \A p \in cv : \E q \in Philosophers :
    /\ Right(q) = Left(p)
    /\ phil[Left(p)] = q \/ at[q] = "signal"

Exact == TypeOK /\ SpoonsExact /\ MutexesExact /\ SleepersHaveCause

(* What keeps a philosopher from its next step: the sleep, or the mutex it *)
(* is about to lock.                                                       *)
Waits(p) ==
  \/ p \in cv
  \/ at[p] \in {"left", "wait", "give_up", "release"} /\ mutex[Left(p)] # NULL
  \/ at[p] \in {"right", "release_right"} /\ mutex[Right(p)] # NULL

(* The philosophers stop in one way only: everybody has its left spoon,    *)
(* gives up with the right one's mutex and waits for the left one's.       *)
(* Nothing else keeps anybody: no assertion and no spoon stops the program.*)
InRing == \A p \in Philosophers : at[p] = "give_up"
OnlyRingStops ==
  /\ (\A p \in Philosophers : ~ENABLED Run(p)) => InRing
  /\ \A p \in Philosophers : Waits(p) <=> ~ENABLED Run(p)
===============================================================================
