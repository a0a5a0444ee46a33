---------------------------- MODULE TrafficLight ------------------------------
(***************************************************************************)
(* PART B's traffic light: main.c over traffic_light.c and the wait queue  *)
(* of TrafficLight/threadlib.c.  Threads wait at a face of the light while *)
(* it is red; main sets a face as its user says, lamp by lamp and without  *)
(* the face's state_mutex, and wakes the waiting threads when it turns     *)
(* green.                                                                  *)
(***************************************************************************)
EXTENDS Integers, FiniteSets

CONSTANTS Threads,
          Faces,
          th_dirn,     \* the face each thread waits at
          None

ASSUME ThreadsFinite == IsFiniteSet(Threads)
ASSUME DirectionsAreFaces == th_dirn \in [Threads -> Faces]
ASSUME NoneIsNothing == None \notin Threads \cup Faces

VARIABLES light,               \* the lamps that are on, of each face
          state_mutex,         \* who holds it, of each face
          thread_wait_count,   \* of the wait queue of each face
          cv,                  \* the sleepers of that queue
          at,                  \* where each thread is in thread_move
          main                 \* what main sets, and its next step: a lamp or a call

vars == <<light, state_mutex, thread_wait_count, cv, at, main>>

Colors == {"RED", "YELLOW", "GREEN"}
Idle == [face |-> None, color |-> None, step |-> "ask"]

TypeOK ==
  /\ light \in [Faces -> SUBSET Colors]
  /\ state_mutex \in [Faces -> Threads \cup {None}]
  /\ thread_wait_count \in [Faces -> 0..Cardinality(Threads)]
  /\ cv \in [Faces -> SUBSET Threads]
  /\ at \in [Threads -> {"call", "test", "count", "wait", "asleep", "woken", "move"}]
  /\ main \in {Idle} \cup [face : Faces, color : Colors, step : Colors \cup {"decide", "wake"}]

Goto(t, from, to) == at[t] = from /\ at' = [at EXCEPT ![t] = to]

-------------------------------------------------------------------------------
(* init_traffic_light, with wait_queue_init for each face *)
Init ==
  /\ light = [f \in Faces |-> {}]
  /\ state_mutex = [f \in Faces |-> None]
  /\ thread_wait_count = [f \in Faces |-> 0]
  /\ cv = [f \in Faces |-> {}]
  /\ at = [t \in Threads |-> "call"]
  /\ main = Idle

(* thread_block_on_tr_light, the callback of wait_queue_test_and_wait *)
Lock(t) ==
  /\ Goto(t, "call", "test")
  /\ state_mutex[th_dirn[t]] = None
  /\ state_mutex' = [state_mutex EXCEPT ![th_dirn[t]] = t]
  /\ UNCHANGED <<light, thread_wait_count, cv, main>>

TestRed(t) ==
  /\ Goto(t, "test", IF "RED" \in light[th_dirn[t]] THEN "count" ELSE "move")
  /\ UNCHANGED <<light, state_mutex, thread_wait_count, cv, main>>

(* Names with "Wrong" are variants of the definition that follows, each    *)
(* with a slip the code might have; no part of the model uses them.        *)
WrongCountMe(t) ==   \* is counted by the thread it waits behind
  /\ Goto(t, "count", "wait")
  /\ thread_wait_count' = [thread_wait_count EXCEPT ![th_dirn[t]] = IF @ = 0 THEN 1 ELSE @]
  /\ UNCHANGED <<light, state_mutex, cv, main>>

CountMe(t) ==
  /\ Goto(t, "count", "wait")
  /\ thread_wait_count' = [thread_wait_count EXCEPT ![th_dirn[t]] = @ + 1]
  /\ UNCHANGED <<light, state_mutex, cv, main>>

(* pthread_cond_wait gives up the mutex and sleeps in one step. *)
Sleep(t) ==
  /\ Goto(t, "wait", "asleep")
  /\ state_mutex' = [state_mutex EXCEPT ![th_dirn[t]] = None]
  /\ cv' = [cv EXCEPT ![th_dirn[t]] = @ \cup {t}]
  /\ UNCHANGED <<light, thread_wait_count, main>>

SpuriousWakeup(t) ==
  /\ Goto(t, "asleep", "woken")
  /\ cv' = [cv EXCEPT ![th_dirn[t]] = @ \ {t}]
  /\ UNCHANGED <<light, state_mutex, thread_wait_count, main>>

(* The queue does not test again: whoever wakes moves. *)
WaitReturns(t) ==
  /\ Goto(t, "woken", "move")
  /\ state_mutex[th_dirn[t]] = None
  /\ state_mutex' = [state_mutex EXCEPT ![th_dirn[t]] = t]
  /\ thread_wait_count' = [thread_wait_count EXCEPT ![th_dirn[t]] = @ - 1]
  /\ UNCHANGED <<light, cv, main>>

(* The end of thread_move's round. *)
Move(t) ==
  /\ Goto(t, "move", "call")
  /\ state_mutex' = [state_mutex EXCEPT ![th_dirn[t]] = None]
  /\ UNCHANGED <<light, thread_wait_count, cv, main>>

-------------------------------------------------------------------------------
(* The user names a face and a colour. *)
Ask(f, c) ==
  /\ main = Idle
  /\ main' = [face |-> f, color |-> c, step |-> "RED"]
  /\ UNCHANGED <<light, state_mutex, thread_wait_count, cv, at>>

(* A round of the loop of set_traffic_light_face; only green wakes. *)
SetLamp ==
  /\ main.step \in Colors
  /\ LET f == main.face
         i == main.step
     IN  /\ light' = [light EXCEPT ![f] = IF i = main.color THEN @ \cup {i} ELSE @ \ {i}]
         /\ main' = IF i # "GREEN" THEN [main EXCEPT !.step = IF i = "RED" THEN "YELLOW" ELSE "GREEN"]
                    ELSE IF main.color = "GREEN" THEN [main EXCEPT !.step = "decide"]
                    ELSE Idle
  /\ UNCHANGED <<state_mutex, thread_wait_count, cv, at>>

WrongDecide ==   \* finds nobody when exactly one waits
  /\ main.step = "decide"
  /\ main' = IF thread_wait_count[main.face] > 1 THEN [main EXCEPT !.step = "wake"] ELSE Idle
  /\ UNCHANGED <<light, state_mutex, thread_wait_count, cv, at>>

(* wait_queue_broadcast, which is told not to lock *)
Decide ==
  /\ main.step = "decide"
  /\ main' = IF thread_wait_count[main.face] > 0 THEN [main EXCEPT !.step = "wake"] ELSE Idle
  /\ UNCHANGED <<light, state_mutex, thread_wait_count, cv, at>>

WrongBroadcast ==   \* signals
  /\ main.step = "wake"
  /\ \/ cv[main.face] = {} /\ UNCHANGED <<at, cv>>
     \/ \E t \in cv[main.face] : /\ at' = [at EXCEPT ![t] = "woken"]
                                 /\ cv' = [cv EXCEPT ![main.face] = @ \ {t}]
  /\ main' = Idle
  /\ UNCHANGED <<light, state_mutex, thread_wait_count>>

Broadcast ==
  /\ main.step = "wake"
  /\ at' = [t \in Threads |-> IF t \in cv[main.face] THEN "woken" ELSE at[t]]
  /\ cv' = [cv EXCEPT ![main.face] = {}]
  /\ main' = Idle
  /\ UNCHANGED <<light, state_mutex, thread_wait_count>>

-------------------------------------------------------------------------------
Main == (\E f \in Faces, c \in Colors : Ask(f, c)) \/ SetLamp \/ Decide \/ Broadcast

Thread(t) ==
  Lock(t) \/ TestRed(t) \/ CountMe(t) \/ Sleep(t) \/ SpuriousWakeup(t) \/ WaitReturns(t) \/ Move(t)

Next == Main \/ \E t \in Threads : Thread(t)

Spec == Init /\ [][Next]_vars

-------------------------------------------------------------------------------
(* thread_wait_count is read without the mutex to decide on the broadcast: *)
(* it counts the sleepers, those about to sleep and those woken who still  *)
(* wait for the mutex, so that it is never 0 while somebody sleeps.        *)
WaitersCounted ==
  \A f \in Faces :
    /\ thread_wait_count[f] =
         Cardinality({t \in Threads : th_dirn[t] = f /\ at[t] \in {"wait", "asleep", "woken"}})
    /\ cv[f] = {t \in Threads : th_dirn[t] = f /\ at[t] = "asleep"}

(* A thread that has seen red and does not sleep yet misses the green that *)
(* comes in between: the light's change does not wait for the mutex.  Only *)
(* one thread can be there, the holder of the mutex, so that at a face     *)
(* that has turned green at most one thread still sleeps.                  *)
AtMostOneMissesGreen ==
  \A f \in Faces :
    (light[f] = {"GREEN"} /\ main.face # f) => Cardinality(cv[f]) <= 1

(* Whoever missed a green is woken by the next one, if the user gives one; *)
(* no fairness is needed, as it is main who wakes.                         *)
NextGreenWakes ==
  \A t \in Threads :
    ([]<><<Ask(th_dirn[t], "GREEN")>>_vars) => (at[t] = "asleep" ~> at[t] # "asleep")
===============================================================================
