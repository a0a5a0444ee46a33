--------------------------- MODULE ProducerConsumer ----------------------------
(***************************************************************************)
(* The two programs of PART A's ProducerConsumer over the ring of Queue:   *)
(* producers that fill the queue and consumers that drain it, each thread  *)
(* once.  "solution" is Assignment_prod_cons_on_Q_Solution.c, "assignment" *)
(* is Assignment_prod_cons_on_Q.c, which wakes one thread where the        *)
(* solution wakes all and enqueues the thread's number where the solution  *)
(* enqueues a new integer.                                                 *)
(***************************************************************************)
EXTENDS Queue, FiniteSets

CONSTANTS Producers, Consumers

Threads == Producers \cup Consumers
ASSUME KindsDisjoint == Producers \cap Consumers = {}
ASSUME ProducersFinite == IsFiniteSet(Producers)
ASSUME ItemsEnqueued ==   \* the integers of new_int and the threads' numbers
  Producers \cup 1 .. Q_DEFAULT_SIZE * Cardinality(Producers) \subseteq Items

VARIABLES program,   \* which of the two runs
          a,         \* the static counter of new_int
          at,        \* where each thread is
          cv         \* the threads asleep on q_cv

vars == <<ringVars, program, a, at, cv>>

(* start, wait: before the lock, and in or just out of cond_wait.  check,  *)
(* loop: with the mutex, at the assertion and after it.                    *)
ThreadPlaces == {"start", "wait", "check", "loop", "done"}

TypeOK ==
  /\ RingExact
  /\ program \in {"solution", "assignment"}
  /\ a \in 0 .. Q_DEFAULT_SIZE * Cardinality(Producers)
  /\ at \in [Threads -> ThreadPlaces]
  /\ cv \subseteq {t \in Threads : at[t] = "wait"}

-------------------------------------------------------------------------------
(* main: initQ and the creation of the threads *)
Init ==
  /\ InitQ
  /\ program \in {"solution", "assignment"}
  /\ a = 0
  /\ at = [t \in Threads |-> "start"]
  /\ cv = {}

MutexFree == \A t \in Threads : at[t] \notin {"check", "loop"}

Blocked(t) == IF t \in Producers THEN is_queue_full ELSE is_queue_empty

(* Lock the queue, or come out of cond_wait with it, and test. *)
Enter(t) ==
  /\ MutexFree
  /\ at[t] = "start" \/ (at[t] = "wait" /\ t \notin cv)
  /\ \/ Blocked(t) /\ at' = [at EXCEPT ![t] = "wait"] /\ cv' = cv \cup {t}
     \/ ~Blocked(t) /\ at' = [at EXCEPT ![t] = "check"] /\ UNCHANGED cv
  /\ UNCHANGED <<ringVars, program, a>>

(* The assertion of the solution after the loop of cond_wait; the          *)
(* assignment has none.                                                    *)
Asserted(t) == IF t \in Producers THEN is_queue_empty ELSE is_queue_full

Check(t) ==
  /\ at[t] = "check" /\ (program = "solution" => Asserted(t))
  /\ at' = [at EXCEPT ![t] = "loop"]
  /\ UNCHANGED <<ringVars, program, a, cv>>

NewInt == a' = a + 1

(* One round of the filling loop: a new integer, or the thread's number.   *)
Produce(t) ==
  /\ t \in Producers /\ at[t] = "loop" /\ ~is_queue_full
  /\ \/ program = "solution" /\ NewInt /\ Enqueue(a')
     \/ program = "assignment" /\ UNCHANGED a /\ Enqueue(t)
  /\ UNCHANGED <<program, at, cv>>

Consume(t) ==
  /\ t \in Consumers /\ at[t] = "loop" /\ ~is_queue_empty
  /\ Deque
  /\ UNCHANGED <<program, a, at, cv>>

WrongWake ==   \* the solution signals as the assignment does
  IF cv = {} THEN cv' = {} ELSE \E t \in cv : cv' = cv \ {t}

(* Broadcast or signal. *)
Wake ==
  IF program = "solution" \/ cv = {} THEN cv' = {} ELSE \E t \in cv : cv' = cv \ {t}

WrongFinish(t) ==   \* leaves before the queue is full, or empty
  /\ at[t] = "loop"
  /\ at' = [at EXCEPT ![t] = "done"]
  /\ Wake
  /\ UNCHANGED <<ringVars, program, a>>

(* The end of the filling or draining loop, and the unlock. *)
Finish(t) ==
  /\ at[t] = "loop"
  /\ IF t \in Producers THEN is_queue_full ELSE is_queue_empty
  /\ at' = [at EXCEPT ![t] = "done"]
  /\ Wake
  /\ UNCHANGED <<ringVars, program, a>>

SpuriousWakeup(t) ==
  /\ t \in cv /\ cv' = cv \ {t}
  /\ UNCHANGED <<ringVars, program, a, at>>

Run(t) == Enter(t) \/ Check(t) \/ Produce(t) \/ Consume(t) \/ Finish(t)

Next == \E t \in Threads : Run(t) \/ SpuriousWakeup(t)

(* Every thread that can run is eventually run. *)
Spec == Init /\ [][Next]_vars /\ \A t \in Threads : WF_vars(Run(t))

-------------------------------------------------------------------------------
(* The state is well formed.  A producer fills an empty queue only and a   *)
(* consumer drains a full one only, so that the batches of two producers   *)
(* never mix and the assertions hold, whoever was woken and however        *)
(* threads are late.                                                       *)
AssertionsHold == TypeOK /\ \A t \in Threads : at[t] = "check" => Asserted(t)

(* With as many consumers as producers the solution ends: all its threads  *)
(* are joined ("Program Finished").                                        *)
AllFinish == program = "solution" ~> \A t \in Threads : at[t] = "done"
===============================================================================
