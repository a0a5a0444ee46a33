--------------------------- MODULE Threadlib_proofs ---------------------------
(***************************************************************************)
(* What PART B builds on its threadlib.c.  First the traffic light, whose  *)
(* threads block in a wait queue: any finite set of threads, any faces and *)
(* any sequence of settings.  Then the thread pool: any finite set of      *)
(* workers and any dispatches, on the links of glthread.c, whose insertions*)
(* and removals are shown right for lists of any length on the way.        *)
(***************************************************************************)
EXTENDS TrafficLight, ThreadPool, FiniteSetTheorems, WellFoundedInduction, TLAPS

Places == {"call", "test", "count", "wait", "asleep", "woken", "move"}

(* TypeOK without the bound of the count, which rests on WaitersCounted.   *)
Typed ==
  /\ light \in [Faces -> SUBSET Colors]
  /\ state_mutex \in [Faces -> Threads \cup {None}]
  /\ thread_wait_count \in [Faces -> Nat]
  /\ cv \in [Faces -> SUBSET Threads]
  /\ at \in [Threads -> Places]
  /\ main \in {Idle} \cup [face : Faces, color : Colors, step : Colors \cup {"decide", "wake"}]

At(f, places) == {t \in Threads : th_dirn[t] = f /\ at[t] \in places}

(* A face's mutex is held by the thread that is between its lock and its   *)
(* unlock, cond_wait left out; so at most one thread is.                   *)
Holding == {"test", "count", "wait", "move"}
MutexExact ==
  \A f \in Faces, t \in Threads : state_mutex[f] = t <=> t \in At(f, Holding)

Counting == {"wait", "asleep", "woken"}
CountExact == \A f \in Faces : thread_wait_count[f] = Cardinality(At(f, Counting))
SleepersExact == \A f \in Faces : cv[f] = At(f, {"asleep"})

(* At a face left at green there is at most one thread that has seen red   *)
(* and has not been woken since.                                           *)
Blocked == {"count", "wait", "asleep"}
Green(f) == light[f] = {"GREEN"} /\ main.face # f
OneBlocked == \A f \in Faces : Green(f) => \A t, u \in At(f, Blocked) : t = u

(* Inductive. *)
IInv == Typed /\ MutexExact /\ CountExact /\ SleepersExact /\ OneBlocked

-------------------------------------------------------------------------------
(* The threads of a face can be counted; one more or less counts one.      *)
LEMMA CountingThreads ==
  ASSUME NEW S, S \subseteq Threads
  PROVE  /\ Cardinality(S) \in Nat /\ Cardinality(Threads) \in Nat
         /\ Cardinality(S) <= Cardinality(Threads)
         /\ Cardinality(S) = 0 => S = {}
         /\ \A t \in Threads \ S : Cardinality(S \cup {t}) = Cardinality(S) + 1
         /\ \A t \in S : Cardinality(S \ {t}) = Cardinality(S) - 1
<1>1. IsFiniteSet(S) /\ Cardinality(S) <= Cardinality(Threads)
  BY ThreadsFinite, FS_Subset
<1>2. Cardinality(S) \in Nat /\ Cardinality(Threads) \in Nat
  BY <1>1, ThreadsFinite, FS_CardinalityType
<1>3. Cardinality(S) = 0 => S = {}
  BY <1>1, FS_EmptySet
<1>4. \A t \in Threads \ S : Cardinality(S \cup {t}) = Cardinality(S) + 1
  BY <1>1, FS_AddElement
<1>5. \A t \in S : Cardinality(S \ {t}) = Cardinality(S) - 1
  BY <1>1, FS_RemoveElement
<1> QED
  BY <1>1, <1>2, <1>3, <1>4, <1>5

(* Nobody counts nothing. *)
LEMMA EmptyCounts == Cardinality({}) = 0
  BY FS_EmptySet

(* A set whose members are all one counts at most one. *)
LEMMA AtMostOneCounts ==
  ASSUME NEW S, S \subseteq Threads, \A t, u \in S : t = u
  PROVE  Cardinality(S) <= 1
<1>1. CASE S = {}
  BY <1>1, EmptyCounts
<1>2. CASE S # {}
  <2>1. PICK t : t \in S
    BY <1>2
  <2>2. S \ {t} = {}
    BY <2>1
  <2>3. Cardinality(S) \in Nat /\ Cardinality(S \ {t}) = Cardinality(S) - 1
    BY <2>1, CountingThreads
  <2> QED
    BY <2>2, <2>3, EmptyCounts
<1> QED
  BY <1>1, <1>2

(* What a step of one thread does to the sets of threads at a place.       *)
LEMMA GotoMoves ==
  ASSUME Typed, NEW t \in Threads, NEW from \in Places, NEW to \in Places, Goto(t, from, to),
         NEW f \in Faces, NEW places
  PROVE  /\ f # th_dirn[t] => At(f, places)' = At(f, places)
         /\ (from \in places /\ to \in places) => At(f, places)' = At(f, places)
         /\ (from \notin places /\ to \notin places) => At(f, places)' = At(f, places)
         /\ (f = th_dirn[t] /\ from \notin places /\ to \in places)
              => t \notin At(f, places) /\ At(f, places)' = At(f, places) \cup {t}
         /\ (f = th_dirn[t] /\ from \in places /\ to \notin places)
              => t \in At(f, places) /\ At(f, places)' = At(f, places) \ {t}
<1>1. at' = [at EXCEPT ![t] = to] /\ at[t] = from /\ at \in [Threads -> Places]
  BY DEF Goto, Typed
<1> QED
  BY <1>1 DEF At

(* A thread only goes to places of thread_move. *)
LEMMA GotoTyped ==
  ASSUME Typed, NEW t \in Threads, NEW from \in Places, NEW to \in Places, Goto(t, from, to)
  PROVE  at' \in [Threads -> Places]
  BY DEF Goto, Typed

(* A step that leaves light and main alone and lets nobody become blocked  *)
(* keeps OneBlocked.                                                       *)
LEMMA NobodyMoreBlocked ==
  ASSUME OneBlocked, UNCHANGED <<light, main>>,
         \A f \in Faces : At(f, Blocked)' \subseteq At(f, Blocked)
  PROVE  OneBlocked'
  BY DEF OneBlocked, Green

-------------------------------------------------------------------------------
(* init_traffic_light, before main has set a light *)
LEMMA Initially == Init => IInv
<1> SUFFICES ASSUME Init PROVE IInv
  OBVIOUS
<1>1. Typed
  BY DEF Init, Typed, Places
<1>2. \A f \in Faces, places \in {Holding, Counting, {"asleep"}, Blocked} : At(f, places) = {}
  BY DEF Init, At, Holding, Counting, Blocked
<1>3. MutexExact
  BY <1>2, NoneIsNothing DEF Init, MutexExact
<1>4. CountExact /\ SleepersExact /\ OneBlocked
  BY <1>2, EmptyCounts DEF Init, CountExact, SleepersExact, OneBlocked
<1> QED
  BY <1>1, <1>3, <1>4 DEF IInv

(* thread_block_on_tr_light *)
LEMMA LockKeeps == ASSUME IInv, NEW t \in Threads, Lock(t) PROVE IInv'
<1>1. /\ Typed /\ Goto(t, "call", "test") /\ "call" \in Places /\ "test" \in Places
      /\ UNCHANGED <<light, thread_wait_count, cv, main>>
      /\ state_mutex[th_dirn[t]] = None
      /\ state_mutex' = [state_mutex EXCEPT ![th_dirn[t]] = t]
  BY DEF IInv, Lock, Places
<1>2. th_dirn[t] \in Faces
  BY DirectionsAreFaces
<1>3. Typed'
  BY <1>1, <1>2, GotoTyped DEF Typed
<1>4. MutexExact'
  <2>1. \A f \in Faces : /\ f # th_dirn[t] => At(f, Holding)' = At(f, Holding)
                         /\ f = th_dirn[t] => At(f, Holding)' = At(f, Holding) \cup {t}
    BY <1>1, GotoMoves DEF Holding
  <2>2. \A u \in Threads : u \notin At(th_dirn[t], Holding)
    BY <1>1, <1>2, NoneIsNothing DEF IInv, MutexExact
  <2> QED
    BY <1>1, <1>2, <2>1, <2>2 DEF IInv, MutexExact, Typed
<1>5. \A f \in Faces : /\ At(f, Counting)' = At(f, Counting)
                       /\ At(f, {"asleep"})' = At(f, {"asleep"})
                       /\ At(f, Blocked)' = At(f, Blocked)
  BY <1>1, GotoMoves DEF Counting, Blocked
<1>6. CountExact' /\ SleepersExact'
  BY <1>1, <1>5 DEF IInv, CountExact, SleepersExact
<1>7. OneBlocked'
  BY <1>1, <1>5, NobodyMoreBlocked DEF IInv
<1> QED
  BY <1>3, <1>4, <1>6, <1>7 DEF IInv

(* The test for red: a thread that is to wait has seen red, so its face is *)
(* not one left at green; any other thread goes through.                   *)
LEMMA TestRedKeeps == ASSUME IInv, NEW t \in Threads, TestRed(t) PROVE IInv'
<1> DEFINE to == IF "RED" \in light[th_dirn[t]] THEN "count" ELSE "move"
<1>1. /\ Typed /\ Goto(t, "test", to) /\ "test" \in Places /\ to \in Places
      /\ to \in Holding /\ to \notin Counting /\ to # "asleep"
      /\ UNCHANGED <<light, state_mutex, thread_wait_count, cv, main>>
  BY DEF IInv, TestRed, Places, Holding, Counting
<1> HIDE DEF to
<1>2. Typed'
  BY <1>1, GotoTyped DEF Typed
<1>3. \A f \in Faces : /\ At(f, Holding)' = At(f, Holding)
                       /\ At(f, Counting)' = At(f, Counting)
                       /\ At(f, {"asleep"})' = At(f, {"asleep"})
                       /\ f # th_dirn[t] => At(f, Blocked)' = At(f, Blocked)
  <2>1. "test" \in Holding /\ "test" \notin Counting
    BY DEF Holding, Counting
  <2> QED
    BY <1>1, <2>1, GotoMoves
<1>4. MutexExact' /\ CountExact' /\ SleepersExact'
  BY <1>1, <1>3 DEF IInv, MutexExact, CountExact, SleepersExact
<1>5. OneBlocked'
  <2>1. CASE "RED" \in light[th_dirn[t]]
    <3>1. ~Green(th_dirn[t])
      BY <2>1 DEF Green
    <3> QED
      BY <1>1, <1>3, <3>1 DEF IInv, OneBlocked, Green
  <2>2. CASE "RED" \notin light[th_dirn[t]]
    <3>1. to = "move" /\ "test" \notin Blocked /\ "move" \notin Blocked
      BY <2>2 DEF to, Blocked
    <3>2. \A f \in Faces : At(f, Blocked)' = At(f, Blocked)
      BY <1>1, <3>1, GotoMoves
    <3> QED
      BY <1>1, <3>2, NobodyMoreBlocked DEF IInv
  <2> QED
    BY <2>1, <2>2
<1> QED
  BY <1>2, <1>4, <1>5 DEF IInv

(* thread_wait_count++ *)
LEMMA CountMeKeeps == ASSUME IInv, NEW t \in Threads, CountMe(t) PROVE IInv'
<1>1. /\ Typed /\ Goto(t, "count", "wait") /\ "count" \in Places /\ "wait" \in Places
      /\ thread_wait_count' = [thread_wait_count EXCEPT ![th_dirn[t]] = @ + 1]
      /\ UNCHANGED <<light, state_mutex, cv, main>>
  BY DEF IInv, CountMe, Places
<1>2. th_dirn[t] \in Faces
  BY DirectionsAreFaces
<1>3. Typed'
  BY <1>1, <1>2, GotoTyped DEF Typed
<1>4. \A f \in Faces : /\ At(f, Holding)' = At(f, Holding)
                       /\ At(f, {"asleep"})' = At(f, {"asleep"})
                       /\ At(f, Blocked)' = At(f, Blocked)
  BY <1>1, GotoMoves DEF Holding, Blocked
<1>5. MutexExact' /\ SleepersExact'
  BY <1>1, <1>4 DEF IInv, MutexExact, SleepersExact
<1>6. CountExact'
  <2> SUFFICES ASSUME NEW f \in Faces
               PROVE  thread_wait_count'[f] = Cardinality(At(f, Counting)')
    BY DEF CountExact
  <2>1. thread_wait_count[f] = Cardinality(At(f, Counting)) /\ thread_wait_count[f] \in Nat
    BY <1>1 DEF IInv, CountExact, Typed
  <2>2. CASE f = th_dirn[t]
    <3>1. At(f, Counting)' = At(f, Counting) \cup {t} /\ t \notin At(f, Counting)
      BY <1>1, <2>2, GotoMoves DEF Counting
    <3>2. At(f, Counting) \subseteq Threads
      BY DEF At
    <3>3. Cardinality(At(f, Counting)') = Cardinality(At(f, Counting)) + 1
      BY <3>1, <3>2, CountingThreads
    <3>4. thread_wait_count'[f] = thread_wait_count[f] + 1
      BY <1>1, <2>2 DEF Typed
    <3> QED
      BY <2>1, <3>3, <3>4
  <2>3. CASE f # th_dirn[t]
    <3>1. At(f, Counting)' = At(f, Counting)
      BY <1>1, <2>3, GotoMoves
    <3> QED
      BY <1>1, <2>1, <2>3, <3>1 DEF Typed
  <2> QED
    BY <2>2, <2>3
<1>7. OneBlocked'
  BY <1>1, <1>4, NobodyMoreBlocked DEF IInv
<1> QED
  BY <1>3, <1>5, <1>6, <1>7 DEF IInv

(* What giving up a mutex does for a thread that held it. *)
LEMMA UnlockExact ==
  ASSUME Typed, MutexExact, NEW t \in Threads, NEW from \in Holding, NEW to \in Places \ Holding,
         Goto(t, from, to), state_mutex' = [state_mutex EXCEPT ![th_dirn[t]] = None]
  PROVE  MutexExact'
<1>1. th_dirn[t] \in Faces /\ from \in Places
  BY DirectionsAreFaces DEF Holding, Places
<1>2. \A f \in Faces : /\ f # th_dirn[t] => At(f, Holding)' = At(f, Holding)
                       /\ f = th_dirn[t] => At(f, Holding)' = At(f, Holding) \ {t}
  BY <1>1, GotoMoves
<1>3. state_mutex[th_dirn[t]] = t
  BY <1>1 DEF MutexExact, At, Goto
<1> QED
  BY <1>1, <1>2, <1>3, NoneIsNothing DEF MutexExact, Typed

(* pthread_cond_wait falls asleep. *)
LEMMA SleepKeeps == ASSUME IInv, NEW t \in Threads, Sleep(t) PROVE IInv'
<1>1. /\ Typed /\ Goto(t, "wait", "asleep")
      /\ "wait" \in Holding /\ "wait" \in Places /\ "asleep" \in Places \ Holding
      /\ state_mutex' = [state_mutex EXCEPT ![th_dirn[t]] = None]
      /\ cv' = [cv EXCEPT ![th_dirn[t]] = @ \cup {t}]
      /\ UNCHANGED <<light, thread_wait_count, main>>
  BY DEF IInv, Sleep, Places, Holding
<1>2. th_dirn[t] \in Faces
  BY DirectionsAreFaces
<1>3. Typed'
  BY <1>1, <1>2, GotoTyped DEF Typed
<1>4. MutexExact'
  BY <1>1, UnlockExact DEF IInv
<1>5. \A f \in Faces : /\ At(f, Counting)' = At(f, Counting)
                       /\ At(f, Blocked)' = At(f, Blocked)
                       /\ f # th_dirn[t] => At(f, {"asleep"})' = At(f, {"asleep"})
                       /\ f = th_dirn[t] => At(f, {"asleep"})' = At(f, {"asleep"}) \cup {t}
  BY <1>1, GotoMoves DEF Counting, Blocked
<1>6. CountExact' /\ SleepersExact'
  BY <1>1, <1>5 DEF IInv, CountExact, SleepersExact, Typed
<1>7. OneBlocked'
  BY <1>1, <1>5, NobodyMoreBlocked DEF IInv
<1> QED
  BY <1>3, <1>4, <1>6, <1>7 DEF IInv

(* A sleeper that wakes unasked counts as woken. *)
LEMMA SpuriousKeeps == ASSUME IInv, NEW t \in Threads, SpuriousWakeup(t) PROVE IInv'
<1>1. /\ Typed /\ Goto(t, "asleep", "woken") /\ "asleep" \in Places /\ "woken" \in Places
      /\ cv' = [cv EXCEPT ![th_dirn[t]] = @ \ {t}]
      /\ UNCHANGED <<light, state_mutex, thread_wait_count, main>>
  BY DEF IInv, SpuriousWakeup, Places
<1>2. th_dirn[t] \in Faces
  BY DirectionsAreFaces
<1>3. Typed'
  BY <1>1, <1>2, GotoTyped DEF Typed
<1>4. \A f \in Faces : /\ At(f, Holding)' = At(f, Holding)
                       /\ At(f, Counting)' = At(f, Counting)
                       /\ f # th_dirn[t] => At(f, {"asleep"})' = At(f, {"asleep"})
                       /\ f = th_dirn[t] => At(f, {"asleep"})' = At(f, {"asleep"}) \ {t}
  BY <1>1, GotoMoves DEF Counting, Holding
<1>5. MutexExact' /\ CountExact' /\ SleepersExact'
  <2>1. MutexExact' /\ CountExact'
    BY <1>1, <1>4 DEF IInv, MutexExact, CountExact
  <2>2. SleepersExact'
    BY <1>1, <1>2, <1>4 DEF IInv, SleepersExact, Typed
  <2> QED
    BY <2>1, <2>2
<1>6. \A f \in Faces : At(f, Blocked)' \subseteq At(f, Blocked)
  <2>1. "asleep" \in Blocked /\ "woken" \notin Blocked
    BY DEF Blocked
  <2>2. \A f \in Faces : /\ f # th_dirn[t] => At(f, Blocked)' = At(f, Blocked)
                         /\ f = th_dirn[t] => At(f, Blocked)' = At(f, Blocked) \ {t}
    BY <1>1, <2>1, GotoMoves
  <2> QED
    BY <2>2
<1>7. OneBlocked'
  BY <1>1, <1>6, NobodyMoreBlocked DEF IInv
<1> QED
  BY <1>3, <1>5, <1>7 DEF IInv

(* cond_wait returns with the mutex, and the thread is counted no more.    *)
LEMMA WaitReturnsKeeps == ASSUME IInv, NEW t \in Threads, WaitReturns(t) PROVE IInv'
<1>1. /\ Typed /\ Goto(t, "woken", "move") /\ "woken" \in Places /\ "move" \in Places
      /\ state_mutex[th_dirn[t]] = None
      /\ state_mutex' = [state_mutex EXCEPT ![th_dirn[t]] = t]
      /\ thread_wait_count' = [thread_wait_count EXCEPT ![th_dirn[t]] = @ - 1]
      /\ UNCHANGED <<light, cv, main>>
  BY DEF IInv, WaitReturns, Places
<1>2. th_dirn[t] \in Faces
  BY DirectionsAreFaces
<1>3. MutexExact'
  <2>1. \A f \in Faces : /\ f # th_dirn[t] => At(f, Holding)' = At(f, Holding)
                         /\ f = th_dirn[t] => At(f, Holding)' = At(f, Holding) \cup {t}
    BY <1>1, GotoMoves DEF Holding
  <2>2. \A u \in Threads : u \notin At(th_dirn[t], Holding)
    BY <1>1, <1>2, NoneIsNothing DEF IInv, MutexExact
  <2> QED
    BY <1>1, <1>2, <2>1, <2>2 DEF IInv, MutexExact, Typed
<1>4. \A f \in Faces : /\ At(f, {"asleep"})' = At(f, {"asleep"})
                       /\ At(f, Blocked)' = At(f, Blocked)
  BY <1>1, GotoMoves DEF Blocked
<1>5. SleepersExact'
  BY <1>1, <1>4 DEF IInv, SleepersExact
<1>6. \A f \in Faces : thread_wait_count'[f] = Cardinality(At(f, Counting)') /\ thread_wait_count'[f] \in Nat
  <2> TAKE f \in Faces
  <2>1. thread_wait_count[f] = Cardinality(At(f, Counting)) /\ thread_wait_count[f] \in Nat
    BY <1>1 DEF IInv, CountExact, Typed
  <2>2. CASE f = th_dirn[t]
    <3>1. At(f, Counting)' = At(f, Counting) \ {t} /\ t \in At(f, Counting)
      BY <1>1, <2>2, GotoMoves DEF Counting
    <3>2. At(f, Counting) \subseteq Threads /\ At(f, Counting)' \subseteq Threads
      BY DEF At
    <3>3. Cardinality(At(f, Counting)') = Cardinality(At(f, Counting)) - 1
      BY <3>1, <3>2, CountingThreads
    <3>4. Cardinality(At(f, Counting)') \in Nat
      BY <3>2, CountingThreads
    <3>5. thread_wait_count'[f] = thread_wait_count[f] - 1
      BY <1>1, <2>2 DEF Typed
    <3> QED
      BY <2>1, <3>3, <3>4, <3>5
  <2>3. CASE f # th_dirn[t]
    <3>1. At(f, Counting)' = At(f, Counting)
      BY <1>1, <2>3, GotoMoves
    <3> QED
      BY <1>1, <2>1, <2>3, <3>1 DEF Typed
  <2> QED
    BY <2>2, <2>3
<1>7. Typed'
  <2>1. thread_wait_count' \in [Faces -> Nat]
    BY <1>1, <1>6 DEF Typed
  <2> QED
    BY <1>1, <1>2, <2>1, GotoTyped DEF Typed
<1>8. OneBlocked'
  BY <1>1, <1>4, NobodyMoreBlocked DEF IInv
<1> QED
  BY <1>3, <1>5, <1>6, <1>7, <1>8 DEF IInv, CountExact

(* The unlock at the end of a round *)
LEMMA MoveKeeps == ASSUME IInv, NEW t \in Threads, Move(t) PROVE IInv'
<1>1. /\ Typed /\ Goto(t, "move", "call")
      /\ "move" \in Holding /\ "move" \in Places /\ "call" \in Places \ Holding
      /\ state_mutex' = [state_mutex EXCEPT ![th_dirn[t]] = None]
      /\ UNCHANGED <<light, thread_wait_count, cv, main>>
  BY DEF IInv, Move, Places, Holding
<1>2. th_dirn[t] \in Faces
  BY DirectionsAreFaces
<1>3. Typed'
  BY <1>1, <1>2, GotoTyped DEF Typed
<1>4. MutexExact'
  BY <1>1, UnlockExact DEF IInv
<1>5. \A f \in Faces : /\ At(f, Counting)' = At(f, Counting)
                       /\ At(f, Blocked)' = At(f, Blocked)
                       /\ At(f, {"asleep"})' = At(f, {"asleep"})
  BY <1>1, GotoMoves DEF Counting, Blocked
<1>6. CountExact' /\ SleepersExact'
  BY <1>1, <1>5 DEF IInv, CountExact, SleepersExact
<1>7. OneBlocked'
  BY <1>1, <1>5, NobodyMoreBlocked DEF IInv
<1> QED
  BY <1>3, <1>4, <1>6, <1>7 DEF IInv

-------------------------------------------------------------------------------
(* Main's steps but the broadcast leave the threads alone. *)
LEMMA ThreadsAlone ==
  ASSUME IInv, UNCHANGED <<state_mutex, thread_wait_count, cv, at>>
  PROVE  /\ MutexExact' /\ CountExact' /\ SleepersExact'
         /\ \A f \in Faces : At(f, Blocked)' = At(f, Blocked)
  BY DEF IInv, MutexExact, CountExact, SleepersExact, At

(* What main is about to do names a face. *)
LEMMA MainNamesFace ==
  ASSUME Typed, main.step # "ask"
  PROVE  main \in [face : Faces, color : Colors, step : Colors \cup {"decide", "wake"}]
  BY DEF Typed, Idle

(* The user names a face, about which nothing is promised while it is set. *)
LEMMA AskKeeps ==
  ASSUME IInv, NEW f \in Faces, NEW c \in Colors, Ask(f, c) PROVE IInv'
<1>1. /\ Typed /\ main.face = None /\ main' = [face |-> f, color |-> c, step |-> "RED"]
      /\ UNCHANGED <<light, state_mutex, thread_wait_count, cv, at>>
  BY DEF IInv, Ask, Idle
<1>2. Typed'
  BY <1>1 DEF Typed, Colors
<1>3. OneBlocked'
  <2>1. \A g \in Faces : Green(g)' => Green(g)
    BY <1>1, NoneIsNothing DEF Green
  <2> QED
    BY <1>1, <2>1, ThreadsAlone DEF IInv, OneBlocked
<1> QED
  BY <1>1, <1>2, <1>3, ThreadsAlone DEF IInv

(* A face that is set is not left at green before main has decided about   *)
(* the broadcast.                                                          *)
LEMMA SetLampKeeps == ASSUME IInv, SetLamp PROVE IInv'
<1>1. /\ Typed /\ main.step \in Colors
      /\ UNCHANGED <<state_mutex, thread_wait_count, cv, at>>
  BY DEF IInv, SetLamp
<1>2. main \in [face : Faces, color : Colors, step : Colors \cup {"decide", "wake"}]
  BY <1>1, MainNamesFace DEF Colors
<1> DEFINE lamps == IF main.step = main.color THEN light[main.face] \cup {main.step}
                    ELSE light[main.face] \ {main.step}
<1>3. light' = [light EXCEPT ![main.face] = lamps]
  BY DEF SetLamp
<1>4. \/ main' = [main EXCEPT !.step = "YELLOW"]
      \/ main' = [main EXCEPT !.step = "GREEN"]
      \/ main' = [main EXCEPT !.step = "decide"]
      \/ main' = Idle /\ main.step = "GREEN" /\ main.color # "GREEN"
  BY DEF SetLamp
<1>5. lamps \in SUBSET Colors
  BY <1>1, <1>2 DEF Typed
<1> HIDE DEF lamps
<1>6. light' \in [Faces -> SUBSET Colors] /\ light'[main.face] = lamps
      /\ \A g \in Faces : g # main.face => light'[g] = light[g]
  BY <1>1, <1>2, <1>3, <1>5 DEF Typed
<1>7. main' \in {Idle} \cup [face : Faces, color : Colors, step : Colors \cup {"decide", "wake"}]
  BY <1>2, <1>4 DEF Colors
<1>8. Typed'
  BY <1>1, <1>6, <1>7 DEF Typed
<1>9. \A g \in Faces : Green(g)' => Green(g)
  <2> TAKE g \in Faces
  <2>1. CASE g # main.face
    BY <1>6, <2>1 DEF Green
  <2>2. CASE g = main.face /\ main'.face = main.face
    BY <2>2 DEF Green
  <2>3. CASE g = main.face /\ main' = Idle /\ main.step = "GREEN" /\ main.color # "GREEN"
    <3>1. "GREEN" \notin lamps
      BY <2>3 DEF lamps
    <3> QED
      BY <1>6, <2>3, <3>1 DEF Green
  <2> QED
    BY <1>2, <1>4, <2>1, <2>2, <2>3
<1> QED
  BY <1>1, <1>8, <1>9, ThreadsAlone DEF IInv, OneBlocked

(* No broadcast: nobody is counted, so at most the mutex's holder can have *)
(* seen red.                                                               *)
LEMMA DecideKeeps == ASSUME IInv, Decide PROVE IInv'
<1>1. /\ Typed /\ main.step = "decide"
      /\ UNCHANGED <<light, state_mutex, thread_wait_count, cv, at>>
      /\ \/ main' = [main EXCEPT !.step = "wake"]
         \/ main' = Idle /\ ~(thread_wait_count[main.face] > 0)
  BY DEF IInv, Decide
<1>2. main \in [face : Faces, color : Colors, step : Colors \cup {"decide", "wake"}]
  BY <1>1, MainNamesFace
<1>3. Typed'
  BY <1>1, <1>2 DEF Typed
<1>4. OneBlocked'
  <2>1. CASE main' = [main EXCEPT !.step = "wake"]
    <3>1. \A g \in Faces : Green(g)' => Green(g)
      BY <1>1, <1>2, <2>1 DEF Green
    <3> QED
      BY <1>1, <3>1, ThreadsAlone DEF IInv, OneBlocked
  <2>2. CASE ~(thread_wait_count[main.face] > 0)
    <3>1. thread_wait_count[main.face] \in Nat /\ main.face \in Faces
      BY <1>1, <1>2 DEF Typed
    <3>2. Cardinality(At(main.face, Counting)) = 0
      BY <2>2, <3>1 DEF IInv, CountExact
    <3>3. At(main.face, Counting) \subseteq Threads
      BY DEF At
    <3>4. At(main.face, Counting) = {}
      BY <3>2, <3>3, CountingThreads
    <3>5. At(main.face, Blocked) \subseteq At(main.face, Holding)
      BY <3>4 DEF At, Blocked, Counting, Holding
    <3>6. \A t, u \in At(main.face, Blocked) : t = u
      BY <3>1, <3>5 DEF IInv, MutexExact, At
    <3>7. \A g \in Faces : g # main.face => (Green(g)' => Green(g))
      BY <1>1 DEF Green
    <3> QED
      BY <1>1, <3>6, <3>7, ThreadsAlone DEF IInv, OneBlocked
  <2> QED
    BY <1>1, <2>1, <2>2
<1> QED
  BY <1>1, <1>3, <1>4, ThreadsAlone DEF IInv

(* Every sleeper of the face is woken; who has seen red and is not asleep  *)
(* holds the mutex.                                                        *)
LEMMA BroadcastKeeps == ASSUME IInv, Broadcast PROVE IInv'
<1>1. /\ Typed /\ main.step = "wake" /\ main' = Idle
      /\ at' = [t \in Threads |-> IF t \in cv[main.face] THEN "woken" ELSE at[t]]
      /\ cv' = [cv EXCEPT ![main.face] = {}]
      /\ UNCHANGED <<light, state_mutex, thread_wait_count>>
  BY DEF IInv, Broadcast
<1>2. main.face \in Faces
  BY <1>1, MainNamesFace
<1>3. cv[main.face] = At(main.face, {"asleep"})
  BY <1>2 DEF IInv, SleepersExact
<1>4. Typed'
  BY <1>1, <1>2 DEF Typed, Places
<1>5. \A f \in Faces : /\ At(f, Holding)' = At(f, Holding)
                       /\ At(f, Counting)' = At(f, Counting)
                       /\ f = main.face => At(f, {"asleep"})' = {}
                       /\ f # main.face => At(f, {"asleep"})' = At(f, {"asleep"})
                       /\ f = main.face => At(f, Blocked)' \subseteq At(f, Holding)
                       /\ f # main.face => At(f, Blocked)' = At(f, Blocked)
  BY <1>1, <1>3 DEF At, Holding, Counting, Blocked
<1>6. MutexExact' /\ CountExact' /\ SleepersExact'
  BY <1>1, <1>2, <1>5 DEF IInv, MutexExact, CountExact, SleepersExact, Typed
<1>7. OneBlocked'
  <2> SUFFICES ASSUME NEW f \in Faces, Green(f)'
               PROVE  \A t, u \in At(f, Blocked)' : t = u
    BY DEF OneBlocked
  <2>1. CASE f = main.face
    <3>1. \A t, u \in At(f, Holding) : t = u
      BY DEF IInv, MutexExact, At
    <3>2. At(f, Blocked)' \subseteq At(f, Holding)
      BY <1>5, <2>1
    <3> QED
      BY <3>1, <3>2
  <2>2. CASE f # main.face
    <3>1. Green(f) /\ At(f, Blocked)' = At(f, Blocked)
      BY <1>1, <1>5, <2>2 DEF Green
    <3> QED
      BY <3>1 DEF IInv, OneBlocked
  <2> QED
    BY <2>1, <2>2
<1> QED
  BY <1>4, <1>6, <1>7 DEF IInv

-------------------------------------------------------------------------------
(* Every step of main and of a thread keeps the invariant. *)
LEMMA Inductive == ASSUME IInv, [Next]_vars PROVE IInv'
<1>1. CASE Main
  BY <1>1, AskKeeps, SetLampKeeps, DecideKeeps, BroadcastKeeps DEF Main
<1>2. ASSUME NEW t \in Threads, Thread(t) PROVE IInv'
  BY <1>2, LockKeeps, TestRedKeeps, CountMeKeeps, SleepKeeps, SpuriousKeeps, WaitReturnsKeeps,
     MoveKeeps DEF Thread
<1>3. CASE UNCHANGED vars
  BY <1>3 DEF vars, IInv, Typed, MutexExact, CountExact, SleepersExact, OneBlocked, Green, At
<1> QED
  BY <1>1, <1>2, <1>3 DEF Next

(* It holds throughout. *)
LEMMA Invariant == Spec => []IInv
<1>1. Init => IInv
  BY Initially
<1>2. IInv /\ [Next]_vars => IInv'
  BY Inductive
<1> QED
  BY <1>1, <1>2, PTL DEF Spec

(* For any threads and faces: the lamps, the mutexes, the counts and the   *)
(* positions are of their types, no count exceeding the threads.           *)
THEOREM TypeCorrect == Spec => []TypeOK
<1>1. IInv => TypeOK
  <2> SUFFICES ASSUME IInv PROVE TypeOK
    OBVIOUS
  <2>1. \A f \in Faces : thread_wait_count[f] \in 0..Cardinality(Threads)
    <3> TAKE f \in Faces
    <3>1. At(f, Counting) \subseteq Threads
      BY DEF At
    <3>2. /\ Cardinality(At(f, Counting)) \in Nat /\ Cardinality(Threads) \in Nat
          /\ Cardinality(At(f, Counting)) <= Cardinality(Threads)
      BY <3>1, CountingThreads
    <3>3. thread_wait_count[f] = Cardinality(At(f, Counting))
      BY DEF IInv, CountExact
    <3> QED
      BY <3>2, <3>3
  <2>2. thread_wait_count \in [Faces -> 0..Cardinality(Threads)]
    BY <2>1 DEF IInv, Typed
  <2> QED
    BY <2>2 DEF IInv, Typed, TypeOK, Places
<1> QED
  BY <1>1, Invariant, PTL

(* For any threads and faces: the count that wait_queue_broadcast reads    *)
(* without the mutex is exactly that of the threads in or on their way in  *)
(* and out of the queue's cond_wait, so that no broadcast is left out.     *)
THEOREM NoSleeperUncounted == Spec => []WaitersCounted
<1>1. IInv => WaitersCounted
  BY DEF IInv, CountExact, SleepersExact, WaitersCounted, At, Counting
<1> QED
  BY <1>1, Invariant, PTL

(* For any threads and faces: at a face that main has left at green at     *)
(* most one thread sleeps, the one that had seen red and held the mutex.   *)
THEOREM AtMostOneSleepsOn == Spec => []AtMostOneMissesGreen
<1>1. IInv => AtMostOneMissesGreen
  <2> SUFFICES ASSUME IInv, NEW f \in Faces, Green(f) PROVE Cardinality(cv[f]) <= 1
    BY DEF AtMostOneMissesGreen, Green
  <2>1. \A t, u \in At(f, Blocked) : t = u
    BY DEF IInv, OneBlocked
  <2>2. cv[f] \subseteq At(f, Blocked) /\ cv[f] \subseteq Threads
    BY DEF IInv, SleepersExact, At, Blocked
  <2> QED
    BY <2>1, <2>2, AtMostOneCounts
<1> QED
  BY <1>1, Invariant, PTL

-------------------------------------------------------------------------------
(* The pool's list in memory: its n workers are s, from the head to the    *)
(* end, each once, the links of both directions agree, and the other       *)
(* workers' links are clear.                                               *)
Linked(g, n, s) ==
  /\ n \in Nat
  /\ g \in [Workers \cup {"pool_head"} -> [left : Links, right : Links]]
  /\ s \in [1..n -> Workers]
  /\ \A i, k \in 1..n : s[i] = s[k] => i = k
  /\ g["pool_head"] = [left |-> NULL, right |-> IF n = 0 THEN NULL ELSE s[1]]
  /\ \A k \in 1..n : g[s[k]] = [left |-> IF k = 1 THEN "pool_head" ELSE s[k - 1],
                                right |-> IF k = n THEN NULL ELSE s[k + 1]]
  /\ \A w \in Workers : (\A k \in 1..n : s[k] # w) => g[w] = Unlinked

(* A set of numbers has a least one. *)
LEMMA Least ==
  ASSUME NEW S \in SUBSET Nat, S # {}
  PROVE  \E m \in S : \A k \in S : m <= k
<1>1. PICK m \in S : \A k \in S : <<k, m>> \notin OpToRel(<, Nat)
  BY NatLessThanWellFounded, WFMin
<1>2. \A k \in S : ~(k < m)
  BY <1>1 DEF OpToRel
<1> QED
  BY <1>2

(* The recursion along right has one solution. *)
IsWalk(g, f) ==
  f = [k \in 0..Cardinality(DOMAIN g) |->
         IF k = 0 THEN "pool_head" ELSE IF f[k - 1] = NULL THEN NULL ELSE g[f[k - 1]].right]

LEMMA StepsOfWalk ==
  ASSUME NEW g, NEW n \in Nat, n = Cardinality(DOMAIN g), NEW f, IsWalk(g, f)
  PROVE  /\ f = [k \in 0..n |-> f[k]]
         /\ f[0] = "pool_head"
         /\ \A k \in 1..n : f[k] = IF f[k - 1] = NULL THEN NULL ELSE g[f[k - 1]].right
<1> DEFINE right(k) == IF k = 0 THEN "pool_head"
                       ELSE IF f[k - 1] = NULL THEN NULL ELSE g[f[k - 1]].right
<1>1. f = [k \in 0..n |-> right(k)]
  BY DEF IsWalk
<1>2. 0 \in 0..n /\ \A k \in 1..n : k \in 0..n /\ k # 0
  OBVIOUS
<1>3. f[0] = right(0) /\ \A k \in 1..n : f[k] = right(k)
  BY <1>1, <1>2
<1>4. f = [k \in 0..n |-> f[k]]
  BY <1>1
<1> QED
  BY <1>2, <1>3, <1>4

LEMMA OneWalk ==
  ASSUME NEW g, Cardinality(DOMAIN g) \in Nat,
         NEW f, IsWalk(g, f), NEW h, IsWalk(g, h)
  PROVE  f = h
<1>1. PICK n \in Nat : n = Cardinality(DOMAIN g)
  OBVIOUS
<1>2. /\ f = [k \in 0..n |-> f[k]] /\ f[0] = "pool_head"
      /\ \A k \in 1..n : f[k] = IF f[k - 1] = NULL THEN NULL ELSE g[f[k - 1]].right
  BY <1>1, StepsOfWalk
<1>3. /\ h = [k \in 0..n |-> h[k]] /\ h[0] = "pool_head"
      /\ \A k \in 1..n : h[k] = IF h[k - 1] = NULL THEN NULL ELSE g[h[k - 1]].right
  BY <1>1, StepsOfWalk
<1>4. ASSUME NEW i \in 0..n, f[i] # h[i] PROVE FALSE
  <2> DEFINE Differ == {k \in 0..n : f[k] # h[k]}
  <2>1. Differ \in SUBSET Nat /\ i \in Differ
    BY <1>4
  <2>2. PICK k \in Differ : \A m \in Differ : k <= m
    BY <2>1, Least
  <2>3. k \in 1..n /\ k - 1 \in 0..n /\ k - 1 \notin Differ
    BY <1>2, <1>3, <2>2
  <2>4. f[k] = h[k]
    BY <1>2, <1>3, <2>1, <2>3
  <2> QED
    BY <2>2, <2>4
<1> QED
  BY <1>2, <1>3, <1>4

LEMMA WalkIsReached ==
  ASSUME NEW g, Cardinality(DOMAIN g) \in Nat, NEW f, IsWalk(g, f)
  PROVE  Reached(g, "pool_head") = f
<1>1. Reached(g, "pool_head") = CHOOSE h : IsWalk(g, h)
  BY DEF Reached, IsWalk
<1>2. IsWalk(g, CHOOSE h : IsWalk(g, h))
  OBVIOUS
<1> QED
  BY <1>1, <1>2, OneWalk

(* A list has no more nodes than there are workers. *)
LEMMA LinkedCounts ==
  ASSUME NEW g, NEW n, NEW s, Linked(g, n, s)
  PROVE  /\ Cardinality(DOMAIN g) \in Nat /\ n \in Nat /\ n < Cardinality(DOMAIN g)
         /\ n <= Cardinality(Workers)
<1>1. n \in Nat /\ s \in [1..n -> Workers] /\ \A i, k \in 1..n : s[i] = s[k] => i = k
  BY DEF Linked
<1>2. DOMAIN g = Workers \cup {"pool_head"}
  BY DEF Linked
<1>3. s \in Injection(1..n, Workers)
  BY <1>1 DEF Injection, IsInjective
<1>4. IsFiniteSet(1..n) /\ Cardinality(1..n) = n
  BY <1>1, FS_Interval
<1>5. n <= Cardinality(Workers)
  BY <1>3, <1>4, WorkersFinite, FS_Injection
<1>6. Cardinality(Workers) \in Nat
  BY WorkersFinite, FS_CardinalityType
<1>7. Cardinality(Workers \cup {"pool_head"}) = Cardinality(Workers) + 1
  BY WorkersFinite, AddressesDiffer, FS_AddElement
<1> QED
  BY <1>1, <1>2, <1>5, <1>6, <1>7

(* ITERATE_GLTHREAD_BEGIN meets the workers of the list in their order. *)
LEMMA LinkedListed ==
  ASSUME NEW g, NEW n, NEW s, Linked(g, n, s)
  PROVE  Listed(g, "pool_head") = s
<1>1. /\ n \in Nat /\ s \in [1..n -> Workers]
      /\ g["pool_head"].right = IF n = 0 THEN NULL ELSE s[1]
      /\ \A k \in 1..n : g[s[k]].right = IF k = n THEN NULL ELSE s[k + 1]
  <2>1. n \in Nat /\ s \in [1..n -> Workers]
    BY DEF Linked
  <2>2. g["pool_head"] = [left |-> NULL, right |-> IF n = 0 THEN NULL ELSE s[1]]
    BY DEF Linked
  <2>3. ASSUME NEW k \in 1..n PROVE g[s[k]].right = IF k = n THEN NULL ELSE s[k + 1]
    <3>1. g[s[k]] = [left |-> IF k = 1 THEN "pool_head" ELSE s[k - 1],
                     right |-> IF k = n THEN NULL ELSE s[k + 1]]
      BY DEF Linked
    <3> QED
      BY <3>1
  <2> QED
    BY <2>1, <2>2, <2>3
<1>2. PICK c \in Nat : c = Cardinality(DOMAIN g) /\ n < c
  BY LinkedCounts
<1> DEFINE f == [k \in 0..c |-> IF k = 0 THEN "pool_head" ELSE IF k <= n THEN s[k] ELSE NULL]
<1>3. \A k \in 1..n : s[k] # NULL
  BY <1>1, AddressesDiffer
<1>4. ASSUME NEW k \in 0..c
      PROVE  f[k] = IF k = 0 THEN "pool_head" ELSE IF f[k - 1] = NULL THEN NULL ELSE g[f[k - 1]].right
  <2>1. CASE k = 0
    BY <1>1, <2>1
  <2>2. CASE k = 1
    BY <1>1, <1>2, <2>2, AddressesDiffer
  <2>3. CASE k > 1 /\ k <= n + 1
    <3>1. /\ k - 1 \in 1..n /\ k - 1 \in 0..c /\ k - 1 # 0 /\ k - 1 <= n
          /\ (k - 1) + 1 = k /\ (k - 1 = n <=> ~(k <= n)) /\ k # 0
      BY <1>1, <1>2, <2>3
    <3>2. f[k - 1] = s[k - 1] /\ f[k - 1] # NULL
      BY <1>3, <3>1
    <3>3. g[s[k - 1]].right = IF k - 1 = n THEN NULL ELSE s[k]
      BY <1>1, <3>1
    <3> QED
      BY <3>1, <3>2, <3>3
  <2>4. CASE k > n + 1
    <3>1. k - 1 \in 0..c /\ k - 1 # 0 /\ ~(k - 1 <= n) /\ ~(k <= n) /\ k # 0
      BY <1>1, <1>2, <2>4
    <3> QED
      BY <3>1
  <2> QED
    BY <1>1, <1>2, <2>1, <2>2, <2>3, <2>4
<1>5. IsWalk(g, f)
  BY <1>2, <1>4 DEF IsWalk
<1>6. Reached(g, "pool_head") = f
  BY <1>2, <1>5, WalkIsReached
<1>7. {k \in DOMAIN f : k > 0 /\ f[k] # NULL} = 1..n
  BY <1>1, <1>2, <1>3
<1>8. [k \in 1..n |-> f[k]] = s
  BY <1>1, <1>2
<1> QED
  BY <1>6, <1>7, <1>8 DEF Listed

(* What the links of the list say, one by one. *)
LinksOf(g, n, s) ==
  /\ n \in Nat /\ s \in [1..n -> Workers] /\ DOMAIN g = Workers \cup {"pool_head"}
  /\ g["pool_head"].left = NULL
  /\ g["pool_head"].right = IF n = 0 THEN NULL ELSE s[1]
  /\ \A k \in 1..n : /\ g[s[k]].left = IF k = 1 THEN "pool_head" ELSE s[k - 1]
                     /\ g[s[k]].right = IF k = n THEN NULL ELSE s[k + 1]
                     /\ g[s[k]] # Unlinked

LEMMA LinkedFacts ==
  ASSUME NEW g, NEW n, NEW s, Linked(g, n, s)
  PROVE  LinksOf(g, n, s)
<1>1. n \in Nat /\ s \in [1..n -> Workers] /\ DOMAIN g = Workers \cup {"pool_head"}
  BY DEF Linked
<1>2. g["pool_head"] = [left |-> NULL, right |-> IF n = 0 THEN NULL ELSE s[1]]
  BY DEF Linked
<1>3. ASSUME NEW k \in 1..n
      PROVE  /\ g[s[k]].left = IF k = 1 THEN "pool_head" ELSE s[k - 1]
             /\ g[s[k]].right = IF k = n THEN NULL ELSE s[k + 1]
             /\ g[s[k]] # Unlinked
  <2>1. g[s[k]] = [left |-> IF k = 1 THEN "pool_head" ELSE s[k - 1],
                   right |-> IF k = n THEN NULL ELSE s[k + 1]]
    BY DEF Linked
  <2>2. (IF k = 1 THEN "pool_head" ELSE s[k - 1]) # NULL
    <3>1. k # 1 => k - 1 \in 1..n
      BY <1>1
    <3> QED
      BY <1>1, <3>1, AddressesDiffer
  <2>3. Unlinked.left = NULL
    BY DEF Unlinked
  <2> QED
    BY <2>1, <2>2, <2>3
<1> QED
  BY <1>1, <1>2, <1>3 DEF LinksOf

(* The list with a worker behind its first i, and without its i-th.        *)
Inserted(s, n, i, w) ==
  [k \in 1 .. n + 1 |-> IF k <= i THEN s[k] ELSE IF k = i + 1 THEN w ELSE s[k - 1]]
Without(s, n, i) == [k \in 1 .. n - 1 |-> IF k < i THEN s[k] ELSE s[k + 1]]

(* The head and then the workers of the list. *)
Place(s, i) == IF i = 0 THEN "pool_head" ELSE s[i]

(* Insertion: glthread_add_next puts a worker that is in no list behind    *)
(* the i-th of the list, or behind its head, and changes no other order.   *)
THEOREM LinkedAddNext ==
  ASSUME NEW g, NEW n, NEW s, Linked(g, n, s), NEW i \in 0..n,
         NEW w \in Workers, g[w] = Unlinked
  PROVE  Linked(glthread_add_next(g, Place(s, i), w), n + 1, Inserted(s, n, i, w))
<1>1. /\ n \in Nat /\ s \in [1..n -> Workers] /\ DOMAIN g = Workers \cup {"pool_head"}
      /\ g["pool_head"].left = NULL
      /\ g["pool_head"].right = IF n = 0 THEN NULL ELSE s[1]
      /\ \A k \in 1..n : /\ g[s[k]].left = IF k = 1 THEN "pool_head" ELSE s[k - 1]
                         /\ g[s[k]].right = IF k = n THEN NULL ELSE s[k + 1]
                         /\ g[s[k]] # Unlinked
  <2>1. LinksOf(g, n, s)
    BY LinkedFacts
  <2> QED
    BY <2>1 DEF LinksOf
<1>2. /\ \A k, m \in 1..n : s[k] = s[m] => k = m
      /\ g \in [Workers \cup {"pool_head"} -> [left : Links, right : Links]]
  BY DEF Linked
<1>3. \A k \in 1..n : s[k] # w /\ s[k] \in Workers /\ s[k] # "pool_head"
  BY <1>1, AddressesDiffer
<1>4. i \in Nat /\ i <= n /\ (i # 0 => i \in 1..n) /\ (i # n => i + 1 \in 1..n) /\ (i + 1) - 1 = i
  BY <1>1
<1> DEFINE t == Inserted(s, n, i, w)
           curr == Place(s, i)
           next == IF i = n THEN NULL ELSE s[i + 1]
           new == glthread_add_next(g, curr, w)
<1>5. /\ curr \in Workers \cup {"pool_head"} /\ curr # w /\ g[curr].right = next
      /\ next # curr /\ next # w /\ (i # n => next \in Workers /\ next # NULL)
      /\ next \in Links /\ curr \in Links /\ w \in Links /\ w \in Workers \cup {"pool_head"}
  <2>1. CASE i = 0
    BY <1>1, <1>3, <1>4, <2>1, AddressesDiffer DEF Place, Links
  <2>2. CASE i # 0
    <3>1. curr = s[i] /\ g[s[i]].right = next
      BY <1>1, <1>4, <2>2 DEF Place
    <3>2. i # n => s[i + 1] # s[i]
      BY <1>2, <1>4, <2>2
    <3> QED
      BY <1>3, <1>4, <2>2, <3>1, <3>2, AddressesDiffer DEF Links
  <2> QED
    BY <2>1, <2>2
<1> HIDE DEF curr, next
<1>6. /\ new \in [Workers \cup {"pool_head"} -> [left : Links, right : Links]]
      /\ new[curr] = [g[curr] EXCEPT !.right = w]
      /\ new[w] = [left |-> curr, right |-> next]
      /\ i # n => new[next] = [g[next] EXCEPT !.left = w]
      /\ \A a \in Workers \cup {"pool_head"} : a # curr /\ a # w /\ a # next => new[a] = g[a]
  <2>1. CASE i = n
    <3>1. new = [g EXCEPT ![curr].right = w, ![w].left = curr] /\ next = NULL
      BY <1>5, <2>1 DEF glthread_add_next, next
    <3> HIDE DEF new
    <3>2. /\ new \in [Workers \cup {"pool_head"} -> [left : Links, right : Links]]
          /\ new[curr] = [g[curr] EXCEPT !.right = w]
          /\ new[w] = [g[w] EXCEPT !.left = curr]
          /\ \A a \in Workers \cup {"pool_head"} : a # curr /\ a # w => new[a] = g[a]
      BY <1>2, <1>5, <3>1
    <3>3. new[w] = [left |-> curr, right |-> NULL]
      BY <3>2 DEF Unlinked
    <3> QED
      BY <2>1, <3>1, <3>2, <3>3
  <2>2. CASE i # n
    <3>1. new = [g EXCEPT ![curr].right = w, ![w] = [left |-> curr, right |-> next], ![next].left = w]
      BY <1>5, <2>2 DEF glthread_add_next
    <3>2. next \in Workers \cup {"pool_head"} /\ [left |-> curr, right |-> next] \in [left : Links, right : Links]
      BY <1>5, <2>2
    <3> HIDE DEF new
    <3> QED
      BY <1>2, <1>5, <2>2, <3>1, <3>2
  <2> QED
    BY <2>1, <2>2
<1> HIDE DEF new
<1>7. /\ n + 1 \in Nat /\ n + 1 # 0 /\ i + 1 \in 1 .. n + 1 /\ t[i + 1] = w
      /\ \A k \in 1 .. n + 1 : k <= i => k \in 1..n /\ t[k] = s[k]
      /\ \A k \in 1 .. n + 1 : k > i + 1 => k - 1 \in 1..n /\ t[k] = s[k - 1]
      /\ \A k \in 1 .. n + 1 : k <= i \/ k = i + 1 \/ k > i + 1
  BY <1>1, <1>4 DEF Inserted
<1>8. /\ t \in [1 .. n + 1 -> Workers]
      /\ \A k, m \in 1 .. n + 1 : t[k] = t[m] => k = m
  <2>1. t \in [1 .. n + 1 -> Workers]
    <3>1. \A k \in 1 .. n + 1 : t[k] \in Workers
      BY <1>1, <1>7
    <3> QED
      BY <3>1 DEF Inserted
  <2>2. ASSUME NEW k \in 1 .. n + 1, NEW m \in 1 .. n + 1, t[k] = t[m] PROVE k = m
    <3> HIDE DEF t
    <3>1. CASE k = i + 1 \/ m = i + 1
      BY <1>3, <1>7, <2>2, <3>1
    <3>2. CASE k # i + 1 /\ m # i + 1
      <4> DEFINE p == IF k <= i THEN k ELSE k - 1
                 q == IF m <= i THEN m ELSE m - 1
      <4>1. t[k] = s[p] /\ t[m] = s[q] /\ p \in 1..n /\ q \in 1..n
        BY <1>7, <3>2
      <4>2. p = q
        BY <1>2, <2>2, <4>1
      <4> QED
        BY <1>4, <3>2, <4>2
    <3> QED
      BY <3>1, <3>2
  <2> QED
    BY <2>1, <2>2
<1> HIDE DEF t
<1>9. new["pool_head"] = [left |-> NULL, right |-> t[1]]
  <2>1. g["pool_head"] = [left |-> NULL, right |-> IF n = 0 THEN NULL ELSE s[1]]
    BY DEF Linked
  <2>2. "pool_head" # w /\ "pool_head" # next
    BY <1>3, <1>4, AddressesDiffer DEF next
  <2>3. CASE i = 0
    <3>1. curr = "pool_head" /\ t[1] = w
      BY <1>7, <2>3 DEF curr, Place
    <3> QED
      BY <1>6, <2>1, <3>1
  <2>4. CASE i # 0
    <3>1. curr # "pool_head" /\ n # 0 /\ t[1] = s[1]
      BY <1>3, <1>4, <1>7, <2>4 DEF curr, Place
    <3> QED
      BY <1>6, <2>1, <2>2, <3>1
  <2> QED
    BY <2>3, <2>4
<1>10. ASSUME NEW k \in 1 .. n + 1
       PROVE  new[t[k]] = [left |-> IF k = 1 THEN "pool_head" ELSE t[k - 1],
                           right |-> IF k = n + 1 THEN NULL ELSE t[k + 1]]
  <2>1. CASE k < i
    <3>1. k \in 1..n /\ k # n /\ k # i /\ k # n + 1 /\ k # i + 1 /\ k + 1 <= i /\ i # 0
      BY <1>1, <1>4, <2>1
    <3>2. t[k] = s[k] /\ (k # 1 => t[k - 1] = s[k - 1]) /\ t[k + 1] = s[k + 1]
      <4>1. k # 1 => k - 1 \in 1 .. n + 1 /\ k - 1 <= i
        BY <1>1, <2>1
      <4>2. k + 1 \in 1 .. n + 1
        BY <1>1, <3>1
      <4> QED
        BY <1>7, <2>1, <3>1, <4>1, <4>2
    <3>3. s[k] # curr /\ s[k] # next /\ s[k] # w /\ s[k] \in Workers
      BY <1>2, <1>3, <1>4, <3>1, AddressesDiffer DEF curr, next, Place
    <3>4. new[s[k]] = g[s[k]]
      BY <1>6, <3>3
    <3>5. g[s[k]] = [left |-> IF k = 1 THEN "pool_head" ELSE s[k - 1], right |-> s[k + 1]]
      BY <3>1 DEF Linked
    <3> QED
      BY <3>1, <3>2, <3>4, <3>5
  <2>2. CASE k = i
    <3>1. i \in 1..n /\ k # n + 1 /\ curr = s[i]
      BY <1>1, <1>4, <2>2 DEF curr, Place
    <3>2. t[i] = s[i] /\ t[i + 1] = w /\ (i # 1 => t[i - 1] = s[i - 1])
      <4>1. i # 1 => i - 1 \in 1 .. n + 1 /\ i - 1 <= i
        BY <1>1, <3>1
      <4>2. i \in 1 .. n + 1 /\ i <= i
        BY <1>1, <3>1
      <4> QED
        BY <1>7, <4>1, <4>2
    <3>3. g[s[i]] = [left |-> IF i = 1 THEN "pool_head" ELSE s[i - 1],
                     right |-> IF i = n THEN NULL ELSE s[i + 1]]
      BY <3>1 DEF Linked
    <3>4. new[s[i]] = [g[s[i]] EXCEPT !.right = w]
      BY <1>6, <3>1
    <3>5. new[s[i]] = [left |-> IF i = 1 THEN "pool_head" ELSE s[i - 1], right |-> w]
      BY <3>3, <3>4
    <3> QED
      BY <2>2, <3>1, <3>2, <3>5
  <2>3. CASE k = i + 1
    <3>1. curr = IF k = 1 THEN "pool_head" ELSE t[k - 1]
      <4>1. k - 1 = i /\ (k = 1 <=> i = 0)
        BY <1>4, <2>3
      <4>2. i # 0 => t[i] = s[i]
        <5>1. i # 0 => i \in 1 .. n + 1 /\ i <= i
          BY <1>1, <1>4
        <5> QED
          BY <1>7, <5>1
      <4> QED
        BY <4>1, <4>2 DEF curr, Place
    <3>2. next = IF k = n + 1 THEN NULL ELSE t[k + 1]
      <4>1. k = n + 1 <=> i = n
        BY <1>1, <1>4, <2>3
      <4>2. i # n => k + 1 \in 1 .. n + 1 /\ k + 1 > i + 1 /\ (k + 1) - 1 = i + 1
        BY <1>1, <1>4, <2>3
      <4>3. i # n => t[k + 1] = s[i + 1]
        BY <1>7, <4>2
      <4> QED
        BY <4>1, <4>3 DEF next
    <3> QED
      BY <1>6, <1>7, <2>3, <3>1, <3>2
  <2>4. CASE k = i + 2
    <3>1. i # n /\ i + 1 \in 1..n /\ k - 1 = i + 1 /\ k # 1 /\ (k = n + 1 <=> i + 1 = n)
      BY <1>1, <1>4, <2>4
    <3>2. t[k] = s[i + 1] /\ t[k - 1] = w /\ (k # n + 1 => t[k + 1] = s[(i + 1) + 1])
      <4>1. k > i + 1
        BY <1>4, <2>4
      <4>2. k # n + 1 => k + 1 \in 1 .. n + 1 /\ k + 1 > i + 1 /\ (k + 1) - 1 = (i + 1) + 1
        BY <1>1, <1>4, <2>4
      <4> QED
        BY <1>7, <3>1, <4>1, <4>2
    <3>3. next = s[i + 1]
      BY <3>1 DEF next
    <3>4. g[s[i + 1]] = [left |-> IF i + 1 = 1 THEN "pool_head" ELSE s[(i + 1) - 1],
                         right |-> IF i + 1 = n THEN NULL ELSE s[(i + 1) + 1]]
      BY <3>1 DEF Linked
    <3>5. new[s[i + 1]] = [g[s[i + 1]] EXCEPT !.left = w]
      BY <1>6, <3>1, <3>3
    <3>6. new[s[i + 1]] = [left |-> w, right |-> IF i + 1 = n THEN NULL ELSE s[(i + 1) + 1]]
      BY <3>4, <3>5
    <3> QED
      BY <3>1, <3>2, <3>6
  <2>5. CASE k > i + 2
    <3>1. /\ k > i + 1 /\ k - 1 \in 1..n /\ k - 1 \in 1 .. n + 1 /\ k - 1 > i + 1 /\ k # 1 /\ k - 1 # 1
          /\ k - 1 # i /\ k - 1 # i + 1 /\ (k = n + 1 <=> k - 1 = n) /\ (k - 1) + 1 = k
      BY <1>1, <1>4, <2>5
    <3>2. t[k] = s[k - 1] /\ t[k - 1] = s[(k - 1) - 1] /\ (k # n + 1 => t[k + 1] = s[k])
      <4>1. k # n + 1 => k + 1 \in 1 .. n + 1 /\ k + 1 > i + 1 /\ (k + 1) - 1 = k
        BY <1>1, <1>4, <2>5
      <4> QED
        BY <1>7, <3>1, <4>1
    <3>3. s[k - 1] # curr /\ s[k - 1] # next /\ s[k - 1] # w /\ s[k - 1] \in Workers
      BY <1>2, <1>3, <1>4, <3>1, AddressesDiffer DEF curr, next, Place
    <3>4. new[s[k - 1]] = g[s[k - 1]]
      BY <1>6, <3>3
    <3>5. g[s[k - 1]] = [left |-> IF k - 1 = 1 THEN "pool_head" ELSE s[(k - 1) - 1],
                         right |-> IF k - 1 = n THEN NULL ELSE s[(k - 1) + 1]]
      BY <3>1 DEF Linked
    <3> QED
      BY <3>1, <3>2, <3>4, <3>5
  <2> QED
    BY <1>4, <2>1, <2>2, <2>3, <2>4, <2>5
<1>11. ASSUME NEW a \in Workers, \A k \in 1 .. n + 1 : t[k] # a
       PROVE  new[a] = Unlinked
  <2>1. a # w
    BY <1>7, <1>11
  <2>2. ASSUME NEW k \in 1..n PROVE s[k] # a
    <3>1. CASE k <= i
      <4>1. k \in 1 .. n + 1
        BY <1>1
      <4> QED
        BY <1>7, <1>11, <3>1, <4>1
    <3>2. CASE ~(k <= i)
      <4>1. k + 1 \in 1 .. n + 1 /\ k + 1 > i + 1 /\ (k + 1) - 1 = k
        BY <1>1, <1>4, <3>2
      <4> QED
        BY <1>7, <1>11, <4>1
    <3> QED
      BY <3>1, <3>2
  <2>3. a # curr /\ a # next
    BY <1>4, <2>2, AddressesDiffer DEF curr, next, Place
  <2>4. g[a] = Unlinked
    BY <2>2 DEF Linked
  <2> QED
    BY <1>6, <2>1, <2>3, <2>4
<1>12. Linked(new, n + 1, t)
  BY <1>6, <1>7, <1>8, <1>9, <1>10, <1>11 DEF Linked
<1> QED
  BY <1>12 DEF new, t, curr

(* Removal: remove_glthread takes out the worker it is given, wherever it  *)
(* stands, clears both its links and keeps the order of the others.        *)
THEOREM LinkedRemove ==
  ASSUME NEW g, NEW n, NEW s, Linked(g, n, s), NEW i \in 1..n
  PROVE  Linked(remove_glthread(g, s[i]), n - 1, Without(s, n, i))
<1>1. /\ n \in Nat /\ s \in [1..n -> Workers] /\ DOMAIN g = Workers \cup {"pool_head"}
      /\ g["pool_head"].left = NULL
      /\ g["pool_head"].right = IF n = 0 THEN NULL ELSE s[1]
      /\ \A k \in 1..n : /\ g[s[k]].left = IF k = 1 THEN "pool_head" ELSE s[k - 1]
                         /\ g[s[k]].right = IF k = n THEN NULL ELSE s[k + 1]
                         /\ g[s[k]] # Unlinked
  <2>1. LinksOf(g, n, s)
    BY LinkedFacts
  <2> QED
    BY <2>1 DEF LinksOf
<1>2. /\ \A k, m \in 1..n : s[k] = s[m] => k = m
      /\ g \in [Workers \cup {"pool_head"} -> [left : Links, right : Links]]
  BY DEF Linked
<1>3. \A k \in 1..n : s[k] \in Workers /\ s[k] # "pool_head" /\ s[k] # NULL
  BY <1>1, AddressesDiffer
<1>4. /\ i \in Nat /\ i - 1 \in Nat /\ (i # 1 => i - 1 \in 1..n) /\ (i # n => i + 1 \in 1..n)
      /\ i - 1 # i /\ i + 1 # i /\ (i - 1) + 1 = i /\ (i + 1) - 1 = i /\ n - 1 \in Nat
  BY <1>1
<1> DEFINE t == Without(s, n, i)
           l == Place(s, i - 1)
           r == IF i = n THEN NULL ELSE s[i + 1]
           new == remove_glthread(g, s[i])
<1>5. /\ l \in Workers \cup {"pool_head"} /\ l # NULL /\ l # s[i] /\ l # r /\ l \in Links
      /\ r \in Links /\ r # s[i] /\ r # "pool_head" /\ (i # n => r \in Workers /\ r # NULL)
      /\ s[i] \in Workers /\ g[s[i]].left = l /\ g[s[i]].right = r
  <2>1. g[s[i]].left = l /\ g[s[i]].right = r
    BY <1>1 DEF Place
  <2>2. i # 1 => l = s[i - 1] /\ s[i - 1] # s[i] /\ (i # n => s[i - 1] # s[i + 1])
    BY <1>2, <1>4 DEF Place
  <2>3. i = 1 => l = "pool_head"
    BY DEF Place
  <2>4. i # n => s[i + 1] # s[i]
    BY <1>2, <1>4
  <2> HIDE DEF l
  <2>5. l \in Workers \cup {"pool_head"} /\ l # NULL /\ l # s[i]
    BY <1>3, <1>4, <2>2, <2>3, AddressesDiffer
  <2>6. r # s[i] /\ r # "pool_head" /\ (i # n => r \in Workers /\ r # NULL) /\ (r = NULL \/ r \in Workers)
    BY <1>3, <1>4, <2>4, AddressesDiffer
  <2>7. l # r
    BY <1>3, <1>4, <2>2, <2>3, <2>5, AddressesDiffer
  <2> HIDE DEF r
  <2> QED
    BY <1>3, <2>1, <2>5, <2>6, <2>7 DEF Links
<1> HIDE DEF l, r
<1>6. /\ new \in [Workers \cup {"pool_head"} -> [left : Links, right : Links]]
      /\ new[l] = [g[l] EXCEPT !.right = r]
      /\ i # n => new[r] = [g[r] EXCEPT !.left = l]
      /\ new[s[i]] = Unlinked
      /\ \A a \in Workers \cup {"pool_head"} : a # l /\ a # r /\ a # s[i] => new[a] = g[a]
  <2>0. NULL \in Links /\ Unlinked \in [left : Links, right : Links]
    BY DEF Links, Unlinked
  <2>1. CASE i = n
    <3>1. r = NULL
      BY <2>1 DEF r
    <3>2. new = [g EXCEPT ![l].right = NULL, ![s[i]].left = NULL]
      BY <1>5, <3>1 DEF remove_glthread
    <3> HIDE DEF new
    <3>3. /\ new \in [Workers \cup {"pool_head"} -> [left : Links, right : Links]]
          /\ new[l] = [g[l] EXCEPT !.right = NULL]
          /\ new[s[i]] = [g[s[i]] EXCEPT !.left = NULL]
          /\ \A a \in Workers \cup {"pool_head"} : a # l /\ a # s[i] => new[a] = g[a]
      BY <1>2, <1>5, <2>0, <3>2
    <3>4. g[s[i]] \in [left : Links, right : Links] /\ g[s[i]].right = NULL
      BY <1>2, <1>5, <3>1
    <3>5. new[s[i]] = Unlinked
      BY <3>3, <3>4 DEF Unlinked
    <3> QED
      BY <2>1, <3>1, <3>3, <3>5
  <2>2. CASE i # n
    <3>1. new = [g EXCEPT ![l].right = r, ![r].left = l, ![s[i]] = Unlinked]
      BY <1>5, <2>2 DEF remove_glthread
    <3>2. r \in Workers \cup {"pool_head"}
      BY <1>5, <2>2
    <3> HIDE DEF new
    <3> QED
      BY <1>2, <1>5, <2>0, <2>2, <3>1, <3>2
  <2> QED
    BY <2>1, <2>2
<1> HIDE DEF new
<1>7. /\ \A k \in 1 .. n - 1 : k < i => k \in 1..n /\ t[k] = s[k]
      /\ \A k \in 1 .. n - 1 : ~(k < i) => k + 1 \in 1..n /\ t[k] = s[k + 1]
  BY <1>1, <1>4 DEF Without
<1>8. /\ t \in [1 .. n - 1 -> Workers]
      /\ \A k, m \in 1 .. n - 1 : t[k] = t[m] => k = m
  <2>1. t \in [1 .. n - 1 -> Workers]
    <3>1. \A k \in 1 .. n - 1 : t[k] \in Workers
      BY <1>3, <1>7
    <3> QED
      BY <3>1 DEF Without
  <2>2. ASSUME NEW k \in 1 .. n - 1, NEW m \in 1 .. n - 1, t[k] = t[m] PROVE k = m
    <3> HIDE DEF t
    <3> DEFINE p == IF k < i THEN k ELSE k + 1
               q == IF m < i THEN m ELSE m + 1
    <3>1. t[k] = s[p] /\ t[m] = s[q] /\ p \in 1..n /\ q \in 1..n
      BY <1>7
    <3>2. p = q
      BY <1>2, <2>2, <3>1
    <3> QED
      BY <1>4, <3>2
  <2> QED
    BY <2>1, <2>2
<1> HIDE DEF t
<1>9. new["pool_head"] = [left |-> NULL, right |-> IF n - 1 = 0 THEN NULL ELSE t[1]]
  <2>1. g["pool_head"] = [left |-> NULL, right |-> IF n = 0 THEN NULL ELSE s[1]]
    BY DEF Linked
  <2>2. CASE i = 1
    <3>1. l = "pool_head"
      BY <2>2 DEF l, Place
    <3>2. r = IF n - 1 = 0 THEN NULL ELSE t[1]
      <4>1. i = n <=> n - 1 = 0
        BY <1>1, <2>2
      <4>2. n - 1 # 0 => 1 \in 1 .. n - 1 /\ ~(1 < i)
        BY <1>1, <1>4, <2>2
      <4>3. n - 1 # 0 => t[1] = s[1 + 1]
        BY <1>7, <4>2
      <4> QED
        BY <2>2, <4>1, <4>3 DEF r
    <3> QED
      BY <1>6, <2>1, <3>1, <3>2
  <2>3. CASE i # 1
    <3>1. n # 0 /\ n - 1 # 0 /\ 1 \in 1 .. n - 1 /\ 1 < i
      BY <1>1, <1>4, <2>3
    <3>2. t[1] = s[1] /\ l = s[i - 1]
      <4>1. i - 1 # 0
        BY <1>4, <2>3
      <4> QED
        BY <1>7, <3>1, <4>1 DEF l, Place
    <3>3. new["pool_head"] = g["pool_head"]
      BY <1>3, <1>4, <1>5, <1>6, <2>3, <3>2
    <3> QED
      BY <2>1, <3>1, <3>2, <3>3
  <2> QED
    BY <2>2, <2>3
<1>10. ASSUME NEW k \in 1 .. n - 1
       PROVE  new[t[k]] = [left |-> IF k = 1 THEN "pool_head" ELSE t[k - 1],
                           right |-> IF k = n - 1 THEN NULL ELSE t[k + 1]]
  <2>1. CASE k < i - 1
    <3>1. /\ k < i /\ k \in 1..n /\ k # n /\ k # n - 1 /\ k # i - 1 /\ k # i /\ k # i + 1
          /\ k + 1 \in 1 .. n - 1 /\ k + 1 < i /\ i # 1
      BY <1>1, <1>4, <2>1
    <3>2. t[k] = s[k] /\ (k # 1 => t[k - 1] = s[k - 1]) /\ t[k + 1] = s[k + 1]
      <4>1. k # 1 => k - 1 \in 1 .. n - 1 /\ k - 1 < i
        BY <1>1, <1>4, <2>1
      <4> QED
        BY <1>7, <3>1, <4>1
    <3>3. s[k] # l /\ s[k] # r /\ s[k] # s[i] /\ s[k] \in Workers
      BY <1>2, <1>3, <1>4, <3>1 DEF l, r, Place
    <3>4. new[s[k]] = g[s[k]]
      BY <1>6, <3>3
    <3>5. g[s[k]] = [left |-> IF k = 1 THEN "pool_head" ELSE s[k - 1], right |-> s[k + 1]]
      BY <3>1 DEF Linked
    <3> QED
      BY <3>1, <3>2, <3>4, <3>5
  <2>2. CASE k = i - 1
    <3>1. k \in 1..n /\ k # n /\ k < i /\ i # 1 /\ i - 1 # 0 /\ (k = n - 1 <=> i = n) /\ k + 1 = i
      BY <1>1, <1>4, <2>2
    <3>2. t[k] = s[k] /\ (k # 1 => t[k - 1] = s[k - 1]) /\ l = s[k]
      <4>1. k # 1 => k - 1 \in 1 .. n - 1 /\ k - 1 < i
        BY <1>1, <1>4, <2>2
      <4> QED
        BY <1>7, <2>2, <3>1, <4>1 DEF l, Place
    <3>3. r = IF k = n - 1 THEN NULL ELSE t[k + 1]
      <4>1. k # n - 1 => i \in 1 .. n - 1 /\ ~(i < i)
        BY <1>1, <1>4, <3>1
      <4>2. k # n - 1 => t[i] = s[i + 1]
        BY <1>7, <4>1
      <4> QED
        BY <3>1, <4>2 DEF r
    <3>4. g[s[k]] = [left |-> IF k = 1 THEN "pool_head" ELSE s[k - 1],
                     right |-> IF k = n THEN NULL ELSE s[k + 1]]
      BY <3>1 DEF Linked
    <3>5. new[s[k]] = [g[s[k]] EXCEPT !.right = r]
      BY <1>6, <3>2
    <3>6. new[s[k]] = [left |-> IF k = 1 THEN "pool_head" ELSE s[k - 1], right |-> r]
      BY <3>4, <3>5
    <3> QED
      BY <3>2, <3>3, <3>6
  <2>3. CASE k = i
    <3>1. i # n /\ ~(k < i) /\ i + 1 \in 1..n /\ (i = n - 1 <=> i + 1 = n)
      BY <1>1, <1>4, <2>3
    <3>2. t[k] = s[i + 1] /\ r = s[i + 1] /\ (k # n - 1 => t[k + 1] = s[(i + 1) + 1])
      <4>1. k # n - 1 => k + 1 \in 1 .. n - 1 /\ ~(k + 1 < i)
        BY <1>1, <1>4, <2>3
      <4>2. t[k] = s[k + 1] /\ (k # n - 1 => t[k + 1] = s[(k + 1) + 1])
        BY <1>7, <3>1, <4>1
      <4> QED
        BY <2>3, <3>1, <4>2 DEF r
    <3>3. l = IF k = 1 THEN "pool_head" ELSE t[k - 1]
      <4>1. k # 1 => k - 1 \in 1 .. n - 1 /\ k - 1 < i
        BY <1>1, <1>4, <2>3
      <4>2. k # 1 => t[k - 1] = s[k - 1]
        BY <1>7, <4>1
      <4>3. k = 1 <=> i - 1 = 0
        BY <1>4, <2>3
      <4> QED
        BY <2>3, <4>2, <4>3 DEF l, Place
    <3>4. g[s[i + 1]] = [left |-> IF i + 1 = 1 THEN "pool_head" ELSE s[(i + 1) - 1],
                         right |-> IF i + 1 = n THEN NULL ELSE s[(i + 1) + 1]]
      BY <3>1 DEF Linked
    <3>5. new[s[i + 1]] = [g[s[i + 1]] EXCEPT !.left = l]
      BY <1>6, <3>1, <3>2
    <3>6. new[s[i + 1]] = [left |-> l, right |-> IF i + 1 = n THEN NULL ELSE s[(i + 1) + 1]]
      BY <3>4, <3>5
    <3> QED
      BY <2>3, <3>1, <3>2, <3>3, <3>6
  <2>4. CASE k > i
    <3>1. /\ ~(k < i) /\ k + 1 \in 1..n /\ k # 1 /\ k + 1 # 1 /\ k + 1 # i /\ k + 1 # i + 1
          /\ k + 1 # i - 1 /\ (k = n - 1 <=> k + 1 = n) /\ (k + 1) - 1 = k
          /\ k - 1 \in 1 .. n - 1 /\ ~(k - 1 < i) /\ (k - 1) + 1 = k
      BY <1>1, <1>4, <2>4
    <3>2. t[k] = s[k + 1] /\ t[k - 1] = s[k] /\ (k # n - 1 => t[k + 1] = s[(k + 1) + 1])
      <4>1. k # n - 1 => k + 1 \in 1 .. n - 1 /\ ~(k + 1 < i)
        BY <1>1, <1>4, <2>4
      <4>2. t[k - 1] = s[(k - 1) + 1]
        BY <1>7, <3>1
      <4> QED
        BY <1>7, <3>1, <4>1, <4>2
    <3>3. s[k + 1] # l /\ s[k + 1] # r /\ s[k + 1] # s[i] /\ s[k + 1] \in Workers
      BY <1>2, <1>3, <1>4, <3>1 DEF l, r, Place
    <3>4. new[s[k + 1]] = g[s[k + 1]]
      BY <1>6, <3>3
    <3>5. g[s[k + 1]] = [left |-> IF k + 1 = 1 THEN "pool_head" ELSE s[(k + 1) - 1],
                         right |-> IF k + 1 = n THEN NULL ELSE s[(k + 1) + 1]]
      BY <3>1 DEF Linked
    <3> QED
      BY <3>1, <3>2, <3>4, <3>5
  <2> QED
    BY <1>4, <2>1, <2>2, <2>3, <2>4
<1>11. ASSUME NEW a \in Workers, \A k \in 1 .. n - 1 : t[k] # a
       PROVE  new[a] = Unlinked
  <2>1. CASE a = s[i]
    BY <1>6, <2>1
  <2>2. CASE a # s[i]
    <3>1. ASSUME NEW k \in 1..n PROVE s[k] # a
      <4>1. CASE k < i
        <5>1. k \in 1 .. n - 1
          BY <1>1, <1>4, <4>1
        <5> QED
          BY <1>7, <1>11, <4>1, <5>1
      <4>2. CASE k = i
        BY <2>2, <4>2
      <4>3. CASE k > i
        <5>1. k - 1 \in 1 .. n - 1 /\ ~(k - 1 < i) /\ (k - 1) + 1 = k
          BY <1>1, <1>4, <4>3
        <5> QED
          BY <1>7, <1>11, <5>1
      <4> QED
        BY <1>4, <4>1, <4>2, <4>3
    <3>2. a # l /\ a # r
      BY <1>4, <3>1, AddressesDiffer DEF l, r, Place
    <3>3. g[a] = Unlinked
      BY <3>1 DEF Linked
    <3> QED
      BY <1>6, <2>2, <3>2, <3>3
  <2> QED
    BY <2>1, <2>2
<1>12. Linked(new, n - 1, t)
  BY <1>4, <1>6, <1>8, <1>9, <1>10, <1>11 DEF Linked
<1> QED
  BY <1>12 DEF new, t

(* glthread_add_before puts the worker before the i-th instead. *)
THEOREM LinkedAddBefore ==
  ASSUME NEW g, NEW n, NEW s, Linked(g, n, s), NEW i \in 1..n,
         NEW w \in Workers, g[w] = Unlinked
  PROVE  Linked(glthread_add_before(g, s[i], w), n + 1, Inserted(s, n, i - 1, w))
<1>1. /\ n \in Nat /\ s \in [1..n -> Workers] /\ DOMAIN g = Workers \cup {"pool_head"}
      /\ g["pool_head"].right = IF n = 0 THEN NULL ELSE s[1]
      /\ \A k \in 1..n : /\ g[s[k]].left = IF k = 1 THEN "pool_head" ELSE s[k - 1]
                         /\ g[s[k]].right = IF k = n THEN NULL ELSE s[k + 1]
                         /\ g[s[k]] # Unlinked
  <2>1. LinksOf(g, n, s)
    BY LinkedFacts
  <2> QED
    BY <2>1 DEF LinksOf
<1>2. /\ \A k, m \in 1..n : s[k] = s[m] => k = m
      /\ g \in [Workers \cup {"pool_head"} -> [left : Links, right : Links]]
  BY DEF Linked
<1> DEFINE temp == Place(s, i - 1)
<1>3. i - 1 \in 0..n /\ (i - 1 # 0 => i - 1 \in 1..n /\ i - 1 # i /\ i - 1 # n) /\ (i - 1) + 1 = i
      /\ (i - 1 = 0 <=> i = 1)
  BY <1>1
<1>4. g[s[i]].left = temp /\ g[temp].right = s[i]
  <2>1. CASE i = 1
    BY <1>1, <1>3, <2>1 DEF Place
  <2>2. CASE i # 1
    <3>1. g[s[i - 1]].right = s[i]
      BY <1>1, <1>3, <2>2
    <3> QED
      BY <1>1, <1>3, <2>2, <3>1 DEF Place
  <2> QED
    BY <2>1, <2>2
<1>5. /\ temp \in Workers \cup {"pool_head"} /\ s[i] \in Workers
      /\ temp # NULL /\ s[i] # NULL /\ temp # s[i] /\ s[i] # w /\ temp # w
  BY <1>1, <1>2, <1>3, AddressesDiffer DEF Place
<1> HIDE DEF temp
<1>6. glthread_add_before(g, s[i], w) =
        [g EXCEPT ![w] = [left |-> temp, right |-> s[i]], ![s[i]].left = w, ![temp].right = w]
  BY <1>4, <1>5 DEF glthread_add_before
<1>7. glthread_add_next(g, temp, w) =
        [g EXCEPT ![temp].right = w, ![w] = [left |-> temp, right |-> s[i]], ![s[i]].left = w]
  BY <1>4, <1>5 DEF glthread_add_next
<1>8. glthread_add_before(g, s[i], w) = glthread_add_next(g, temp, w)
  <2> DEFINE b == glthread_add_before(g, s[i], w)
             a == glthread_add_next(g, temp, w)
  <2>1. /\ b = [x \in Workers \cup {"pool_head"} |-> b[x]]
        /\ a = [x \in Workers \cup {"pool_head"} |-> a[x]]
    BY <1>1, <1>6, <1>7
  <2>2. /\ b[w] = [left |-> temp, right |-> s[i]] /\ a[w] = [left |-> temp, right |-> s[i]]
        /\ b[s[i]] = [g[s[i]] EXCEPT !.left = w] /\ a[s[i]] = [g[s[i]] EXCEPT !.left = w]
        /\ b[temp] = [g[temp] EXCEPT !.right = w] /\ a[temp] = [g[temp] EXCEPT !.right = w]
    BY <1>1, <1>5, <1>6, <1>7
  <2>3. ASSUME NEW x \in Workers \cup {"pool_head"}, x # w, x # s[i], x # temp PROVE b[x] = a[x]
    BY <1>1, <1>6, <1>7, <2>3
  <2>4. \A x \in Workers \cup {"pool_head"} : b[x] = a[x]
    BY <2>2, <2>3
  <2> HIDE DEF a, b
  <2>5. b = a
    BY <2>1, <2>4
  <2> QED
    BY <2>5 DEF a, b
<1>9. Linked(glthread_add_next(g, temp, w), n + 1, Inserted(s, n, i - 1, w))
  BY <1>3, LinkedAddNext DEF temp
<1> QED
  BY <1>8, <1>9

(* What SelectInSeq returns: the first that satisfies, or 0. *)
LEMMA FirstSelected ==
  ASSUME NEW n \in Nat, NEW S \in SUBSET (1..n)
  PROVE  LET p == IF S # {} THEN Min(S) ELSE 0
         IN  /\ p \in 0..n
             /\ p = 0 => S = {}
             /\ p # 0 => p \in S /\ \A k \in S : p <= k
<1>1. CASE S = {}
  BY <1>1
<1>2. CASE S # {}
  <2>1. S \in SUBSET Nat
    OBVIOUS
  <2>2. \E m \in S : \A k \in S : m <= k
    BY <1>2, <2>1, Least
  <2>3. Min(S) \in S /\ \A k \in S : Min(S) <= k
    BY <2>2 DEF Min
  <2>4. Min(S) \in 1..n
    BY <2>3
  <2>5. Min(S) # 0 /\ Min(S) \in 0..n
    BY <2>4
  <2> QED
    BY <1>2, <2>3, <2>5
<1> QED
  BY <1>1, <1>2

(* glthread_priority_insert finds a place for a worker that is in no list, *)
(* and if comp_fn is an order (of which equal elements are no part) and    *)
(* the list ascends in it, so does the list after the insertion.           *)
THEOREM LinkedPriorityInsert ==
  ASSUME NEW g, NEW n, NEW s, Linked(g, n, s), NEW w \in Workers, \A k \in 1..n : s[k] # w,
         NEW before \in SUBSET (Workers \X Workers),
         \A x, y \in Workers : <<x, y>> \in before => <<y, x>> \notin before,
         \A x, y, z \in Workers : <<x, y>> \in before /\ <<y, z>> \in before => <<x, z>> \in before
  PROVE  \E i \in 0..n :
           /\ Linked(glthread_priority_insert(g, "pool_head", w, before), n + 1, Inserted(s, n, i, w))
           /\ Ascending(s, before) => Ascending(Inserted(s, n, i, w), before)
<1>1. /\ n \in Nat /\ s \in [1..n -> Workers] /\ g[w] = Unlinked
      /\ g \in [Workers \cup {"pool_head"} -> [left : Links, right : Links]]
  BY DEF Linked
<1>2. init_glthread(g, w) = g
  BY <1>1 DEF init_glthread
<1>3. Listed(g, "pool_head") = s /\ Len(s) = n /\ DOMAIN s = 1..n
  BY <1>1, LinkedListed
<1> DEFINE S == {k \in 1..n : <<w, s[k]>> \in before}
           passed == IF S # {} THEN Min(S) ELSE 0
           i == IF passed = 0 THEN n ELSE passed - 1
           t == Inserted(s, n, i, w)
<1>4. SelectInSeq(s, LAMBDA x : <<w, x>> \in before) = passed
  BY <1>3 DEF SelectInSeq
<1>5. /\ passed \in 0..n
      /\ passed = 0 => S = {}
      /\ passed # 0 => passed \in S /\ \A k \in S : passed <= k
  <2>1. S \in SUBSET (1..n)
    OBVIOUS
  <2> HIDE DEF S
  <2> QED
    BY <1>1, <2>1, FirstSelected
<1> HIDE DEF passed
<1>6. i \in 0..n
  BY <1>1, <1>5
<1>7. glthread_priority_insert(g, "pool_head", w, before) = glthread_add_next(g, Place(s, i), w)
  BY <1>2, <1>3, <1>4 DEF glthread_priority_insert, Place
<1>8. Linked(glthread_add_next(g, Place(s, i), w), n + 1, t)
  <2> HIDE DEF i
  <2> QED
    BY <1>1, <1>6, LinkedAddNext
<1>9. /\ \A k \in 1..n : k <= i => <<w, s[k]>> \notin before
      /\ i # n => i + 1 \in 1..n /\ <<w, s[i + 1]>> \in before
  <2>1. CASE passed = 0
    BY <1>1, <1>5, <2>1
  <2>2. CASE passed # 0
    <3>1. i = passed - 1 /\ i + 1 = passed /\ passed \in 1..n
      BY <1>1, <1>5, <2>2
    <3>2. <<w, s[passed]>> \in before
      BY <1>5, <2>2
    <3>3. \A k \in 1..n : k <= i => k \notin S
      BY <1>1, <1>5, <2>2, <3>1
    <3> QED
      BY <3>1, <3>2, <3>3
  <2> QED
    BY <2>1, <2>2
<1> HIDE DEF i, S
<1>10. ASSUME Ascending(s, before) PROVE Ascending(t, before)
  <2>1. \A k, m \in 1..n : k < m => <<s[m], s[k]>> \notin before
    BY <1>3, <1>10 DEF Ascending
  <2>2. DOMAIN t = 1 .. n + 1
    BY DEF Inserted
  <2>3. /\ t[i + 1] = w
        /\ \A k \in 1 .. n + 1 : k < i + 1 => k \in 1..n /\ k <= i /\ t[k] = s[k]
        /\ \A k \in 1 .. n + 1 : k > i + 1 => k - 1 \in 1..n /\ t[k] = s[k - 1] /\ i # n
    BY <1>1, <1>6 DEF Inserted
  <2> HIDE DEF t
  <2>4. ASSUME NEW k \in 1 .. n + 1, NEW m \in 1 .. n + 1, k < m
        PROVE  <<t[m], t[k]>> \notin before
    <3>1. CASE m = i + 1
      BY <1>9, <2>3, <2>4, <3>1
    <3>2. CASE k = i + 1
      <4>1. t[k] = w /\ m - 1 \in 1..n /\ t[m] = s[m - 1] /\ i # n
        BY <2>3, <2>4, <3>2
      <4>2. <<w, s[i + 1]>> \in before /\ i + 1 \in 1..n
        BY <1>9, <4>1
      <4>3. m - 1 = i + 1 \/ i + 1 < m - 1
        BY <1>1, <1>6, <2>4, <3>2
      <4>4. i + 1 < m - 1 => <<s[m - 1], s[i + 1]>> \notin before
        BY <2>1, <4>1, <4>2
      <4>5. s[m - 1] \in Workers /\ s[i + 1] \in Workers
        BY <1>1, <4>1, <4>2
      <4> QED
        BY <4>1, <4>2, <4>3, <4>4, <4>5
    <3>3. CASE k # i + 1 /\ m # i + 1
      <4> DEFINE p == IF k < i + 1 THEN k ELSE k - 1
                 q == IF m < i + 1 THEN m ELSE m - 1
      <4>1. p \in 1..n /\ q \in 1..n /\ t[k] = s[p] /\ t[m] = s[q]
        BY <1>6, <2>3, <3>3
      <4>2. p < q
        BY <1>1, <1>6, <2>4, <3>3
      <4> HIDE DEF p, q
      <4> QED
        BY <2>1, <4>1, <4>2
    <3> QED
      BY <3>1, <3>2, <3>3
  <2> QED
    BY <2>2, <2>4 DEF Ascending
<1> QED
  BY <1>6, <1>7, <1>8, <1>10

(* glthread_add_last puts a worker whose links are clear behind the last.  *)
LEMMA LinkedAddLast ==
  ASSUME NEW g, NEW n, NEW s, Linked(g, n, s), NEW w \in Workers, g[w] = Unlinked
  PROVE  Linked(glthread_add_last(g, "pool_head", w), n + 1,
                [k \in 1 .. n + 1 |-> IF k = n + 1 THEN w ELSE s[k]])
<1>1. n \in Nat /\ s \in [1..n -> Workers]
  BY DEF Linked
<1>2. /\ Listed(g, "pool_head") = s /\ Len(s) = n /\ (s = <<>> <=> n = 0)
      /\ n \in 0..n
  BY <1>1, LinkedListed
<1>3. glthread_add_last(g, "pool_head", w) = glthread_add_next(g, Place(s, n), w)
  BY <1>2 DEF glthread_add_last, Place
<1>4. Inserted(s, n, n, w) = [k \in 1 .. n + 1 |-> IF k = n + 1 THEN w ELSE s[k]]
  <2>1. \A k \in 1 .. n + 1 : k <= n <=> k # n + 1
    BY <1>1
  <2> QED
    BY <2>1 DEF Inserted
<1>5. Linked(glthread_add_next(g, Place(s, n), w), n + 1, Inserted(s, n, n, w))
  BY <1>2, LinkedAddNext
<1> QED
  BY <1>3, <1>4, <1>5

(* dequeue_glthread_first takes the first worker out and clears its links. *)
LEMMA LinkedDequeue ==
  ASSUME NEW g, NEW n, NEW s, Linked(g, n, s), n # 0
  PROVE  /\ glthread_get_first_node(g, "pool_head") = s[1] /\ s[1] \in Workers
         /\ Linked(dequeue_glthread_first(g, "pool_head"), n - 1, [k \in 1 .. n - 1 |-> s[k + 1]])
<1>1. n \in Nat /\ s \in [1..n -> Workers] /\ g["pool_head"].right = s[1]
  <2>1. LinksOf(g, n, s)
    BY LinkedFacts
  <2> QED
    BY <2>1 DEF LinksOf
<1>2. 1 \in 1..n /\ s[1] \in Workers
  BY <1>1
<1>3. glthread_get_first_node(g, "pool_head") = s[1]
  BY <1>1 DEF glthread_get_first_node
<1>4. dequeue_glthread_first(g, "pool_head") = remove_glthread(g, s[1])
  BY <1>2, <1>3, AddressesDiffer DEF dequeue_glthread_first
<1>5. Without(s, n, 1) = [k \in 1 .. n - 1 |-> s[k + 1]]
  <2>1. \A k \in 1 .. n - 1 : ~(k < 1)
    BY <1>1
  <2> QED
    BY <2>1 DEF Without
<1>6. Linked(remove_glthread(g, s[1]), n - 1, Without(s, n, 1))
  BY <1>2, LinkedRemove
<1> QED
  BY <1>2, <1>3, <1>4, <1>5, <1>6

(* thread_pool_init and the insertions of main: the memory of Glthread's    *)
(* Chain is linked.                                                        *)
LEMMA LinkedChain ==
  ASSUME NEW s \in Distinct(Workers), Len(s) = Cardinality(Workers)
  PROVE  Linked(Chain(Workers, "pool_head", s), Len(s), s)
<1>1. PICK n \in Nat : s \in [1..n -> Workers] /\ Cardinality(Members(s)) = n
  <2>1. Cardinality(Workers) \in Nat
    BY WorkersFinite, FS_CardinalityType
  <2> QED
    BY <2>1 DEF Distinct
<1>2. Len(s) = n /\ DOMAIN s = 1..n
  BY <1>1
<1>3. \A i, k \in 1..n : s[i] = s[k] => i = k
  <2>1. s \in Surjection(1..n, Members(s))
    BY <1>1 DEF Members, Surjection
  <2>2. IsFiniteSet(1..n) /\ Cardinality(1..n) = n
    BY <1>1, FS_Interval
  <2>3. s \in Injection(1..n, Members(s))
    BY <1>1, <2>1, <2>2, FS_SurjSameCardinalityImpliesInj
  <2> QED
    BY <2>3 DEF Injection, IsInjective
<1> DEFINE places == <<"pool_head">> \o s
           Before(i) == IF i \in DOMAIN places THEN places[i] ELSE NULL
           place(a) == CHOOSE i \in DOMAIN places : places[i] = a
           g == Chain(Workers, "pool_head", s)
<1>4. /\ DOMAIN places = 1 .. n + 1 /\ places[1] = "pool_head"
      /\ \A k \in 1..n : places[k + 1] = s[k]
  <2>1. s \in Seq(Workers)
    BY <1>1
  <2> QED
    BY <1>1, <1>2, <2>1
<1>5. g = [a \in Workers \cup {"pool_head"} |->
             IF a \in {places[i] : i \in DOMAIN places}
             THEN [left |-> Before(place(a) - 1), right |-> Before(place(a) + 1)] ELSE Unlinked]
  BY DEF Chain
<1> HIDE DEF g, places
<1>6. \A i, k \in 1 .. n + 1 : places[i] = places[k] => i = k
  <2> TAKE i, k \in 1 .. n + 1
  <2> HAVE places[i] = places[k]
  <2>1. /\ i # 1 => i - 1 \in 1..n /\ places[i] = s[i - 1] /\ s[i - 1] \in Workers
        /\ k # 1 => k - 1 \in 1..n /\ places[k] = s[k - 1] /\ s[k - 1] \in Workers
    <3>1. ASSUME NEW m \in 1 .. n + 1, m # 1
          PROVE  m - 1 \in 1..n /\ places[m] = s[m - 1] /\ s[m - 1] \in Workers
      <4>1. m - 1 \in 1..n /\ (m - 1) + 1 = m
        BY <1>1, <3>1
      <4> QED
        BY <1>1, <1>4, <4>1
    <3> QED
      BY <3>1
  <2>2. CASE i = 1 \/ k = 1
    BY <1>4, <2>1, <2>2, AddressesDiffer
  <2>3. CASE i # 1 /\ k # 1
    BY <1>1, <1>3, <2>1, <2>3
  <2> QED
    BY <2>2, <2>3
<1>7. ASSUME NEW k \in 1 .. n + 1
      PROVE  /\ place(places[k]) = k
             /\ places[k] \in Workers \cup {"pool_head"}
             /\ g[places[k]] = [left |-> Before(k - 1), right |-> Before(k + 1)]
  <2>1. place(places[k]) = k
    BY <1>4, <1>6
  <2>2. places[k] \in Workers \cup {"pool_head"}
    <3>1. k # 1 => k - 1 \in 1..n /\ (k - 1) + 1 = k
      BY <1>1
    <3> QED
      BY <1>1, <1>4, <3>1
  <2>3. g[places[k]] = [left |-> Before(place(places[k]) - 1), right |-> Before(place(places[k]) + 1)]
    <3> HIDE DEF place, Before
    <3> QED
      BY <1>4, <1>5, <2>2
  <2> HIDE DEF place, Before
  <2> QED
    BY <2>1, <2>2, <2>3
<1>8. /\ Before(0) = NULL /\ Before(n + 2) = NULL
      /\ Before(1) = "pool_head" /\ \A k \in 1..n : Before(k + 1) = s[k]
  BY <1>1, <1>4
<1>9. \A i : Before(i) \in Links
  BY <1>4, <1>7 DEF Links
<1> HIDE DEF Before, place
<1>10. g \in [Workers \cup {"pool_head"} -> [left : Links, right : Links]]
  <2>1. Unlinked \in [left : Links, right : Links]
    BY DEF Unlinked, Links
  <2> QED
    BY <1>5, <1>9, <2>1
<1>11. g["pool_head"] = [left |-> NULL, right |-> IF n = 0 THEN NULL ELSE s[1]]
  <2>1. g["pool_head"] = [left |-> Before(0), right |-> Before(2)]
    <3>1. 1 \in 1 .. n + 1 /\ 1 - 1 = 0 /\ 1 + 1 = 2
      BY <1>1
    <3> QED
      BY <1>4, <1>7, <3>1
  <2>2. Before(2) = IF n = 0 THEN NULL ELSE s[1]
    <3>1. n # 0 => 1 \in 1..n /\ 1 + 1 = 2
      BY <1>1
    <3> QED
      BY <1>8, <3>1
  <2> QED
    BY <1>8, <2>1, <2>2
<1>12. ASSUME NEW k \in 1..n
       PROVE  g[s[k]] = [left |-> IF k = 1 THEN "pool_head" ELSE s[k - 1],
                         right |-> IF k = n THEN NULL ELSE s[k + 1]]
  <2>1. k + 1 \in 1 .. n + 1 /\ (k + 1) - 1 = k /\ (k + 1) + 1 = k + 2
    BY <1>1
  <2>2. g[s[k]] = [left |-> Before(k), right |-> Before(k + 2)]
    BY <1>4, <1>7, <2>1
  <2>3. Before(k) = IF k = 1 THEN "pool_head" ELSE s[k - 1]
    <3>1. k # 1 => k - 1 \in 1..n /\ (k - 1) + 1 = k
      BY <1>1
    <3> QED
      BY <1>8, <3>1
  <2>4. Before(k + 2) = IF k = n THEN NULL ELSE s[k + 1]
    <3>1. k # n => k + 1 \in 1..n
      BY <1>1
    <3> QED
      BY <1>8, <2>1, <3>1
  <2> QED
    BY <2>2, <2>3, <2>4
<1>13. ASSUME NEW a \in Workers, \A k \in 1..n : s[k] # a
       PROVE  g[a] = Unlinked
  <2>1. a \notin {places[i] : i \in DOMAIN places}
    <3> SUFFICES ASSUME NEW i \in 1 .. n + 1 PROVE places[i] # a
      BY <1>4
    <3>1. i # 1 => i - 1 \in 1..n /\ (i - 1) + 1 = i
      BY <1>1
    <3> QED
      BY <1>4, <1>13, <3>1, AddressesDiffer
  <2> QED
    BY <1>5, <2>1
<1>14. Linked(g, n, s)
  BY <1>1, <1>3, <1>10, <1>11, <1>12, <1>13 DEF Linked
<1> QED
  BY <1>2, <1>14 DEF g

-------------------------------------------------------------------------------
(* The pool.  Its list is linked whatever happens, a spurious wakeup        *)
(* included.                                                               *)
PoolLinked == \E n, s : Linked(wait_glue, n, s)

(* A worker that was taken from the pool and not run yet. *)
Taken == {"prepare", "run"}

(* What the dispatcher holds: the job is given, later ones are not.        *)
HandsOut ==
  /\ dpc # "get" => j \in given /\ got \in Workers
  /\ given \subseteq 1 .. (IF dpc = "get" THEN j - 1 ELSE j)

(* A worker is in the pool, or busy, or about to be run, or forgotten by a *)
(* signal that came too early.                                             *)
IdleOrBusy ==
  /\ \A w \in Workers : wpc[w] \in {"job", "insert"} => ~InPool(w)
  /\ dpc \in Taken => ~InPool(got) /\ wpc[got] \notin {"job", "insert"}

(* A worker about to run has a given job that nobody has run and nobody    *)
(* else is about to run; so has the dispatcher, before it runs the worker. *)
JobsOnce ==
  /\ \A i \in Jobs : runs[i] <= IF i \in given THEN 1 ELSE 0
  /\ \A w \in Workers : wpc[w] = "job" => ex[w] \in given /\ runs[ex[w]] = 0
  /\ \A v, w \in Workers : wpc[v] = "job" /\ wpc[w] = "job" /\ ex[v] = ex[w] => v = w
  /\ dpc \in Taken => runs[j] = 0 /\ \A w \in Workers : wpc[w] = "job" => ex[w] # j
  /\ dpc = "run" => ex[got] = j

PoolInv == PoolTypeOK /\ PoolLinked /\ HandsOut /\ (~disturbed => IdleOrBusy /\ JobsOnce)

(* InPool says who is in the list. *)
LEMMA PoolIs ==
  ASSUME NEW n, NEW s, Linked(wait_glue, n, s)
  PROVE  pool = s /\ \A w : InPool(w) <=> \E k \in 1..n : s[k] = w
<1>1. pool = s
  BY LinkedListed DEF pool
<1>2. DOMAIN s = 1..n
  BY DEF Linked
<1> QED
  BY <1>1, <1>2 DEF InPool

LEMMA NextPoolIs ==
  ASSUME NEW n, NEW s, Linked(wait_glue', n, s)
  PROVE  pool' = s /\ \A w : InPool(w)' <=> \E k \in 1..n : s[k] = w
<1>1. pool' = s
  BY LinkedListed DEF pool
<1>2. DOMAIN s = 1..n
  BY DEF Linked
<1> QED
  BY <1>1, <1>2 DEF InPool

(* The first worker leaves the list, the others stay. *)
LEMMA TakesFirst ==
  ASSUME PoolLinked, pool # <<>>,
         wait_glue' = dequeue_glthread_first(wait_glue, "pool_head"),
         got' = glthread_get_first_node(wait_glue, "pool_head")
  PROVE  /\ got' \in Workers
         /\ PoolLinked' /\ wait_glue' \in [Workers \cup {"pool_head"} -> [left : Links, right : Links]]
         /\ \A w \in Workers : (InPool(w)' => InPool(w)) /\ (w = got' => InPool(w) /\ ~InPool(w)')
         /\ \A w \in Workers : InPool(w) => InPool(w)' \/ w = got'
<1>1. PICK n, s : Linked(wait_glue, n, s)
  BY DEF PoolLinked
<1>2. pool = s /\ \A w : InPool(w) <=> \E k \in 1..n : s[k] = w
  BY <1>1, PoolIs
<1>3. n \in Nat /\ s \in [1..n -> Workers] /\ \A i, k \in 1..n : s[i] = s[k] => i = k
  BY <1>1 DEF Linked
<1>4. n # 0
  BY <1>2, <1>3
<1> DEFINE t == [k \in 1 .. n - 1 |-> s[k + 1]]
<1>5. got' = s[1] /\ s[1] \in Workers /\ Linked(wait_glue', n - 1, t)
  BY <1>1, <1>4, LinkedDequeue
<1>7. \A k \in 1 .. n - 1 : k + 1 \in 1..n /\ k + 1 # 1 /\ t[k] = s[k + 1]
  BY <1>3
<1> HIDE DEF t
<1>6. \A w : InPool(w)' <=> \E k \in 1 .. n - 1 : t[k] = w
  BY <1>5, NextPoolIs
<1>8. 1 \in 1..n
  BY <1>3, <1>4
<1>9. ASSUME NEW w \in Workers
      PROVE  (InPool(w)' => InPool(w)) /\ (w = got' => InPool(w) /\ ~InPool(w)')
  BY <1>2, <1>3, <1>5, <1>6, <1>7, <1>8
<1>10. PoolLinked' /\ wait_glue' \in [Workers \cup {"pool_head"} -> [left : Links, right : Links]]
  <2>1. PoolLinked'
    BY <1>5 DEF PoolLinked
  <2>2. wait_glue' \in [Workers \cup {"pool_head"} -> [left : Links, right : Links]]
    BY <1>5 DEF Linked
  <2> QED
    BY <2>1, <2>2
<1>11. ASSUME NEW w \in Workers, InPool(w), w # got' PROVE InPool(w)'
  <2>1. PICK k \in 1..n : s[k] = w /\ k # 1
    BY <1>2, <1>5, <1>11
  <2>2. k - 1 \in 1 .. n - 1 /\ k - 1 + 1 = k
    BY <1>3, <2>1
  <2>3. t[k - 1] = w
    BY <1>7, <2>1, <2>2
  <2> QED
    BY <1>6, <2>2, <2>3
<1> QED
  BY <1>5, <1>9, <1>10, <1>11

(* A worker that goes back is the only one that was not there before.      *)
LEMMA PutsBack ==
  ASSUME PoolLinked, NEW w \in Workers, wait_glue[w] = Unlinked,
         wait_glue' = glthread_add_last(wait_glue, "pool_head", w)
  PROVE  /\ PoolLinked' /\ wait_glue' \in [Workers \cup {"pool_head"} -> [left : Links, right : Links]]
         /\ \A v \in Workers : InPool(v)' <=> InPool(v) \/ v = w
<1>1. PICK n, s : Linked(wait_glue, n, s)
  BY DEF PoolLinked
<1>2. \A v : InPool(v) <=> \E k \in 1..n : s[k] = v
  BY <1>1, PoolIs
<1>3. n \in Nat
  BY <1>1 DEF Linked
<1> DEFINE t == [k \in 1 .. n + 1 |-> IF k = n + 1 THEN w ELSE s[k]]
<1>4. Linked(wait_glue', n + 1, t)
  BY <1>1, LinkedAddLast
<1>5. \A v : InPool(v)' <=> \E k \in 1 .. n + 1 : t[k] = v
  BY <1>4, NextPoolIs
<1>6. \A k \in 1 .. n + 1 : t[k] = w \/ (k \in 1..n /\ t[k] = s[k])
  BY <1>3
<1> HIDE DEF t
<1>9. n + 1 \in 1 .. n + 1 /\ \A k \in 1..n : k \in 1 .. n + 1 /\ k # n + 1
  BY <1>3
<1>10. t[n + 1] = w /\ \A k \in 1..n : t[k] = s[k]
  BY <1>9 DEF t
<1>7. \A v \in Workers : InPool(v)' <=> InPool(v) \/ v = w
  BY <1>2, <1>5, <1>6, <1>9, <1>10
<1>8. PoolLinked' /\ wait_glue' \in [Workers \cup {"pool_head"} -> [left : Links, right : Links]]
  <2>1. PoolLinked'
    BY <1>4 DEF PoolLinked
  <2>2. wait_glue' \in [Workers \cup {"pool_head"} -> [left : Links, right : Links]]
    BY <1>4 DEF Linked
  <2> QED
    BY <2>1, <2>2
<1> QED
  BY <1>7, <1>8

LEMMA PoolUnchanged ==
  ASSUME UNCHANGED wait_glue
  PROVE  /\ PoolLinked' = PoolLinked
         /\ \A w : InPool(w)' = InPool(w)
  BY DEF PoolLinked, InPool, pool

LEMMA JobsAreNumbers == Len(Blocking) \in Nat /\ Jobs = 1 .. Len(Blocking)
  BY BlockingIsSeq DEF Jobs

LEMMA PoolInitially == PoolInit => PoolInv
<1> SUFFICES ASSUME PoolInit PROVE PoolInv
  OBVIOUS
<1>1. PICK s \in Distinct(Workers) : Len(s) = Cardinality(Workers) /\ wait_glue = Chain(Workers, "pool_head", s)
  BY DEF PoolInit
<1>2. Linked(wait_glue, Len(s), s)
  BY <1>1, LinkedChain
<1>3. PoolTypeOK
  <2>1. wait_glue \in [Workers \cup {"pool_head"} -> [left : Links, right : Links]]
    BY <1>2 DEF Linked
  <2>2. Zero \in [value : Nat, waiters : {0, 1}, junk : BOOLEAN]
    BY DEF Zero, Sem
  <2>3. /\ dpc \in DispatchPlaces /\ got \in Workers \cup {NULL} /\ disturbed \in BOOLEAN
        /\ wpc \in [Workers -> WorkerPlaces] /\ given \subseteq Jobs
    BY DEF PoolInit, DispatchPlaces, WorkerPlaces
  <2>4. /\ j \in 1 .. Len(Blocking) + 1 /\ ex \in [Workers -> 0 .. Len(Blocking)]
        /\ current \in [Workers -> 0 .. Len(Blocking)] /\ runs \in [Jobs -> Nat]
    BY JobsAreNumbers DEF PoolInit
  <2>5. semaphore \in [Workers -> [value : Nat, waiters : {0, 1}, junk : BOOLEAN]]
    BY <2>2 DEF PoolInit
  <2> QED
    BY <2>1, <2>3, <2>4, <2>5 DEF PoolTypeOK
<1>4. PoolLinked
  BY <1>2 DEF PoolLinked
<1>5. HandsOut /\ IdleOrBusy
  BY DEF PoolInit, HandsOut, IdleOrBusy, Taken
<1>6. JobsOnce
  BY DEF PoolInit, JobsOnce, Taken
<1> QED
  BY <1>3, <1>4, <1>5, <1>6 DEF PoolInv

(* thread_pool_get_thread: the worker taken is idle, the job is new. *)
LEMMA GetThreadKeeps == PoolInv /\ GetThread => PoolInv'
<1> SUFFICES ASSUME PoolInv, GetThread PROVE PoolInv'
  OBVIOUS
<1>1. PoolTypeOK /\ PoolLinked /\ HandsOut /\ (~disturbed => IdleOrBusy /\ JobsOnce)
  BY DEF PoolInv
<1>2. /\ dpc = "get" /\ j \in 1 .. Len(Blocking) /\ Len(Blocking) \in Nat
      /\ UNCHANGED <<ex, wpc, current, runs, semaphore, disturbed>>
  BY JobsAreNumbers DEF GetThread, workVars
<1>3. given \subseteq Jobs /\ given \subseteq 1 .. j - 1 /\ j \notin given
  <2>1. given \subseteq 1 .. j - 1
    BY <1>1, <1>2 DEF HandsOut
  <2> QED
    BY <1>1, <1>2, <2>1 DEF PoolTypeOK
<1>4. /\ ex' \in [Workers -> 0..Len(Blocking)] /\ current' \in [Workers -> 0..Len(Blocking)]
      /\ wpc' \in [Workers -> WorkerPlaces] /\ runs' \in [Jobs -> Nat] /\ disturbed' \in BOOLEAN
      /\ semaphore' \in [Workers -> [value : Nat, waiters : {0, 1}, junk : BOOLEAN]]
  BY <1>1, <1>2 DEF PoolTypeOK
<1>5. CASE pool = <<>>
  <2>1. /\ dpc' = "get" /\ j' = j + 1 /\ got' = NULL /\ UNCHANGED <<wait_glue, given>>
    BY <1>5 DEF GetThread, NextDispatch
  <2>2. PoolTypeOK'
    <3>1. j' \in 1 .. Len(Blocking) + 1 /\ dpc' \in DispatchPlaces /\ got' \in Workers \cup {NULL}
      BY <1>2, <2>1 DEF DispatchPlaces
    <3>2. wait_glue' \in [Workers \cup {"pool_head"} -> [left : Links, right : Links]] /\ given' \subseteq Jobs
      BY <1>1, <2>1 DEF PoolTypeOK
    <3> QED
      BY <1>4, <3>1, <3>2 DEF PoolTypeOK
  <2>3. PoolLinked' /\ \A w : InPool(w)' = InPool(w)
    BY <1>1, <2>1, PoolUnchanged
  <2>4. HandsOut'
    <3>1. 1 .. j - 1 \subseteq 1 .. (j + 1) - 1
      BY <1>2
    <3> QED
      BY <1>3, <2>1, <3>1 DEF HandsOut
  <2>5. ASSUME ~disturbed' PROVE IdleOrBusy' /\ JobsOnce'
    <3>1. IdleOrBusy /\ JobsOnce
      BY <1>1, <1>2, <2>5
    <3>2. IdleOrBusy'
      BY <1>2, <2>1, <2>3, <3>1 DEF IdleOrBusy, Taken
    <3>3. JobsOnce'
      BY <1>2, <2>1, <3>1 DEF JobsOnce, Taken
    <3> QED
      BY <3>2, <3>3
  <2> QED
    BY <2>2, <2>3, <2>4, <2>5 DEF PoolInv
<1>6. CASE pool # <<>>
  <2>1. /\ got' = glthread_get_first_node(wait_glue, "pool_head")
        /\ wait_glue' = dequeue_glthread_first(wait_glue, "pool_head")
        /\ given' = given \cup {j} /\ dpc' = "prepare" /\ j' = j
    BY <1>6 DEF GetThread
  <2>2. /\ got' \in Workers
        /\ PoolLinked' /\ wait_glue' \in [Workers \cup {"pool_head"} -> [left : Links, right : Links]]
        /\ \A w \in Workers : (InPool(w)' => InPool(w)) /\ (w = got' => InPool(w) /\ ~InPool(w)')
    BY <1>1, <1>6, <2>1, TakesFirst
  <2>3. PoolTypeOK'
    <3>1. j' \in 1 .. Len(Blocking) + 1 /\ dpc' \in DispatchPlaces /\ got' \in Workers \cup {NULL}
      BY <1>2, <2>1, <2>2 DEF DispatchPlaces
    <3>2. given' \subseteq Jobs
      BY <1>2, <1>3, <2>1, JobsAreNumbers
    <3> QED
      BY <1>4, <2>2, <3>1, <3>2 DEF PoolTypeOK
  <2>4. HandsOut'
    <3>1. given \cup {j} \subseteq 1..j
      BY <1>2, <1>3
    <3> QED
      BY <2>1, <2>2, <3>1 DEF HandsOut
  <2>5. ASSUME ~disturbed' PROVE IdleOrBusy' /\ JobsOnce'
    <3>1. IdleOrBusy /\ JobsOnce
      BY <1>1, <1>2, <2>5
    <3>2. PICK v \in Workers : v = got' /\ InPool(v) /\ ~InPool(v)'
      BY <2>2
    <3>3. wpc[v] \notin {"job", "insert"}
      BY <3>1, <3>2 DEF IdleOrBusy
    <3>4. ~InPool(got)'
      BY <3>2 DEF InPool
    <3>5. \A w \in Workers : wpc'[w] \in {"job", "insert"} => ~InPool(w)'
      BY <1>2, <2>2, <3>1 DEF IdleOrBusy
    <3>6. IdleOrBusy'
      BY <1>2, <3>2, <3>3, <3>4, <3>5 DEF IdleOrBusy
    <3>7. j \in Jobs /\ runs[j] = 0 /\ \A w \in Workers : wpc[w] = "job" => ex[w] # j
      <4>1. j \in Jobs /\ runs[j] \in Nat
        BY <1>1, <1>2, JobsAreNumbers DEF PoolTypeOK
      <4>2. runs[j] <= 0
        BY <1>3, <3>1, <4>1 DEF JobsOnce
      <4> QED
        BY <1>3, <3>1, <4>1, <4>2 DEF JobsOnce
    <3>8. \A i \in Jobs : runs'[i] <= IF i \in given' THEN 1 ELSE 0
      <4> SUFFICES ASSUME NEW i \in Jobs PROVE runs[i] <= IF i \in given' THEN 1 ELSE 0
        BY <1>2
      <4>1. runs[i] <= IF i \in given THEN 1 ELSE 0
        BY <3>1 DEF JobsOnce
      <4> QED
        BY <2>1, <3>7, <4>1
    <3>9. JobsOnce'
      BY <1>2, <2>1, <3>1, <3>7, <3>8 DEF JobsOnce, Taken
    <3> QED
      BY <3>6, <3>9
  <2> QED
    BY <2>2, <2>3, <2>4, <2>5 DEF PoolInv
<1> QED
  BY <1>5, <1>6

(* The execution data: the job is nobody else's. *)
LEMMA PrepareKeeps == PoolInv /\ Prepare => PoolInv'
<1> SUFFICES ASSUME PoolInv, Prepare PROVE PoolInv'
  OBVIOUS
<1>1. PoolTypeOK /\ PoolLinked /\ HandsOut /\ (~disturbed => IdleOrBusy /\ JobsOnce)
  BY DEF PoolInv
<1>2. /\ dpc = "prepare" /\ dpc' = "run" /\ ex' = [ex EXCEPT ![got] = j]
      /\ UNCHANGED <<wait_glue, j, got, given, wpc, current, runs, semaphore, disturbed>>
  BY DEF Prepare, workVars
<1>3. got \in Workers /\ j \in given /\ given \subseteq Jobs /\ given \subseteq 1..j
  BY <1>1, <1>2 DEF HandsOut, PoolTypeOK
<1>4. ex \in [Workers -> 0..Len(Blocking)]
  BY <1>1 DEF PoolTypeOK
<1>5. ex'[got] = j /\ \A w \in Workers : w # got => ex'[w] = ex[w]
  BY <1>2, <1>3, <1>4
<1>6. PoolTypeOK'
  <2>1. ex' \in [Workers -> 0..Len(Blocking)]
    <3>1. j \in 0..Len(Blocking)
      BY <1>3, JobsAreNumbers
    <3> QED
      BY <1>2, <1>4, <3>1
  <2>2. dpc' \in DispatchPlaces
    BY <1>2 DEF DispatchPlaces
  <2> QED
    BY <1>1, <1>2, <2>1, <2>2 DEF PoolTypeOK
<1>7. PoolLinked' /\ \A w : InPool(w)' = InPool(w)
  BY <1>1, <1>2, PoolUnchanged
<1>8. HandsOut'
  BY <1>2, <1>3 DEF HandsOut
<1>9. ASSUME ~disturbed' PROVE IdleOrBusy' /\ JobsOnce'
  <2>1. IdleOrBusy /\ JobsOnce
    BY <1>1, <1>2, <1>9
  <2>2. ~InPool(got)' /\ wpc[got] \notin {"job", "insert"}
    BY <1>2, <2>1 DEF IdleOrBusy, Taken, InPool, pool
  <2>3. \A w \in Workers : wpc'[w] \in {"job", "insert"} => ~InPool(w)'
    BY <1>2, <1>7, <2>1 DEF IdleOrBusy
  <2>4. IdleOrBusy'
    BY <1>2, <2>2, <2>3 DEF IdleOrBusy
  <2>5. JobsOnce'
    <3>1. \A w \in Workers : wpc[w] = "job" => ex'[w] = ex[w]
      BY <1>5, <2>2
    <3> QED
      BY <1>2, <1>5, <2>1, <3>1 DEF JobsOnce, Taken
  <2> QED
    BY <2>4, <2>5
<1> QED
  BY <1>6, <1>7, <1>8, <1>9 DEF PoolInv

(* thread_pool_run_thread: the worker is woken with its job, or stays where *)
(* it was and the job is not run.                                          *)
LEMMA RunThreadKeeps == PoolInv /\ RunThread => PoolInv'
<1> SUFFICES ASSUME PoolInv, RunThread PROVE PoolInv'
  OBVIOUS
<1>1. PoolTypeOK /\ PoolLinked /\ HandsOut /\ (~disturbed => IdleOrBusy /\ JobsOnce)
  BY DEF PoolInv
<1>2. /\ dpc = "run"
      /\ wpc' = IF wpc[got] \in {"none", "asleep"} THEN [wpc EXCEPT ![got] = "job"] ELSE wpc
      /\ UNCHANGED <<wait_glue, ex, given, current, runs, semaphore, disturbed>>
  BY DEF RunThread
<1>3. \/ dpc' = "alloc" /\ j' = j /\ got' = got
      \/ dpc' = "get" /\ j' = j + 1 /\ got' = NULL
  BY DEF RunThread, NextDispatch
<1>4. got \in Workers /\ j \in given /\ given \subseteq Jobs /\ given \subseteq 1..j
  BY <1>1, <1>2 DEF HandsOut, PoolTypeOK
<1>5. j \in 1..Len(Blocking) /\ Len(Blocking) \in Nat /\ j \in Jobs
  BY <1>4, JobsAreNumbers
<1>6. wpc \in [Workers -> WorkerPlaces]
  BY <1>1 DEF PoolTypeOK
<1>7. \A w \in Workers : wpc'[w] = IF w = got /\ wpc[got] \in {"none", "asleep"} THEN "job" ELSE wpc[w]
  BY <1>2, <1>4, <1>6
<1>8. PoolTypeOK'
  <2>1. wpc' \in [Workers -> WorkerPlaces]
    <3>1. "job" \in WorkerPlaces
      BY DEF WorkerPlaces
    <3> QED
      BY <1>2, <1>6, <3>1
  <2>2. dpc' \in DispatchPlaces /\ j' \in 1 .. Len(Blocking) + 1 /\ got' \in Workers \cup {NULL}
    BY <1>3, <1>4, <1>5 DEF DispatchPlaces
  <2> QED
    BY <1>1, <1>2, <2>1, <2>2 DEF PoolTypeOK
<1>9. PoolLinked' /\ \A w : InPool(w)' = InPool(w)
  BY <1>1, <1>2, PoolUnchanged
<1>10. HandsOut'
  <2>1. 1..j \subseteq 1 .. (j + 1) - 1
    BY <1>5
  <2> QED
    BY <1>2, <1>3, <1>4, <2>1 DEF HandsOut
<1>11. ASSUME ~disturbed' PROVE IdleOrBusy' /\ JobsOnce'
  <2>1. IdleOrBusy /\ JobsOnce
    BY <1>1, <1>2, <1>11
  <2>2. dpc' \notin Taken
    BY <1>3 DEF Taken
  <2>3. ~InPool(got) /\ wpc[got] \notin {"job", "insert"}
    BY <1>2, <2>1 DEF IdleOrBusy, Taken
  <2>4. IdleOrBusy'
    <3>1. \A w \in Workers : wpc'[w] \in {"job", "insert"} => ~InPool(w)'
      BY <1>7, <1>9, <2>1, <2>3 DEF IdleOrBusy
    <3> QED
      BY <2>2, <3>1 DEF IdleOrBusy
  <2>5. /\ ex[got] = j /\ runs[j] = 0
        /\ \A w \in Workers : wpc[w] = "job" => ex[w] # j /\ ex[w] \in given /\ runs[ex[w]] = 0
    BY <1>2, <2>1 DEF JobsOnce, Taken
  <2>6. \A w \in Workers : wpc'[w] = "job" => ex'[w] \in given' /\ runs'[ex'[w]] = 0
    BY <1>2, <1>4, <1>7, <2>5
  <2>7. \A v, w \in Workers : wpc'[v] = "job" /\ wpc'[w] = "job" /\ ex'[v] = ex'[w] => v = w
    <3>1. \A v, w \in Workers : wpc[v] = "job" /\ wpc[w] = "job" /\ ex[v] = ex[w] => v = w
      BY <2>1 DEF JobsOnce
    <3> QED
      BY <1>2, <1>7, <2>5, <3>1
  <2>8. \A i \in Jobs : runs'[i] <= IF i \in given' THEN 1 ELSE 0
    BY <1>2, <2>1 DEF JobsOnce
  <2>9. JobsOnce'
    <3>1. dpc' # "run"
      BY <1>3
    <3> QED
      BY <2>2, <2>6, <2>7, <2>8, <3>1 DEF JobsOnce
  <2> QED
    BY <2>4, <2>9
<1> QED
  BY <1>8, <1>9, <1>10, <1>11 DEF PoolInv

(* The dispatcher's steps on the semaphore touch nothing of the pool. *)
LEMMA BlockedKeeps ==
  ASSUME PoolInv, dpc' \notin Taken, PoolTypeOK', HandsOut',
         UNCHANGED <<wait_glue, ex, given, wpc, runs, disturbed>>
  PROVE  PoolInv'
<1>1. PoolLinked /\ (~disturbed => IdleOrBusy /\ JobsOnce)
  BY DEF PoolInv
<1>2. PoolLinked' /\ \A w : InPool(w)' = InPool(w)
  BY <1>1, PoolUnchanged
<1>3. ASSUME ~disturbed' PROVE IdleOrBusy' /\ JobsOnce'
  <2>1. IdleOrBusy /\ JobsOnce
    BY <1>1, <1>3
  <2>2. IdleOrBusy'
    BY <1>2, <2>1 DEF IdleOrBusy
  <2>3. JobsOnce'
    BY <2>1 DEF JobsOnce, Taken
  <2> QED
    BY <2>2, <2>3
<1> QED
  BY <1>2, <1>3 DEF PoolInv

SemType == [value : Nat, waiters : {0, 1}, junk : BOOLEAN]

LEMMA SemStepKeeps ==
  ASSUME PoolInv, NEW from \in DispatchPlaces \ {"get"}, NEW to \in DispatchPlaces \ ({"get"} \cup Taken),
         NEW value \in SemType, SemStep(from, to, value)
  PROVE  PoolInv'
<1>1. /\ PoolTypeOK /\ HandsOut
      /\ dpc = from /\ dpc' = to /\ semaphore' = [semaphore EXCEPT ![got] = value]
      /\ UNCHANGED <<wait_glue, j, got, ex, given, wpc, current, runs, disturbed>>
  BY DEF PoolInv, SemStep, workVars
<1>2. PoolTypeOK'
  <2>1. semaphore' \in [Workers -> SemType]
    BY <1>1 DEF PoolTypeOK, SemType
  <2> QED
    BY <1>1, <2>1 DEF PoolTypeOK, SemType
<1>3. HandsOut'
  BY <1>1 DEF HandsOut
<1> QED
  BY <1>1, <1>2, <1>3, BlockedKeeps

LEMMA SemWaitReturnsKeeps == PoolInv /\ SemWaitReturns => PoolInv'
<1> SUFFICES ASSUME PoolInv, SemWaitReturns PROVE PoolInv'
  OBVIOUS
<1>1. /\ PoolTypeOK /\ HandsOut /\ dpc # "get" /\ semaphore[got].value > 0
      /\ semaphore' = [semaphore EXCEPT ![got].value = @ - 1, ![got].waiters = 0]
      /\ dpc' = "get" /\ j' = j + 1 /\ got' = NULL
      /\ UNCHANGED <<wait_glue, ex, given, wpc, current, runs, disturbed>>
  BY DEF PoolInv, SemWaitReturns, NextDispatch, workVars
<1>2. got \in Workers /\ j \in 1..Len(Blocking) /\ Len(Blocking) \in Nat /\ given \subseteq 1..j
  BY <1>1, JobsAreNumbers DEF HandsOut, PoolTypeOK
<1>3. PoolTypeOK'
  <2>1. semaphore' \in [Workers -> SemType]
    <3>1. semaphore \in [Workers -> SemType]
      BY <1>1 DEF PoolTypeOK, SemType
    <3>2. semaphore[got] \in SemType
      BY <1>2, <3>1
    <3>3. semaphore[got].value - 1 \in Nat
      BY <1>1, <3>2 DEF SemType
    <3>4. [[semaphore[got] EXCEPT !.value = @ - 1] EXCEPT !.waiters = 0] \in SemType
      BY <3>2, <3>3 DEF SemType
    <3> QED
      BY <1>1, <1>2, <3>1, <3>4
  <2>2. dpc' \in DispatchPlaces /\ j' \in 1 .. Len(Blocking) + 1 /\ got' \in Workers \cup {NULL}
    BY <1>1, <1>2 DEF DispatchPlaces
  <2> QED
    BY <1>1, <2>1, <2>2 DEF PoolTypeOK, SemType
<1>4. HandsOut'
  <2>1. 1..j \subseteq 1 .. (j + 1) - 1
    BY <1>2
  <2> QED
    BY <1>1, <1>2, <2>1 DEF HandsOut
<1>5. dpc' \notin Taken
  BY <1>1 DEF Taken
<1> QED
  BY <1>1, <1>3, <1>4, <1>5, BlockedKeeps

(* The worker runs its job, which no worker has again. *)
LEMMA RunJobKeeps ==
  ASSUME PoolInv, NEW w \in Workers, RunJob(w)
  PROVE  PoolInv'
<1>1. PoolTypeOK /\ PoolLinked /\ HandsOut /\ (~disturbed => IdleOrBusy /\ JobsOnce)
  BY DEF PoolInv
<1>2. /\ wpc[w] = "job" /\ wpc' = [wpc EXCEPT ![w] = "insert"]
      /\ current' = [current EXCEPT ![w] = ex[w]]
      /\ runs' = [runs EXCEPT ![ex[w]] = @ + 1]
      /\ UNCHANGED <<wait_glue, dpc, j, got, ex, given, semaphore, disturbed>>
  BY DEF RunJob, Advance, dispVars
<1>3. /\ wpc \in [Workers -> WorkerPlaces] /\ ex \in [Workers -> 0..Len(Blocking)]
      /\ current \in [Workers -> 0..Len(Blocking)] /\ runs \in [Jobs -> Nat]
  BY <1>1 DEF PoolTypeOK
<1>4. \A v \in Workers : wpc'[v] = IF v = w THEN "insert" ELSE wpc[v]
  BY <1>2, <1>3
<1>5. \A i \in Jobs : runs'[i] = IF i = ex[w] THEN runs[i] + 1 ELSE runs[i]
  BY <1>2, <1>3
<1>6. PoolTypeOK'
  <2>1. wpc' \in [Workers -> WorkerPlaces]
    <3>1. "insert" \in WorkerPlaces
      BY DEF WorkerPlaces
    <3> QED
      BY <1>2, <1>3, <3>1
  <2>2. current' \in [Workers -> 0..Len(Blocking)]
    BY <1>2, <1>3
  <2>3. runs' \in [Jobs -> Nat]
    <3>1. \A i \in Jobs : runs[i] \in Nat /\ runs[i] + 1 \in Nat
      BY <1>3
    <3> QED
      BY <1>2, <1>3, <1>5, <3>1
  <2> QED
    BY <1>1, <1>2, <2>1, <2>2, <2>3 DEF PoolTypeOK
<1>7. PoolLinked' /\ \A v : InPool(v)' = InPool(v)
  BY <1>1, <1>2, PoolUnchanged
<1>8. HandsOut'
  BY <1>1, <1>2 DEF HandsOut
<1>9. ASSUME ~disturbed' PROVE IdleOrBusy' /\ JobsOnce'
  <2>1. IdleOrBusy /\ JobsOnce
    BY <1>1, <1>2, <1>9
  <2>2. dpc \in Taken => got \in Workers /\ got # w
    BY <1>1, <1>2, <2>1 DEF HandsOut, IdleOrBusy, Taken
  <2>3. IdleOrBusy'
    <3>1. \A v \in Workers : wpc'[v] \in {"job", "insert"} => ~InPool(v)'
      BY <1>2, <1>4, <1>7, <2>1 DEF IdleOrBusy
    <3>2. dpc \in Taken => ~InPool(got)' /\ wpc'[got] \notin {"job", "insert"}
      BY <1>2, <1>4, <2>1, <2>2 DEF IdleOrBusy, InPool, pool
    <3> QED
      BY <1>2, <3>1, <3>2 DEF IdleOrBusy, InPool, pool
  <2>4. ex[w] \in given /\ runs[ex[w]] = 0 /\ ex[w] \in Jobs
    BY <1>1, <1>2, <2>1 DEF JobsOnce, PoolTypeOK
  <2>5. \A v \in Workers : v # w /\ wpc[v] = "job" => ex[v] # ex[w] /\ ex[v] \in given /\ runs[ex[v]] = 0
    BY <1>2, <2>1 DEF JobsOnce
  <2>6. \A i \in Jobs : runs'[i] <= IF i \in given' THEN 1 ELSE 0
    BY <1>2, <1>3, <1>5, <2>1, <2>4 DEF JobsOnce
  <2>7. \A v \in Workers : wpc'[v] = "job" => v # w /\ wpc[v] = "job"
    BY <1>4
  <2>8. \A v \in Workers : wpc'[v] = "job" => ex'[v] \in given' /\ runs'[ex'[v]] = 0
    <3> SUFFICES ASSUME NEW v \in Workers, wpc'[v] = "job" PROVE ex[v] \in given /\ runs'[ex[v]] = 0
      BY <1>2
    <3>1. ex[v] # ex[w] /\ ex[v] \in given /\ runs[ex[v]] = 0 /\ ex[v] \in Jobs
      BY <1>1, <2>5, <2>7 DEF PoolTypeOK
    <3> QED
      BY <1>5, <3>1
  <2>9. dpc \in Taken => runs'[j] = 0 /\ \A v \in Workers : wpc'[v] = "job" => ex[v] # j
    <3> SUFFICES ASSUME dpc \in Taken PROVE runs'[j] = 0 /\ \A v \in Workers : wpc'[v] = "job" => ex[v] # j
      OBVIOUS
    <3>1. runs[j] = 0 /\ \A v \in Workers : wpc[v] = "job" => ex[v] # j
      BY <2>1 DEF JobsOnce
    <3>2. j \in Jobs /\ j # ex[w]
      BY <1>1, <1>2, <3>1 DEF HandsOut, Taken, PoolTypeOK
    <3> QED
      BY <1>5, <2>7, <3>1, <3>2
  <2>10. JobsOnce'
    <3>1. \A u, v \in Workers : wpc'[u] = "job" /\ wpc'[v] = "job" /\ ex'[u] = ex'[v] => u = v
      BY <1>2, <2>1, <2>7 DEF JobsOnce
    <3>2. dpc = "run" => ex[got] = j
      BY <2>1 DEF JobsOnce
    <3> QED
      BY <1>2, <2>6, <2>8, <2>9, <3>1, <3>2 DEF JobsOnce
  <2> QED
    BY <2>3, <2>10
<1> QED
  BY <1>6, <1>7, <1>8, <1>9 DEF PoolInv

(* A worker goes on to a place where it is not busy; the pool may have got  *)
(* it back if it was to be inserted.                                       *)
LEMMA RestKeeps ==
  ASSUME PoolTypeOK, HandsOut, ~disturbed => IdleOrBusy /\ JobsOnce,
         NEW w \in Workers, NEW from, NEW to, to \notin {"job", "insert"}, Advance(w, from, to),
         \A v \in Workers : InPool(v)' => InPool(v) \/ (v = w /\ from = "insert"),
         UNCHANGED <<dispVars, runs, disturbed>>
  PROVE  ~disturbed' => IdleOrBusy' /\ JobsOnce'
<1> SUFFICES ASSUME ~disturbed' PROVE IdleOrBusy' /\ JobsOnce'
  OBVIOUS
<1>1. UNCHANGED <<dpc, j, got, ex, given, runs, disturbed>>
  BY DEF dispVars
<1>2. IdleOrBusy /\ JobsOnce
  BY <1>1
<1>3. wpc[w] = from /\ \A v \in Workers : wpc'[v] = IF v = w THEN to ELSE wpc[v]
  BY DEF Advance, PoolTypeOK
<1>4. \A v \in Workers : wpc'[v] \in {"job", "insert"} => v # w /\ wpc'[v] = wpc[v]
  BY <1>3
<1>5. \A v \in Workers : wpc'[v] \in {"job", "insert"} => ~InPool(v)'
  BY <1>2, <1>4 DEF IdleOrBusy
<1>6. dpc \in Taken => ~InPool(got)' /\ wpc'[got] \notin {"job", "insert"}
  <2> SUFFICES ASSUME dpc \in Taken PROVE ~InPool(got)' /\ wpc'[got] \notin {"job", "insert"}
    OBVIOUS
  <2>1. PICK v \in Workers : v = got /\ ~InPool(v) /\ wpc[v] \notin {"job", "insert"}
    BY <1>2 DEF HandsOut, IdleOrBusy, Taken
  <2>2. ~InPool(v)' /\ wpc'[v] \notin {"job", "insert"}
    BY <1>3, <2>1
  <2> QED
    BY <1>1, <2>1, <2>2 DEF InPool
<1>7. IdleOrBusy'
  <2>1. dpc' \in Taken => ~InPool(got)' /\ wpc'[got'] \notin {"job", "insert"}
    BY <1>1, <1>6
  <2> QED
    BY <1>5, <2>1 DEF IdleOrBusy
<1>8. JobsOnce'
  BY <1>1, <1>2, <1>4 DEF JobsOnce
<1> QED
  BY <1>7, <1>8

(* Back into the pool. *)
LEMMA InsertKeeps ==
  ASSUME PoolInv, NEW w \in Workers, Insert(w)
  PROVE  PoolInv'
<1>1. PoolTypeOK /\ PoolLinked /\ HandsOut /\ (~disturbed => IdleOrBusy /\ JobsOnce)
  BY DEF PoolInv
<1>2. /\ Advance(w, "insert", "test") /\ wait_glue[w] = Unlinked
      /\ wait_glue' = glthread_add_last(wait_glue, "pool_head", w)
      /\ UNCHANGED <<dispVars, current, runs, semaphore, disturbed>>
  BY DEF Insert, IS_GLTHREAD_LIST_EMPTY
<1>3. /\ PoolLinked' /\ wait_glue' \in [Workers \cup {"pool_head"} -> [left : Links, right : Links]]
      /\ \A v \in Workers : InPool(v)' => InPool(v) \/ v = w
  BY <1>1, <1>2, PutsBack
<1>4. PoolTypeOK'
  <2>1. wpc' \in [Workers -> WorkerPlaces]
    BY <1>1, <1>2 DEF Advance, WorkerPlaces, PoolTypeOK
  <2> QED
    BY <1>1, <1>2, <1>3, <2>1 DEF PoolTypeOK, dispVars
<1>5. HandsOut'
  BY <1>1, <1>2 DEF HandsOut, dispVars
<1>6. ~disturbed' => IdleOrBusy' /\ JobsOnce'
  BY <1>1, <1>2, <1>3, RestKeeps
<1> QED
  BY <1>3, <1>4, <1>5, <1>6 DEF PoolInv

(* The worker's other steps leave the pool alone. *)
LEMMA OtherKeeps ==
  ASSUME PoolInv, NEW w \in Workers, NEW from, NEW to \in WorkerPlaces \ {"job", "insert"},
         Advance(w, from, to), semaphore' \in [Workers -> SemType],
         UNCHANGED <<wait_glue, dispVars, current, runs, disturbed>>
  PROVE  PoolInv'
<1>1. PoolTypeOK /\ PoolLinked /\ HandsOut /\ (~disturbed => IdleOrBusy /\ JobsOnce)
  BY DEF PoolInv
<1>2. PoolLinked' /\ \A v : InPool(v)' = InPool(v)
  BY <1>1, PoolUnchanged
<1>3. PoolTypeOK'
  <2>1. wpc' \in [Workers -> WorkerPlaces]
    BY <1>1 DEF Advance, PoolTypeOK
  <2> QED
    BY <1>1, <2>1 DEF PoolTypeOK, dispVars, SemType
<1>4. HandsOut'
  BY <1>1 DEF HandsOut, dispVars
<1>5. ~disturbed' => IdleOrBusy' /\ JobsOnce'
  BY <1>1, <1>2, RestKeeps
<1> QED
  BY <1>2, <1>3, <1>4, <1>5 DEF PoolInv

LEMMA WakeUnsignalledKeeps ==
  ASSUME PoolInv, NEW w \in Workers, WakeUnsignalled(w)
  PROVE  PoolInv'
<1>1. /\ PoolTypeOK /\ PoolLinked /\ HandsOut
      /\ Advance(w, "asleep", "job") /\ disturbed' = TRUE
      /\ UNCHANGED <<wait_glue, dispVars, current, runs, semaphore>>
  BY DEF PoolInv, WakeUnsignalled
<1>2. PoolTypeOK'
  <2>1. wpc' \in [Workers -> WorkerPlaces]
    BY <1>1 DEF Advance, WorkerPlaces, PoolTypeOK
  <2> QED
    BY <1>1, <2>1 DEF PoolTypeOK, dispVars
<1>3. PoolLinked' /\ HandsOut'
  BY <1>1, PoolUnchanged DEF HandsOut, dispVars
<1> QED
  BY <1>1, <1>2, <1>3 DEF PoolInv

LEMMA PoolStepKeeps == PoolInv /\ [PoolNext]_poolVars => PoolInv'
<1> SUFFICES ASSUME PoolInv, [PoolNext]_poolVars PROVE PoolInv'
  OBVIOUS
<1>1. PoolTypeOK /\ semaphore \in [Workers -> SemType] /\ HandsOut
  BY DEF PoolInv, PoolTypeOK, SemType
<1>2. CASE Dispatcher
  <2>1. CASE GetThread
    BY <2>1, GetThreadKeeps
  <2>2. CASE Prepare
    BY <2>2, PrepareKeeps
  <2>3. CASE RunThread
    BY <2>3, RunThreadKeeps
  <2>4. CASE AllocSemaphore
    <3>1. Sem(0, 0, TRUE) \in SemType
      BY DEF Sem, SemType
    <3>2. "alloc" \in DispatchPlaces \ {"get"} /\ "sem_init" \in DispatchPlaces \ ({"get"} \cup Taken)
      BY DEF DispatchPlaces, Taken
    <3> QED
      BY <2>4, <3>1, <3>2, SemStepKeeps DEF AllocSemaphore
  <2>5. CASE InitSemaphore
    <3>1. Zero \in SemType
      BY DEF Zero, Sem, SemType
    <3>2. "sem_init" \in DispatchPlaces \ {"get"} /\ "sem_wait" \in DispatchPlaces \ ({"get"} \cup Taken)
      BY DEF DispatchPlaces, Taken
    <3> QED
      BY <2>5, <3>1, <3>2, SemStepKeeps DEF InitSemaphore
  <2>6. CASE SemWait
    <3>1. got \in Workers
      BY <1>1, <2>6 DEF SemWait, HandsOut
    <3>2. [semaphore[got] EXCEPT !.waiters = 1] \in SemType
      BY <1>1, <3>1 DEF SemType
    <3>3. "sem_wait" \in DispatchPlaces \ {"get"} /\ "blocked" \in DispatchPlaces \ ({"get"} \cup Taken)
      BY DEF DispatchPlaces, Taken
    <3> QED
      BY <2>6, <3>2, <3>3, SemStepKeeps DEF SemWait
  <2>7. CASE SemWaitReturns
    BY <2>7, SemWaitReturnsKeeps
  <2> QED
    BY <1>2, <2>1, <2>2, <2>3, <2>4, <2>5, <2>6, <2>7 DEF Dispatcher
<1>3. CASE \E w \in Workers : Worker(w) \/ WakeUnsignalled(w)
  <2> SUFFICES ASSUME NEW w \in Workers, Worker(w) \/ WakeUnsignalled(w) PROVE PoolInv'
    BY <1>3
  <2>1. "post" \in WorkerPlaces \ {"job", "insert"} /\ "sleep" \in WorkerPlaces \ {"job", "insert"}
        /\ "asleep" \in WorkerPlaces \ {"job", "insert"}
    BY DEF WorkerPlaces
  <2>2. CASE RunJob(w)
    BY <2>2, RunJobKeeps
  <2>3. CASE Insert(w)
    BY <2>3, InsertKeeps
  <2>4. CASE TestSemaphore(w)
    <3>1. semaphore' \in [Workers -> SemType] /\ UNCHANGED <<wait_glue, dispVars, current, runs, disturbed>>
      BY <1>1, <2>4 DEF TestSemaphore
    <3>2. Advance(w, "test", "post") \/ Advance(w, "test", "sleep")
      BY <2>4 DEF TestSemaphore
    <3> QED
      BY <2>1, <3>1, <3>2, OtherKeeps
  <2>5. CASE Post(w)
    <3>1. semaphore[w].value + 1 \in Nat /\ semaphore[w] \in SemType
      BY <1>1 DEF SemType
    <3>2. [semaphore[w] EXCEPT !.value = @ + 1] \in SemType
      BY <3>1 DEF SemType
    <3>3. semaphore' \in [Workers -> SemType]
      BY <1>1, <2>5, <3>2 DEF Post
    <3>4. Advance(w, "post", "sleep") /\ UNCHANGED <<wait_glue, dispVars, current, runs, disturbed>>
      BY <2>5 DEF Post
    <3> QED
      BY <2>1, <3>3, <3>4, OtherKeeps
  <2>6. CASE CondWait(w)
    <3>1. semaphore' \in [Workers -> SemType] /\ UNCHANGED <<wait_glue, dispVars, current, runs, disturbed>>
      BY <1>1, <2>6 DEF CondWait
    <3>2. Advance(w, "sleep", "asleep")
      BY <2>6 DEF CondWait
    <3> QED
      BY <2>1, <3>1, <3>2, OtherKeeps
  <2>7. CASE WakeUnsignalled(w)
    BY <2>7, WakeUnsignalledKeeps
  <2> QED
    BY <2>2, <2>3, <2>4, <2>5, <2>6, <2>7 DEF Worker
<1>4. CASE UNCHANGED poolVars
  <2>1. UNCHANGED <<wait_glue, dpc, j, got, ex, given, wpc, current, runs, semaphore, disturbed>>
    BY <1>4 DEF poolVars, dispVars, workVars
  <2>2. PoolLinked' = PoolLinked /\ \A w : InPool(w)' = InPool(w)
    BY <2>1, PoolUnchanged
  <2>3. PoolTypeOK' = PoolTypeOK /\ HandsOut' = HandsOut /\ JobsOnce' = JobsOnce /\ IdleOrBusy' = IdleOrBusy
    BY <2>1 DEF PoolTypeOK, HandsOut, JobsOnce, IdleOrBusy, InPool, pool
  <2> QED
    BY <2>1, <2>2, <2>3 DEF PoolInv
<1> QED
  BY <1>2, <1>3, <1>4 DEF PoolNext

(* The parts of PoolInv in every state, a spurious wakeup or not. *)
THEOREM PoolInvariant == PoolSpec => []PoolInv
  BY PoolInitially, PoolStepKeeps, PTL DEF PoolSpec

(* thread_pool_insert_new_thread never finds its worker in a list, and no  *)
(* dispatch is handed a worker that has a job, as long as no worker wakes  *)
(* without a signal: whatever the number of workers and jobs, blocking or  *)
(* not.                                                                    *)
THEOREM PoolHoldsTheIdle == PoolSpec => []PooledAreIdle
<1>1. PoolInv => PooledAreIdle
  <2> SUFFICES ASSUME PoolInv PROVE PooledAreIdle
    OBVIOUS
  <2>1. PoolTypeOK /\ PoolLinked /\ (~disturbed => IdleOrBusy)
    BY DEF PoolInv
  <2>2. PICK n, s : Linked(wait_glue, n, s)
    BY <2>1 DEF PoolLinked
  <2>3. pool = s /\ DOMAIN s = 1..n /\ \A i, k \in 1..n : s[i] = s[k] => i = k
    BY <2>2, PoolIs DEF Linked
  <2>4. \A a, b \in DOMAIN pool : a # b => pool[a] # pool[b]
    BY <2>3
  <2> QED
    BY <2>1, <2>4 DEF PooledAreIdle, IdleOrBusy
<1> QED
  BY <1>1, PoolInvariant, PTL

(* Without a spurious wakeup no job is run twice, and none that no worker  *)
(* was found for.                                                          *)
THEOREM JobsRunAtMostOnce == PoolSpec => []AtMostOnce
<1>1. PoolInv => AtMostOnce
  BY DEF PoolInv, JobsOnce, AtMostOnce
<1> QED
  BY <1>1, PoolInvariant, PTL

-------------------------------------------------------------------------------
(* The lost wakeup.  A worker that is neither busy nor in the pool nor in  *)
(* the hands of the dispatcher is forgotten.                               *)
Resting == {"test", "post", "sleep", "asleep"}

Forgotten(w) ==
  /\ wpc[w] \in Resting /\ ~InPool(w)
  /\ ~(dpc \in Taken /\ got = w)

(* Its job was given and never run, and nobody else is about to run it.    *)
Unrun(w) ==
  /\ ex[w] \in given /\ runs[ex[w]] = 0
  /\ \A u \in Workers : wpc[u] = "job" => ex[u] # ex[w]
  /\ dpc \in Taken => ex[w] # j

ForgottenUnrun == ~disturbed => \A w \in Workers : Forgotten(w) => Unrun(w)

(* Who comes to the pool was to be inserted, and who leaves it is taken.   *)
LEMMA PoolMoves ==
  ASSUME PoolInv, [PoolNext]_poolVars, NEW w \in Workers
  PROVE  /\ InPool(w)' => InPool(w) \/ wpc[w] = "insert"
         /\ InPool(w) => InPool(w)' \/ (dpc' = "prepare" /\ got' = w)
         /\ Insert(w) => InPool(w)'
<1>1. CASE UNCHANGED wait_glue
  <2>1. InPool(w)' = InPool(w)
    BY <1>1, PoolUnchanged
  <2>2. Insert(w) => InPool(w)'
    BY PutsBack DEF Insert, IS_GLTHREAD_LIST_EMPTY, PoolInv
  <2> QED
    BY <2>1, <2>2
<1>2. CASE GetThread /\ ~UNCHANGED wait_glue
  <2>1. /\ pool # <<>> /\ dpc' = "prepare" /\ UNCHANGED wpc
        /\ got' = glthread_get_first_node(wait_glue, "pool_head")
        /\ wait_glue' = dequeue_glthread_first(wait_glue, "pool_head")
    BY <1>2 DEF GetThread, workVars
  <2>2. ~Insert(w)
    BY <1>2 DEF GetThread, Insert, dispVars
  <2> QED
    BY <2>1, <2>2, TakesFirst DEF PoolInv
<1>3. ASSUME NEW v \in Workers, Insert(v)
      PROVE  /\ InPool(w)' => InPool(w) \/ wpc[w] = "insert"
             /\ InPool(w) => InPool(w)'
             /\ Insert(w) => InPool(w)'
  <2>1. /\ wpc[v] = "insert" /\ wait_glue[v] = Unlinked
        /\ wait_glue' = glthread_add_last(wait_glue, "pool_head", v)
    BY <1>3 DEF Insert, Advance, IS_GLTHREAD_LIST_EMPTY
  <2>2. InPool(w)' <=> InPool(w) \/ w = v
    BY <2>1, PutsBack DEF PoolInv
  <2>3. Insert(w) => InPool(w)'
    BY PutsBack DEF Insert, IS_GLTHREAD_LIST_EMPTY, PoolInv
  <2> QED
    BY <2>1, <2>2, <2>3
<1> QED
  BY <1>1, <1>2, <1>3 DEF PoolNext, Dispatcher, Worker, Prepare, RunThread, SemStep, AllocSemaphore, InitSemaphore,
     SemWait, SemWaitReturns, RunJob, TestSemaphore, Post, CondWait, WakeUnsignalled, poolVars

(* A forgotten worker takes none of the steps that would bring it back.    *)
LEMMA ForgottenStays ==
  ASSUME PoolInv, [PoolNext]_poolVars, NEW w \in Workers, Forgotten(w), ~WakeUnsignalled(w)
  PROVE  Forgotten(w)' /\ ex'[w] = ex[w]
<1>1. /\ wpc \in [Workers -> WorkerPlaces] /\ ex \in [Workers -> 0..Len(Blocking)]
      /\ wpc[w] \in Resting /\ ~InPool(w) /\ ~(dpc \in Taken /\ got = w)
  BY DEF PoolInv, PoolTypeOK, Forgotten
<1>2. ~InPool(w)'
  BY <1>1, PoolMoves DEF Resting
<1>3. wpc'[w] \in Resting
  BY <1>1 DEF Resting, PoolNext, Dispatcher, GetThread, Worker, Prepare, RunThread, SemStep, AllocSemaphore,
     InitSemaphore, SemWait, SemWaitReturns, RunJob, Insert, TestSemaphore, Post, CondWait, WakeUnsignalled,
     Advance, poolVars, workVars, Taken
<1>4. ex'[w] = ex[w]
  BY <1>1 DEF PoolNext, Dispatcher, GetThread, Worker, Prepare, RunThread, SemStep, AllocSemaphore,
     InitSemaphore, SemWait, SemWaitReturns, RunJob, Insert, TestSemaphore, Post, CondWait, WakeUnsignalled,
     poolVars, dispVars, Taken
<1>5. ~(dpc' \in Taken /\ got' = w)
  <2>1. CASE GetThread
    <3>1. dpc' = "prepare" => got' \in Workers /\ InPool(got')
      <4> SUFFICES ASSUME dpc' = "prepare" PROVE got' \in Workers /\ InPool(got')
        OBVIOUS
      <4>1. /\ pool # <<>> /\ got' = glthread_get_first_node(wait_glue, "pool_head")
            /\ wait_glue' = dequeue_glthread_first(wait_glue, "pool_head")
        BY <2>1 DEF GetThread, NextDispatch
      <4> QED
        BY <4>1, TakesFirst DEF PoolInv
    <3> QED
      BY <1>1, <2>1, <3>1 DEF GetThread, NextDispatch, Taken
  <2>2. CASE ~GetThread
    BY <1>1, <2>2 DEF PoolNext, Dispatcher, Worker, Prepare, RunThread, SemStep, AllocSemaphore,
     InitSemaphore, SemWait, SemWaitReturns, RunJob, Insert, TestSemaphore, Post, CondWait, WakeUnsignalled,
     NextDispatch, poolVars, dispVars, Taken
  <2> QED
    BY <2>1, <2>2
<1> QED
  BY <1>2, <1>3, <1>4, <1>5 DEF Forgotten

LEMMA UnrunStays ==
  ASSUME PoolInv, [PoolNext]_poolVars, ~disturbed, ~disturbed', NEW w \in Workers, Forgotten(w), Unrun(w)
  PROVE  Unrun(w)'
<1>1. /\ HandsOut /\ IdleOrBusy /\ JobsOnce /\ j \in Int
      /\ wpc \in [Workers -> WorkerPlaces] /\ ex \in [Workers -> 0..Len(Blocking)]
      /\ runs \in [Jobs -> Nat] /\ given \subseteq Jobs
      /\ got \in Workers \cup {NULL}
  BY JobsAreNumbers DEF PoolInv, PoolTypeOK
<1>2. ~WakeUnsignalled(w) /\ \A v \in Workers : ~WakeUnsignalled(v)
  BY DEF WakeUnsignalled
<1>3. ex'[w] = ex[w]
  BY <1>2, ForgottenStays
<1>4. CASE GetThread
  <2>1. dpc = "get" /\ given \subseteq given' /\ UNCHANGED <<ex, wpc, runs>> /\ (dpc' \in Taken => j' = j)
    BY <1>4 DEF GetThread, NextDispatch, workVars, Taken
  <2>2. ex[w] # j
    BY <1>1, <2>1 DEF HandsOut, Unrun
  <2> QED
    BY <2>1, <2>2 DEF Unrun
<1>5. CASE Prepare
  <2>1. /\ dpc \in Taken /\ ex' = [ex EXCEPT ![got] = j] /\ UNCHANGED <<j, given, wpc, runs>>
        /\ wpc[got] # "job" /\ got \in Workers
    BY <1>1, <1>5 DEF Prepare, workVars, Taken, IdleOrBusy, HandsOut
  <2>2. \A u \in Workers : wpc'[u] = "job" => ex'[u] = ex[u]
    BY <1>1, <2>1
  <2> QED
    BY <1>3, <2>1, <2>2 DEF Unrun
<1>6. CASE RunThread
  <2>1. /\ dpc \in Taken /\ ex[got] = j /\ dpc' \notin Taken /\ UNCHANGED <<ex, given, runs>>
        /\ \A u \in Workers : wpc'[u] = "job" => u = got \/ wpc[u] = "job"
    BY <1>1, <1>6 DEF RunThread, JobsOnce, Taken, NextDispatch
  <2> QED
    BY <2>1 DEF Unrun
<1>7. CASE AllocSemaphore \/ InitSemaphore \/ SemWait \/ SemWaitReturns
  BY <1>7 DEF AllocSemaphore, InitSemaphore, SemWait, SemWaitReturns, SemStep, NextDispatch, workVars, Taken, Unrun
<1>8. ASSUME NEW v \in Workers, RunJob(v) PROVE Unrun(w)'
  <2>1. /\ wpc[v] = "job" /\ wpc' = [wpc EXCEPT ![v] = "insert"] /\ runs' = [runs EXCEPT ![ex[v]] = @ + 1]
        /\ UNCHANGED <<dpc, j, got, ex, given>>
    BY <1>8 DEF RunJob, Advance, dispVars
  <2>2. ex[v] # ex[w] /\ ex[w] \in Jobs
    BY <1>1, <2>1 DEF Unrun
  <2>3. runs'[ex[w]] = 0
    BY <1>1, <2>1, <2>2 DEF Unrun
  <2>4. \A u \in Workers : wpc'[u] = "job" => wpc[u] = "job"
    BY <1>1, <2>1
  <2> QED
    BY <2>1, <2>3, <2>4 DEF Unrun
<1>9. ASSUME NEW v \in Workers, Insert(v) \/ TestSemaphore(v) \/ Post(v) \/ CondWait(v) PROVE Unrun(w)'
  <2>1. UNCHANGED <<dpc, j, got, ex, given, runs>> /\ \A u \in Workers : wpc'[u] = "job" => wpc[u] = "job"
    BY <1>1, <1>9 DEF Insert, TestSemaphore, Post, CondWait, Advance, dispVars
  <2> QED
    BY <2>1 DEF Unrun
<1>10. CASE UNCHANGED poolVars
  BY <1>10 DEF poolVars, dispVars, workVars, Unrun
<1> QED
  BY <1>2, <1>4, <1>5, <1>6, <1>7, <1>8, <1>9, <1>10 DEF PoolNext, Dispatcher, Worker

(* A worker is forgotten by the one step of the dispatcher that signals it *)
(* while it is awake.                                                      *)
LEMMA ForgottenBy ==
  ASSUME PoolInv, [PoolNext]_poolVars, ~disturbed', NEW w \in Workers, ~Forgotten(w), Forgotten(w)'
  PROVE  RunThread /\ got = w /\ UNCHANGED wpc
<1>1. /\ wpc \in [Workers -> WorkerPlaces]
      /\ wpc'[w] \in Resting /\ ~InPool(w)' /\ ~(dpc' \in Taken /\ got' = w)
  BY DEF PoolInv, PoolTypeOK, Forgotten
<1>2. ~InPool(w) /\ ~Insert(w)
  BY <1>1, PoolMoves DEF Taken
<1>3. wpc[w] \in Resting
  BY <1>1, <1>2 DEF Resting, PoolNext, Dispatcher, GetThread, Worker, Prepare, RunThread, SemStep, AllocSemaphore,
     InitSemaphore, SemWait, SemWaitReturns, RunJob, Insert, TestSemaphore, Post, CondWait, WakeUnsignalled,
     Advance, poolVars, workVars
<1>4. dpc \in Taken /\ got = w
  BY <1>2, <1>3 DEF Forgotten
<1>5. RunThread
  BY <1>1, <1>4 DEF Taken, PoolNext, Dispatcher, GetThread, Worker, Prepare, SemStep, AllocSemaphore,
     InitSemaphore, SemWait, SemWaitReturns, RunJob, Insert, TestSemaphore, Post, CondWait, WakeUnsignalled,
     poolVars, dispVars
<1>6. UNCHANGED wpc
  BY <1>1, <1>4, <1>5 DEF RunThread, Resting
<1> QED
  BY <1>4, <1>5, <1>6

LEMMA ForgottenUnrunKept ==
  ASSUME PoolInv, ForgottenUnrun, [PoolNext]_poolVars PROVE ForgottenUnrun'
<1> SUFFICES ASSUME ~disturbed', NEW w \in Workers, Forgotten(w)' PROVE Unrun(w)'
  BY DEF ForgottenUnrun
<1>1. ~disturbed
  BY DEF PoolNext, Dispatcher, GetThread, Worker, Prepare, RunThread, SemStep, AllocSemaphore,
     InitSemaphore, SemWait, SemWaitReturns, RunJob, Insert, TestSemaphore, Post, CondWait, WakeUnsignalled, poolVars
<1>2. CASE Forgotten(w)
  BY <1>1, <1>2, UnrunStays DEF ForgottenUnrun
<1>3. CASE ~Forgotten(w)
  <2>1. RunThread /\ got = w /\ UNCHANGED wpc
    BY <1>3, ForgottenBy
  <2>2. HandsOut /\ JobsOnce
    BY <1>1 DEF PoolInv
  <2>3. /\ j \in given /\ runs[j] = 0 /\ ex[w] = j
        /\ \A u \in Workers : wpc[u] = "job" => ex[u] # j
    BY <2>1, <2>2 DEF RunThread, HandsOut, JobsOnce, Taken
  <2>4. UNCHANGED <<ex, given, runs>> /\ dpc' \notin Taken
    BY <2>1 DEF RunThread, NextDispatch, Taken
  <2> QED
    BY <2>1, <2>3, <2>4 DEF Unrun
<1> QED
  BY <1>2, <1>3

(* finish_stage_fn and thread_pool_run_thread: whenever a signal has gone  *)
(* to a worker that was not asleep yet, the job it was for is lost: given  *)
(* and never run.                                                          *)
THEOREM ForgottenLosesJob == PoolSpec => []ForgottenUnrun
<1>1. PoolInit => ForgottenUnrun
  BY DEF PoolInit, ForgottenUnrun, Forgotten, Resting
<1> QED
  BY <1>1, PoolInvariant, ForgottenUnrunKept, PTL DEF PoolSpec

(* Such a worker and its job stay forgotten: nothing but a return of       *)
(* pthread_cond_wait that nobody caused wakes it.                          *)
THEOREM ForgottenForEver ==
  ASSUME NEW w \in Workers
  PROVE  PoolSpec => [][Forgotten(w) => (Forgotten(w)' /\ ex'[w] = ex[w]) \/ WakeUnsignalled(w)]_poolVars
<1>1. PoolInv /\ [PoolNext]_poolVars =>
        [Forgotten(w) => (Forgotten(w)' /\ ex'[w] = ex[w]) \/ WakeUnsignalled(w)]_poolVars
  BY ForgottenStays
<1> QED
  BY <1>1, PoolInvariant, PTL DEF PoolSpec

(* The caller of a blocking dispatch that waits for a forgotten worker,    *)
(* which has passed its post: it waits as long as the worker sleeps.       *)
CallerStuck(w) ==
  /\ dpc = "blocked" /\ got = w /\ semaphore[w].value = 0
  /\ Forgotten(w) /\ wpc[w] \in {"sleep", "asleep"}

THEOREM StuckForEver ==
  ASSUME NEW w \in Workers
  PROVE  PoolSpec => [][CallerStuck(w) => (CallerStuck(w)' /\ j' = j) \/ WakeUnsignalled(w)]_poolVars
<1>1. ASSUME PoolInv, [PoolNext]_poolVars, CallerStuck(w), ~WakeUnsignalled(w)
      PROVE  CallerStuck(w)' /\ j' = j
  <2>1. Forgotten(w)'
    BY <1>1, ForgottenStays DEF CallerStuck
  <2>2. UNCHANGED <<dpc, got, j>>
    BY <1>1 DEF CallerStuck, PoolNext, Dispatcher, GetThread, Worker, Prepare, RunThread, SemStep, AllocSemaphore,
       InitSemaphore, SemWait, SemWaitReturns, RunJob, Insert, TestSemaphore, Post, CondWait, WakeUnsignalled,
       poolVars, dispVars
  <2>3. semaphore'[w] = semaphore[w]
    <3>1. semaphore \in [Workers -> SemType]
      BY <1>1 DEF PoolInv, PoolTypeOK, SemType
    <3>2. UNCHANGED semaphore \/ \E v \in Workers : Post(v)
      BY <1>1 DEF CallerStuck, PoolNext, Dispatcher, GetThread, Worker, Prepare, RunThread, SemStep, AllocSemaphore,
         InitSemaphore, SemWait, SemWaitReturns, RunJob, Insert, TestSemaphore, CondWait, WakeUnsignalled,
         poolVars
    <3>3. ASSUME NEW v \in Workers, Post(v) PROVE semaphore'[w] = semaphore[w]
      <4>1. v # w /\ (semaphore' = semaphore \/ semaphore' = [semaphore EXCEPT ![v].value = @ + 1])
        BY <1>1, <3>3 DEF Post, Advance, CallerStuck
      <4> QED
        BY <3>1, <4>1
    <3> QED
      BY <3>2, <3>3
  <2>4. wpc'[w] \in {"sleep", "asleep"}
    BY <1>1 DEF CallerStuck, PoolNext, Dispatcher, GetThread, Worker, Prepare, RunThread, SemStep, AllocSemaphore,
       InitSemaphore, SemWait, SemWaitReturns, RunJob, Insert, TestSemaphore, Post, CondWait, WakeUnsignalled,
       Advance, poolVars, workVars, PoolInv, PoolTypeOK
  <2> QED
    BY <1>1, <2>1, <2>2, <2>3, <2>4 DEF CallerStuck
<1>2. PoolInv /\ [PoolNext]_poolVars =>
        [CallerStuck(w) => (CallerStuck(w)' /\ j' = j) \/ WakeUnsignalled(w)]_poolVars
  BY <1>1
<1> QED
  BY <1>2, PoolInvariant, PTL DEF PoolSpec

(* Hence one such signal refutes DispatchedJobsRun in every run without    *)
(* spurious wakeups: the job i of the forgotten worker is never run.       *)
THEOREM ForgottenNeverRun ==
  ASSUME NEW w \in Workers, NEW i \in Jobs
  PROVE  PoolSpec /\ []~disturbed /\ <>(Forgotten(w) /\ ex[w] = i) => ~(i \in given ~> (runs[i] > 0 \/ disturbed))
<1> DEFINE L == Forgotten(w) /\ ex[w] = i
<1>1. L /\ ForgottenUnrun /\ ~disturbed => i \in given /\ ~(runs[i] > 0)
  BY DEF ForgottenUnrun, Unrun
<1>2. PoolInv /\ [PoolNext]_poolVars /\ L /\ ~disturbed' => L'
  BY ForgottenStays DEF WakeUnsignalled
<1> HIDE DEF L
<1>3. PoolSpec /\ []~disturbed /\ <>L => ~(i \in given ~> (runs[i] > 0 \/ disturbed))
  BY <1>1, <1>2, PoolInvariant, ForgottenLosesJob, PTL DEF PoolSpec
<1> QED
  BY <1>3 DEF L
===============================================================================
