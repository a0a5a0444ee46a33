------------------------- MODULE ThreadBarrier_proofs -------------------------
(***************************************************************************)
(* The barrier for any finite set of threads and any number of rounds.     *)
(***************************************************************************)
EXTENDS ThreadBarrier, FiniteSetTheorems, TLAPS

(* A thread in the function has begun one call more than have returned.    *)
CallsCounted ==
  \A t \in Threads : begun[t] = IF pc[t] = "out" THEN done[t] ELSE done[t] + 1

OneReleaser ==
  /\ is_ready_again <=> In("release") = {}
  /\ \A t, u \in In("release") : t = u

Counted == curr_wait_count = Cardinality(In("wait"))

(* Inductive, whatever wakes a sleeper. *)
CInv == TypeOK /\ CallsCounted /\ OneReleaser /\ Counted

(* Threads out of cond_wait, or about to be. *)
Awake == (In("wait") \cup In("release")) \ cv

(* The k-th meeting has ended and the next one fills: all of a thread's    *)
(* calls but the one it is in have returned from the same meeting.         *)
Filling(k) == \A t \in Threads : done[t] = k

(* The next one empties: who still waits or releases has not left it, and  *)
(* who is elsewhere has.                                                   *)
Emptying(k) == \A t \in Threads : done[t] = IF pc[t] \in {"wait", "release"} THEN k ELSE k + 1

(* The one wakeup and the meeting that all threads have in common.         *)
Phase ==
  \E k \in Nat :
    \/ is_ready_again /\ Awake = {} /\ Filling(k)
    \/ ~is_ready_again /\ (\E t \in Threads : Awake = {t}) /\ Emptying(k)

(* Inductive together with CInv. *)
PInv == ~disturbed => Phase

-------------------------------------------------------------------------------
(* Sets of threads can be counted, and one more or less counts one.        *)
LEMMA CountingThreads ==
  ASSUME NEW S, S \subseteq Threads
  PROVE  /\ Cardinality(S) \in Nat
         /\ Cardinality(S) = 0 => S = {}
         /\ \A t \in Threads \ S : Cardinality(S \cup {t}) = Cardinality(S) + 1
         /\ \A t \in S : Cardinality(S \ {t}) = Cardinality(S) - 1
<1>1. IsFiniteSet(S)
  BY ThreadsFinite, FS_Subset
<1>2. Cardinality(S) \in Nat
  BY <1>1, FS_CardinalityType
<1>3. Cardinality(S) = 0 => S = {}
  BY <1>1, FS_EmptySet
<1>4. \A t \in Threads \ S : Cardinality(S \cup {t}) = Cardinality(S) + 1
  BY <1>1, FS_AddElement
<1>5. \A t \in S : Cardinality(S \ {t}) = Cardinality(S) - 1
  BY <1>1, FS_RemoveElement
<1> QED
  BY <1>2, <1>3, <1>4, <1>5

(* Nobody counts nothing. *)
LEMMA EmptyCounts == Cardinality({}) = 0
  BY FS_EmptySet

(* The last one to arrive has all others waiting: as many as there are     *)
(* besides itself are all of them.                                         *)
LEMMA AllOthers ==
  ASSUME NEW S, NEW t \in Threads, S \subseteq Threads \ {t}, Cardinality(S) + 1 >= Cardinality(Threads)
  PROVE  S = Threads \ {t}
<1>1. IsFiniteSet(Threads \ {t}) /\ IsFiniteSet(Threads)
  BY ThreadsFinite, FS_Subset
<1>2. Cardinality(Threads) = Cardinality(Threads \ {t}) + 1
      /\ Cardinality(Threads \ {t}) \in Nat /\ Cardinality(Threads) \in Nat
  <2>1. Cardinality(Threads \ {t}) = Cardinality(Threads) - 1
    BY <1>1, FS_RemoveElement
  <2>2. Cardinality(Threads \ {t}) \in Nat /\ Cardinality(Threads) \in Nat
    BY <1>1, FS_CardinalityType
  <2> QED
    BY <2>1, <2>2
<1>3. Cardinality(S) \in Nat /\ Cardinality(S) <= Cardinality(Threads \ {t})
  BY <1>1, FS_Subset, FS_CardinalityType
<1>4. Cardinality(S) = Cardinality(Threads \ {t})
  BY <1>2, <1>3
<1> QED
  BY <1>1, <1>4, FS_Subset

(* How a signal leaves the sleepers. *)
LEMMA SignalTakesOne ==
  ASSUME NEW S, NEW rest \in AfterSignal(S)
  PROVE  rest \subseteq S /\ (S # {} => \E u \in S : rest = S \ {u})
  BY DEF AfterSignal

-------------------------------------------------------------------------------
(* thread_barrier_init *)
LEMMA Initially == Init => CInv /\ PInv
<1> SUFFICES ASSUME Init PROVE CInv /\ PInv
  OBVIOUS
<1>1. \A place \in {"wait", "release", "busy"} : In(place) = {}
  BY DEF Init, In
<1>2. TypeOK
  <2>1. is_ready_again \in BOOLEAN /\ disturbed \in BOOLEAN
    BY DEF Init
  <2> QED
    BY <1>1, <2>1, RoundsIsNumber DEF Init, TypeOK, Places
<1>4. CallsCounted
  BY DEF Init, CallsCounted
<1>5. OneReleaser
  BY <1>1 DEF Init, OneReleaser
<1>6. Counted
  BY <1>1, EmptyCounts DEF Init, Counted
<1>3. Filling(0) /\ Awake = {} /\ is_ready_again
  BY <1>1 DEF Init, Filling, Awake
<1> QED
  BY <1>2, <1>3, <1>4, <1>5, <1>6 DEF CInv, PInv, Phase

(* The code from line 27 on, as one thread runs it: it is turned away, it  *)
(* waits, it signals and sleeps as the releasing thread, or it opens the   *)
(* barrier.                                                                *)
TurnedAway(t) ==
  /\ ~is_ready_again /\ pc' = [pc EXCEPT ![t] = "busy"] /\ busy_cv' = busy_cv \cup {t}
  /\ UNCHANGED <<curr_wait_count, is_ready_again, cv, done>>
Waits(t) ==
  /\ is_ready_again /\ pc' = [pc EXCEPT ![t] = "wait"] /\ cv' = cv \cup {t}
  /\ curr_wait_count' = curr_wait_count + 1
  /\ UNCHANGED <<is_ready_again, busy_cv, done>>
Releases(t) ==
  /\ curr_wait_count > 0 /\ is_ready_again' = FALSE /\ pc' = [pc EXCEPT ![t] = "release"]
  /\ \E rest \in AfterSignal(cv) : cv' = rest \cup {t}
  /\ UNCHANGED <<curr_wait_count, busy_cv, done>>
Opens(t) ==
  /\ curr_wait_count = 0 /\ is_ready_again' = TRUE /\ pc' = [pc EXCEPT ![t] = "out"]
  /\ done' = [done EXCEPT ![t] = @ + 1] /\ busy_cv' = {}
  /\ UNCHANGED <<curr_wait_count, cv>>

(* A thread that calls, or tries again after it was turned away; the last  *)
(* to arrive; the releasing thread when its cond_wait has returned.        *)
Arriving(t) == pc[t] = "out" \/ (pc[t] = "busy" /\ t \notin busy_cv)
ArrivesLast(t) ==
  Arriving(t) /\ is_ready_again /\ curr_wait_count + 1 >= threshold_count
Releasing(t) == pc[t] = "release" /\ t \notin cv

(* What a step of t does to the ghosts begun and disturbed. *)
Begins(t) ==
  /\ IF pc[t] = "out" THEN begun[t] < Rounds /\ begun' = [begun EXCEPT ![t] = @ + 1]
     ELSE begun' = begun
  /\ disturbed' = disturbed

(* Which of these a step of the functions is. *)
LEMMA Shapes ==
  ASSUME TypeOK, NEW t \in Threads, Call(t) \/ BusyRetest(t) \/ ReleaseRetest(t)
  PROVE  /\ Begins(t)
         /\ \/ Arriving(t) /\ (TurnedAway(t) \/ Waits(t))
            \/ (ArrivesLast(t) \/ Releasing(t)) /\ (Releases(t) \/ Opens(t))
<1>1. Begins(t)
  BY DEF Call, BusyRetest, ReleaseRetest, Begins
<1>2. CASE Call(t) \/ BusyRetest(t)
  <2>1. Arriving(t) /\ Arrive(t)
    BY <1>2 DEF Call, BusyRetest, Arriving
  <2> QED
    BY <1>1, <2>1 DEF Arrive, ReleaseLoop, Returns, ArrivesLast, TurnedAway, Waits, Releases, Opens
<1>3. CASE ReleaseRetest(t)
  <2>1. Releasing(t) /\ ReleaseLoop(t) /\ UNCHANGED curr_wait_count
    BY <1>3 DEF ReleaseRetest, Releasing
  <2> QED
    BY <1>1, <2>1 DEF ReleaseLoop, Returns, Releases, Opens
<1> QED
  BY <1>2, <1>3

(* The types and counts of calls, for a step of t to another place.        *)
LEMMA CallsKept ==
  ASSUME TypeOK, CallsCounted, NEW t \in Threads, NEW to \in Places, Begins(t),
         pc' = [pc EXCEPT ![t] = to],
         done' = IF to = "out" THEN [done EXCEPT ![t] = @ + 1] ELSE done
  PROVE  /\ CallsCounted' /\ pc' \in [Threads -> Places]
         /\ begun' \in [Threads -> 0..Rounds] /\ done' \in [Threads -> 0..Rounds]
<1>1. pc' \in [Threads -> Places]
  BY DEF TypeOK
<1>2. begun' \in [Threads -> 0..Rounds]
  BY RoundsIsNumber DEF TypeOK, Begins
<1>3. DOMAIN done' = Threads /\ \A u \in Threads : done'[u] \in Nat
  BY RoundsIsNumber DEF TypeOK
<1>4. CallsCounted'
  <2> SUFFICES ASSUME NEW u \in Threads
               PROVE  begun'[u] = IF pc'[u] = "out" THEN done'[u] ELSE done'[u] + 1
    BY DEF CallsCounted
  <2>1. begun[u] = IF pc[u] = "out" THEN done[u] ELSE done[u] + 1
    BY DEF CallsCounted
  <2>2. done[u] \in Nat /\ begun[u] \in Nat
    BY RoundsIsNumber DEF TypeOK
  <2>3. CASE u = t
    <3>1. pc'[u] = to /\ done'[u] = IF to = "out" THEN done[u] + 1 ELSE done[u]
      BY <2>3 DEF TypeOK
    <3>2. begun'[u] = IF pc[u] = "out" THEN begun[u] + 1 ELSE begun[u]
      BY <2>3 DEF TypeOK, Begins
    <3> QED
      BY <2>1, <2>2, <3>1, <3>2
  <2>4. CASE u # t
    <3>1. pc'[u] = pc[u] /\ done'[u] = done[u] /\ begun'[u] = begun[u]
      BY <2>4 DEF TypeOK, Begins
    <3> QED
      BY <2>1, <3>1
  <2> QED
    BY <2>3, <2>4
<1>5. \A u \in Threads : done'[u] \in 0..Rounds
  <2> TAKE u \in Threads
  <2>1. begun'[u] = IF pc'[u] = "out" THEN done'[u] ELSE done'[u] + 1
    BY <1>4 DEF CallsCounted
  <2>2. begun'[u] \in 0..Rounds /\ done'[u] \in Nat
    BY <1>2, <1>3
  <2> QED
    BY <2>1, <2>2, RoundsIsNumber
<1>6. done' \in [Threads -> 0..Rounds]
  <2>1. done' = [u \in Threads |-> done'[u]]
    BY DEF TypeOK
  <2> QED
    BY <1>5, <2>1
<1> QED
  BY <1>1, <1>2, <1>4, <1>6

-------------------------------------------------------------------------------
(* A thread that comes while the barrier empties is neither counted nor    *)
(* woken before it opens.                                                  *)
LEMMA TurnedAwayKeeps ==
  ASSUME CInv, PInv, NEW t \in Threads, Begins(t), Arriving(t), TurnedAway(t)
  PROVE  CInv' /\ PInv'
<1>1. /\ "busy" \in Places /\ pc' = [pc EXCEPT ![t] = "busy"] /\ pc \in [Threads -> Places]
      /\ done' = IF "busy" = "out" THEN [done EXCEPT ![t] = @ + 1] ELSE done
  BY DEF CInv, TypeOK, TurnedAway, Places
<1>2. /\ In("wait")' = In("wait") /\ In("release")' = In("release")
      /\ In("busy")' = In("busy") \cup {t}
  BY <1>1 DEF In, Arriving
<1>3. /\ CallsCounted' /\ pc' \in [Threads -> Places]
      /\ begun' \in [Threads -> 0..Rounds] /\ done' \in [Threads -> 0..Rounds]
  BY <1>1, CallsKept DEF CInv
<1>4. TypeOK'
  BY <1>2, <1>3 DEF CInv, TypeOK, TurnedAway, Begins
<1>5. OneReleaser' /\ Counted'
  BY <1>2 DEF CInv, OneReleaser, Counted, TurnedAway
<1>6. PInv'
  <2> SUFFICES ASSUME ~disturbed' PROVE Phase'
    BY DEF PInv
  <2>1. PICK k \in Nat : Emptying(k) /\ \E u \in Threads : Awake = {u}
    BY DEF PInv, Phase, Begins, TurnedAway
  <2>2. Awake' = Awake /\ ~is_ready_again'
    BY <1>2 DEF Awake, TurnedAway
  <2>3. Emptying(k)'
    BY <1>1, <2>1 DEF Emptying, TurnedAway, Arriving
  <2> QED
    BY <2>1, <2>2, <2>3 DEF Phase
<1> QED
  BY <1>3, <1>4, <1>5, <1>6 DEF CInv

(* A waiter is counted and falls asleep. *)
LEMMA WaitsKeeps ==
  ASSUME CInv, PInv, NEW t \in Threads, Begins(t), Arriving(t), Waits(t)
  PROVE  CInv' /\ PInv'
<1>1. /\ "wait" \in Places /\ pc' = [pc EXCEPT ![t] = "wait"] /\ pc \in [Threads -> Places]
      /\ done' = IF "wait" = "out" THEN [done EXCEPT ![t] = @ + 1] ELSE done
  BY DEF CInv, TypeOK, Waits, Places
<1>2. /\ In("wait")' = In("wait") \cup {t} /\ In("release")' = In("release")
      /\ In("busy")' = In("busy") \ {t}
      /\ t \in Threads \ In("wait") /\ In("wait") \subseteq Threads
      /\ t \notin busy_cv
  <2>1. /\ In("wait")' = In("wait") \cup {t} /\ In("release")' = In("release")
        /\ In("busy")' = In("busy") \ {t}
    BY <1>1 DEF In, Arriving
  <2>2. t \notin busy_cv /\ t \notin In("wait") /\ In("wait") \subseteq Threads
    BY DEF In, Arriving, CInv, TypeOK
  <2> QED
    BY <2>1, <2>2
<1>3. /\ CallsCounted' /\ pc' \in [Threads -> Places]
      /\ begun' \in [Threads -> 0..Rounds] /\ done' \in [Threads -> 0..Rounds]
  BY <1>1, CallsKept DEF CInv
<1>4. TypeOK'
  BY <1>2, <1>3 DEF CInv, TypeOK, Waits, Begins
<1>5. OneReleaser'
  BY <1>2 DEF CInv, OneReleaser, Waits
<1>6. Counted'
  <2>1. Cardinality(In("wait")') = Cardinality(In("wait")) + 1
    BY <1>2, CountingThreads
  <2> QED
    BY <2>1 DEF CInv, Counted, Waits
<1>7. PInv'
  <2> SUFFICES ASSUME ~disturbed' PROVE Phase'
    BY DEF PInv
  <2>1. PICK k \in Nat : Awake = {} /\ Filling(k)
    BY DEF PInv, Phase, Begins, Waits
  <2>2. Awake' = {} /\ is_ready_again'
    BY <1>2, <2>1 DEF Awake, Waits
  <2>3. Filling(k)'
    BY <2>1 DEF Filling, Waits
  <2> QED
    BY <2>2, <2>3 DEF Phase
<1> QED
  BY <1>3, <1>4, <1>5, <1>6, <1>7 DEF CInv

(* The releasing thread sleeps; the signal wakes a waiter.                 *)
LEMMA ReleasesKeeps ==
  ASSUME CInv, PInv, NEW t \in Threads, Begins(t), ArrivesLast(t) \/ Releasing(t), Releases(t)
  PROVE  CInv' /\ PInv'
<1>1. /\ "release" \in Places /\ pc' = [pc EXCEPT ![t] = "release"] /\ pc \in [Threads -> Places]
      /\ done' = IF "release" = "out" THEN [done EXCEPT ![t] = @ + 1] ELSE done
  BY DEF CInv, TypeOK, Releases, Places
<1>2. /\ In("wait")' = In("wait") /\ In("release")' = {t} /\ In("busy")' = In("busy") \ {t}
      /\ t \notin busy_cv /\ t \notin In("wait")
  <2>1. In("release") \subseteq {t}
    BY DEF CInv, OneReleaser, ArrivesLast, Releasing, In
  <2>2. pc[t] # "wait" /\ t \notin busy_cv
    BY DEF CInv, TypeOK, ArrivesLast, Arriving, Releasing, In
  <2> QED
    BY <1>1, <2>1, <2>2 DEF In
<1>3. /\ CallsCounted' /\ pc' \in [Threads -> Places]
      /\ begun' \in [Threads -> 0..Rounds] /\ done' \in [Threads -> 0..Rounds]
  BY <1>1, CallsKept DEF CInv
<1>4. PICK rest \in AfterSignal(cv) : cv' = rest \cup {t}
  BY DEF Releases
<1>5. cv \subseteq In("wait") \cup {t}
  BY DEF CInv, TypeOK, OneReleaser, ArrivesLast, Releasing, In
<1>6. TypeOK'
  <2>1. cv' \subseteq In("wait")' \cup In("release")'
    BY <1>2, <1>4, <1>5, SignalTakesOne
  <2>2. busy_cv' \subseteq In("busy")'
    BY <1>2 DEF CInv, TypeOK, Releases
  <2>3. is_ready_again' \in BOOLEAN /\ disturbed' \in BOOLEAN
    BY DEF CInv, TypeOK, Releases, Begins
  <2> QED
    BY <1>3, <2>1, <2>2, <2>3 DEF CInv, TypeOK, Releases
<1>7. OneReleaser' /\ Counted'
  BY <1>2 DEF CInv, OneReleaser, Counted, Releases
<1>8. PInv'
  <2> SUFFICES ASSUME ~disturbed' PROVE Phase'
    BY DEF PInv
  <2>1. Phase
    BY DEF PInv, Begins
  <2>2. cv = In("wait")
    <3>1. CASE ArrivesLast(t)
      <4>1. is_ready_again /\ Awake = {}
        BY <2>1, <3>1 DEF Phase, ArrivesLast
      <4> QED
        BY <4>1 DEF Awake, CInv, TypeOK, OneReleaser
    <3>2. CASE Releasing(t)
      <4>1. t \in Awake
        BY <3>2 DEF Awake, Releasing, In
      <4>2. Awake = {t}
        BY <2>1, <4>1 DEF Phase
      <4> QED
        BY <1>2, <1>5, <3>2, <4>2 DEF Awake, Releasing
    <3> QED
      BY <3>1, <3>2
  <2>3. In("wait") # {}
    BY EmptyCounts DEF CInv, Counted, Releases
  <2>4. PICK u \in cv : rest = cv \ {u}
    BY <2>2, <2>3, <1>4, SignalTakesOne
  <2>5. Awake' = {u} /\ u \in Threads
    BY <1>2, <1>4, <2>2, <2>4 DEF Awake, In
  <2>6. \E k \in Nat : Emptying(k)'
    <3>1. CASE ArrivesLast(t)
      <4>1. PICK k \in Nat : Filling(k)
        BY <2>1, <3>1 DEF Phase, ArrivesLast
      <4>2. In("wait") = Threads \ {t}
        <5>1. In("wait") \subseteq Threads \ {t}
          BY <1>2 DEF In
        <5>2. Cardinality(In("wait")) + 1 >= Cardinality(Threads)
          BY <3>1 DEF CInv, Counted, ArrivesLast, threshold_count
        <5> QED
          BY <5>1, <5>2, AllOthers
      <4>3. \A w \in Threads : pc'[w] \in {"wait", "release"}
        BY <1>1, <4>2 DEF In
      <4> QED
        BY <1>1, <4>1, <4>3 DEF Filling, Emptying
    <3>2. CASE Releasing(t)
      <4>1. PICK k \in Nat : Emptying(k)
        BY <2>1, <3>2 DEF Phase, Releasing, CInv, OneReleaser, In
      <4> QED
        BY <1>1, <3>2, <4>1 DEF Emptying, Releasing
    <3> QED
      BY <3>1, <3>2
  <2>7. ~is_ready_again'
    BY DEF Releases
  <2> QED
    BY <2>5, <2>6, <2>7 DEF Phase
<1> QED
  BY <1>3, <1>6, <1>7, <1>8 DEF CInv

(* Nobody waits any more: the releasing thread opens the barrier and       *)
(* leaves; so does the last to arrive, if there is no other thread.        *)
LEMMA OpensKeeps ==
  ASSUME CInv, PInv, NEW t \in Threads, Begins(t), ArrivesLast(t) \/ Releasing(t), Opens(t)
  PROVE  CInv' /\ PInv'
<1>1. /\ "out" \in Places /\ pc' = [pc EXCEPT ![t] = "out"] /\ pc \in [Threads -> Places]
      /\ done' = IF "out" = "out" THEN [done EXCEPT ![t] = @ + 1] ELSE done
  BY DEF CInv, TypeOK, Opens, Places
<1>2. In("wait") = {}
  <2>1. In("wait") \subseteq Threads /\ Cardinality(In("wait")) = 0
    BY DEF In, CInv, Counted, Opens
  <2> QED
    BY <2>1, CountingThreads
<1>3. In("release") \subseteq {t}
  BY DEF CInv, OneReleaser, ArrivesLast, Releasing, In
<1>4. In("wait")' = {} /\ In("release")' = {}
  BY <1>1, <1>2, <1>3 DEF In
<1>5. cv = {}
  <2>1. CASE ArrivesLast(t)
    BY <1>2, <2>1 DEF CInv, TypeOK, OneReleaser, ArrivesLast
  <2>2. CASE Releasing(t)
    BY <1>2, <1>3, <2>2 DEF CInv, TypeOK, Releasing
  <2> QED
    BY <2>1, <2>2
<1>6. /\ CallsCounted' /\ pc' \in [Threads -> Places]
      /\ begun' \in [Threads -> 0..Rounds] /\ done' \in [Threads -> 0..Rounds]
  BY <1>1, CallsKept DEF CInv
<1>7. TypeOK'
  <2>1. is_ready_again' \in BOOLEAN /\ disturbed' \in BOOLEAN
    BY DEF CInv, TypeOK, Opens, Begins
  <2>2. cv' = {} /\ busy_cv' = {}
    BY <1>5 DEF Opens
  <2> QED
    BY <1>6, <2>1, <2>2 DEF CInv, TypeOK, Opens
<1>8. OneReleaser' /\ Counted'
  BY <1>4, EmptyCounts DEF OneReleaser, Counted, Opens
<1>9. PInv'
  <2> SUFFICES ASSUME ~disturbed' PROVE Phase'
    BY DEF PInv
  <2>1. Phase
    BY DEF PInv, Begins
  <2>2. PICK k \in Nat : \A u \in Threads : done[u] = IF u = t THEN k ELSE k + 1
    <3>1. CASE ArrivesLast(t)
      <4>1. PICK k \in Nat : Filling(k)
        BY <2>1, <3>1 DEF Phase, ArrivesLast
      <4>2. Threads \ {t} = {}
        <5>1. Cardinality({}) + 1 >= Cardinality(Threads)
          BY <3>1, EmptyCounts DEF ArrivesLast, threshold_count, Opens
        <5> QED
          BY <5>1, AllOthers
      <4> QED
        BY <4>1, <4>2 DEF Filling
    <3>2. CASE Releasing(t)
      <4>1. PICK k \in Nat : Emptying(k)
        BY <2>1, <3>2 DEF Phase, Releasing, CInv, OneReleaser, In
      <4>2. pc[t] = "release" /\ \A u \in Threads : u # t => pc[u] \notin {"wait", "release"}
        BY <1>2, <1>3, <3>2 DEF In, Releasing
      <4> QED
        BY <4>1, <4>2 DEF Emptying
    <3> QED
      BY <3>1, <3>2
  <2>3. Filling(k + 1)'
    BY <1>1, <2>2 DEF Filling, CInv, TypeOK
  <2>4. Awake' = {} /\ is_ready_again'
    BY <1>4 DEF Awake, Opens
  <2> QED
    BY <2>3, <2>4 DEF Phase
<1> QED
  BY <1>6, <1>7, <1>8, <1>9 DEF CInv

(* A waiter leaves and passes the signal on, to a waiter or the releasing  *)
(* thread.                                                                 *)
LEMMA WaitReturnsKeeps ==
  ASSUME CInv, PInv, NEW t \in Threads, WaitReturns(t)
  PROVE  CInv' /\ PInv'
<1>1. /\ "out" \in Places /\ pc' = [pc EXCEPT ![t] = "out"] /\ pc \in [Threads -> Places]
      /\ done' = IF "out" = "out" THEN [done EXCEPT ![t] = @ + 1] ELSE done
      /\ pc[t] = "wait" /\ t \notin cv /\ cv' \in AfterSignal(cv)
  BY DEF CInv, TypeOK, WaitReturns, Returns, Places
<1>2. Begins(t)
  BY <1>1 DEF Begins, WaitReturns
<1>3. /\ In("wait")' = In("wait") \ {t} /\ In("release")' = In("release")
      /\ In("busy")' = In("busy") /\ t \in In("wait") /\ In("wait") \subseteq Threads
      /\ t \notin In("release")
  BY <1>1 DEF In
<1>4. /\ CallsCounted' /\ pc' \in [Threads -> Places]
      /\ begun' \in [Threads -> 0..Rounds] /\ done' \in [Threads -> 0..Rounds]
  BY <1>1, <1>2, CallsKept DEF CInv
<1>5. Counted' /\ curr_wait_count' \in Nat
  <2>1. Cardinality(In("wait")') = Cardinality(In("wait")) - 1
    BY <1>3, CountingThreads
  <2>2. In("wait")' \subseteq Threads
    BY <1>3
  <2>3. Cardinality(In("wait")') \in Nat
    BY <2>2, CountingThreads
  <2> QED
    BY <2>1, <2>3 DEF CInv, Counted, WaitReturns
<1>6. TypeOK'
  <2>1. cv' \subseteq In("wait")' \cup In("release")'
    BY <1>1, <1>3, SignalTakesOne DEF CInv, TypeOK
  <2>2. is_ready_again' \in BOOLEAN /\ disturbed' \in BOOLEAN
    BY DEF CInv, TypeOK, WaitReturns
  <2> QED
    BY <1>3, <1>4, <1>5, <2>1, <2>2 DEF CInv, TypeOK, WaitReturns
<1>7. OneReleaser'
  BY <1>3 DEF CInv, OneReleaser, WaitReturns
<1>8. PInv'
  <2> SUFFICES ASSUME ~disturbed' PROVE Phase'
    BY DEF PInv
  <2>1. t \in Awake
    BY <1>1, <1>3 DEF Awake
  <2>2. PICK k \in Nat : ~is_ready_again /\ Awake = {t} /\ Emptying(k)
    BY <2>1 DEF PInv, Phase, WaitReturns
  <2>3. cv # {}
    <3>1. In("release") # {}
      BY <2>2 DEF CInv, OneReleaser
    <3> QED
      BY <1>3, <2>2, <3>1 DEF Awake
  <2>4. PICK u \in cv : cv' = cv \ {u}
    BY <1>1, <2>3, SignalTakesOne
  <2>5. Awake' = {u} /\ u \in Threads
    <3>1. u \in (In("wait") \cup In("release")) \ {t}
      BY <1>1, <2>4 DEF CInv, TypeOK
    <3>2. In("wait") \cup In("release") \subseteq Threads
      BY DEF In
    <3> QED
      BY <1>3, <2>2, <2>4, <3>1, <3>2 DEF Awake
  <2>6. Emptying(k)'
    BY <1>1, <2>2 DEF Emptying, CInv, TypeOK
  <2>7. ~is_ready_again'
    BY <2>2 DEF WaitReturns
  <2> QED
    BY <2>5, <2>6, <2>7 DEF Phase
<1> QED
  BY <1>4, <1>5, <1>6, <1>7, <1>8 DEF CInv

(* A sleeper of busy_cv that wakes unasked tries again; one of cv ends     *)
(* what is promised of the meetings, and not the exactness of the count.   *)
LEMMA SpuriousKeeps ==
  ASSUME CInv, PInv, NEW t \in Threads, SpuriousWakeup(t)
  PROVE  CInv' /\ PInv'
<1>1. /\ UNCHANGED <<curr_wait_count, is_ready_again, pc, begun, done>>
      /\ cv' \subseteq cv /\ busy_cv' \subseteq busy_cv
      /\ disturbed' = TRUE \/ (disturbed' = disturbed /\ cv' = cv)
  BY DEF SpuriousWakeup
<1>2. \A place : In(place)' = In(place)
  BY <1>1 DEF In
<1>3. disturbed' \in BOOLEAN
  BY <1>1 DEF CInv, TypeOK
<1>4. CInv'
  BY <1>1, <1>2, <1>3 DEF CInv, TypeOK, CallsCounted, OneReleaser, Counted
<1>5. PInv'
  <2> SUFFICES ASSUME ~disturbed' PROVE Phase'
    BY DEF PInv
  <2>1. cv' = cv /\ Phase
    BY <1>1 DEF PInv
  <2>2. Awake' = Awake
    BY <1>2, <2>1 DEF Awake
  <2> QED
    BY <1>1, <2>1, <2>2 DEF Phase, Filling, Emptying
<1> QED
  BY <1>4, <1>5

-------------------------------------------------------------------------------
(* Every step of a thread keeps both invariants. *)
LEMMA Inductive == ASSUME CInv /\ PInv, [Next]_vars PROVE CInv' /\ PInv'
<1>1. ASSUME NEW t \in Threads, Call(t) \/ BusyRetest(t) \/ ReleaseRetest(t)
      PROVE  CInv' /\ PInv'
  <2>1. /\ Begins(t)
        /\ \/ Arriving(t) /\ (TurnedAway(t) \/ Waits(t))
           \/ (ArrivesLast(t) \/ Releasing(t)) /\ (Releases(t) \/ Opens(t))
    BY <1>1, Shapes DEF CInv
  <2> QED
    BY <2>1, TurnedAwayKeeps, WaitsKeeps, ReleasesKeeps, OpensKeeps
<1>2. ASSUME NEW t \in Threads, WaitReturns(t) \/ SpuriousWakeup(t) PROVE CInv' /\ PInv'
  BY <1>2, WaitReturnsKeeps, SpuriousKeeps
<1>3. CASE UNCHANGED vars
  BY <1>3 DEF vars, CInv, TypeOK, CallsCounted, OneReleaser, Counted, PInv, Phase, Filling,
              Emptying, Awake, In
<1> QED
  BY <1>1, <1>2, <1>3 DEF Next, Run

(* They hold throughout. *)
LEMMA Invariant == Spec => [](CInv /\ PInv)
<1>1. Init => CInv /\ PInv
  BY Initially
<1>2. (CInv /\ PInv) /\ [Next]_vars => (CInv /\ PInv)'
  BY Inductive
<1> QED
  BY <1>1, <1>2, PTL DEF Spec

(* For any number of threads and rounds, spurious wakeups included: the    *)
(* count on which thread_barrier_wait decides who is the last to arrive    *)
(* and when the barrier is empty is that of the threads waiting in it.     *)
THEOREM CountAlwaysExact == Spec => []CountExact
<1>1. CInv => CountExact
  BY DEF CInv, CountExact, OneReleaser, Counted
<1> QED
  BY <1>1, Invariant, PTL

(* For any number of threads and rounds: no thread returns from its k-th   *)
(* call before every thread has made its k-th, unless a waiter has woken   *)
(* without a signal.                                                       *)
THEOREM MeetingsAreComplete == Spec => []NobodyEarly
<1>1. CInv /\ PInv => NobodyEarly
  <2> SUFFICES ASSUME CInv, PInv, ~disturbed, NEW t \in Threads, NEW u \in Threads
               PROVE  done[t] <= begun[u]
    BY DEF NobodyEarly
  <2>1. PICK k \in Nat : Filling(k) \/ Emptying(k)
    BY DEF PInv, Phase
  <2>2. begun[u] = IF pc[u] = "out" THEN done[u] ELSE done[u] + 1
    BY DEF CInv, CallsCounted
  <2>3. CASE Filling(k)
    BY <2>2, <2>3 DEF Filling
  <2>4. CASE Emptying(k)
    BY <2>2, <2>4 DEF Emptying
  <2> QED
    BY <2>1, <2>3, <2>4
<1> QED
  BY <1>1, Invariant, PTL

(* For any number of threads and rounds: exactly one wakeup travels while  *)
(* the barrier empties, and none while it fills.                           *)
THEOREM OneWakeupTravels == Spec => []OneAwake
<1>1. CInv /\ PInv => OneAwake
  <2> SUFFICES ASSUME CInv, PInv, ~disturbed
               PROVE  Cardinality(Awake) = IF is_ready_again THEN 0 ELSE 1
    BY DEF OneAwake, Awake
  <2>1. CASE is_ready_again
    <3>1. Awake = {}
      BY <2>1 DEF PInv, Phase
    <3> QED
      BY <2>1, <3>1, EmptyCounts
  <2>2. CASE ~is_ready_again
    <3>1. PICK t \in Threads : Awake = {t}
      BY <2>2 DEF PInv, Phase
    <3>2. Cardinality(Awake) = 1
      BY <3>1, FS_Singleton
    <3> QED
      BY <2>2, <3>2
  <2> QED
    BY <2>1, <2>2
<1> QED
  BY <1>1, Invariant, PTL
===============================================================================
