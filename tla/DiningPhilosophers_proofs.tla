----------------------- MODULE DiningPhilosophers_proofs ------------------------
(***************************************************************************)
(* Who holds which spoon and which mutex, and why anybody sleeps, for any  *)
(* number of philosophers.                                                 *)
(***************************************************************************)
EXTENDS DiningPhilosophers, WellFoundedInduction, TLAPS

(* Each right spoon is one philosopher's only, and never its left one. *)
LEMMA RightSpoons ==
  /\ \A p \in Philosophers : Right(p) \in Spoons /\ Right(p) # p
  /\ \A p, q \in Philosophers : Right(p) = Right(q) => p = q
  BY AtLeastTwo DEF Right, Philosophers, Spoons

LEMMA SpoonOfEach == Spoons = Philosophers /\ NULL \notin Philosophers
  BY NullIsNobody DEF Spoons, Philosophers

LEMMA ExactInit == Init => Exact
  BY SpoonOfEach DEF Init, Exact, TypeOK, SpoonsExact, MutexesExact, SleepersHaveCause,
     PhilosopherPlaces

LEMMA TakeTypes ==
  ASSUME TypeOK, NEW s \in Spoons, NEW p \in Philosophers, Take(s, p)
  PROVE  /\ is_used' \in [Spoons -> BOOLEAN]
         /\ phil' \in [Spoons -> Philosophers \cup {NULL}]
<1>1. is_used' = [is_used EXCEPT ![s] = TRUE] /\ is_used \in [Spoons -> BOOLEAN]
  BY DEF Take, TypeOK
<1>2. is_used' \in [Spoons -> BOOLEAN]
  BY <1>1, Zenon
<1>3. phil' \in [Spoons -> Philosophers \cup {NULL}]
  BY DEF Take, TypeOK
<1> QED
  BY <1>2, <1>3

LEMMA ExactGrabLeft ==
  ASSUME Exact, NEW p \in Philosophers, GrabLeft(p) PROVE Exact'
<1>1. TypeOK'
  <2>1. CASE is_used[Left(p)] /\ phil[Left(p)] # p
    BY <2>1, SpoonOfEach DEF GrabLeft, Goto, Exact, TypeOK, PhilosopherPlaces
  <2>2. CASE ~(is_used[Left(p)] /\ phil[Left(p)] # p)
    <3>1. Take(Left(p), p) /\ Left(p) \in Spoons /\ TypeOK
      BY <2>2, SpoonOfEach DEF GrabLeft, Exact, Left
    <3> QED
      BY <2>2, <3>1, TakeTypes DEF GrabLeft, Goto, TypeOK, PhilosopherPlaces
  <2> QED
    BY <2>1, <2>2
<1>2. SpoonsExact'
  BY RightSpoons, SpoonOfEach
     DEF GrabLeft, Goto, Take, Exact, TypeOK, SpoonsExact, MutexesExact, Left
<1>3. MutexesExact'
  BY RightSpoons, SpoonOfEach
     DEF GrabLeft, Goto, Take, Exact, TypeOK, SpoonsExact, MutexesExact, Left
<1>4. SleepersHaveCause'
  BY RightSpoons, SpoonOfEach
     DEF GrabLeft, Goto, Take, Exact, TypeOK, SpoonsExact, SleepersHaveCause, Left
<1> QED
  BY <1>1, <1>2, <1>3, <1>4 DEF Exact

LEMMA ExactTryRight ==
  ASSUME Exact, NEW p \in Philosophers, TryRight(p) PROVE Exact'
<1>1. TypeOK'
  <2>1. CASE Take(Right(p), p) /\ Goto(p, "eat") /\ UNCHANGED mutex
    BY <2>1, RightSpoons, TakeTypes DEF TryRight, Goto, Exact, TypeOK, PhilosopherPlaces
  <2>2. CASE /\ mutex' = [mutex EXCEPT ![Right(p)] = p]
             /\ Goto(p, "give_up") /\ UNCHANGED <<is_used, phil>>
    BY <2>2, RightSpoons DEF TryRight, Goto, Exact, TypeOK, PhilosopherPlaces
  <2>3. CASE Goto(p, "eat") /\ UNCHANGED <<is_used, phil, mutex>>
    BY <2>3 DEF TryRight, Goto, Exact, TypeOK, PhilosopherPlaces
  <2> QED
    BY <2>1, <2>2, <2>3 DEF TryRight
<1>2. SpoonsExact'
  BY RightSpoons, SpoonOfEach
     DEF TryRight, Goto, Take, Exact, TypeOK, SpoonsExact, MutexesExact, Left
<1>3. MutexesExact'
  BY RightSpoons, SpoonOfEach
     DEF TryRight, Goto, Take, Exact, TypeOK, SpoonsExact, MutexesExact, Left
<1>4. SleepersHaveCause'
  BY RightSpoons, SpoonOfEach
     DEF TryRight, Goto, Take, Exact, TypeOK, SpoonsExact, SleepersHaveCause, Left
<1> QED
  BY <1>1, <1>2, <1>3, <1>4 DEF Exact

LEMMA ExactGiveUp ==
  ASSUME Exact, NEW p \in Philosophers, GiveUp(p) PROVE Exact'
<1>1. TypeOK'
  BY RightSpoons, SpoonOfEach
     DEF GiveUp, Goto, HasLeft, Exact, TypeOK, PhilosopherPlaces, Left
<1>2. SpoonsExact'
  BY RightSpoons, SpoonOfEach
     DEF GiveUp, Goto, HasLeft, Exact, TypeOK, SpoonsExact, MutexesExact, Left
<1>3. MutexesExact'
  BY RightSpoons, SpoonOfEach
     DEF GiveUp, Goto, HasLeft, Exact, TypeOK, SpoonsExact, MutexesExact, Left
<1>4. SleepersHaveCause'
  BY RightSpoons, SpoonOfEach
     DEF GiveUp, Goto, HasLeft, Exact, TypeOK, SpoonsExact, SleepersHaveCause, Left
<1> QED
  BY <1>1, <1>2, <1>3, <1>4 DEF Exact

LEMMA ExactEat ==
  ASSUME Exact, NEW p \in Philosophers, Eat(p) PROVE Exact'
<1>1. TypeOK'
  BY RightSpoons, SpoonOfEach DEF Eat, Goto, Exact, TypeOK, PhilosopherPlaces, Left
<1>2. SpoonsExact'
  BY RightSpoons, SpoonOfEach
     DEF Eat, Goto, Exact, TypeOK, SpoonsExact, MutexesExact, Left
<1>3. MutexesExact'
  BY RightSpoons, SpoonOfEach
     DEF Eat, Goto, Exact, TypeOK, SpoonsExact, MutexesExact, Left
<1>4. SleepersHaveCause'
  BY RightSpoons, SpoonOfEach
     DEF Eat, Goto, Exact, TypeOK, SpoonsExact, SleepersHaveCause, Left
<1> QED
  BY <1>1, <1>2, <1>3, <1>4 DEF Exact

LEMMA ExactLockLeft ==
  ASSUME Exact, NEW p \in Philosophers, LockLeft(p) PROVE Exact'
<1>1. TypeOK'
  BY RightSpoons, SpoonOfEach DEF LockLeft, Goto, Exact, TypeOK, PhilosopherPlaces, Left
<1>2. SpoonsExact'
  BY RightSpoons, SpoonOfEach
     DEF LockLeft, Goto, Exact, TypeOK, SpoonsExact, MutexesExact, Left
<1>3. MutexesExact'
  BY RightSpoons, SpoonOfEach
     DEF LockLeft, Goto, Exact, TypeOK, SpoonsExact, MutexesExact, Left
<1>4. SleepersHaveCause'
  BY RightSpoons, SpoonOfEach
     DEF LockLeft, Goto, Exact, TypeOK, SpoonsExact, SleepersHaveCause, Left
<1> QED
  BY <1>1, <1>2, <1>3, <1>4 DEF Exact

LEMMA ExactReleaseBoth ==
  ASSUME Exact, NEW p \in Philosophers, ReleaseBoth(p) PROVE Exact'
<1>1. TypeOK'
  BY RightSpoons, SpoonOfEach
     DEF ReleaseBoth, Goto, HasBoth, HasLeft, SignalSpoons,
         Exact, TypeOK, PhilosopherPlaces, Left
<1>2. SpoonsExact'
  <2>1. /\ phil' = [s \in Spoons |-> IF s \in {Left(p), Right(p)} THEN NULL ELSE phil[s]]
        /\ is_used' = [s \in Spoons |-> is_used[s] /\ s \notin {Left(p), Right(p)}]
    BY DEF ReleaseBoth
  <2>2. at'[p] \in {"left", "signal"} /\ \A q \in Philosophers \ {p} : at'[q] = at[q]
    BY DEF ReleaseBoth, Goto, Exact, TypeOK
  <2> SUFFICES ASSUME NEW s \in Spoons
               PROVE  /\ is_used'[s] <=> phil'[s] # NULL
                      /\ \A q \in Philosophers :
                           phil'[s] = q <=>
                             \/ s = Left(q)
                                /\ at'[q] \in {"right", "give_up", "eat", "release",
                                               "release_right"}
                             \/ s = Right(q) /\ at'[q] \in {"eat", "release", "release_right"}
    BY DEF SpoonsExact, Left, Right
  <2>3. is_used'[s] <=> phil'[s] # NULL
    BY <2>1 DEF Exact, SpoonsExact
  <2>4. ASSUME NEW q \in Philosophers
        PROVE  phil'[s] = q <=>
                 \/ s = Left(q)
                    /\ at'[q] \in {"right", "give_up", "eat", "release", "release_right"}
                 \/ s = Right(q) /\ at'[q] \in {"eat", "release", "release_right"}
    <3>1. CASE q = p
      BY <2>1, <2>2, <3>1, SpoonOfEach DEF Exact, SpoonsExact
    <3>2. CASE q # p /\ s \in {Left(p), Right(p)}
      BY <2>1, <2>2, <3>2, SpoonOfEach, RightSpoons
         DEF ReleaseBoth, HasBoth, HasLeft, Exact, SpoonsExact, Left
    <3>3. CASE q # p /\ s \notin {Left(p), Right(p)}
      BY <2>1, <2>2, <3>3 DEF Exact, SpoonsExact
    <3> QED
      BY <3>1, <3>2, <3>3
  <2> QED
    BY <2>3, <2>4
<1>3. MutexesExact'
  BY RightSpoons, SpoonOfEach
     DEF ReleaseBoth, Goto, HasBoth, HasLeft, SignalSpoons,
         Exact, TypeOK, SpoonsExact, MutexesExact, Left
<1>4. SleepersHaveCause'
  BY RightSpoons, SpoonOfEach
     DEF ReleaseBoth, Goto, HasBoth, HasLeft, SignalSpoons,
         Exact, TypeOK, SpoonsExact, SleepersHaveCause, Left
<1> QED
  BY <1>1, <1>2, <1>3, <1>4 DEF Exact

LEMMA ExactSignal ==
  ASSUME Exact, NEW p \in Philosophers, Signal(p) PROVE Exact'
<1>1. TypeOK'
  BY RightSpoons, SpoonOfEach
     DEF Signal, Goto, SignalSpoons, Exact, TypeOK, PhilosopherPlaces, Left
<1>2. SpoonsExact'
  BY RightSpoons, SpoonOfEach
     DEF Signal, Goto, SignalSpoons, Exact, TypeOK, SpoonsExact, MutexesExact, Left
<1>3. MutexesExact'
  BY RightSpoons, SpoonOfEach
     DEF Signal, Goto, SignalSpoons, Exact, TypeOK, SpoonsExact, MutexesExact, Left
<1>4. SleepersHaveCause'
  BY RightSpoons, SpoonOfEach
     DEF Signal, Goto, SignalSpoons, Exact, TypeOK, SpoonsExact, SleepersHaveCause, Left
<1> QED
  BY <1>1, <1>2, <1>3, <1>4 DEF Exact

LEMMA ExactSpuriousWakeup ==
  ASSUME Exact, NEW p \in Philosophers, SpuriousWakeup(p) PROVE Exact'
<1>1. TypeOK'
  BY RightSpoons, SpoonOfEach DEF SpuriousWakeup, Exact, TypeOK, PhilosopherPlaces, Left
<1>2. SpoonsExact'
  BY RightSpoons, SpoonOfEach
     DEF SpuriousWakeup, Exact, TypeOK, SpoonsExact, MutexesExact, Left
<1>3. MutexesExact'
  BY RightSpoons, SpoonOfEach
     DEF SpuriousWakeup, Exact, TypeOK, SpoonsExact, MutexesExact, Left
<1>4. SleepersHaveCause'
  BY RightSpoons, SpoonOfEach
     DEF SpuriousWakeup, Exact, TypeOK, SpoonsExact, SleepersHaveCause, Left
<1> QED
  BY <1>1, <1>2, <1>3, <1>4 DEF Exact

LEMMA ExactStep == Exact /\ [Next]_vars => Exact'
<1> SUFFICES ASSUME Exact, [Next]_vars PROVE Exact'
  OBVIOUS
<1>1. CASE UNCHANGED vars
  BY <1>1 DEF vars, Exact, TypeOK, SpoonsExact, MutexesExact, SleepersHaveCause
<1>2. ASSUME NEW p \in Philosophers, Run(p) \/ SpuriousWakeup(p) PROVE Exact'
  BY <1>2, ExactGrabLeft, ExactTryRight, ExactGiveUp, ExactEat, ExactLockLeft,
     ExactReleaseBoth, ExactSignal, ExactSpuriousWakeup DEF Run
<1> QED
  BY <1>1, <1>2 DEF Next

(* Every spoon in use is in the hands of the philosopher it names, every   *)
(* locked mutex in those of its holder, and no philosopher sleeps on a     *)
(* free spoon without a signal to come.                                    *)
THEOREM SpoonsAlwaysExact == Spec => []Exact
  BY ExactInit, ExactStep, PTL DEF Spec

(* The assertions that phil_eat, the releasing and the giving up evaluate. *)
Asserted ==
  \A p \in Philosophers :
    /\ at[p] = "give_up" => HasLeft(p)
    /\ at[p] \in {"eat", "release", "release_right"} => HasBoth(p)

(* No assertion of the two programs fails. *)
THEOREM AssertionsNeverFail == Spec => []Asserted
<1>1. Exact => Asserted
  BY RightSpoons, SpoonOfEach
     DEF Exact, TypeOK, SpoonsExact, Asserted, HasLeft, HasBoth, Left
<1> QED
  BY <1>1, SpoonsAlwaysExact, PTL

(* A set of numbers has a least one. *)
LEMMA Least ==
  ASSUME NEW S \in SUBSET Nat, S # {}
  PROVE  \E m \in S : \A k \in S : m <= k
<1>1. PICK m \in S : \A k \in S : <<k, m>> \notin OpToRel(<, Nat)
  BY NatLessThanWellFounded, WFMin
<1>2. \A k \in S : ~(k < m)
  BY <1>1 DEF OpToRel
<1> QED
  BY <1>2

(* The neighbour to whom p's left spoon is the right one. *)
Neighbour(p) == IF p = N_PHILOSOPHER - 1 THEN 0 ELSE p + 1

LEMMA NeighbourShares ==
  ASSUME NEW p \in Philosophers
  PROVE  /\ Neighbour(p) \in Philosophers
         /\ \A q \in Philosophers : Right(q) = p => q = Neighbour(p)
  BY AtLeastTwo DEF Neighbour, Philosophers, Right

(* What goes on from neighbour to neighbour comes to everybody. *)
LEMMA AroundTheRing ==
  ASSUME NEW G \in SUBSET Philosophers, NEW g \in G,
         \A p \in G : Neighbour(p) \in G
  PROVE  G = Philosophers
<1> SUFFICES ASSUME NEW x \in Philosophers, x \notin G PROVE FALSE
  OBVIOUS
<1>1. ASSUME NEW a \in Philosophers, a = 0 \/ (a > 0 /\ a - 1 \in G), a \in G \/ a > 0
      PROVE  a \in G
  <2>1. CASE a > 0 /\ a - 1 \in G
    <3>1. Neighbour(a - 1) = a
      BY <2>1, AtLeastTwo DEF Neighbour, Philosophers
    <3> QED
      BY <2>1, <3>1
  <2> QED
    BY <1>1, <2>1
<1>2. 0 \in G
  <2>1. CASE N_PHILOSOPHER - 1 \in G
    <3>1. Neighbour(N_PHILOSOPHER - 1) = 0
      BY DEF Neighbour
    <3> QED
      BY <2>1, <3>1
  <2>2. CASE N_PHILOSOPHER - 1 \notin G
    <3> DEFINE Later == {k \in Philosophers : k > g /\ k \notin G}
    <3>1. Later \in SUBSET Nat /\ N_PHILOSOPHER - 1 \in Later
      <4>1. N_PHILOSOPHER - 1 \in Philosophers /\ g # N_PHILOSOPHER - 1 /\ g \in Philosophers
        BY <2>2, AtLeastTwo DEF Philosophers
      <4>2. g < N_PHILOSOPHER - 1
        BY <4>1, AtLeastTwo DEF Philosophers
      <4> QED
        BY <2>2, <4>1, <4>2 DEF Philosophers
    <3>2. PICK m \in Later : \A k \in Later : m <= k
      BY <3>1, Least
    <3>3. m \in Philosophers /\ m - 1 \in Philosophers /\ m - 1 >= g /\ g \in Nat
      BY <3>2, AtLeastTwo DEF Philosophers
    <3>4. m - 1 \in G
      BY <3>2, <3>3 DEF Philosophers
    <3>5. m > 0 /\ m \notin G
      BY <3>2, <3>3 DEF Philosophers
    <3> QED
      BY <1>1, <3>3, <3>4, <3>5
  <2> QED
    BY <2>1, <2>2
<1> DEFINE Missing == Philosophers \ G
<1>3. Missing \in SUBSET Nat /\ x \in Missing
  BY AtLeastTwo DEF Philosophers
<1>4. PICK m \in Missing : \A k \in Missing : m <= k
  BY <1>3, Least
<1>5. m \in Philosophers /\ m # 0 /\ m \notin G
  BY <1>2, <1>4
<1>6. m > 0 /\ m - 1 \in Philosophers
  BY <1>5, AtLeastTwo DEF Philosophers
<1>7. m - 1 \in G
  BY <1>4, <1>5, <1>6 DEF Philosophers
<1> QED
  BY <1>1, <1>5, <1>6, <1>7

(* Where everybody waits, whoever holds a mutex gives up ...               *)
LEMMA NobodyReleases ==
  ASSUME Exact, NEW p \in Philosophers, at[p] = "release_right", Waits(p)
  PROVE  FALSE
<1>1. p \notin cv /\ mutex[Right(p)] # NULL
  BY DEF Waits, Exact, TypeOK
<1>2. PICK q \in Philosophers : mutex[Right(p)] = q
  BY <1>1, RightSpoons DEF Exact, TypeOK
<1>3. \/ Right(p) = Right(q) /\ at[q] = "give_up"
      \/ Right(p) = Left(q) /\ at[q] = "release_right"
  BY <1>2, RightSpoons DEF Exact, MutexesExact
<1>4. Right(p) = Left(q) /\ at[q] = "release_right" /\ q # p
  BY <1>3, RightSpoons DEF Left
<1>5. phil[Right(p)] = p /\ phil[Left(q)] = q
  BY <1>4, RightSpoons, SpoonOfEach DEF Exact, SpoonsExact, Left
<1> QED
  BY <1>4, <1>5

(* ... and its neighbour too, as somebody holds its left spoon's mutex.    *)
LEMMA NeighbourGivesUp ==
  ASSUME Exact, NEW p \in Philosophers, mutex[Left(p)] # NULL,
         \A q \in Philosophers : Waits(q)
  PROVE  at[Neighbour(p)] = "give_up"
<1>1. PICK q \in Philosophers : mutex[Left(p)] = q
  BY SpoonOfEach DEF Exact, TypeOK, Left
<1>2. \/ Left(p) = Right(q) /\ at[q] = "give_up"
      \/ Left(p) = Left(q) /\ at[q] = "release_right"
  BY <1>1, SpoonOfEach DEF Exact, MutexesExact, Left
<1>3. Left(p) = Right(q) /\ at[q] = "give_up"
  BY <1>2, NobodyReleases
<1> QED
  BY <1>3, NeighbourShares DEF Left

LEMMA SomebodyGivesUp ==
  ASSUME Exact, \A p \in Philosophers : Waits(p)
  PROVE  \E p \in Philosophers : at[p] = "give_up"
<1> SUFFICES ASSUME \A p \in Philosophers : at[p] # "give_up" PROVE FALSE
  OBVIOUS
<1>1. \A s \in Spoons : mutex[s] = NULL
  <2> SUFFICES ASSUME NEW s \in Spoons, mutex[s] # NULL PROVE FALSE
    OBVIOUS
  <2>1. PICK q \in Philosophers : mutex[s] = q
    BY DEF Exact, TypeOK
  <2>2. at[q] \in {"give_up", "release_right"}
    BY <2>1 DEF Exact, MutexesExact
  <2> QED
    BY <2>2, NobodyReleases
<1>2. \A p \in Philosophers : p \in cv
  BY <1>1, RightSpoons, SpoonOfEach DEF Waits, Left
<1>3. \A p \in Philosophers : at[p] = "wait"
  BY <1>2 DEF Exact, TypeOK
<1>4. 0 \in Philosophers
  BY AtLeastTwo DEF Philosophers
<1>5. PICK q \in Philosophers : Right(q) = Left(0) /\ (phil[Left(0)] = q \/ at[q] = "signal")
  BY <1>2, <1>4 DEF Exact, SleepersHaveCause
<1>6. phil[Left(0)] = q
  BY <1>3, <1>5
<1>7. at[q] # "wait"
  BY <1>4, <1>6, SpoonOfEach DEF Exact, SpoonsExact, Left
<1> QED
  BY <1>3, <1>7

(* However many philosophers there are, they all wait only where all give  *)
(* up at once: with Waits, which the runs compare with what is enabled.    *)
THEOREM OnlyRingBlocks == Spec => []((\A p \in Philosophers : Waits(p)) => InRing)
<1>1. Exact => ((\A p \in Philosophers : Waits(p)) => InRing)
  <2> SUFFICES ASSUME Exact, \A p \in Philosophers : Waits(p) PROVE InRing
    OBVIOUS
  <2> DEFINE G == {p \in Philosophers : at[p] = "give_up"}
  <2>1. PICK g \in G : TRUE
    BY SomebodyGivesUp
  <2>2. ASSUME NEW p \in G PROVE Neighbour(p) \in G
    <3>1. p \in Philosophers /\ at[p] = "give_up"
      OBVIOUS
    <3>2. mutex[Left(p)] # NULL
      BY <3>1 DEF Waits, Exact, TypeOK
    <3> QED
      BY <3>1, <3>2, NeighbourGivesUp, NeighbourShares
  <2>3. G = Philosophers
    BY <2>1, <2>2, AroundTheRing
  <2> QED
    BY <2>3 DEF InRing
<1> QED
  BY <1>1, SpoonsAlwaysExact, PTL
===============================================================================
