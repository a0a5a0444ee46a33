----------------------- MODULE ProducerConsumer_proofs ------------------------
(***************************************************************************)
(* The ring of Queue.c is a bounded queue whatever its size, its elements  *)
(* and the sequence of calls.  The two programs over it fill an empty ring *)
(* only and drain a full one only, whatever the number of producers and    *)
(* consumers, the size of the ring and the order in which they run.        *)
(***************************************************************************)
EXTENDS ProducerConsumer, SequenceTheorems, FiniteSetTheorems, TLAPS

Slots == Items \cup {NULL}

-------------------------------------------------------------------------------
(* PlaceOf and Contents as functions of the ring's variables, so that the   *)
(* facts about them serve before and after a step.                         *)
Place(f, i) == IF f + i < Q_DEFAULT_SIZE THEN f + i ELSE f + i - Q_DEFAULT_SIZE

Listed(e, f, n) == [i \in 1 .. n |-> e[Place(f, i - 1)]]

LEMMA ContentsListed ==
  /\ Contents = Listed(elem, front, count)
  /\ Contents' = Listed(elem', front', count')
  BY DEF Contents, PlaceOf, Listed, Place

LEMMA ListedSeq ==
  ASSUME NEW e \in [Places -> Slots], NEW f \in Places, NEW n \in 0 .. Q_DEFAULT_SIZE
  PROVE  /\ Listed(e, f, n) \in Seq(Slots)
         /\ Len(Listed(e, f, n)) = n
         /\ \A i \in 1 .. n : Listed(e, f, n)[i] = e[Place(f, i - 1)]
<1>1. n \in Nat
  BY SizePositive
<1>2. \A i \in 1 .. n : e[Place(f, i - 1)] \in Slots
  BY SizePositive DEF Place, Places, Slots
<1> QED
  BY <1>1, <1>2 DEF Listed

(* Different positions of the queue are different places of the ring.      *)
LEMMA PlacesDistinct ==
  \A f \in Places : \A i, k \in 0 .. Q_DEFAULT_SIZE - 1 :
    Place(f, i) \in Places /\ (Place(f, i) = Place(f, k) => i = k)
  BY SizePositive DEF Place, Places

LEMMA RingExactInit == InitQ => RingExact
  BY SizePositive DEF InitQ, RingExact, RingTypeOK, Places

LEMMA RingExactEnqueue ==
  ASSUME RingExact, NEW x \in Items, Enqueue(x)
  PROVE  RingExact'
<1>1. CASE is_queue_full
  BY <1>1 DEF Enqueue, ringVars, RingExact, RingTypeOK, PlaceOf
<1>2. CASE ~is_queue_full
  <2>1. /\ count' = count + 1 /\ front' = front
        /\ rear' = IF count = 0 THEN rear ELSE Following(rear)
    BY <1>2 DEF Enqueue, is_queue_empty
  <2>2. count < Q_DEFAULT_SIZE /\ count' \in 0 .. Q_DEFAULT_SIZE
    BY <1>2, <2>1, SizePositive DEF is_queue_full, RingExact, RingTypeOK
  <2>3. rear' \in Places /\ rear' = PlaceOf(count)
    BY <2>1, <2>2, SizePositive DEF RingExact, RingTypeOK, PlaceOf, Places, Following
  <2>4. elem' \in [Places -> Slots]
    BY <1>2, <2>3 DEF Enqueue, RingExact, RingTypeOK, Slots
  <2>5. PlaceOf(count - 1)' = PlaceOf(count)
    BY <2>1, <2>2 DEF PlaceOf, RingExact, RingTypeOK
  <2> QED
    BY <2>1, <2>2, <2>3, <2>4, <2>5 DEF RingExact, RingTypeOK, Slots
<1> QED
  BY <1>1, <1>2

LEMMA RingExactDeque ==
  ASSUME RingExact, Deque
  PROVE  RingExact'
<1>1. CASE is_queue_empty
  BY <1>1 DEF Deque, ringVars, RingExact, RingTypeOK, PlaceOf
<1>2. CASE ~is_queue_empty
  <2>1. /\ count' = count - 1 /\ rear' = rear
        /\ front' = IF front = rear THEN front ELSE Following(front)
        /\ elem' = [elem EXCEPT ![front] = NULL]
    BY <1>2 DEF Deque
  <2>2. count > 0 /\ count' \in 0 .. Q_DEFAULT_SIZE
    BY <1>2, <2>1, SizePositive DEF is_queue_empty, RingExact, RingTypeOK
  <2>3. front = rear <=> count = 1
    BY <2>2, SizePositive DEF RingExact, RingTypeOK, PlaceOf, Places
  <2>4. front' \in Places
    BY <2>1, SizePositive DEF RingExact, RingTypeOK, Places, Following
  <2>5. rear' = IF count' = 0 THEN front' ELSE PlaceOf(count - 1)'
    BY <2>1, <2>2, <2>3, SizePositive DEF RingExact, RingTypeOK, PlaceOf, Places, Following
  <2>6. elem' \in [Places -> Slots]
    BY <2>1 DEF RingExact, RingTypeOK, Slots
  <2> QED
    BY <2>1, <2>2, <2>4, <2>5, <2>6 DEF RingExact, RingTypeOK, Slots
<1> QED
  BY <1>1, <1>2

LEMMA RingExactStep == RingExact /\ [RingNext]_ringVars => RingExact'
<1> SUFFICES ASSUME RingExact, [RingNext]_ringVars PROVE RingExact'
  OBVIOUS
<1>1. CASE UNCHANGED ringVars
  BY <1>1 DEF ringVars, RingExact, RingTypeOK, PlaceOf
<1> QED
  BY <1>1, RingExactEnqueue, RingExactDeque DEF RingNext

(* rear keeps its place whatever the calls, so that enqueue may leave it    *)
(* alone in an empty queue.                                                *)
THEOREM RingInvariant == RingSpec => []RingExact
  BY RingExactInit, RingExactStep, PTL DEF RingSpec

-------------------------------------------------------------------------------
LEMMA EnqueuePuts ==
  ASSUME RingExact, RingExact', NEW x \in Items, Enqueue(x), ~is_queue_full
  PROVE  Fifo!Put(x)
<1>1. /\ elem \in [Places -> Slots] /\ elem' \in [Places -> Slots]
      /\ front \in Places /\ front' = front
      /\ count \in 0 .. Q_DEFAULT_SIZE - 1 /\ count' = count + 1 /\ x \in Slots
  BY SizePositive DEF RingExact, RingTypeOK, is_queue_full, Slots, Enqueue
<1>2. elem' = [elem EXCEPT ![Place(front, count)] = x]
  BY <1>1, SizePositive
     DEF Enqueue, RingExact, PlaceOf, Place, Places, Following, is_queue_empty
<1> DEFINE before == Listed(elem, front, count)
           after == Listed(elem', front, count + 1)
<1>bound. /\ count \in 0 .. Q_DEFAULT_SIZE /\ count + 1 \in 0 .. Q_DEFAULT_SIZE
          /\ count < Q_DEFAULT_SIZE
  BY <1>1, SizePositive
<1>types. /\ elem \in [Places -> Slots] /\ elem' \in [Places -> Slots]
          /\ front \in Places
  BY <1>1
<1>3. /\ before \in Seq(Slots) /\ Len(before) = count
      /\ \A i \in 1 .. count : before[i] = elem[Place(front, i - 1)]
  BY <1>bound, <1>types, ListedSeq, Zenon
<1>4. /\ after \in Seq(Slots) /\ Len(after) = count + 1
      /\ \A i \in 1 .. count + 1 : after[i] = elem'[Place(front, i - 1)]
  BY <1>bound, <1>types, ListedSeq, Zenon
<1>5. /\ Append(before, x) \in Seq(Slots)
      /\ Len(Append(before, x)) = count + 1
      /\ \A i \in 1 .. count : Append(before, x)[i] = before[i]
      /\ Append(before, x)[count + 1] = x
  BY <1>1, <1>3, AppendProperties
<1>6. \A i \in 1 .. count + 1 : after[i] = Append(before, x)[i]
  <2> TAKE i \in 1 .. count + 1
  <2>1. i - 1 \in 0 .. Q_DEFAULT_SIZE - 1
    BY <1>1, SizePositive
  <2>2. /\ Place(front, i - 1) \in Places
        /\ Place(front, i - 1) = Place(front, count) <=> i = count + 1
    BY <1>1, <2>1, PlacesDistinct
  <2>3. CASE i = count + 1
    BY <1>1, <1>2, <1>4, <1>5, <2>2, <2>3
  <2>4. CASE i # count + 1
    <3>1. elem'[Place(front, i - 1)] = elem[Place(front, i - 1)]
      BY <1>1, <1>2, <2>2, <2>4
    <3>2. i \in 1 .. count
      BY <1>1, <2>4
    <3> QED
      BY <1>3, <1>4, <1>5, <3>1, <3>2
  <2> QED
    BY <2>3, <2>4
<1> HIDE DEF before, after
<1>7. after = Append(before, x)
  BY <1>4, <1>5, <1>6, SeqEqual
<1>8. Contents = before /\ Contents' = after
  BY <1>1, ContentsListed DEF before, after
<1>9. Len(Contents) < Q_DEFAULT_SIZE
  BY <1>3, <1>8, <1>bound
<1> QED
  BY <1>7, <1>8, <1>9 DEF Fifo!Put

LEMMA DequeTakes ==
  ASSUME RingExact, RingExact', Deque, ~is_queue_empty
  PROVE  Fifo!Take
<1>1. /\ elem \in [Places -> Slots] /\ elem' \in [Places -> Slots]
      /\ front \in Places /\ front' \in Places
      /\ count \in 1 .. Q_DEFAULT_SIZE /\ count' = count - 1
      /\ front' = IF front = rear THEN front ELSE Following(front)
      /\ elem' = [elem EXCEPT ![front] = NULL]
  BY SizePositive DEF RingExact, RingTypeOK, is_queue_empty, Slots, Deque
<1>2. count > 1 => front' = Following(front)
  BY <1>1, SizePositive DEF RingExact, PlaceOf, Places
<1> DEFINE before == Listed(elem, front, count)
           after == Listed(elem', front', count - 1)
<1>bound. count \in 0 .. Q_DEFAULT_SIZE /\ count - 1 \in 0 .. Q_DEFAULT_SIZE
  BY <1>1, SizePositive
<1>types. /\ elem \in [Places -> Slots] /\ elem' \in [Places -> Slots]
          /\ front \in Places /\ front' \in Places
  BY <1>1
<1>3. /\ before \in Seq(Slots) /\ Len(before) = count
      /\ \A i \in 1 .. count : before[i] = elem[Place(front, i - 1)]
  BY <1>bound, <1>types, ListedSeq, Zenon
<1>4. /\ after \in Seq(Slots) /\ Len(after) = count - 1
      /\ \A i \in 1 .. count - 1 : after[i] = elem'[Place(front', i - 1)]
  BY <1>bound, <1>types, ListedSeq, Zenon
<1>5. before # <<>>
  BY <1>1, <1>3, EmptySeq
<1>6. /\ Tail(before) \in Seq(Slots) /\ Len(Tail(before)) = count - 1
      /\ \A i \in 1 .. count - 1 : Tail(before)[i] = before[i + 1]
  BY <1>3, <1>5, HeadTailProperties
<1>7. \A i \in 1 .. count - 1 : after[i] = Tail(before)[i]
  <2> TAKE i \in 1 .. count - 1
  <2>1. /\ i + 1 \in 1 .. count /\ (i + 1) - 1 = i /\ count > 1
        /\ i \in 0 .. Q_DEFAULT_SIZE - 1
    BY <1>1, SizePositive
  <2>2. /\ Place(front', i - 1) = Place(front, i)
        /\ Place(front, i) \in Places /\ Place(front, i) # front
    BY <1>1, <1>2, <2>1, SizePositive DEF Place, Places, Following
  <2>3. elem'[Place(front, i)] = elem[Place(front, i)]
    BY <1>1, <2>2
  <2>4. before[i + 1] = elem[Place(front, i)]
    BY <1>3, <2>1
  <2> QED
    BY <1>4, <1>6, <2>2, <2>3, <2>4
<1> HIDE DEF before, after
<1>8. after = Tail(before)
  BY <1>4, <1>6, <1>7, SeqEqual
<1>9. Contents = before /\ Contents' = after
  BY <1>1, ContentsListed DEF before, after
<1> QED
  BY <1>5, <1>8, <1>9 DEF Fifo!Take

LEMMA RingStepRefines ==
  RingExact /\ RingExact' /\ [RingNext]_ringVars => [Fifo!Next]_Contents
<1> SUFFICES ASSUME RingExact, RingExact', [RingNext]_ringVars
             PROVE  Fifo!Next \/ Contents' = Contents
  OBVIOUS
<1>1. CASE UNCHANGED ringVars
  BY <1>1 DEF ringVars, Contents, PlaceOf
<1>2. ASSUME NEW x \in Items, Enqueue(x) PROVE Fifo!Next \/ Contents' = Contents
  <2>1. CASE is_queue_full
    BY <1>1, <1>2, <2>1 DEF Enqueue
  <2>2. CASE ~is_queue_full
    BY <1>2, <2>2, EnqueuePuts DEF Fifo!Next
  <2> QED
    BY <2>1, <2>2
<1>3. ASSUME Deque PROVE Fifo!Next \/ Contents' = Contents
  <2>1. CASE is_queue_empty
    BY <1>1, <1>3, <2>1 DEF Deque
  <2>2. CASE ~is_queue_empty
    BY <1>3, <2>2, DequeTakes DEF Fifo!Next
  <2> QED
    BY <2>1, <2>2
<1> QED
  BY <1>1, <1>2, <1>3 DEF RingNext

(* The ring refines the bounded queue under any caller: nothing is lost,   *)
(* repeated or reordered where it wraps around or runs empty.              *)
THEOREM RingImplementsFifo == RingSpec => RingIsFifo
<1>1. InitQ => Fifo!Init
  BY SizePositive DEF InitQ, Fifo!Init, Contents
<1> QED
  BY <1>1, RingInvariant, RingStepRefines, PTL DEF RingSpec, RingIsFifo, Fifo!Spec

-------------------------------------------------------------------------------
(* The programs.  One thread at most is inside the mutex, and it leaves a   *)
(* ring that is full or empty: the batch of a producer is never cut short. *)
Inside == {t \in Threads : at[t] \in {"check", "loop"}}

Alone == \A t, u \in Inside : t = u

WholeBatches == Inside = {} => is_queue_empty \/ is_queue_full

CheckedHolds == \A t \in Threads : at[t] = "check" => Asserted(t)

(* new_int has been called once for each place that the producers that are  *)
(* done have filled, and for those that the producer at work has.          *)
Filled == {t \in Producers : at[t] = "done"}
Filling == \E t \in Producers : at[t] = "loop"

NewInts ==
  a = IF program = "assignment" THEN 0
      ELSE Q_DEFAULT_SIZE * Cardinality(Filled) + (IF Filling THEN count ELSE 0)

IInv == TypeOK /\ Alone /\ WholeBatches /\ CheckedHolds /\ NewInts

LEMMA Products ==
  ASSUME NEW n \in Nat, NEW c \in Nat, NEW d \in Nat
  PROVE  /\ n * c \in Nat /\ n * (c + 1) = n * c + n
         /\ c <= d => n * c <= n * d
<1>1. ASSUME c <= d PROVE n * c <= n * d
  <2>1. PICK k \in Nat : d = c + k
    <3>1. d - c \in Nat /\ d = c + (d - c)
      BY <1>1
    <3> QED
      BY <3>1
  <2>2. n * d = n * c + n * k /\ n * k >= 0 /\ n * c \in Int /\ n * k \in Int
    BY <2>1
  <2> QED
    BY <2>2
<1> QED
  BY <1>1

(* A producer that is not done yet has room for its batch.                 *)
LEMMA FilledCounts ==
  /\ IsFiniteSet(Filled) /\ Cardinality(Filled) \in Nat
  /\ Cardinality(Producers) \in Nat /\ Cardinality(Filled) <= Cardinality(Producers)
  /\ \A t \in Producers \ Filled :
       /\ Cardinality(Filled \cup {t}) = Cardinality(Filled) + 1
       /\ Cardinality(Filled) + 1 <= Cardinality(Producers)
<1>1. Filled \subseteq Producers
  BY DEF Filled
<1>2. /\ IsFiniteSet(Filled) /\ Cardinality(Filled) \in Nat
      /\ Cardinality(Producers) \in Nat /\ Cardinality(Filled) <= Cardinality(Producers)
  BY <1>1, ProducersFinite, FS_Subset, FS_CardinalityType
<1>3. ASSUME NEW t \in Producers \ Filled
      PROVE  /\ Cardinality(Filled \cup {t}) = Cardinality(Filled) + 1
             /\ Cardinality(Filled) + 1 <= Cardinality(Producers)
  <2>1. Cardinality(Filled \cup {t}) = Cardinality(Filled) + 1
    BY <1>2, <1>3, FS_AddElement
  <2>2. Cardinality(Filled \cup {t}) <= Cardinality(Producers)
    <3>1. Filled \cup {t} \subseteq Producers
      BY <1>1, <1>3
    <3> QED
      BY <3>1, ProducersFinite, FS_Subset
  <2> QED
    BY <2>1, <2>2
<1> QED
  BY <1>2, <1>3

(* The integers of new_int stay among the items, and the counter in its    *)
(* range, for as long as a producer has room in the ring.                  *)
LEMMA CounterBound ==
  ASSUME IInv
  PROVE  \A t \in Producers : at[t] = "loop" /\ program = "solution" /\ ~is_queue_full
           => a + 1 \in 1 .. Q_DEFAULT_SIZE * Cardinality(Producers)
<1> SUFFICES ASSUME NEW t \in Producers, at[t] = "loop", program = "solution", ~is_queue_full
             PROVE  a + 1 \in 1 .. Q_DEFAULT_SIZE * Cardinality(Producers)
  OBVIOUS
<1> DEFINE n == Q_DEFAULT_SIZE
           c == Cardinality(Filled)
           d == Cardinality(Producers)
<1>1. n \in Nat /\ c \in Nat /\ d \in Nat /\ c + 1 <= d
  BY FilledCounts, SizePositive DEF Filled
<1>2. count \in Nat /\ count < n
  BY SizePositive DEF IInv, TypeOK, RingExact, RingTypeOK, is_queue_full
<1>3. a = n * c + count
  BY DEF IInv, NewInts, Filling
<1> HIDE DEF n, c, d
<1>4. n * c \in Nat /\ n * (c + 1) = n * c + n
  BY <1>1, Products
<1>5. n * (c + 1) <= n * d
  BY <1>1, Products
<1>6. n * d \in Nat
  BY <1>1, Products
<1>7. a + 1 \in 1 .. n * d
  BY <1>1, <1>2, <1>3, <1>4, <1>5, <1>6
<1> QED
  BY <1>7 DEF n, d

LEMMA IInvInit == Init => IInv
<1> SUFFICES ASSUME Init PROVE IInv
  OBVIOUS
<1>1. /\ a = 0 /\ at = [t \in Threads |-> "start"] /\ cv = {} /\ count = 0
      /\ program \in {"solution", "assignment"}
  BY DEF Init, InitQ
<1>2. Inside = {} /\ Filled = {} /\ ~Filling
  BY <1>1 DEF Inside, Filled, Filling, Threads
<1>3. Q_DEFAULT_SIZE * Cardinality(Filled) = 0
  BY <1>2, FS_EmptySet, SizePositive
<1>4. Q_DEFAULT_SIZE * Cardinality(Producers) \in Nat
  BY FilledCounts, SizePositive, Products
<1>5. RingExact
  BY RingExactInit DEF Init
<1>6. TypeOK
  BY <1>1, <1>4, <1>5 DEF TypeOK, ThreadPlaces
<1>7. CheckedHolds
  BY <1>1 DEF CheckedHolds
<1> QED
  BY <1>1, <1>2, <1>3, <1>6, <1>7
     DEF IInv, Alone, WholeBatches, NewInts, is_queue_empty

(* What the sets of threads become when one thread goes to another place.   *)
LEMMA AtStep ==
  ASSUME IInv, NEW t \in Threads, NEW p \in ThreadPlaces, at' = [at EXCEPT ![t] = p]
  PROVE  /\ at' \in [Threads -> ThreadPlaces]
         /\ Inside' = IF p \in {"check", "loop"} THEN Inside \cup {t} ELSE Inside \ {t}
         /\ at[t] # "done" => Filled' = IF p = "done" /\ t \in Producers
                                         THEN Filled \cup {t} ELSE Filled
<1>1. at \in [Threads -> ThreadPlaces]
  BY DEF IInv, TypeOK
<1>2. \A u \in Threads : at'[u] = IF u = t THEN p ELSE at[u]
  BY <1>1
<1>3. Inside' = IF p \in {"check", "loop"} THEN Inside \cup {t} ELSE Inside \ {t}
  BY <1>2 DEF Inside
<1>4. ASSUME at[t] # "done"
      PROVE  Filled' = IF p = "done" /\ t \in Producers THEN Filled \cup {t} ELSE Filled
  BY <1>2, <1>4 DEF Filled, Threads
<1> QED
  BY <1>1, <1>3, <1>4

LEMMA IInvEnter ==
  ASSUME IInv, NEW t \in Threads, Enter(t)
  PROVE  IInv'
<1>1. Inside = {} /\ ~Filling /\ (at[t] = "start" \/ at[t] = "wait")
  BY DEF Enter, MutexFree, Inside, Filling, Threads
<1>2. is_queue_empty \/ is_queue_full
  BY <1>1 DEF IInv, WholeBatches
<1>3. /\ RingExact' /\ program' = program /\ a' = a /\ count' = count
      /\ is_queue_empty' = is_queue_empty /\ is_queue_full' = is_queue_full
  BY DEF Enter, IInv, TypeOK, ringVars, RingExact, RingTypeOK, PlaceOf,
         is_queue_empty, is_queue_full
<1>4. PICK p \in {"wait", "check"} :
        /\ at' = [at EXCEPT ![t] = p]
        /\ p = "wait" => cv' = cv \cup {t}
        /\ p = "check" => cv' = cv /\ ~Blocked(t) /\ t \notin cv
  <2>1. at[t] = "start" => t \notin cv
    BY DEF IInv, TypeOK
  <2> QED
    BY <2>1 DEF Enter
<1>5. /\ at' \in [Threads -> ThreadPlaces] /\ Filled' = Filled
      /\ Inside' = IF p = "check" THEN {t} ELSE {}
  BY <1>1, <1>4, AtStep DEF ThreadPlaces
<1>6. \A u \in Threads : at'[u] = IF u = t THEN p ELSE at[u]
  BY <1>4 DEF IInv, TypeOK
<1>7. ~Filling'
  BY <1>1, <1>4, <1>6 DEF Filling, Threads
<1>8. TypeOK'
  <2>1. cv' \subseteq {u \in Threads : at'[u] = "wait"}
    BY <1>4, <1>6 DEF IInv, TypeOK
  <2> QED
    BY <1>3, <1>5, <2>1 DEF IInv, TypeOK
<1>9. Alone' /\ WholeBatches'
  BY <1>2, <1>3, <1>5 DEF Alone, WholeBatches
<1>10. CheckedHolds'
  <2> SUFFICES ASSUME NEW u \in Threads, at'[u] = "check" PROVE Asserted(u)'
    BY DEF CheckedHolds
  <2>1. u = t /\ p = "check"
    BY <1>1, <1>4, <1>6 DEF Inside
  <2>2. ~Blocked(t)
    BY <1>4, <2>1
  <2> QED
    BY <1>2, <1>3, <2>1, <2>2 DEF Blocked, Asserted
<1>11. NewInts'
  BY <1>1, <1>3, <1>5, <1>7 DEF IInv, NewInts
<1> QED
  BY <1>8, <1>9, <1>10, <1>11 DEF IInv

(* A thread inside the mutex is there alone.                               *)
LEMMA InsideAlone ==
  ASSUME IInv, NEW t \in Inside
  PROVE  /\ Inside = {t} /\ t \in Threads
         /\ Filling <=> t \in Producers /\ at[t] = "loop"
         /\ \A u \in Threads : at[u] = "check" => u = t
  BY KindsDisjoint DEF IInv, Alone, Inside, Filling, Threads

LEMMA IInvCheck ==
  ASSUME IInv, NEW t \in Threads, Check(t)
  PROVE  IInv'
<1>1. at[t] = "check" /\ at' = [at EXCEPT ![t] = "loop"] /\ t \in Inside
  BY DEF Check, Inside
<1>2. Inside = {t} /\ ~Filling
  BY <1>1, InsideAlone
<1>3. /\ RingExact' /\ program' = program /\ a' = a /\ count' = count /\ cv' = cv
  BY DEF Check, IInv, TypeOK, ringVars, RingExact, RingTypeOK, PlaceOf
<1>4. at' \in [Threads -> ThreadPlaces] /\ Filled' = Filled /\ Inside' = {t}
  BY <1>1, <1>2, AtStep DEF ThreadPlaces
<1>5. \A u \in Threads : at'[u] = IF u = t THEN "loop" ELSE at[u]
  BY <1>1 DEF IInv, TypeOK
<1>6. TypeOK'
  <2>1. cv' \subseteq {u \in Threads : at'[u] = "wait"}
    BY <1>1, <1>3, <1>5 DEF IInv, TypeOK
  <2> QED
    BY <1>3, <1>4, <2>1 DEF IInv, TypeOK
<1>7. Alone' /\ WholeBatches' /\ CheckedHolds'
  BY <1>2, <1>4, <1>5 DEF Alone, WholeBatches, CheckedHolds, Inside
<1>8. NewInts'
  <2>1. program = "solution" /\ Filling' => count = 0
    <3>1. Filling' => t \in Producers
      BY <1>2, <1>5 DEF Filling, Threads, Inside
    <3> QED
      BY <1>1, <3>1 DEF IInv, CheckedHolds, Asserted, is_queue_empty
  <2>2. program \in {"solution", "assignment"}
    BY DEF IInv, TypeOK
  <2> QED
    BY <1>2, <1>3, <1>4, <2>1, <2>2 DEF IInv, NewInts
<1> QED
  BY <1>6, <1>7, <1>8 DEF IInv

(* A step of the thread inside the mutex that leaves it in its loop.       *)
LEMMA IInvWork ==
  ASSUME IInv, NEW t \in Threads, at[t] = "loop", RingExact',
         UNCHANGED <<program, at, cv>>, NewInts',
         a' \in 0 .. Q_DEFAULT_SIZE * Cardinality(Producers)
  PROVE  IInv'
<1>1. t \in Inside /\ Inside' = Inside
  BY DEF Inside
<1>2. \A u \in Threads : at[u] # "check"
  BY <1>1, InsideAlone
<1> QED
  BY <1>1, <1>2 DEF IInv, TypeOK, Alone, WholeBatches, CheckedHolds

LEMMA IInvProduce ==
  ASSUME IInv, NEW t \in Threads, Produce(t)
  PROVE  IInv'
<1>1. /\ t \in Producers /\ at[t] = "loop" /\ ~is_queue_full
      /\ program' = program /\ at' = at /\ cv' = cv
  BY DEF Produce
<1>2. Filling /\ Filling' /\ Filled' = Filled
  BY <1>1 DEF Filling, Filled
<1>3. /\ RingExact /\ a \in 0 .. Q_DEFAULT_SIZE * Cardinality(Producers)
      /\ count \in Nat /\ Q_DEFAULT_SIZE * Cardinality(Filled) \in Nat
  BY SizePositive, FilledCounts, Products DEF IInv, TypeOK, RingExact, RingTypeOK
<1>4. CASE program = "solution" /\ a' = a + 1 /\ Enqueue(a')
  <2>1. a' \in 1 .. Q_DEFAULT_SIZE * Cardinality(Producers)
    BY <1>1, <1>4, CounterBound
  <2>2. a' \in Items
    BY <2>1, ItemsEnqueued
  <2>3. RingExact' /\ count' = count + 1
    BY <1>1, <1>3, <1>4, <2>2, RingExactEnqueue DEF Enqueue
  <2>4. a = Q_DEFAULT_SIZE * Cardinality(Filled) + count
    BY <1>2, <1>4 DEF IInv, NewInts
  <2>5. NewInts'
    BY <1>1, <1>2, <1>3, <1>4, <2>3, <2>4 DEF NewInts
  <2>6. a' \in 0 .. Q_DEFAULT_SIZE * Cardinality(Producers)
    BY <2>1
  <2> QED
    BY <1>1, <2>3, <2>5, <2>6, IInvWork
<1>5. CASE program = "assignment" /\ a' = a /\ Enqueue(t)
  <2>1. RingExact'
    BY <1>1, <1>3, <1>5, ItemsEnqueued, RingExactEnqueue
  <2>2. NewInts'
    BY <1>1, <1>5 DEF IInv, NewInts
  <2> QED
    BY <1>1, <1>3, <1>5, <2>1, <2>2, IInvWork
<1> QED
  BY <1>4, <1>5 DEF Produce, NewInt

LEMMA IInvConsume ==
  ASSUME IInv, NEW t \in Threads, Consume(t)
  PROVE  IInv'
<1>1. /\ t \in Consumers /\ at[t] = "loop" /\ t \in Inside
      /\ program' = program /\ at' = at /\ cv' = cv /\ a' = a
  BY DEF Consume, Inside
<1>2. ~Filling /\ ~Filling' /\ Filled' = Filled
  BY <1>1, InsideAlone, KindsDisjoint DEF Filling, Filled
<1>3. RingExact'
  BY RingExactDeque DEF Consume, IInv, TypeOK
<1>4. NewInts'
  BY <1>1, <1>2 DEF IInv, NewInts
<1> QED
  BY <1>1, <1>3, <1>4, IInvWork DEF IInv, TypeOK

LEMMA IInvFinish ==
  ASSUME IInv, NEW t \in Threads, Finish(t)
  PROVE  IInv'
<1>1. at[t] = "loop" /\ at' = [at EXCEPT ![t] = "done"] /\ t \in Inside
  BY DEF Finish, Inside
<1>2. /\ Inside = {t}
      /\ Filling <=> t \in Producers
      /\ \A u \in Threads : at[u] # "check"
  BY <1>1, InsideAlone
<1>3. /\ RingExact' /\ program' = program /\ a' = a /\ count' = count
      /\ cv' \subseteq cv
  BY DEF Finish, Wake, IInv, TypeOK, ringVars, RingExact, RingTypeOK, PlaceOf
<1>4. /\ at' \in [Threads -> ThreadPlaces] /\ Inside' = {}
      /\ Filled' = IF t \in Producers THEN Filled \cup {t} ELSE Filled
  <2>1. "done" \in ThreadPlaces /\ at[t] # "done"
    BY <1>1 DEF ThreadPlaces
  <2>2. at' \in [Threads -> ThreadPlaces] /\ Inside' = Inside \ {t}
    BY <1>1, <2>1, AtStep
  <2>3. Filled' = IF t \in Producers THEN Filled \cup {t} ELSE Filled
    BY <1>1, <2>1, AtStep
  <2> QED
    BY <1>2, <2>2, <2>3
<1>5. \A u \in Threads : at'[u] = IF u = t THEN "done" ELSE at[u]
  BY <1>1 DEF IInv, TypeOK
<1>6. TypeOK'
  <2>1. cv' \subseteq {u \in Threads : at'[u] = "wait"}
    BY <1>1, <1>3, <1>5 DEF IInv, TypeOK
  <2> QED
    BY <1>3, <1>4, <2>1 DEF IInv, TypeOK
<1>7. Alone' /\ CheckedHolds'
  BY <1>2, <1>4, <1>5 DEF Alone, CheckedHolds
<1>8. WholeBatches'
  BY <1>3 DEF Finish, WholeBatches, is_queue_empty, is_queue_full
<1>9. NewInts'
  <2>1. ~Filling'
    BY <1>4 DEF Filling, Inside, Threads
  <2>2. CASE t \in Producers /\ program # "assignment"
    <3>1. Cardinality(Filled') = Cardinality(Filled) + 1
      BY <1>1, <1>4, <2>2, FilledCounts DEF Filled
    <3>2. Q_DEFAULT_SIZE * (Cardinality(Filled) + 1)
            = Q_DEFAULT_SIZE * Cardinality(Filled) + Q_DEFAULT_SIZE
      BY FilledCounts, SizePositive, Products
    <3>3. count = Q_DEFAULT_SIZE
      BY <2>2 DEF Finish, is_queue_full
    <3>4. a = Q_DEFAULT_SIZE * Cardinality(Filled) + Q_DEFAULT_SIZE
      BY <1>2, <2>2, <3>3 DEF IInv, NewInts
    <3>5. a' = Q_DEFAULT_SIZE * Cardinality(Filled') + 0
      <4>1. /\ Q_DEFAULT_SIZE * Cardinality(Filled) \in Nat
            /\ Q_DEFAULT_SIZE * (Cardinality(Filled) + 1) \in Nat
        BY FilledCounts, SizePositive, Products
      <4> QED
        BY <1>3, <3>1, <3>2, <3>4, <4>1
    <3> QED
      BY <1>3, <2>1, <2>2, <3>5 DEF NewInts
  <2>3. CASE program = "assignment"
    BY <1>3, <2>3 DEF IInv, NewInts
  <2>4. CASE t \notin Producers
    <3>1. Filled' = Filled /\ ~Filling
      BY <1>2, <1>4, <2>4
    <3> QED
      BY <1>3, <2>1, <3>1 DEF IInv, NewInts
  <2> QED
    BY <2>2, <2>3, <2>4
<1> QED
  BY <1>6, <1>7, <1>8, <1>9 DEF IInv

LEMMA IInvIdle ==
  ASSUME IInv, UNCHANGED <<ringVars, program, a, at>>, cv' \subseteq cv
  PROVE  IInv'
<1>1. /\ RingExact' /\ count' = count /\ Inside' = Inside /\ Filled' = Filled
      /\ Filling' <=> Filling
  BY DEF IInv, TypeOK, ringVars, RingExact, RingTypeOK, PlaceOf, Inside, Filled, Filling
<1>2. TypeOK'
  BY <1>1 DEF IInv, TypeOK
<1>3. Alone' /\ WholeBatches' /\ NewInts'
  BY <1>1 DEF IInv, Alone, WholeBatches, NewInts, is_queue_empty, is_queue_full
<1>4. CheckedHolds'
  BY <1>1 DEF IInv, CheckedHolds, Asserted, is_queue_empty, is_queue_full
<1> QED
  BY <1>2, <1>3, <1>4 DEF IInv

LEMMA IInvStep == IInv /\ [Next]_vars => IInv'
<1> SUFFICES ASSUME IInv, [Next]_vars PROVE IInv'
  OBVIOUS
<1>1. CASE UNCHANGED vars
  BY <1>1, IInvIdle DEF vars
<1>2. ASSUME NEW t \in Threads, SpuriousWakeup(t) PROVE IInv'
  BY <1>2, IInvIdle DEF SpuriousWakeup
<1>3. ASSUME NEW t \in Threads, Run(t) PROVE IInv'
  BY <1>3, IInvEnter, IInvCheck, IInvProduce, IInvConsume, IInvFinish DEF Run
<1> QED
  BY <1>1, <1>2, <1>3 DEF Next

THEOREM Invariant == Spec => []IInv
  BY IInvInit, IInvStep, PTL DEF Spec

(* A producer fills an empty ring and a consumer drains a full one: the     *)
(* assertions of the solution hold for any number of threads, in any order *)
(* and with any thread woken.                                              *)
THEOREM AssertedBatches == Spec => []AssertionsHold
<1>1. IInv => AssertionsHold
  BY DEF IInv, CheckedHolds, AssertionsHold
<1> QED
  BY <1>1, Invariant, PTL

-------------------------------------------------------------------------------
(* The programs call the ring's two operations and touch it nowhere else,  *)
(* and what they enqueue is an item.                                       *)
LEMMA StepOnRing == IInv /\ [Next]_vars => [RingNext]_ringVars
<1> SUFFICES ASSUME IInv, [Next]_vars PROVE RingNext \/ UNCHANGED ringVars
  OBVIOUS
<1>1. ASSUME NEW t \in Threads, Produce(t) PROVE RingNext
  <2>1. CASE program = "solution" /\ a' = a + 1 /\ Enqueue(a')
    <3>1. a' \in 1 .. Q_DEFAULT_SIZE * Cardinality(Producers)
      BY <1>1, <2>1, CounterBound DEF Produce
    <3>2. a' \in Items
      BY <3>1, ItemsEnqueued
    <3> QED
      BY <2>1, <3>2 DEF RingNext
  <2>2. CASE Enqueue(t)
    <3>1. t \in Items
      BY <1>1, ItemsEnqueued DEF Produce
    <3> QED
      BY <2>2, <3>1 DEF RingNext
  <2> QED
    BY <1>1, <2>1, <2>2 DEF Produce, NewInt
<1>2. ASSUME NEW t \in Threads, Consume(t) PROVE RingNext
  BY <1>2 DEF Consume, RingNext
<1>3. ASSUME NEW t \in Threads, Enter(t) \/ Check(t) \/ Finish(t) \/ SpuriousWakeup(t)
      PROVE  UNCHANGED ringVars
  BY <1>3 DEF Enter, Check, Finish, SpuriousWakeup
<1>4. CASE UNCHANGED vars
  BY <1>4 DEF vars
<1> QED
  BY <1>1, <1>2, <1>3, <1>4 DEF Next, Run

(* The integers come out of the ring in the order in which the producers    *)
(* put them in, whatever the threads do.                                   *)
THEOREM ProgramIsFifo == Spec => RingIsFifo
<1>1. Init => InitQ
  BY DEF Init
<1>2. Spec => RingSpec
  BY <1>1, StepOnRing, Invariant, PTL DEF Spec, RingSpec
<1> QED
  BY <1>2, RingImplementsFifo
===============================================================================
