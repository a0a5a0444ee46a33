-------------------------------- MODULE Queue ---------------------------------
(***************************************************************************)
(* PART A's queue of pointers, ProducerConsumer/Queue.c: a ring of         *)
(* Q_DEFAULT_SIZE places.  front and rear name the same place both when    *)
(* the queue holds one element and when it holds none.                     *)
(***************************************************************************)
EXTENDS Integers, Sequences

CONSTANTS Q_DEFAULT_SIZE,
          Items,    \* the pointers enqueued
          NULL      \* the null pointer

ASSUME SizePositive == Q_DEFAULT_SIZE \in Nat \ {0}
ASSUME NullIsNoItem == NULL \notin Items

VARIABLES elem, front, rear, count

ringVars == <<elem, front, rear, count>>

Places == 0 .. Q_DEFAULT_SIZE - 1

RingTypeOK ==
  /\ elem \in [Places -> Items \cup {NULL}]
  /\ front \in Places /\ rear \in Places
  /\ count \in 0 .. Q_DEFAULT_SIZE

-------------------------------------------------------------------------------
(* initQ *)
InitQ ==
  /\ elem = [i \in Places |-> NULL]
  /\ front = 0 /\ rear = 0
  /\ count = 0

is_queue_empty == count = 0
is_queue_full == count = Q_DEFAULT_SIZE

(* The place after i, as enqueue and deque go round the ring. *)
Following(i) == IF i = Q_DEFAULT_SIZE - 1 THEN 0 ELSE i + 1

(* Names with "Wrong" are variants of the definition that follows, each    *)
(* with a slip the code might have; no part of the model uses them.        *)
WrongEnqueue(x) ==   \* moves rear in an empty queue too
  IF is_queue_full THEN UNCHANGED ringVars
  ELSE /\ rear' = Following(rear)
       /\ elem' = [elem EXCEPT ![rear'] = x]
       /\ count' = count + 1
       /\ UNCHANGED front

(* A full queue is left alone, and an empty one keeps its rear.  No caller *)
(* passes NULL, which enqueue refuses.                                     *)
Enqueue(x) ==
  IF is_queue_full THEN UNCHANGED ringVars
  ELSE /\ rear' = IF is_queue_empty THEN rear ELSE Following(rear)
       /\ elem' = [elem EXCEPT ![IF is_queue_empty THEN front ELSE rear'] = x]
       /\ count' = count + 1
       /\ UNCHANGED front

(* The element dequeued is elem[front]; the last one leaves front behind. *)
Deque ==
  IF is_queue_empty THEN UNCHANGED ringVars
  ELSE /\ elem' = [elem EXCEPT ![front] = NULL]
       /\ count' = count - 1
       /\ front' = IF front = rear THEN front ELSE Following(front)
       /\ UNCHANGED rear

(* The queue under any caller. *)
RingNext == (\E x \in Items : Enqueue(x)) \/ Deque
RingSpec == InitQ /\ [][RingNext]_ringVars

-------------------------------------------------------------------------------
(* The i-th place from front, for i in 0 .. count - 1. *)
PlaceOf(i) == IF front + i < Q_DEFAULT_SIZE THEN front + i ELSE front + i - Q_DEFAULT_SIZE

(* rear is the place of the last element; in an empty queue it is front,   *)
(* which enqueue relies on when it leaves rear alone.                      *)
RingExact ==
  /\ RingTypeOK
  /\ rear = IF count = 0 THEN front ELSE PlaceOf(count - 1)

Contents == [i \in 1 .. count |-> elem[PlaceOf(i - 1)]]

(* The ring is a queue of at most Q_DEFAULT_SIZE elements: they come out   *)
(* in the order in which they went in, none twice and none lost, wherever  *)
(* the ring has got to.                                                    *)
Fifo == INSTANCE BoundedFifo WITH items <- Contents, Size <- Q_DEFAULT_SIZE
RingIsFifo == Fifo!Spec
===============================================================================
