-------------------------- MODULE MCProducerConsumer ---------------------------
(* ProducerConsumer with the integers of new_int and the threads' numbers  *)
(* as the pointers in the queue.                                           *)
EXTENDS ProducerConsumer
MCItems == Producers \cup 1 .. Q_DEFAULT_SIZE * Cardinality(Producers)
===============================================================================
