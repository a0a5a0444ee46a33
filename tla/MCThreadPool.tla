----------------------------- MODULE MCThreadPool -----------------------------
(* ThreadPool with the four dispatches of main in thread_pool_app.c.       *)
EXTENDS ThreadPool
AppBlocking == <<FALSE, TRUE, TRUE, TRUE>>

(* The singly linked list of the student database, which Crud uses too.    *)
LL == INSTANCE LinkedListApi WITH NULL <- 0

(* The lists of both libraries are sequences under every operation of      *)
(* glthread.c and of LinkedListApi.c, also those that neither the pool nor *)
(* the student database calls; the elements are numbers in their order.    *)
(* It says nothing of a state and is evaluated once, in the initial one.   *)
ListsAreSequences ==
  PoolInit => /\ OperatesOnSequences(1..4, 0, {p \in (1..4) \X (1..4) : p[1] < p[2]})
              /\ LL!OperatesOnLists(1..3, 3, {p \in (1..3) \X (1..3) : p[1] < p[2]})
===============================================================================
