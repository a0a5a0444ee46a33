---------------------------- MODULE LinkedListApi -----------------------------
(***************************************************************************)
(* The singly linked list of the student database, LinkedListApi.c.  A     *)
(* list is a record of its head, its node_count and the memory of its      *)
(* nodes, a function on the addresses that are allocated; an operator is   *)
(* the function of its name and returns the list after the call.  What     *)
(* does not change a list (comparison functions, NULL lists) is left out.  *)
(***************************************************************************)
EXTENDS Integers, Sequences, FiniteSets, SequencesExt

CONSTANT NULL

init_singly_ll == [node_count |-> 0, head |-> NULL, node |-> <<>>]

(* The lowest address stands for whichever calloc returns. *)
Fresh(ll) ==
  LET used == DOMAIN ll.node
  IN  CHOOSE a \in 1..Cardinality(used) + 1 :
        a \notin used /\ \A b \in 1..a - 1 : b \in used

(* The nodes from the head on, as ITERATE_LIST_BEGIN meets them. *)
Reached(ll) ==
  LET reach[k \in 1..Cardinality(DOMAIN ll.node) + 1] ==
        IF k = 1 THEN ll.head
        ELSE IF reach[k - 1] = NULL THEN NULL ELSE ll.node[reach[k - 1]].next
  IN  reach
Nodes(ll) == LET reach == Reached(ll) IN [k \in {k \in DOMAIN reach : reach[k] # NULL} |-> reach[k]]

Elements(ll) == LET nodes == Nodes(ll) IN [k \in DOMAIN nodes |-> ll.node[nodes[k]].data]
Held(ll) == LET nodes == Nodes(ll) IN {ll.node[nodes[k]].data : k \in DOMAIN nodes}

(* The first node that holds data, or NULL; only node_count nodes are      *)
(* looked at.                                                              *)
FirstNode(ll, data) ==
  LET at == SelectInSeq(SubSeq(Nodes(ll), 1, ll.node_count), LAMBDA a : ll.node[a].data = data)
  IN  IF at = 0 THEN NULL ELSE Nodes(ll)[at]

singly_ll_get_node_by_data_ptr(ll, data) == FirstNode(ll, data)

(* The loops that run by the links alone, whatever node_count says *)
LinkedNode(ll, data) ==
  LET at == SelectInSeq(Elements(ll), LAMBDA d : d = data)
  IN  IF at = 0 THEN NULL ELSE Nodes(ll)[at]

(* matches holds <<x, k>> where comparison_fn(x, k) is not 0. *)
singly_ll_search_by_key(ll, key, matches) ==
  LET at == SelectInSeq(Elements(ll), LAMBDA d : <<d, key>> \in matches)
  IN  IF at = 0 THEN NULL ELSE Elements(ll)[at]

(* singly_ll_init_node, and its insertion behind prev, or as the head. *)
InsertNew(ll, prev, data, next) ==
  LET a == Fresh(ll)
      new == [data |-> data, next |-> next]
      with == [ll EXCEPT !.node = [b \in DOMAIN @ \cup {a} |-> IF b = a THEN new ELSE @[b]],
                         !.node_count = @ + 1]
  IN  IF prev = NULL THEN [with EXCEPT !.head = a] ELSE [with EXCEPT !.node[prev].next = a]

singly_ll_add_node(ll, data) == InsertNew(ll, NULL, data, ll.head)

singly_ll_add_node_by_val(ll, data) ==
  IF singly_ll_get_node_by_data_ptr(ll, data) # NULL THEN ll ELSE singly_ll_add_node(ll, data)

Free(ll, a) == [ll EXCEPT !.node = [b \in DOMAIN @ \ {a} |-> @[b]]]
Uncount(ll) == [ll EXCEPT !.node_count = @ - 1]
Before(ll, a) == CHOOSE b \in DOMAIN ll.node : ll.node[b].next = a

(* The node that is freed is the one after it, unless it is the last. *)
singly_ll_delete_node(ll, a) ==
  LET after == ll.node[a].next
  IN  IF after # NULL
      THEN Uncount(Free([ll EXCEPT !.node[a] = ll.node[after]], after))
      ELSE IF ll.node_count = 1 /\ ll.head = a
      THEN Uncount(Free([ll EXCEPT !.head = NULL], a))
      ELSE Uncount(Free([ll EXCEPT !.node[Before(ll, a)].next = NULL], a))

(* Names with "Wrong" are variants of the definition that follows, each    *)
(* with a slip the code might have; no part of the model uses them.        *)
Wrong_remove_node(ll, a) ==   \* keeps the count when the head is removed
  IF ll.head = a THEN [ll EXCEPT !.head = ll.node[a].next, !.node[a].next = NULL]
  ELSE Uncount([ll EXCEPT !.node[Before(ll, a)].next = ll.node[a].next, !.node[a].next = NULL])

(* Takes the node out of the list and leaves it allocated. *)
singly_ll_remove_node(ll, a) ==
  LET out == Uncount([ll EXCEPT !.node[a].next = NULL])
  IN  IF ll.head = a THEN [out EXCEPT !.head = ll.node[a].next]
      ELSE [out EXCEPT !.node[Before(ll, a)].next = ll.node[a].next]

IfFound(ll, a, Op(_, _)) == IF a = NULL THEN ll ELSE Op(ll, a)

(* The values behind the pointers are compared, here as well as the        *)
(* pointers by equality of the data.                                       *)
singly_ll_delete_node_by_value(ll, data) ==
  IfFound(ll, LinkedNode(ll, data), singly_ll_delete_node)
singly_ll_remove_node_by_value(ll, data) ==
  IfFound(ll, LinkedNode(ll, data), singly_ll_remove_node)
singly_ll_remove_node_by_dataptr(ll, data) ==
  IfFound(ll, LinkedNode(ll, data), singly_ll_remove_node)

singly_ll_delete_node_by_data_ptr(ll, data) ==
  IfFound(ll, singly_ll_get_node_by_data_ptr(ll, data),
          LAMBDA l, a : Free(singly_ll_remove_node(l, a), a))

is_singly_ll_empty(ll) == ll.node_count = 0

reverse_singly_ll(ll) ==
  IF ll.node_count <= 1 THEN ll
  ELSE FoldLeft(LAMBDA l, a : [l EXCEPT !.node[a].next = l.head, !.head = a],
                [ll EXCEPT !.node[ll.head].next = NULL], Tail(Nodes(ll)))

delete_singly_ll(ll) ==
  IF is_singly_ll_empty(ll) THEN ll
  ELSE [FoldLeft(Free, ll, Nodes(ll)) EXCEPT !.node_count = 0, !.head = NULL]

copy_singly_ll(src, dst) ==
  FoldLeft(singly_ll_add_node_by_val, delete_singly_ll(dst),
           SelectSeq(Elements(src), LAMBDA d : d # NULL))

union_singly_ll(list1, list2) ==
  FoldLeft(singly_ll_add_node_by_val, init_singly_ll, Elements(list1) \o Elements(list2))

(* less holds <<x, y>> where comparison_fn(x, y) = -1. *)
singly_ll_add_ordered_data(ll, data, less) ==
  LET bigger == SelectInSeq(Elements(ll), LAMBDA d : <<data, d>> \in less)
      place == IF bigger = 0 THEN Len(Nodes(ll)) ELSE bigger - 1
      prev == IF place = 0 THEN NULL ELSE Nodes(ll)[place]
      next == IF bigger = 0 THEN NULL ELSE Nodes(ll)[bigger]
  IN  IF is_singly_ll_empty(ll) THEN singly_ll_add_node_by_val(ll, data)
      ELSE IF ll.node_count = 1
      THEN IF <<ll.node[ll.head].data, data>> \in less
           THEN singly_ll_add_node_by_val(ll, data)
           ELSE InsertNew(ll, ll.head, data, NULL)
      ELSE InsertNew(ll, prev, data, next)

-------------------------------------------------------------------------------
(* The list says of itself what it holds: count, memory and links agree.   *)
Consistent(ll) ==
  /\ ll.node_count = Len(Nodes(ll))
  /\ DOMAIN ll.node = {Nodes(ll)[k] : k \in DOMAIN Nodes(ll)}
  /\ Nodes(ll) # <<>> => ll.node[Last(Nodes(ll))].next = NULL

Holds(ll, s) == Consistent(ll) /\ Elements(ll) = s

(* A removed node stays behind in memory; without it the list is as told.  *)
HoldsBeside(ll, a, s) == a \in DOMAIN ll.node /\ Holds(Free(ll, a), s)

Build(s) == FoldRight(LAMBDA d, l : singly_ll_add_node(l, d), s, init_singly_ll)
Lists(Data, n) == UNION {[1..k -> Data] : k \in 0..n}
FirstOf(s, d) == SelectInSeq(s, LAMBDA x : x = d)
Descending(s, less) == \A i, j \in DOMAIN s : i < j => <<s[i], s[j]>> \notin less
Ascending(s, less) == \A i, j \in DOMAIN s : i < j => <<s[j], s[i]>> \notin less
Put(d, s) == IF FirstOf(s, d) # 0 THEN s ELSE <<d>> \o s

(* Every operation has the effect on the sequence of elements that its     *)
(* name says, frees each node once and no other, and keeps the count which *)
(* the loops run by.  Two of them surprise: a copy holds every element     *)
(* once and in reverse order, as does the union; and the ordered insertion *)
(* puts the second element of a list on the wrong side of the first, after *)
(* which a longer list that ascends is kept ascending.                     *)
OperatesOnLists(Data, n, less) ==
  \A s \in Lists(Data, n) :
    LET ll == Build(s)
    IN  /\ Holds(ll, s)
        /\ Holds(reverse_singly_ll(ll), Reverse(s))
        /\ Holds(delete_singly_ll(ll), <<>>)
        /\ Holds(copy_singly_ll(ll, ll), FoldLeft(LAMBDA t, d : Put(d, t), <<>>, s))
        /\ \A k \in DOMAIN s :
             /\ Holds(singly_ll_delete_node(ll, Nodes(ll)[k]), RemoveAt(s, k))
             /\ HoldsBeside(singly_ll_remove_node(ll, Nodes(ll)[k]), Nodes(ll)[k], RemoveAt(s, k))
        /\ \A d \in Data :
             LET i == FirstOf(s, d)
             IN  /\ Holds(singly_ll_add_node_by_val(ll, d), Put(d, s))
                 /\ Holds(singly_ll_delete_node_by_data_ptr(ll, d), IF i = 0 THEN s ELSE RemoveAt(s, i))
                 /\ Holds(singly_ll_delete_node_by_value(ll, d), IF i = 0 THEN s ELSE RemoveAt(s, i))
                 /\ i # 0 => HoldsBeside(singly_ll_remove_node_by_dataptr(ll, d), Nodes(ll)[i], RemoveAt(s, i))
                 /\ LET smaller == SelectSeq(s, LAMBDA x : <<x, d>> \in less)
                    IN  singly_ll_search_by_key(ll, d, less)
                          = IF smaller = <<>> THEN NULL ELSE Head(smaller)
                 /\ Holds(union_singly_ll(ll, Build(<<d>>)), 
                          Put(d, FoldLeft(LAMBDA t, e : Put(e, t), <<>>, s)))
                 /\ LET t == singly_ll_add_ordered_data(ll, d, less)
                    IN  /\ Consistent(t)
                        /\ Len(s) = 1 => Descending(Elements(t), less)
                        /\ (Len(s) # 1 /\ Ascending(s, less)) => Ascending(Elements(t), less)
===============================================================================
