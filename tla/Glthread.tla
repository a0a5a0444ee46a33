------------------------------- MODULE Glthread -------------------------------
(***************************************************************************)
(* The intrusive doubly linked list of PART B, gluethread/glthread.c (the  *)
(* programs have equal copies).  An operator stands for the function of    *)
(* its name: g is the memory before the call, the two pointers of every    *)
(* glthread_t, and the value is the memory after it.  A list is known by   *)
(* its head, a glthread_t that is no element of it.                        *)
(***************************************************************************)
EXTENDS Integers, Sequences, FiniteSets, SequencesExt

CONSTANT NULL

Unlinked == [left |-> NULL, right |-> NULL]

init_glthread(g, n) == [g EXCEPT ![n] = Unlinked]

IS_GLTHREAD_LIST_EMPTY(g, n) == g[n] = Unlinked

(* ITERATE_GLTHREAD_BEGIN: what lies right of the head, up to a NULL.      *)
Reached(g, head) ==
  LET right[k \in 0..Cardinality(DOMAIN g)] ==
        IF k = 0 THEN head
        ELSE IF right[k - 1] = NULL THEN NULL ELSE g[right[k - 1]].right
  IN  right
Listed(g, head) ==
  LET right == Reached(g, head)
  IN  [k \in {k \in DOMAIN right : k > 0 /\ right[k] # NULL} |-> right[k]]

glthread_add_next(g, curr, new) ==
  LET temp == g[curr].right
  IN  IF temp = NULL
      THEN [g EXCEPT ![curr].right = new, ![new].left = curr]
      ELSE [g EXCEPT ![curr].right = new,
                     ![new] = [left |-> curr, right |-> temp],
                     ![temp].left = new]

glthread_add_before(g, curr, new) ==
  LET temp == g[curr].left
      placed == [g EXCEPT ![new] = [left |-> temp, right |-> curr], ![curr].left = new]
  IN  IF temp = NULL THEN placed ELSE [placed EXCEPT ![temp].right = new]

(* Names with "Wrong" are variants of the definition that follows, each    *)
(* with a slip the code might have; no part of the model uses them.        *)
Wrong_remove(g, curr) ==   \* keeps the pointers of what it removes
  LET l == g[curr].left  r == g[curr].right
  IN  IF r = NULL THEN [g EXCEPT ![l].right = NULL]
      ELSE [g EXCEPT ![l].right = r, ![r].left = l]

remove_glthread(g, curr) ==
  LET l == g[curr].left
      r == g[curr].right
  IN  CASE l = NULL /\ r = NULL -> g
        [] l = NULL /\ r # NULL -> [g EXCEPT ![r].left = NULL, ![curr].right = NULL]
        [] l # NULL /\ r = NULL -> [g EXCEPT ![l].right = NULL, ![curr].left = NULL]
        [] OTHER -> [g EXCEPT ![l].right = r, ![r].left = l, ![curr] = Unlinked]

(* The loop keeps the next element before it removes one. *)
delete_glthread_list(g, head) == FoldLeft(remove_glthread, g, Listed(g, head))

glthread_add_last(g, head, new) ==
  LET s == Listed(g, head)
  IN  glthread_add_next(g, IF s = <<>> THEN head ELSE s[Len(s)], new)

get_glthread_list_count(g, head) == Len(Listed(g, head))

(* before holds <<x, y>> where comp_fn(x, y) = -1. *)
glthread_priority_insert(g, head, new, before) ==
  LET clean == init_glthread(g, new)
      s == Listed(clean, head)
      passed == SelectInSeq(s, LAMBDA x : <<new, x>> \in before)
      last == IF passed = 0 THEN Len(s) ELSE passed - 1
  IN  glthread_add_next(clean, IF last = 0 THEN head ELSE s[last], new)

glthread_get_first_node(g, head) == g[head].right

(* The memory after it; what it returns is the first node before it. *)
dequeue_glthread_first(g, head) ==
  LET first == glthread_get_first_node(g, head)
  IN  IF first = NULL THEN g ELSE remove_glthread(g, first)

-------------------------------------------------------------------------------
(* The memory in which head lists s and all other nodes are unlinked.      *)
Chain(nodes, head, s) ==
  LET places == <<head>> \o s
      At(i) == IF i \in DOMAIN places THEN places[i] ELSE NULL
      link(n) == LET i == CHOOSE i \in DOMAIN places : places[i] = n
                 IN  [left |-> At(i - 1), right |-> At(i + 1)]
  IN  [n \in nodes \cup {head} |->
         IF n \in {places[i] : i \in DOMAIN places} THEN link(n) ELSE Unlinked]

Members(s) == {s[i] : i \in DOMAIN s}
Distinct(nodes) == UNION {{s \in [1..k -> nodes] : Cardinality(Members(s)) = k} : k \in 0..Cardinality(nodes)}
Ascending(s, before) == \A i, j \in DOMAIN s : i < j => <<s[j], s[i]>> \notin before

(* On any list of distinct nodes each operation has the effect of the      *)
(* operation on sequences it is named for, leaves both directions of the   *)
(* links in agreement, and unlinks completely what it takes out (which the *)
(* thread pool asserts before it inserts a worker again).                  *)
OperatesOnSequences(nodes, head, before) ==
  \A s \in Distinct(nodes) :
    LET C(t) == Chain(nodes, head, t)
        g == C(s)
        others == nodes \ Members(s)
    IN  /\ Listed(g, head) = s
        /\ get_glthread_list_count(g, head) = Cardinality(Members(s))
        /\ delete_glthread_list(g, head) = C(<<>>)
        /\ dequeue_glthread_first(g, head) = C(IF s = <<>> THEN s ELSE Tail(s))
        /\ \A i \in DOMAIN s : remove_glthread(g, s[i]) = C(RemoveAt(s, i))
        /\ \A n \in others :
             /\ glthread_add_last(g, head, n) = C(Append(s, n))
             /\ glthread_add_next(g, head, n) = C(<<n>> \o s)
             /\ \A i \in DOMAIN s :
                  /\ glthread_add_next(g, s[i], n) = C(InsertAt(s, i + 1, n))
                  /\ glthread_add_before(g, s[i], n) = C(InsertAt(s, i, n))
             /\ Ascending(s, before) =>
                  LET t == Listed(glthread_priority_insert(g, head, n, before), head)
                  IN  /\ glthread_priority_insert(g, head, n, before) = C(t)
                      /\ Ascending(t, before)
                      /\ SelectSeq(t, LAMBDA x : x # n) = s
===============================================================================
