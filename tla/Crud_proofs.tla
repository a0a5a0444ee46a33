------------------------------ MODULE Crud_proofs ------------------------------
(***************************************************************************)
(* Proofs about the student database, for any number of threads of each    *)
(* role, of students and of roll numbers.  The first half is about the     *)
(* memory of the list: it is a chain of nodes, and LinkedListApi's         *)
(* insertion and deletion keep it one, however long it is.  The second     *)
(* half proves the inductive invariant IInv and what follows from it.      *)
(***************************************************************************)
EXTENDS Crud, Sequences, FiniteSetTheorems, WellFoundedInduction, TLAPS

-------------------------------------------------------------------------------
(* A set of numbers has a least one. *)
LEMMA Least ==
  ASSUME NEW S \in SUBSET Nat, S # {}
  PROVE  \E m \in S : \A k \in S : m <= k
<1>1. PICK m \in S : \A k \in S : <<k, m>> \notin OpToRel(<, Nat)
  BY NatLessThanWellFounded, WFMin
<1>2. \A k \in S : ~(k < m)
  BY <1>1 DEF OpToRel
<1> QED
  BY <1>2

(* The instance of LinkedListApi counts as this module does. *)
LEMMA SameCardinality == \A S : LL!Cardinality(S) = Cardinality(S)
  BY DEF LL!Cardinality, Cardinality

(* The recursion along next has one solution. *)
IsWalk(ll, f) ==
  f = [k \in 1 .. Cardinality(DOMAIN ll.node) + 1 |->
         IF k = 1 THEN ll.head
         ELSE IF f[k - 1] = None THEN None ELSE ll.node[f[k - 1]].next]

LEMMA ReachedIs == ASSUME NEW ll PROVE LL!Reached(ll) = CHOOSE f : IsWalk(ll, f)
  BY SameCardinality DEF LL!Reached, IsWalk

(* The first k nodes of a walk are determined, one step after the other. *)
LEMMA StepsOfWalk ==
  ASSUME NEW ll, NEW n \in Nat \ {0}, n = Cardinality(DOMAIN ll.node) + 1, NEW f, IsWalk(ll, f)
  PROVE  /\ f = [k \in 1..n |-> f[k]]
         /\ f[1] = ll.head
         /\ \A k \in 2..n : f[k] = IF f[k - 1] = None THEN None ELSE ll.node[f[k - 1]].next
<1> DEFINE next(k) == IF k = 1 THEN ll.head
                      ELSE IF f[k - 1] = None THEN None ELSE ll.node[f[k - 1]].next
<1>1. f = [k \in 1..n |-> next(k)]
  BY DEF IsWalk
<1>2. 1 \in 1..n /\ \A k \in 2..n : k \in 1..n /\ k # 1
  OBVIOUS
<1>3. f[1] = next(1) /\ \A k \in 2..n : f[k] = next(k)
  BY <1>1, <1>2
<1>4. f = [k \in 1..n |-> f[k]]
  BY <1>1
<1> QED
  BY <1>2, <1>3, <1>4

LEMMA OneWalk ==
  ASSUME NEW ll, Cardinality(DOMAIN ll.node) \in Nat, NEW f, IsWalk(ll, f), NEW g, IsWalk(ll, g)
  PROVE  f = g
<1>1. PICK n \in Nat \ {0} : n = Cardinality(DOMAIN ll.node) + 1
  OBVIOUS
<1>2. /\ f = [k \in 1..n |-> f[k]] /\ f[1] = ll.head
      /\ \A k \in 2..n : f[k] = IF f[k - 1] = None THEN None ELSE ll.node[f[k - 1]].next
  BY <1>1, StepsOfWalk
<1>3. /\ g = [k \in 1..n |-> g[k]] /\ g[1] = ll.head
      /\ \A k \in 2..n : g[k] = IF g[k - 1] = None THEN None ELSE ll.node[g[k - 1]].next
  BY <1>1, StepsOfWalk
<1>4. ASSUME NEW j \in 1..n, f[j] # g[j] PROVE FALSE
  <2> DEFINE Differ == {k \in 1..n : f[k] # g[k]}
  <2>1. Differ \in SUBSET Nat /\ j \in Differ
    BY <1>4
  <2>2. PICK k \in Differ : \A i \in Differ : k <= i
    BY <2>1, Least
  <2>3. k \in 2..n /\ k - 1 \in 1..n /\ k - 1 \notin Differ
    BY <1>2, <1>3, <2>2
  <2>4. f[k] = g[k]
    BY <1>2, <1>3, <2>1, <2>3
  <2> QED
    BY <2>2, <2>4
<1> QED
  BY <1>2, <1>3, <1>4

LEMMA WalkIsReached ==
  ASSUME NEW ll, Cardinality(DOMAIN ll.node) \in Nat, NEW f, IsWalk(ll, f)
  PROVE  LL!Reached(ll) = f
<1>1. IsWalk(ll, CHOOSE g : IsWalk(ll, g))
  OBVIOUS
<1> QED
  BY <1>1, OneWalk, ReachedIs

-------------------------------------------------------------------------------
(* The nodes of the list ll are D, s is their order from the head to the   *)
(* end, n their number, and no student has two nodes.                      *)
Links == Nat \cup {None}
ListRecord(D) == [node_count : Nat, head : Links, node : [D -> [data : Students, next : Links]]]
Chain(ll, D, n, s) ==
  /\ n \in Nat /\ D \in SUBSET Nat
  /\ ll \in ListRecord(D) /\ ll.node_count = n
  /\ s \in [1..n -> D]
  /\ \A i, j \in 1..n : s[i] = s[j] => i = j
  /\ \A a \in D : \E k \in 1..n : s[k] = a
  /\ ll.head = IF n = 0 THEN None ELSE s[1]
  /\ \A k \in 1..n : ll.node[s[k]].next = IF k = n THEN None ELSE s[k + 1]
  /\ \A a, b \in D : ll.node[a].data = ll.node[b].data => a = b

(* What a chain counts, meets and holds. *)
LEMMA ChainCounts ==
  ASSUME NEW ll, NEW D, NEW n, NEW s, Chain(ll, D, n, s)
  PROVE  /\ DOMAIN ll.node = D /\ IsFiniteSet(D) /\ Cardinality(D) = n
         /\ n \in Nat /\ D \in SUBSET Nat /\ ll.node \in [D -> [data : Students, next : Links]]
<1>1. /\ n \in Nat /\ D \in SUBSET Nat /\ ll.node \in [D -> [data : Students, next : Links]]
      /\ s \in [1..n -> D]
      /\ \A i, j \in 1..n : s[i] = s[j] => i = j
      /\ \A a \in D : \E k \in 1..n : s[k] = a
  BY DEF Chain, ListRecord
<1>2. s \in Bijection(1..n, D)
  BY <1>1 DEF Bijection, Injection, Surjection, IsInjective
<1>3. ExistsBijection(1..n, D)
  BY <1>2 DEF ExistsBijection
<1>4. IsFiniteSet(D) /\ Cardinality(D) = n
  BY <1>1, <1>3, FS_CountingElements, FS_NatBijection
<1> QED
  BY <1>1, <1>4

LEMMA ChainNodes ==
  ASSUME NEW ll, NEW D, NEW n, NEW s, Chain(ll, D, n, s)
  PROVE  LL!Nodes(ll) = s
<1> DEFINE f == [k \in 1 .. n + 1 |-> IF k <= n THEN s[k] ELSE None]
<1>1. /\ n \in Nat /\ D \in SUBSET Nat
      /\ s \in [1..n -> D]
      /\ ll.head = IF n = 0 THEN None ELSE s[1]
      /\ \A k \in 1..n : ll.node[s[k]].next = IF k = n THEN None ELSE s[k + 1]
  BY DEF Chain
<1>2. DOMAIN ll.node = D /\ Cardinality(D) = n
  BY ChainCounts
<1>3. \A k \in 1..n : s[k] # None
  BY <1>1, NoneIsNothing
<1>4. ASSUME NEW k \in 1 .. n + 1
      PROVE  f[k] = IF k = 1 THEN ll.head ELSE IF f[k - 1] = None THEN None ELSE ll.node[f[k - 1]].next
  <2>1. CASE k = 1
    BY <1>1, <2>1
  <2>2. CASE k # 1
    <3>1. k - 1 \in 1..n /\ f[k - 1] = s[k - 1] /\ f[k - 1] # None /\ k - 1 + 1 = k
      BY <1>1, <1>3, <2>2
    <3>2. ll.node[f[k - 1]].next = IF k - 1 = n THEN None ELSE s[k]
      BY <1>1, <3>1
    <3> QED
      BY <1>1, <2>2, <3>1, <3>2
  <2> QED
    BY <2>1, <2>2
<1>5. IsWalk(ll, f)
  BY <1>2, <1>4 DEF IsWalk
<1>6. LL!Reached(ll) = f
  BY <1>1, <1>2, <1>5, WalkIsReached
<1>7. {k \in DOMAIN f : f[k] # None} = 1..n
  BY <1>1, <1>3
<1>8. [k \in 1..n |-> f[k]] = s
  BY <1>1
<1> QED
  BY <1>6, <1>7, <1>8 DEF LL!Nodes

LEMMA ChainHeld ==
  ASSUME NEW ll, NEW D, NEW n, NEW s, Chain(ll, D, n, s)
  PROVE  /\ LL!Held(ll) = {ll.node[a].data : a \in D}
         /\ LL!Held(ll) \subseteq Students
<1>1. /\ s \in [1..n -> D] /\ \A a \in D : \E k \in 1..n : s[k] = a
      /\ ll.node \in [D -> [data : Students, next : Links]]
  BY DEF Chain, ListRecord
<1>2. LL!Nodes(ll) = s /\ DOMAIN s = 1..n
  BY <1>1, ChainNodes
<1>3. LL!Held(ll) = {ll.node[s[k]].data : k \in DOMAIN s}
  BY <1>2 DEF LL!Held
<1> QED
  BY <1>1, <1>2, <1>3

LEMMA ChainConsistent ==
  ASSUME NEW ll, NEW D, NEW n, NEW s, Chain(ll, D, n, s)
  PROVE  LL!Consistent(ll)
<1>1. /\ n \in Nat /\ s \in [1..n -> D] /\ \A a \in D : \E k \in 1..n : s[k] = a
      /\ ll.node_count = n
      /\ \A k \in 1..n : ll.node[s[k]].next = IF k = n THEN None ELSE s[k + 1]
  BY DEF Chain
<1>2. Len(s) = n /\ LL!Nodes(ll) = s /\ DOMAIN ll.node = D
  BY <1>1, ChainNodes, ChainCounts
<1>3. D = {s[k] : k \in DOMAIN s}
  BY <1>1
<1>4. s # <<>> => ll.node[s[n]].next = None
  <2>1. s # <<>> => n \in 1..n
    BY <1>1
  <2> QED
    BY <1>1, <2>1
<1> QED
  BY <1>1, <1>2, <1>3, <1>4 DEF LL!Consistent, LL!Last

(* A student is found at its node, and not found if it is not in the list. *)
LEMMA ChainFirst ==
  ASSUME NEW ll, NEW D, NEW n, NEW s, Chain(ll, D, n, s), NEW d
  PROVE  /\ d \notin LL!Held(ll) => LL!FirstNode(ll, d) = None
         /\ \A a \in D : ll.node[a].data = d => LL!FirstNode(ll, d) = a
<1>1. /\ n \in Nat /\ s \in [1..n -> D] /\ \A a \in D : \E k \in 1..n : s[k] = a
      /\ ll.node_count = n
      /\ \A a, b \in D : ll.node[a].data = ll.node[b].data => a = b
      /\ \A i, j \in 1..n : s[i] = s[j] => i = j
  BY DEF Chain
<1>2. SubSeq(s, 1, n) = s /\ Len(s) = n /\ LL!Nodes(ll) = s
  BY <1>1, ChainNodes
<1> DEFINE At == {i \in 1..n : ll.node[s[i]].data = d}
       q == SubSeq(LL!Nodes(ll), 1, ll.node_count)
       Found0 == {i \in 1..Len(q) : ll.node[q[i]].data = d}
<1>7. LL!FirstNode(ll, d) = LET pos == IF Found0 # {} THEN LL!Min(Found0) ELSE 0
                            IN  IF pos = 0 THEN None ELSE LL!Nodes(ll)[pos]
  BY DEF LL!FirstNode, LL!SelectInSeq
<1>8. Found0 = At
  BY <1>1, <1>2
<1> HIDE DEF Found0, At, q
<1>3. LL!FirstNode(ll, d) = LET pos == IF At # {} THEN LL!Min(At) ELSE 0
                            IN  IF pos = 0 THEN None ELSE s[pos]
  BY <1>2, <1>7, <1>8
<1> USE DEF At
<1>4. ASSUME d \notin LL!Held(ll) PROVE At = {}
  BY <1>1, <1>4, ChainHeld
<1>5. ASSUME NEW a \in D, ll.node[a].data = d PROVE \E k \in 1..n : s[k] = a /\ At = {k}
  BY <1>1, <1>5
<1>6. ASSUME NEW k \in 1..n PROVE LL!Min({k}) = k
  BY <1>6 DEF LL!Min
<1> QED
  BY <1>1, <1>3, <1>4, <1>5, <1>6

(* The address of a new node is not in use. *)
LEMMA FreshIsNew ==
  ASSUME NEW ll, NEW D, NEW n, NEW s, Chain(ll, D, n, s)
  PROVE  LL!Fresh(ll) \in Nat \ D
<1>1. DOMAIN ll.node = D /\ IsFiniteSet(D) /\ Cardinality(D) = n /\ n \in Nat
  BY ChainCounts
<1> DEFINE Free == (1 .. n + 1) \ D
<1>2. Free # {}
  <2>1. ASSUME 1 .. n + 1 \subseteq D PROVE FALSE
    <3>1. Cardinality(1 .. n + 1) <= n
      BY <1>1, <2>1, FS_Subset
    <3>2. Cardinality(1 .. n + 1) = n + 1
      BY <1>1, FS_Interval
    <3> QED
      BY <1>1, <3>1, <3>2
  <2> QED
    BY <2>1
<1>7. Free \in SUBSET Nat
  BY <1>1
<1>3. PICK m \in Free : \A k \in Free : m <= k
  BY <1>2, <1>7, Least
<1>4. \A b \in 1 .. m - 1 : b \in D
  BY <1>1, <1>3
<1>5. \E a \in 1 .. n + 1 : a \notin D /\ \A b \in 1 .. a - 1 : b \in D
  BY <1>3, <1>4
<1>6. LL!Fresh(ll) = CHOOSE a \in 1 .. n + 1 : a \notin D /\ \A b \in 1 .. a - 1 : b \in D
  BY <1>1, SameCardinality DEF LL!Fresh
<1> QED
  BY <1>1, <1>5, <1>6

LEMMA InitChain == Chain(LL!init_singly_ll, {}, 0, <<>>)
<1>1. <<>> \in [{} -> [data : Students, next : Links]] /\ <<>> \in [1..0 -> {}]
  OBVIOUS
<1> QED
  BY <1>1 DEF Chain, LL!init_singly_ll, ListRecord, Links

(* The insertion puts a student that is not in the list at its head. *)
LEMMA AddFields ==
  ASSUME NEW ll, NEW D, NEW n, NEW s, Chain(ll, D, n, s), NEW d \in Students \ LL!Held(ll),
         NEW a, a = LL!Fresh(ll), NEW r, r = LL!singly_ll_add_node_by_val(ll, d)
  PROVE  /\ r \in ListRecord(D \cup {a}) /\ r.node_count = n + 1 /\ r.head = a
         /\ r.node[a] = [data |-> d, next |-> ll.head]
         /\ \A b \in D : r.node[b] = ll.node[b]
<1>1. /\ ll \in ListRecord(D) /\ ll.node_count = n /\ n \in Nat
  BY DEF Chain
<1>2. /\ DOMAIN ll.node = D /\ ll.node \in [D -> [data : Students, next : Links]] /\ ll.head \in Links
      /\ ll = [node_count |-> n, head |-> ll.head, node |-> ll.node]
  BY <1>1 DEF ListRecord
<1>3. a \in Nat \ D
  BY FreshIsNew
<1> DEFINE new == [data |-> d, next |-> ll.head]
           node == [b \in D \cup {a} |-> IF b = a THEN new ELSE ll.node[b]]
<1>4. r = LL!InsertNew(ll, None, d, ll.head)
  BY ChainFirst DEF LL!singly_ll_add_node_by_val, LL!singly_ll_get_node_by_data_ptr, LL!singly_ll_add_node
<1>5. r = [[ll EXCEPT !.node = node, !.node_count = n + 1] EXCEPT !.head = a]
  BY <1>1, <1>2, <1>4 DEF LL!InsertNew
<1>6. r = [node_count |-> n + 1, head |-> a, node |-> node]
  BY <1>2, <1>5
<1>7. new \in [data : Students, next : Links]
  BY <1>2
<1>8. node \in [D \cup {a} -> [data : Students, next : Links]]
  BY <1>2, <1>7
<1>9. n + 1 \in Nat /\ a \in Links
  BY <1>1, <1>3 DEF Links
<1>10. node[a] = new /\ \A b \in D : node[b] = ll.node[b]
  BY <1>3
<1> HIDE DEF node, new
<1>11. r.node = node /\ r.node_count = n + 1 /\ r.head = a
  BY <1>6
<1>12. r \in ListRecord(D \cup {a})
  BY <1>6, <1>8, <1>9 DEF ListRecord
<1> QED
  BY <1>10, <1>11, <1>12 DEF new

LEMMA AddChain ==
  ASSUME NEW ll, NEW D, NEW n, NEW s, Chain(ll, D, n, s), NEW d \in Students \ LL!Held(ll)
  PROVE  LET r == LL!singly_ll_add_node_by_val(ll, d)
         IN  /\ \E E, m, q : Chain(r, E, m, q)
             /\ LL!Held(r) = LL!Held(ll) \cup {d}
<1>1. PICK a : a = LL!Fresh(ll)
  OBVIOUS
<1>2. PICK r : r = LL!singly_ll_add_node_by_val(ll, d)
  OBVIOUS
<1>3. /\ r \in ListRecord(D \cup {a}) /\ r.node_count = n + 1 /\ r.head = a
      /\ r.node[a] = [data |-> d, next |-> ll.head]
      /\ \A b \in D : r.node[b] = ll.node[b]
  BY <1>1, <1>2, AddFields
<1>4. /\ n \in Nat /\ D \in SUBSET Nat
      /\ s \in [1..n -> D]
      /\ \A i, j \in 1..n : s[i] = s[j] => i = j
      /\ \A b \in D : \E k \in 1..n : s[k] = b
      /\ ll.head = IF n = 0 THEN None ELSE s[1]
      /\ \A k \in 1..n : ll.node[s[k]].next = IF k = n THEN None ELSE s[k + 1]
      /\ \A b, c \in D : ll.node[b].data = ll.node[c].data => b = c
  BY DEF Chain
<1>5. a \in Nat \ D
  BY <1>1, FreshIsNew
<1>6. \A b \in D : ll.node[b].data # d
  BY ChainHeld
<1> DEFINE q == [k \in 1 .. n + 1 |-> IF k = 1 THEN a ELSE s[k - 1]]
<1>7. /\ q[1] = a /\ \A k \in 1..n : q[k + 1] = s[k]
      /\ \A k \in 2 .. n + 1 : k - 1 \in 1..n /\ q[k] = s[k - 1] /\ q[k] \in D
      /\ q \in [1 .. n + 1 -> D \cup {a}]
  BY <1>4
<1> HIDE DEF q
<1>8. \A i, j \in 1 .. n + 1 : q[i] = q[j] => i = j
  <2> SUFFICES ASSUME NEW i \in 1 .. n + 1, NEW j \in 1 .. n + 1, q[i] = q[j] PROVE i = j
    OBVIOUS
  <2>1. CASE i = 1 \/ j = 1
    BY <1>4, <1>5, <1>7, <2>1
  <2>2. CASE i # 1 /\ j # 1
    <3>1. i - 1 \in 1..n /\ j - 1 \in 1..n /\ s[i - 1] = s[j - 1]
      BY <1>4, <1>7, <2>2
    <3> QED
      BY <1>4, <3>1
  <2> QED
    BY <2>1, <2>2
<1>9. \A b \in D \cup {a} : \E k \in 1 .. n + 1 : q[k] = b
  <2>1. 1 \in 1 .. n + 1 /\ \A k \in 1..n : k + 1 \in 1 .. n + 1
    BY <1>4
  <2>2. ASSUME NEW b \in D PROVE \E k \in 1 .. n + 1 : q[k] = b
    <3>1. PICK k \in 1..n : s[k] = b
      BY <1>4
    <3> QED
      BY <1>7, <2>1, <3>1
  <2> QED
    BY <1>7, <2>1, <2>2
<1>10. r.head = IF n + 1 = 0 THEN None ELSE q[1]
  BY <1>3, <1>4, <1>7
<1>11. ASSUME NEW k \in 1 .. n + 1
       PROVE  r.node[q[k]].next = IF k = n + 1 THEN None ELSE q[k + 1]
  <2>1. CASE k = 1
    <3>1. r.node[q[k]].next = ll.head
      BY <1>3, <1>7, <2>1
    <3>2. n # 0 => 1 \in 1..n /\ q[k + 1] = s[1]
      BY <1>4, <1>7, <2>1
    <3> QED
      BY <1>4, <2>1, <3>1, <3>2
  <2>2. CASE k # 1
    <3>1. k - 1 \in 1..n /\ q[k] = s[k - 1] /\ q[k] \in D /\ k - 1 + 1 = k
      BY <1>4, <1>7, <2>2
    <3>2. r.node[q[k]].next = IF k - 1 = n THEN None ELSE s[k]
      <4>1. ll.node[s[k - 1]].next = IF k - 1 = n THEN None ELSE s[k - 1 + 1]
        BY <1>4, <3>1
      <4> QED
        BY <1>3, <3>1, <4>1
    <3>3. k # n + 1 => k \in 1..n /\ q[k + 1] = s[k]
      BY <1>4, <1>7, <2>2
    <3> QED
      BY <1>4, <3>1, <3>2, <3>3
  <2> QED
    BY <2>1, <2>2
<1>12. \A b, c \in D \cup {a} : r.node[b].data = r.node[c].data => b = c
  <2>1. r.node[a].data = d /\ \A b \in D : r.node[b].data = ll.node[b].data
    BY <1>3
  <2>2. \A b, c \in D : ll.node[b].data = ll.node[c].data => b = c
    BY <1>4
  <2> QED
    BY <1>6, <2>1, <2>2
<1>13. n + 1 \in Nat /\ D \cup {a} \in SUBSET Nat
  <2>1. n \in Nat /\ D \in SUBSET Nat
    BY <1>4
  <2> QED
    BY <1>5, <2>1
<1>14. Chain(r, D \cup {a}, n + 1, q)
  BY <1>3, <1>7, <1>8, <1>9, <1>10, <1>11, <1>12, <1>13 DEF Chain
<1>15. LL!Held(r) = {r.node[b].data : b \in D \cup {a}} /\ LL!Held(ll) = {ll.node[b].data : b \in D}
  BY <1>14, ChainHeld
<1>16. LL!Held(r) = LL!Held(ll) \cup {d}
  BY <1>3, <1>5, <1>15
<1> QED
  BY <1>2, <1>14, <1>16

(* The node before the i-th, for which the code runs through the list. *)
LEMMA BeforeIs ==
  ASSUME NEW ll, NEW D, NEW n, NEW s, Chain(ll, D, n, s), NEW i \in 2..n
  PROVE  LL!Before(ll, s[i]) = s[i - 1]
<1>1. /\ n \in Nat /\ s \in [1..n -> D] /\ DOMAIN ll.node = D /\ None \notin D
      /\ \A j, k \in 1..n : s[j] = s[k] => j = k
      /\ \A b \in D : \E k \in 1..n : s[k] = b
      /\ \A k \in 1..n : ll.node[s[k]].next = IF k = n THEN None ELSE s[k + 1]
  <2>1. DOMAIN ll.node = D
    BY ChainCounts
  <2> QED
    BY <2>1, NoneIsNothing DEF Chain
<1>2. i \in 1..n /\ i - 1 \in 1..n /\ i - 1 # n /\ i - 1 + 1 = i /\ s[i] \in D
  BY <1>1
<1>3. ll.node[s[i - 1]].next = s[i] /\ s[i - 1] \in D
  BY <1>1, <1>2
<1>4. ASSUME NEW b \in D, ll.node[b].next = s[i] PROVE b = s[i - 1]
  <2>1. PICK k \in 1..n : s[k] = b
    BY <1>1
  <2>2. k # n /\ s[k + 1] = s[i]
    BY <1>1, <1>2, <1>4, <2>1
  <2>3. k + 1 \in 1..n /\ k + 1 = i
    BY <1>1, <1>2, <2>2
  <2> QED
    BY <2>1, <2>3
<1> QED
  BY <1>1, <1>3, <1>4 DEF LL!Before

LEMMA RemoveNodeIs ==
  ASSUME NEW ll, ll = [node_count |-> ll.node_count, head |-> ll.head, node |-> ll.node],
         NEW a, NEW cut, cut = [ll.node EXCEPT ![a].next = None]
  PROVE  LL!singly_ll_remove_node(ll, a) =
           IF ll.head = a
           THEN [node_count |-> ll.node_count - 1, head |-> ll.node[a].next, node |-> cut]
           ELSE [node_count |-> ll.node_count - 1, head |-> ll.head,
                 node |-> [cut EXCEPT ![LL!Before(ll, a)].next = ll.node[a].next]]
<1> DEFINE left == [node_count |-> ll.node_count, head |-> ll.head, node |-> cut]
           out == [node_count |-> ll.node_count - 1, head |-> ll.head, node |-> cut]
<1>1. [ll EXCEPT !.node[a].next = None] = left
  OBVIOUS
<1>2. LL!Uncount(left) = out
  BY DEF LL!Uncount
<1> HIDE DEF left
<1>3. LL!singly_ll_remove_node(ll, a)
        = IF ll.head = a THEN [out EXCEPT !.head = ll.node[a].next]
          ELSE [out EXCEPT !.node[LL!Before(ll, a)].next = ll.node[a].next]
  BY <1>1, <1>2 DEF LL!singly_ll_remove_node
<1> QED
  BY <1>3

(* A list r without the m-th node of ll: its count, its head and what each *)
(* node left points at.                                                    *)
LinksPast(ll, D, n, s, m, r) ==
  /\ r \in ListRecord(D \ {s[m]}) /\ r.node_count = n - 1
  /\ r.head = IF m = 1 THEN ll.node[s[m]].next ELSE ll.head
  /\ \A b \in D \ {s[m]} :
       r.node[b].next = IF m # 1 /\ b = s[m - 1] THEN ll.node[s[m]].next ELSE ll.node[b].next

(* remove_node, and the free that follows it, take the i-th node out. *)
LEMMA RemoveFields ==
  ASSUME NEW ll, NEW D, NEW n, NEW s, Chain(ll, D, n, s), NEW i \in 1..n,
         NEW r, r = LL!Free(LL!singly_ll_remove_node(ll, s[i]), s[i])
  PROVE  /\ LinksPast(ll, D, n, s, i, r)
         /\ \A b \in D \ {s[i]} : r.node[b].data = ll.node[b].data
<1>1. /\ ll \in ListRecord(D) /\ ll.node_count = n /\ n \in Nat
      /\ s \in [1..n -> D] /\ ll.head = IF n = 0 THEN None ELSE s[1]
      /\ \A j, k \in 1..n : s[j] = s[k] => j = k
  BY DEF Chain
<1>2. /\ DOMAIN ll.node = D /\ ll.node \in [D -> [data : Students, next : Links]] /\ ll.head \in Links
      /\ ll = [node_count |-> n, head |-> ll.head, node |-> ll.node]
  BY <1>1 DEF ListRecord
<1>3. PICK a \in D : a = s[i] /\ a # None
  <2>1. D \in SUBSET Nat
    BY ChainCounts
  <2>2. s[i] \in D
    BY <1>1
  <2>3. s[i] # None
    BY <2>1, <2>2, NoneIsNothing
  <2> QED
    BY <2>2, <2>3
<1>4. PICK next \in Links : next = ll.node[a].next
  BY <1>2
<1>5. r = LL!Free(LL!singly_ll_remove_node(ll, a), a)
  BY <1>3
<1>6. n - 1 \in Nat
  BY <1>1
<1>9. PICK cut \in [D -> [data : Students, next : Links]] :
        /\ cut = [ll.node EXCEPT ![a].next = None]
        /\ \A b \in D \ {a} : cut[b] = ll.node[b]
  <2>1. [ll.node EXCEPT ![a].next = None] \in [D -> [data : Students, next : Links]]
    BY <1>2 DEF Links
  <2> QED
    BY <1>2, <2>1
<1>10. LL!singly_ll_remove_node(ll, a) =
         IF ll.head = a THEN [node_count |-> n - 1, head |-> next, node |-> cut]
         ELSE [node_count |-> n - 1, head |-> ll.head,
               node |-> [cut EXCEPT ![LL!Before(ll, a)].next = next]]
  <2>1. ll = [node_count |-> ll.node_count, head |-> ll.head, node |-> ll.node]
    BY <1>1 DEF ListRecord
  <2>2. cut = [ll.node EXCEPT ![a].next = None]
    BY <1>9
  <2>3. LL!singly_ll_remove_node(ll, a) =
           IF ll.head = a
           THEN [node_count |-> ll.node_count - 1, head |-> ll.node[a].next, node |-> cut]
           ELSE [node_count |-> ll.node_count - 1, head |-> ll.head,
                 node |-> [cut EXCEPT ![LL!Before(ll, a)].next = ll.node[a].next]]
    BY <2>1, <2>2, RemoveNodeIs
  <2> QED
    BY <1>1, <1>4, <2>3
<1>7. CASE i = 1
  <2>1. ll.head = a
    BY <1>1, <1>3, <1>7
  <2> DEFINE node == [b \in D \ {a} |-> cut[b]]
  <2>3. r = [node_count |-> n - 1, head |-> next, node |-> node]
    <3>1. DOMAIN cut = D
      BY <1>9
    <3>2. r = LL!Free([node_count |-> n - 1, head |-> next, node |-> cut], a)
      BY <1>5, <1>10, <2>1
    <3> QED
      BY <3>1, <3>2 DEF LL!Free
  <2>5. /\ node \in [D \ {a} -> [data : Students, next : Links]]
        /\ \A b \in D \ {a} : node[b] = ll.node[b]
    BY <1>9
  <2> HIDE DEF node
  <2> QED
    BY <1>3, <1>4, <1>6, <1>7, <2>3, <2>5 DEF ListRecord, LinksPast
<1>8. CASE i # 1
  <2>1. i \in 2..n /\ LL!Before(ll, a) = s[i - 1] /\ i - 1 \in 1..n
    BY <1>1, <1>3, <1>8, BeforeIs
  <2>2. PICK p \in D : p = s[i - 1] /\ p # a
    BY <1>1, <1>3, <2>1
  <2>3. ll.head # a
    <3>1. 1 \in 1..n
      BY <1>1
    <3> QED
      BY <1>1, <1>3, <1>8, <3>1
  <2> DEFINE linked == [cut EXCEPT ![p].next = next]
             node == [b \in D \ {a} |-> linked[b]]
  <2>4. LL!singly_ll_remove_node(ll, a)
          = [node_count |-> n - 1, head |-> ll.head, node |-> linked]
    BY <1>10, <2>1, <2>2, <2>3
  <2>6. linked \in [D -> [data : Students, next : Links]]
    BY <1>9
  <2>7. r = [node_count |-> n - 1, head |-> ll.head, node |-> node]
    <3>1. DOMAIN linked = D
      BY <2>6
    <3>2. r = LL!Free([node_count |-> n - 1, head |-> ll.head, node |-> linked], a)
      BY <1>5, <2>4
    <3> HIDE DEF linked
    <3> QED
      BY <3>1, <3>2 DEF LL!Free
  <2>8. \A b \in D \ {a} : /\ linked[b].data = ll.node[b].data
                           /\ linked[b].next = IF b = p THEN next ELSE ll.node[b].next
    BY <1>9, <2>2
  <2>9. /\ node \in [D \ {a} -> [data : Students, next : Links]]
        /\ \A b \in D \ {a} : node[b] = linked[b]
    BY <2>6
  <2> HIDE DEF node, linked
  <2> QED
    BY <1>2, <1>3, <1>4, <1>6, <1>8, <2>2, <2>7, <2>8, <2>9 DEF ListRecord, LinksPast
<1> QED
  BY <1>7, <1>8

(* The nodes without the i-th, in their order; and what is past the i-th   *)
(* node of a chain is a chain of them.                                     *)
Unlisted(s, n, i) == [k \in 1 .. n - 1 |-> IF k < i THEN s[k] ELSE s[k + 1]]

LEMMA ChainWithout ==
  ASSUME NEW ll, NEW D, NEW n, NEW s, Chain(ll, D, n, s), NEW i \in 1..n,
         NEW r, LinksPast(ll, D, n, s, i, r),
         \A b, c \in D \ {s[i]} : r.node[b].data = r.node[c].data => b = c
  PROVE  Chain(r, D \ {s[i]}, n - 1, Unlisted(s, n, i))
<1>2. /\ n \in Nat /\ D \in SUBSET Nat
      /\ s \in [1..n -> D]
      /\ \A j, k \in 1..n : s[j] = s[k] => j = k
      /\ \A b \in D : \E k \in 1..n : s[k] = b
      /\ ll.head = IF n = 0 THEN None ELSE s[1]
      /\ \A k \in 1..n : ll.node[s[k]].next = IF k = n THEN None ELSE s[k + 1]
  BY DEF Chain
<1>4. PICK a \in D : s[i] = a
  BY <1>2
<1>5. /\ r \in ListRecord(D \ {a}) /\ r.node_count = n - 1
      /\ r.head = IF i = 1 THEN ll.node[a].next ELSE ll.head
      /\ \A b \in D \ {a} :
           r.node[b].next = IF i # 1 /\ b = s[i - 1] THEN ll.node[a].next ELSE ll.node[b].next
  BY <1>4 DEF LinksPast
<1> DEFINE q == Unlisted(s, n, i)
<1>6. n - 1 \in Nat /\ D \ {a} \in SUBSET Nat
  <2>1. n \in Nat /\ D \in SUBSET Nat
    BY <1>2
  <2> QED
    BY <2>1
<1>7. \A k \in 1 .. n - 1 : /\ k \in 1..n /\ k + 1 \in 1..n
                            /\ k < i => q[k] = s[k]
                            /\ k >= i => q[k] = s[k + 1]
  BY <1>2 DEF Unlisted
<1>8. ASSUME NEW k \in 1 .. n - 1 PROVE q[k] \in D \ {a}
  <2>1. CASE k < i
    <3>1. q[k] = s[k] /\ k \in 1..n /\ k # i
      BY <1>7, <2>1
    <3> QED
      BY <1>2, <1>4, <3>1
  <2>2. CASE k >= i
    <3>1. q[k] = s[k + 1] /\ k + 1 \in 1..n /\ k + 1 # i
      BY <1>7, <2>2
    <3> QED
      BY <1>2, <1>4, <3>1
  <2> QED
    BY <2>1, <2>2
<1>9. q \in [1 .. n - 1 -> D \ {a}]
  BY <1>8 DEF Unlisted
<1> HIDE DEF q
<1>19. n \in Nat
  BY <1>2
<1>10. ASSUME NEW j \in 1 .. n - 1, NEW k \in 1 .. n - 1, q[j] = q[k] PROVE j = k
  <2>1. PICK jj \in 1..n : q[j] = s[jj] /\ jj = IF j < i THEN j ELSE j + 1
    BY <1>7
  <2>2. PICK kk \in 1..n : q[k] = s[kk] /\ kk = IF k < i THEN k ELSE k + 1
    BY <1>7
  <2>3. s[jj] = s[kk]
    BY <1>10, <2>1, <2>2
  <2>4. jj = kk
    BY <1>2, <2>3
  <2> QED
    BY <1>19, <2>1, <2>2, <2>4
<1>11. ASSUME NEW b \in D \ {a} PROVE \E k \in 1 .. n - 1 : q[k] = b
  <2>1. PICK k \in 1..n : s[k] = b
    BY <1>2
  <2>2. k # i
    BY <1>4, <2>1
  <2>3. CASE k < i
    <3>1. k \in 1 .. n - 1 /\ q[k] = s[k]
      BY <1>7, <1>19, <2>3
    <3> QED
      BY <2>1, <3>1
  <2>4. CASE k > i
    <3>1. k - 1 \in 1 .. n - 1 /\ q[k - 1] = s[k - 1 + 1] /\ k - 1 + 1 = k
      BY <1>7, <1>19, <2>4
    <3> QED
      BY <2>1, <3>1
  <2> QED
    BY <2>2, <2>3, <2>4
<1>12. r.head = IF n - 1 = 0 THEN None ELSE q[1]
  <2>1. ll.node[a].next = IF i = n THEN None ELSE s[i + 1]
    BY <1>2, <1>4
  <2>2. CASE i = 1
    <3>1. r.head = IF n = 1 THEN None ELSE s[2]
      BY <1>5, <2>1, <2>2
    <3>2. n # 1 => 1 \in 1 .. n - 1 /\ q[1] = s[2]
      <4>1. n # 1 => 1 \in 1 .. n - 1
        BY <1>19, <2>2
      <4> QED
        BY <1>7, <2>2, <4>1
    <3> QED
      BY <1>2, <3>1, <3>2
  <2>3. CASE i # 1
    <3>1. r.head = s[1]
      BY <1>2, <1>5, <2>3
    <3>2. n - 1 # 0 /\ q[1] = s[1]
      BY <1>2, <1>7, <2>3
    <3> QED
      BY <3>1, <3>2
  <2> QED
    BY <2>2, <2>3
<1>13. ASSUME NEW k \in 1 .. n - 1
       PROVE  r.node[q[k]].next = IF k = n - 1 THEN None ELSE q[k + 1]
  <2>1. ll.node[a].next = IF i = n THEN None ELSE s[i + 1]
    BY <1>2, <1>4
  <2>2. k # n - 1 => /\ k + 1 \in 1 .. n - 1
                     /\ k + 1 < i => q[k + 1] = s[k + 1]
                     /\ k + 1 >= i => q[k + 1] = s[k + 1 + 1]
    <3>1. k # n - 1 => k + 1 \in 1 .. n - 1
      BY <1>2
    <3> QED
      BY <1>7, <3>1
  <2>3. q[k] \in D \ {a}
    BY <1>8
  <2>4. CASE k >= i
    <3>1. q[k] = s[k + 1] /\ k + 1 \in 1..n
      BY <1>7, <2>4
    <3>2. i # 1 => (i - 1 \in 1..n /\ i - 1 # k + 1)
      BY <1>19, <2>4
    <3>3. i # 1 => q[k] # s[i - 1]
      BY <1>2, <3>1, <3>2
    <3>4. r.node[q[k]].next = ll.node[s[k + 1]].next
      BY <1>5, <2>3, <3>1, <3>3
    <3>5. ll.node[s[k + 1]].next = IF k + 1 = n THEN None ELSE s[k + 1 + 1]
      BY <1>2, <3>1
    <3> QED
      BY <1>2, <2>2, <2>4, <3>4, <3>5
  <2>5. CASE k < i
    <3>1. q[k] = s[k] /\ k \in 1..n
      BY <1>7, <2>5
    <3>2. ll.node[s[k]].next = IF k = n THEN None ELSE s[k + 1]
      BY <1>2, <3>1
    <3>3. CASE k + 1 = i
      <4>1. i # 1 /\ q[k] = s[i - 1]
        BY <3>1, <3>3
      <4>2. r.node[q[k]].next = ll.node[a].next
        BY <1>5, <2>3, <4>1
      <4> QED
        BY <1>2, <2>1, <2>2, <3>3, <4>2
    <3>4. CASE k + 1 < i
      <4>1. i - 1 \in 1..n /\ i - 1 # k
        BY <1>19, <3>4
      <4>2. q[k] # s[i - 1]
        BY <1>2, <3>1, <4>1
      <4>3. r.node[q[k]].next = ll.node[s[k]].next
        BY <1>5, <2>3, <3>1, <4>2
      <4> QED
        BY <1>2, <2>2, <3>2, <3>4, <4>3
    <3> QED
      BY <2>5, <3>3, <3>4
  <2> QED
    BY <2>4, <2>5
<1>14. \A b, c \in D \ {a} : r.node[b].data = r.node[c].data => b = c
  BY <1>4
<1>15. Chain(r, D \ {a}, n - 1, q)
  BY <1>5, <1>6, <1>9, <1>10, <1>11, <1>12, <1>13, <1>14 DEF Chain
<1> QED
  BY <1>4, <1>15 DEF q

(* singly_ll_remove_node unlinks the node it is given, wherever it stands, *)
(* and leaves it allocated; the other nodes keep their order and data.     *)
THEOREM RemoveChain ==
  ASSUME NEW ll, NEW D, NEW n, NEW s, Chain(ll, D, n, s), NEW i \in 1..n
  PROVE  LET r == LL!Free(LL!singly_ll_remove_node(ll, s[i]), s[i])
         IN  /\ Chain(r, D \ {s[i]}, n - 1, Unlisted(s, n, i))
             /\ \A b \in D \ {s[i]} : r.node[b].data = ll.node[b].data
<1>1. PICK r : r = LL!Free(LL!singly_ll_remove_node(ll, s[i]), s[i])
  OBVIOUS
<1>2. LinksPast(ll, D, n, s, i, r) /\ \A b \in D \ {s[i]} : r.node[b].data = ll.node[b].data
  BY <1>1, RemoveFields
<1>3. \A b, c \in D : ll.node[b].data = ll.node[c].data => b = c
  BY DEF Chain
<1>4. \A b, c \in D \ {s[i]} : r.node[b].data = r.node[c].data => b = c
  BY <1>2, <1>3
<1>5. Chain(r, D \ {s[i]}, n - 1, Unlisted(s, n, i))
  BY <1>2, <1>4, ChainWithout
<1> QED
  BY <1>1, <1>2, <1>5

(* The count of a list written out as a record. *)
LEMMA UncountIs ==
  ASSUME NEW c, NEW h, NEW node
  PROVE  LL!Uncount([node_count |-> c, head |-> h, node |-> node])
           = [node_count |-> c - 1, head |-> h, node |-> node]
  BY DEF LL!Uncount

(* singly_ll_delete_node of the i-th node frees that node only at the end  *)
(* of the list; elsewhere it copies the next node over it and frees that.  *)
LEMMA DeleteNodeFields ==
  ASSUME NEW ll, NEW D, NEW n, NEW s, Chain(ll, D, n, s), NEW i \in 1..n,
         NEW m, m = IF i = n THEN n ELSE i + 1,
         NEW r, r = LL!singly_ll_delete_node(ll, s[i])
  PROVE  /\ LinksPast(ll, D, n, s, m, r)
         /\ \A b \in D \ {s[m]} :
              r.node[b].data = IF b = s[i] THEN ll.node[s[m]].data ELSE ll.node[b].data
<1>1. /\ ll \in ListRecord(D) /\ ll.node_count = n /\ n \in Nat
      /\ s \in [1..n -> D] /\ ll.head = IF n = 0 THEN None ELSE s[1]
      /\ \A j, k \in 1..n : s[j] = s[k] => j = k
      /\ \A k \in 1..n : ll.node[s[k]].next = IF k = n THEN None ELSE s[k + 1]
  BY DEF Chain
<1>2. /\ DOMAIN ll.node = D /\ ll.node \in [D -> [data : Students, next : Links]] /\ ll.head \in Links
      /\ ll = [node_count |-> n, head |-> ll.head, node |-> ll.node]
      /\ None \notin D
  <2>1. D \in SUBSET Nat
    BY ChainCounts
  <2> QED
    BY <1>1, <2>1, NoneIsNothing DEF ListRecord
<1>3. m \in 1..n /\ s[m] \in D /\ s[i] \in D /\ n - 1 \in Nat /\ i \in Nat
  BY <1>1
<1>4. PICK a \in D : a = s[i]
  BY <1>3
<1> DEFINE V == [data : Students, next : Links]
<1>5. CASE i # n
  <2>1. /\ m = i + 1 /\ m # 1 /\ m - 1 = i
        /\ ll.node[a].next = s[m] /\ s[m] # a /\ s[m] # None
    BY <1>1, <1>2, <1>3, <1>4, <1>5
  <2>2. PICK after \in D : after = s[m] /\ after # a
    BY <1>3, <2>1
  <2> DEFINE moved == [ll.node EXCEPT ![a] = ll.node[after]]
             node == [b \in D \ {after} |-> moved[b]]
  <2>3. moved \in [D -> V]
    BY <1>2, <2>2
  <2>4. [ll EXCEPT !.node[a] = ll.node[after]] = [node_count |-> n, head |-> ll.head, node |-> moved]
    BY <1>2
  <2>5. r = LL!Uncount(LL!Free([ll EXCEPT !.node[a] = ll.node[after]], after))
    BY <1>4, <2>1, <2>2 DEF LL!singly_ll_delete_node
  <2>6. /\ \A b \in D \ {after} : node[b] = IF b = a THEN ll.node[after] ELSE ll.node[b]
        /\ node \in [D \ {after} -> V]
    BY <1>2, <2>3
  <2>7. r = [node_count |-> n - 1, head |-> ll.head, node |-> node]
    <3>0. DOMAIN moved = D
      BY <2>3
    <3> HIDE DEF moved
    <3>1. LL!Free([node_count |-> n, head |-> ll.head, node |-> moved], after)
            = [node_count |-> n, head |-> ll.head, node |-> node]
      BY <3>0 DEF LL!Free
    <3> HIDE DEF node
    <3> QED
      BY <2>4, <2>5, <3>1, UncountIs
  <2> HIDE DEF node, moved
  <2>8. r.node = node /\ r.head = ll.head /\ r.node_count = n - 1 /\ r \in ListRecord(D \ {after})
    BY <1>2, <1>3, <2>6, <2>7 DEF ListRecord
  <2>9. \A b \in D \ {after} :
          /\ r.node[b].data = IF b = a THEN ll.node[after].data ELSE ll.node[b].data
          /\ r.node[b].next = IF b = a THEN ll.node[after].next ELSE ll.node[b].next
    BY <2>6, <2>8
  <2>10. LinksPast(ll, D, n, s, m, r)
    BY <1>4, <2>1, <2>2, <2>8, <2>9 DEF LinksPast
  <2> QED
    BY <1>4, <2>2, <2>9, <2>10
<1>6. CASE i = n
  <2>1. m = i /\ a = s[m] /\ ll.node[a].next = None
    BY <1>1, <1>4, <1>6
  <2>2. CASE n = 1
    <3>1. ll.head = a
      BY <1>1, <1>4, <1>6, <2>2
    <3> DEFINE node == [b \in D \ {a} |-> ll.node[b]]
    <3>2. r = LL!Uncount(LL!Free([ll EXCEPT !.head = None], a))
      BY <1>1, <1>4, <2>1, <2>2, <3>1 DEF LL!singly_ll_delete_node
    <3>3. [ll EXCEPT !.head = None] = [node_count |-> n, head |-> None, node |-> ll.node]
      BY <1>2
    <3>4. r = [node_count |-> n - 1, head |-> None, node |-> node]
      <4>1. LL!Free([node_count |-> n, head |-> None, node |-> ll.node], a)
              = [node_count |-> n, head |-> None, node |-> node]
        BY <1>2 DEF LL!Free
      <4> HIDE DEF node
      <4> QED
        BY <3>2, <3>3, <4>1, UncountIs
    <3>5. node \in [D \ {a} -> V] /\ \A b \in D \ {a} : node[b] = ll.node[b]
      BY <1>2
    <3> HIDE DEF node
    <3>6. /\ r.node = node /\ r.head = None /\ r.node_count = n - 1 /\ r \in ListRecord(D \ {a})
      BY <1>3, <3>4, <3>5 DEF ListRecord, Links
    <3>7. LinksPast(ll, D, n, s, m, r)
      BY <1>6, <2>1, <2>2, <3>5, <3>6 DEF LinksPast
    <3> QED
      BY <1>4, <2>1, <3>5, <3>6, <3>7
  <2>3. CASE n # 1
    <3>1. i \in 2..n /\ i - 1 \in 1..n /\ i # 1
      BY <1>1, <1>6, <2>3
    <3>2. PICK p \in D : p = s[i - 1] /\ LL!Before(ll, a) = p
      BY <1>1, <1>4, <3>1, BeforeIs
    <3> DEFINE cut == [ll.node EXCEPT ![p].next = None]
               node == [b \in D \ {a} |-> cut[b]]
    <3>3. r = LL!Uncount(LL!Free([ll EXCEPT !.node[p].next = None], a))
      BY <1>1, <1>4, <2>1, <2>3, <3>2 DEF LL!singly_ll_delete_node
    <3>4. [ll EXCEPT !.node[p].next = None] = [node_count |-> n, head |-> ll.head, node |-> cut]
      BY <1>2
    <3>5. cut \in [D -> V]
      BY <1>2 DEF Links
    <3>6. /\ node \in [D \ {a} -> V]
          /\ \A b \in D \ {a} : /\ node[b].data = ll.node[b].data
                                /\ node[b].next = IF b = p THEN None ELSE ll.node[b].next
      BY <1>2, <3>5
    <3>7. r = [node_count |-> n - 1, head |-> ll.head, node |-> node]
      <4>0. DOMAIN cut = D
        BY <3>5
      <4> HIDE DEF cut
      <4>1. LL!Free([node_count |-> n, head |-> ll.head, node |-> cut], a)
              = [node_count |-> n, head |-> ll.head, node |-> node]
        BY <4>0 DEF LL!Free
      <4> HIDE DEF node
      <4> QED
        BY <3>3, <3>4, <4>1, UncountIs
    <3> HIDE DEF cut, node
    <3>8. /\ r.node = node /\ r.head = ll.head /\ r.node_count = n - 1 /\ r \in ListRecord(D \ {a})
      BY <1>2, <1>3, <3>6, <3>7 DEF ListRecord
    <3>9. LinksPast(ll, D, n, s, m, r)
      <4>1. m # 1 /\ p = s[m - 1] /\ ll.node[s[m]].next = None
        BY <2>1, <3>1, <3>2
      <4>2. r.node_count = n - 1 /\ r \in ListRecord(D \ {s[m]}) /\ r.head = ll.head
        BY <2>1, <3>8
      <4>3. \A b \in D \ {s[m]} : r.node[b].next = IF b = p THEN None ELSE ll.node[b].next
        BY <2>1, <3>6, <3>8
      <4> QED
        BY <4>1, <4>2, <4>3 DEF LinksPast
    <3> QED
      BY <1>4, <2>1, <3>6, <3>8, <3>9
  <2> QED
    BY <2>2, <2>3
<1> QED
  BY <1>5, <1>6

(* singly_ll_delete_node: of a list of any length the elements but the one *)
(* in the i-th node are left, in their order, and one node has been freed. *)
THEOREM DeleteNodeChain ==
  ASSUME NEW ll, NEW D, NEW n, NEW s, Chain(ll, D, n, s), NEW i \in 1..n
  PROVE  LET freed == IF i = n THEN n ELSE i + 1
             r == LL!singly_ll_delete_node(ll, s[i])
         IN  /\ Chain(r, D \ {s[freed]}, n - 1, Unlisted(s, n, freed))
             /\ \A k \in 1 .. n - 1 :
                  r.node[Unlisted(s, n, freed)[k]].data = ll.node[Unlisted(s, n, i)[k]].data
<1>1. /\ n \in Nat /\ s \in [1..n -> D]
      /\ \A j, k \in 1..n : s[j] = s[k] => j = k
      /\ \A b, c \in D : ll.node[b].data = ll.node[c].data => b = c
  BY DEF Chain
<1>2. PICK m \in 1..n : m = IF i = n THEN n ELSE i + 1
  BY <1>1
<1>3. PICK r : r = LL!singly_ll_delete_node(ll, s[i])
  OBVIOUS
<1>4. /\ LinksPast(ll, D, n, s, m, r)
      /\ \A b \in D \ {s[m]} :
           r.node[b].data = IF b = s[i] THEN ll.node[s[m]].data ELSE ll.node[b].data
  BY <1>2, <1>3, DeleteNodeFields
<1>5. s[m] \in D /\ s[i] \in D
  BY <1>1, <1>2
<1>6. ASSUME NEW b \in D \ {s[m]}, NEW c \in D \ {s[m]}, r.node[b].data = r.node[c].data PROVE b = c
  <2>1. PICK bb \in D : bb = IF b = s[i] THEN s[m] ELSE b
    BY <1>5
  <2>2. PICK cc \in D : cc = IF c = s[i] THEN s[m] ELSE c
    BY <1>5
  <2>3. ll.node[bb].data = ll.node[cc].data
    BY <1>4, <1>6, <2>1, <2>2
  <2>4. bb = cc
    BY <1>1, <2>3
  <2> QED
    BY <2>1, <2>2, <2>4
<1>7. Chain(r, D \ {s[m]}, n - 1, Unlisted(s, n, m))
  BY <1>4, <1>6, ChainWithout
<1>8. ASSUME NEW k \in 1 .. n - 1
      PROVE  r.node[Unlisted(s, n, m)[k]].data = ll.node[Unlisted(s, n, i)[k]].data
  <2>1. k \in 1..n /\ k + 1 \in 1..n /\ i \in Nat /\ m \in Nat
    BY <1>1, <1>2
  <2>2. /\ Unlisted(s, n, m)[k] = IF k < m THEN s[k] ELSE s[k + 1]
        /\ Unlisted(s, n, i)[k] = IF k < i THEN s[k] ELSE s[k + 1]
    BY DEF Unlisted
  <2>3. CASE k < i
    <3>1. k < m /\ k # m /\ k # i
      BY <1>2, <2>1, <2>3
    <3>2. s[k] # s[m] /\ s[k] # s[i] /\ s[k] \in D
      BY <1>1, <1>2, <2>1, <3>1
    <3> QED
      BY <1>4, <2>2, <2>3, <3>1, <3>2
  <2>4. CASE k = i
    <3>1. m = k + 1 /\ k < m /\ ~(k < i)
      BY <1>1, <1>2, <2>1, <2>4
    <3>2. s[k] # s[m] /\ s[k] \in D /\ s[k] = s[i] /\ s[m] = s[k + 1]
      BY <1>1, <1>2, <2>1, <2>4, <3>1
    <3> QED
      BY <1>4, <2>2, <3>1, <3>2
  <2>5. CASE k > i
    <3>1. ~(k < m) /\ ~(k < i) /\ k + 1 # m /\ k + 1 # i
      BY <1>1, <1>2, <2>1, <2>5
    <3>2. s[k + 1] # s[m] /\ s[k + 1] # s[i] /\ s[k + 1] \in D
      BY <1>1, <1>2, <2>1, <3>1
    <3> QED
      BY <1>4, <2>2, <3>1, <3>2
  <2> QED
    BY <2>1, <2>3, <2>4, <2>5
<1> QED
  BY <1>2, <1>3, <1>7, <1>8

(* The database deletes a student by its pointer. *)
LEMMA DeleteChain ==
  ASSUME NEW ll, NEW D, NEW n, NEW s, Chain(ll, D, n, s), NEW d \in LL!Held(ll)
  PROVE  LET r == LL!singly_ll_delete_node_by_data_ptr(ll, d)
         IN  /\ \E E, m, q : Chain(r, E, m, q)
             /\ LL!Held(r) = LL!Held(ll) \ {d}
<1>1. PICK a \in D : ll.node[a].data = d
  BY ChainHeld
<1>2. PICK i \in 1..n : s[i] = a
  BY DEF Chain
<1>3. PICK r : r = LL!Free(LL!singly_ll_remove_node(ll, a), a)
  OBVIOUS
<1>4. LL!singly_ll_delete_node_by_data_ptr(ll, d) = r
  <2>1. LL!FirstNode(ll, d) = a
    BY <1>1, ChainFirst
  <2>2. a # None
    <3>1. D \in SUBSET Nat
      BY ChainCounts
    <3> QED
      BY <3>1, NoneIsNothing
  <2> QED
    BY <1>3, <2>1, <2>2 DEF LL!singly_ll_delete_node_by_data_ptr, LL!singly_ll_get_node_by_data_ptr, LL!IfFound
<1>5. /\ Chain(r, D \ {a}, n - 1, Unlisted(s, n, i))
      /\ \A b \in D \ {a} : r.node[b].data = ll.node[b].data
  BY <1>2, <1>3, RemoveChain
<1>6. LL!Held(r) = {r.node[b].data : b \in D \ {a}} /\ LL!Held(ll) = {ll.node[b].data : b \in D}
  BY <1>5, ChainHeld
<1>7. \A b \in D \ {a} : ll.node[b].data # d
  <2>1. \A b, c \in D : ll.node[b].data = ll.node[c].data => b = c
    BY DEF Chain
  <2> QED
    BY <1>1, <2>1
<1>8. LL!Held(r) = LL!Held(ll) \ {d}
  BY <1>1, <1>5, <1>6, <1>7
<1> QED
  BY <1>4, <1>5, <1>8

-------------------------------------------------------------------------------
(* The inductive invariant.  A thread's place says which locks it holds    *)
(* and what its student is to the list.                                    *)
Reading == {"lookup", "ref", "lock", "unlist"}
Writing == {"find", "insert", "listed", "remove", "share", "drop", "release"}
WithoutStudent == {"idle", "lookup", "find", "remove"}
Using == {"unlist", "use", "wrap"}

PlacesFit ==
  \A t \in Threads :
    /\ stud[t] = None <=> at[t] \in WithoutStudent
    /\ at[t] \in Reading \cup Using => t \in Users
    /\ at[t] = "wrap" => t \in Updaters
    /\ at[t] \in {"find", "insert", "listed"} => t \in Creators
    /\ at[t] \in {"remove", "share", "drop", "release"} => t \in Deleters
    /\ at[t] \in {"done", "destroy"} => t \notin Creators

Exclusive(l) == l.writer # None => l.readers = {}

ListLockExact ==
  /\ Exclusive(lstLock)
  /\ \A t \in Threads : /\ t \in lstLock.readers <=> at[t] \in Reading
                        /\ lstLock.writer = t <=> at[t] \in Writing

StudentLocksExact ==
  \A s \in Students :
    /\ Exclusive(studLock[s])
    /\ \A t \in Threads :
         /\ t \in studLock[s].readers <=> (stud[t] = s /\ t \in Readers /\ at[t] \in Using)
         /\ studLock[s].writer = t <=> (stud[t] = s /\ t \in Updaters /\ at[t] \in Using)

Allocated ==
  /\ \A t \in Threads : stud[t] # None => roll[stud[t]] # None
  /\ \A s \in Listed : roll[s] # None

Alone(t) == \A u \in Threads : stud[u] = stud[t] => u = t

ListFits ==
  \A t \in Threads :
    /\ at[t] \in {"ref", "lock", "unlist", "listed"} => stud[t] \in Listed
    /\ at[t] \in {"insert", "share", "drop", "release", "destroy"} => stud[t] \notin Listed
    /\ at[t] \in {"insert", "listed", "destroy"} => Alone(t)
    /\ at[t] = "destroy" => ref[stud[t]] = 0

(* Only the thread that has added and not yet taken the remainder leaves   *)
(* marks out of their range.                                               *)
MarksFit ==
  \A s \in Students :
    marks[s] >= MarksRange => \E t \in Threads : at[t] = "wrap" /\ stud[t] = s

ListIsChain == \E D, n, s : Chain(lst, D, n, s)

IInv ==
  /\ TypeOK /\ ListIsChain
  /\ PlacesFit /\ ListLockExact /\ StudentLocksExact
  /\ Allocated /\ ListFits /\ InsertionSucceeds
  /\ RefCountExact /\ MarksFit

-------------------------------------------------------------------------------
(* The list holds one student more after an insertion, one less after a    *)
(* removal, and the same after every other step.                           *)
LEMMA InsertLists ==
  ASSUME IInv, NEW t \in Threads, Insert(t)
  PROVE  ListIsChain' /\ Listed' = Listed \cup {stud[t]} /\ stud[t] \in Students \ Listed
<1>1. stud[t] \in Students \ Listed
  BY NoneIsNothing DEF IInv, TypeOK, PlacesFit, ListFits, Insert, Goto, WithoutStudent
<1>2. PICK D, n, s : Chain(lst, D, n, s)
  BY DEF IInv, ListIsChain
<1>3. lst' = LL!singly_ll_add_node_by_val(lst, stud[t])
  BY DEF Insert
<1>4. /\ \E E, m, q : Chain(lst', E, m, q)
      /\ LL!Held(lst') = LL!Held(lst) \cup {stud[t]}
  BY <1>1, <1>2, <1>3, AddChain DEF Listed
<1> QED
  BY <1>1, <1>4 DEF Listed, ListIsChain

LEMMA RemoveUnlists ==
  ASSUME IInv, NEW t \in Threads, NEW d \in Listed,
         lst' = LL!singly_ll_delete_node_by_data_ptr(lst, d)
  PROVE  ListIsChain' /\ Listed' = Listed \ {d}
<1>1. PICK D, n, s : Chain(lst, D, n, s)
  BY DEF IInv, ListIsChain
<1>2. /\ \E E, m, q : Chain(lst', E, m, q)
      /\ LL!Held(lst') = LL!Held(lst) \ {d}
  BY <1>1, DeleteChain DEF Listed
<1> QED
  BY <1>2 DEF Listed, ListIsChain

LEMMA SameListed == ASSUME lst' = lst PROVE Listed' = Listed /\ (ListIsChain => ListIsChain')
  BY DEF Listed, ListIsChain

LEMMA ListsKept ==
  ASSUME IInv, [Next]_vars PROVE ListIsChain' /\ Listed' \subseteq Students
<1>1. ASSUME NEW t \in Threads, Insert(t) PROVE ListIsChain'
  BY <1>1, InsertLists
<1>2. ASSUME NEW t \in Threads, Remove(t) PROVE ListIsChain'
  BY <1>2, RemoveUnlists, SameListed DEF Remove, GiveUp, students, IInv, Found
<1>3. ASSUME lst' = lst PROVE ListIsChain'
  BY <1>3, SameListed DEF IInv
<1>4. ListIsChain'
  BY <1>1, <1>2, <1>3 DEF Next, Proceed, vars, students, EnterList, Lookup, TakeRef, LockStudent, UnlockList, Read,
     Increment, Wrap, Done, Destroy, EnterListAlone, Allocate, RefForList, Share, DropRefOfList,
     ReleaseList, GiveUp
<1>5. ListIsChain' => Listed' \subseteq Students
  <2>1. \A D, n, s : Chain(lst', D, n, s) => LL!Held(lst') \subseteq Students
    BY ChainHeld
  <2> QED
    BY <2>1 DEF ListIsChain, Listed
<1> QED
  BY <1>4, <1>5

(* Every step keeps the parts of the invariant, one lemma for each. *)
LEMMA PlacesKept == ASSUME IInv, [Next]_vars PROVE PlacesFit'
<1> USE DEF IInv, TypeOK, PlacesFit, WithoutStudent, Reading, Using, Users, Writers, Threads
<1>1. CASE UNCHANGED vars
  BY <1>1 DEF vars
<1>2. ASSUME NEW t \in Threads, EnterList(t) \/ LockStudent(t) \/ EnterListAlone(t) PROVE PlacesFit'
  BY <1>2, RolesDisjoint DEF EnterList, LockStudent, EnterListAlone, Goto
<1>3. ASSUME NEW t \in Threads, Proceed(t) PROVE PlacesFit'
  <2> USE NoneIsNothing, RolesDisjoint DEF Goto, GiveUp, Found
  <2>1. CASE Lookup(t) \/ TakeRef(t) \/ UnlockList(t)
    BY <2>1 DEF Lookup, TakeRef, UnlockList
  <2>2. CASE Read(t) \/ Increment(t) \/ Wrap(t)
    BY <2>2 DEF Read, Increment, Wrap, UnlockStudent
  <2>3. CASE Allocate(t) \/ Insert(t) \/ RefForList(t)
    BY <2>3 DEF Allocate, Insert, RefForList
  <2>4. CASE Remove(t) \/ Share(t)
    BY <2>4 DEF Remove, Share
  <2>5. CASE DropRefOfList(t) \/ ReleaseList(t)
    BY <2>5 DEF DropRefOfList, ReleaseList
  <2>6. CASE Done(t) \/ Destroy(t)
    BY <2>6 DEF Done, Destroy
  <2> QED
    BY <1>3, <2>1, <2>2, <2>3, <2>4, <2>5, <2>6 DEF Proceed
<1> QED
  BY <1>1, <1>2, <1>3 DEF Next

LEMMA ListLockKept == ASSUME IInv, [Next]_vars PROVE ListLockExact'
<1> USE DEF IInv, TypeOK, LockStates, PlacesFit, ListLockExact, Exclusive, Reading, Writing
<1>1. CASE UNCHANGED vars
  BY <1>1 DEF vars, locks
<1> USE NoneIsNothing, RolesDisjoint DEF Goto, GiveUp, Found, LeaveList, Released, Users, Writers, Threads, locks
<1>2. ASSUME NEW t \in Threads, EnterList(t) PROVE ListLockExact'
  BY <1>2 DEF EnterList, CanRead, ReadLocked
<1>3. ASSUME NEW t \in Threads, EnterListAlone(t) PROVE ListLockExact'
  BY <1>3 DEF EnterListAlone, CanWrite, WriteLocked
<1>4. ASSUME NEW t \in Threads, LockStudent(t) PROVE ListLockExact'
  BY <1>4 DEF LockStudent
<1>5. ASSUME NEW t \in Threads, Proceed(t) PROVE ListLockExact'
  <2>1. CASE Lookup(t) \/ TakeRef(t)
    BY <2>1 DEF Lookup, TakeRef
  <2>2. CASE UnlockList(t)
    BY <2>2 DEF UnlockList
  <2>3. CASE Read(t) \/ Increment(t) \/ Wrap(t)
    BY <2>3 DEF Read, Increment, Wrap, UnlockStudent
  <2>4. CASE Allocate(t)
    BY <2>4 DEF Allocate
  <2>5. CASE Insert(t) \/ RefForList(t)
    BY <2>5 DEF Insert, RefForList
  <2>6. CASE Remove(t) \/ Share(t)
    BY <2>6 DEF Remove, Share
  <2>7. CASE DropRefOfList(t) \/ ReleaseList(t)
    BY <2>7 DEF DropRefOfList, ReleaseList
  <2>8. CASE Done(t) \/ Destroy(t)
    BY <2>8 DEF Done, Destroy
  <2> QED
    BY <1>5, <2>1, <2>2, <2>3, <2>4, <2>5, <2>6, <2>7, <2>8 DEF Proceed
<1> QED
  BY <1>1, <1>2, <1>3, <1>4, <1>5 DEF Next

LEMMA StudentLocksKept == ASSUME IInv, [Next]_vars PROVE StudentLocksExact'
<1> USE NoneIsNothing
    DEF IInv, TypeOK, LockStates, PlacesFit, StudentLocksExact, Exclusive, Reading, Using, WithoutStudent
<1>1. CASE UNCHANGED vars
  BY <1>1 DEF vars, locks
<1> USE RolesDisjoint DEF Goto, GiveUp, Found, Released, Users, Writers, Threads, locks
<1>2. ASSUME NEW t \in Threads, EnterList(t) PROVE StudentLocksExact'
  BY <1>2 DEF EnterList
<1>3. ASSUME NEW t \in Threads, EnterListAlone(t) PROVE StudentLocksExact'
  BY <1>3 DEF EnterListAlone
<1>4. ASSUME NEW t \in Threads, LockStudent(t) PROVE StudentLocksExact'
  <2>1. CASE t \in Readers
    BY <1>4, <2>1 DEF LockStudent, CanRead, ReadLocked
  <2>2. CASE t \in Updaters
    BY <1>4, <2>2 DEF LockStudent, CanWrite, WriteLocked
  <2> QED
    BY <1>4, <2>1, <2>2 DEF LockStudent
<1>5. ASSUME NEW t \in Threads, Proceed(t) PROVE StudentLocksExact'
  <2>1. CASE Lookup(t) \/ TakeRef(t)
    BY <2>1 DEF Lookup, TakeRef
  <2>2. CASE UnlockList(t)
    BY <2>2 DEF UnlockList
  <2>3. CASE Read(t)
    BY <2>3 DEF Read, UnlockStudent
  <2>31. CASE Increment(t)
    BY <2>31 DEF Increment, UnlockStudent
  <2>32. CASE Wrap(t)
    BY <2>32 DEF Wrap, UnlockStudent
  <2>4. CASE Allocate(t)
    BY <2>4 DEF Allocate, Allocated, Unlocked
  <2>5. CASE Insert(t) \/ RefForList(t)
    BY <2>5 DEF Insert, RefForList
  <2>6. CASE Remove(t) \/ Share(t)
    BY <2>6 DEF Remove, Share
  <2>7. CASE DropRefOfList(t) \/ ReleaseList(t)
    BY <2>7 DEF DropRefOfList, ReleaseList
  <2>8. CASE Done(t) \/ Destroy(t)
    BY <2>8 DEF Done, Destroy
  <2> QED
    BY <1>5, <2>1, <2>2, <2>3, <2>31, <2>32, <2>4, <2>5, <2>6, <2>7, <2>8 DEF Proceed
<1> QED
  BY <1>1, <1>2, <1>3, <1>4, <1>5 DEF Next

LEMMA MarksKept == ASSUME IInv, [Next]_vars
                   PROVE  MarksFit' /\ marks' \in [Students -> 0 .. MarksRange + INCR - 1]
<1> USE NoneIsNothing, MarksAreNumbers
    DEF IInv, TypeOK, PlacesFit, WithoutStudent, Reading, Using, MarksFit
<1>1. CASE UNCHANGED vars
  BY <1>1 DEF vars, students
<1> DEFINE Goal == MarksFit' /\ marks' \in [Students -> 0 .. MarksRange + INCR - 1]
<1> USE RolesDisjoint DEF Goto, GiveUp, Found, Users, Writers, Threads, students
<1>2. ASSUME NEW t \in Threads, EnterList(t) \/ EnterListAlone(t) \/ LockStudent(t) PROVE Goal
  BY <1>2 DEF EnterList, EnterListAlone, LockStudent
<1>5. ASSUME NEW t \in Threads, Proceed(t) PROVE Goal
  <2>1. CASE Lookup(t) \/ TakeRef(t)
    BY <2>1 DEF Lookup, TakeRef
  <2>2. CASE UnlockList(t)
    BY <2>2 DEF UnlockList
  <2>3. CASE Read(t)
    BY <2>3 DEF Read, UnlockStudent
  <2>31. CASE Increment(t)
    <3>1. stud[t] \in Students /\ marks[stud[t]] < MarksRange
      BY <2>31 DEF Increment, StudentLocksExact
    <3> QED
      BY <2>31, <3>1 DEF Increment
  <2>32. CASE Wrap(t)
    <3>1. stud[t] \in Students
      BY <2>32 DEF Wrap
    <3>2. \A x \in 0 .. MarksRange + INCR - 1 : x % MarksRange \in 0 .. MarksRange - 1
      OBVIOUS
    <3>3. marks'[stud[t]] \in 0 .. MarksRange - 1
      BY <2>32, <3>1, <3>2 DEF Wrap
    <3> QED
      BY <2>32, <3>1, <3>3 DEF Wrap, UnlockStudent
  <2>4. CASE Allocate(t)
    BY <2>4 DEF Allocate, Allocated, Unlocked
  <2>5. CASE Insert(t) \/ RefForList(t)
    BY <2>5 DEF Insert, RefForList
  <2>6. CASE Remove(t) \/ Share(t)
    BY <2>6 DEF Remove, Share
  <2>7. CASE DropRefOfList(t) \/ ReleaseList(t)
    BY <2>7 DEF DropRefOfList, ReleaseList
  <2>8. CASE Done(t) \/ Destroy(t)
    BY <2>8 DEF Done, Destroy
  <2> QED
    BY <1>5, <2>1, <2>2, <2>3, <2>31, <2>32, <2>4, <2>5, <2>6, <2>7, <2>8 DEF Proceed
<1> QED
  BY <1>1, <1>2, <1>5 DEF Next

(* Who has the lock of the list for writing has it alone. *)
LEMMA OneWriter ==
  ASSUME IInv, NEW t \in Threads, NEW u \in Threads, at[t] \in Writing
  PROVE  at[u] \notin Reading /\ (at[u] \in Writing => u = t)
  BY NoneIsNothing DEF IInv, ListLockExact, Exclusive, Threads, Users, Writers

LEMMA OneReader ==
  ASSUME IInv, NEW t \in Threads, NEW u \in Threads, at[t] \in Reading
  PROVE  at[u] \notin Writing
  BY NoneIsNothing DEF IInv, ListLockExact, Exclusive, Threads, Users, Writers

Holds(t, s) ==
  stud[t] = s /\ at[t] \in {"lock", "unlist", "use", "wrap", "drop", "release", "done"}

(* A step of t changes the number of holders of a student by t alone. *)
LEMMA HoldersCounted ==
  ASSUME NEW t \in Threads, NEW s,
         \A u \in Threads : u # t => at'[u] = at[u] /\ stud'[u] = stud[u]
  PROVE  /\ Cardinality(HoldersOf(s)) \in Nat
         /\ Cardinality(HoldersOf(s)') =
              Cardinality(HoldersOf(s)) + (IF Holds(t, s)' THEN 1 ELSE 0) - (IF Holds(t, s) THEN 1 ELSE 0)
<1>1. HoldersOf(s) = {u \in Threads : Holds(u, s)}
  BY DEF HoldersOf, Holds
<1>2. HoldersOf(s)' = {u \in Threads : Holds(u, s)'}
  BY DEF HoldersOf, Holds
<1> DEFINE Others == {u \in Threads : Holds(u, s)} \ {t}
<1>3. \A u \in Threads : u # t => (Holds(u, s)' <=> Holds(u, s))
  BY DEF Holds
<1>4. IsFiniteSet({u \in Threads : Holds(u, s)}) /\ IsFiniteSet(Others) /\ Cardinality(Others) \in Nat
  BY ThreadsFinite, FS_Subset, FS_CardinalityType
<1>5. HoldersOf(s) = IF Holds(t, s) THEN Others \cup {t} ELSE Others
  BY <1>1
<1>6. HoldersOf(s)' = IF Holds(t, s)' THEN Others \cup {t} ELSE Others
  BY <1>2, <1>3
<1>7. Cardinality(Others \cup {t}) = Cardinality(Others) + 1
  BY <1>4, FS_AddElement
<1> HIDE DEF Others
<1>8. Cardinality(HoldersOf(s)) = Cardinality(Others) + (IF Holds(t, s) THEN 1 ELSE 0)
  BY <1>4, <1>5, <1>7
<1>9. Cardinality(HoldersOf(s)') = Cardinality(Others) + (IF Holds(t, s)' THEN 1 ELSE 0)
  BY <1>4, <1>6, <1>7
<1> QED
  BY <1>4, <1>8, <1>9

Exact(s) ==
  roll[s] # None => ref[s] = Cardinality(HoldersOf(s)) + (IF CountedForList(s) THEN 1 ELSE 0)

(* The last reference is dropped by the only thread that knows the student,*)
(* after it left the list.                                                 *)
LEMMA LastReference ==
  ASSUME IInv, NEW t \in Threads, at[t] = "done", ref[stud[t]] = 1
  PROVE  stud[t] \notin Listed /\ \A u \in Threads : stud[u] = stud[t] => u = t
<1> DEFINE s == stud[t]
<1>1. s \in Students /\ roll[s] # None
  BY NoneIsNothing DEF IInv, TypeOK, PlacesFit, WithoutStudent, Allocated
<1>2. 1 = Cardinality(HoldersOf(s)) + (IF CountedForList(s) THEN 1 ELSE 0)
  BY <1>1 DEF IInv, RefCountExact
<1>3. IsFiniteSet(HoldersOf(s)) /\ t \in HoldersOf(s)
  BY ThreadsFinite, FS_Subset DEF HoldersOf
<1>4. Cardinality(HoldersOf(s)) \in Nat /\ Cardinality(HoldersOf(s)) # 0
  BY <1>3, FS_CardinalityType, FS_EmptySet
<1>5. ~CountedForList(s) /\ Cardinality(HoldersOf(s)) = 1
  BY <1>2, <1>4
<1>6. HoldersOf(s) = {t}
  BY <1>3, <1>5, FS_Singleton
<1>7. s \notin Listed
  <2>1. SUFFICES ASSUME s \in Listed PROVE FALSE
    OBVIOUS
  <2>2. PICK u \in Threads : stud[u] = s /\ at[u] = "listed"
    BY <1>5, <2>1 DEF CountedForList
  <2> QED
    BY <2>2 DEF IInv, ListFits, Alone
<1>8. ASSUME NEW u \in Threads, stud[u] = s PROVE u = t
  <2>1. at[u] \notin {"share", "drop"}
    BY <1>5, <1>8 DEF CountedForList
  <2>2. at[u] \notin {"ref", "lock", "unlist", "listed"}
    BY <1>7, <1>8 DEF IInv, ListFits
  <2>3. at[u] \in {"insert", "destroy"} => u = t
    BY <1>8 DEF IInv, ListFits, Alone
  <2>4. at[u] \in {"use", "wrap", "release", "done"} => u \in HoldersOf(s)
    BY <1>8 DEF HoldersOf
  <2>5. at[u] \in Places /\ at[u] \notin WithoutStudent
    BY <1>1, <1>8, NoneIsNothing DEF IInv, TypeOK, PlacesFit
  <2> QED
    BY <1>6, <2>1, <2>2, <2>3, <2>4, <2>5 DEF Places, WithoutStudent
<1> QED
  BY <1>7, <1>8

(* The count stays exact if it changes by as much as the reference of t    *)
(* and that of the list.                                                   *)
LEMMA ExactAfter ==
  ASSUME IInv, NEW t \in Threads, NEW s \in Students,
         \A u \in Threads : u # t => at'[u] = at[u] /\ stud'[u] = stud[u],
         roll[s] # None, ref'[s] \in Int,
         ref'[s] - (IF Holds(t, s)' THEN 1 ELSE 0) - (IF CountedForList(s)' THEN 1 ELSE 0)
           = ref[s] - (IF Holds(t, s) THEN 1 ELSE 0) - (IF CountedForList(s) THEN 1 ELSE 0)
  PROVE  Exact(s)'
<1>1. /\ Cardinality(HoldersOf(s)) \in Nat
      /\ Cardinality(HoldersOf(s)') =
           Cardinality(HoldersOf(s)) + (IF Holds(t, s)' THEN 1 ELSE 0) - (IF Holds(t, s) THEN 1 ELSE 0)
  BY HoldersCounted
<1>2. ref[s] = Cardinality(HoldersOf(s)) + (IF CountedForList(s) THEN 1 ELSE 0)
  BY DEF IInv, RefCountExact
<1>3. ref'[s] = Cardinality(HoldersOf(s)') + (IF CountedForList(s)' THEN 1 ELSE 0)
  BY <1>1, <1>2
<1> QED
  BY <1>3 DEF Exact

OnList(t, s) == stud[t] = s /\ at[t] = "listed"
OffList(t, s) == stud[t] = s /\ at[t] \in {"share", "drop"}

LEMMA CountedSame ==
  ASSUME NEW t \in Threads, NEW s,
         \A u \in Threads : u # t => at'[u] = at[u] /\ stud'[u] = stud[u],
         s \in Listed' <=> s \in Listed,
         OnList(t, s)' <=> OnList(t, s), OffList(t, s)' <=> OffList(t, s)
  PROVE  CountedForList(s)' <=> CountedForList(s)
<1>1. CountedForList(s) <=> \/ s \in Listed /\ ~\E u \in Threads : OnList(u, s)
                            \/ \E u \in Threads : OffList(u, s)
  BY DEF CountedForList, OnList, OffList
<1>2. CountedForList(s)' <=> \/ s \in Listed' /\ ~\E u \in Threads : OnList(u, s)'
                             \/ \E u \in Threads : OffList(u, s)'
  BY DEF CountedForList, OnList, OffList
<1>3. \A u \in Threads : (OnList(u, s)' <=> OnList(u, s)) /\ (OffList(u, s)' <=> OffList(u, s))
  BY DEF OnList, OffList
<1> QED
  BY <1>1, <1>2, <1>3

(* Most steps leave the references of a student alone. *)
LEMMA ExactUnmoved ==
  ASSUME IInv, NEW t \in Threads, NEW s \in Students,
         \A u \in Threads : u # t => at'[u] = at[u] /\ stud'[u] = stud[u],
         s \in Listed' <=> s \in Listed,
         OnList(t, s)' <=> OnList(t, s), OffList(t, s)' <=> OffList(t, s),
         Holds(t, s)' <=> Holds(t, s), ref'[s] = ref[s], roll'[s] # None => roll[s] # None
  PROVE  Exact(s)'
<1>1. CountedForList(s)' <=> CountedForList(s)
  BY CountedSame
<1>2. ref'[s] \in Int
  BY DEF IInv, TypeOK
<1>3. CASE roll[s] # None
  BY <1>1, <1>2, <1>3, ExactAfter
<1>4. CASE roll'[s] = None
  BY <1>4 DEF Exact
<1> QED
  BY <1>3, <1>4

(* A step that counts or drops the reference of t itself. *)
LEMMA ExactMoved ==
  ASSUME IInv, NEW t \in Threads, NEW s \in Students,
         \A u \in Threads : u # t => at'[u] = at[u] /\ stud'[u] = stud[u],
         Listed' = Listed, roll[s] # None,
         OnList(t, s)' <=> OnList(t, s), OffList(t, s)' <=> OffList(t, s),
         \/ Holds(t, s)' /\ ~Holds(t, s) /\ ref'[s] = ref[s] + 1
         \/ ~Holds(t, s)' /\ Holds(t, s) /\ ref'[s] = ref[s] + (-1)
  PROVE  Exact(s)'
<1>1. CountedForList(s)' <=> CountedForList(s)
  BY CountedSame
<1>2. ref[s] \in Int
  BY DEF IInv, TypeOK
<1>3. ref'[s] \in Int
  BY <1>2
<1> QED
  BY <1>1, <1>2, <1>3, ExactAfter

(* The list's own reference: counted after the insertion, dropped after    *)
(* the removal, and owed in between.                                       *)
LEMMA CountedFirst ==
  ASSUME IInv, NEW t \in Threads, NEW s \in Students, s = stud[t], RefForList(t)
  PROVE  Exact(s)'
<1>1. s \in Students /\ s \in Listed /\ at[t] = "listed" /\ roll[s] # None
  BY NoneIsNothing DEF RefForList, Goto, IInv, TypeOK, PlacesFit, WithoutStudent, ListFits, Allocated
<1>2. /\ \A u \in Threads : u # t => at'[u] = at[u] /\ stud'[u] = stud[u]
      /\ at'[t] = "idle" /\ stud'[t] = None
      /\ Listed' = Listed
      /\ ref'[s] = ref[s] + 1 /\ ref[s] \in Int
  BY <1>1, SameListed DEF RefForList, Goto, AddRef, IInv, TypeOK
<1>3. \A u \in Threads : at[u] \in Writing => u = t
  BY <1>1, OneWriter DEF Writing
<1>4. ~CountedForList(s)
  BY <1>1, <1>3 DEF CountedForList, Writing
<1>5. CountedForList(s)'
  <2>1. ~\E u \in Threads : stud'[u] = s /\ at'[u] = "listed"
    BY <1>2, <1>3 DEF Writing
  <2> QED
    BY <1>1, <1>2, <2>1 DEF CountedForList
<1>6. ~Holds(t, s) /\ ~Holds(t, s)'
  BY <1>1, <1>2 DEF Holds
<1>7. ref'[s] \in Int
  BY <1>2
<1> QED
  BY <1>1, <1>2, <1>4, <1>5, <1>6, <1>7, ExactAfter

LEMMA CountedLast ==
  ASSUME IInv, NEW t \in Threads, NEW s \in Students, s = stud[t], DropRefOfList(t)
  PROVE  Exact(s)'
<1>1. s \in Students /\ s \notin Listed /\ at[t] = "drop" /\ roll[s] # None
  BY NoneIsNothing DEF DropRefOfList, Goto, IInv, TypeOK, PlacesFit, WithoutStudent, ListFits, Allocated
<1>2. /\ \A u \in Threads : u # t => at'[u] = at[u] /\ stud'[u] = stud[u]
      /\ at'[t] = "release" /\ stud'[t] = s
      /\ Listed' = Listed
      /\ ref'[s] = ref[s] + (-1) /\ ref[s] \in Int
  BY <1>1, SameListed DEF DropRefOfList, Goto, AddRef, IInv, TypeOK
<1>3. \A u \in Threads : at[u] \in Writing => u = t
  BY <1>1, OneWriter DEF Writing
<1>4. CountedForList(s)
  BY <1>1 DEF CountedForList
<1>5. ~CountedForList(s)'
  <2>1. ~\E u \in Threads : stud'[u] = s /\ at'[u] \in {"share", "drop"}
    BY <1>2, <1>3 DEF Writing
  <2> QED
    BY <1>1, <1>2, <2>1 DEF CountedForList
<1>6. Holds(t, s) /\ Holds(t, s)'
  BY <1>1, <1>2 DEF Holds
<1>7. ref'[s] \in Int
  BY <1>2
<1> QED
  BY <1>1, <1>2, <1>4, <1>5, <1>6, <1>7, ExactAfter

LEMMA ExactInserted ==
  ASSUME IInv, NEW t \in Threads, NEW s \in Students, Insert(t), roll[s] # None
  PROVE  Exact(s)'
<1>1. /\ \A u \in Threads : u # t => at'[u] = at[u] /\ stud'[u] = stud[u]
      /\ at[t] = "insert" /\ at'[t] = "listed" /\ stud'[t] = stud[t]
      /\ ref'[s] = ref[s] /\ ref'[s] \in Int
  BY DEF Insert, Goto, IInv, TypeOK
<1>2. Listed' = Listed \cup {stud[t]} /\ stud[t] \notin Listed
  BY InsertLists
<1>3. \A u \in Threads : at[u] \in Writing => u = t
  BY <1>1, OneWriter DEF Writing
<1>4. CountedForList(s)' <=> CountedForList(s)
  <2>1. CASE s = stud[t]
    <3>1. ~CountedForList(s)
      BY <1>1, <1>2, <1>3, <2>1 DEF CountedForList, Writing
    <3>2. ~CountedForList(s)'
      <4>1. \E u \in Threads : stud'[u] = s /\ at'[u] = "listed"
        BY <1>1, <2>1
      <4>2. ~\E u \in Threads : stud'[u] = s /\ at'[u] \in {"share", "drop"}
        BY <1>1, <1>3 DEF Writing
      <4> QED
        BY <4>1, <4>2 DEF CountedForList
    <3> QED
      BY <3>1, <3>2
  <2>2. CASE s # stud[t]
    BY <1>1, <1>2, <2>2, CountedSame DEF OnList, OffList
  <2> QED
    BY <2>1, <2>2
<1>5. ~Holds(t, s) /\ ~Holds(t, s)'
  BY <1>1 DEF Holds
<1> QED
  BY <1>1, <1>4, <1>5, ExactAfter

LEMMA ExactRemoved ==
  ASSUME IInv, NEW t \in Threads, NEW s \in Students, NEW d \in Listed,
         lst' = LL!singly_ll_delete_node_by_data_ptr(lst, d), stud' = [stud EXCEPT ![t] = d],
         Goto(t, "remove", "share"), ref' = ref, roll[s] # None
  PROVE  Exact(s)'
<1>1. /\ \A u \in Threads : u # t => at'[u] = at[u] /\ stud'[u] = stud[u]
      /\ at[t] = "remove" /\ at'[t] = "share" /\ stud'[t] = d /\ stud[t] = None
      /\ ref'[s] = ref[s] /\ ref'[s] \in Int
  BY DEF Goto, IInv, TypeOK, PlacesFit, WithoutStudent
<1>2. Listed' = Listed \ {d}
  BY RemoveUnlists
<1>3. \A u \in Threads : at[u] \in Writing => u = t
  BY <1>1, OneWriter DEF Writing
<1>4. CountedForList(s)' <=> CountedForList(s)
  <2>1. CASE s = d
    <3>1. CountedForList(s)
      BY <1>1, <1>3, <2>1 DEF CountedForList, Writing
    <3>2. CountedForList(s)'
      <4>1. \E u \in Threads : stud'[u] = s /\ at'[u] \in {"share", "drop"}
        BY <1>1, <2>1
      <4> QED
        BY <4>1 DEF CountedForList
    <3> QED
      BY <3>1, <3>2
  <2>2. CASE s # d
    BY <1>1, <1>2, <2>2, CountedSame, NoneIsNothing DEF OnList, OffList
  <2> QED
    BY <2>1, <2>2
<1>5. ~Holds(t, s) /\ ~Holds(t, s)'
  BY <1>1 DEF Holds
<1> QED
  BY <1>1, <1>4, <1>5, ExactAfter

LEMMA ExactAllocated ==
  ASSUME IInv, NEW t \in Threads, NEW s \in Students, roll[s] = None,
         stud' = [stud EXCEPT ![t] = s], Goto(t, "find", "insert"), ref' = [ref EXCEPT ![s] = 0], lst' = lst
  PROVE  Exact(s)'
<1>1. /\ \A u \in Threads : u # t => at'[u] = at[u] /\ stud'[u] = stud[u] /\ stud[u] # s
      /\ at'[t] = "insert" /\ stud'[t] = s /\ stud[t] # s
      /\ Listed' = Listed /\ s \notin Listed
      /\ ref'[s] = 0
  BY SameListed, NoneIsNothing DEF Goto, IInv, TypeOK, Allocated
<1>2. ~CountedForList(s)'
  <2>1. ~\E u \in Threads : stud'[u] = s /\ at'[u] \in {"share", "drop"}
    BY <1>1
  <2> QED
    BY <1>1, <2>1 DEF CountedForList
<1>3. HoldersOf(s)' = {}
  BY <1>1 DEF HoldersOf
<1> QED
  BY <1>1, <1>2, <1>3, FS_EmptySet DEF Exact

LEMMA RefCountKept == ASSUME IInv, [Next]_vars PROVE RefCountExact'
<1> SUFFICES ASSUME NEW s \in Students PROVE Exact(s)'
  BY DEF RefCountExact, Exact
<1>1. CASE UNCHANGED vars
  <2>1. Exact(s)
    BY DEF IInv, RefCountExact, Exact
  <2>2. HoldersOf(s)' = HoldersOf(s) /\ (CountedForList(s)' <=> CountedForList(s)) /\ roll' = roll /\ ref' = ref
    BY <1>1 DEF vars, students, HoldersOf, CountedForList, Listed
  <2> QED
    BY <2>1, <2>2 DEF Exact
<1>2. \A t \in Threads : stud[t] = None <=> at[t] \in WithoutStudent
  BY DEF IInv, PlacesFit
<1>3. /\ at \in [Threads -> Places] /\ stud \in [Threads -> Students \cup {None}]
      /\ ref \in [Students -> Nat] /\ roll \in [Students -> Rolls \cup {None}] /\ Listed \subseteq Students
  BY DEF IInv, TypeOK
<1> USE NoneIsNothing DEF Goto, GiveUp, students, locks, WithoutStudent, Places, Found
<1>4. ASSUME NEW t \in Threads, EnterList(t) \/ EnterListAlone(t) \/ LockStudent(t) PROVE Exact(s)'
  BY <1>2, <1>3, <1>4, SameListed, ExactUnmoved
     DEF EnterList, EnterListAlone, LockStudent, OnList, OffList, Holds
<1>5. ASSUME NEW t \in Threads, Proceed(t) PROVE Exact(s)'
  <2>1. CASE Lookup(t)
    BY <1>2, <1>3, <2>1, SameListed, ExactUnmoved DEF Lookup, OnList, OffList, Holds
  <2>2. CASE UnlockList(t) \/ ReleaseList(t)
    BY <1>2, <1>3, <2>2, SameListed, ExactUnmoved DEF UnlockList, ReleaseList, OnList, OffList, Holds
  <2>3. CASE Read(t) \/ Increment(t) \/ Wrap(t)
    BY <1>2, <1>3, <2>3, SameListed, ExactUnmoved
       DEF Read, Increment, Wrap, UnlockStudent, OnList, OffList, Holds
  <2>4. CASE Destroy(t)
    BY <1>2, <1>3, <2>4, SameListed, ExactUnmoved DEF Destroy, OnList, OffList, Holds
  <2>5. CASE TakeRef(t) \/ Share(t)
    <3>1. CASE s = stud[t]
      <4>1. roll[s] # None
        BY <3>1 DEF IInv, Allocated
      <4> QED
        BY <1>2, <1>3, <2>5, <3>1, <4>1, SameListed, ExactMoved DEF TakeRef, Share, AddRef, OnList, OffList, Holds
    <3>2. CASE s # stud[t]
      BY <1>2, <1>3, <2>5, <3>2, SameListed, ExactUnmoved DEF TakeRef, Share, AddRef, OnList, OffList, Holds
    <3> QED
      BY <3>1, <3>2
  <2>6. CASE Done(t)
    <3>1. CASE s = stud[t]
      <4>1. roll[s] # None
        BY <3>1 DEF IInv, Allocated
      <4> QED
        BY <1>2, <1>3, <2>6, <3>1, <4>1, SameListed, ExactMoved DEF Done, AddRef, OnList, OffList, Holds
    <3>2. CASE s # stud[t]
      BY <1>2, <1>3, <2>6, <3>2, SameListed, ExactUnmoved DEF Done, AddRef, OnList, OffList, Holds
    <3> QED
      BY <3>1, <3>2
  <2>7. CASE RefForList(t)
    <3>1. CASE s = stud[t]
      BY <2>7, <3>1, CountedFirst
    <3>2. CASE s # stud[t]
      BY <1>2, <1>3, <2>7, <3>2, SameListed, ExactUnmoved DEF RefForList, AddRef, OnList, OffList, Holds
    <3> QED
      BY <3>1, <3>2
  <2>8. CASE DropRefOfList(t)
    <3>1. CASE s = stud[t]
      BY <2>8, <3>1, CountedLast
    <3>2. CASE s # stud[t]
      BY <1>2, <1>3, <2>8, <3>2, SameListed, ExactUnmoved DEF DropRefOfList, AddRef, OnList, OffList, Holds
    <3> QED
      BY <3>1, <3>2
  <2>9. CASE Insert(t)
    <3>1. CASE roll[s] # None
      BY <2>9, <3>1, ExactInserted
    <3>2. CASE roll[s] = None
      BY <2>9, <3>2 DEF Insert, Exact
    <3> QED
      BY <3>1, <3>2
  <2>10. CASE Remove(t)
    <3>1. CASE GiveUp(t)
      BY <1>2, <1>3, <2>10, <3>1, SameListed, ExactUnmoved DEF Remove, OnList, OffList, Holds
    <3>2. CASE ~GiveUp(t)
      <4>1. CASE roll[s] # None
        BY <2>10, <3>2, <4>1, ExactRemoved DEF Remove
      <4>2. CASE roll[s] = None
        BY <2>10, <3>2, <4>2 DEF Remove, Exact
      <4> QED
        BY <4>1, <4>2
    <3> QED
      BY <3>1, <3>2
  <2>11. CASE Allocate(t)
    <3>1. CASE GiveUp(t)
      BY <1>2, <1>3, <2>11, <3>1, SameListed, ExactUnmoved DEF Allocate, OnList, OffList, Holds
    <3>2. CASE ~GiveUp(t)
      <4>1. PICK d \in Students, r \in Rolls :
              /\ roll[d] = None /\ roll' = [roll EXCEPT ![d] = r] /\ ref' = [ref EXCEPT ![d] = 0]
              /\ stud' = [stud EXCEPT ![t] = d] /\ Goto(t, "find", "insert") /\ lst' = lst
        BY <2>11, <3>2 DEF Allocate
      <4>2. CASE s = d
        BY <4>1, <4>2, ExactAllocated
      <4>3. CASE s # d
        BY <1>2, <1>3, <4>1, <4>3, SameListed, ExactUnmoved DEF OnList, OffList, Holds
      <4> QED
        BY <4>2, <4>3
    <3> QED
      BY <3>1, <3>2
  <2> QED
    BY <1>5, <2>1, <2>2, <2>3, <2>4, <2>5, <2>6, <2>7, <2>8, <2>9, <2>10, <2>11 DEF Proceed
<1> QED
  BY <1>1, <1>4, <1>5 DEF Next

LEMMA LocksTyped ==
  /\ Unlocked \in LockStates
  /\ \A l \in LockStates, t \in Threads :
       ReadLocked(l, t) \in LockStates /\ WriteLocked(l, t) \in LockStates /\ Released(l, t) \in LockStates
  BY DEF LockStates, Unlocked, ReadLocked, WriteLocked, Released

LEMMA TypesKept == ASSUME IInv, [Next]_vars PROVE TypeOK'
<1>1. Listed' \subseteq Students /\ marks' \in [Students -> 0 .. MarksRange + INCR - 1]
  BY ListsKept, MarksKept
<1>2. /\ lstLock \in LockStates /\ studLock \in [Students -> LockStates]
      /\ roll \in [Students -> Rolls \cup {None}] /\ ref \in [Students -> Nat]
      /\ at \in [Threads -> Places] /\ stud \in [Threads -> Students \cup {None}]
      /\ Listed \subseteq Students
  BY DEF IInv, TypeOK
<1> USE <1>2 DEF Next, Proceed, EnterList, LockStudent, EnterListAlone, Lookup, TakeRef, UnlockList,
     Read, Increment, Wrap, Allocate, Insert, RefForList, Remove, Share, DropRefOfList, ReleaseList,
     Done, Destroy, GiveUp, vars, students, locks
<1>3. at' \in [Threads -> Places]
  BY DEF Goto, Places
<1>4. stud' \in [Threads -> Students \cup {None}]
  BY DEF UnlockStudent, Found
<1>5. roll' \in [Students -> Rolls \cup {None}]
  OBVIOUS
<1>6. ref' \in [Students -> Nat]
  BY DEF AddRef
<1>7. lstLock' \in LockStates
  BY LocksTyped DEF LeaveList, UnlockStudent
<1>8. studLock' \in [Students -> LockStates]
  BY LocksTyped DEF UnlockStudent
<1> QED
  BY <1>1, <1>3, <1>4, <1>5, <1>6, <1>7, <1>8 DEF TypeOK

NumberFree == \A t \in Threads : at[t] = "insert" => \A s \in Listed : roll[s] # roll[stud[t]]

LEMMA NumberIsFree == (InsertionSucceeds <=> NumberFree) /\ (InsertionSucceeds' <=> NumberFree')
<1>1. InsertionSucceeds <=> NumberFree
  BY DEF InsertionSucceeds, NumberFree, Found
<1>2. InsertionSucceeds' <=> NumberFree'
  BY DEF InsertionSucceeds, NumberFree, Found
<1> QED
  BY <1>1, <1>2

LEMMA ObjectsKept == ASSUME IInv, [Next]_vars PROVE Allocated' /\ ListFits' /\ NumberFree'
<1> DEFINE Objects == Allocated' /\ ListFits' /\ NumberFree'
<1>2. /\ at \in [Threads -> Places] /\ stud \in [Threads -> Students \cup {None}]
      /\ ref \in [Students -> Nat] /\ roll \in [Students -> Rolls \cup {None}] /\ Listed \subseteq Students
      /\ \A t \in Threads : stud[t] = None <=> at[t] \in WithoutStudent
      /\ Allocated /\ ListFits /\ NumberFree
  BY NumberIsFree DEF IInv, TypeOK, PlacesFit
<1>1. CASE UNCHANGED vars
  <2>1. Listed' = Listed
    BY <1>1, SameListed DEF vars, students
  <2> QED
    BY <1>1, <1>2, <2>1 DEF vars, students, Allocated, ListFits, Alone, NumberFree
<1> USE NoneIsNothing DEF Goto, GiveUp, students, locks, WithoutStudent, Places, Found, Allocated, ListFits, Alone, NumberFree
<1>3. ASSUME NEW t \in Threads, EnterList(t) \/ EnterListAlone(t) \/ LockStudent(t) PROVE Objects
  BY <1>2, <1>3, SameListed DEF EnterList, EnterListAlone, LockStudent
<1>4. ASSUME NEW t \in Threads, Proceed(t) PROVE Objects
  <2>1. CASE Lookup(t)
    <3>1. Listed' = Listed
      BY <2>1, SameListed DEF Lookup
    <3>2. \A u \in Threads : at[u] \notin Writing
      BY <2>1, OneReader DEF Lookup, Reading
    <3> QED
      BY <1>2, <2>1, <3>1, <3>2 DEF Lookup, Writing
  <2>2. CASE TakeRef(t) \/ UnlockList(t)
    BY <1>2, <2>2, SameListed DEF TakeRef, UnlockList, AddRef
  <2>3. CASE Read(t) \/ Increment(t) \/ Wrap(t)
    BY <1>2, <2>3, SameListed DEF Read, Increment, Wrap, UnlockStudent
  <2>4. CASE Allocate(t)
    <3>1. CASE GiveUp(t)
      BY <1>2, <2>4, <3>1, SameListed DEF Allocate
    <3>2. CASE ~GiveUp(t)
      <4>1. PICK d \in Students, r \in Rolls :
              /\ Found(r) = {}
              /\ roll[d] = None /\ roll' = [roll EXCEPT ![d] = r] /\ ref' = [ref EXCEPT ![d] = 0]
              /\ stud' = [stud EXCEPT ![t] = d] /\ Goto(t, "find", "insert") /\ lst' = lst
        BY <2>4, <3>2 DEF Allocate
      <4>2. \A u \in Threads : at[u] \in Writing => u = t
        BY <4>1, OneWriter DEF Writing
      <4>3. Listed' = Listed /\ d \notin Listed /\ \A u \in Threads : stud[u] # d
        BY <1>2, <4>1, SameListed
      <4>4. Allocated'
        BY <1>2, <4>1, <4>3
      <4>5. ListFits'
        BY <1>2, <4>1, <4>3
      <4>6. NumberFree'
        BY <1>2, <4>1, <4>2, <4>3 DEF Writing
      <4> QED
        BY <4>4, <4>5, <4>6
    <3> QED
      BY <3>1, <3>2
  <2>5. CASE Insert(t)
    <3>1. Listed' = Listed \cup {stud[t]} /\ stud[t] \in Students \ Listed
      BY <2>5, InsertLists
    <3>2. \A u \in Threads : at[u] \in Writing => u = t
      BY <2>5, OneWriter DEF Insert, Writing
    <3> QED
      BY <1>2, <2>5, <3>1, <3>2 DEF Insert, Writing
  <2>6. CASE RefForList(t)
    BY <1>2, <2>6, SameListed DEF RefForList, AddRef
  <2>7. CASE Remove(t)
    <3>1. CASE GiveUp(t)
      BY <1>2, <2>7, <3>1, SameListed DEF Remove
    <3>2. CASE ~GiveUp(t)
      <4>1. PICK d \in Listed :
              /\ lst' = LL!singly_ll_delete_node_by_data_ptr(lst, d)
              /\ stud' = [stud EXCEPT ![t] = d] /\ Goto(t, "remove", "share")
              /\ UNCHANGED <<roll, marks, ref, locks>>
        BY <2>7, <3>2 DEF Remove
      <4>2. Listed' = Listed \ {d}
        BY <4>1, RemoveUnlists
      <4>3. \A u \in Threads : at[u] \notin Reading /\ (at[u] \in Writing => u = t)
        BY <4>1, OneWriter DEF Writing
      <4> QED
        BY <1>2, <4>1, <4>2, <4>3 DEF Reading, Writing
    <3> QED
      BY <3>1, <3>2
  <2>8. CASE Share(t) \/ DropRefOfList(t) \/ ReleaseList(t)
    BY <1>2, <2>8, SameListed DEF Share, DropRefOfList, ReleaseList, AddRef
  <2>9. CASE Done(t)
    <3>1. CASE ref'[stud[t]] = 0
      <4>1. ref[stud[t]] = 1 /\ at[t] = "done" /\ Listed' = Listed
        BY <1>2, <2>9, <3>1, SameListed DEF Done, AddRef
      <4>2. stud[t] \notin Listed /\ \A u \in Threads : stud[u] = stud[t] => u = t
        BY <4>1, LastReference
      <4>3. \A u \in Threads : at[u] = "destroy" => ref'[stud[u]] = 0
        BY <1>2, <2>9, <3>1, <4>2 DEF Done, AddRef
      <4> QED
        BY <1>2, <2>9, <3>1, <4>1, <4>2, <4>3 DEF Done, AddRef
    <3>2. CASE ref'[stud[t]] # 0
      <4>1. Listed' = Listed
        BY <2>9, SameListed DEF Done
      <4>2. \A u \in Threads : at[u] = "destroy" => stud[u] # stud[t]
        BY <1>2, <2>9 DEF Done
      <4> QED
        BY <1>2, <2>9, <3>2, <4>1, <4>2 DEF Done, AddRef
    <3> QED
      BY <3>1, <3>2
  <2>10. CASE Destroy(t)
    <3>1. Listed' = Listed /\ stud[t] \notin Listed /\ \A u \in Threads : stud[u] = stud[t] => u = t
      BY <1>2, <2>10, SameListed DEF Destroy
    <3> QED
      BY <1>2, <2>10, <3>1 DEF Destroy
  <2> QED
    BY <1>4, <2>1, <2>2, <2>3, <2>4, <2>5, <2>6, <2>7, <2>8, <2>9, <2>10 DEF Proceed
<1> QED
  BY <1>1, <1>3, <1>4 DEF Next

-------------------------------------------------------------------------------
LEMMA InitHolds == Init => IInv
<1> SUFFICES ASSUME Init PROVE IInv
  OBVIOUS
<1>1. ListIsChain /\ Listed = {}
  <2>1. Chain(lst, {}, 0, <<>>)
    BY InitChain DEF Init
  <2> QED
    BY <2>1, ChainHeld DEF ListIsChain, Listed
<1>2. TypeOK
  <2>1. lstLock \in LockStates /\ studLock \in [Students -> LockStates]
    BY LocksTyped DEF Init
  <2>2. 0 \in 0 .. MarksRange + INCR - 1
    BY MarksAreNumbers
  <2> QED
    BY <1>1, <2>1, <2>2 DEF Init, TypeOK, Places
<1>3. PlacesFit /\ ListLockExact /\ StudentLocksExact
  BY NoneIsNothing DEF Init, PlacesFit, ListLockExact, StudentLocksExact, Exclusive, Unlocked, WithoutStudent,
     Reading, Writing, Using, Threads, Users, Writers
<1>4. Allocated /\ ListFits /\ InsertionSucceeds
  BY <1>1, NoneIsNothing DEF Init, Allocated, ListFits, InsertionSucceeds, Found
<1>5. RefCountExact /\ MarksFit
  BY MarksAreNumbers DEF Init, RefCountExact, MarksFit
<1> QED
  BY <1>1, <1>2, <1>3, <1>4, <1>5 DEF IInv

(* The invariant holds whatever the threads do: where a thread is tells    *)
(* which locks it holds, and what its student is to the list.              *)
THEOREM Invariant == Spec => []IInv
<1>1. ASSUME IInv, [Next]_vars PROVE IInv'
  BY <1>1, TypesKept, ListsKept, PlacesKept, ListLockKept, StudentLocksKept, ObjectsKept, NumberIsFree,
     RefCountKept, MarksKept DEF IInv
<1> QED
  BY InitHolds, <1>1, PTL DEF Spec

(* The list of students keeps its count, its links and its memory in       *)
(* agreement, and every variable its type (LinkedListApi.c under the lock  *)
(* of student_list.c).                                                     *)
THEOREM ListConsistent == Spec => []ListSound
<1>1. IInv => ListSound
  BY ChainConsistent DEF IInv, ListIsChain, ListSound
<1> QED
  BY Invariant, <1>1, PTL

(* refcount.c: the count of a student is the number of references to it,   *)
(* the list's included, so that no assertion on it fails.                  *)
THEOREM CountsReferences == Spec => []RefCountExact
<1>1. IInv => RefCountExact
  BY DEF IInv
<1> QED
  BY Invariant, <1>1, PTL

(* student_destroy: nobody uses a student that was freed, and it is freed  *)
(* once, with its lock open.                                               *)
THEOREM FreedOnce == Spec => []NoUseAfterFree
<1>1. ASSUME IInv PROVE NoUseAfterFree
  <2>1. ASSUME NEW s \in Students, roll[s] = None PROVE studLock[s] = Unlocked
    <3>1. studLock[s] \in LockStates /\ \A t \in Threads : stud[t] # s
      BY <1>1, <2>1, NoneIsNothing DEF IInv, TypeOK, Allocated
    <3>2. studLock[s].readers = {} /\ studLock[s].writer = None
      BY <1>1, <3>1 DEF IInv, StudentLocksExact, LockStates
    <3> QED
      BY <3>1, <3>2 DEF LockStates, Unlocked
  <2> QED
    BY <1>1, <2>1 DEF NoUseAfterFree, IInv, Allocated, ListFits, Alone
<1> QED
  BY Invariant, <1>1, PTL

(* create_fn: the insertion that its assertion expects to succeed does,    *)
(* for the lock of the list is held from the lookup on.                    *)
THEOREM InsertsNew == Spec => []InsertionSucceeds
<1>1. IInv => InsertionSucceeds
  BY DEF IInv
<1> QED
  BY Invariant, <1>1, PTL

(* reader_fn: marks are never seen between the two statements of an        *)
(* update.                                                                 *)
THEOREM ReadsWhole == Spec => []ReadsWholeUpdates
<1>1. ASSUME IInv PROVE ReadsWholeUpdates
  <2>1. SUFFICES ASSUME NEW t \in Readers, at[t] = "use", marks[stud[t]] >= MarksRange PROVE FALSE
    <3>1. \A t \in Readers : at[t] = "use" => marks[stud[t]] \in Int
      BY <1>1, NoneIsNothing, MarksAreNumbers
         DEF IInv, TypeOK, PlacesFit, WithoutStudent, Threads, Users
    <3> QED
      BY <2>1, <3>1, MarksAreNumbers DEF ReadsWholeUpdates
  <2>2. t \in Threads /\ stud[t] \in Students
    BY <1>1, <2>1, NoneIsNothing DEF IInv, TypeOK, PlacesFit, WithoutStudent, Threads, Users
  <2>3. PICK u \in Threads : at[u] = "wrap" /\ stud[u] = stud[t]
    BY <1>1, <2>1, <2>2 DEF IInv, MarksFit
  <2>4. t \in studLock[stud[t]].readers
    BY <1>1, <2>1, <2>2 DEF IInv, StudentLocksExact, Using
  <2>5. studLock[stud[t]].writer = u /\ u # None
    BY <1>1, <2>2, <2>3, NoneIsNothing DEF IInv, PlacesFit, StudentLocksExact, Using
  <2> QED
    BY <1>1, <2>2, <2>4, <2>5 DEF IInv, StudentLocksExact, Exclusive
<1> QED
  BY Invariant, <1>1, PTL

(* delete_fn: once a student has left the list, only the thread deleting   *)
(* it takes another reference to it.                                       *)
THEOREM DeferredLeftAlone == Spec => DeferredUntouched
<1> DEFINE Untouched ==
      \A s \in Students :
        (s \notin Listed /\ roll[s] # None) => HoldersOf(s)' \subseteq HoldersOf(s) \cup Deleters
<1>1. ASSUME IInv, [Next]_vars PROVE [Untouched]_vars
  <2>1. SUFFICES ASSUME Next, NEW s \in Students, s \notin Listed, NEW u \in Threads \ Deleters,
                        stud'[u] = s,
                        at'[u] \in {"lock", "unlist", "use", "wrap", "drop", "release", "done"}
                 PROVE  Holds(u, s)
    BY <1>1 DEF HoldersOf, Holds
  <2>2. PICK t \in Threads : EnterList(t) \/ LockStudent(t) \/ EnterListAlone(t) \/ Proceed(t)
    BY <2>1 DEF Next
  <2>3. /\ stud[u] = s => at[u] # "ref"
        /\ at[u] \notin {"share", "drop", "release"}
        /\ at \in [Threads -> Places] /\ stud \in [Threads -> Students \cup {None}]
    BY <1>1, <2>1 DEF IInv, TypeOK, ListFits, PlacesFit
  <2> QED
    BY <2>1, <2>2, <2>3, NoneIsNothing
       DEF Holds, Proceed, EnterList, LockStudent, EnterListAlone, Lookup, TakeRef, UnlockList, UnlockStudent,
           Read, Increment, Wrap, Allocate, Insert, RefForList, Remove, Share, DropRefOfList, ReleaseList,
           Done, Destroy, GiveUp, Goto
<1> QED
  BY Invariant, <1>1, PTL DEF Spec, DeferredUntouched
===============================================================================
