----------------------------- MODULE BoundedFifo ------------------------------
(***************************************************************************)
(* What a bounded queue promises: what is taken from it comes in the order *)
(* in which it was put, and there is never more than Size of it.           *)
(***************************************************************************)
EXTENDS Integers, Sequences

CONSTANTS Items, Size

VARIABLE items   \* oldest first

Init == items = <<>>

Put(x) == Len(items) < Size /\ items' = Append(items, x)

Take == items # <<>> /\ items' = Tail(items)

Next == (\E x \in Items : Put(x)) \/ Take

Spec == Init /\ [][Next]_items
===============================================================================
