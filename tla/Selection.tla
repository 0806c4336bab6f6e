----------------------------- MODULE Selection ------------------------------
(***************************************************************************)
(* The items of a list that a loop or a query keeps, in their order.       *)
(* Positions are given as a set.  Where is SelectSeq, without the          *)
(* recursion by which nothing could be proved of it.                       *)
(***************************************************************************)
EXTENDS Integers, Sequences, FiniteSets

\* The n-th of some positions, and the items at them, in order.
Nth(positions, n) == CHOOSE i \in positions : Cardinality({j \in positions : j < i}) = n - 1
ItemsAt(seq, positions) == [n \in 1..Cardinality(positions) |-> seq[Nth(positions, n)]]

\* The items of which P holds, and the first of those with the same key.
Where(seq, P(_)) == ItemsAt(seq, {i \in DOMAIN seq : P(seq[i])})
UniqueBy(seq, key) == ItemsAt(seq, {i \in DOMAIN seq : \A j \in 1..(i - 1) : key[j] # key[i]})

\* A list of whatever.
IsList(x) == Len(x) \in Nat /\ DOMAIN x = 1..Len(x)
=============================================================================
