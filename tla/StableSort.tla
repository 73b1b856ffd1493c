----------------------------- MODULE StableSort -----------------------------
(***************************************************************************)
(* Python's sorted() with a numeric key: stable, so that elements of equal *)
(* keys keep the order of their positions.                                 *)
(***************************************************************************)
EXTENDS Integers, FiniteSets

Before(key, i, j) == key[i] < key[j] \/ (key[i] = key[j] /\ i < j)

\* The positions S in the order of their keys.
SortedBy(S, key) ==
  [k \in 1..Cardinality(S) |->
     CHOOSE i \in S : Cardinality({j \in S : Before(key, j, i)}) = k - 1]

\* The numbers S in order.
InOrder(S) == SortedBy(S, [x \in S |-> x])
=============================================================================
