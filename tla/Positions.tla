------------------------------ MODULE Positions ------------------------------
(* Positions in a list: the first, the n-th, the list of some of them. *)
EXTENDS Naturals, Sequences, FiniteSets

First(S) == CHOOSE i \in S : \A j \in S : i <= j

Rank(K, i) == Cardinality({k \in K : k <= i})
Nth(K, n) == CHOOSE i \in K : Rank(K, i) = n

\* The list l with what is at the positions K, in their order.
Keep(l, K) == [n \in 1..Cardinality(K) |-> l[Nth(K, n)]]

=============================================================================
