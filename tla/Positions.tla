------------------------------ MODULE Positions ------------------------------
(***************************************************************************)
(* A part of a sequence by the positions that are kept: what a loop leaves *)
(* when it passes over some of the elements.                               *)
(***************************************************************************)
EXTENDS Integers, Sequences, FiniteSets

\* The k-th smallest number of P.
Nth(P, k) == CHOOSE i \in P : Cardinality({j \in P : j <= i}) = k

\* The elements of s at the positions of P, in their order.
Picked(s, P) == [k \in 1..Cardinality(P) |-> s[Nth(P, k)]]
=============================================================================
