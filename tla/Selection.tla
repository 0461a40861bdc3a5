------------------------------ MODULE Selection ------------------------------
(***************************************************************************)
(* The part of a sequence that is at some of its positions, in order.      *)
(***************************************************************************)
EXTENDS Integers, Sequences, FiniteSets

\* How many of the numbers S are below i.
NumBelow(S, i) == Cardinality({j \in S : j < i})

\* The n-th of the numbers S.
Nth(S, n) == CHOOSE i \in S : NumBelow(S, i) = n - 1

\* The members of s at the positions S.
Selected(s, S) == [n \in 1 .. Cardinality(S) |-> s[Nth(S, n)]]
=============================================================================
