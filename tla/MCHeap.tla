-------------------------------- MODULE MCHeap --------------------------------
(***************************************************************************)
(* The instances of Heap that TLC checks.                                  *)
(***************************************************************************)
EXTENDS HeapHost

Limit(c, f, k, n) == [cells |-> c, frames |-> f, catches |-> k, nesting |-> n]

\* A choicepoint; a choicepoint and a directive; a choicepoint and a catch.
MCLimits == {Limit(9, 1, 0, 0), Limit(8, 1, 0, 1), Limit(6, 1, 1, 0)}

\* For the finding: a query with neither.
QueryOnly == {Limit(9, 0, 0, 0)}
=============================================================================
