----------------------------- MODULE MCClauseDb -----------------------------
(***************************************************************************)
(* The instances of ClauseDb that TLC checks: core.pl is one predicate     *)
(* with one clause, a program has the others, whose clauses come from      *)
(* files, from strings and from assert.                                    *)
(***************************************************************************)
EXTENDS ClauseDb, TLC

CONSTANTS core, p, q, any, k1, k2, file1, none, i1, i2, i3, i4

Symmetry == Permutations(Ids) \cup Permutations(Keys \ {any})
              \cup Permutations(UserPreds)
=============================================================================
