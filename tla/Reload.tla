------------------------------- MODULE Reload -------------------------------
(***************************************************************************)
(* Files that a query consults while it has choicepoints.  ClauseDb lets   *)
(* goals run and clauses come in any order; here both are in the order     *)
(* that run_query and consult_source give them: a directive's query runs   *)
(* above the choicepoints that were there, and has ended, with all of its  *)
(* own gone, before the next clause is read.  Every predicate is static.   *)
(***************************************************************************)
EXTENDS ClauseDb

VARIABLE bases  \* query_sp_base of the directives of each load in progress

reloadVars == <<vars, bases>>

QueryBase == IF bases = <<>> THEN 0 ELSE bases[Len(bases)]

ReloadConsult(file) == Consult(file) /\ bases' = Append(bases, Len(frames))

\* consult_source is between two directives, or at the end of the text.
BetweenDirectives == bases # <<>> /\ Len(frames) = QueryBase

ReadNext(p, k) == BetweenDirectives /\ LoadClause(p, k) /\ UNCHANGED bases

ReloadEnds ==
  /\ BetweenDirectives /\ Loaded
  /\ bases' = SubSeq(bases, 1, Len(bases) - 1)

\* The query that runs calls, backtracks over its own choicepoints, cuts or ends.
QueryStep ==
  /\ \/ \E p \in UserPreds, k \in Keys : Call(p, k)
     \/ Len(frames) > QueryBase /\ Backtrack
     \/ \E n \in QueryBase .. Len(frames) : CutTo(n)
  /\ UNCHANGED bases

ReloadNext ==
  \/ \E file \in Files : ReloadConsult(file)
  \/ \E p \in UserPreds, k \in Keys : ReadNext(p, k)
  \/ ReloadEnds
  \/ QueryStep

ReloadSpec == Init /\ bases = <<>> /\ [][ReloadNext]_reloadVars

\* The logical update view: no step gives a choicepoint a clause that it did not
\* have (the copy that '$dyn_call' makes keeps this for dynamic predicates).  A file
\* consulted again while one of its predicates has a choicepoint breaks it.
LogicalUpdateView ==
  [][\A n \in 1 .. Len(frames) :
       n <= Len(frames') => AbsCursors'[n].rest \subseteq AbsCursors[n].rest]_reloadVars
=============================================================================
