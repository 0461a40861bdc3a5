-------------------------- MODULE MCSolverFindings --------------------------
(***************************************************************************)
(* Programs on which the solver departs from what a comment, a test or the *)
(* manual says of it, one set for each of the runs that expect a           *)
(* violation.                                                              *)
(***************************************************************************)
EXTENDS MCSolver

\* A catch is left, a second one is entered, a collection slides it down.
StaleUncatch ==
  {Collected(Program(<<CatchOf(<<>>, fa, <<>>), CatchOf(<<Pred("q", X)>>, c, <<>>), ThrowOf(c)>>,
                     <<>>, QFacts), FALSE)}

\* A cut among the goals of a directive of a file that a query consults.
DirectiveCut ==
  {Program(<<Pred("q", X), ConsultOf(<<Pred("q", D), CutGoal, FailGoal>>)>>, <<>>, QFacts)}

\* A ball with a variable bound inside a catch that does not match it.
BoundBall ==
  {Program(<<CatchOf(<<Eq(X, fa), ThrowOf(X)>>, c, <<>>)>>, <<>>, QFacts)}

FindingPrograms == StaleUncatch \cup DirectiveCut \cup BoundBall
FindingGoals == GoalsIn(FindingPrograms)
FindingGoalSet == FindingGoals
=============================================================================
