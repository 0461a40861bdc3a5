---------------------------- MODULE ClauseCursors ----------------------------
(***************************************************************************)
(* What the clause database promises the solver: an ordered list of        *)
(* clauses that can grow at both ends and lose any of its members, and     *)
(* cursors, the choicepoints of calls, each with the clauses it has still  *)
(* to try.  A removed clause is never tried again, and one added at the    *)
(* front never is.  One added at the end is seen by the cursors whose goal *)
(* it can match: calls that are not of dynamic predicates have this        *)
(* immediate update view.  It is what the code does and not what it is     *)
(* meant to do: TODO:7 lists it under "correctness" as breaking the        *)
(* logical update view, and module Reload shows that a file consulted      *)
(* again does.  No clause is tried twice or passed over, however the list  *)
(* changes.  Positions do not occur.                                       *)
(***************************************************************************)
EXTENDS Integers, Sequences

CONSTANT Matches(_, _)     \* whether a clause is one that a goal has to try

VARIABLES clauses, cursors

vars == <<clauses, cursors>>

Members == {clauses[i] : i \in 1 .. Len(clauses)}

At(c) == CHOOSE i \in 1 .. Len(clauses) : clauses[i] = c

\* The clauses of S that come after c.
After(c, S) == {x \in S : At(x) > At(c)}

Init == cursors = <<>>

AddLast(c) ==
  /\ clauses' = Append(clauses, c)
  /\ cursors' = [i \in 1 .. Len(cursors) |->
                   IF Matches(cursors[i].goal, c) THEN [cursors[i] EXCEPT !.rest = @ \cup {c}]
                   ELSE cursors[i]]

AddFirst(c) ==
  /\ clauses' = <<c>> \o clauses
  /\ UNCHANGED cursors

\* Those that stay keep their order.
Remove(gone) ==
  /\ Members' = Members \ gone
  /\ \A i, j \in 1 .. Len(clauses') : i < j => At(clauses'[i]) < At(clauses'[j])
  /\ cursors' = [i \in 1 .. Len(cursors) |-> [cursors[i] EXCEPT !.rest = @ \ gone]]

\* One of the candidates resolves.  The goal keeps a cursor if there are more.
Resolve(goal, candidates, older) ==
  \E c \in candidates :
    LET more == After(c, candidates)
    IN  cursors' = IF more = {} THEN older ELSE Append(older, [goal |-> goal, rest |-> more])

Start(goal) == Resolve(goal, {c \in Members : Matches(goal, c)}, cursors)

Continue ==
  /\ cursors # <<>>
  /\ LET newest == cursors[Len(cursors)]
         older == SubSeq(cursors, 1, Len(cursors) - 1)
     IN  cursors' = older \/ Resolve(newest.goal, newest.rest, older)

Cut(n) == cursors' = SubSeq(cursors, 1, n)

Search ==
  /\ UNCHANGED clauses
  /\ \/ \E n \in 0 .. Len(cursors) : Cut(n)
     \/ \E n \in 1 .. Len(cursors') : Start(cursors'[n].goal)
     \/ Continue

Next ==
  \/ Search
  \/ \E c \in Members' \ Members : AddLast(c) \/ AddFirst(c)
  \/ Remove(Members \ Members')

Spec == Init /\ [][Next]_vars
=============================================================================
