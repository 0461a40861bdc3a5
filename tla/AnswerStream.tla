---------------------------- MODULE AnswerStream ----------------------------
(***************************************************************************)
(* What trilog_query promises its caller: the answers of the query one at  *)
(* a time and in order, each with a flag that is false only on the last    *)
(* one, until the caller has had enough or there are no more, and then one *)
(* result, with the exception term if it is an error.  all, end and ball   *)
(* are the answers of the query, how it ends and the ball it ends with, by *)
(* the semantics of the language; they are fixed when it starts.  If the   *)
(* heap may be exhausted, the query may end in that error at any point.    *)
(***************************************************************************)
EXTENDS Naturals, Sequences

CONSTANT ResourceError
VARIABLES all, end, ball, exhaustible, given, more, result, error

query == <<all, end, ball, exhaustible>>
vars == <<query, given, more, result, error>>

Init ==
  /\ given = <<>> /\ more = TRUE /\ result = "running"

IsLast == Len(given') = Len(all) /\ end = "exhausted"

Answer ==
  /\ result = "running" /\ more
  /\ Len(given) < Len(all)
  /\ given' = Append(given, all[Len(given) + 1])
  /\ more' \in BOOLEAN /\ (~more' => IsLast)
  /\ result' \in {"running", "true"}
  /\ UNCHANGED <<query, error>>

Finish ==
  /\ result = "running"
  /\ Len(given) = Len(all)
  /\ IF end = "throw" THEN result' = "error" /\ error' = ball
     ELSE result' = (IF all = <<>> THEN "false" ELSE "true") /\ UNCHANGED error
  /\ UNCHANGED <<query, given, more>>

Exhaust ==
  /\ result = "running" /\ exhaustible
  /\ result' = "error" /\ error' = ResourceError
  /\ UNCHANGED <<query, given, more>>

Next == Answer \/ Finish \/ Exhaust

Spec == Init /\ [][Next]_vars /\ WF_vars(Answer \/ Finish)
=============================================================================
