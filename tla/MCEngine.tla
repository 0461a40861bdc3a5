------------------------------ MODULE MCEngine ------------------------------
(***************************************************************************)
(* The histories of Engine that TLC checks.                                *)
(***************************************************************************)
EXTENDS Engine
LOCAL INSTANCE TLC

CONSTANTS main, aux

MCItems == main :> <<"clause", "directive", "clause">> @@ aux :> <<"directive", "clause", "syntax error">>
           @@ Text :> <<"directive", "directive">>

MCNest ==
  {"bags", "exhaustion", "catches"} :> 5 @@ {"bags", "captures"} :> 5
  @@ {"captures", "loads"} :> 7 @@ {"bags", "loads", "load errors"} :> 7
  @@ {"loads", "consult", "load errors", "catches"} :> 9
  @@ {"strings", "loads", "bags", "interrupts"} :> 6

\* For the findings.
LeftCapture == {"captures", "interrupts"} :> 3
StringLoadError == {"strings", "load errors"} :> 3
Cycle == {"loads", "cycles"} :> 7
=============================================================================
