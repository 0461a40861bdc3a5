------------------------------ MODULE MCBoard -------------------------------
(***************************************************************************)
(* The histories of Board that TLC checks.                                 *)
(***************************************************************************)
EXTENDS Board

CONSTANTS anna, ben

\* Peers that are served while others wait, with a crash; or one at a time: with an
\* exhausted heap, a crash and two lines at once; with crashes enough for main to
\* give up; with a prompt that leaves streams open and crashes what it runs; with
\* an exhausted heap and a crash around a serve(80) from the prompt.
MCHistories ==
  {[busy |-> 3, window |-> 1, crashes |-> 1, raises |-> 0, prompts |-> 0],
   [busy |-> 1, window |-> 2, crashes |-> 1, raises |-> 1, prompts |-> 0],
   [busy |-> 1, window |-> 1, crashes |-> 3, raises |-> 0, prompts |-> 0],
   [busy |-> 1, window |-> 1, crashes |-> 1, raises |-> 0, prompts |-> 3],
   [busy |-> 1, window |-> 1, crashes |-> 1, raises |-> 1, prompts |-> 1]}
=============================================================================
