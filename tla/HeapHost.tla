------------------------------- MODULE HeapHost -------------------------------
(***************************************************************************)
(* Heap with a host that is given its interpreter back in the middle of a  *)
(* query: halt/1, a yield callback that refuses to go on and an allocation *)
(* that fails all longjmp to the API function the host called (trilog.c),  *)
(* which resets the engine with unwound.  The host's next query then runs. *)
(***************************************************************************)
EXTENDS Heap

\* unwound, then the next query's goals.  gc_old_top is not among what is reset.
Unwound ==
  /\ heap' = QueryCells(0) /\ cn' = 4 /\ answer' = 5
  /\ trail' = <<>> /\ frames' = <<>> /\ catches' = <<>> /\ active_catch' = 0
  /\ base' = [sp |-> 0, heap |-> 0, catch |-> 0]
  /\ outer' = <<>>
  /\ UNCHANGED old_top

HostSpec == Init /\ [][Next \/ Unwound]_vars
=============================================================================
