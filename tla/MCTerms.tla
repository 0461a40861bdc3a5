------------------------------- MODULE MCTerms -------------------------------
(***************************************************************************)
(* Heaps of two variables, an atom, an integer and two structures of two   *)
(* arguments, which are any of these.                                      *)
(***************************************************************************)
EXTENDS Terms

X == 1
Y == 2
A == 8
B == 12

TheHeap(args, name) ==
  <<Ref(X), Ref(Y), Const(1), Int_(1),
    Named(1, 2), Ref(args[1]), Ref(args[2]), Str(5),
    Named(name, 2), Ref(args[3]), Ref(args[4]), Str(9)>>

\* Two structures of one functor, and two of different ones.
MCHeaps ==
  {TheHeap(args, 1) : args \in [1 .. 4 -> {X, Y, 3, A, B}]}
  \cup {TheHeap(args, 2) : args \in [1 .. 4 -> {X, 4, A, B}]}

MCPairs == {<<A, B>>, <<X, A>>}
=============================================================================
