-------------------------------- MODULE Cells --------------------------------
(***************************************************************************)
(* The cells of trilog's heap (heap.h) and what they reach.  Cells are     *)
(* numbered from 1.  ATOM stands for the three tags of cells that point to *)
(* nothing (TAG_ATOM, TAG_INT, TAG_FLT).  A structure is a FUNCTOR cell,   *)
(* its arguments, each a REF, and the STR cell, in this order              *)
(* (heap_new_struct); an unbound variable is a REF to itself.              *)
(***************************************************************************)
EXTENDS Selection

Atom == [tag |-> "ATOM"]
Ref(i) == [tag |-> "REF", ref |-> i]
Str(base) == [tag |-> "STR", ptr |-> base]
Functor(arity) == [tag |-> "FUNCTOR", arity |-> arity]

IsVar(h, c) == h[c] = Ref(c)

\* Terms are named by any cell but a FUNCTOR.
Pointable(h) == {c \in 1 .. Len(h) : h[c].tag # "FUNCTOR"}

\* The cells that c leads to; a STR cell leads to its whole structure.
Children(h, c) ==
  CASE h[c].tag = "REF" -> {h[c].ref}
    [] h[c].tag = "STR" -> h[c].ptr .. h[c].ptr + h[h[c].ptr].arity
    [] OTHER -> {}

\* The least set that holds S and, with each member, what succ leads to from it.
Closure(succ, S) ==
  LET From[seen \in SUBSET DOMAIN succ] ==
        LET more == (UNION {succ[c] : c \in seen}) \ seen
        IN  IF more = {} THEN seen ELSE From[seen \cup more]
  IN  From[S]

\* What S reaches in h, not going into the cells of `before'.
Reach(h, S, before) ==
  Closure([c \in 1 .. Len(h) |-> Children(h, c) \ before], S \ before)

\* A cell with its pointer taken to where `to' has it.
Repoint(cell, to) ==
  CASE cell.tag = "REF" -> Ref(to[cell.ref])
    [] cell.tag = "STR" -> Str(to[cell.ptr])
    [] OTHER -> cell

\* The terms at the cells `roots', with all that they share, whatever their
\* addresses: the cells they reach, numbered in the order they lie in the heap.
Terms(h, roots) ==
  LET cells == Reach(h, {roots[i] : i \in 1 .. Len(roots)}, {})
      num == [c \in cells |-> NumBelow(cells, c) + 1]
  IN  [cells |-> Selected([c \in cells |-> Repoint(h[c], num)], cells),
       roots |-> [i \in 1 .. Len(roots) |-> num[roots[i]]]]
=============================================================================
