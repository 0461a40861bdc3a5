------------------------------ MODULE Templates ------------------------------
(***************************************************************************)
(* Terms taken off the heap and put back (term.c): heap_to_template makes  *)
(* a tree of a term, for clauses, solutions and thrown balls to be kept    *)
(* in; heap_copy makes a term of the tree again; unify_template unifies    *)
(* the tree with a term and copies only what it has to.  A template is a   *)
(* tree of records, its variables numbered slots; rename gives the slots   *)
(* their cells, 0 for none yet.                                            *)
(***************************************************************************)
EXTENDS Unify

Slot(n) == [tag |-> "VAR", slot |-> n]
Tree(name, args) == [tag |-> "TREE", name |-> name, args |-> args]

-----------------------------------------------------------------------------
(* heap_to_template_rec.  s: the variables that have a slot, in the order  *)
(* they were met (a FUNCTOR cell bound to the variable holds its number),  *)
(* and whether the term is known to be cyclic.  path: the functors marked  *)
(* by a negative arity, those of the structures around this one.           *)

RECURSIVE Frozen(_, _, _, _)
Frozen(h, c, path, s) ==
  LET d == Deref(h, c)
      f == h[d].ptr
      Known == \E n \in 1 .. Len(s.vars) : s.vars[n] = d
      Args[i \in 0 .. h[f].arity] ==
        IF i = 0 THEN [trees |-> <<>>, s |-> s]
        ELSE LET arg == Frozen(h, f + i, path \cup {f}, Args[i - 1].s)
             IN  [trees |-> Append(Args[i - 1].trees, arg.tree), s |-> arg.s]
      all == Args[h[f].arity]
  IN  CASE IsVar(h, d) /\ Known ->
             [tree |-> Slot(CHOOSE n \in 1 .. Len(s.vars) : s.vars[n] = d), s |-> s]
        [] IsVar(h, d) /\ ~Known ->
             [tree |-> Slot(Len(s.vars) + 1), s |-> [s EXCEPT !.vars = Append(@, d)]]
        [] IsStr(h, d) /\ (f \in path \/ s.cyclic) ->
             [tree |-> Const(0), s |-> [s EXCEPT !.cyclic = TRUE]]
        [] IsStr(h, d) /\ f \notin path /\ ~s.cyclic ->
             [tree |-> Tree(h[f].name, all.trees), s |-> all.s]
        [] OTHER -> [tree |-> h[d], s |-> s]

\* Mutant of ToTemplates: the variables are numbered anew for each term.
ToTemplatesApart(h, roots) ==
  LET one == [i \in 1 .. Len(roots) |->
                Frozen(h, roots[i], {}, [vars |-> <<>>, cyclic |-> FALSE])]
  IN  [ok |-> \A i \in 1 .. Len(roots) : ~one[i].s.cyclic,
       trees |-> [i \in 1 .. Len(roots) |-> one[i].tree],
       nvars |-> Max({Len(one[i].s.vars) : i \in 1 .. Len(roots)})]

\* heap_terms_to_templates: the templates share their slots; refused, if one of
\* the terms is cyclic.
ToTemplates(h, roots) ==
  LET Done[i \in 0 .. Len(roots)] ==
        IF i = 0 THEN [trees |-> <<>>, s |-> [vars |-> <<>>, cyclic |-> FALSE]]
        ELSE LET one == Frozen(h, roots[i], {}, Done[i - 1].s)
             IN  [trees |-> Append(Done[i - 1].trees, one.tree), s |-> one.s]
      all == Done[Len(roots)]
  IN  [ok |-> ~all.s.cyclic, trees |-> all.trees, nvars |-> Len(all.s.vars)]

-----------------------------------------------------------------------------
(* heap_copy and unify_template.  m: the heap, rename, and the cell of the *)
(* term last made.                                                         *)

\* A constant is a new cell; a structure is its functor, its arguments and the
\* STR cell, and the arguments' own cells follow.
RECURSIVE Copied(_, _)
Copied(m, t) ==
  LET end == Len(m.heap)
      Made(cells) == [m EXCEPT !.heap = @ \o cells, !.cell = end + Len(cells)]
      n == Len(t.args)
      Filled[i \in 0 .. n] ==
        IF i = 0
        THEN Made(<<Named(t.name, n)>> \o [j \in 1 .. n |-> Ref(end + 1 + j)]
                  \o <<Str(end + 1)>>)
        ELSE LET arg == Copied(Filled[i - 1], t.args[i])
             IN  [arg EXCEPT !.heap[end + 1 + i] = Ref(arg.cell)]
  IN  CASE t.tag = "VAR" ->
             IF m.rename[t.slot] # 0 THEN [m EXCEPT !.cell = m.rename[t.slot]]
             ELSE [Made(<<Ref(end + 1)>>) EXCEPT !.rename[t.slot] = end + 1]
        [] t.tag = "TREE" -> [Filled[n] EXCEPT !.cell = end + n + 2]
        [] OTHER -> Made(<<t>>)

Failed(m) == [m EXCEPT !.ok = FALSE]

\* Mutant of MeetSlot: a slot met again takes the new term.
MeetSlotAnew(m, n, g) == [m EXCEPT !.rename[n] = g, !.ok = TRUE]

\* A variable of the template meets a term of the goal.
MeetSlot(m, n, g) ==
  LET unified == Unified(Walk("unify", m.heap, m.rename[n], g))
  IN  IF m.rename[n] = 0 THEN [m EXCEPT !.rename[n] = g, !.ok = TRUE]
      ELSE [m EXCEPT !.heap = unified.heap, !.ok = unified.result = "yes"]

\* unify_template, for the pairs of a template and a term still to do.
RECURSIVE UnifyTemplate(_, _)
UnifyTemplate(m, todo) ==
  IF todo = <<>> THEN [m EXCEPT !.ok = TRUE]
  ELSE LET t == Last(todo)[1]
           g == Deref(m.heap, Last(todo)[2])
           rest == Front(todo)
           h == m.heap
           met == MeetSlot(m, t.slot, g)
           copy == Copied(m, t)
           n == Len(t.args)
           args == [i \in 1 .. n |-> <<t.args[LastFirst(n)[i]], Arg(h, g, LastFirst(n)[i])>>]
       IN  CASE t.tag = "VAR" -> IF met.ok THEN UnifyTemplate(met, rest) ELSE met
             [] t.tag # "VAR" /\ IsVar(h, g) ->
                  UnifyTemplate([copy EXCEPT !.heap = Bind(@, g, copy.cell)], rest)
             [] t.tag = "TREE" /\ ~IsVar(h, g) ->
                  IF IsStr(h, g) /\ FunctorOf(h, g) = Named(t.name, n)
                  THEN UnifyTemplate(m, rest \o Reverse(args))
                  ELSE Failed(m)
             [] OTHER -> IF h[g] = t THEN UnifyTemplate(m, rest) ELSE Failed(m)

-----------------------------------------------------------------------------
(* heap_acyclic: the functors around the argument are marked.              *)

RECURSIVE AcyclicFrom(_, _, _)
AcyclicFrom(h, c, path) ==
  LET d == Deref(h, c)
  IN  IsStr(h, d) =>
        /\ h[d].ptr \notin path
        /\ \A i \in 1 .. FunctorOf(h, d).arity :
             AcyclicFrom(h, Arg(h, d, i), path \cup {h[d].ptr})

heap_acyclic(h, c) == AcyclicFrom(h, c, {})
=============================================================================
