-------------------------------- MODULE Terms --------------------------------
(***************************************************************************)
(* Calls of the walks over terms, one at a time, on heaps with shared and  *)
(* cyclic structures, each walk step by step; and what the calls promise,  *)
(* said of terms as rational trees and not of walks.                       *)
(***************************************************************************)
EXTENDS Templates

CONSTANTS Heaps,              \* the heaps a call may find
          Pairs               \* the terms asked about

VARIABLES asked,              \* the call's heap and terms
          call                \* the walk, or what was made of the call

vars == <<asked, call>>

Walks == {"unify", "unify_oc", "compare"}

Init ==
  \E h \in Heaps, p \in Pairs, mode \in Walks \cup {"freeze"} :
    /\ asked = [heap |-> h, terms |-> p]
    /\ call = Walk(mode, h, p[1], p[2])

Running(modes) == call.mode \in modes /\ call.result = "running"

UnifyOn == Running({"unify", "unify_oc"}) /\ call' = UnifyStep(call) /\ UNCHANGED asked

CompareOn == Running({"compare"}) /\ call' = CompareStep(call) /\ UNCHANGED asked

\* heap_to_template, of two terms that share their variables.
Freeze ==
  /\ Running({"freeze"})
  /\ LET made == ToTemplates(call.heap, asked.terms)
     IN  call' = [mode |-> "frozen", made |-> made,
                  result |-> IF made.ok THEN "yes" ELSE "no"]
  /\ UNCHANGED asked

Empty(h, n) == [heap |-> h, rename |-> [i \in 1 .. n |-> 0], cell |-> 0, ok |-> FALSE]

\* One of them is the head of a clause, and is unified with a goal, which may be
\* cyclic where the head is not.
Match(k, goal) ==
  /\ call.mode = "frozen" /\ call.result = "yes"
  /\ LET head == call.made.trees[k]
         m == UnifyTemplate(Empty(asked.heap, call.made.nvars), <<<<head, goal>>>>)
     IN  call' = [mode |-> "matched", head |-> head, nvars |-> call.made.nvars,
                  made |-> m, result |-> IF m.ok THEN "yes" ELSE "no"]
  /\ asked' = [asked EXCEPT !.terms = <<goal>>]

Next ==
  \/ UnifyOn \/ CompareOn \/ Freeze
  \/ \E k \in {1, 2}, goal \in Pointable(asked.heap) : Match(k, goal)

Spec == Init /\ [][Next]_vars /\ WF_vars(UnifyOn \/ CompareOn)

-----------------------------------------------------------------------------
(* Terms as rational trees.  A partition of the cells is a function from   *)
(* cells to one cell of their class; without more, variables bound to one  *)
(* another are in one class.                                               *)

Plain(h) == [c \in Pointable(h) |-> Deref(h, c)]

Solid(h) == {c \in Pointable(h) : h[c].tag # "REF"}
Label(h, c) == IF IsStr(h, c) THEN FunctorOf(h, c) ELSE h[c]
Arity(h, c) == IF IsStr(h, c) THEN FunctorOf(h, c).arity ELSE 0

\* The finest partition coarser than `part' whose classes with two structures of
\* one functor have their arguments in common classes, too.
RECURSIVE Congruent(_, _)
Congruent(h, part) ==
  LET apart == {p \in Solid(h) \X Solid(h) :
                  /\ part[p[1]] = part[p[2]] /\ Label(h, p[1]) = Label(h, p[2])
                  /\ \E i \in 1 .. Arity(h, p[1]) :
                       part[Arg(h, p[1], i)] # part[Arg(h, p[2], i)]}
      one == CHOOSE p \in apart : TRUE
      i == CHOOSE i \in 1 .. Arity(h, one[1]) :
             part[Arg(h, one[1], i)] # part[Arg(h, one[2], i)]
      from == part[Arg(h, one[1], i)]
      to == part[Arg(h, one[2], i)]
  IN  IF apart = {} THEN part
      ELSE Congruent(h, [c \in DOMAIN part |-> IF part[c] = from THEN to ELSE part[c]])

\* The least partition that makes each pair of terms one.
RECURSIVE Joined(_, _, _)
Joined(h, part, pairs) ==
  IF pairs = <<>> THEN Congruent(h, part)
  ELSE LET from == part[Head(pairs)[1]]
           to == part[Head(pairs)[2]]
       IN  Joined(h, [c \in DOMAIN part |-> IF part[c] = from THEN to ELSE part[c]],
                  Tail(pairs))

Clash(h, part) ==
  \E c, d \in Solid(h) : part[c] = part[d] /\ Label(h, c) # Label(h, d)

\* The terms in a class: a structure or a constant of it, if it has one.
SolidIn(h, part, c) == {d \in Solid(h) : part[d] = part[c]}

\* Pairs of classes that are the same rational tree, without a clash in part.
Alike(h, part) ==
  LET classes == {part[c] : c \in DOMAIN part}
      solid == [c \in classes |-> SolidIn(h, part, c)]
      Same(R, p) ==
        \/ p[1] = p[2]
        \/ \E c \in solid[p[1]], d \in solid[p[2]] :
             /\ Label(h, c) = Label(h, d)
             /\ \A i \in 1 .. Arity(h, c) :
                  <<part[Arg(h, c, i)], part[Arg(h, d, i)]>> \in R
      Shrunk[R \in SUBSET (classes \X classes)] ==
        LET kept == {p \in R : Same(R, p)} IN IF kept = R THEN R ELSE Shrunk[kept]
  IN  Shrunk[classes \X classes]

\* The pairs of these cells, by number, that are the same rational tree.
Equal(h, part, cells) ==
  LET alike == Alike(h, part)
  IN  {p \in (1 .. Len(cells)) \X (1 .. Len(cells)) :
         <<part[cells[p[1]]], part[cells[p[2]]]>> \in alike}

InOrder(h) == SelectSeq([c \in 1 .. Len(h) |-> c], LAMBDA c : c \in Pointable(h))

\* Does a term lead back to itself from one of the cells?
Cyclic(h, part, cells) ==
  LET Below(S) == UNION {{part[Arg(h, d, i)] : i \in 1 .. Arity(h, d)} :
                        d \in {e \in Solid(h) : part[e] \in S}}
      From[S \in SUBSET DOMAIN part] ==
        LET more == S \cup Below(S) IN IF more = S THEN S ELSE From[more]
  IN  \E c \in From[{part[c] : c \in cells}] : c \in From[Below({c})]

\* The standard order of acyclic terms, by recursion.
RECURSIVE Standard(_, _, _)
Standard(h, x, y) ==
  LET a == Deref(h, x)
      b == Deref(h, y)
      here == IF a = b THEN 0 ELSE CompareCells(h, a, b)
      First[i \in Nat] ==
        IF i > Arity(h, a) THEN 0
        ELSE LET sign == Standard(h, Arg(h, a, i), Arg(h, b, i))
             IN  IF sign # 0 THEN sign ELSE First[i + 1]
  IN  IF here # 0 \/ a = b THEN here ELSE First[1]

-----------------------------------------------------------------------------
(* What the calls promise *)

HasEnded(modes) == call.mode \in modes /\ call.result # "running"

Solution == Joined(asked.heap, Plain(asked.heap), <<asked.terms>>)

\* unify succeeds exactly if some binding makes the two terms one rational tree,
\* and then makes no more terms one than it has to: its bindings are the most
\* general ones.  With the occurs check, it fails as well if that tree is
\* cyclic, and terms that were not cyclic stay so.  (unify_rec, unify_oc_rec,
\* with every order of the pairs, and pair_visits at work.)
UnifySolves ==
  HasEnded({"unify", "unify_oc"}) =>
    LET h == asked.heap
        oc == call.mode = "unify_oc"
        Loops(part) == Cyclic(h, part, {asked.terms[1], asked.terms[2]})
    IN  /\ call.result = "yes" =>
             /\ ~Clash(h, Solution)
             /\ Equal(call.heap, Plain(call.heap), InOrder(h))
                  = Equal(h, Solution, InOrder(h))
             /\ oc /\ Loops(Solution) => Loops(Plain(h))
        /\ call.result = "no" => Clash(h, Solution) \/ (oc /\ Loops(Solution))

\* Of any two terms, compare says = exactly if they are the same rational tree;
\* of terms that are not cyclic, it gives their place in the standard order.
\* (compare_step, with the pairs seen before taken to be equal.)
OrderIsStandard ==
  HasEnded({"compare"}) =>
    LET h == asked.heap
        a == asked.terms[1]
        b == asked.terms[2]
    IN  /\ call.result = "=" <=> <<1, 2>> \in Equal(h, Plain(h), <<a, b>>)
        /\ ~Cyclic(h, Plain(h), {a, b}) => call.result = OrderOf(Standard(h, a, b))

\* Every unification and every comparison ends, of cyclic terms, too.
\* (pair_visits, unify.c.)
WalksEnd == <>(call.mode \in Walks => call.result # "running")

\* A template is refused exactly of a cyclic term, which is also what
\* heap_acyclic says of one; a copy of it has cells of its own and is the term
\* with its variables renamed, the same in both.  (heap_terms_to_templates,
\* heap_copy; path marks, and variables bound to their numbers.)
CopyIsVariant ==
  call.mode = "frozen" =>
    LET h == asked.heap
        a == asked.terms[1]
        b == asked.terms[2]
        first == Copied(Empty(h, call.made.nvars), call.made.trees[1])
        second == Copied(first, call.made.trees[2])
        g == second.heap
        part == Joined(g, Plain(g), <<<<a, first.cell>>, <<b, second.cell>>>>)
    IN  /\ \A c \in {a, b} : heap_acyclic(h, c) <=> ~Cyclic(h, Plain(h), {c})
        /\ call.result = "no" <=> Cyclic(h, Plain(h), {a, b})
        /\ call.result = "yes" =>
             /\ SubSeq(g, 1, Len(h)) = h
             /\ Reach(g, {first.cell, second.cell}, {}) \cap (1 .. Len(h)) = {}
             /\ ~Clash(g, part)
             /\ \A c, d \in {e \in Pointable(g) : IsVar(g, e)} :
                  /\ SolidIn(g, part, c) = {}
                  /\ part[c] = part[d] /\ c # d => (c <= Len(h)) # (d <= Len(h))

\* Unifying a template with a goal is unifying a copy of it, as the comment of
\* unify_template says: it succeeds alike, and what the goal's heap and the
\* template's variables stand for is alike, too.
MatchIsUnify ==
  call.mode = "matched" =>
    LET h == asked.heap
        goal == asked.terms[1]
        copy == Copied(Empty(h, call.nvars), call.head)
        unified == Unified(Walk("unify", copy.heap, copy.cell, goal))
        Roots(rename) == InOrder(h) \o SelectSeq(rename, LAMBDA c : c # 0)
        mine == ToTemplates(call.made.heap, Roots(call.made.rename))
        other == ToTemplates(unified.heap, Roots(copy.rename))
    IN  /\ call.result = unified.result
        /\ call.result = "yes" =>
             IF mine.ok /\ other.ok THEN mine.trees = other.trees
             ELSE /\ mine.ok = other.ok
                  /\ Equal(call.made.heap, Plain(call.made.heap), Roots(call.made.rename))
                     = Equal(unified.heap, Plain(unified.heap), Roots(copy.rename))
=============================================================================
