-------------------------------- MODULE Unify --------------------------------
(***************************************************************************)
(* The walks over two terms at once: unify and unify_with_occurs_check     *)
(* (unify.c) and term_compare (solve.c).  Terms are cells of the heap and  *)
(* may be cyclic; from the Threshold-th pair of structures on, a walk      *)
(* remembers the pairs it has entered (pair_visits) and enters none twice. *)
(* A walk is a record: the heap, the pair of terms it is at, the pairs on  *)
(* its part of T->wstack, what it remembers, and its result.               *)
(***************************************************************************)
EXTENDS Cells, Numbers, SequencesExt

CONSTANT Threshold            \* PAIR_VISITS_THRESHOLD

\* Constants with a value; names are numbered in the order of strcmp.
Const(name) == [tag |-> "ATOM", val |-> name]
Named(name, arity) == [tag |-> "FUNCTOR", arity |-> arity, name |-> name]

IsStr(h, c) == h[c].tag = "STR"
FunctorOf(h, c) == h[h[c].ptr]
Arg(h, c, i) == h[c].ptr + i

\* heap_deref
Deref(h, c) ==
  LET Follow[d \in 1 .. Len(h)] ==
        IF h[d].tag = "REF" /\ h[d].ref # d THEN Follow[h[d].ref] ELSE d
  IN  Follow[c]

\* heap_bind; the trail is Heap's.
Bind(h, v, c) == [h EXCEPT ![v] = Ref(c)]

\* Does variable v occur in t?  Functors are marked on the way, by a negative
\* arity, and entered once; the marks are taken off at the end.
Occurs(h, v, t) ==
  LET Search[todo \in Seq(Nat), marked \in SUBSET Nat] ==
        IF todo = <<>> THEN FALSE
        ELSE LET d == Deref(h, Last(todo))
                 f == h[d].ptr
             IN  IF d = v THEN TRUE
                 ELSE IF IsStr(h, d) /\ f \notin marked
                      THEN Search[Front(todo) \o [i \in 1 .. h[f].arity |-> f + i],
                                  marked \cup {f}]
                      ELSE Search[Front(todo), marked]
  IN  Search[<<t>>, {}]

-----------------------------------------------------------------------------
(* A walk *)

Walk(mode, h, a, b) ==
  [mode |-> mode, heap |-> h, at |-> <<a, b>>, todo |-> <<>>,
   visits |-> {}, steps |-> 0, result |-> "running"]

Ended(w, result) == [w EXCEPT !.result = result, !.todo = <<>>]

\* On to the next pair; the result, if there is none.
Onward(w, result) ==
  IF w.todo = <<>> THEN Ended(w, result)
  ELSE [w EXCEPT !.at = Last(w.todo), !.todo = Front(w.todo)]

\* pair_visits_seen: has the walk entered this pair of structures?
Visited(w, pair) == w.steps >= Threshold /\ pair \in w.visits

\* It enters it, and has the argument pairs to do in the order given.
Enter(w, a, b, order) ==
  LET pairs == [i \in 1 .. Len(order) |->
                  <<Arg(w.heap, a, order[i]), Arg(w.heap, b, order[i])>>]
      pair == <<w.heap[a].ptr, w.heap[b].ptr>>
  IN  [w EXCEPT !.at = Head(pairs),
                !.todo = @ \o Reverse(Tail(pairs)),
                !.steps = IF @ < Threshold THEN @ + 1 ELSE @,
                !.visits = IF w.steps >= Threshold THEN @ \cup {pair} ELSE @]

\* unify goes into the last argument first: lists need no stack.
LastFirst(n) == <<n>> \o [i \in 1 .. n - 1 |-> i]

\* Mutant of BindVar: the occurs check looks at the term's own cell only.
BindVarShallow(w, v, c) ==
  IF w.mode = "unify_oc" /\ \E i \in 1 .. 2 :
       IsStr(w.heap, c) /\ Deref(w.heap, Arg(w.heap, c, i)) = v
  THEN Ended(w, "no")
  ELSE Onward([w EXCEPT !.heap = Bind(@, v, c)], "yes")

BindVar(w, v, c) ==
  IF w.mode = "unify_oc" /\ Occurs(w.heap, v, c)
  THEN Ended(w, "no")
  ELSE Onward([w EXCEPT !.heap = Bind(@, v, c)], "yes")

\* An iteration of unify_rec or unify_oc_rec.
UnifyStep(w) ==
  LET h == w.heap
      a == Deref(h, w.at[1])
      b == Deref(h, w.at[2])
  IN  IF a = b THEN Onward(w, "yes")
      ELSE IF IsVar(h, a) THEN BindVar(w, a, b)
      ELSE IF IsVar(h, b) THEN BindVar(w, b, a)
      ELSE IF ~(IsStr(h, a) /\ IsStr(h, b))
           THEN IF h[a] = h[b] THEN Onward(w, "yes") ELSE Ended(w, "no")
      ELSE IF FunctorOf(h, a) # FunctorOf(h, b) THEN Ended(w, "no")
      ELSE IF Visited(w, <<h[a].ptr, h[b].ptr>>) THEN Onward(w, "yes")
      ELSE Enter(w, a, b, LastFirst(FunctorOf(h, a).arity))

\* Variables before numbers before atoms before structures.
Rank(h, c) ==
  CASE h[c].tag = "REF" -> 0
    [] h[c].tag \in {"INT", "FLT"} -> 1
    [] h[c].tag = "ATOM" -> 2
    [] h[c].tag = "STR" -> 3

\* By age; by value; by name; by arity and name.
CompareCells(h, a, b) ==
  LET fa == FunctorOf(h, a)
      fb == FunctorOf(h, b)
  IN  IF Rank(h, a) # Rank(h, b) THEN Sign(Rank(h, a) - Rank(h, b))
      ELSE CASE Rank(h, a) = 0 -> Sign(a - b)
             [] Rank(h, a) = 1 -> CompareNumbers(h[a], h[b])
             [] Rank(h, a) = 2 -> Sign(h[a].val - h[b].val)
             [] Rank(h, a) = 3 -> IF fa.arity # fb.arity THEN Sign(fa.arity - fb.arity)
                                  ELSE Sign(fa.name - fb.name)

OrderOf(sign) == CASE sign = -1 -> "<" [] sign = 0 -> "=" [] sign = 1 -> ">"

FirstLast(n) == [i \in 1 .. n |-> i]

\* Mutant of ComparePair: of a pair seen before, the first arguments are still
\* compared.
ComparePairAgain(w, a, b) ==
  IF Visited(w, <<w.heap[a].ptr, w.heap[b].ptr>>)
  THEN [w EXCEPT !.at = <<Arg(w.heap, a, 1), Arg(w.heap, b, 1)>>]
  ELSE Enter(w, a, b, FirstLast(FunctorOf(w.heap, a).arity))

\* Mutant of ComparePair: a pair seen before ends the comparison.
ComparePairEnds(w, a, b) ==
  IF Visited(w, <<w.heap[a].ptr, w.heap[b].ptr>>) THEN Ended(w, "=")
  ELSE Enter(w, a, b, FirstLast(FunctorOf(w.heap, a).arity))

\* Two structures of one functor: being compared already, or to be compared,
\* the arguments from the first to the last.
ComparePair(w, a, b) ==
  IF Visited(w, <<w.heap[a].ptr, w.heap[b].ptr>>) THEN Onward(w, "=")
  ELSE Enter(w, a, b, FirstLast(FunctorOf(w.heap, a).arity))

\* An iteration of term_compare_rec.
CompareStep(w) ==
  LET a == Deref(w.heap, w.at[1])
      b == Deref(w.heap, w.at[2])
      sign == IF a = b THEN 0 ELSE CompareCells(w.heap, a, b)
  IN  IF sign # 0 THEN Ended(w, OrderOf(sign))
      ELSE IF a # b /\ IsStr(w.heap, a) THEN ComparePair(w, a, b)
      ELSE Onward(w, "=")

\* unify as one call, for the callers that look only at what it leaves.
RECURSIVE Unified(_)
Unified(w) == IF w.result # "running" THEN w ELSE Unified(UnifyStep(w))
=============================================================================
