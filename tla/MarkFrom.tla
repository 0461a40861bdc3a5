------------------------------- MODULE MarkFrom -------------------------------
(***************************************************************************)
(* The mark phase of the collector: mark_from of gc.c, which visits all    *)
(* that a root reaches in constant space by reversing pointers.  While it  *)
(* runs, a REF cell on the way to the cell at hand holds the cell it came  *)
(* from, the STR cell of a structure that is being visited holds the cell  *)
(* before it, and the structure's FUNCTOR cell has the end of its          *)
(* arguments where its arity was.  The heap is the collector's own         *)
(* working space: it has to be as it was when mark_from returns.           *)
(***************************************************************************)
EXTENDS Cells

CONSTANTS
  Heaps,     \* the heaps that may have to be marked
  RootCount  \* how many roots are marked one after the other

(***************************************************************************)
(* The heaps that heap_new_atom, heap_new_var and heap_new_struct make and *)
(* a collection leaves: a structure is a FUNCTOR, its arguments, each a    *)
(* REF, and the STR cell.  Binding lets a REF point to any cell but a      *)
(* FUNCTOR.                                                                *)
(***************************************************************************)
IsRef(h, c) == h[c].tag = "REF" /\ h[c].ref \in Pointable(h)

IsStr(h, c) ==
  /\ h[c].tag = "STR" /\ h[c].ptr \in 1 .. c - 1
  /\ h[h[c].ptr] = Functor(c - h[c].ptr - 1)
  /\ \A i \in h[c].ptr + 1 .. c - 1 : h[i].tag = "REF"

IsFunctor(h, c) ==
  /\ h[c].tag = "FUNCTOR" /\ h[c].arity \in Nat
  /\ c + h[c].arity + 1 \in 1 .. Len(h)
  /\ h[c + h[c].arity + 1] = Str(c)

Cell ==
  {Atom} \cup [tag : {"REF"}, ref : Nat] \cup [tag : {"STR"}, ptr : Nat]
         \cup [tag : {"FUNCTOR"}, arity : Nat]

WellFormed(h) ==
  /\ h \in Seq(Cell)
  /\ \A c \in 1 .. Len(h) : h[c] = Atom \/ IsRef(h, c) \/ IsStr(h, c) \/ IsFunctor(h, c)

\* Where an allocation begins: where heap_top may have been.
Boundaries(h) ==
  {b \in 1 .. Len(h) : \A c \in b .. Len(h) : h[c].tag = "STR" => h[c].ptr >= b}

ASSUME HeapsAssumption == \A h \in Heaps : WellFormed(h)
ASSUME RootCountAssumption == RootCount \in Nat \ {0}

Nil == 0

VARIABLES
  heap,    \* T->heap
  marked,  \* the cells whose byte in T->marked is 1
  t, p,    \* the cell at hand and the one it was reached from
  pc,      \* "visit", "climb", or "done" when all roots are marked
  roots,   \* the roots still to mark
  first,   \* history: the heap as the collection found it
  from,    \* history: all the roots, and what was marked before
  path     \* history: the REF and FUNCTOR cells on the way to t, p the last

vars == <<heap, marked, t, p, pc, roots, first, from, path>>

\* A minor collection starts with every cell below its base marked.
Init ==
  /\ heap \in Heaps
  /\ \E b \in Boundaries(heap) : marked = 1 .. b - 1
  /\ \E rs \in [1 .. RootCount -> Pointable(heap)] :
       /\ from = [roots |-> {rs[i] : i \in 1 .. RootCount}, marked |-> marked]
       /\ t = rs[1] /\ roots = Tail(rs)
  /\ first = heap
  /\ p = Nil /\ path = <<>> /\ pc = "visit"

(***************************************************************************)
(* The loop, an action for each of its branches.                           *)
(***************************************************************************)
Base == heap[t].ptr
Bound == Base + 1 + heap[Base].arity     \* the cell after the last argument
Up == SubSeq(path, 1, Len(path) - 1)

Seen ==
  /\ pc = "visit" /\ t \in marked
  /\ pc' = "climb"
  /\ UNCHANGED <<heap, marked, t, p, roots, first, from, path>>

VisitLeaf ==
  /\ pc = "visit" /\ t \notin marked
  /\ \/ heap[t].tag \in {"ATOM", "FUNCTOR"} /\ marked' = marked \cup {t}
     \/ heap[t] = Ref(t) /\ marked' = marked \cup {t}
     \/ heap[t].tag = "STR" /\ heap[Base].arity = 0 /\ marked' = marked \cup {t, Base}
  /\ pc' = "climb"
  /\ UNCHANGED <<heap, t, p, roots, first, from, path>>

VisitRef ==
  /\ pc = "visit" /\ t \notin marked
  /\ heap[t].tag = "REF" /\ heap[t].ref # t
  /\ marked' = marked \cup {t}
  /\ heap' = [heap EXCEPT ![t].ref = p]
  /\ p' = t /\ t' = heap[t].ref
  /\ path' = Append(path, t)
  /\ UNCHANGED <<pc, roots, first, from>>

VisitStr ==
  /\ pc = "visit" /\ t \notin marked
  /\ heap[t].tag = "STR" /\ heap[Base].arity > 0
  /\ marked' = marked \cup {t, Base}
  /\ heap' = [heap EXCEPT ![Base].arity = Bound, ![t].ptr = p]
  /\ p' = Base /\ t' = Base + 1
  /\ path' = Append(path, Base)
  /\ UNCHANGED <<pc, roots, first, from>>

\* Mutant of ClimbRef: p is not moved up.
ClimbRefStays ==
  /\ pc = "climb" /\ p # Nil /\ heap[p].tag = "REF"
  /\ heap' = [heap EXCEPT ![p].ref = t]
  /\ t' = p
  /\ path' = Up
  /\ UNCHANGED <<marked, p, pc, roots, first, from>>

ClimbRef ==
  /\ pc = "climb" /\ p # Nil /\ heap[p].tag = "REF"
  /\ heap' = [heap EXCEPT ![p].ref = t]
  /\ t' = p /\ p' = heap[p].ref
  /\ path' = Up
  /\ UNCHANGED <<marked, pc, roots, first, from>>

NextArgument ==
  /\ pc = "climb" /\ p # Nil /\ heap[p].tag = "FUNCTOR"
  /\ t + 1 < heap[p].arity
  /\ t' = t + 1 /\ pc' = "visit"
  /\ UNCHANGED <<heap, marked, p, roots, first, from, path>>

\* Mutant of ClimbStr: the FUNCTOR cell is counted as an argument.
ClimbStrCountsFunctor ==
  /\ pc = "climb" /\ p # Nil /\ heap[p].tag = "FUNCTOR"
  /\ t + 1 >= heap[p].arity
  /\ LET bound == heap[p].arity
     IN  /\ heap' = [heap EXCEPT ![p].arity = bound - p, ![bound].ptr = p]
         /\ t' = bound /\ p' = heap[bound].ptr
  /\ path' = Up
  /\ UNCHANGED <<marked, pc, roots, first, from>>

ClimbStr ==
  /\ pc = "climb" /\ p # Nil /\ heap[p].tag = "FUNCTOR"
  /\ t + 1 >= heap[p].arity
  /\ LET bound == heap[p].arity
     IN  /\ heap' = [heap EXCEPT ![p].arity = bound - p - 1, ![bound].ptr = p]
         /\ t' = bound /\ p' = heap[bound].ptr
  /\ path' = Up
  /\ UNCHANGED <<marked, pc, roots, first, from>>

\* p == NIL: mark_from returns, and is called for the next root.
Return ==
  /\ pc = "climb" /\ p = Nil
  /\ IF roots = <<>> THEN pc' = "done" /\ UNCHANGED <<t, roots>>
     ELSE pc' = "visit" /\ t' = Head(roots) /\ roots' = Tail(roots)
  /\ UNCHANGED <<heap, marked, p, first, from, path>>

Next ==
  \/ Seen \/ VisitLeaf \/ VisitRef \/ VisitStr
  \/ ClimbRef \/ NextArgument \/ ClimbStr \/ Return

Spec == Init /\ [][Next]_vars
FairSpec == Spec /\ WF_vars(Next)

(***************************************************************************)
(* Properties.                                                             *)
(***************************************************************************)
\* Whatever the shape of the heap, with cycles, cells shared by two structures
\* and pointers into the middle of a structure that is being visited, mark_from
\* puts every pointer and every arity back, and marks what the roots reach
\* without going into what was marked before: the least set with the roots and
\* with all that a cell in it leads to.
Closed(X) ==
  /\ from.roots \subseteq X \cup from.marked
  /\ \A c \in X : Children(first, c) \subseteq X \cup from.marked

MarksReachable ==
  pc = "done" => /\ heap = first
                 /\ from.marked \subseteq marked
                 /\ Closed(marked \ from.marked)
                 /\ \A X \in SUBSET (1 .. Len(first)) : Closed(X) => marked \subseteq X \cup from.marked

\* The loop ends: no pointer it has turned round leads it in a circle.  It runs
\* alone until it returns, so it always takes its next step.
MarkingEnds == <>(pc = "done")
=============================================================================
