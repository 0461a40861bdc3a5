----------------------------- MODULE MCMarkFrom -----------------------------
(***************************************************************************)
(* The heaps on which TLC checks MarkFrom: every way to fill the pointers  *)
(* of these sequences of allocations, marked from every pair of roots.     *)
(***************************************************************************)
EXTENDS MarkFrom

F(n) == Functor(n)
Blank == Ref(0)

Layouts == {<<F(2), Blank, Atom>>, <<F(1), F(1), Blank>>, <<Blank, F(2)>>,
            <<F(0), F(2)>>, <<F(2), F(1)>>, <<Blank, Blank, Blank, Atom>>, <<F(1), Blank, F(1)>>}

Size(x) == IF x.tag = "FUNCTOR" THEN x.arity + 2 ELSE 1

Starts(l) ==
  LET S[i \in 1 .. Len(l) + 1] == IF i = 1 THEN 1 ELSE S[i - 1] + Size(l[i - 1])
  IN  S

Skeleton(l) ==
  LET starts == Starts(l)
  IN  [c \in 1 .. starts[Len(l) + 1] - 1 |->
         LET i == CHOOSE j \in 1 .. Len(l) : starts[j] <= c /\ c < starts[j + 1]
         IN  IF c = starts[i] THEN l[i]
             ELSE IF c + 1 = starts[i + 1] THEN Str(starts[i]) ELSE Blank]

Filled(l) ==
  LET h == Skeleton(l)
      refs == {c \in 1 .. Len(h) : h[c] = Blank}
  IN  {[c \in 1 .. Len(h) |-> IF c \in refs THEN Ref(f[c]) ELSE h[c]] : f \in [refs -> Pointable(h)]}

MCHeaps == UNION {Filled(l) : l \in Layouts}
=============================================================================
