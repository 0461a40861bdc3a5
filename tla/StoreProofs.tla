------------------------------ MODULE StoreProofs ------------------------------
(***************************************************************************)
(* Facts about a heap and its trail, of module Cells' cells, that the      *)
(* theorems of HeapProofs need: what terms are, and what a release, a      *)
(* binding, new cells and a collection make of them.                       *)
(***************************************************************************)
EXTENDS Cells, Functions, Facts

(***************************************************************************)
(* Closure is the least closed set.  Its recursion has the function that   *)
(* gives the least closed set for a solution, and no other: where two      *)
(* differ, they would differ on a larger set.                              *)
(***************************************************************************)
ClosedUnder(succ, X) == \A c \in X : succ[c] \subseteq X

LEMMA ClosureIsLeast ==
  ASSUME NEW D, IsFiniteSet(D), NEW succ \in [D -> SUBSET D], NEW S \in SUBSET D
  PROVE  /\ S \subseteq Closure(succ, S) /\ Closure(succ, S) \subseteq D
         /\ ClosedUnder(succ, Closure(succ, S))
         /\ \A X \in SUBSET D : S \subseteq X /\ ClosedUnder(succ, X) => Closure(succ, S) \subseteq X
<1> DEFINE More(seen) == (UNION {succ[c] : c \in seen}) \ seen
           Recurs(F) == F = [seen \in SUBSET D |-> IF More(seen) = {} THEN seen ELSE F[seen \cup More(seen)]]
           Above(seen) == {X \in SUBSET D : seen \subseteq X /\ ClosedUnder(succ, X)}
           Lowest(seen) == {c \in D : \A X \in Above(seen) : c \in X}
<1>1. DOMAIN succ = D
  OBVIOUS
<1>2. Closure(succ, S) = (CHOOSE F : Recurs(F))[S]
  BY <1>1 DEF Closure
<1>3. ASSUME NEW seen \in SUBSET D
      PROVE  More(seen) \subseteq D
  OBVIOUS
<1>4. ASSUME NEW seen \in SUBSET D, More(seen) = {}
      PROVE  Lowest(seen) = seen
  <2>1. ClosedUnder(succ, seen)
    BY <1>4 DEF ClosedUnder
  <2>2. seen \in Above(seen)
    BY <2>1
  <2>. QED
    BY <2>2
<1>5. ASSUME NEW seen \in SUBSET D
      PROVE  Lowest(seen \cup More(seen)) = Lowest(seen)
  <2>1. ASSUME NEW X \in SUBSET D
        PROVE  X \in Above(seen) <=> X \in Above(seen \cup More(seen))
    BY DEF ClosedUnder
  <2> HIDE DEF Above
  <2>2. Above(seen) \subseteq SUBSET D /\ Above(seen \cup More(seen)) \subseteq SUBSET D
    BY DEF Above
  <2>. QED
    BY <2>1, <2>2
<1>6. \E F : Recurs(F)
  <2> DEFINE F == [seen \in SUBSET D |-> Lowest(seen)]
  <2>1. ASSUME NEW seen \in SUBSET D
        PROVE  F[seen] = IF More(seen) = {} THEN seen ELSE F[seen \cup More(seen)]
    <3>1. seen \cup More(seen) \in SUBSET D
      BY <1>3
    <3> HIDE DEF More, Lowest
    <3>2. F[seen] = Lowest(seen) /\ F[seen \cup More(seen)] = Lowest(seen \cup More(seen))
      BY <3>1
    <3>. QED
      BY <1>4, <1>5, <3>2
  <2>2. F = [seen \in SUBSET D |-> F[seen]]
    OBVIOUS
  <2>3. Recurs(F)
    <3> HIDE DEF F, More
    <3>. QED
      BY <2>1, <2>2
  <2>. QED
    BY <2>3
<1>7. PICK F : F = CHOOSE G : Recurs(G)
  OBVIOUS
<1>8. Recurs(F) /\ Closure(succ, S) = F[S]
  BY <1>2, <1>6, <1>7
<1>9. ASSUME NEW seen \in SUBSET D
      PROVE  F[seen] = IF More(seen) = {} THEN seen ELSE F[seen \cup More(seen)]
  <2> HIDE DEF More
  <2>. QED
    BY <1>8
<1>10. \A seen \in SUBSET D : F[seen] = Lowest(seen)
  <2> DEFINE Bad == {seen \in SUBSET D : F[seen] # Lowest(seen)}
             Left == {Cardinality(D \ seen) : seen \in Bad}
  <2> SUFFICES ASSUME Bad # {} PROVE FALSE
    OBVIOUS
  <2>1. \A seen \in SUBSET D : IsFiniteSet(D \ seen) /\ Cardinality(D \ seen) \in Nat
    BY FS_Subset, FS_CardinalityType
  <2>2. Left \subseteq Nat /\ Left # {}
    BY <2>1
  <2> HIDE DEF More, Lowest
  <2>3. PICK seen \in Bad : \A other \in Bad : Cardinality(D \ seen) <= Cardinality(D \ other)
    <3>1. PICK m \in Left : \A k \in Left : m <= k
      <4> HIDE DEF Left
      <4>. QED
        BY <2>2, NatMin
    <3>. QED
      BY <3>1
  <2>4. More(seen) # {}
    BY <1>4, <1>9
  <2>5. seen \cup More(seen) \in SUBSET D
    BY <1>3
  <2>6. seen \cup More(seen) \notin Bad
    <3>1. PICK rest, fewer : rest = D \ seen /\ fewer = D \ (seen \cup More(seen))
      OBVIOUS
    <3>2. fewer \in SUBSET rest /\ fewer # rest
      BY <1>3, <2>4, <3>1 DEF More
    <3>3. IsFiniteSet(rest) /\ Cardinality(rest) \in Nat /\ Cardinality(fewer) \in Nat
      BY <2>1, <2>5, <3>1
    <3>4. Cardinality(fewer) <= Cardinality(rest) /\ Cardinality(fewer) # Cardinality(rest)
      BY <3>2, <3>3, FS_Subset
    <3>5. ~(Cardinality(rest) <= Cardinality(fewer))
      BY ONLY <3>3, <3>4
    <3>. QED
      BY <2>3, <3>1, <3>5
  <2>. QED
    BY <1>5, <1>9, <2>4, <2>5, <2>6
<1>11. Closure(succ, S) = Lowest(S)
  <2> HIDE DEF Lowest
  <2>. QED
    BY <1>8, <1>10
<1>. QED
  BY <1>11 DEF ClosedUnder

(***************************************************************************)
(* The store: a heap h and a trail tr.                                     *)
(***************************************************************************)
HeapCell ==
  {Atom} \cup [tag : {"REF"}, ref : Nat] \cup [tag : {"STR"}, ptr : Nat]
         \cup [tag : {"FUNCTOR"}, arity : Nat]

IsAtomCell(h, c) == h[c] = Atom
IsFunctorCell(h, c) == h[c].tag = "FUNCTOR" /\ h[c] = Functor(h[c].arity) /\ h[c].arity \in Nat
IsRefCell(h, c) == h[c].tag = "REF" /\ h[c] = Ref(h[c].ref) /\ h[c].ref \in Pointable(h)
IsStrCell(h, c) ==
  /\ h[c].tag = "STR" /\ h[c] = Str(h[c].ptr) /\ h[c].ptr \in 1 .. c - 1
  /\ IsFunctorCell(h, h[c].ptr) /\ h[c].ptr + h[h[c].ptr].arity < c

\* Every cell leads to cells of the heap, a structure to cells below its own.
HeapOK(h) ==
  /\ h \in Seq(HeapCell)
  /\ \A c \in 1 .. Len(h) :
       IsAtomCell(h, c) \/ IsFunctorCell(h, c) \/ IsRefCell(h, c) \/ IsStrCell(h, c)

\* No REFs go round in a ring, so heap_deref ends.
NoRing(h) ==
  \A X \in SUBSET (1 .. Len(h)) :
    X # {} => \E c \in X : ~(h[c].tag = "REF" /\ h[c].ref # c /\ h[c].ref \in X)

\* The trail names REF cells.
TrailOK(h, tr) ==
  /\ tr \in Seq(Nat)
  /\ \A i \in 1 .. Len(tr) : tr[i] \in 1 .. Len(h) /\ h[tr[i]].tag = "REF"

StoreOK(h, tr) == HeapOK(h) /\ NoRing(h) /\ TrailOK(h, tr)

Undone(tr, tm, c) == \E i \in tm + 1 .. Len(tr) : tr[i] = c

\* The heap that is there after a release to hm and tm.
Rel(h, tr, hm, tm) == [c \in 1 .. hm |-> IF Undone(tr, tm, c) THEN Ref(c) ELSE h[c]]

\* A mark that can be released to: it is a place in heap and trail, and all that
\* leads from below it to above it is undone.
MarkOK(h, tr, hm, tm) ==
  /\ hm \in 0 .. Len(h) /\ tm \in 0 .. Len(tr)
  /\ \A i \in 1 .. tm : tr[i] <= hm
  /\ \A c \in 1 .. hm : h[c].tag = "REF" /\ h[c].ref > hm => Undone(tr, tm, c)

\* A mark with two terms, and the canonical form they had.
SnapOK(h, tr, hm, tm, goals, ans, was) ==
  /\ MarkOK(h, tr, hm, tm)
  /\ goals \in Pointable(Rel(h, tr, hm, tm)) /\ ans \in Pointable(Rel(h, tr, hm, tm))
  /\ was = Terms(Rel(h, tr, hm, tm), <<goals, ans>>)

\* A mark that nothing crosses, neither pointers nor trail entries.
FenceOK(h, tr, hm, tm) ==
  /\ hm \in 0 .. Len(h) /\ tm \in 0 .. Len(tr)
  /\ \A c \in 1 .. Len(h) : h[c].tag = "REF" => (h[c].ref <= hm <=> c <= hm)
  /\ \A c \in 1 .. Len(h) : h[c].tag = "STR" /\ hm < c => hm < h[c].ptr
  /\ \A i \in 1 .. Len(tr) : tr[i] <= hm <=> i <= tm

\* Old cells that point up are on the trail.
PointUpByTrail(h, tr, from) ==
  /\ from \in 0 .. Len(h)
  /\ \A c \in 1 .. from : h[c].tag = "REF" /\ h[c].ref > from => \E i \in 1 .. Len(tr) : tr[i] = c

(***************************************************************************)
(* Cells and what they reach.                                              *)
(***************************************************************************)
LEMMA CellAt ==
  ASSUME NEW h, HeapOK(h)
  PROVE  /\ Len(h) \in Nat /\ IsFiniteSet(1 .. Len(h)) /\ DOMAIN h = 1 .. Len(h)
         /\ \A c \in 1 .. Len(h) : c \in Nat /\ c >= 1 /\ h[c] \in HeapCell
<1>1. h \in Seq(HeapCell) /\ Len(h) \in Nat
  BY LenProperties DEF HeapOK
<1>2. PICK n \in Nat : n = Len(h)
  BY <1>1
<1>3. IsFiniteSet(1 .. n)
  BY UpTo
<1>. QED
  BY <1>1, <1>2, <1>3, ElementOfSeq, LenProperties

LEMMA ChildrenIn ==
  ASSUME NEW h, HeapOK(h), NEW c \in 1 .. Len(h)
  PROVE  /\ Children(h, c) \subseteq 1 .. Len(h)
         /\ h[c].tag = "STR" => Children(h, c) \subseteq 1 .. c - 1 /\ h[c].ptr \in Children(h, c)
<1>1. c \in Nat /\ Len(h) \in Nat
  BY CellAt
<1>2. CASE IsAtomCell(h, c) \/ IsFunctorCell(h, c)
  BY <1>2 DEF IsAtomCell, IsFunctorCell, Children, Atom
<1>3. CASE IsRefCell(h, c)
  BY <1>3 DEF IsRefCell, Children, Pointable
<1>4. CASE IsStrCell(h, c)
  <2>1. PICK p, a : p = h[c].ptr /\ a = h[p].arity
    OBVIOUS
  <2>2. p \in 1 .. c - 1 /\ a \in Nat /\ p + a < c /\ h[c].tag = "STR"
    BY <1>4, <2>1 DEF IsStrCell, IsFunctorCell
  <2>3. Children(h, c) = p .. p + a
    BY <2>1, <2>2 DEF Children
  <2>4. p .. p + a \subseteq 1 .. c - 1 /\ 1 .. c - 1 \subseteq 1 .. Len(h) /\ p \in p .. p + a
    BY <1>1, <2>2
  <2>. QED
    BY <2>1, <2>3, <2>4
<1>. QED
  BY <1>2, <1>3, <1>4 DEF HeapOK

\* Nothing leads out of X.
Closed(h, X) == \A c \in X : Children(h, c) \subseteq X

LEMMA ReachIsLeast ==
  ASSUME NEW h, HeapOK(h), NEW S \in SUBSET (1 .. Len(h)), NEW before
  PROVE  /\ S \subseteq Reach(h, S, before) \cup before /\ Reach(h, S, before) \subseteq 1 .. Len(h)
         /\ \A c \in Reach(h, S, before) : Children(h, c) \subseteq Reach(h, S, before) \cup before
         /\ \A X \in SUBSET (1 .. Len(h)) : S \subseteq X /\ Closed(h, X) => Reach(h, S, before) \subseteq X
<1> DEFINE D == 1 .. Len(h)
           succ == [c \in D |-> Children(h, c) \ before]
<1>1. IsFiniteSet(D) /\ \A c \in D : Children(h, c) \ before \in SUBSET D
  BY CellAt, ChildrenIn
<1>2. succ \in [D -> SUBSET D] /\ S \ before \in SUBSET D
  BY <1>1
<1>3. Reach(h, S, before) = Closure(succ, S \ before)
  BY DEF Reach
<1>4. \A c \in D : succ[c] = Children(h, c) \ before
  OBVIOUS
<1> HIDE DEF D, succ
<1>5. PICK R : R = Closure(succ, S \ before)
  OBVIOUS
<1>6. /\ S \ before \subseteq R /\ R \subseteq D /\ ClosedUnder(succ, R)
      /\ \A X \in SUBSET D : S \ before \subseteq X /\ ClosedUnder(succ, X) => R \subseteq X
  BY <1>1, <1>2, <1>5, ClosureIsLeast
<1>7. \A c \in R : Children(h, c) \subseteq R \cup before
  BY <1>4, <1>6 DEF ClosedUnder
<1>8. \A X \in SUBSET D : S \subseteq X /\ Closed(h, X) => R \subseteq X
  <2> SUFFICES ASSUME NEW X \in SUBSET D, S \subseteq X, Closed(h, X) PROVE R \subseteq X
    OBVIOUS
  <2>1. \A c \in X : succ[c] \subseteq X
    BY <1>4 DEF Closed
  <2>. QED
    BY <1>6, <2>1 DEF ClosedUnder
<1>. QED
  BY <1>3, <1>5, <1>6, <1>7, <1>8 DEF D

(***************************************************************************)
(* Terms that are carried from one heap to another keep their canonical    *)
(* form.                                                                   *)
(***************************************************************************)
\* to takes the cells X of h, which lead to each other only, to h2 in the order
\* they have, and structures as a whole.
Carried(h, X, to, h2) ==
  /\ X \subseteq 1 .. Len(h) /\ Closed(h, X)
  /\ \A c \in X : to[c] \in 1 .. Len(h2) /\ h2[to[c]] = Repoint(h[c], to)
  /\ \A c, d \in X : c < d => to[c] < to[d]
  /\ \A c \in X : h[c].tag = "STR" =>
       \A d \in Children(h, c) : to[d] = to[h[c].ptr] + (d - h[c].ptr)

LEMMA CarriedChildren ==
  ASSUME NEW h, HeapOK(h), NEW h2, HeapOK(h2), NEW X, NEW to, Carried(h, X, to, h2), NEW c \in X
  PROVE  Children(h2, to[c]) = {to[d] : d \in Children(h, c)}
<1>1. /\ c \in 1 .. Len(h) /\ Children(h, c) \subseteq X /\ to[c] \in 1 .. Len(h2)
      /\ h2[to[c]] = Repoint(h[c], to)
  BY DEF Carried, Closed
<1>2. CASE IsAtomCell(h, c) \/ IsFunctorCell(h, c)
  <2>1. h[c].tag # "REF" /\ h[c].tag # "STR"
    BY <1>2 DEF IsAtomCell, IsFunctorCell, Atom
  <2>2. h2[to[c]] = h[c]
    BY <1>1, <2>1 DEF Repoint
  <2>. QED
    BY <2>1, <2>2 DEF Children
<1>3. CASE IsRefCell(h, c)
  <2>1. PICK r : r = h[c].ref
    OBVIOUS
  <2>2. h[c].tag = "REF" /\ Children(h, c) = {r}
    BY <1>3, <2>1 DEF IsRefCell, Children
  <2>3. h2[to[c]] = Ref(to[r])
    BY <1>1, <2>1, <2>2 DEF Repoint
  <2>4. Children(h2, to[c]) = {to[r]}
    BY <2>3 DEF Children, Ref
  <2>. QED
    BY <2>2, <2>4
<1>4. CASE IsStrCell(h, c)
  <2>1. PICK p, a : p = h[c].ptr /\ a = h[p].arity
    OBVIOUS
  <2>2. /\ p \in Nat /\ a \in Nat /\ h[c].tag = "STR"
        /\ h[p].tag = "FUNCTOR" /\ h[p].arity = a
    BY <1>1, <1>4, <2>1 DEF IsStrCell, IsFunctorCell
  <2>3. Children(h, c) = p .. p + a /\ p \in p .. p + a
    BY <2>1, <2>2 DEF Children
  <2>4. p \in X
    BY <1>1, <2>3
  <2>5. h2[to[p]] = h[p]
    BY <2>2, <2>4 DEF Carried, Repoint
  <2>6. h2[to[c]].tag = "STR" /\ h2[to[c]].ptr = to[p]
    BY <1>1, <2>1, <2>2 DEF Repoint, Str
  <2>7. Children(h2, to[c]) = to[p] .. to[p] + a
    BY <2>2, <2>5, <2>6 DEF Children
  <2>8. \A d \in p .. p + a : to[d] = to[p] + (d - p)
    BY <2>1, <2>2, <2>3 DEF Carried
  <2>9. PICK k : k = to[p]
    OBVIOUS
  <2>10. k \in Int
    BY <2>4, <2>9 DEF Carried
  <2>11. ASSUME NEW e \in k .. k + a
         PROVE  \E d \in p .. p + a : e = k + (d - p)
    <3>1. p + (e - k) \in p .. p + a /\ e = k + ((p + (e - k)) - p)
      BY <2>2, <2>10
    <3>. QED
      BY <3>1
  <2>12. ASSUME NEW d \in p .. p + a
         PROVE  k + (d - p) \in k .. k + a
    BY <2>2, <2>10
  <2>13. \A e \in Children(h2, to[c]) : \E d \in Children(h, c) : e = to[d]
    BY <2>3, <2>7, <2>8, <2>9, <2>11
  <2>14. \A d \in Children(h, c) : to[d] \in Children(h2, to[c])
    BY <2>3, <2>7, <2>8, <2>9, <2>12
  <2>. QED
    BY <2>13, <2>14
<1>. QED
  BY <1>1, <1>2, <1>3, <1>4 DEF HeapOK

LEMMA CarriedReach ==
  ASSUME NEW h, HeapOK(h), NEW h2, HeapOK(h2), NEW X, NEW to, Carried(h, X, to, h2),
         NEW S \in SUBSET X, NEW T, T = {to[c] : c \in S}
  PROVE  Reach(h, S, {}) \subseteq X /\ Reach(h2, T, {}) = {to[c] : c \in Reach(h, S, {})}
<1>1. PICK A, B : A = Reach(h, S, {}) /\ B = Reach(h2, T, {})
  OBVIOUS
<1>2. X \in SUBSET (1 .. Len(h)) /\ Closed(h, X) /\ \A c \in X : to[c] \in 1 .. Len(h2)
  BY DEF Carried
<1>3. S \in SUBSET (1 .. Len(h)) /\ T \in SUBSET (1 .. Len(h2))
  BY <1>2
<1>4. /\ S \subseteq A /\ \A c \in A : Children(h, c) \subseteq A
      /\ \A Y \in SUBSET (1 .. Len(h)) : S \subseteq Y /\ Closed(h, Y) => A \subseteq Y
  BY <1>1, <1>3, ReachIsLeast
<1>5. /\ T \subseteq B /\ B \subseteq 1 .. Len(h2) /\ \A c \in B : Children(h2, c) \subseteq B
      /\ \A Y \in SUBSET (1 .. Len(h2)) : T \subseteq Y /\ Closed(h2, Y) => B \subseteq Y
  <2>1. /\ T \subseteq B \cup {} /\ B \subseteq 1 .. Len(h2)
        /\ \A c \in B : Children(h2, c) \subseteq B \cup {}
    BY <1>1, <1>3, ReachIsLeast
  <2>2. \A Y \in SUBSET (1 .. Len(h2)) : T \subseteq Y /\ Closed(h2, Y) => B \subseteq Y
    BY ONLY <1>1, <1>3, HeapOK(h2), ReachIsLeast
  <2>. QED
    BY <2>1, <2>2
<1>6. A \subseteq X
  BY <1>2, <1>4
<1>7. \A c \in X : Children(h2, to[c]) = {to[d] : d \in Children(h, c)}
  BY CarriedChildren
<1>8. B \subseteq {to[c] : c \in A}
  <2>1. {to[c] : c \in A} \in SUBSET (1 .. Len(h2)) /\ T \subseteq {to[c] : c \in A}
    BY <1>2, <1>4, <1>6
  <2>2. Closed(h2, {to[c] : c \in A})
    BY <1>4, <1>6, <1>7 DEF Closed
  <2>. QED
    BY <1>5, <2>1, <2>2
<1>9. A \subseteq {c \in A : to[c] \in B}
  <2> DEFINE Y == {c \in A : to[c] \in B}
  <2>1. Y \in SUBSET (1 .. Len(h)) /\ S \subseteq Y
    BY <1>2, <1>4, <1>5, <1>6
  <2>2. ASSUME NEW c \in Y
        PROVE  Children(h, c) \subseteq Y
    <3>1. c \in X /\ Children(h, c) \subseteq A /\ Children(h2, to[c]) \subseteq B
      BY <1>4, <1>5, <1>6
    <3>. QED
      BY <1>7, <3>1
  <2>3. Closed(h, Y)
    BY <2>2 DEF Closed
  <2> HIDE DEF Y
  <2>4. A \subseteq Y
    BY <1>4, <2>1, <2>3
  <2>. QED
    BY <2>4 DEF Y
<1>. QED
  BY <1>1, <1>6, <1>8, <1>9

LEMMA CarriedTerms ==
  ASSUME NEW h, HeapOK(h), NEW h2, HeapOK(h2), NEW X, NEW to, Carried(h, X, to, h2),
         NEW roots, NEW roots2, Len(roots) \in Nat, Len(roots2) = Len(roots),
         \A i \in 1 .. Len(roots) : roots[i] \in X /\ roots2[i] = to[roots[i]]
  PROVE  Terms(h2, roots2) = Terms(h, roots)
<1>1. PICK n \in Nat : n = Len(roots)
  OBVIOUS
<1> DEFINE S == {roots[i] : i \in 1 .. n}
           T == {roots2[i] : i \in 1 .. n}
<1>2. S \in SUBSET X /\ T = {to[c] : c \in S}
  BY <1>1
<1> HIDE DEF S, T
<1>3. PICK A, B : A = Reach(h, S, {}) /\ B = Reach(h2, T, {})
  OBVIOUS
<1>4. A \subseteq X /\ B = {to[c] : c \in A}
  BY <1>2, <1>3, CarriedReach
<1>5. S \subseteq A /\ A \subseteq 1 .. Len(h) /\ \A c \in A : Children(h, c) \subseteq A
  <2>1. S \in SUBSET (1 .. Len(h))
    BY <1>2 DEF Carried
  <2>. QED
    BY <1>3, <2>1, ReachIsLeast
<1>6. Orders(to, A, B) /\ IsFiniteSet(A) /\ A \subseteq Int
  <2>1. \A c \in A : to[c] \in Int
    BY <1>4 DEF Carried
  <2>2. \A c, d \in A : c < d => to[c] < to[d]
    BY <1>4 DEF Carried
  <2>3. IsFiniteSet(A) /\ A \subseteq Int
    <3>1. PICK D : D = 1 .. Len(h)
      OBVIOUS
    <3>2. IsFiniteSet(D) /\ D \subseteq Int /\ A \in SUBSET D
      BY <1>5, <3>1, CellAt
    <3>3. IsFiniteSet(A)
      BY ONLY <3>2, FS_Subset
    <3>. QED
      BY <3>2, <3>3
  <2>. QED
    BY <1>4, <2>1, <2>2, <2>3 DEF Orders
<1> DEFINE num(C) == [c \in C |-> NumBelow(C, c) + 1]
           shown(g, C) == [c \in C |-> Repoint(g[c], num(C))]
<1>7. \A c \in A : to[c] \in B /\ num(B)[to[c]] = num(A)[c]
  <2>1. \A i \in A : i \in Int
    BY <1>6
  <2>2. \A c \in A : NumBelow(B, to[c]) = NumBelow(A, c)
    BY ONLY <1>6, <2>1, OrdersBelow
  <2>. QED
    BY <1>4, <2>2
<1>8. \A c \in A : shown(h2, B)[to[c]] = shown(h, A)[c]
  <2> SUFFICES ASSUME NEW c \in A
               PROVE  Repoint(h2[to[c]], num(B)) = Repoint(h[c], num(A))
    BY <1>7
  <2> HIDE DEF num
  <2>1. c \in 1 .. Len(h) /\ Children(h, c) \subseteq A /\ h2[to[c]] = Repoint(h[c], to)
    BY <1>4, <1>5 DEF Carried
  <2>2. CASE IsAtomCell(h, c) \/ IsFunctorCell(h, c)
    BY <2>1, <2>2 DEF IsAtomCell, IsFunctorCell, Atom, Functor, Repoint
  <2>3. CASE IsRefCell(h, c)
    <3>1. h[c].tag = "REF" /\ h[c].ref \in A
      BY <2>1, <2>3 DEF IsRefCell, Children
    <3>2. num(B)[to[h[c].ref]] = num(A)[h[c].ref]
      BY <1>7, <3>1
    <3>. QED
      BY <2>1, <3>1, <3>2 DEF Repoint, Ref
  <2>4. CASE IsStrCell(h, c)
    <3>1. h[c].tag = "STR" /\ h[c].ptr \in A
      BY <2>1, <2>4, ChildrenIn DEF IsStrCell
    <3>2. num(B)[to[h[c].ptr]] = num(A)[h[c].ptr]
      BY <1>7, <3>1
    <3>. QED
      BY <2>1, <3>1, <3>2 DEF Repoint, Str
  <2>. QED
    BY <2>1, <2>2, <2>3, <2>4 DEF HeapOK
<1>9. Terms(h, roots) = [cells |-> Selected(shown(h, A), A), roots |-> [i \in 1 .. n |-> num(A)[roots[i]]]]
  BY <1>1, <1>3 DEF Terms, S
<1>10. Terms(h2, roots2) = [cells |-> Selected(shown(h2, B), B), roots |-> [i \in 1 .. n |-> num(B)[roots2[i]]]]
  BY <1>1, <1>3 DEF Terms, T
<1> HIDE DEF num, shown
<1>11. PICK s, d : s = shown(h, A) /\ d = shown(h2, B)
  OBVIOUS
<1>12. Selected(shown(h2, B), B) = Selected(shown(h, A), A)
  <2>1. \A i \in A : i \in Int
    BY <1>6
  <2>2. Carries(to, A, s, B, d)
    BY <1>6, <1>8, <1>11 DEF Carries, Orders
  <2>3. Selected(d, B) = Selected(s, A)
    <3>1. IsFiniteSet(A)
      BY <1>6
    <3>. QED
      BY ONLY <2>1, <2>2, <3>1, SelectedMoved
  <2>. QED
    BY <1>11, <2>3
<1>13. \A i \in 1 .. n : num(B)[roots2[i]] = num(A)[roots[i]]
  BY <1>1, <1>5, <1>7 DEF S
<1>. QED
  BY <1>9, <1>10, <1>12, <1>13

(***************************************************************************)
(* Releasing.                                                              *)
(***************************************************************************)
LEMMA TrailAt ==
  ASSUME NEW h, HeapOK(h), NEW tr, TrailOK(h, tr)
  PROVE  /\ Len(tr) \in Nat /\ IsFiniteSet(1 .. Len(tr))
         /\ \A i \in 1 .. Len(tr) : tr[i] \in Nat /\ tr[i] \in 1 .. Len(h) /\ h[tr[i]].tag = "REF"
<1>1. tr \in Seq(Nat) /\ Len(tr) \in Nat
  BY LenProperties DEF TrailOK
<1>2. PICK n \in Nat : n = Len(tr)
  BY <1>1
<1>3. IsFiniteSet(1 .. n)
  BY UpTo
<1>. QED
  BY <1>1, <1>2, <1>3, ElementOfSeq DEF TrailOK

LEMMA RelAt ==
  ASSUME NEW h, NEW tr, NEW hm \in Nat, NEW tm
  PROVE  /\ Len(Rel(h, tr, hm, tm)) = hm
         /\ \A c \in 1 .. hm : Rel(h, tr, hm, tm)[c] = IF Undone(tr, tm, c) THEN Ref(c) ELSE h[c]
BY DEF Rel

\* What a mark lets a release leave behind is a heap again.
LEMMA RelHeap ==
  ASSUME NEW h, NEW tr, StoreOK(h, tr), NEW hm, NEW tm, MarkOK(h, tr, hm, tm)
  PROVE  /\ hm \in Nat /\ hm <= Len(h) /\ HeapOK(Rel(h, tr, hm, tm)) /\ NoRing(Rel(h, tr, hm, tm))
         /\ \A c \in 1 .. hm : h[c].tag = "REF" => Rel(h, tr, hm, tm)[c].tag = "REF"
<1>1. PICK r : r = Rel(h, tr, hm, tm)
  OBVIOUS
<1>2. HeapOK(h) /\ NoRing(h) /\ TrailOK(h, tr)
  BY DEF StoreOK
<1>3. Len(h) \in Nat /\ \A c \in 1 .. Len(h) : c \in Nat /\ h[c] \in HeapCell
  BY <1>2, CellAt
<1>4. hm \in Nat /\ tm \in Nat /\ hm <= Len(h) /\ \A c \in 1 .. hm : c \in 1 .. Len(h)
  <2>1. Len(tr) \in Nat
    BY <1>2, TrailAt
  <2>. QED
    BY <1>3, <2>1 DEF MarkOK
<1>5. Len(r) = hm /\ \A c \in 1 .. hm : r[c] = IF Undone(tr, tm, c) THEN Ref(c) ELSE h[c]
  BY <1>1, <1>4, RelAt
<1>6. \A c \in 1 .. hm : Undone(tr, tm, c) => h[c].tag = "REF"
  <2> SUFFICES ASSUME NEW c \in 1 .. hm, NEW i \in tm + 1 .. Len(tr), tr[i] = c PROVE h[c].tag = "REF"
    BY DEF Undone
  <2>1. i \in 1 .. Len(tr)
    BY <1>4
  <2>. QED
    BY <1>2, <2>1, TrailAt
<1>7. \A c \in 1 .. hm : (h[c].tag = "REF" <=> r[c].tag = "REF") /\ (h[c].tag # "REF" => r[c] = h[c])
  BY <1>5, <1>6 DEF Ref
<1>8. \A c \in 1 .. hm : c \in Pointable(h) => c \in Pointable(r)
  BY <1>5, <1>7 DEF Pointable
<1>9. \A c \in 1 .. hm : IsAtomCell(r, c) \/ IsFunctorCell(r, c) \/ IsRefCell(r, c) \/ IsStrCell(r, c)
  <2> TAKE c \in 1 .. hm
  <2>1. CASE Undone(tr, tm, c)
    <3>1. r[c] = Ref(c) /\ c \in 1 .. Len(r)
      BY <1>5, <2>1
    <3>. QED
      BY <3>1 DEF IsRefCell, Pointable, Ref
  <2>2. CASE ~Undone(tr, tm, c)
    <3>1. r[c] = h[c]
      BY <1>5, <2>2
    <3>2. CASE IsAtomCell(h, c) \/ IsFunctorCell(h, c)
      BY <3>1, <3>2 DEF IsAtomCell, IsFunctorCell
    <3>3. CASE IsRefCell(h, c)
      <4>1. PICK t : t = h[c].ref
        OBVIOUS
      <4>2. t \in Pointable(h) /\ t \in 1 .. Len(h) /\ h[c].tag = "REF"
        BY <3>3, <4>1 DEF IsRefCell, Pointable
      <4>3. ~(t > hm)
        BY <2>2, <4>1, <4>2 DEF MarkOK
      <4>4. t \in 1 .. hm
        BY <1>3, <1>4, <4>2, <4>3
      <4>. QED
        BY <1>8, <3>1, <3>3, <4>1, <4>2, <4>4 DEF IsRefCell
    <3>4. CASE IsStrCell(h, c)
      <4>1. PICK p : p = h[c].ptr
        OBVIOUS
      <4>2. p \in 1 .. c - 1 /\ IsFunctorCell(h, p)
        BY <3>4, <4>1 DEF IsStrCell
      <4>3. p \in 1 .. hm /\ h[p].tag # "REF"
        BY <1>4, <4>2 DEF IsFunctorCell
      <4>4. r[p] = h[p]
        BY <1>7, <4>3
      <4>. QED
        BY <3>1, <3>4, <4>1, <4>4 DEF IsStrCell, IsFunctorCell
    <3>. QED
      BY <1>2, <1>4, <3>2, <3>3, <3>4 DEF HeapOK
  <2>. QED
    BY <2>1, <2>2
<1>10. r \in Seq(HeapCell)
  <2>1. \A c \in 1 .. hm : Ref(c) \in HeapCell
    BY <1>4 DEF HeapCell, Ref
  <2>2. r \in [1 .. hm -> HeapCell]
    BY <1>1, <1>3, <1>4, <2>1 DEF Rel
  <2>. QED
    BY <1>4, <2>2
<1>11. NoRing(r)
  <2> SUFFICES ASSUME NEW X \in SUBSET (1 .. hm), X # {}
               PROVE  \E c \in X : ~(r[c].tag = "REF" /\ r[c].ref # c /\ r[c].ref \in X)
    BY <1>5 DEF NoRing
  <2>1. PICK c \in X : ~(h[c].tag = "REF" /\ h[c].ref # c /\ h[c].ref \in X)
    <3>1. X \in SUBSET (1 .. Len(h))
      BY <1>4
    <3>. QED
      BY <1>2, <3>1 DEF NoRing
  <2>2. r[c] = Ref(c) \/ r[c] = h[c]
    BY <1>5
  <2>. QED
    BY <2>1, <2>2 DEF Ref
<1>. QED
  BY <1>1, <1>4, <1>5, <1>7, <1>9, <1>10, <1>11 DEF HeapOK

\* The trail up to a mark.
LEMMA TrailCut ==
  ASSUME NEW h, HeapOK(h), NEW tr, TrailOK(h, tr), NEW tm \in 0 .. Len(tr), NEW t, t = SubSeq(tr, 1, tm)
  PROVE  /\ t \in Seq(Nat) /\ Len(t) = tm /\ tm \in Nat
         /\ \A i \in 1 .. tm : t[i] = tr[i] /\ i \in 1 .. Len(tr)
<1>1. tr \in Seq(Nat) /\ Len(tr) \in Nat
  BY TrailAt DEF TrailOK
<1>2. \A i \in 1 .. tm : i \in 1 .. Len(tr)
  BY <1>1
<1>. QED
  BY <1>1, <1>2, PrefixSeq

\* A release to a mark takes h and tr to r and t.
Resets(h, tr, hm, tm, r, t) ==
  StoreOK(h, tr) /\ MarkOK(h, tr, hm, tm) /\ r = Rel(h, tr, hm, tm) /\ t = SubSeq(tr, 1, tm)

LEMMA ReleaseStore ==
  ASSUME NEW h, NEW tr, NEW hm, NEW tm, NEW r, NEW t, Resets(h, tr, hm, tm, r, t)
  PROVE  StoreOK(r, t)
<1>0. /\ StoreOK(h, tr) /\ MarkOK(h, tr, hm, tm)
      /\ r = Rel(h, tr, hm, tm) /\ t = SubSeq(tr, 1, tm)
  BY DEF Resets
<1>1. HeapOK(h) /\ TrailOK(h, tr) /\ tm \in 0 .. Len(tr) /\ \A i \in 1 .. tm : tr[i] <= hm
  BY <1>0 DEF StoreOK, MarkOK
<1>2. /\ hm \in Nat /\ HeapOK(r) /\ NoRing(r) /\ Len(r) = hm
      /\ \A c \in 1 .. hm : h[c].tag = "REF" => r[c].tag = "REF"
  BY <1>0, RelHeap, RelAt
<1>3. t \in Seq(Nat) /\ Len(t) = tm /\ \A i \in 1 .. tm : t[i] = tr[i] /\ i \in 1 .. Len(tr)
  BY <1>0, <1>1, TrailCut
<1>4. \A i \in 1 .. Len(tr) : tr[i] \in Nat /\ tr[i] \in 1 .. Len(h) /\ h[tr[i]].tag = "REF"
  BY <1>0, <1>1, TrailAt
<1>5. Len(h) \in Nat
  BY <1>0, <1>1, CellAt
<1>6. \A i \in 1 .. tm : t[i] \in 1 .. hm /\ h[t[i]].tag = "REF"
  BY <1>0, <1>1, <1>2, <1>3, <1>4, <1>5
<1>. QED
  BY <1>0, <1>2, <1>3, <1>6 DEF StoreOK, TrailOK

\* An earlier mark can still be released to, and to the same heap.
LEMMA ReleaseMark ==
  ASSUME NEW h, NEW tr, NEW hm, NEW tm, NEW r, NEW t, Resets(h, tr, hm, tm, r, t),
         NEW hm1, NEW tm1, MarkOK(h, tr, hm1, tm1), hm1 <= hm, tm1 <= tm
  PROVE  MarkOK(r, t, hm1, tm1) /\ Rel(r, t, hm1, tm1) = Rel(h, tr, hm1, tm1)
<1>0. /\ StoreOK(h, tr) /\ MarkOK(h, tr, hm, tm)
      /\ r = Rel(h, tr, hm, tm) /\ t = SubSeq(tr, 1, tm)
  BY DEF Resets
<1>1. HeapOK(h) /\ TrailOK(h, tr) /\ tm \in 0 .. Len(tr) /\ tm1 \in 0 .. Len(tr)
  BY <1>0 DEF StoreOK, MarkOK
<1>2. hm \in Nat /\ hm1 \in Nat /\ hm1 \in 0 .. hm /\ Len(r) = hm
  BY <1>0, RelHeap, RelAt
<1>3. Len(tr) \in Nat /\ tm \in Nat /\ tm1 \in Nat /\ tm1 \in 0 .. tm /\ \A i \in tm1 + 1 .. tm : i \in 1 .. tm
  BY <1>0, <1>1, TrailAt
<1>4. Len(t) = tm /\ \A i \in 1 .. tm : t[i] = tr[i] /\ i \in 1 .. Len(tr)
  BY <1>0, <1>1, TrailCut
<1>5. \A c : Undone(t, tm1, c) <=> \E i \in tm1 + 1 .. tm : tr[i] = c
  BY <1>0, <1>3, <1>4 DEF Undone
<1>6. \A c : Undone(tr, tm1, c) <=> Undone(t, tm1, c) \/ Undone(tr, tm, c)
  <2> TAKE c
  <2>1. ASSUME NEW i
        PROVE  i \in tm1 + 1 .. Len(tr) <=> i \in tm1 + 1 .. tm \/ i \in tm + 1 .. Len(tr)
    BY <1>0, <1>1, <1>3
  <2>. QED
    BY <1>0, <1>5, <2>1 DEF Undone
<1>7. \A c \in 1 .. hm1 : c \in 1 .. hm /\ r[c] = IF Undone(tr, tm, c) THEN Ref(c) ELSE h[c]
  BY <1>0, <1>2, RelAt
<1>8. Rel(r, t, hm1, tm1) = Rel(h, tr, hm1, tm1)
  <2>1. \A c \in 1 .. hm1 : (IF Undone(t, tm1, c) THEN Ref(c) ELSE r[c])
                            = (IF Undone(tr, tm1, c) THEN Ref(c) ELSE h[c])
    BY <1>0, <1>6, <1>7
  <2>. QED
    BY <1>0, <2>1 DEF Rel
<1>9. \A i \in 1 .. tm1 : t[i] <= hm1
  <2>1. \A i \in 1 .. tm1 : i \in 1 .. tm
    BY <1>0, <1>3
  <2>. QED
    BY <1>0, <1>4, <2>1 DEF MarkOK
<1>10. ASSUME NEW c \in 1 .. hm1, r[c].tag = "REF", r[c].ref > hm1
       PROVE  Undone(t, tm1, c)
  <2>1. ~Undone(tr, tm, c)
    <3>1. c <= hm1 /\ c \in Nat /\ hm1 \in Nat
      BY <1>0, <1>2
    <3>2. ASSUME r[c] = Ref(c)
          PROVE  FALSE
      <4>1. c > hm1
        BY <1>0, <1>10, <3>2 DEF Ref
      <4>. QED
        BY ONLY <3>1, <4>1
    <3>. QED
      BY <1>0, <1>7, <3>2
  <2>2. r[c] = h[c]
    BY <1>0, <1>7, <2>1
  <2>3. Undone(tr, tm1, c)
    BY <1>0, <1>10, <2>2 DEF MarkOK
  <2>. QED
    BY <1>0, <1>6, <2>1, <2>3
<1>. QED
  BY <1>0, <1>2, <1>3, <1>4, <1>8, <1>9, <1>10 DEF MarkOK

LEMMA SnapKept ==
  ASSUME NEW h, NEW tr, NEW h2, NEW tr2, NEW hm, NEW tm, NEW goals, NEW ans, NEW was,
         SnapOK(h, tr, hm, tm, goals, ans, was),
         MarkOK(h2, tr2, hm, tm) /\ Rel(h2, tr2, hm, tm) = Rel(h, tr, hm, tm)
  PROVE  SnapOK(h2, tr2, hm, tm, goals, ans, was)
BY DEF SnapOK

LEMMA ReleaseFence ==
  ASSUME NEW h, NEW tr, NEW hm, NEW tm, NEW r, NEW t, Resets(h, tr, hm, tm, r, t),
         NEW hk, NEW tk, FenceOK(h, tr, hk, tk), hk <= hm, tk <= tm
  PROVE  FenceOK(r, t, hk, tk)
<1>0. /\ StoreOK(h, tr) /\ MarkOK(h, tr, hm, tm)
      /\ r = Rel(h, tr, hm, tm) /\ t = SubSeq(tr, 1, tm)
  BY DEF Resets
<1>1. HeapOK(h) /\ TrailOK(h, tr) /\ tm \in 0 .. Len(tr) /\ Len(h) \in Nat /\ Len(tr) \in Nat
  BY <1>0, CellAt, TrailAt DEF StoreOK, MarkOK
<1>2. hm \in Nat /\ hm <= Len(h) /\ Len(r) = hm
  BY <1>0, RelHeap, RelAt
<1>3. Len(t) = tm /\ \A i \in 1 .. tm : t[i] = tr[i] /\ i \in 1 .. Len(tr)
  BY <1>0, <1>1, TrailCut
<1>4. \A c \in 1 .. hm : c \in 1 .. Len(h) /\ (r[c] = Ref(c) \/ r[c] = h[c])
  BY <1>0, <1>1, <1>2, RelAt
<1>5. hk \in 0 .. hm /\ tk \in 0 .. tm
  BY <1>0, <1>1, <1>2 DEF FenceOK
<1>6. ASSUME NEW c \in 1 .. hm
      PROVE  /\ r[c].tag = "REF" => (r[c].ref <= hk <=> c <= hk)
             /\ r[c].tag = "STR" /\ hk < c => hk < r[c].ptr
  <2>1. CASE r[c] = Ref(c)
    BY <1>0, <2>1 DEF Ref
  <2>2. CASE r[c] = h[c]
    BY <1>0, <1>4, <2>2 DEF FenceOK
  <2>. QED
    BY <1>0, <1>4, <2>1, <2>2
<1>8. \A i \in 1 .. tm : t[i] <= hk <=> i <= tk
  BY <1>0, <1>3 DEF FenceOK
<1>. QED
  BY <1>0, <1>2, <1>3, <1>5, <1>6, <1>8 DEF FenceOK

(***************************************************************************)
(* Cells are added on top of the heap.                                     *)
(***************************************************************************)
Grows(h, h2) == Len(h) <= Len(h2) /\ \A c \in 1 .. Len(h) : c \in 1 .. Len(h2) /\ h2[c] = h[c]

\* A new REF is a variable, or leads to an old cell, a variable or no REF.
Settled(h, h2) ==
  \A c \in 1 .. Len(h2) : c > Len(h) /\ h2[c].tag = "REF" =>
    h2[c].ref \in 1 .. Len(h) \/ h2[h2[c].ref].tag # "REF" \/ h2[h2[c].ref].ref = h2[c].ref

LEMMA GrowMark ==
  ASSUME NEW h, HeapOK(h), NEW h2, HeapOK(h2), Grows(h, h2), NEW tr, NEW hm, NEW tm, MarkOK(h, tr, hm, tm)
  PROVE  MarkOK(h2, tr, hm, tm) /\ Rel(h2, tr, hm, tm) = Rel(h, tr, hm, tm)
<1>1. Len(h) \in Nat /\ Len(h2) \in Nat
  BY CellAt
<1>2. hm \in 0 .. Len(h2) /\ \A c \in 1 .. hm : c \in 1 .. Len(h) /\ h2[c] = h[c]
  BY <1>1 DEF Grows, MarkOK
<1>3. Rel(h2, tr, hm, tm) = Rel(h, tr, hm, tm)
  BY <1>2 DEF Rel
<1>. QED
  BY <1>2, <1>3 DEF MarkOK

\* The new cells of h2 point above hk.
NewAbove(h, h2, hk) ==
  \A c \in 1 .. Len(h2) : c > Len(h) => /\ h2[c].tag = "REF" => hk < h2[c].ref
                                        /\ h2[c].tag = "STR" => hk < h2[c].ptr

LEMMA GrowFence ==
  ASSUME NEW h, HeapOK(h), NEW h2, HeapOK(h2), Grows(h, h2), NEW tr, NEW hk, NEW tk, FenceOK(h, tr, hk, tk),
         NewAbove(h, h2, hk)
  PROVE  FenceOK(h2, tr, hk, tk)
<1> USE DEF NewAbove
<1>1. Len(h) \in Nat /\ Len(h2) \in Nat /\ \A c \in 1 .. Len(h2) : c \in Nat /\ h2[c] \in HeapCell
  BY CellAt
<1>2. hk \in 0 .. Len(h) /\ hk \in Nat /\ hk \in 0 .. Len(h2)
  BY <1>1 DEF FenceOK, Grows
<1>3. ASSUME NEW c \in 1 .. Len(h2)
      PROVE  /\ h2[c].tag = "REF" => (h2[c].ref <= hk <=> c <= hk)
             /\ h2[c].tag = "STR" /\ hk < c => hk < h2[c].ptr
  <2>1. CASE c > Len(h)
    <3>1. ~(c <= hk)
      BY <1>1, <1>2, <2>1
    <3>2. ASSUME h2[c].tag = "REF"
          PROVE  ~(h2[c].ref <= hk)
      <4>1. h2[c].ref \in Nat
        BY <1>1, <3>2 DEF HeapCell, Atom
      <4>2. hk < h2[c].ref
        BY <2>1, <3>2
      <4>. QED
        BY ONLY <1>2, <4>1, <4>2
    <3>. QED
      BY <2>1, <3>1, <3>2
  <2>2. CASE ~(c > Len(h))
    <3>1. c \in 1 .. Len(h)
      BY <1>1, <2>2
    <3>. QED
      BY <3>1 DEF Grows, FenceOK
  <2>. QED
    BY <2>1, <2>2
<1>. QED
  BY <1>2, <1>3 DEF FenceOK

LEMMA GrowPointUp ==
  ASSUME NEW h, HeapOK(h), NEW h2, HeapOK(h2), Grows(h, h2), NEW tr, NEW from, PointUpByTrail(h, tr, from)
  PROVE  PointUpByTrail(h2, tr, from)
<1>1. Len(h) \in Nat /\ Len(h2) \in Nat
  BY CellAt
<1>2. from \in 0 .. Len(h2) /\ \A c \in 1 .. from : c \in 1 .. Len(h) /\ h2[c] = h[c]
  BY <1>1 DEF Grows, PointUpByTrail
<1>. QED
  BY <1>2 DEF PointUpByTrail

LEMMA GrowStore ==
  ASSUME NEW h, NEW tr, StoreOK(h, tr), NEW h2, HeapOK(h2), Grows(h, h2), Settled(h, h2)
  PROVE  StoreOK(h2, tr)
<1>1. HeapOK(h) /\ NoRing(h) /\ TrailOK(h, tr)
  BY DEF StoreOK
<1>2. Len(h) \in Nat /\ Len(h2) \in Nat /\ \A c \in 1 .. Len(h2) : c \in Nat
  BY <1>1, CellAt
<1>3. TrailOK(h2, tr)
  BY <1>1 DEF TrailOK, Grows
<1>4. ASSUME NEW X \in SUBSET (1 .. Len(h2)), X # {},
             \A c \in X : h2[c].tag = "REF" /\ h2[c].ref # c /\ h2[c].ref \in X
      PROVE  FALSE
  <2> DEFINE Old == {c \in X : c \in 1 .. Len(h)}
  <2>1. ASSUME NEW c \in Old
        PROVE  h[c].tag = "REF" /\ h[c].ref # c /\ h[c].ref \in Old
    <3>1. h[c] = h2[c] /\ h[c].tag = "REF" /\ h[c].ref # c /\ h[c].ref \in X /\ c \in 1 .. Len(h)
      BY <1>4 DEF Grows
    <3>2. h[c].ref \in Pointable(h)
      BY <1>1, <3>1 DEF HeapOK, IsAtomCell, IsFunctorCell, IsRefCell, IsStrCell, Atom
    <3>. QED
      BY <3>1, <3>2 DEF Pointable
  <2>2. Old = {}
    <3> HIDE DEF Old
    <3>1. Old \in SUBSET (1 .. Len(h))
      BY DEF Old
    <3>. QED
      BY <1>1, <2>1, <3>1 DEF NoRing
  <2>3. PICK c \in X : TRUE
    BY <1>4
  <2>4. PICK d \in X : d = h2[c].ref
    BY <1>4
  <2>5. c \in 1 .. Len(h2) /\ c > Len(h) /\ h2[c].tag = "REF" /\ d \notin 1 .. Len(h)
    BY <1>2, <1>4, <2>2
  <2>6. h2[d].tag # "REF" \/ h2[d].ref = d
    BY <2>4, <2>5 DEF Settled
  <2>. QED
    BY <1>4, <2>6
<1>5. NoRing(h2)
  BY <1>4 DEF NoRing
<1>. QED
  BY <1>3, <1>5 DEF StoreOK

\* Two sequences, one after the other.
LEMMA ConcatAt ==
  ASSUME NEW S, NEW s \in Seq(S), NEW t \in Seq(S), NEW m, m = Len(s), NEW k, k = Len(t), NEW u, u = s \o t
  PROVE  /\ u \in Seq(S) /\ Len(u) = m + k /\ m \in Nat /\ k \in Nat
         /\ \A c \in 1 .. m : u[c] = s[c]
         /\ \A c \in 1 .. k : u[m + c] = t[c]
<1>1. m \in Nat /\ k \in Nat
  BY LenProperties
<1>2. u \in Seq(S) /\ Len(u) = m + k /\ \A i \in 1 .. m + k : u[i] = IF i <= m THEN s[i] ELSE t[i - m]
  BY ConcatProperties
<1>3. \A c \in 1 .. m : c \in 1 .. m + k /\ c <= m
  BY <1>1
<1>4. \A c \in 1 .. k : m + c \in 1 .. m + k /\ ~(m + c <= m) /\ (m + c) - m = c
  BY <1>1
<1>. QED
  BY ONLY <1>1, <1>2, <1>3, <1>4

LEMMA OldCells ==
  ASSUME NEW h, HeapOK(h), NEW h2, Grows(h, h2), NEW c \in 1 .. Len(h)
  PROVE  IsAtomCell(h2, c) \/ IsFunctorCell(h2, c) \/ IsRefCell(h2, c) \/ IsStrCell(h2, c)
<1>1. c \in Nat /\ Len(h) \in Nat /\ h2[c] = h[c]
  BY CellAt DEF Grows
<1>2. CASE IsAtomCell(h, c) \/ IsFunctorCell(h, c)
  BY <1>1, <1>2 DEF IsAtomCell, IsFunctorCell
<1>3. CASE IsRefCell(h, c)
  <2>1. \A d \in Pointable(h) : d \in Pointable(h2)
    BY DEF Grows, Pointable
  <2>. QED
    BY <1>1, <1>3, <2>1 DEF IsRefCell
<1>4. CASE IsStrCell(h, c)
  <2>1. PICK p : p = h[c].ptr
    OBVIOUS
  <2>2. p \in 1 .. Len(h)
    BY <1>1, <1>4, <2>1 DEF IsStrCell
  <2>3. h2[p] = h[p]
    BY <2>2 DEF Grows
  <2>. QED
    BY <1>1, <1>4, <2>1, <2>3 DEF IsStrCell, IsFunctorCell
<1>. QED
  BY <1>2, <1>3, <1>4 DEF HeapOK

\* f(T).
Builds(h, n, arg, h2) ==
  /\ n = Len(h) /\ arg \in Pointable(h) \cup {n + 2, n + 4}
  /\ h2 = h \o <<Functor(1), Ref(arg), Str(n + 1)>> \o (IF arg = n + 4 THEN <<Atom>> ELSE <<>>)

LEMMA BuildGrows ==
  ASSUME NEW h, HeapOK(h), NEW n, NEW arg, NEW h2, Builds(h, n, arg, h2)
  PROVE  /\ HeapOK(h2) /\ Grows(h, h2) /\ Settled(h, h2)
         /\ n + 3 \in Pointable(h2) /\ n \in Nat
         /\ \A c \in 1 .. Len(h2) : c > n =>
              /\ h2[c].tag = "REF" => h2[c].ref = arg
              /\ h2[c].tag = "STR" => h2[c].ptr = n + 1
<1> USE DEF Builds
<1>1. n \in Nat /\ h \in Seq(HeapCell) /\ \A c \in 1 .. n : c \in Nat
  BY CellAt DEF HeapOK
<1>2. arg \in Nat
  BY <1>1 DEF Pointable
<1>3. PICK s, a : s = <<Functor(1), Ref(arg), Str(n + 1)>> /\ a = IF arg = n + 4 THEN <<Atom>> ELSE <<>>
  OBVIOUS
<1>4. /\ Functor(1) \in HeapCell /\ Ref(arg) \in HeapCell /\ Str(n + 1) \in HeapCell /\ Atom \in HeapCell
  BY <1>1, <1>2 DEF HeapCell, Functor, Ref, Str
<1>5. s \in Seq(HeapCell) /\ Len(s) = 3 /\ s[1] = Functor(1) /\ s[2] = Ref(arg) /\ s[3] = Str(n + 1)
  BY <1>3, <1>4
<1>6. PICK k : k = IF arg = n + 4 THEN 1 ELSE 0
  OBVIOUS
<1>7. a \in Seq(HeapCell) /\ Len(a) = k /\ k \in {0, 1} /\ (k = 1 => a[1] = Atom)
  BY <1>3, <1>4, <1>6
<1>8. PICK g : g = h \o s
  OBVIOUS
<1>9. /\ g \in Seq(HeapCell) /\ Len(g) = n + 3
      /\ \A c \in 1 .. n : g[c] = h[c]
      /\ \A c \in 1 .. 3 : g[n + c] = s[c]
  <2>1. h \in Seq(HeapCell)
    BY <1>1
  <2>2. s \in Seq(HeapCell)
    BY <1>5
  <2>3. PICK j : j = 3
    OBVIOUS
  <2>4. j = Len(s)
    BY <1>5, <2>3
  <2>5. n = Len(h)
    OBVIOUS
  <2>6. /\ g \in Seq(HeapCell) /\ Len(g) = n + j
        /\ \A c \in 1 .. n : g[c] = h[c]
        /\ \A c \in 1 .. j : g[n + c] = s[c]
    BY ONLY <1>8, <2>1, <2>2, <2>4, <2>5, ConcatAt
  <2>. QED
    BY ONLY <2>3, <2>6
<1>10. /\ h2 \in Seq(HeapCell) /\ Len(h2) = n + 3 + k
       /\ \A c \in 1 .. n + 3 : h2[c] = g[c]
       /\ \A c \in 1 .. k : h2[(n + 3) + c] = a[c]
  <2>1. h2 = g \o a
    BY <1>3, <1>8
  <2>2. g \in Seq(HeapCell)
    BY <1>9
  <2>3. a \in Seq(HeapCell)
    BY <1>7
  <2>4. PICK m : m = n + 3
    OBVIOUS
  <2>5. m = Len(g)
    BY <1>9, <2>4
  <2>6. k = Len(a)
    BY <1>7
  <2>7. /\ h2 \in Seq(HeapCell) /\ Len(h2) = m + k
        /\ \A c \in 1 .. m : h2[c] = g[c]
        /\ \A c \in 1 .. k : h2[m + c] = a[c]
    BY ONLY <2>1, <2>2, <2>3, <2>5, <2>6, ConcatAt
  <2>. QED
    BY ONLY <2>4, <2>7
<1>11. /\ \A c \in 1 .. n : c \in 1 .. Len(h2) /\ h2[c] = h[c]
       /\ h2[n + 1] = Functor(1) /\ h2[n + 2] = Ref(arg) /\ h2[n + 3] = Str(n + 1)
       /\ k = 1 => h2[n + 4] = Atom
  <2>1. \A c \in 1 .. n : c \in 1 .. n + 3 + k /\ c \in 1 .. n + 3
    BY <1>1, <1>7
  <2>2. n + 1 \in 1 .. n + 3 /\ n + 2 \in 1 .. n + 3 /\ n + 3 \in 1 .. n + 3
    BY <1>1
  <2>3. h2[n + 1] = s[1] /\ h2[n + 2] = s[2] /\ h2[n + 3] = s[3]
    <3>1. /\ \A c \in 1 .. n + 3 : h2[c] = g[c]
          /\ \A c \in 1 .. 3 : g[n + c] = s[c]
      BY <1>9, <1>10
    <3>2. 1 \in 1 .. 3 /\ 2 \in 1 .. 3 /\ 3 \in 1 .. 3
      OBVIOUS
    <3>. QED
      BY ONLY <2>2, <3>1, <3>2
  <2>4. ASSUME k = 1
        PROVE  h2[n + 4] = Atom
    <3>1. (n + 3) + 1 = n + 4 /\ 1 \in 1 .. k
      BY <1>1, <2>4
    <3>. QED
      BY <1>7, <1>10, <2>4, <3>1
  <2>. QED
    BY <1>5, <1>9, <1>10, <2>1, <2>3, <2>4
<1>12. Grows(h, h2)
  BY <1>1, <1>7, <1>10, <1>11 DEF Grows
<1>13. ASSUME NEW c \in 1 .. Len(h2), c > n
       PROVE  c = n + 1 \/ c = n + 2 \/ c = n + 3 \/ (c = n + 4 /\ k = 1)
  BY <1>1, <1>7, <1>10, <1>13
<1>14. \A c \in Pointable(h) : c \in Pointable(h2)
  BY <1>11 DEF Pointable
<1>15. /\ n + 3 \in Pointable(h2) /\ n + 2 \in Pointable(h2) /\ (k = 1 => n + 4 \in Pointable(h2))
       /\ n + 1 \in 1 .. Len(h2)
  <2>1. /\ n + 1 \in 1 .. Len(h2) /\ n + 2 \in 1 .. Len(h2) /\ n + 3 \in 1 .. Len(h2)
        /\ k = 1 => n + 4 \in 1 .. Len(h2)
    BY <1>1, <1>7, <1>10
  <2>. QED
    BY <1>11, <2>1 DEF Pointable, Ref, Str, Atom
<1>16. arg \in Pointable(h2)
  BY <1>1, <1>6, <1>14, <1>15
<1>17. IsFunctorCell(h2, n + 1) /\ IsRefCell(h2, n + 2) /\ IsStrCell(h2, n + 3) /\ (k = 1 => IsAtomCell(h2, n + 4))
  <2>1. n + 1 \in 1 .. (n + 3) - 1 /\ (n + 1) + 1 < n + 3
    BY <1>1
  <2>2. IsFunctorCell(h2, n + 1)
    BY <1>11 DEF IsFunctorCell, Functor
  <2>3. h2[n + 3].ptr = n + 1 /\ h2[n + 3].tag = "STR" /\ h2[n + 1].arity = 1
    BY <1>11 DEF Str, Functor
  <2>4. IsStrCell(h2, n + 3)
    BY <1>11, <2>1, <2>2, <2>3 DEF IsStrCell
  <2>5. IsRefCell(h2, n + 2)
    BY <1>11, <1>16 DEF IsRefCell, Ref
  <2>. QED
    BY <1>11, <2>2, <2>4, <2>5 DEF IsAtomCell
<1>18. \A c \in 1 .. n : IsAtomCell(h2, c) \/ IsFunctorCell(h2, c) \/ IsRefCell(h2, c) \/ IsStrCell(h2, c)
  BY <1>12, OldCells DEF Grows
<1>19. HeapOK(h2)
  <2>1. \A c \in 1 .. Len(h2) : c > n \/ c \in 1 .. n
    BY <1>1, <1>7, <1>10
  <2>. QED
    BY <1>10, <1>13, <1>17, <1>18, <2>1 DEF HeapOK
<1>20. \A c \in 1 .. Len(h2) : c > n =>
         /\ h2[c].tag = "REF" => c = n + 2 /\ h2[c].ref = arg
         /\ h2[c].tag = "STR" => h2[c].ptr = n + 1
  <2> SUFFICES ASSUME NEW c \in 1 .. Len(h2), c > n
               PROVE  /\ h2[c].tag = "REF" => c = n + 2 /\ h2[c].ref = arg
                      /\ h2[c].tag = "STR" => h2[c].ptr = n + 1
    OBVIOUS
  <2>1. h2[c] = Functor(1) \/ (c = n + 2 /\ h2[c] = Ref(arg)) \/ h2[c] = Str(n + 1) \/ h2[c] = Atom
    BY <1>11, <1>13
  <2>. QED
    BY ONLY <2>1 DEF Functor, Ref, Str, Atom
<1>21. Settled(h, h2)
  <2>1. arg \in 1 .. n \/ (arg = n + 2 /\ h2[arg].ref = arg) \/ h2[arg].tag # "REF"
    BY <1>6, <1>11 DEF Pointable, Ref, Atom
  <2>. QED
    BY <1>20, <2>1 DEF Settled
<1>. QED
  BY <1>1, <1>12, <1>15, <1>19, <1>20, <1>21

(***************************************************************************)
(* Binding a variable.                                                     *)
(***************************************************************************)
\* t is where REFs end.
IsEnd(h, t) == h[t].tag # "REF" \/ h[t].ref = t

LEMMA BindStore ==
  ASSUME NEW h, NEW tr, StoreOK(h, tr), NEW v \in 1 .. Len(h), h[v] = Ref(v),
         NEW t \in Pointable(h), IsEnd(h, t), t # v,
         NEW h2, h2 = [h EXCEPT ![v] = Ref(t)], NEW tr2, tr2 = Append(tr, v)
  PROVE  StoreOK(h2, tr2)
<1>1. HeapOK(h) /\ NoRing(h) /\ TrailOK(h, tr) /\ h \in Seq(HeapCell) /\ tr \in Seq(Nat)
  BY DEF StoreOK, HeapOK, TrailOK
<1>2. Len(h) \in Nat /\ DOMAIN h = 1 .. Len(h) /\ v \in Nat
  BY <1>1, CellAt
<1>3. /\ h2 \in Seq(HeapCell) /\ Len(h2) = Len(h)
      /\ h2[v] = Ref(t) /\ \A c \in 1 .. Len(h) : c # v => h2[c] = h[c]
  <2>1. Ref(t) \in HeapCell
    BY <1>2 DEF Pointable, HeapCell, Ref
  <2>. QED
    BY <1>1, <1>2, <2>1
<1>4. \A c \in 1 .. Len(h) : (h2[c].tag = "REF" <=> h[c].tag = "REF") /\ (h[c].tag # "REF" => h2[c] = h[c])
  BY <1>3 DEF Ref
<1>5. \A c : c \in Pointable(h) => c \in Pointable(h2)
  BY <1>3 DEF Pointable, Ref
<1>6. \A c \in 1 .. Len(h) : IsAtomCell(h2, c) \/ IsFunctorCell(h2, c) \/ IsRefCell(h2, c) \/ IsStrCell(h2, c)
  <2> TAKE c \in 1 .. Len(h)
  <2>1. CASE c = v
    <3>1. h2[c].tag = "REF" /\ h2[c].ref = t
      BY <1>3, <2>1 DEF Ref
    <3>. QED
      BY <1>3, <1>5, <2>1, <3>1 DEF IsRefCell
  <2>2. CASE c # v
    <3>1. h2[c] = h[c]
      BY <1>3, <2>2
    <3>2. CASE IsAtomCell(h, c) \/ IsFunctorCell(h, c) \/ IsRefCell(h, c)
      BY <1>5, <3>1, <3>2 DEF IsAtomCell, IsFunctorCell, IsRefCell
    <3>3. CASE IsStrCell(h, c)
      <4>1. PICK p : p = h[c].ptr
        OBVIOUS
      <4>2. p \in 1 .. Len(h) /\ h[p].tag = "FUNCTOR"
        BY <1>2, <3>3, <4>1 DEF IsStrCell, IsFunctorCell
      <4>3. h2[p] = h[p]
        BY <1>4, <4>2
      <4>. QED
        BY <3>1, <3>3, <4>1, <4>3 DEF IsStrCell, IsFunctorCell
    <3>. QED
      BY <1>1, <3>2, <3>3 DEF HeapOK
  <2>. QED
    BY <2>1, <2>2
<1>7. ASSUME NEW X \in SUBSET (1 .. Len(h2)), X # {},
             \A c \in X : h2[c].tag = "REF" /\ h2[c].ref # c /\ h2[c].ref \in X
      PROVE  FALSE
    \* t ends its REFs, so it is in no ring, nor is v
  <2>1. t \notin X
    <3>1. t \in 1 .. Len(h) /\ h2[t] = h[t]
      BY <1>3 DEF Pointable
    <3>. QED
      BY <1>7, <3>1 DEF IsEnd
  <2>2. v \notin X
    BY <1>3, <1>7, <2>1 DEF Ref
  <2>3. X \in SUBSET (1 .. Len(h)) /\ \A c \in X : h2[c] = h[c]
    BY <1>3, <2>2
  <2>. QED
    BY <1>1, <1>7, <2>3 DEF NoRing
<1>8. TrailOK(h2, tr2)
  <2>1. tr2 \in Seq(Nat) /\ Len(tr2) = Len(tr) + 1 /\ Len(tr) \in Nat
        /\ \A i \in 1 .. Len(tr) + 1 : tr2[i] = IF i = Len(tr) + 1 THEN v ELSE tr[i]
    BY <1>1, <1>2, LenProperties, AppendProperties
  <2>2. \A i \in 1 .. Len(tr) + 1 : i = Len(tr) + 1 \/ i \in 1 .. Len(tr)
    BY <2>1
  <2>3. v \in 1 .. Len(h2) /\ h2[v].tag = "REF"
    BY <1>3 DEF Ref
  <2>4. \A i \in 1 .. Len(tr) : tr[i] \in 1 .. Len(h2) /\ h2[tr[i]].tag = "REF"
    BY <1>1, <1>3, <1>4, TrailAt
  <2>. QED
    BY <2>1, <2>2, <2>3, <2>4 DEF TrailOK
<1>. QED
  BY <1>3, <1>6, <1>7, <1>8 DEF StoreOK, HeapOK, NoRing

\* A binding is undone with the trail.
Binds(h, tr, v, t, h2, tr2) ==
  /\ StoreOK(h, tr) /\ v \in 1 .. Len(h) /\ h[v] = Ref(v)
  /\ h2 = [h EXCEPT ![v] = Ref(t)] /\ tr2 = Append(tr, v)

LEMMA BindMark ==
  ASSUME NEW h, NEW tr, NEW v, NEW t, NEW h2, NEW tr2, Binds(h, tr, v, t, h2, tr2),
         NEW hm, NEW tm, MarkOK(h, tr, hm, tm)
  PROVE  MarkOK(h2, tr2, hm, tm) /\ Rel(h2, tr2, hm, tm) = Rel(h, tr, hm, tm)
<1> USE DEF Binds
<1>1. HeapOK(h) /\ TrailOK(h, tr) /\ h \in Seq(HeapCell) /\ tr \in Seq(Nat)
  BY DEF StoreOK, HeapOK, TrailOK
<1>2. Len(h) \in Nat /\ DOMAIN h = 1 .. Len(h) /\ v \in Nat /\ Len(tr) \in Nat
  BY <1>1, CellAt, TrailAt
<1>3. Len(h2) = Len(h) /\ \A c \in 1 .. Len(h) : c # v => h2[c] = h[c]
  <2>1. DOMAIN h2 = 1 .. Len(h) /\ \A c \in 1 .. Len(h) : c # v => h2[c] = h[c]
    BY <1>2
  <2>. QED
    BY <1>2, <2>1
<1>4. /\ Len(tr2) = Len(tr) + 1
      /\ \A i \in 1 .. Len(tr) + 1 : tr2[i] = IF i = Len(tr) + 1 THEN v ELSE tr[i]
  BY <1>1, <1>2, AppendProperties
<1>5. tm \in 0 .. Len(tr) /\ tm \in Nat /\ hm \in 0 .. Len(h)
  BY <1>2 DEF MarkOK
<1>6. \A c : Undone(tr2, tm, c) <=> c = v \/ Undone(tr, tm, c)
  <2> TAKE c
  <2>1. \A i : i \in tm + 1 .. Len(tr2) <=> i = Len(tr) + 1 \/ i \in tm + 1 .. Len(tr)
    BY <1>2, <1>4, <1>5
  <2>2. \A i \in tm + 1 .. Len(tr) : tr2[i] = tr[i]
    BY <1>2, <1>4, <1>5
  <2>3. tr2[Len(tr) + 1] = v
    BY <1>2, <1>4
  <2>. QED
    BY <2>1, <2>2, <2>3 DEF Undone
<1>7. \A c \in 1 .. hm : c \in 1 .. Len(h)
  BY <1>2, <1>5
<1>8. Rel(h2, tr2, hm, tm) = Rel(h, tr, hm, tm)
  <2>1. \A c \in 1 .. hm : (IF Undone(tr2, tm, c) THEN Ref(c) ELSE h2[c])
                            = (IF Undone(tr, tm, c) THEN Ref(c) ELSE h[c])
    BY <1>3, <1>6, <1>7
  <2>. QED
    BY <2>1 DEF Rel
<1>9. \A c \in 1 .. hm : h2[c].tag = "REF" /\ h2[c].ref > hm => Undone(tr2, tm, c)
  <2> SUFFICES ASSUME NEW c \in 1 .. hm, h2[c].tag = "REF", h2[c].ref > hm, c # v PROVE Undone(tr2, tm, c)
    BY <1>6
  <2>1. h2[c] = h[c]
    BY <1>3, <1>7
  <2>. QED
    BY <1>6, <2>1 DEF MarkOK
<1>10. tm \in 0 .. Len(tr2) /\ hm \in 0 .. Len(h2) /\ \A i \in 1 .. tm : tr2[i] <= hm
  <2>1. tm \in 0 .. Len(tr2) /\ \A i \in 1 .. tm : i # Len(tr) + 1 /\ i \in 1 .. Len(tr) + 1
    BY <1>2, <1>4, <1>5
  <2>. QED
    BY <1>3, <1>4, <1>5, <2>1 DEF MarkOK
<1>. QED
  BY <1>8, <1>9, <1>10 DEF MarkOK

LEMMA BindFence ==
  ASSUME NEW h, NEW tr, StoreOK(h, tr), NEW v \in 1 .. Len(h), h[v] = Ref(v), NEW t \in 1 .. Len(h),
         NEW h2, h2 = [h EXCEPT ![v] = Ref(t)], NEW tr2, tr2 = Append(tr, v),
         NEW hk, NEW tk, FenceOK(h, tr, hk, tk), hk < v, hk < t
  PROVE  FenceOK(h2, tr2, hk, tk)
<1>1. HeapOK(h) /\ TrailOK(h, tr) /\ h \in Seq(HeapCell) /\ tr \in Seq(Nat)
  BY DEF StoreOK, HeapOK, TrailOK
<1>2. Len(h) \in Nat /\ DOMAIN h = 1 .. Len(h) /\ v \in Nat /\ t \in Nat /\ Len(tr) \in Nat
  BY <1>1, CellAt, TrailAt
<1>3. Len(h2) = Len(h) /\ h2[v] = Ref(t) /\ \A c \in 1 .. Len(h) : c # v => h2[c] = h[c]
  <2>1. DOMAIN h2 = 1 .. Len(h) /\ h2[v] = Ref(t) /\ \A c \in 1 .. Len(h) : c # v => h2[c] = h[c]
    BY <1>2
  <2>. QED
    BY <1>2, <2>1
<1>4. /\ Len(tr2) = Len(tr) + 1
      /\ \A i \in 1 .. Len(tr) + 1 : tr2[i] = IF i = Len(tr) + 1 THEN v ELSE tr[i]
  BY <1>1, <1>2, AppendProperties
<1>5. hk \in Nat /\ tk \in Nat /\ hk \in 0 .. Len(h) /\ tk \in 0 .. Len(tr) /\ ~(v <= hk) /\ ~(t <= hk)
  BY <1>2 DEF FenceOK
<1>6. ASSUME NEW c \in 1 .. Len(h)
      PROVE  /\ h2[c].tag = "REF" => (h2[c].ref <= hk <=> c <= hk)
             /\ h2[c].tag = "STR" /\ hk < c => hk < h2[c].ptr
  <2>1. CASE c = v
    BY <1>3, <1>5, <2>1 DEF Ref
  <2>2. CASE c # v
    BY <1>3, <2>2 DEF FenceOK
  <2>. QED
    BY <2>1, <2>2
<1>7. \A i \in 1 .. Len(tr2) : tr2[i] <= hk <=> i <= tk
  <2> TAKE i \in 1 .. Len(tr2)
  <2>1. CASE i = Len(tr) + 1
    <3>1. tr2[i] = v /\ ~(i <= tk)
      BY <1>2, <1>4, <1>5, <2>1
    <3>. QED
      BY <1>5, <3>1
  <2>2. CASE i # Len(tr) + 1
    <3>1. i \in 1 .. Len(tr) /\ tr2[i] = tr[i]
      BY <1>2, <1>4, <2>2
    <3>. QED
      BY <3>1 DEF FenceOK
  <2>. QED
    BY <2>1, <2>2
<1>8. hk \in 0 .. Len(h2) /\ tk \in 0 .. Len(tr2)
  BY <1>2, <1>3, <1>4, <1>5
<1>. QED
  BY <1>3, <1>6, <1>7, <1>8 DEF FenceOK

LEMMA BindPointUp ==
  ASSUME NEW h, NEW tr, StoreOK(h, tr), NEW v \in 1 .. Len(h), NEW t,
         NEW h2, h2 = [h EXCEPT ![v] = Ref(t)], NEW tr2, tr2 = Append(tr, v),
         NEW from, PointUpByTrail(h, tr, from)
  PROVE  PointUpByTrail(h2, tr2, from)
<1>1. HeapOK(h) /\ TrailOK(h, tr) /\ h \in Seq(HeapCell) /\ tr \in Seq(Nat)
  BY DEF StoreOK, HeapOK, TrailOK
<1>2. Len(h) \in Nat /\ DOMAIN h = 1 .. Len(h) /\ v \in Nat /\ Len(tr) \in Nat
  BY <1>1, CellAt, TrailAt
<1>3. Len(h2) = Len(h) /\ \A c \in 1 .. Len(h) : c # v => h2[c] = h[c]
  <2>1. DOMAIN h2 = 1 .. Len(h) /\ \A c \in 1 .. Len(h) : c # v => h2[c] = h[c]
    BY <1>2
  <2>. QED
    BY <1>2, <2>1
<1>4. /\ Len(tr2) = Len(tr) + 1 /\ tr2[Len(tr) + 1] = v
      /\ \A i \in 1 .. Len(tr) : i \in 1 .. Len(tr2) /\ tr2[i] = tr[i]
  <2>1. /\ Len(tr2) = Len(tr) + 1
        /\ \A i \in 1 .. Len(tr) + 1 : tr2[i] = IF i = Len(tr) + 1 THEN v ELSE tr[i]
    BY <1>1, <1>2, AppendProperties
  <2>. QED
    BY <1>2, <2>1
<1>5. from \in 0 .. Len(h2) /\ \A c \in 1 .. from : c \in 1 .. Len(h)
  BY <1>2, <1>3 DEF PointUpByTrail
<1>6. ASSUME NEW c \in 1 .. from, h2[c].tag = "REF", h2[c].ref > from
      PROVE  \E i \in 1 .. Len(tr2) : tr2[i] = c
  <2>1. CASE c = v
    <3>1. Len(tr) + 1 \in 1 .. Len(tr2)
      BY <1>2, <1>4
    <3>. QED
      BY <1>4, <2>1, <3>1
  <2>2. CASE c # v
    <3>1. h2[c] = h[c]
      BY <1>3, <1>5, <2>2
    <3>2. PICK i \in 1 .. Len(tr) : tr[i] = c
      BY <1>6, <3>1 DEF PointUpByTrail
    <3>. QED
      BY <1>4, <3>2
  <2>. QED
    BY <2>1, <2>2
<1>. QED
  BY <1>5, <1>6 DEF PointUpByTrail

(***************************************************************************)
(* Sliding: the numbers S of 1 .. n close up, in their order.  Where a     *)
(* number goes, one of S or the place between two.                         *)
(***************************************************************************)
Place(S, c) == NumBelow(S, c + 1)

LEMMA PlaceIs ==
  ASSUME NEW n \in Nat, NEW S \in SUBSET (1 .. n)
  PROVE  /\ IsFiniteSet(S) /\ S \subseteq Int /\ Cardinality(S) \in Nat
         /\ \A c \in Int : Place(S, c) \in Nat /\ Place(S, c) <= Cardinality(S)
         /\ \A a, b \in Int : a <= b => Place(S, a) <= Place(S, b)
         /\ \A c \in S : /\ Place(S, c) = NumBelow(S, c) + 1 /\ Place(S, c) \in 1 .. Cardinality(S)
                         /\ Nth(S, Place(S, c)) = c
         /\ \A c \in S : \A m \in Int : c <= m <=> Place(S, c) <= Place(S, m)
         /\ \A k \in 1 .. Cardinality(S) : Nth(S, k) \in S /\ Place(S, Nth(S, k)) = k
<1>1. IsFiniteSet(S) /\ S \subseteq Int
  <2>1. PICK D : D = 1 .. n
    OBVIOUS
  <2>2. IsFiniteSet(D) /\ S \in SUBSET D
    BY <2>1, UpTo
  <2>3. IsFiniteSet(S)
    BY <2>2, FS_Subset
  <2>4. \A c \in D : c \in Int
    BY <2>1
  <2>. QED
    BY <2>2, <2>3, <2>4
<1>2. Cardinality(S) \in Nat
  BY <1>1, FS_CardinalityType
<1>3. ASSUME NEW c \in Int
      PROVE  Place(S, c) \in Nat /\ Place(S, c) <= Cardinality(S)
  <2>1. Place(S, c) \in 0 .. Cardinality(S)
    BY <1>1, BelowType DEF Place
  <2>. QED
    BY <1>2, <2>1
<1>4. ASSUME NEW a \in Int, NEW b \in Int, a <= b
      PROVE  Place(S, a) <= Place(S, b)
  <2>1. a + 1 \in Int /\ b + 1 \in Int /\ a + 1 <= b + 1
    BY <1>4
  <2>. QED
    BY <1>1, <2>1, BelowMonotone DEF Place
<1>5. ASSUME NEW c \in S
      PROVE  Place(S, c) = NumBelow(S, c) + 1
  <2>1. c \in Int
    BY <1>1
  <2>2. PICK B : B = {j \in S : j < c}
    OBVIOUS
  <2>3. c \notin B
    BY <2>1, <2>2
  <2>4. IsFiniteSet(B)
    BY <1>1, <2>2, FS_Subset
  <2>5. {j \in S : j < c + 1} = B \cup {c}
    <3>1. \A j \in S : j < c + 1 <=> j < c \/ j = c
      BY <1>1, <2>1
    <3>. QED
      BY <2>2, <3>1
  <2>6. Cardinality(B \cup {c}) = Cardinality(B) + 1
    BY <2>3, <2>4, FS_AddElement
  <2>. QED
    BY <2>2, <2>5, <2>6 DEF Place, NumBelow
<1>6. ASSUME NEW c \in S
      PROVE  Place(S, c) \in 1 .. Cardinality(S) /\ Nth(S, Place(S, c)) = c
  BY <1>1, <1>5, NthOf
<1>7. ASSUME NEW c \in S, NEW m \in Int
      PROVE  c <= m <=> Place(S, c) <= Place(S, m)
  <2>1. c \in Int
    BY <1>1
  <2>2. CASE c <= m
    BY <1>4, <2>1, <2>2
  <2>3. CASE ~(c <= m)
    <3>1. m + 1 <= c /\ m + 1 \in Int
      BY <2>1, <2>3
    <3>2. NumBelow(S, m + 1) <= NumBelow(S, c)
      BY <1>1, <2>1, <3>1, BelowMonotone
    <3>3. PICK a, b : a = Place(S, c) /\ b = Place(S, m)
      OBVIOUS
    <3>4. b <= NumBelow(S, c) /\ a = NumBelow(S, c) + 1 /\ a \in Nat /\ b \in Nat
      BY <1>3, <1>5, <2>1, <3>2, <3>3 DEF Place
    <3>5. NumBelow(S, c) \in 0 .. Cardinality(S)
      BY <1>1, BelowType
    <3>6. ~(a <= b)
      BY <1>2, <3>4, <3>5
    <3>. QED
      BY <2>3, <3>3, <3>6
  <2>. QED
    BY <2>2, <2>3
<1>8. ASSUME NEW k \in 1 .. Cardinality(S)
      PROVE  Nth(S, k) \in S /\ Place(S, Nth(S, k)) = k
  <2>1. PICK c : c = Nth(S, k)
    OBVIOUS
  <2>2. c \in S /\ NumBelow(S, c) = k - 1
    BY <1>1, <2>1, NthIs
  <2>3. Place(S, c) = k - 1 + 1
    BY <1>5, <2>2
  <2>4. k \in Nat
    BY <1>2
  <2>. QED
    BY <2>1, <2>2, <2>3, <2>4
<1>. QED
  BY <1>1, <1>2, <1>3, <1>4, <1>5, <1>6, <1>7, <1>8

\* An unbroken run stays one.
LEMMA PlaceRun ==
  ASSUME NEW n \in Nat, NEW S \in SUBSET (1 .. n), NEW p \in Int, NEW d \in Int, p <= d,
         \A j \in p + 1 .. d : j \in S
  PROVE  Place(S, d) = Place(S, p) + (d - p)
<1>1. PICK A, B, C : A = {j \in S : j < p + 1} /\ B = {j \in S : j < d + 1} /\ C = p + 1 .. d
  OBVIOUS
<1>2. IsFiniteSet(S) /\ S \subseteq Int
  BY PlaceIs
<1>3. B = A \cup C /\ A \cap C = {}
  <2>1. \A j \in S : j < d + 1 <=> j < p + 1 \/ j \in C
    BY <1>1, <1>2
  <2>2. \A j \in C : ~(j < p + 1)
    BY <1>1
  <2>. QED
    BY <1>1, <2>1, <2>2
<1>4. IsFiniteSet(A) /\ Cardinality(A) \in Nat
  BY <1>1, <1>2, FS_Subset, FS_CardinalityType
<1>5. IsFiniteSet(C) /\ Cardinality(C) = d - p
  <2>1. p + 1 \in Int
    OBVIOUS
  <2>2. IsFiniteSet(C) /\ Cardinality(C) = IF p + 1 > d THEN 0 ELSE d - (p + 1) + 1
    BY <1>1, <2>1, FS_Interval
  <2>. QED
    BY <2>2
<1>6. Cardinality(A \cap C) = 0
  BY <1>3, FS_EmptySet
<1>7. Cardinality(B) = Cardinality(A) + Cardinality(C) - Cardinality(A \cap C)
  BY <1>3, <1>4, <1>5, FS_Union
<1>8. Cardinality(B) = Cardinality(A) + (d - p)
  BY <1>4, <1>5, <1>6, <1>7
<1>. QED
  BY <1>1, <1>8 DEF Place, NumBelow

\* What is below the first that may go stays where it is.
LEMMA PlaceSame ==
  ASSUME NEW n \in Nat, NEW S \in SUBSET (1 .. n), NEW m \in Nat, 1 .. m \subseteq S, NEW c \in 0 .. m
  PROVE  Place(S, c) = c
<1>1. \A j \in 1 .. c : j \in S
  OBVIOUS
<1>2. Place(S, 0) = 0
  <2>1. {j \in S : j < 1} = {}
    <3>1. \A j \in 1 .. n : ~(j < 1)
      OBVIOUS
    <3>. QED
      BY <3>1
  <2>2. NumBelow(S, 1) = 0
    BY <2>1, FS_EmptySet DEF NumBelow
  <2>. QED
    BY <2>2 DEF Place
<1>3. PICK z \in Int : z = 0
  OBVIOUS
<1>4. c \in Int /\ z <= c /\ \A j \in z + 1 .. c : j \in S
  BY <1>1, <1>3
<1>5. Place(S, c) = Place(S, z) + (c - z)
  BY <1>4, PlaceRun
<1>. QED
  BY <1>2, <1>3, <1>5

(***************************************************************************)
(* The cells L of a heap h, and the entries of its trail tr that name them, *)
(* slide down.                                                             *)
(***************************************************************************)
Moves(h, L) == [c \in 1 .. Len(h) |-> Place(L, c)]
OnTrail(tr, L) == {i \in 1 .. Len(tr) : tr[i] \in L}

Slides(h, tr, from, L, h2, tr2) ==
  /\ StoreOK(h, tr) /\ PointUpByTrail(h, tr, from)
  /\ L \in SUBSET (1 .. Len(h)) /\ 1 .. from \subseteq L /\ Closed(h, L)
  /\ h2 = Selected([c \in L |-> IF c > from \/ c \in Range(tr) THEN Repoint(h[c], Moves(h, L)) ELSE h[c]], L)
  /\ tr2 = Selected([i \in OnTrail(tr, L) |-> Place(L, tr[i])], OnTrail(tr, L))

LEMMA InRange ==
  ASSUME NEW T, NEW s \in Seq(T), NEW c
  PROVE  c \in Range(s) <=> \E i \in 1 .. Len(s) : s[i] = c
BY DEF Range

LEMMA SlidAt ==
  ASSUME NEW h, NEW tr, NEW from, NEW L, NEW h2, NEW tr2, Slides(h, tr, from, L, h2, tr2)
  PROVE  /\ HeapOK(h) /\ TrailOK(h, tr) /\ Len(h) \in Nat /\ from \in Nat /\ from <= Len(h)
         /\ L \in SUBSET (1 .. Len(h)) /\ Len(h2) = Cardinality(L) /\ Len(h2) \in Nat
         /\ \A c \in L : /\ c \in 1 .. Len(h) /\ Children(h, c) \subseteq L
                         /\ Place(L, c) \in 1 .. Len(h2) /\ Moves(h, L)[c] = Place(L, c)
         /\ \A k \in 1 .. Len(h2) : \E c \in L : k = Place(L, c)
         /\ \A c \in 0 .. from : Place(L, c) = c
<1>1. /\ HeapOK(h) /\ TrailOK(h, tr) /\ L \in SUBSET (1 .. Len(h)) /\ 1 .. from \subseteq L
      /\ \A c \in L : Children(h, c) \subseteq L
  BY DEF Slides, StoreOK, Closed
<1>2. Len(h) \in Nat
  BY <1>1, CellAt
<1>3. from \in Nat /\ from <= Len(h)
  <2>1. from \in 0 .. Len(h)
    BY DEF Slides, PointUpByTrail
  <2>. QED
    BY <1>2, <2>1
<1>4. PICK n \in Nat : n = Len(h)
  BY <1>2
<1>5. L \in SUBSET (1 .. n)
  BY <1>1, <1>4
<1>6. Len(h2) = Cardinality(L) /\ Cardinality(L) \in Nat
  BY <1>5, PlaceIs, SelectedLen DEF Slides
<1>7. \A c \in L : c \in 1 .. Len(h) /\ Place(L, c) \in 1 .. Len(h2) /\ Moves(h, L)[c] = Place(L, c)
  BY <1>1, <1>5, <1>6, PlaceIs DEF Moves
<1>8. \A k \in 1 .. Len(h2) : \E c \in L : k = Place(L, c)
  BY <1>5, <1>6, PlaceIs
<1>9. \A c \in 0 .. from : Place(L, c) = c
  BY <1>1, <1>3, <1>5, PlaceSame
<1>. QED
  BY <1>1, <1>2, <1>3, <1>6, <1>7, <1>8, <1>9

\* A cell that stays unread has nothing to repoint.
LEMMA SlidCell ==
  ASSUME NEW h, NEW tr, NEW from, NEW L, NEW h2, NEW tr2, Slides(h, tr, from, L, h2, tr2), NEW c \in L
  PROVE  h2[Place(L, c)] = Repoint(h[c], Moves(h, L))
<1>1. /\ HeapOK(h) /\ TrailOK(h, tr) /\ from \in Nat /\ c \in 1 .. Len(h) /\ c \in Nat /\ Len(h) \in Nat
      /\ L \in SUBSET (1 .. Len(h)) /\ Children(h, c) \subseteq L
      /\ \A d \in L : Moves(h, L)[d] = Place(L, d)
      /\ \A d \in 0 .. from : Place(L, d) = d
  BY SlidAt, CellAt
<1>2. PICK n \in Nat : n = Len(h)
  BY <1>1
<1>3. L \in SUBSET (1 .. n)
  BY <1>1, <1>2
<1> DEFINE cells == [d \in L |-> IF d > from \/ d \in Range(tr) THEN Repoint(h[d], Moves(h, L)) ELSE h[d]]
<1>4. h2[Place(L, c)] = cells[c]
  <2>1. IsFiniteSet(L) /\ L \subseteq Int /\ Place(L, c) = NumBelow(L, c) + 1
    BY <1>3, PlaceIs
  <2>2. h2 = Selected(cells, L)
    BY DEF Slides
  <2> HIDE DEF cells
  <2>3. PICK s : s = cells
    OBVIOUS
  <2>4. Selected(s, L)[NumBelow(L, c) + 1] = s[c]
    BY <2>1, SelectedOf
  <2>. QED
    BY <2>1, <2>2, <2>3, <2>4
<1>5. CASE c > from \/ c \in Range(tr)
  BY <1>4, <1>5
<1>6. CASE ~(c > from) /\ c \notin Range(tr)
  <2>1. c \in 1 .. from
    BY <1>1, <1>6
  <2>2. h2[Place(L, c)] = h[c]
    BY <1>4, <1>6
  <2>3. Repoint(h[c], Moves(h, L)) = h[c]
    <3>1. CASE IsAtomCell(h, c) \/ IsFunctorCell(h, c)
      BY <3>1 DEF IsAtomCell, IsFunctorCell, Atom, Repoint
    <3>2. CASE IsRefCell(h, c)
      <4>1. PICK r : r = h[c].ref
        OBVIOUS
      <4>2. h[c].tag = "REF" /\ h[c] = Ref(r) /\ r \in Children(h, c)
        BY <3>2, <4>1 DEF IsRefCell, Children
      <4>3. r \in 1 .. Len(h) /\ r \in L
        BY <1>1, <4>2
      <4>4. ~(r > from)
        <5>1. tr \in Seq(Nat)
          BY <1>1 DEF TrailOK
        <5>2. ~(\E i \in 1 .. Len(tr) : tr[i] = c)
          BY <1>6, <5>1, InRange
        <5>. QED
          BY <2>1, <4>1, <4>2, <5>2 DEF Slides, PointUpByTrail
      <4>5. r \in 0 .. from
        BY <1>1, <4>3, <4>4
      <4>6. Moves(h, L)[r] = r
        BY <1>1, <4>3, <4>5
      <4>. QED
        BY <4>1, <4>2, <4>6 DEF Repoint, Ref
    <3>3. CASE IsStrCell(h, c)
      <4>1. PICK p : p = h[c].ptr
        OBVIOUS
      <4>2. h[c].tag = "STR" /\ h[c] = Str(p) /\ p \in 1 .. c - 1
        BY <3>3, <4>1 DEF IsStrCell
      <4>3. p \in Children(h, c)
        BY <1>1, <4>1, <4>2, ChildrenIn
      <4>4. p \in L /\ p \in 0 .. from
        BY <1>1, <2>1, <4>2, <4>3
      <4>5. Moves(h, L)[p] = p
        BY <1>1, <4>4
      <4>. QED
        BY <4>1, <4>2, <4>5 DEF Repoint, Str
    <3>. QED
      BY <1>1, <3>1, <3>2, <3>3 DEF HeapOK
  <2>. QED
    BY <2>2, <2>3
<1>. QED
  BY <1>5, <1>6

\* Places, for the cells and their marks.
LEMMA SlidOrder ==
  ASSUME NEW h, NEW tr, NEW from, NEW L, NEW h2, NEW tr2, Slides(h, tr, from, L, h2, tr2)
  PROVE  /\ \A c \in Int : Place(L, c) \in Nat /\ Place(L, c) <= Len(h2)
         /\ \A a, b \in Int : a <= b => Place(L, a) <= Place(L, b)
         /\ \A c \in L : c \in Int /\ \A m \in Int : c <= m <=> Place(L, c) <= Place(L, m)
         /\ \A c, d \in L : /\ c < d <=> Place(L, c) < Place(L, d)
                            /\ Place(L, c) = Place(L, d) => c = d
         /\ \A p \in Nat : \A d \in Nat :
              p <= d /\ p .. d \subseteq L => Place(L, d) = Place(L, p) + (d - p)
<1>1. Len(h) \in Nat /\ L \in SUBSET (1 .. Len(h)) /\ Len(h2) = Cardinality(L)
  BY SlidAt
<1>2. PICK n \in Nat : n = Len(h)
  BY <1>1
<1>3. L \in SUBSET (1 .. n)
  BY <1>1, <1>2
<1>4. /\ \A c \in Int : Place(L, c) \in Nat /\ Place(L, c) <= Len(h2)
      /\ \A a, b \in Int : a <= b => Place(L, a) <= Place(L, b)
      /\ \A c \in L : c \in Int /\ \A m \in Int : c <= m <=> Place(L, c) <= Place(L, m)
  <2>1. /\ L \subseteq Int /\ \A c \in Int : Place(L, c) \in Nat /\ Place(L, c) <= Cardinality(L)
        /\ \A a, b \in Int : a <= b => Place(L, a) <= Place(L, b)
        /\ \A c \in L : \A m \in Int : c <= m <=> Place(L, c) <= Place(L, m)
    BY ONLY <1>3, n \in Nat, PlaceIs
  <2>2. PICK k : k = Cardinality(L)
    OBVIOUS
  <2>3. k = Len(h2)
    BY <1>1, <2>2
  <2>. QED
    BY ONLY <2>1, <2>2, <2>3
<1>5. ASSUME NEW c \in L, NEW d \in L
      PROVE  (c < d <=> Place(L, c) < Place(L, d)) /\ (Place(L, c) = Place(L, d) => c = d)
  <2>1. PICK a, b : a = Place(L, c) /\ b = Place(L, d)
    OBVIOUS
  <2>2. (c <= d <=> a <= b) /\ (d <= c <=> b <= a) /\ c \in Int /\ d \in Int /\ a \in Nat /\ b \in Nat
    BY <1>4, <2>1
  <2>3. (c < d <=> a < b) /\ (a = b => c = d)
    BY ONLY <2>2
  <2>. QED
    BY <2>1, <2>3
<1>6. ASSUME NEW p \in Nat, NEW d \in Nat, p <= d, p .. d \subseteq L
      PROVE  Place(L, d) = Place(L, p) + (d - p)
  <2>1. \A j \in p + 1 .. d : j \in L
    <3>1. \A j \in p + 1 .. d : j \in p .. d
      OBVIOUS
    <3>. QED
      BY <1>6, <3>1
  <2>2. p \in Int /\ d \in Int
    OBVIOUS
  <2>. QED
    BY ONLY <1>3, <1>6, <2>1, <2>2, n \in Nat, PlaceRun
<1>. QED
  BY <1>4, <1>5, <1>6

LEMMA RepointTag ==
  ASSUME NEW cell \in HeapCell, NEW to
  PROVE  /\ Repoint(cell, to).tag = cell.tag
         /\ cell.tag = "REF" => Repoint(cell, to) = Ref(to[cell.ref])
         /\ cell.tag = "STR" => Repoint(cell, to) = Str(to[cell.ptr])
         /\ cell.tag \notin {"REF", "STR"} => Repoint(cell, to) = cell
BY DEF HeapCell, Repoint, Ref, Str, Atom

\* A structure is slid as a whole.
SlidWhole(g, L, c) ==
  g[c].ptr \in L /\ \A d \in Children(g, c) : Place(L, d) = Place(L, g[c].ptr) + (d - g[c].ptr)

LEMMA SlidRun ==
  ASSUME NEW h, NEW tr, NEW from, NEW L, NEW h2, NEW tr2, Slides(h, tr, from, L, h2, tr2),
         NEW g, HeapOK(g), NEW c \in 1 .. Len(g), g[c].tag = "STR", Children(g, c) \subseteq L
  PROVE  SlidWhole(g, L, c)
<1>1. IsStrCell(g, c)
  BY DEF HeapOK, IsAtomCell, IsFunctorCell, IsRefCell, Atom
<1>2. PICK p, a : p = g[c].ptr /\ a = g[p].arity
  OBVIOUS
<1>3. p \in Nat /\ a \in Nat /\ Children(g, c) = p .. p + a
  <2>1. c \in Nat
    BY CellAt
  <2>2. p \in 1 .. c - 1 /\ a \in Nat
    BY <1>1, <1>2 DEF IsStrCell, IsFunctorCell
  <2>. QED
    BY <1>2, <2>1, <2>2 DEF Children
<1>4. p \in p .. p + a
  BY <1>3
<1>5. ASSUME NEW d \in Children(g, c)
      PROVE  Place(L, d) = Place(L, p) + (d - p)
  <2>1. d \in p .. p + a
    BY <1>3
  <2>2. d \in Nat /\ p <= d /\ \A j \in p .. d : j \in p .. p + a
    BY ONLY <1>3, <2>1
  <2>3. p .. d \subseteq L
    BY <1>3, <2>2
  <2>. QED
    BY <1>3, <2>2, <2>3, SlidOrder
<1>. QED
  BY <1>2, <1>3, <1>4, <1>5 DEF SlidWhole

LEMMA SlidCarried ==
  ASSUME NEW h, NEW tr, NEW from, NEW L, NEW h2, NEW tr2, Slides(h, tr, from, L, h2, tr2)
  PROVE  Carried(h, L, Moves(h, L), h2)
<1>1. /\ HeapOK(h) /\ L \in SUBSET (1 .. Len(h))
      /\ \A c \in L : /\ c \in 1 .. Len(h) /\ Children(h, c) \subseteq L
                      /\ Place(L, c) \in 1 .. Len(h2) /\ Moves(h, L)[c] = Place(L, c)
  BY SlidAt
<1>2. PICK to : to = Moves(h, L)
  OBVIOUS
<1>3. \A c \in L : to[c] = Place(L, c)
  BY <1>1, <1>2
<1>4. \A c \in L : to[c] \in 1 .. Len(h2) /\ h2[to[c]] = Repoint(h[c], to)
  BY <1>1, <1>2, <1>3, SlidCell
<1>5. \A c, d \in L : c < d => to[c] < to[d]
  BY <1>3, SlidOrder
<1>6. ASSUME NEW c \in L, h[c].tag = "STR", NEW d \in Children(h, c)
      PROVE  to[d] = to[h[c].ptr] + (d - h[c].ptr)
  <2>1. c \in 1 .. Len(h) /\ Children(h, c) \subseteq L
    BY <1>1
  <2>2. SlidWhole(h, L, c)
    BY <1>1, <1>6, <2>1, SlidRun
  <2>3. h[c].ptr \in L /\ Place(L, d) = Place(L, h[c].ptr) + (d - h[c].ptr)
    BY <1>6, <2>2 DEF SlidWhole
  <2>. QED
    BY <1>3, <1>6, <2>1, <2>3
<1>7. Closed(h, L)
  BY <1>1 DEF Closed
<1>. QED
  BY <1>1, <1>2, <1>4, <1>5, <1>6, <1>7 DEF Carried

LEMMA SlidHeap ==
  ASSUME NEW h, NEW tr, NEW from, NEW L, NEW h2, NEW tr2, Slides(h, tr, from, L, h2, tr2)
  PROVE  HeapOK(h2) /\ NoRing(h2)
<1>1. /\ HeapOK(h) /\ L \in SUBSET (1 .. Len(h)) /\ Len(h) \in Nat /\ Len(h2) \in Nat
      /\ \A c \in L : /\ c \in 1 .. Len(h) /\ Children(h, c) \subseteq L
                      /\ Place(L, c) \in 1 .. Len(h2) /\ Moves(h, L)[c] = Place(L, c)
      /\ \A k \in 1 .. Len(h2) : \E c \in L : k = Place(L, c)
  BY SlidAt
<1>2. PICK to : to = Moves(h, L)
  OBVIOUS
<1>3. \A c \in L : /\ to[c] = Place(L, c) /\ to[c] \in 1 .. Len(h2) /\ to[c] \in Nat
                   /\ h2[to[c]] = Repoint(h[c], to) /\ h[c] \in HeapCell
  <2>1. \A k \in 1 .. Len(h2) : k \in Nat
    BY <1>1
  <2>. QED
    BY <1>1, <1>2, <2>1, SlidCell, CellAt
<1>4. ASSUME NEW c \in L, h[c].tag = "REF"
      PROVE  h[c].ref \in L /\ h2[to[c]] = Ref(to[h[c].ref]) /\ h2[to[c]].tag = "REF"
             /\ h2[to[c]].ref = to[h[c].ref]
  <2>1. h[c].ref \in Children(h, c)
    BY <1>4 DEF Children
  <2>2. h2[to[c]] = Ref(to[h[c].ref])
    BY <1>3, <1>4, RepointTag
  <2>. QED
    BY <1>1, <2>1, <2>2 DEF Ref
<1>5. ASSUME NEW c \in L, h[c].tag = "STR"
      PROVE  h[c].ptr \in L /\ h2[to[c]] = Str(to[h[c].ptr])
  <2>1. h[c].ptr \in Children(h, c)
    BY <1>1, <1>5, ChildrenIn
  <2>. QED
    BY <1>1, <1>3, <1>5, <2>1, RepointTag
<1>6. \A c \in L : h2[to[c]].tag = h[c].tag
  BY <1>3, RepointTag
<1>7. h2 \in Seq(HeapCell)
  <2> DEFINE cells == [d \in L |-> IF d > from \/ d \in Range(tr) THEN Repoint(h[d], to) ELSE h[d]]
  <2>1. ASSUME NEW c \in L
        PROVE  Repoint(h[c], to) \in HeapCell
    <3>1. CASE h[c].tag = "REF"
      <4>1. Repoint(h[c], to) = Ref(to[h[c].ref]) /\ to[h[c].ref] \in Nat
        BY <1>3, <1>4, <3>1
      <4>. QED
        BY <4>1 DEF Ref, HeapCell
    <3>2. CASE h[c].tag = "STR"
      <4>1. Repoint(h[c], to) = Str(to[h[c].ptr]) /\ to[h[c].ptr] \in Nat
        BY <1>3, <1>5, <3>2
      <4>. QED
        BY <4>1 DEF Str, HeapCell
    <3>3. CASE h[c].tag \notin {"REF", "STR"}
      BY <1>3, <3>3, RepointTag
    <3>. QED
      BY <3>1, <3>2, <3>3
  <2>2. \A c \in L : cells[c] \in HeapCell
    BY <1>3, <2>1
  <2>3. h2 = Selected(cells, L)
    BY <1>2 DEF Slides
  <2> HIDE DEF cells
  <2>4. PICK s : s = cells
    OBVIOUS
  <2>5. IsFiniteSet(L) /\ L \subseteq Int
    <3>1. PICK n \in Nat : n = Len(h)
      BY <1>1
    <3>2. L \in SUBSET (1 .. n)
      BY <1>1, <3>1
    <3>. QED
      BY <3>2, PlaceIs
  <2>6. Selected(s, L) \in Seq(HeapCell)
    BY <2>2, <2>4, <2>5, SelectedSeq
  <2>. QED
    BY <2>3, <2>4, <2>6
<1>8. Carried(h, L, to, h2)
  BY <1>2, SlidCarried
<1>9. ASSUME NEW c \in L
      PROVE  LET k == to[c] IN IsAtomCell(h2, k) \/ IsFunctorCell(h2, k) \/ IsRefCell(h2, k) \/ IsStrCell(h2, k)
  <2>1. PICK k : k = to[c]
    OBVIOUS
  <2>2. CASE IsAtomCell(h, c) \/ IsFunctorCell(h, c)
    <3>1. h2[k] = h[c]
      BY <1>3, <2>1, <2>2 DEF IsAtomCell, IsFunctorCell, Repoint, Atom
    <3>. QED
      BY <2>1, <2>2, <3>1 DEF IsAtomCell, IsFunctorCell
  <2>3. CASE IsRefCell(h, c)
    <3>1. PICK r : r = h[c].ref
      OBVIOUS
    <3>2. h[c].tag = "REF" /\ r \in Pointable(h)
      BY <2>3, <3>1 DEF IsRefCell
    <3>3. h2[k] = Ref(to[r]) /\ r \in L
      BY <1>4, <2>1, <3>1, <3>2
    <3>4. to[r] \in Pointable(h2)
      BY <1>3, <1>6, <3>2, <3>3 DEF Pointable
    <3>. QED
      BY <2>1, <3>3, <3>4 DEF IsRefCell, Ref
  <2>4. CASE IsStrCell(h, c)
    <3>1. PICK p, a : p = h[c].ptr /\ a = h[p].arity
      OBVIOUS
    <3>2. /\ h[c].tag = "STR" /\ IsFunctorCell(h, p) /\ p \in 1 .. c - 1 /\ p + a < c /\ a \in Nat
      BY <2>4, <3>1 DEF IsStrCell, IsFunctorCell
    <3>3. c \in Nat /\ c \in 1 .. Len(h)
      BY <1>1, CellAt
    <3>4. p \in Nat /\ p < c
      BY <3>2, <3>3
    <3>5. h2[k] = Str(to[p]) /\ p \in L
      BY <1>5, <2>1, <3>1, <3>2
    <3>6. h2[to[p]] = h[p]
      BY <1>3, <3>2, <3>5 DEF IsFunctorCell, Repoint
    <3>7. p + a \in Children(h, c)
      <4>1. Children(h, c) = p .. p + a
        BY <3>1, <3>2 DEF Children
      <4>2. p + a \in p .. p + a
        BY <3>2, <3>4
      <4>. QED
        BY <4>1, <4>2
    <3>8. p + a \in L /\ to[p + a] = to[p] + ((p + a) - p)
      <4>1. \A d \in Children(h, c) : d \in L /\ to[d] = to[p] + (d - p)
        BY <1>1, <1>8, <3>1, <3>2 DEF Carried
      <4>2. PICK d : d = p + a
        OBVIOUS
      <4>3. d \in Children(h, c)
        BY <3>7, <4>2
      <4>. QED
        BY <4>1, <4>2, <4>3
    <3>9. to[p + a] < to[c] /\ to[p] < to[c]
      <4>1. PICK d : d = p + a
        OBVIOUS
      <4>2. d \in L /\ d < c
        BY <3>2, <3>8, <4>1
      <4>3. to[d] < to[c] /\ to[p] < to[c]
        BY <1>8, <3>4, <3>5, <4>2 DEF Carried
      <4>. QED
        BY <4>1, <4>3
    <3>10. PICK x : x = to[p]
      OBVIOUS
    <3>11. x \in Nat /\ x >= 1 /\ k \in Nat
      <4>1. x \in 1 .. Len(h2) /\ k \in Nat
        BY <1>3, <2>1, <3>5, <3>10
      <4>. QED
        BY <1>1, <4>1
    <3>12. x + a < k /\ x < k
      <4>1. x + ((p + a) - p) < k /\ x < k
        BY <2>1, <3>8, <3>9, <3>10
      <4>. QED
        BY ONLY <3>2, <3>4, <3>11, <4>1
    <3>13. x \in 1 .. k - 1
      BY <3>11, <3>12
    <3>14. h2[k].tag = "STR" /\ h2[k].ptr = x /\ h2[k] = Str(h2[k].ptr)
      BY <3>5, <3>10 DEF Str
    <3>15. h2[x] = h[p] /\ IsFunctorCell(h2, x) /\ h2[x].arity = a
      BY <3>1, <3>2, <3>6, <3>10 DEF IsFunctorCell
    <3>16. IsStrCell(h2, k)
      BY <3>12, <3>13, <3>14, <3>15 DEF IsStrCell
    <3>. QED
      BY <2>1, <3>16
  <2>. QED
    BY <1>1, <2>2, <2>3, <2>4 DEF HeapOK
<1>10. HeapOK(h2)
  BY <1>1, <1>3, <1>7, <1>9 DEF HeapOK
<1>11. NoRing(h2)
  <2> SUFFICES ASSUME NEW X \in SUBSET (1 .. Len(h2)), X # {},
                      \A k \in X : h2[k].tag = "REF" /\ h2[k].ref # k /\ h2[k].ref \in X
               PROVE  FALSE
    BY DEF NoRing
  <2> DEFINE Y == {c \in L : to[c] \in X}
  <2>1. Y \in SUBSET (1 .. Len(h)) /\ Y # {}
    <3>1. PICK k \in X : TRUE
      OBVIOUS
    <3>2. k \in 1 .. Len(h2)
      OBVIOUS
    <3>3. PICK c \in L : k = Place(L, c)
      BY <1>1, <3>2
    <3>4. c \in Y
      BY <1>3, <3>1, <3>3
    <3>. QED
      BY <1>1, <3>4
  <2>2. ASSUME NEW c \in Y
        PROVE  h[c].tag = "REF" /\ h[c].ref # c /\ h[c].ref \in Y
    <3>1. h2[to[c]].tag = "REF" /\ h2[to[c]].ref # to[c] /\ h2[to[c]].ref \in X
      OBVIOUS
    <3>2. h[c].tag = "REF"
      BY <1>6, <3>1
    <3>3. h[c].ref \in L /\ h2[to[c]].ref = to[h[c].ref]
      BY <1>4, <3>2
    <3>. QED
      BY <3>1, <3>2, <3>3
  <2>3. NoRing(h)
    BY DEF Slides, StoreOK
  <2> HIDE DEF Y
  <2>. QED
    BY <2>1, <2>2, <2>3 DEF NoRing
<1>. QED
  BY <1>10, <1>11

LEMMA SlidView ==
  ASSUME NEW h, NEW tr, NEW from, NEW L, NEW h2, NEW tr2, Slides(h, tr, from, L, h2, tr2), NEW c \in L
  PROVE  /\ h2[Place(L, c)].tag = h[c].tag
         /\ h[c].tag = "REF" => h[c].ref \in L /\ h2[Place(L, c)].ref = Place(L, h[c].ref)
         /\ h[c].tag = "STR" => h[c].ptr \in L /\ h2[Place(L, c)].ptr = Place(L, h[c].ptr)
<1>1. /\ HeapOK(h) /\ c \in 1 .. Len(h) /\ Children(h, c) \subseteq L
      /\ \A d \in L : Moves(h, L)[d] = Place(L, d)
  BY SlidAt
<1>2. PICK to : to = Moves(h, L)
  OBVIOUS
<1>3. h2[Place(L, c)] = Repoint(h[c], to) /\ h[c] \in HeapCell /\ \A d \in L : to[d] = Place(L, d)
  BY <1>1, <1>2, SlidCell, CellAt
<1>4. h2[Place(L, c)].tag = h[c].tag
  BY <1>3, RepointTag
<1>5. ASSUME h[c].tag = "REF"
      PROVE  h[c].ref \in L /\ h2[Place(L, c)].ref = Place(L, h[c].ref)
  <2>1. h[c].ref \in Children(h, c)
    BY <1>5 DEF Children
  <2>2. Repoint(h[c], to) = Ref(to[h[c].ref])
    BY <1>3, <1>5, RepointTag
  <2>. QED
    BY <1>1, <1>3, <2>1, <2>2 DEF Ref
<1>6. ASSUME h[c].tag = "STR"
      PROVE  h[c].ptr \in L /\ h2[Place(L, c)].ptr = Place(L, h[c].ptr)
  <2>1. h[c].ptr \in Children(h, c)
    BY <1>1, <1>6, ChildrenIn
  <2>2. PICK p : p = h[c].ptr
    OBVIOUS
  <2>3. Repoint(h[c], to) = Str(to[p]) /\ p \in L
    BY <1>1, <1>3, <1>6, <2>1, <2>2, RepointTag
  <2>4. h2[Place(L, c)] = Str(Place(L, p))
    BY <1>3, <2>3
  <2>. QED
    BY <2>2, <2>3, <2>4 DEF Str
<1>. QED
  BY <1>4, <1>5, <1>6

\* What becomes of the entries K of a trail tr: those of tr2, in their order.
TrailMoves(tr, L, K, tr2) ==
  /\ Len(tr) \in Nat /\ Len(tr2) \in Nat
  /\ \A i \in K : /\ i \in 1 .. Len(tr) /\ i \in Int /\ tr[i] \in L
                  /\ Place(K, i) \in 1 .. Len(tr2) /\ tr2[Place(K, i)] = Place(L, tr[i])
  /\ \A i \in 1 .. Len(tr) : tr[i] \in L => i \in K
  /\ \A k \in 1 .. Len(tr2) : \E i \in K : k = Place(K, i)
  /\ \A m \in Int : Place(K, m) \in Nat /\ Place(K, m) <= Len(tr2)
  /\ \A a, b \in Int : a <= b => Place(K, a) <= Place(K, b)
  /\ \A i \in K : \A m \in Int : i <= m <=> Place(K, i) <= Place(K, m)
  /\ \A m \in Nat : 1 .. m \subseteq K => Place(K, m) = m

LEMMA SlidTrail ==
  ASSUME NEW h, NEW tr, NEW from, NEW L, NEW h2, NEW tr2, Slides(h, tr, from, L, h2, tr2)
  PROVE  TrailMoves(tr, L, OnTrail(tr, L), tr2)
<1>0. PICK K : K = OnTrail(tr, L)
  OBVIOUS
<1>1. TrailOK(h, tr) /\ HeapOK(h)
  BY SlidAt
<1>2. Len(tr) \in Nat
  BY <1>1, TrailAt
<1>3. PICK n \in Nat : n = Len(tr)
  BY <1>2
<1>4. K \in SUBSET (1 .. n) /\ \A i \in K : tr[i] \in L /\ i \in 1 .. Len(tr)
  BY <1>0, <1>3 DEF OnTrail
<1>5. /\ IsFiniteSet(K) /\ K \subseteq Int /\ Cardinality(K) \in Nat
      /\ \A m \in Int : Place(K, m) \in Nat /\ Place(K, m) <= Cardinality(K)
      /\ \A a, b \in Int : a <= b => Place(K, a) <= Place(K, b)
      /\ \A i \in K : Place(K, i) = NumBelow(K, i) + 1 /\ Place(K, i) \in 1 .. Cardinality(K)
      /\ \A i \in K : \A m \in Int : i <= m <=> Place(K, i) <= Place(K, m)
      /\ \A k \in 1 .. Cardinality(K) : Nth(K, k) \in K /\ Place(K, Nth(K, k)) = k
  BY ONLY <1>4, n \in Nat, PlaceIs
<1>6. PICK s : s = [i \in K |-> Place(L, tr[i])]
  OBVIOUS
<1>7. tr2 = Selected(s, K)
  BY <1>0, <1>6 DEF Slides
<1>8. Len(tr2) = Cardinality(K)
  BY <1>5, <1>7, SelectedLen
<1>9. ASSUME NEW i \in K
      PROVE  tr2[Place(K, i)] = Place(L, tr[i])
  <2>1. Selected(s, K)[NumBelow(K, i) + 1] = s[i]
    BY <1>5, SelectedOf
  <2>2. s[i] = Place(L, tr[i])
    BY <1>6
  <2>. QED
    BY <1>5, <1>7, <2>1, <2>2
<1>10. \A k \in 1 .. Len(tr2) : \E i \in K : k = Place(K, i)
  BY <1>5, <1>8
<1>11. ASSUME NEW m \in Nat, 1 .. m \subseteq K
       PROVE  Place(K, m) = m
  <2>1. m \in 0 .. m
    OBVIOUS
  <2>. QED
    BY ONLY <1>4, <1>11, <2>1, n \in Nat, m \in Nat, PlaceSame
<1>12. \A i \in K : Place(K, i) \in 1 .. Len(tr2) /\ i \in Int
  BY <1>5, <1>8
<1>13. \A m \in Int : Place(K, m) \in Nat /\ Place(K, m) <= Len(tr2)
  BY <1>5, <1>8
<1>14. \A i \in 1 .. Len(tr) : tr[i] \in L => i \in K
  BY <1>0 DEF OnTrail
<1>15. Len(tr2) \in Nat
  BY <1>5, <1>8
<1>16. /\ \A a, b \in Int : a <= b => Place(K, a) <= Place(K, b)
       /\ \A i \in K : \A m \in Int : i <= m <=> Place(K, i) <= Place(K, m)
  BY <1>5
<1>. QED
  BY ONLY <1>0, <1>2, <1>4, <1>9, <1>10, <1>11, <1>12, <1>13, <1>14, <1>15, <1>16 DEF TrailMoves

LEMMA SlidStore ==
  ASSUME NEW h, NEW tr, NEW from, NEW L, NEW h2, NEW tr2, Slides(h, tr, from, L, h2, tr2)
  PROVE  StoreOK(h2, tr2)
<1>1. PICK K : K = OnTrail(tr, L)
  OBVIOUS
<1>2. TrailOK(h, tr) /\ HeapOK(h) /\ Len(h2) \in Nat /\ \A c \in L : Place(L, c) \in 1 .. Len(h2) /\ Place(L, c) \in Nat
  <2>1. TrailOK(h, tr) /\ HeapOK(h) /\ Len(h2) \in Nat /\ \A c \in L : Place(L, c) \in 1 .. Len(h2)
    BY SlidAt
  <2>2. \A k \in 1 .. Len(h2) : k \in Nat
    BY <2>1
  <2>. QED
    BY <2>1, <2>2
<1>3. /\ \A i \in K : i \in 1 .. Len(tr) /\ tr[i] \in L /\ tr2[Place(K, i)] = Place(L, tr[i])
      /\ \A k \in 1 .. Len(tr2) : \E i \in K : k = Place(K, i)
  <2>1. TrailMoves(tr, L, K, tr2)
    BY <1>1, SlidTrail
  <2>. QED
    BY ONLY <2>1 DEF TrailMoves
<1>4. ASSUME NEW k \in 1 .. Len(tr2)
      PROVE  tr2[k] \in 1 .. Len(h2) /\ h2[tr2[k]].tag = "REF"
  <2>1. PICK i \in K : k = Place(K, i)
    BY <1>3
  <2>2. PICK c : c = tr[i]
    OBVIOUS
  <2>3. c \in L /\ tr2[k] = Place(L, c)
    BY <1>3, <2>1, <2>2
  <2>4. h[c].tag = "REF"
    BY <1>2, <1>3, <2>2, TrailAt
  <2>5. h2[Place(L, c)].tag = "REF"
    BY <2>3, <2>4, SlidView
  <2>. QED
    BY <1>2, <2>3, <2>5
<1>5. tr2 \in Seq(Nat)
  <2>1. PICK s : s = [i \in K |-> Place(L, tr[i])]
    OBVIOUS
  <2>2. tr2 = Selected(s, K)
    BY <1>1, <2>1 DEF Slides
  <2>3. \A i \in K : s[i] \in Nat
    BY <1>2, <1>3, <2>1
  <2>4. K \subseteq Int /\ IsFiniteSet(K)
    <3>1. Len(tr) \in Nat
      BY <1>2, TrailAt
    <3>2. PICK n \in Nat : n = Len(tr)
      BY <3>1
    <3>3. K \in SUBSET (1 .. n)
      BY <1>3, <3>2
    <3>. QED
      BY <3>3, PlaceIs
  <2>. QED
    BY <2>2, <2>3, <2>4, SelectedSeq
<1>. QED
  BY <1>4, <1>5, SlidHeap DEF StoreOK, TrailOK

LEMMA SlidUndone ==
  ASSUME NEW h, NEW tr, NEW from, NEW L, NEW h2, NEW tr2, Slides(h, tr, from, L, h2, tr2),
         NEW K, K = OnTrail(tr, L), NEW tm \in Nat, NEW c \in L
  PROVE  Undone(tr2, Place(K, tm), Place(L, c)) <=> Undone(tr, tm, c)
<1>0. TrailMoves(tr, L, K, tr2)
  BY SlidTrail
<1>1. /\ Len(tr) \in Nat /\ Len(tr2) \in Nat
      /\ \A i \in K : /\ i \in 1 .. Len(tr) /\ i \in Int /\ tr[i] \in L
                      /\ Place(K, i) \in 1 .. Len(tr2) /\ tr2[Place(K, i)] = Place(L, tr[i])
      /\ \A k \in 1 .. Len(tr2) : \E i \in K : k = Place(K, i)
      /\ \A m \in Int : Place(K, m) \in Nat
      /\ \A i \in K : \A m \in Int : i <= m <=> Place(K, i) <= Place(K, m)
      /\ \A i \in 1 .. Len(tr) : tr[i] \in L => i \in K
  BY <1>0 DEF TrailMoves
<1>2. PICK t : t = Place(K, tm)
  OBVIOUS
<1>3. t \in Nat
  BY <1>1, <1>2
<1>4. \A i \in K : i <= tm <=> Place(K, i) <= t
  <2>1. tm \in Int
    OBVIOUS
  <2>. QED
    BY ONLY <1>1, <1>2, <2>1
<1>5. ASSUME NEW i \in tm + 1 .. Len(tr), tr[i] = c
      PROVE  Undone(tr2, t, Place(L, c))
  <2>1. i \in 1 .. Len(tr) /\ i \in Int /\ ~(i <= tm)
    BY <1>1
  <2>2. i \in K
    BY <1>1, <1>5, <2>1
  <2>3. PICK k : k = Place(K, i)
    OBVIOUS
  <2>4. k \in 1 .. Len(tr2) /\ ~(k <= t) /\ tr2[k] = Place(L, c)
    BY <1>1, <1>4, <1>5, <2>1, <2>2, <2>3
  <2>5. k \in t + 1 .. Len(tr2)
    BY <1>1, <1>3, <2>4
  <2>. QED
    BY <2>4, <2>5 DEF Undone
<1>6. ASSUME NEW k \in t + 1 .. Len(tr2), tr2[k] = Place(L, c)
      PROVE  Undone(tr, tm, c)
  <2>1. k \in 1 .. Len(tr2) /\ ~(k <= t)
    BY <1>1, <1>3
  <2>2. PICK i \in K : k = Place(K, i)
    BY <1>1, <2>1
  <2>3. i \in 1 .. Len(tr) /\ i \in Int /\ ~(i <= tm) /\ tr[i] \in L /\ Place(L, tr[i]) = Place(L, c)
    BY <1>1, <1>4, <1>6, <2>1, <2>2
  <2>4. tr[i] = c
    <3>1. PICK d : d = tr[i]
      OBVIOUS
    <3>2. d \in L /\ Place(L, d) = Place(L, c)
      BY <2>3, <3>1
    <3>3. d = c
      BY <3>2, SlidOrder
    <3>. QED
      BY <3>1, <3>3
  <2>5. i \in tm + 1 .. Len(tr)
    BY <1>1, <2>3
  <2>. QED
    BY <2>4, <2>5 DEF Undone
<1>. QED
  BY <1>2, <1>5, <1>6 DEF Undone

LEMMA SlidMark ==
  ASSUME NEW h, NEW tr, NEW from, NEW L, NEW h2, NEW tr2, Slides(h, tr, from, L, h2, tr2),
         NEW K, K = OnTrail(tr, L), NEW hm, NEW tm, MarkOK(h, tr, hm, tm)
  PROVE  MarkOK(h2, tr2, Place(L, hm), Place(K, tm))
<1>0. TrailMoves(tr, L, K, tr2)
  BY SlidTrail
<1>1. hm \in Nat /\ tm \in Nat
  <2>1. Len(h) \in Nat /\ Len(tr) \in Nat
    BY <1>0, SlidAt DEF TrailMoves
  <2>. QED
    BY <2>1 DEF MarkOK
<1>2. PICK g, t : g = Place(L, hm) /\ t = Place(K, tm)
  OBVIOUS
<1>3. /\ g \in Nat /\ g <= Len(h2) /\ t \in Nat /\ t <= Len(tr2) /\ Len(h2) \in Nat /\ Len(tr2) \in Nat
  BY <1>0, <1>1, <1>2, SlidAt, SlidOrder DEF TrailMoves
<1>4. ASSUME NEW k \in 1 .. t
      PROVE  tr2[k] <= g
  <2>1. k \in 1 .. Len(tr2) /\ k <= t
    BY <1>3
  <2>2. PICK i \in K : k = Place(K, i)
    BY <1>0, <2>1 DEF TrailMoves
  <2>3. i <= tm /\ i \in 1 .. Len(tr) /\ tr[i] \in L /\ tr2[k] = Place(L, tr[i]) /\ Len(tr) \in Nat
    <3>1. i <= tm
      <4>1. \A j \in K : \A m \in Int : j <= m <=> Place(K, j) <= Place(K, m)
        BY ONLY <1>0 DEF TrailMoves
      <4>2. tm \in Int
        BY <1>1
      <4>. QED
        BY ONLY <1>2, <2>1, <2>2, <4>1, <4>2
    <3>. QED
      BY <1>0, <2>2, <3>1 DEF TrailMoves
  <2>4. i \in 1 .. tm
    BY <1>1, <2>3
  <2>5. tr[i] <= hm
    BY <2>4 DEF MarkOK
  <2>6. PICK d : d = tr[i]
    OBVIOUS
  <2>7. d \in L /\ d \in Int /\ hm \in Int /\ d <= hm /\ tr2[k] = Place(L, d)
    <3>1. d \in L /\ d <= hm /\ tr2[k] = Place(L, d)
      BY <2>3, <2>5, <2>6
    <3>2. hm \in Int
      BY <1>1
    <3>. QED
      BY <3>1, <3>2, SlidOrder
  <2>8. Place(L, d) <= Place(L, hm)
    BY <2>7, SlidOrder
  <2>. QED
    BY <1>2, <2>7, <2>8
<1>5. ASSUME NEW k \in 1 .. g, h2[k].tag = "REF", h2[k].ref > g
      PROVE  Undone(tr2, t, k)
  <2>1. k \in 1 .. Len(h2) /\ k <= g
    BY <1>3
  <2>2. PICK c \in L : k = Place(L, c)
    BY <2>1, SlidAt
  <2>3. h[c].tag = "REF" /\ h[c].ref \in L /\ h2[k].ref = Place(L, h[c].ref)
    BY <1>5, <2>2, SlidView
  <2>4. PICK r : r = h[c].ref
    OBVIOUS
  <2>5. r \in L /\ r \in Int /\ Place(L, r) > g /\ Place(L, r) \in Nat
    <3>1. r \in L /\ Place(L, r) > g
      BY <1>5, <2>3, <2>4
    <3>2. \A e \in L : e \in Int
      BY SlidOrder
    <3>3. \A e \in Int : Place(L, e) \in Nat
      BY SlidOrder
    <3>. QED
      BY ONLY <3>1, <3>2, <3>3
  <2>6. ~(Place(L, r) <= g)
    BY ONLY <1>3, <2>5
  <2>7. ~(r <= hm) /\ c <= hm
    BY <1>1, <1>2, <2>1, <2>2, <2>5, <2>6, SlidOrder
  <2>8. c \in 1 .. hm /\ r > hm
    <3>1. c \in 1 .. Len(h) /\ Len(h) \in Nat
      BY SlidAt
    <3>. QED
      BY <1>1, <2>5, <2>7, <3>1
  <2>9. Undone(tr, tm, c)
    BY <2>3, <2>4, <2>8 DEF MarkOK
  <2>10. Undone(tr2, Place(K, tm), Place(L, c))
    BY <1>1, <2>9, SlidUndone
  <2>. QED
    BY <1>2, <2>2, <2>10
<1>6. g \in 0 .. Len(h2) /\ t \in 0 .. Len(tr2)
  BY <1>3
<1>7. MarkOK(h2, tr2, g, t)
  BY <1>4, <1>5, <1>6 DEF MarkOK
<1>. QED
  BY <1>2, <1>7

LEMMA RelChildren ==
  ASSUME NEW h, NEW tr, StoreOK(h, tr), NEW hm, NEW tm, MarkOK(h, tr, hm, tm),
         NEW g, g = Rel(h, tr, hm, tm), NEW c \in 1 .. hm
  PROVE  /\ Children(g, c) \subseteq 1 .. hm
         /\ Children(g, c) \subseteq Children(h, c) \cup {c}
<1>1. hm \in Nat /\ HeapOK(g)
  BY RelHeap
<1>2. Len(g) = hm /\ \A d \in 1 .. hm : g[d] = IF Undone(tr, tm, d) THEN Ref(d) ELSE h[d]
  BY <1>1, RelAt
<1>3. Children(g, c) \subseteq 1 .. hm
  BY <1>1, <1>2, ChildrenIn
<1>4. CASE Undone(tr, tm, c)
  <2>1. g[c] = Ref(c)
    BY <1>2, <1>4
  <2>. QED
    BY <1>3, <2>1 DEF Children, Ref
<1>5. CASE ~Undone(tr, tm, c) /\ g[c].tag # "STR"
  <2>1. g[c] = h[c]
    BY <1>2, <1>5
  <2>. QED
    BY <1>3, <1>5, <2>1 DEF Children
<1>6. CASE ~Undone(tr, tm, c) /\ g[c].tag = "STR"
  <2>1. g[c] = h[c]
    BY <1>2, <1>6
  <2>2. PICK p : p = g[c].ptr
    OBVIOUS
  <2>3. p \in 1 .. hm /\ g[p].tag = "FUNCTOR"
    <3>1. IsStrCell(g, c)
      BY <1>1, <1>2, <1>6 DEF HeapOK, IsAtomCell, IsFunctorCell, IsRefCell, Atom
    <3>2. p \in 1 .. c - 1
      BY <2>2, <3>1 DEF IsStrCell
    <3>3. p \in 1 .. hm
      BY <1>1, <3>2
    <3>. QED
      BY <2>2, <3>1, <3>3 DEF IsStrCell, IsFunctorCell
  <2>4. g[p] = h[p]
    BY <1>2, <2>3 DEF Ref
  <2>. QED
    BY <1>3, <1>6, <2>1, <2>2, <2>4 DEF Children
<1>. QED
  BY <1>4, <1>5, <1>6

\* A term that a mark brings back is the same in the heap that has slid.
LEMMA SlidRel ==
  ASSUME NEW h, NEW tr, NEW from, NEW L, NEW h2, NEW tr2, Slides(h, tr, from, L, h2, tr2),
         NEW K, K = OnTrail(tr, L), NEW hm, NEW tm, MarkOK(h, tr, hm, tm)
  PROVE  Carried(Rel(h, tr, hm, tm), L \cap 1 .. hm, Moves(h, L), Rel(h2, tr2, Place(L, hm), Place(K, tm)))
<1>1. PICK g, X, to, hm2, tm2, g2 :
        /\ g = Rel(h, tr, hm, tm) /\ X = L \cap 1 .. hm /\ to = Moves(h, L)
        /\ hm2 = Place(L, hm) /\ tm2 = Place(K, tm) /\ g2 = Rel(h2, tr2, hm2, tm2)
  OBVIOUS
<1>2. StoreOK(h, tr)
  BY DEF Slides
<1>3. hm \in Nat /\ hm <= Len(h) /\ HeapOK(g) /\ tm \in Nat
  <2>1. Len(tr) \in Nat
    BY SlidTrail DEF TrailMoves
  <2>2. tm \in Nat
    BY <2>1 DEF MarkOK
  <2>. QED
    BY <1>1, <1>2, <2>2, RelHeap
<1>4. hm2 \in Nat
  BY <1>1, <1>3, SlidOrder
<1>5. \A c \in X : c \in L /\ c \in 1 .. hm /\ to[c] = Place(L, c)
  BY <1>1, SlidAt
<1>6. Len(g) = hm /\ \A c \in 1 .. hm : g[c] = IF Undone(tr, tm, c) THEN Ref(c) ELSE h[c]
  BY <1>1, <1>3, RelAt
<1>7. Len(g2) = hm2 /\ \A c \in 1 .. hm2 : g2[c] = IF Undone(tr2, tm2, c) THEN Ref(c) ELSE h2[c]
  BY <1>1, <1>4, RelAt
<1>8. ASSUME NEW c \in X
      PROVE  to[c] \in 1 .. hm2
  <2>1. c \in L /\ c <= hm /\ hm \in Int
    BY <1>3, <1>5
  <2>2. Place(L, c) <= Place(L, hm)
    BY <2>1, SlidOrder
  <2>3. Place(L, c) \in 1 .. Len(h2) /\ Len(h2) \in Nat
    BY <2>1, SlidAt
  <2>. QED
    BY <1>1, <1>4, <1>5, <2>2, <2>3
<1>9. \A c \in X : Children(g, c) \subseteq X
  <2> TAKE c \in X
  <2>1. c \in 1 .. hm /\ c \in L
    BY <1>5
  <2>2. Children(g, c) \subseteq 1 .. hm /\ Children(g, c) \subseteq Children(h, c) \cup {c}
    BY <1>1, <1>2, <2>1, RelChildren
  <2>3. Children(h, c) \subseteq L
    BY <2>1, SlidAt
  <2>. QED
    BY <1>1, <2>1, <2>2, <2>3
<1>10. ASSUME NEW c \in X
       PROVE  g2[to[c]] = Repoint(g[c], to)
  <2>1. c \in L /\ c \in 1 .. hm /\ to[c] = Place(L, c) /\ to[c] \in 1 .. hm2
    BY <1>5, <1>8
  <2>2. Undone(tr2, tm2, to[c]) <=> Undone(tr, tm, c)
    BY <1>1, <1>3, <2>1, SlidUndone
  <2>3. CASE Undone(tr, tm, c)
    <3>1. g2[to[c]] = Ref(to[c]) /\ g[c] = Ref(c)
      BY <1>6, <1>7, <2>1, <2>2, <2>3
    <3>. QED
      BY <3>1 DEF Repoint, Ref
  <2>4. CASE ~Undone(tr, tm, c)
    <3>1. g2[to[c]] = h2[to[c]] /\ g[c] = h[c]
      BY <1>6, <1>7, <2>1, <2>2, <2>4
    <3>2. h2[Place(L, c)] = Repoint(h[c], Moves(h, L))
      BY <2>1, SlidCell
    <3>. QED
      BY <1>1, <2>1, <3>1, <3>2
  <2>. QED
    BY <2>3, <2>4
<1>11. \A c, d \in X : c < d => to[c] < to[d]
  <2>1. \A c, d \in L : c < d <=> Place(L, c) < Place(L, d)
    BY SlidOrder
  <2>2. \A c \in X : c \in L /\ to[c] = Place(L, c)
    BY <1>5
  <2>. QED
    BY ONLY <2>1, <2>2
<1>12. ASSUME NEW c \in X, g[c].tag = "STR", NEW d \in Children(g, c)
       PROVE  to[d] = to[g[c].ptr] + (d - g[c].ptr)
  <2>1. c \in 1 .. Len(g) /\ Children(g, c) \subseteq L /\ g[c].ptr \in X /\ d \in X
    <3>1. c \in 1 .. Len(g) /\ Children(g, c) \subseteq X
      BY <1>5, <1>6, <1>9
    <3>2. g[c].ptr \in Children(g, c)
      BY <1>3, <1>12, <3>1, ChildrenIn
    <3>. QED
      BY <1>5, <3>1, <3>2
  <2>2. Place(L, d) = Place(L, g[c].ptr) + (d - g[c].ptr)
    <3>1. HeapOK(g) /\ Slides(h, tr, from, L, h2, tr2)
      BY <1>3
    <3>2. g[c].tag = "STR" /\ d \in Children(g, c)
      BY <1>12
    <3>3. SlidWhole(g, L, c)
      BY ONLY <2>1, <3>1, <3>2, SlidRun
    <3>. QED
      BY <3>2, <3>3 DEF SlidWhole
  <2>. QED
    BY <1>5, <2>1, <2>2
<1>13. X \subseteq 1 .. Len(g)
  BY <1>5, <1>6
<1>14. Carried(g, X, to, g2)
  BY <1>7, <1>8, <1>9, <1>10, <1>11, <1>12, <1>13 DEF Carried, Closed
<1>. QED
  BY <1>1, <1>14

LEMMA SlidSnap ==
  ASSUME NEW h, NEW tr, NEW from, NEW L, NEW h2, NEW tr2, Slides(h, tr, from, L, h2, tr2),
         NEW K, K = OnTrail(tr, L), NEW hm, NEW tm, NEW goals, NEW ans, NEW was,
         SnapOK(h, tr, hm, tm, goals, ans, was), goals \in L, ans \in L
  PROVE  SnapOK(h2, tr2, Place(L, hm), Place(K, tm), Place(L, goals), Place(L, ans), was)
<1>1. PICK g, X, to, hm2, tm2, g2 :
        /\ g = Rel(h, tr, hm, tm) /\ X = L \cap 1 .. hm /\ to = Moves(h, L)
        /\ hm2 = Place(L, hm) /\ tm2 = Place(K, tm) /\ g2 = Rel(h2, tr2, hm2, tm2)
  OBVIOUS
<1>2. MarkOK(h, tr, hm, tm) /\ goals \in Pointable(g) /\ ans \in Pointable(g) /\ was = Terms(g, <<goals, ans>>)
  BY <1>1 DEF SnapOK
<1>3. StoreOK(h, tr) /\ StoreOK(h2, tr2)
  BY SlidStore DEF Slides
<1>4. MarkOK(h2, tr2, hm2, tm2)
  BY <1>1, <1>2, SlidMark
<1>5. hm \in Nat /\ HeapOK(g) /\ HeapOK(g2)
  BY <1>1, <1>2, <1>3, <1>4, RelHeap
<1>6. Len(g) = hm
  BY <1>1, <1>5, RelAt
<1>7. Carried(g, X, to, g2)
  BY <1>1, <1>2, SlidRel
<1>8. goals \in X /\ ans \in X
  BY <1>1, <1>2, <1>6 DEF Pointable
<1>9. to[goals] = Place(L, goals) /\ to[ans] = Place(L, ans)
  BY <1>1, SlidAt
<1>10. \A c \in X : c \in Pointable(g) => to[c] \in Pointable(g2)
  <2> SUFFICES ASSUME NEW c \in X, c \in Pointable(g) PROVE to[c] \in Pointable(g2)
    OBVIOUS
  <2>1. to[c] \in 1 .. Len(g2) /\ g2[to[c]] = Repoint(g[c], to) /\ c \in 1 .. Len(g)
    BY <1>7 DEF Carried
  <2>2. g[c] \in HeapCell
    BY <1>5, <2>1, CellAt
  <2>3. g2[to[c]].tag = g[c].tag
    BY <2>1, <2>2, RepointTag
  <2>. QED
    BY <2>1, <2>3 DEF Pointable
<1>11. Terms(g2, <<to[goals], to[ans]>>) = Terms(g, <<goals, ans>>)
  <2>1. PICK r, r2 : r = <<goals, ans>> /\ r2 = <<to[goals], to[ans]>>
    OBVIOUS
  <2>2. Len(r) \in Nat /\ Len(r2) = Len(r) /\ \A i \in 1 .. Len(r) : r[i] \in X /\ r2[i] = to[r[i]]
    BY <1>8, <2>1
  <2>3. Terms(g2, r2) = Terms(g, r)
    BY <1>5, <1>7, <2>2, CarriedTerms
  <2>. QED
    BY <2>1, <2>3
<1>12. SnapOK(h2, tr2, hm2, tm2, to[goals], to[ans], was)
  BY <1>1, <1>2, <1>4, <1>8, <1>10, <1>11 DEF SnapOK
<1>. QED
  BY <1>1, <1>9, <1>12

LEMMA SlidFence ==
  ASSUME NEW h, NEW tr, NEW from, NEW L, NEW h2, NEW tr2, Slides(h, tr, from, L, h2, tr2),
         NEW hm, NEW tm, FenceOK(h, tr, hm, tm), hm <= from
  PROVE  FenceOK(h2, tr2, hm, tm) /\ Place(L, hm) = hm /\ Place(OnTrail(tr, L), tm) = tm
<1>1. PICK K : K = OnTrail(tr, L)
  OBVIOUS
<1>2. TrailMoves(tr, L, K, tr2)
  BY <1>1, SlidTrail
<1>3. hm \in Nat /\ tm \in Nat /\ Len(h) \in Nat /\ Len(tr) \in Nat /\ from \in Nat /\ hm <= Len(h) /\ tm <= Len(tr)
  <2>1. Len(h) \in Nat /\ Len(tr) \in Nat /\ from \in Nat
    BY <1>2, SlidAt DEF TrailMoves
  <2>. QED
    BY <2>1 DEF FenceOK
<1>4. \A c \in 1 .. from : c \in L
  BY DEF Slides
<1>5. Place(L, hm) = hm
  <2>1. hm \in 0 .. from
    BY <1>3
  <2>. QED
    BY <2>1, SlidAt
<1>6. Place(K, tm) = tm
  <2>1. ASSUME NEW i \in 1 .. tm
        PROVE  i \in K
    <3>1. i \in 1 .. Len(tr) /\ i <= tm
      BY <1>3
    <3>2. PICK c : c = tr[i]
      OBVIOUS
    <3>3. c <= hm
      BY <3>1, <3>2 DEF FenceOK
    <3>4. c \in 1 .. Len(h)
      <4>1. HeapOK(h) /\ TrailOK(h, tr)
        BY SlidAt
      <4>. QED
        BY <3>1, <3>2, <4>1, TrailAt
    <3>5. c \in 1 .. from
      BY <1>3, <3>3, <3>4
    <3>. QED
      BY <1>2, <1>4, <3>1, <3>2, <3>5 DEF TrailMoves
  <2>2. 1 .. tm \subseteq K
    BY <2>1
  <2>. QED
    BY <1>2, <1>3, <2>2 DEF TrailMoves
<1>7. hm \in Int /\ tm \in Int
  BY <1>3
<1>8. \A c \in L : c <= hm <=> Place(L, c) <= hm
  <2>1. \A c \in L : c <= hm <=> Place(L, c) <= Place(L, hm)
    BY <1>7, SlidOrder
  <2>. QED
    BY <1>5, <2>1
<1>9. ASSUME NEW k \in 1 .. Len(h2), h2[k].tag = "REF"
      PROVE  h2[k].ref <= hm <=> k <= hm
  <2>1. PICK c \in L : k = Place(L, c)
    BY SlidAt
  <2>2. PICK r : r = h[c].ref
    OBVIOUS
  <2>3. h[c].tag = "REF" /\ r \in L /\ h2[k].ref = Place(L, r) /\ c \in 1 .. Len(h)
    BY <1>9, <2>1, <2>2, SlidView, SlidAt
  <2>4. r <= hm <=> c <= hm
    BY <2>2, <2>3 DEF FenceOK
  <2>5. (r <= hm <=> Place(L, r) <= hm) /\ (c <= hm <=> Place(L, c) <= hm)
    BY <1>8, <2>3
  <2>6. h2[k].ref <= hm <=> Place(L, r) <= hm
    BY <2>3
  <2>7. k <= hm <=> Place(L, c) <= hm
    BY <2>1
  <2>. QED
    BY ONLY <2>4, <2>5, <2>6, <2>7
<1>10. ASSUME NEW k \in 1 .. Len(h2), h2[k].tag = "STR", hm < k
       PROVE  hm < h2[k].ptr
  <2>1. PICK c \in L : k = Place(L, c)
    BY SlidAt
  <2>2. PICK p : p = h[c].ptr
    OBVIOUS
  <2>3. h[c].tag = "STR" /\ p \in L /\ h2[k].ptr = Place(L, p) /\ c \in 1 .. Len(h)
    BY <1>10, <2>1, <2>2, SlidView, SlidAt
  <2>4. c \in Int /\ p \in Int /\ Place(L, c) \in Nat /\ Place(L, p) \in Nat
    BY <2>1, <2>3, SlidOrder
  <2>5. ~(k <= hm)
    BY <1>7, <1>10, <2>1, <2>4
  <2>6. ~(c <= hm)
    BY <1>8, <2>1, <2>5
  <2>7. hm < c
    BY ONLY <1>7, <2>4, <2>6
  <2>8. hm < p
    BY <2>2, <2>3, <2>7 DEF FenceOK
  <2>9. ~(p <= hm)
    BY ONLY <1>7, <2>4, <2>8
  <2>10. ~(Place(L, p) <= hm)
    BY <1>8, <2>3, <2>9
  <2>. QED
    BY <1>7, <2>3, <2>4, <2>10
<1>11. ASSUME NEW k \in 1 .. Len(tr2)
       PROVE  tr2[k] <= hm <=> k <= tm
  <2>1. PICK i \in K : k = Place(K, i)
    BY <1>2 DEF TrailMoves
  <2>2. i \in 1 .. Len(tr) /\ tr[i] \in L /\ tr2[k] = Place(L, tr[i])
    BY <1>2, <2>1 DEF TrailMoves
  <2>3. i <= tm <=> k <= tm
    <3>1. \A j \in K : \A m \in Int : j <= m <=> Place(K, j) <= Place(K, m)
      BY ONLY <1>2 DEF TrailMoves
    <3>. QED
      BY <1>6, <1>7, <2>1, <3>1
  <2>4. tr[i] <= hm <=> i <= tm
    BY <2>2 DEF FenceOK
  <2>. QED
    BY <1>8, <2>2, <2>3, <2>4
<1>12. hm \in 0 .. Len(h2) /\ tm \in 0 .. Len(tr2)
  <2>1. hm <= Len(h2) /\ Len(h2) \in Nat
    BY <1>5, <1>7, SlidOrder, SlidAt
  <2>2. tm <= Len(tr2) /\ Len(tr2) \in Nat
    BY <1>2, <1>6, <1>7 DEF TrailMoves
  <2>. QED
    BY <1>3, <2>1, <2>2
<1>13. FenceOK(h2, tr2, hm, tm)
  BY <1>9, <1>10, <1>11, <1>12 DEF FenceOK
<1>. QED
  BY <1>1, <1>5, <1>6, <1>13
=============================================================================
