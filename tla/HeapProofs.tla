------------------------------ MODULE HeapProofs ------------------------------
(***************************************************************************)
(* Theorems about module Heap, for any bounds: whatever the program does,  *)
(* and wherever in it collections come, nothing points outside, and        *)
(* backtracking, a throw and the end of a directive give back the terms    *)
(* that they promise.  The invariant has the store (module StoreProofs)    *)
(* and, of each choicepoint, catch entry and waiting query, that a release *)
(* to its marks would give its terms as they were; the marks rise along    *)
(* the stacks; and no pointer crosses the base of a query.                 *)
(***************************************************************************)
EXTENDS Heap, StoreProofs

\* The goal and the variables of a query.
LEMMA QueryGrows ==
  ASSUME NEW h, HeapOK(h), NEW n, n = Len(h), NEW h2, h2 = h \o QueryCells(n)
  PROVE  /\ HeapOK(h2) /\ Grows(h, h2) /\ Settled(h, h2)
         /\ n \in Nat /\ Len(h2) = n + 6 /\ n + 4 \in Pointable(h2) /\ n + 5 \in Pointable(h2)
         /\ \A c \in 1 .. Len(h2) : c > n => /\ h2[c].tag = "REF" => n < h2[c].ref
                                             /\ h2[c].tag = "STR" => n < h2[c].ptr
<1>1. n \in Nat /\ h \in Seq(HeapCell)
  BY CellAt DEF HeapOK
<1>2. PICK s : s = QueryCells(n)
  OBVIOUS
<1>3. /\ Functor(2) \in HeapCell /\ Str(n + 1) \in HeapCell
      /\ Ref(n + 5) \in HeapCell /\ Ref(n + 6) \in HeapCell
  BY <1>1 DEF HeapCell, Functor, Ref, Str
<1>4. /\ s \in Seq(HeapCell) /\ Len(s) = 6
      /\ s[1] = Functor(2) /\ s[2] = Ref(n + 5) /\ s[3] = Ref(n + 6)
      /\ s[4] = Str(n + 1) /\ s[5] = Ref(n + 5) /\ s[6] = Ref(n + 6)
  BY <1>2, <1>3 DEF QueryCells
<1>5. /\ h2 \in Seq(HeapCell) /\ Len(h2) = n + 6
      /\ \A c \in 1 .. n : h2[c] = h[c]
      /\ \A c \in 1 .. 6 : h2[n + c] = s[c]
  <2>1. h \in Seq(HeapCell)
    BY <1>1
  <2>2. s \in Seq(HeapCell)
    BY <1>4
  <2>3. PICK j : j = 6
    OBVIOUS
  <2>4. j = Len(s)
    BY <1>4, <2>3
  <2>5. n = Len(h)
    OBVIOUS
  <2>6. h2 = h \o s
    BY <1>2
  <2>7. /\ h2 \in Seq(HeapCell) /\ Len(h2) = n + j
        /\ \A c \in 1 .. n : h2[c] = h[c]
        /\ \A c \in 1 .. j : h2[n + c] = s[c]
    BY ONLY <2>1, <2>2, <2>4, <2>5, <2>6, ConcatAt
  <2>. QED
    BY ONLY <2>3, <2>7
<1>6. /\ h2[n + 1] = Functor(2) /\ h2[n + 2] = Ref(n + 5) /\ h2[n + 3] = Ref(n + 6)
      /\ h2[n + 4] = Str(n + 1) /\ h2[n + 5] = Ref(n + 5) /\ h2[n + 6] = Ref(n + 6)
  <2>1. \A c \in 1 .. 6 : h2[n + c] = s[c]
    BY <1>5
  <2>2. 1 \in 1 .. 6 /\ 2 \in 1 .. 6 /\ 3 \in 1 .. 6 /\ 4 \in 1 .. 6 /\ 5 \in 1 .. 6 /\ 6 \in 1 .. 6
    OBVIOUS
  <2>3. /\ s[1] = Functor(2) /\ s[2] = Ref(n + 5) /\ s[3] = Ref(n + 6)
        /\ s[4] = Str(n + 1) /\ s[5] = Ref(n + 5) /\ s[6] = Ref(n + 6)
    BY <1>4
  <2>. QED
    BY ONLY <2>1, <2>2, <2>3
<1>7. Grows(h, h2)
  <2>1. \A c \in 1 .. n : c \in 1 .. n + 6
    BY <1>1
  <2>. QED
    BY <1>1, <1>5, <2>1 DEF Grows
<1>8. ASSUME NEW c \in 1 .. Len(h2), c > n
      PROVE  c = n + 1 \/ c = n + 2 \/ c = n + 3 \/ c = n + 4 \/ c = n + 5 \/ c = n + 6
  <2>1. PICK m : m = Len(h2)
    OBVIOUS
  <2>2. m = n + 6 /\ c \in 1 .. m
    BY <1>5, <2>1
  <2>. QED
    BY ONLY <1>1, <1>8, <2>2
<1>9. /\ n + 4 \in Pointable(h2) /\ n + 5 \in Pointable(h2) /\ n + 6 \in Pointable(h2)
      /\ n + 1 \in 1 .. (n + 4) - 1 /\ (n + 1) + 2 < n + 4
  <2>1. /\ n + 4 \in 1 .. n + 6 /\ n + 5 \in 1 .. n + 6 /\ n + 6 \in 1 .. n + 6
        /\ n + 1 \in 1 .. (n + 4) - 1 /\ (n + 1) + 2 < n + 4
    BY <1>1
  <2>. QED
    BY <1>5, <1>6, <2>1 DEF Pointable, Ref, Str
<1>10. /\ IsFunctorCell(h2, n + 1) /\ IsRefCell(h2, n + 2) /\ IsRefCell(h2, n + 3)
       /\ IsStrCell(h2, n + 4) /\ IsRefCell(h2, n + 5) /\ IsRefCell(h2, n + 6)
  <2>1. IsFunctorCell(h2, n + 1)
    BY <1>6 DEF IsFunctorCell, Functor
  <2>2. h2[n + 4].ptr = n + 1 /\ h2[n + 4].tag = "STR" /\ h2[n + 1].arity = 2
    BY <1>6 DEF Str, Functor
  <2>3. IsStrCell(h2, n + 4)
    BY <1>6, <1>9, <2>1, <2>2 DEF IsStrCell
  <2>4. IsRefCell(h2, n + 2) /\ IsRefCell(h2, n + 5)
    BY <1>6, <1>9 DEF IsRefCell, Ref
  <2>5. IsRefCell(h2, n + 3) /\ IsRefCell(h2, n + 6)
    BY <1>6, <1>9 DEF IsRefCell, Ref
  <2>. QED
    BY <2>1, <2>3, <2>4, <2>5
<1>11. HeapOK(h2)
  <2>1. \A c \in 1 .. n : IsAtomCell(h2, c) \/ IsFunctorCell(h2, c) \/ IsRefCell(h2, c) \/ IsStrCell(h2, c)
    BY <1>7, OldCells
  <2>2. \A c \in 1 .. Len(h2) : c > n \/ c \in 1 .. n
    BY <1>1, <1>5
  <2>. QED
    BY <1>5, <1>8, <1>10, <2>1, <2>2 DEF HeapOK
<1>12. \A c \in 1 .. Len(h2) : c > n =>
         /\ h2[c].tag = "REF" => h2[c].ref = n + 5 \/ h2[c].ref = n + 6
         /\ h2[c].tag = "STR" => h2[c].ptr = n + 1
  <2> SUFFICES ASSUME NEW c \in 1 .. Len(h2), c > n
               PROVE  /\ h2[c].tag = "REF" => h2[c].ref = n + 5 \/ h2[c].ref = n + 6
                      /\ h2[c].tag = "STR" => h2[c].ptr = n + 1
    OBVIOUS
  <2>1. c = n + 1 \/ c = n + 2 \/ c = n + 3 \/ c = n + 4 \/ c = n + 5 \/ c = n + 6
    BY <1>8
  <2>2. h2[c] = Functor(2) \/ h2[c] = Ref(n + 5) \/ h2[c] = Ref(n + 6) \/ h2[c] = Str(n + 1)
    BY ONLY <1>6, <2>1
  <2>. QED
    BY <2>2 DEF Functor, Ref, Str
<1>13. Settled(h, h2)
  <2>1. h2[n + 5].ref = n + 5 /\ h2[n + 6].ref = n + 6
    BY <1>6 DEF Ref
  <2>. QED
    BY <1>12, <2>1 DEF Settled
<1>14. n < n + 5 /\ n < n + 6 /\ n < n + 1
  BY <1>1
<1>. QED
  BY <1>1, <1>5, <1>7, <1>9, <1>11, <1>12, <1>13, <1>14

LEMMA ReleasePointUp ==
  ASSUME NEW h, NEW tr, NEW hm, NEW tm, NEW r, NEW t, Resets(h, tr, hm, tm, r, t),
         NEW from, PointUpByTrail(h, tr, from)
  PROVE  PointUpByTrail(r, t, Least(from, hm))
<1>0. /\ StoreOK(h, tr) /\ MarkOK(h, tr, hm, tm)
      /\ r = Rel(h, tr, hm, tm) /\ t = SubSeq(tr, 1, tm)
  BY DEF Resets
<1>1. HeapOK(h) /\ TrailOK(h, tr) /\ tm \in 0 .. Len(tr) /\ Len(h) \in Nat /\ Len(tr) \in Nat
  BY <1>0, CellAt, TrailAt DEF StoreOK, MarkOK
<1>2. hm \in Nat /\ hm <= Len(h) /\ Len(r) = hm /\ HeapOK(r)
  BY <1>0, RelHeap, RelAt
<1>3. Len(t) = tm /\ \A i \in 1 .. tm : t[i] = tr[i] /\ i \in 1 .. Len(tr)
  BY <1>0, <1>1, TrailCut
<1>4. PICK low : low = Least(from, hm)
  OBVIOUS
<1>5. from \in Nat /\ low \in 0 .. hm /\ low <= from /\ (low = from \/ low = hm)
  BY <1>0, <1>1, <1>2, <1>4 DEF Least, PointUpByTrail
<1>6. ASSUME NEW c \in 1 .. low, r[c].tag = "REF", r[c].ref > low
      PROVE  \E i \in 1 .. Len(t) : t[i] = c
  <2>1. c \in 1 .. hm /\ c \in 1 .. from /\ c <= low /\ c \in Nat
    BY <1>0, <1>2, <1>5
  <2>2. r[c].ref \in 1 .. hm
    <3>1. r[c].ref \in Pointable(r)
      BY <1>0, <1>2, <1>6, <2>1 DEF HeapOK, IsAtomCell, IsFunctorCell, IsRefCell, IsStrCell, Atom
    <3>. QED
      BY <1>0, <1>2, <3>1 DEF Pointable
  <2>3. low = from /\ r[c] # Ref(c)
    BY <1>0, <1>2, <1>5, <1>6, <2>1, <2>2 DEF Ref
  <2>4. ~Undone(tr, tm, c) /\ r[c] = h[c]
    BY <1>0, <1>2, <2>1, <2>3, RelAt
  <2>5. PICK i \in 1 .. Len(tr) : tr[i] = c
    BY <1>0, <1>6, <2>1, <2>3, <2>4 DEF PointUpByTrail
  <2>6. i \in 1 .. tm
    BY <1>0, <1>1, <2>4, <2>5 DEF Undone
  <2>. QED
    BY <1>0, <1>3, <2>5, <2>6
<1>. QED
  BY <1>0, <1>2, <1>4, <1>5, <1>6 DEF PointUpByTrail

(***************************************************************************)
(* The terms at hand.                                                      *)
(***************************************************************************)
LEMMA DerefIs ==
  ASSUME HeapOK(heap), NoRing(heap), NEW X \in SUBSET (1 .. Len(heap)),
         \A d \in X : heap[d].tag = "REF" => heap[d].ref \in X, NEW c \in X
  PROVE  Deref(c) \in X /\ IsEnd(heap, Deref(c))
<1> DEFINE D == 1 .. Len(heap)
           next == [d \in D |-> IF heap[d].tag = "REF" THEN {heap[d].ref} ELSE {}]
<1>1. IsFiniteSet(D) /\ \A d \in D : heap[d].tag = "REF" => heap[d].ref \in D
  <2>1. \A d \in D : heap[d].tag = "REF" => heap[d].ref \in Pointable(heap)
    BY DEF HeapOK, IsAtomCell, IsFunctorCell, IsRefCell, IsStrCell, Atom
  <2>. QED
    BY <2>1, CellAt DEF Pointable
<1>2. next \in [D -> SUBSET D] /\ {c} \in SUBSET D
  BY <1>1
<1>3. Deref(c) = CHOOSE d \in Closure(next, {c}) : next[d] \subseteq {d}
  BY DEF Deref
<1>4. \A d \in D : next[d] = IF heap[d].tag = "REF" THEN {heap[d].ref} ELSE {}
  OBVIOUS
<1>5. X \in SUBSET D
  OBVIOUS
<1> HIDE DEF D, next
<1>6. PICK R : R = Closure(next, {c})
  OBVIOUS
<1>7. /\ {c} \subseteq R /\ R \subseteq D /\ ClosedUnder(next, R)
      /\ \A Y \in SUBSET D : {c} \subseteq Y /\ ClosedUnder(next, Y) => R \subseteq Y
  BY <1>1, <1>2, <1>6, ClosureIsLeast
<1>8. R \subseteq X
  <2>1. ClosedUnder(next, X)
    BY <1>4, <1>5 DEF ClosedUnder
  <2>. QED
    BY <1>5, <1>7, <2>1
<1>9. PICK d \in R : ~(heap[d].tag = "REF" /\ heap[d].ref # d /\ heap[d].ref \in R)
  <2>1. R \in SUBSET (1 .. Len(heap)) /\ R # {}
    BY <1>7 DEF D
  <2>. QED
    BY <2>1 DEF NoRing
<1>10. next[d] \subseteq {d}
  <2>1. next[d] \subseteq R /\ d \in D
    BY <1>7 DEF ClosedUnder
  <2>. QED
    BY <1>4, <1>9, <2>1
<1>11. Deref(c) \in R /\ next[Deref(c)] \subseteq {Deref(c)}
  BY <1>3, <1>6, <1>10
<1>. QED
  BY <1>4, <1>7, <1>8, <1>11 DEF IsEnd

LEMMA AtHandIs ==
  ASSUME StoreOK(heap, trail), cn \in Pointable(heap),
         NEW hk, NEW tk, FenceOK(heap, trail, hk, tk), hk < cn
  PROVE  /\ \A d \in AtHand : d \in Pointable(heap) /\ IsEnd(heap, d) /\ hk < d
         /\ \A d \in Args : d \in Pointable(heap) /\ hk < d
<1> DEFINE X == {d \in Pointable(heap) : hk < d}
<1>1. HeapOK(heap) /\ NoRing(heap)
  BY DEF StoreOK
<1>2. Len(heap) \in Nat /\ \A d \in 1 .. Len(heap) : d \in Nat
  BY <1>1, CellAt
<1>3. hk \in Nat
  BY <1>2 DEF FenceOK
<1>4. X \in SUBSET (1 .. Len(heap)) /\ cn \in X
  BY DEF Pointable
<1>5. \A d \in X : heap[d].tag = "REF" => heap[d].ref \in X
  <2> SUFFICES ASSUME NEW d \in X, heap[d].tag = "REF" PROVE heap[d].ref \in X
    OBVIOUS
  <2>1. d \in 1 .. Len(heap) /\ ~(d <= hk)
    BY <1>2, <1>3, <1>4
  <2>2. heap[d].ref \in Pointable(heap)
    BY <1>1, <2>1 DEF HeapOK, IsAtomCell, IsFunctorCell, IsRefCell, IsStrCell, Atom
  <2>3. ~(heap[d].ref <= hk)
    BY <2>1 DEF FenceOK
  <2>4. hk < heap[d].ref
    BY <1>2, <1>3, <2>2, <2>3 DEF Pointable
  <2>. QED
    BY <2>2, <2>4
<1> HIDE DEF X
<1>6. \A c \in X : Deref(c) \in X /\ IsEnd(heap, Deref(c))
  BY <1>1, <1>4, <1>5, DerefIs
<1>7. \A d \in Args : d \in X
  <2> SUFFICES ASSUME NEW d \in Children(heap, Deref(cn)), d \in Pointable(heap) PROVE hk < d
    BY DEF Args, X
  <2>1. PICK e : e = Deref(cn)
    OBVIOUS
  <2>2. e \in X /\ IsEnd(heap, e) /\ e \in 1 .. Len(heap) /\ hk < e
    BY <1>4, <1>6, <2>1 DEF X
  <2>3. CASE heap[e].tag = "REF"
    BY <2>1, <2>2, <2>3 DEF Children, IsEnd
  <2>4. CASE heap[e].tag = "STR"
    <3>1. PICK p, a : p = heap[e].ptr /\ a = heap[p].arity
      OBVIOUS
    <3>2. hk < p
      BY <2>2, <2>4, <3>1 DEF FenceOK
    <3>3. p \in Nat /\ a \in Nat
      BY <1>1, <1>2, <2>2, <2>4, <3>1 DEF HeapOK, IsAtomCell, IsFunctorCell, IsRefCell, IsStrCell, Atom
    <3>4. d \in p .. p + a
      BY <2>1, <2>4, <3>1 DEF Children
    <3>. QED
      BY <1>3, <3>2, <3>3, <3>4
  <2>5. CASE heap[e].tag # "REF" /\ heap[e].tag # "STR"
    BY <2>1, <2>5 DEF Children
  <2>. QED
    BY <2>3, <2>4, <2>5
<1>8. \A d \in AtHand : d \in X /\ IsEnd(heap, d)
  BY <1>4, <1>6, <1>7 DEF AtHand
<1>. QED
  BY <1>7, <1>8 DEF X

(***************************************************************************)
(* Release is what the store lemmas call it.                               *)
(***************************************************************************)
LEMMA ReleasedIs ==
  ASSUME StoreOK(heap, trail), NEW hm, NEW tm, MarkOK(heap, trail, hm, tm)
  PROVE  Released(hm, tm) = Rel(heap, trail, hm, tm) /\ Least(tm, Len(trail)) = tm
<1>1. trail \in Seq(Nat) /\ Len(trail) \in Nat /\ tm \in 0 .. Len(trail)
  BY TrailAt DEF StoreOK, MarkOK, TrailOK
<1>2. PICK n, u : n = Len(trail) /\ u = SubSeq(trail, tm + 1, n)
  OBVIOUS
<1>3. u \in Seq(Nat) /\ Len(u) = n - tm /\ \A i \in 1 .. n - tm : u[i] = trail[tm + i]
  <2>1. \A i \in tm + 1 .. n : trail[i] \in Nat
    <3>1. \A i \in tm + 1 .. n : i \in 1 .. n
      BY <1>1, <1>2
    <3>. QED
      BY <1>1, <1>2, <3>1, ElementOfSeq
  <2>2. PICK m : m = tm + 1
    OBVIOUS
  <2>3. m \in Int /\ n \in Int /\ n - m + 1 = n - tm /\ \A i \in 1 .. n - tm : m + i - 1 = tm + i
    BY <1>1, <1>2, <2>2
  <2>4. /\ u \in Seq(Nat) /\ Len(u) = IF m <= n THEN n - m + 1 ELSE 0
        /\ \A i \in 1 .. n - m + 1 : u[i] = trail[m + i - 1]
    BY <1>2, <2>1, <2>2, <2>3, SubSeqProperties
  <2>5. (IF m <= n THEN n - m + 1 ELSE 0) = n - tm
    <3>1. n \in Nat /\ tm \in Nat /\ tm <= n
      BY <1>1, <1>2
    <3>. QED
      BY ONLY <2>2, <3>1
  <2>6. \A i \in 1 .. n - tm : u[i] = trail[tm + i]
    BY ONLY <2>3, <2>4
  <2>. QED
    BY ONLY <2>4, <2>5, <2>6
<1>4. \A c : c \in Range(u) <=> Undone(trail, tm, c)
  <2> TAKE c
  <2>1. c \in Range(u) <=> \E i \in 1 .. n - tm : u[i] = c
    BY <1>3, RangeEquality
  <2>2. ASSUME NEW i \in 1 .. n - tm, u[i] = c
        PROVE  \E j \in tm + 1 .. n : trail[j] = c
    <3>1. tm + i \in tm + 1 .. n /\ trail[tm + i] = c
      BY <1>1, <1>2, <1>3, <2>2
    <3>. QED
      BY <3>1
  <2>3. ASSUME NEW j \in tm + 1 .. n, trail[j] = c
        PROVE  \E i \in 1 .. n - tm : u[i] = c
    <3>1. j - tm \in 1 .. n - tm /\ tm + (j - tm) = j
      BY <1>1, <1>2
    <3>2. u[j - tm] = c
      BY <1>3, <2>3, <3>1
    <3>. QED
      BY <3>1, <3>2
  <2>. QED
    BY <1>2, <2>1, <2>2, <2>3 DEF Undone
<1>5. Released(hm, tm) = Rel(heap, trail, hm, tm)
  BY <1>2, <1>4 DEF Released, Rel
<1>6. Least(tm, Len(trail)) = tm
  BY <1>1 DEF Least
<1>. QED
  BY <1>5, <1>6

(***************************************************************************)
(* The stacks.  A level is a query that runs or waits, from 0 outwards in. *)
(***************************************************************************)
Canon == [cells : Seq(HeapCell), roots : Seq(Nat)]
FrameType == [goals : Nat, heap_mark : Nat, trail_mark : Nat, active_catch : Nat, was : Canon]
EntryType == [goals : Nat, heap_mark : Nat, trail_mark : Nat, sp_at_entry : Nat,
              outer_active_catch : Nat, was : Canon]
BaseType == [sp : Nat, heap : Nat, catch : Nat]
WaitType == [cn : Nat, answer : Nat, active_catch : Nat, base : BaseType,
             hmark : Nat, tmark : Nat, cmark : Nat, was : Canon]

Typed ==
  /\ cn \in Nat /\ answer \in Nat /\ active_catch \in Nat /\ old_top \in Nat
  /\ frames \in Seq(FrameType) /\ catches \in Seq(EntryType)
  /\ base \in BaseType /\ outer \in Seq(WaitType)

Levels == 0 .. Len(outer)
BaseAt(q) == IF q = Len(outer) THEN base ELSE outer[q + 1].base
TMark(q) == IF q = 0 THEN 0 ELSE outer[q].tmark
AnswerAt(q) == IF q = Len(outer) THEN answer ELSE outer[q + 1].answer

Rising(q, p) ==
  /\ BaseAt(q).sp <= BaseAt(p).sp /\ BaseAt(q).heap <= BaseAt(p).heap
  /\ BaseAt(q).catch <= BaseAt(p).catch /\ TMark(q) <= TMark(p)

BasesOK ==
  /\ BaseAt(0) = [sp |-> 0, heap |-> 0, catch |-> 0]
  /\ \A q \in 1 .. Len(outer) : BaseAt(q).heap = outer[q].hmark /\ BaseAt(q).catch = outer[q].cmark
  /\ \A q \in Levels : BaseAt(q).sp <= Len(frames) /\ BaseAt(q).catch <= Len(catches)
  /\ \A q, p \in Levels : q <= p => Rising(q, p)

\* Nothing crosses the base of a query.
FencesOK == \A q \in Levels : FenceOK(heap, trail, BaseAt(q).heap, TMark(q))

Earlier(a, b) == a.heap_mark <= b.heap_mark /\ a.trail_mark <= b.trail_mark

(***************************************************************************)
(* Choicepoints.  `used' are catch entries: at least those that somebody   *)
(* can still come back to.                                                 *)
(***************************************************************************)
FrameLinked(used, n) ==
  LET k == frames[n].active_catch
  IN  k # 0 => k \in used /\ Earlier(catches[k], frames[n]) /\ catches[k].sp_at_entry < n

FrameAfter(n) == \A m \in 1 .. n : Earlier(frames[m], frames[n])

\* A choicepoint of a waiting query is below the bases of the queries inside it
\* in everything, another above.
FrameFenced(n, q) ==
  LET f == frames[n]
  IN  IF n <= BaseAt(q).sp
      THEN /\ f.heap_mark <= BaseAt(q).heap /\ f.trail_mark <= TMark(q)
           /\ f.active_catch <= BaseAt(q).catch
      ELSE /\ BaseAt(q).heap <= f.heap_mark /\ TMark(q) <= f.trail_mark
           /\ BaseAt(q).heap < f.goals
           /\ f.active_catch # 0 => BaseAt(q).catch < f.active_catch

FrameOf(n, q) == BaseAt(q).sp < n /\ (q < Len(outer) => n <= BaseAt(q + 1).sp)

FrameSnap(n, q) ==
  LET f == frames[n]
  IN  SnapOK(heap, trail, f.heap_mark, f.trail_mark, f.goals, AnswerAt(q), f.was)

FramesOK(used) ==
  \A n \in 1 .. Len(frames) :
    /\ FrameLinked(used, n) /\ FrameAfter(n)
    /\ \A q \in Levels : FrameFenced(n, q)
    /\ \E q \in Levels : FrameOf(n, q) /\ FrameSnap(n, q)

(***************************************************************************)
(* Catch entries.                                                          *)
(***************************************************************************)
EntryLinked(used, i) ==
  LET k == catches[i].outer_active_catch
  IN  k # 0 => /\ k \in used /\ Earlier(catches[k], catches[i])
               /\ catches[k].sp_at_entry <= catches[i].sp_at_entry

EntryAfter(i) ==
  /\ catches[i].sp_at_entry <= Len(frames)
  /\ \A m \in 1 .. catches[i].sp_at_entry : Earlier(frames[m], catches[i])

EntryFenced(i, q) ==
  LET e == catches[i]
  IN  IF i <= BaseAt(q).catch
      THEN /\ e.heap_mark <= BaseAt(q).heap /\ e.trail_mark <= TMark(q)
           /\ e.sp_at_entry <= BaseAt(q).sp
      ELSE /\ BaseAt(q).heap <= e.heap_mark /\ TMark(q) <= e.trail_mark
           /\ BaseAt(q).sp <= e.sp_at_entry /\ BaseAt(q).heap < e.goals
           /\ e.outer_active_catch # 0 => BaseAt(q).catch < e.outer_active_catch

EntryOf(i, q) == BaseAt(q).catch < i /\ (q < Len(outer) => i <= BaseAt(q + 1).catch)

EntrySnap(i, q) ==
  LET e == catches[i]
  IN  SnapOK(heap, trail, e.heap_mark, e.trail_mark, e.goals, AnswerAt(q), e.was)

CatchesOK(used) ==
  /\ used \subseteq 1 .. Len(catches)
  /\ \A i \in 1 .. Len(catches) : catches[i].outer_active_catch < i
  /\ \A i \in used :
       /\ EntryLinked(used, i) /\ EntryAfter(i)
       /\ \A q \in Levels : EntryFenced(i, q)
       /\ \E q \in Levels : EntryOf(i, q) /\ EntrySnap(i, q)

(***************************************************************************)
(* Queries that wait, and the one that runs.                               *)
(***************************************************************************)
WaitLinked(used, q) ==
  LET k == outer[q].active_catch
  IN  k # 0 => k \in used /\ k <= outer[q].cmark /\ \A p \in 0 .. q - 1 : BaseAt(p).catch < k

WaitSnap(q) ==
  LET o == outer[q]
  IN  /\ SnapOK(heap, trail, o.hmark, o.tmark, o.cn, o.answer, o.was)
      /\ \A p \in 0 .. q - 1 : BaseAt(p).heap < o.cn

WaitingOK(used) == \A q \in 1 .. Len(outer) : WaitLinked(used, q) /\ WaitSnap(q)

RunningOK(used) ==
  /\ cn \in Pointable(heap) /\ answer \in Pointable(heap)
  /\ \A q \in Levels : BaseAt(q).heap < cn
  /\ active_catch # 0 => active_catch \in used /\ \A q \in Levels : BaseAt(q).catch < active_catch

StacksOK == FencesOK /\ BasesOK
  /\ \E used \in SUBSET (1 .. Len(catches)) :
       FramesOK(used) /\ CatchesOK(used) /\ WaitingOK(used) /\ RunningOK(used)

HeapInv == StoreOK(heap, trail) /\ PointUpByTrail(heap, trail, old_top) /\ Typed /\ StacksOK

(***************************************************************************)
(* What the stacks hold.                                                   *)
(***************************************************************************)
LEMMA TermsType ==
  ASSUME NEW h, HeapOK(h), NEW a \in 1 .. Len(h), NEW b \in 1 .. Len(h)
  PROVE  Terms(h, <<a, b>>) \in Canon
<1>1. PICK roots : roots = <<a, b>>
  OBVIOUS
<1>2. Len(roots) = 2 /\ roots[1] = a /\ roots[2] = b
  BY <1>1
<1> DEFINE S == {roots[i] : i \in 1 .. Len(roots)}
<1>3. S = {a, b}
  BY <1>2
<1> HIDE DEF S
<1>4. PICK A : A = Reach(h, S, {})
  OBVIOUS
<1>5. S \subseteq A /\ A \subseteq 1 .. Len(h) /\ \A c \in A : Children(h, c) \subseteq A
  <2>1. S \in SUBSET (1 .. Len(h))
    BY <1>3
  <2>. QED
    BY <1>4, <2>1, ReachIsLeast
<1>6. A \subseteq Int /\ IsFiniteSet(A)
  <2>1. PICK D : D = 1 .. Len(h)
    OBVIOUS
  <2>2. IsFiniteSet(D) /\ D \subseteq Int /\ A \in SUBSET D
    BY <1>5, <2>1, CellAt
  <2>3. IsFiniteSet(A)
    BY ONLY <2>2, FS_Subset
  <2>. QED
    BY <2>2, <2>3
<1> DEFINE num == [c \in A |-> NumBelow(A, c) + 1]
           shown == [c \in A |-> Repoint(h[c], num)]
<1>7. \A c \in A : num[c] \in Nat
  <2>1. Cardinality(A) \in Nat
    BY <1>6, FS_CardinalityType
  <2>2. ASSUME NEW c \in A
        PROVE  NumBelow(A, c) \in Nat
    <3>1. NumBelow(A, c) \in 0 .. Cardinality(A)
      BY <1>6, BelowType
    <3>. QED
      BY <2>1, <3>1
  <2>. QED
    BY <2>2
<1>8. Terms(h, roots) = [cells |-> Selected(shown, A), roots |-> [i \in 1 .. Len(roots) |-> num[roots[i]]]]
  BY <1>4 DEF Terms, S
<1>9. \A c \in A : shown[c] \in HeapCell
  <2> SUFFICES ASSUME NEW c \in A PROVE Repoint(h[c], num) \in HeapCell
    OBVIOUS
  <2> HIDE DEF num
  <2>1. c \in 1 .. Len(h) /\ Children(h, c) \subseteq A /\ h[c] \in HeapCell
    BY <1>5, CellAt
  <2>2. CASE IsAtomCell(h, c) \/ IsFunctorCell(h, c)
    BY <2>1, <2>2 DEF IsAtomCell, IsFunctorCell, Atom, Functor, Repoint
  <2>3. CASE IsRefCell(h, c)
    <3>1. h[c].tag = "REF" /\ h[c].ref \in A
      BY <2>1, <2>3 DEF IsRefCell, Children
    <3>. QED
      BY <1>7, <3>1 DEF Repoint, Ref, HeapCell
  <2>4. CASE IsStrCell(h, c)
    <3>1. h[c].tag = "STR" /\ h[c].ptr \in A
      BY <2>1, <2>4, ChildrenIn DEF IsStrCell
    <3>. QED
      BY <1>7, <3>1 DEF Repoint, Str, HeapCell
  <2>. QED
    BY <2>1, <2>2, <2>3, <2>4 DEF HeapOK
<1> HIDE DEF num, shown
<1>10. PICK s : s = shown
  OBVIOUS
<1>11. Selected(s, A) \in Seq(HeapCell)
  BY <1>6, <1>9, <1>10, SelectedSeq
<1>12. [i \in 1 .. 2 |-> num[roots[i]]] \in Seq(Nat)
  <2>1. \A i \in 1 .. 2 : num[roots[i]] \in Nat
    BY <1>2, <1>3, <1>5, <1>7
  <2>. QED
    BY <2>1
<1>13. PICK x, y : x = Selected(s, A) /\ y = [i \in 1 .. 2 |-> num[roots[i]]]
  OBVIOUS
<1>14. Terms(h, <<a, b>>) = [cells |-> x, roots |-> y]
  BY <1>1, <1>2, <1>8, <1>10, <1>13
<1>15. x \in Seq(HeapCell)
  BY ONLY <1>11, <1>13
<1>16. y \in Seq(Nat)
  BY ONLY <1>12, <1>13
<1>. QED
  BY ONLY <1>14, <1>15, <1>16 DEF Canon

LEMMA StackAt ==
  ASSUME Typed
  PROVE  /\ Len(frames) \in Nat /\ Len(catches) \in Nat /\ Len(outer) \in Nat
         /\ \A n \in 1 .. Len(frames) :
              n \in Nat /\ frames[n] \in FrameType /\ frames[n].goals \in Nat /\ frames[n].heap_mark \in Nat
              /\ frames[n].trail_mark \in Nat /\ frames[n].active_catch \in Nat
         /\ \A i \in 1 .. Len(catches) :
              i \in Nat /\ catches[i] \in EntryType /\ catches[i].goals \in Nat /\ catches[i].heap_mark \in Nat
              /\ catches[i].trail_mark \in Nat /\ catches[i].sp_at_entry \in Nat
              /\ catches[i].outer_active_catch \in Nat
         /\ \A q \in 1 .. Len(outer) :
              q \in Nat /\ outer[q] \in WaitType /\ outer[q].cn \in Nat /\ outer[q].answer \in Nat
              /\ outer[q].active_catch \in Nat
              /\ outer[q].base \in BaseType /\ outer[q].hmark \in Nat /\ outer[q].tmark \in Nat
              /\ outer[q].cmark \in Nat
<1>1. /\ frames \in Seq(FrameType) /\ catches \in Seq(EntryType) /\ outer \in Seq(WaitType)
  BY DEF Typed
<1>2. Len(frames) \in Nat /\ Len(catches) \in Nat /\ Len(outer) \in Nat
  BY <1>1, LenProperties
<1>3. /\ \A n \in 1 .. Len(frames) : n \in Nat /\ frames[n] \in FrameType
      /\ \A i \in 1 .. Len(catches) : i \in Nat /\ catches[i] \in EntryType
      /\ \A q \in 1 .. Len(outer) : q \in Nat /\ outer[q] \in WaitType
  BY <1>1, <1>2, ElementOfSeq
<1>4. \A f \in FrameType : f.goals \in Nat /\ f.heap_mark \in Nat /\ f.trail_mark \in Nat /\ f.active_catch \in Nat
  BY DEF FrameType
<1>5. \A e \in EntryType : /\ e.goals \in Nat /\ e.heap_mark \in Nat /\ e.trail_mark \in Nat
                           /\ e.sp_at_entry \in Nat /\ e.outer_active_catch \in Nat
  BY DEF EntryType
<1>6. \A o \in WaitType : /\ o.cn \in Nat /\ o.answer \in Nat /\ o.active_catch \in Nat /\ o.base \in BaseType
                          /\ o.hmark \in Nat /\ o.tmark \in Nat /\ o.cmark \in Nat
  BY DEF WaitType
<1>. QED
  BY <1>2, <1>3, <1>4, <1>5, <1>6

LEMMA LevelAt ==
  ASSUME Typed
  PROVE  /\ Len(outer) \in Levels /\ 0 \in Levels /\ BaseAt(Len(outer)) = base /\ AnswerAt(Len(outer)) = answer
         /\ \A q \in Levels : q \in Nat /\ BaseAt(q) \in BaseType /\ TMark(q) \in Nat /\ AnswerAt(q) \in Nat
         /\ \A q \in Levels : BaseAt(q).sp \in Nat /\ BaseAt(q).heap \in Nat /\ BaseAt(q).catch \in Nat
<1>1. Len(outer) \in Nat
  BY StackAt
<1>2. \A q \in Levels : q \in Nat /\ (q # Len(outer) => q + 1 \in 1 .. Len(outer)) /\ (q # 0 => q \in 1 .. Len(outer))
  BY <1>1 DEF Levels
<1>3. \A q \in Levels : BaseAt(q) \in BaseType /\ TMark(q) \in Nat /\ AnswerAt(q) \in Nat
  BY <1>2, StackAt DEF BaseAt, TMark, AnswerAt, Typed
<1>4. \A b \in BaseType : b.sp \in Nat /\ b.heap \in Nat /\ b.catch \in Nat
  BY DEF BaseType
<1>. QED
  BY <1>1, <1>2, <1>3, <1>4 DEF Levels, BaseAt, AnswerAt

(***************************************************************************)
(* What is left of the stacks after a release.                             *)
(***************************************************************************)
Invs(used) ==
  /\ StoreOK(heap, trail) /\ Typed /\ BasesOK /\ FencesOK
  /\ FramesOK(used) /\ CatchesOK(used) /\ WaitingOK(used)

\* The first n choicepoints and c catch entries stay, and the queries up to
\* level k, when heap and trail are released to a mark.
CutsTo(hm, tm, n, c, k) ==
  /\ Resets(heap, trail, hm, tm, heap', trail')
  /\ n \in 0 .. Len(frames) /\ frames' = SubSeq(frames, 1, n)
  /\ c \in 0 .. Len(catches) /\ catches' = SubSeq(catches, 1, c)
  /\ k \in Levels /\ outer' = SubSeq(outer, 1, k) /\ base' = BaseAt(k) /\ answer' = AnswerAt(k)
  /\ BaseAt(k).heap <= hm /\ TMark(k) <= tm /\ BaseAt(k).sp <= n /\ BaseAt(k).catch <= c
  /\ k < Len(outer) => n <= BaseAt(k + 1).sp /\ c <= BaseAt(k + 1).catch
  /\ \A m \in 1 .. n : /\ frames[m].heap_mark <= hm /\ frames[m].trail_mark <= tm
                       /\ frames[m].active_catch <= c

StillUsed(used, hm, tm, n, c) ==
  {i \in used : /\ i <= c /\ catches[i].heap_mark <= hm /\ catches[i].trail_mark <= tm
                /\ catches[i].sp_at_entry <= n}

LEMMA CutsTyped ==
  ASSUME Typed, NEW hm, NEW tm, NEW n, NEW c, NEW k, CutsTo(hm, tm, n, c, k)
  PROVE  /\ n \in Nat /\ c \in Nat /\ k \in Nat /\ k \in Levels
         /\ Len(frames') = n /\ frames' \in Seq(FrameType)
         /\ Len(catches') = c /\ catches' \in Seq(EntryType)
         /\ Len(outer') = k /\ outer' \in Seq(WaitType) /\ base' \in BaseType /\ answer' \in Nat
         /\ \A m \in 1 .. n : m \in 1 .. Len(frames) /\ frames'[m] = frames[m]
         /\ \A i \in 1 .. c : i \in 1 .. Len(catches) /\ catches'[i] = catches[i]
         /\ \A q \in 1 .. k : q \in 1 .. Len(outer) /\ outer'[q] = outer[q]
<1>1. /\ frames \in Seq(FrameType) /\ catches \in Seq(EntryType) /\ outer \in Seq(WaitType)
      /\ Len(frames) \in Nat /\ Len(catches) \in Nat /\ Len(outer) \in Nat
  BY StackAt DEF Typed
<1>2. n \in 0 .. Len(frames) /\ frames' = SubSeq(frames, 1, n)
  BY DEF CutsTo
<1>3. c \in 0 .. Len(catches) /\ catches' = SubSeq(catches, 1, c)
  BY DEF CutsTo
<1>4. k \in 0 .. Len(outer) /\ k \in Levels /\ outer' = SubSeq(outer, 1, k)
  BY DEF CutsTo, Levels
<1>5. frames' \in Seq(FrameType) /\ Len(frames') = n /\ \A m \in 1 .. n : frames'[m] = frames[m]
  BY <1>1, <1>2, PrefixSeq
<1>6. catches' \in Seq(EntryType) /\ Len(catches') = c /\ \A i \in 1 .. c : catches'[i] = catches[i]
  BY <1>1, <1>3, PrefixSeq
<1>7. outer' \in Seq(WaitType) /\ Len(outer') = k /\ \A q \in 1 .. k : outer'[q] = outer[q]
  BY <1>1, <1>4, PrefixSeq
<1>8. base' \in BaseType /\ answer' \in Nat
  BY <1>4, LevelAt DEF CutsTo
<1>9. /\ n \in Nat /\ c \in Nat /\ k \in Nat
      /\ \A m \in 1 .. n : m \in 1 .. Len(frames)
      /\ \A i \in 1 .. c : i \in 1 .. Len(catches)
      /\ \A q \in 1 .. k : q \in 1 .. Len(outer)
  BY <1>1, <1>2, <1>3, <1>4
<1>. QED
  BY <1>4, <1>5, <1>6, <1>7, <1>8, <1>9

LEMMA CutsLevels ==
  ASSUME Typed, NEW hm, NEW tm, NEW n, NEW c, NEW k, CutsTo(hm, tm, n, c, k)
  PROVE  /\ Levels' = 0 .. k /\ \A q \in 0 .. k : q \in Levels
         /\ \A q \in 0 .. k : BaseAt(q)' = BaseAt(q) /\ TMark(q)' = TMark(q) /\ AnswerAt(q)' = AnswerAt(q)
<1>1. k \in Nat /\ k \in 0 .. Len(outer) /\ Len(outer) \in Nat
  BY CutsTyped, StackAt DEF Levels
<1>2. Len(outer') = k /\ base' = BaseAt(k) /\ answer' = AnswerAt(k) /\ \A q \in 1 .. k : outer'[q] = outer[q]
  <2>1. base' = BaseAt(k) /\ answer' = AnswerAt(k)
    BY DEF CutsTo
  <2>. QED
    BY <2>1, CutsTyped
<1>3. Levels' = 0 .. k /\ \A q \in 0 .. k : q \in Levels
  BY <1>1, <1>2 DEF Levels
<1>4. ASSUME NEW q \in 0 .. k
      PROVE  BaseAt(q)' = BaseAt(q) /\ TMark(q)' = TMark(q) /\ AnswerAt(q)' = AnswerAt(q)
  <2>1. TMark(q)' = TMark(q)
    <3>1. q # 0 => q \in 1 .. k
      BY <1>1
    <3>. QED
      BY <1>2, <3>1 DEF TMark
  <2>2. CASE q = k
    <3>1. BaseAt(q)' = base' /\ AnswerAt(q)' = answer'
      BY <1>2, <2>2 DEF BaseAt, AnswerAt
    <3>. QED
      BY <1>2, <2>1, <2>2, <3>1
  <2>3. CASE q # k
    <3>1. q + 1 \in 1 .. k /\ q # Len(outer)
      BY <1>1, <2>3
    <3>2. outer'[q + 1] = outer[q + 1]
      BY <1>2, <3>1
    <3>3. BaseAt(q)' = outer[q + 1].base /\ AnswerAt(q)' = outer[q + 1].answer
      BY <1>2, <2>3, <3>2 DEF BaseAt, AnswerAt
    <3>4. BaseAt(q) = outer[q + 1].base /\ AnswerAt(q) = outer[q + 1].answer
      BY <3>1 DEF BaseAt, AnswerAt
    <3>. QED
      BY <2>1, <3>3, <3>4
  <2>. QED
    BY <2>2, <2>3
<1>. QED
  BY <1>3, <1>4

\* A level is not deeper than another of which it has a part.
LEMMA CutsOwn ==
  ASSUME Typed, BasesOK, NEW hm, NEW tm, NEW n, NEW c, NEW k, CutsTo(hm, tm, n, c, k), NEW q \in Levels
  PROVE  /\ \A m \in 1 .. n : FrameOf(m, q) => q \in 0 .. k /\ FrameOf(m, q)'
         /\ \A i \in 1 .. c : EntryOf(i, q) => q \in 0 .. k /\ EntryOf(i, q)'
<1>1. /\ k \in Nat /\ n \in Nat /\ c \in Nat /\ q \in Nat /\ q \in 0 .. Len(outer) /\ Len(outer) \in Nat
      /\ k \in 0 .. Len(outer) /\ Len(outer') = k
  BY CutsTyped, LevelAt, StackAt DEF Levels
<1>2. CASE q > k
  <2>1. k < Len(outer) /\ k + 1 \in Levels /\ k + 1 <= q
    BY <1>1, <1>2 DEF Levels
  <2>2. PICK a, b, d, e : a = BaseAt(k + 1).sp /\ b = BaseAt(k + 1).catch /\ d = BaseAt(q).sp /\ e = BaseAt(q).catch
    OBVIOUS
  <2>3. n <= a /\ c <= b
    BY <2>1, <2>2 DEF CutsTo
  <2>4. a <= d /\ b <= e
    BY <2>1, <2>2 DEF BasesOK, Rising
  <2>5. a \in Nat /\ b \in Nat /\ d \in Nat /\ e \in Nat
    BY <2>1, <2>2, LevelAt
  <2>6. \A m \in 1 .. n : ~(d < m)
    BY ONLY <1>1, <2>3, <2>4, <2>5
  <2>7. \A i \in 1 .. c : ~(e < i)
    BY ONLY <1>1, <2>3, <2>4, <2>5
  <2>. QED
    BY <2>2, <2>6, <2>7 DEF FrameOf, EntryOf
<1>3. CASE q <= k
  <2>1. q \in 0 .. k
    BY <1>1, <1>3
  <2>2. BaseAt(q)' = BaseAt(q)
    BY <2>1, CutsLevels
  <2>3. q < k => q < Len(outer) /\ BaseAt(q + 1)' = BaseAt(q + 1)
    <3>1. q < k => q < Len(outer) /\ q + 1 \in 0 .. k
      BY <1>1
    <3>. QED
      BY <3>1, CutsLevels
  <2>. QED
    BY <1>1, <2>1, <2>2, <2>3 DEF FrameOf, EntryOf
<1>. QED
  BY <1>1, <1>2, <1>3

LEMMA CutsSnap ==
  ASSUME Typed, StoreOK(heap, trail), NEW hm, NEW tm, NEW n, NEW c, NEW k, CutsTo(hm, tm, n, c, k),
         NEW h1, NEW t1, NEW goals, NEW ans, NEW was, SnapOK(heap, trail, h1, t1, goals, ans, was),
         h1 <= hm, t1 <= tm
  PROVE  SnapOK(heap', trail', h1, t1, goals, ans, was)
<1>1. Resets(heap, trail, hm, tm, heap', trail') /\ MarkOK(heap, trail, h1, t1)
  BY DEF CutsTo, SnapOK
<1>2. PICK h, tr, r, t : h = heap /\ tr = trail /\ r = heap' /\ t = trail'
  OBVIOUS
<1>3. Resets(h, tr, hm, tm, r, t) /\ MarkOK(h, tr, h1, t1)
  BY <1>1, <1>2
<1>4. MarkOK(r, t, h1, t1) /\ Rel(r, t, h1, t1) = Rel(h, tr, h1, t1)
  BY <1>3, ReleaseMark
<1>5. SnapOK(h, tr, h1, t1, goals, ans, was)
  BY <1>2
<1>. QED
  BY <1>2, <1>4, <1>5, SnapKept

LEMMA CutsBases ==
  ASSUME Typed, StoreOK(heap, trail), BasesOK, FencesOK,
         NEW hm, NEW tm, NEW n, NEW c, NEW k, CutsTo(hm, tm, n, c, k)
  PROVE  StoreOK(heap', trail') /\ BasesOK' /\ FencesOK'
<1>1. Resets(heap, trail, hm, tm, heap', trail') /\ MarkOK(heap, trail, hm, tm)
  BY DEF CutsTo, Resets
<1>2. StoreOK(heap', trail')
  BY <1>1, ReleaseStore
<1>3. /\ Levels' = 0 .. k /\ \A q \in 0 .. k : q \in Levels
      /\ \A q \in 0 .. k : BaseAt(q)' = BaseAt(q) /\ TMark(q)' = TMark(q)
      /\ k \in Nat /\ k \in Levels /\ n \in Nat /\ c \in Nat
      /\ Len(outer') = k /\ Len(frames') = n /\ Len(catches') = c
      /\ \A q \in 1 .. k : q \in 1 .. Len(outer) /\ outer'[q] = outer[q]
  BY CutsLevels, CutsTyped
<1>4. \A q \in 0 .. k : Rising(q, k)
  <2>1. \A q \in 0 .. k : q <= k
    BY <1>3
  <2>. QED
    BY <1>3, <2>1 DEF BasesOK
<1>5. hm \in Nat /\ tm \in Nat
  <2>1. hm \in Nat
    BY <1>1, RelHeap
  <2>2. Len(trail) \in Nat
    BY TrailAt DEF StoreOK
  <2>. QED
    BY <1>1, <2>1, <2>2 DEF MarkOK
<1>6. ASSUME NEW q \in 0 .. k
      PROVE  /\ BaseAt(q).sp <= n /\ BaseAt(q).catch <= c /\ BaseAt(q).heap <= hm /\ TMark(q) <= tm
  <2>1. PICK a, b, d, e : a = BaseAt(q).sp /\ b = BaseAt(q).catch /\ d = BaseAt(q).heap /\ e = TMark(q)
    OBVIOUS
  <2>2. PICK a1, b1, d1, e1 : a1 = BaseAt(k).sp /\ b1 = BaseAt(k).catch /\ d1 = BaseAt(k).heap /\ e1 = TMark(k)
    OBVIOUS
  <2>3. /\ a \in Nat /\ b \in Nat /\ d \in Nat /\ e \in Nat
        /\ a1 \in Nat /\ b1 \in Nat /\ d1 \in Nat /\ e1 \in Nat
    BY <1>3, <2>1, <2>2, LevelAt
  <2>4. a <= a1 /\ b <= b1 /\ d <= d1 /\ e <= e1
    BY <1>4, <2>1, <2>2 DEF Rising
  <2>5. a1 <= n /\ b1 <= c /\ d1 <= hm /\ e1 <= tm
    BY <2>2 DEF CutsTo
  <2>6. a <= n /\ b <= c /\ d <= hm /\ e <= tm
    BY ONLY <1>3, <1>5, <2>3, <2>4, <2>5
  <2>. QED
    BY <2>1, <2>6
<1>7. BasesOK'
  <2>1. (BaseAt(0) = [sp |-> 0, heap |-> 0, catch |-> 0])'
    <3>1. 0 \in 0 .. k
      BY <1>3
    <3>. QED
      BY <1>3, <3>1 DEF BasesOK
  <2>2. \A q \in 1 .. k : BaseAt(q)'.heap = outer'[q].hmark /\ BaseAt(q)'.catch = outer'[q].cmark
    <3>1. \A q \in 1 .. k : q \in 0 .. k
      BY <1>3
    <3>. QED
      BY <1>3, <3>1 DEF BasesOK
  <2>3. \A q \in 0 .. k : BaseAt(q)'.sp <= n /\ BaseAt(q)'.catch <= c
    BY <1>3, <1>6
  <2>4. \A q, p \in 0 .. k : q <= p => Rising(q, p)'
    BY <1>3 DEF BasesOK, Rising
  <2>. QED
    BY <1>3, <2>1, <2>2, <2>3, <2>4 DEF BasesOK
<1>8. FencesOK'
  <2>1. \A q \in 0 .. k : FenceOK(heap', trail', BaseAt(q).heap, TMark(q))
    <3> TAKE q \in 0 .. k
    <3>1. PICK d, e : d = BaseAt(q).heap /\ e = TMark(q)
      OBVIOUS
    <3>2. FenceOK(heap, trail, d, e) /\ d <= hm /\ e <= tm
      BY <1>3, <1>6, <3>1 DEF FencesOK
    <3>3. FenceOK(heap', trail', d, e)
      BY <1>1, <3>2, ReleaseFence
    <3>. QED
      BY <3>1, <3>3
  <2>2. \A q \in 0 .. k : FenceOK(heap', trail', BaseAt(q)'.heap, TMark(q)')
    BY <1>3, <2>1
  <2>. QED
    BY <1>3, <2>2 DEF FencesOK
<1>. QED
  BY <1>2, <1>7, <1>8

LEMMA CutsFrames ==
  ASSUME NEW used, Invs(used), NEW hm, NEW tm, NEW n, NEW c, NEW k, CutsTo(hm, tm, n, c, k),
         NEW kept, kept = StillUsed(used, hm, tm, n, c)
  PROVE  FramesOK(kept)'
<1>1. /\ StoreOK(heap, trail) /\ Typed /\ BasesOK /\ FramesOK(used) /\ CatchesOK(used)
  BY DEF Invs
<1>2. /\ n \in Nat /\ c \in Nat /\ k \in Nat /\ Len(frames') = n
      /\ \A m \in 1 .. n : m \in 1 .. Len(frames) /\ frames'[m] = frames[m]
      /\ \A i \in 1 .. c : i \in 1 .. Len(catches) /\ catches'[i] = catches[i]
  BY <1>1, CutsTyped
<1>3. /\ Levels' = 0 .. k /\ \A q \in 0 .. k : q \in Levels
      /\ \A q \in 0 .. k : BaseAt(q)' = BaseAt(q) /\ TMark(q)' = TMark(q) /\ AnswerAt(q)' = AnswerAt(q)
  BY <1>1, CutsLevels
<1>4. hm \in Nat /\ tm \in Nat
  <2>1. MarkOK(heap, trail, hm, tm) /\ TrailOK(heap, trail) /\ HeapOK(heap)
    BY <1>1 DEF CutsTo, Resets, StoreOK
  <2>. QED
    BY <1>1, <2>1, RelHeap, TrailAt DEF MarkOK
<1>5. ASSUME NEW m \in 1 .. n
      PROVE  /\ FrameLinked(kept, m)' /\ FrameAfter(m)'
             /\ \A q \in Levels' : FrameFenced(m, q)'
             /\ \E q \in Levels' : FrameOf(m, q)' /\ FrameSnap(m, q)'
  <2>1. m \in 1 .. Len(frames) /\ frames'[m] = frames[m] /\ m \in Nat /\ m <= n
    BY <1>2
  <2>2. /\ FrameLinked(used, m) /\ FrameAfter(m) /\ \A q \in Levels : FrameFenced(m, q)
    BY <1>1, <2>1 DEF FramesOK
  <2>3. /\ frames[m].heap_mark <= hm /\ frames[m].trail_mark <= tm /\ frames[m].active_catch <= c
    BY DEF CutsTo
  <2>4. FrameLinked(kept, m)'
    <3>1. PICK i : i = frames[m].active_catch
      OBVIOUS
    <3> SUFFICES ASSUME i # 0
                 PROVE  i \in kept /\ Earlier(catches'[i], frames'[m]) /\ catches'[i].sp_at_entry < m
      BY <2>1, <3>1 DEF FrameLinked
    <3>2. i \in used /\ Earlier(catches[i], frames[m]) /\ catches[i].sp_at_entry < m
      BY <2>2, <3>1 DEF FrameLinked
    <3>3. i \in 1 .. Len(catches)
      BY <1>1, <3>2 DEF CatchesOK
    <3>4. i <= c /\ i \in 1 .. c
      <4>1. i \in Nat
        BY <1>1, <3>3, StackAt
      <4>. QED
        BY <1>2, <2>3, <3>1, <4>1
    <3>5. PICK a, b, d, a1, b1 : /\ a = catches[i].heap_mark /\ b = catches[i].trail_mark
                                 /\ d = catches[i].sp_at_entry
                                 /\ a1 = frames[m].heap_mark /\ b1 = frames[m].trail_mark
      OBVIOUS
    <3>6. a \in Nat /\ b \in Nat /\ d \in Nat /\ a1 \in Nat /\ b1 \in Nat
      BY <1>1, <2>1, <3>3, <3>5, StackAt
    <3>7. a <= a1 /\ b <= b1 /\ a1 <= hm /\ b1 <= tm /\ d < m
      BY <2>3, <3>2, <3>5 DEF Earlier
    <3>8. a <= hm /\ b <= tm /\ d <= n
      BY ONLY <1>2, <1>4, <2>1, <3>6, <3>7
    <3>9. i \in kept
      BY <3>2, <3>4, <3>5, <3>8 DEF StillUsed
    <3>. QED
      BY <1>2, <2>1, <3>2, <3>4, <3>9
  <2>5. FrameAfter(m)'
    <3>1. \A j \in 1 .. m : j \in 1 .. n
      BY <1>2, <2>1
    <3>. QED
      BY <1>2, <2>1, <2>2, <3>1 DEF FrameAfter
  <2>6. \A q \in 0 .. k : FrameFenced(m, q)'
    BY <1>3, <2>1, <2>2 DEF FrameFenced
  <2>7. PICK q \in Levels : FrameOf(m, q) /\ FrameSnap(m, q)
    BY <1>1, <2>1 DEF FramesOK
  <2>8. q \in 0 .. k /\ FrameOf(m, q)'
    BY <1>1, <2>7, CutsOwn
  <2>9. FrameSnap(m, q)'
    <3>1. PICK f, a : f = frames[m] /\ a = AnswerAt(q)
      OBVIOUS
    <3>2. SnapOK(heap, trail, f.heap_mark, f.trail_mark, f.goals, a, f.was)
      BY <2>7, <3>1 DEF FrameSnap
    <3>3. SnapOK(heap', trail', f.heap_mark, f.trail_mark, f.goals, a, f.was)
      BY <1>1, <2>3, <3>1, <3>2, CutsSnap
    <3>4. f = frames'[m] /\ a = AnswerAt(q)'
      BY <1>3, <2>1, <2>8, <3>1
    <3>. QED
      BY <3>3, <3>4 DEF FrameSnap
  <2>. QED
    BY <1>3, <2>4, <2>5, <2>6, <2>8, <2>9
<1>. QED
  BY <1>2, <1>5 DEF FramesOK

LEMMA CutsEntries ==
  ASSUME NEW used, Invs(used), NEW hm, NEW tm, NEW n, NEW c, NEW k, CutsTo(hm, tm, n, c, k),
         NEW kept, kept = StillUsed(used, hm, tm, n, c)
  PROVE  CatchesOK(kept)'
<1>1. /\ StoreOK(heap, trail) /\ Typed /\ BasesOK /\ CatchesOK(used)
  BY DEF Invs
<1>2. /\ n \in Nat /\ c \in Nat /\ k \in Nat /\ Len(frames') = n /\ Len(catches') = c
      /\ \A m \in 1 .. n : m \in 1 .. Len(frames) /\ frames'[m] = frames[m]
      /\ \A i \in 1 .. c : i \in 1 .. Len(catches) /\ catches'[i] = catches[i]
  BY <1>1, CutsTyped
<1>3. /\ Levels' = 0 .. k /\ \A q \in 0 .. k : q \in Levels
      /\ \A q \in 0 .. k : BaseAt(q)' = BaseAt(q) /\ TMark(q)' = TMark(q) /\ AnswerAt(q)' = AnswerAt(q)
  BY <1>1, CutsLevels
<1>4. hm \in Nat /\ tm \in Nat
  <2>1. MarkOK(heap, trail, hm, tm) /\ TrailOK(heap, trail) /\ HeapOK(heap)
    BY <1>1 DEF CutsTo, Resets, StoreOK
  <2>. QED
    BY <1>1, <2>1, RelHeap, TrailAt DEF MarkOK
<1>5. \A i \in kept : /\ i \in used /\ i \in 1 .. Len(catches) /\ i \in 1 .. c
                      /\ catches[i].heap_mark <= hm /\ catches[i].trail_mark <= tm
                      /\ catches[i].sp_at_entry <= n
  <2>1. \A i \in used : i \in 1 .. Len(catches) /\ i \in Nat
    BY <1>1, StackAt DEF CatchesOK
  <2>. QED
    BY <1>2, <2>1 DEF StillUsed
<1>6. ASSUME NEW i \in kept
      PROVE  /\ EntryLinked(kept, i)' /\ EntryAfter(i)'
             /\ \A q \in Levels' : EntryFenced(i, q)'
             /\ \E q \in Levels' : EntryOf(i, q)' /\ EntrySnap(i, q)'
  <2>1. i \in used /\ i \in 1 .. Len(catches) /\ i \in 1 .. c /\ catches'[i] = catches[i] /\ i \in Nat
    BY <1>2, <1>5
  <2>2. EntryLinked(used, i) /\ EntryAfter(i) /\ \A q \in Levels : EntryFenced(i, q)
    BY <1>1, <2>1 DEF CatchesOK
  <2>3. EntryLinked(kept, i)'
    <3>1. PICK j : j = catches[i].outer_active_catch
      OBVIOUS
    <3> SUFFICES ASSUME j # 0
                 PROVE  /\ j \in kept /\ Earlier(catches'[j], catches'[i])
                        /\ catches'[j].sp_at_entry <= catches'[i].sp_at_entry
      BY <2>1, <3>1 DEF EntryLinked
    <3>2. j \in used /\ Earlier(catches[j], catches[i]) /\ catches[j].sp_at_entry <= catches[i].sp_at_entry
      BY <2>2, <3>1 DEF EntryLinked
    <3>3. j \in 1 .. Len(catches) /\ j < i
      BY <1>1, <2>1, <3>1, <3>2 DEF CatchesOK
    <3>4. j <= c /\ j \in 1 .. c
      <4>1. j \in Nat /\ j >= 1
        BY <1>1, <3>3, StackAt
      <4>. QED
        BY <1>2, <2>1, <3>3, <4>1
    <3>5. PICK a, b, d, a1, b1, d1 :
            /\ a = catches[j].heap_mark /\ b = catches[j].trail_mark /\ d = catches[j].sp_at_entry
            /\ a1 = catches[i].heap_mark /\ b1 = catches[i].trail_mark /\ d1 = catches[i].sp_at_entry
      OBVIOUS
    <3>6. a \in Nat /\ b \in Nat /\ d \in Nat /\ a1 \in Nat /\ b1 \in Nat /\ d1 \in Nat
      BY <1>1, <2>1, <3>3, <3>5, StackAt
    <3>7. a <= a1 /\ b <= b1 /\ a1 <= hm /\ b1 <= tm /\ d <= d1 /\ d1 <= n
      BY <1>5, <3>2, <3>5 DEF Earlier
    <3>8. a <= hm /\ b <= tm /\ d <= n
      BY ONLY <1>2, <1>4, <3>6, <3>7
    <3>9. j \in kept
      BY <3>2, <3>4, <3>5, <3>8 DEF StillUsed
    <3>. QED
      BY <1>2, <2>1, <3>2, <3>4, <3>9
  <2>4. EntryAfter(i)'
    <3>1. catches[i].sp_at_entry <= n /\ catches[i].sp_at_entry \in Nat
      BY <1>1, <1>5, <2>1, StackAt
    <3>2. \A m \in 1 .. catches[i].sp_at_entry : m \in 1 .. n
      BY <1>2, <3>1
    <3>. QED
      BY <1>2, <2>1, <2>2, <3>1, <3>2 DEF EntryAfter
  <2>5. \A q \in 0 .. k : EntryFenced(i, q)'
    BY <1>3, <2>1, <2>2 DEF EntryFenced
  <2>6. PICK q \in Levels : EntryOf(i, q) /\ EntrySnap(i, q)
    BY <1>1, <2>1 DEF CatchesOK
  <2>7. q \in 0 .. k /\ EntryOf(i, q)'
    BY <1>1, <2>1, <2>6, CutsOwn
  <2>8. EntrySnap(i, q)'
    <3>1. PICK e, a : e = catches[i] /\ a = AnswerAt(q)
      OBVIOUS
    <3>2. SnapOK(heap, trail, e.heap_mark, e.trail_mark, e.goals, a, e.was)
      BY <2>6, <3>1 DEF EntrySnap
    <3>3. SnapOK(heap', trail', e.heap_mark, e.trail_mark, e.goals, a, e.was)
      BY <1>1, <1>5, <3>1, <3>2, CutsSnap
    <3>4. e = catches'[i] /\ a = AnswerAt(q)'
      BY <1>3, <2>1, <2>7, <3>1
    <3>. QED
      BY <3>3, <3>4 DEF EntrySnap
  <2>. QED
    BY <1>3, <2>3, <2>4, <2>5, <2>7, <2>8
<1>7. kept \subseteq 1 .. c
  BY <1>5
<1>8. \A i \in 1 .. c : catches'[i].outer_active_catch < i
  BY <1>1, <1>2 DEF CatchesOK
<1>. QED
  BY <1>2, <1>6, <1>7, <1>8 DEF CatchesOK

LEMMA CutsWaiting ==
  ASSUME NEW used, Invs(used), NEW hm, NEW tm, NEW n, NEW c, NEW k, CutsTo(hm, tm, n, c, k),
         NEW kept, kept = StillUsed(used, hm, tm, n, c)
  PROVE  WaitingOK(kept)'
<1>1. /\ StoreOK(heap, trail) /\ Typed /\ BasesOK /\ CatchesOK(used) /\ WaitingOK(used)
  BY DEF Invs
<1>2. /\ n \in Nat /\ c \in Nat /\ k \in Nat /\ Len(outer') = k
      /\ \A q \in 1 .. k : q \in 1 .. Len(outer) /\ outer'[q] = outer[q]
  BY <1>1, CutsTyped
<1>3. \A q \in 0 .. k : q \in Levels /\ BaseAt(q)' = BaseAt(q)
  BY <1>1, CutsLevels
<1>4. hm \in Nat /\ tm \in Nat
  <2>1. MarkOK(heap, trail, hm, tm) /\ TrailOK(heap, trail) /\ HeapOK(heap)
    BY <1>1 DEF CutsTo, Resets, StoreOK
  <2>. QED
    BY <1>1, <2>1, RelHeap, TrailAt DEF MarkOK
<1>5. ASSUME NEW q \in 1 .. k
      PROVE  WaitLinked(kept, q)' /\ WaitSnap(q)'
  <2>1. q \in 1 .. Len(outer) /\ outer'[q] = outer[q] /\ q \in Nat /\ q \in 0 .. k /\ q \in Levels /\ k \in Levels /\ q <= k
    <3>1. q \in Nat /\ q \in 0 .. k /\ k \in 0 .. k /\ q <= k
      BY <1>2
    <3>. QED
      BY <1>2, <1>3, <3>1
  <2>2. PICK o, b, t : o = outer[q] /\ b = BaseAt(q) /\ t = TMark(q)
    OBVIOUS
  <2>3. b.heap = o.hmark /\ b.catch = o.cmark /\ t = o.tmark
    <3>1. q # 0
      BY <1>2
    <3>. QED
      BY <1>1, <2>1, <2>2, <3>1 DEF BasesOK, TMark
  <2>4. PICK b1, t1 : b1 = BaseAt(k) /\ t1 = TMark(k)
    OBVIOUS
  <2>5. /\ b.sp \in Nat /\ b.heap \in Nat /\ b.catch \in Nat /\ t \in Nat
        /\ b1.sp \in Nat /\ b1.heap \in Nat /\ b1.catch \in Nat /\ t1 \in Nat
    BY <1>1, <2>1, <2>2, <2>4, LevelAt
  <2>6. b.sp <= b1.sp /\ b.heap <= b1.heap /\ b.catch <= b1.catch /\ t <= t1
    BY <1>1, <2>1, <2>2, <2>4 DEF BasesOK, Rising
  <2>7. b1.sp <= n /\ b1.heap <= hm /\ b1.catch <= c /\ t1 <= tm
    BY <2>4 DEF CutsTo
  <2>8. b.sp <= n /\ b.heap <= hm /\ b.catch <= c /\ t <= tm
    <3>1. n \in Nat /\ c \in Nat
      BY <1>2
    <3>. QED
      BY ONLY <1>4, <2>5, <2>6, <2>7, <3>1
  <2>9. WaitLinked(used, q) /\ WaitSnap(q)
    BY <1>1, <2>1 DEF WaitingOK
  <2>10. \A p \in 0 .. q - 1 : p \in 0 .. k /\ BaseAt(p)' = BaseAt(p)
    <3>1. \A p \in 0 .. q - 1 : p \in 0 .. k
      BY <1>2, <2>1
    <3>. QED
      BY <1>3, <3>1
  <2>11. WaitSnap(q)'
    <3>1. SnapOK(heap, trail, o.hmark, o.tmark, o.cn, o.answer, o.was)
      BY <2>2, <2>9 DEF WaitSnap
    <3>2. o.hmark <= hm /\ o.tmark <= tm
      BY <2>3, <2>8
    <3>3. SnapOK(heap', trail', o.hmark, o.tmark, o.cn, o.answer, o.was)
      BY <1>1, <3>1, <3>2, CutsSnap
    <3>. QED
      BY <2>1, <2>2, <2>9, <2>10, <3>3 DEF WaitSnap
  <2>12. WaitLinked(kept, q)'
    <3>1. PICK i : i = o.active_catch
      OBVIOUS
    <3> SUFFICES ASSUME i # 0
                 PROVE  i \in kept /\ i <= o.cmark /\ \A p \in 0 .. q - 1 : BaseAt(p)'.catch < i
      BY <2>1, <2>2, <3>1 DEF WaitLinked
    <3>2. i \in used /\ i <= b.catch /\ \A p \in 0 .. q - 1 : BaseAt(p).catch < i
      BY <2>2, <2>3, <2>9, <3>1 DEF WaitLinked
    <3>3. i \in 1 .. Len(catches)
      BY <1>1, <3>2 DEF CatchesOK
    <3>4. EntryFenced(i, q)
      BY <1>1, <2>1, <3>2 DEF CatchesOK
    <3>5. PICK e : e = catches[i]
      OBVIOUS
    <3>6. /\ e.heap_mark <= b.heap /\ e.trail_mark <= t /\ e.sp_at_entry <= b.sp
      BY <2>2, <3>2, <3>4, <3>5 DEF EntryFenced
    <3>7. e.heap_mark \in Nat /\ e.trail_mark \in Nat /\ e.sp_at_entry \in Nat /\ i \in Nat
      BY <1>1, <3>3, <3>5, StackAt
    <3>8. e.heap_mark <= hm /\ e.trail_mark <= tm /\ e.sp_at_entry <= n /\ i <= c
      <4>1. PICK x, y, z, x1, y1, z1, w1 :
              /\ x = e.heap_mark /\ y = e.trail_mark /\ z = e.sp_at_entry
              /\ x1 = b.heap /\ y1 = t /\ z1 = b.sp /\ w1 = b.catch
        OBVIOUS
      <4>2. /\ x \in Nat /\ y \in Nat /\ z \in Nat /\ i \in Nat
            /\ x1 \in Nat /\ y1 \in Nat /\ z1 \in Nat /\ w1 \in Nat
        BY <2>5, <3>7, <4>1
      <4>3. /\ x <= x1 /\ y <= y1 /\ z <= z1 /\ i <= w1
            /\ x1 <= hm /\ y1 <= tm /\ z1 <= n /\ w1 <= c
        BY <2>8, <3>2, <3>6, <4>1
      <4>4. x <= hm /\ y <= tm /\ z <= n /\ i <= c
        BY ONLY <1>2, <1>4, <4>2, <4>3
      <4>. QED
        BY <4>1, <4>4
    <3>9. i \in kept
      BY <3>2, <3>5, <3>8 DEF StillUsed
    <3>. QED
      BY <2>3, <2>10, <3>2, <3>9
  <2>. QED
    BY <2>11, <2>12
<1>. QED
  BY <1>2, <1>5 DEF WaitingOK

\* The three together, and the store.
LEMMA CutsKeep ==
  ASSUME NEW used, Invs(used), NEW hm, NEW tm, NEW n, NEW c, NEW k, CutsTo(hm, tm, n, c, k),
         cn' \in Nat /\ active_catch' \in Nat /\ old_top' \in Nat,
         NEW kept, kept = StillUsed(used, hm, tm, n, c)
  PROVE  Invs(kept)'
<1>1. Typed /\ StoreOK(heap, trail) /\ BasesOK /\ FencesOK
  BY DEF Invs
<1>2. StoreOK(heap', trail') /\ BasesOK' /\ FencesOK'
  BY <1>1, CutsBases
<1>3. FramesOK(kept)' /\ CatchesOK(kept)' /\ WaitingOK(kept)'
  BY CutsFrames, CutsEntries, CutsWaiting
<1>4. Typed'
  BY <1>1, CutsTyped DEF Typed
<1>. QED
  BY <1>2, <1>3, <1>4 DEF Invs

(***************************************************************************)
(* The invariant, taken apart and put together.                            *)
(***************************************************************************)
LEMMA InvParts ==
  ASSUME HeapInv
  PROVE  /\ PointUpByTrail(heap, trail, old_top)
         /\ \E used \in SUBSET (1 .. Len(catches)) : Invs(used) /\ RunningOK(used)
BY DEF HeapInv, StacksOK, Invs

LEMMA InvAgain ==
  ASSUME NEW used, Invs(used)', RunningOK(used)', PointUpByTrail(heap', trail', old_top')
  PROVE  HeapInv'
<1>1. used \in SUBSET (1 .. Len(catches'))
  BY DEF Invs, CatchesOK
<1>2. /\ StoreOK(heap', trail') /\ Typed' /\ BasesOK' /\ FencesOK'
      /\ FramesOK(used)' /\ CatchesOK(used)' /\ WaitingOK(used)'
  BY DEF Invs
<1>3. StacksOK'
  BY <1>1, <1>2 DEF StacksOK
<1>. QED
  BY <1>2, <1>3 DEF HeapInv

\* Every mark of a store is one of another, to which it brings back the same.
KeepsMarks(h, tr, h2, tr2) ==
  \A hm, tm : MarkOK(h, tr, hm, tm) => MarkOK(h2, tr2, hm, tm) /\ Rel(h2, tr2, hm, tm) = Rel(h, tr, hm, tm)

\* A step that only builds or binds leaves the stacks right.
LEMMA StacksStay ==
  ASSUME NEW used, Invs(used), UNCHANGED <<frames, catches, outer, base, answer>>,
         KeepsMarks(heap, trail, heap', trail'), StoreOK(heap', trail'), FencesOK',
         cn' \in Nat /\ active_catch' \in Nat /\ old_top' \in Nat
  PROVE  Invs(used)'
<1>1. /\ Typed /\ BasesOK /\ FramesOK(used) /\ CatchesOK(used) /\ WaitingOK(used)
  BY DEF Invs
<1>2. /\ frames' = frames /\ catches' = catches /\ outer' = outer /\ Levels' = Levels
      /\ \A q : BaseAt(q)' = BaseAt(q) /\ TMark(q)' = TMark(q) /\ AnswerAt(q)' = AnswerAt(q)
  BY DEF Levels, BaseAt, TMark, AnswerAt
<1>3. ASSUME NEW hm, NEW tm, NEW goals, NEW ans, NEW was, SnapOK(heap, trail, hm, tm, goals, ans, was)
      PROVE  SnapOK(heap', trail', hm, tm, goals, ans, was)
  <2>1. PICK h, tr, h2, tr2 : h = heap /\ tr = trail /\ h2 = heap' /\ tr2 = trail'
    OBVIOUS
  <2>2. SnapOK(h, tr, hm, tm, goals, ans, was) /\ MarkOK(h, tr, hm, tm)
    BY <1>3, <2>1 DEF SnapOK
  <2>3. MarkOK(h2, tr2, hm, tm) /\ Rel(h2, tr2, hm, tm) = Rel(h, tr, hm, tm)
    BY <2>1, <2>2 DEF KeepsMarks
  <2>. QED
    BY <2>1, <2>2, <2>3, SnapKept
<1>4. Typed'
  BY <1>1 DEF Typed
<1>5. BasesOK'
  BY <1>1, <1>2 DEF BasesOK, Rising
<1>6. FramesOK(used)'
  <2>1. ASSUME NEW n \in 1 .. Len(frames)
        PROVE  /\ FrameLinked(used, n)' /\ FrameAfter(n)' /\ \A q \in Levels : FrameFenced(n, q)'
               /\ \E q \in Levels : FrameOf(n, q)' /\ FrameSnap(n, q)'
    <3>1. FrameLinked(used, n) /\ FrameAfter(n) /\ \A q \in Levels : FrameFenced(n, q)
      BY <1>1 DEF FramesOK
    <3>2. PICK q \in Levels : FrameOf(n, q) /\ FrameSnap(n, q)
      BY <1>1 DEF FramesOK
    <3>3. FrameOf(n, q)'
      BY <1>2, <3>2 DEF FrameOf
    <3>4. FrameSnap(n, q)'
      BY <1>2, <1>3, <3>2 DEF FrameSnap
    <3>5. FrameLinked(used, n)' /\ FrameAfter(n)' /\ \A p \in Levels : FrameFenced(n, p)'
      BY <1>2, <3>1 DEF FrameLinked, FrameAfter, FrameFenced
    <3>. QED
      BY <3>3, <3>4, <3>5
  <2>. QED
    BY <1>2, <2>1 DEF FramesOK
<1>7. CatchesOK(used)'
  <2>1. ASSUME NEW i \in used
        PROVE  /\ EntryLinked(used, i)' /\ EntryAfter(i)' /\ \A q \in Levels : EntryFenced(i, q)'
               /\ \E q \in Levels : EntryOf(i, q)' /\ EntrySnap(i, q)'
    <3>1. EntryLinked(used, i) /\ EntryAfter(i) /\ \A q \in Levels : EntryFenced(i, q)
      BY <1>1 DEF CatchesOK
    <3>2. PICK q \in Levels : EntryOf(i, q) /\ EntrySnap(i, q)
      BY <1>1 DEF CatchesOK
    <3>3. EntryOf(i, q)'
      BY <1>2, <3>2 DEF EntryOf
    <3>4. EntrySnap(i, q)'
      BY <1>2, <1>3, <3>2 DEF EntrySnap
    <3>5. EntryLinked(used, i)' /\ EntryAfter(i)' /\ \A p \in Levels : EntryFenced(i, p)'
      BY <1>2, <3>1 DEF EntryLinked, EntryAfter, EntryFenced
    <3>. QED
      BY <3>3, <3>4, <3>5
  <2>2. used \subseteq 1 .. Len(catches') /\ \A i \in 1 .. Len(catches') : catches'[i].outer_active_catch < i
    BY <1>1, <1>2 DEF CatchesOK
  <2>. QED
    BY <1>2, <2>1, <2>2 DEF CatchesOK
<1>8. WaitingOK(used)'
  <2>1. ASSUME NEW q \in 1 .. Len(outer)
        PROVE  WaitLinked(used, q)' /\ WaitSnap(q)'
    <3>1. WaitLinked(used, q) /\ WaitSnap(q)
      BY <1>1 DEF WaitingOK
    <3>2. WaitLinked(used, q)'
      BY <1>2, <3>1 DEF WaitLinked
    <3>. QED
      BY <1>2, <1>3, <3>1, <3>2 DEF WaitSnap
  <2>. QED
    BY <1>2, <2>1 DEF WaitingOK
<1>. QED
  BY <1>4, <1>5, <1>6, <1>7, <1>8 DEF Invs

(***************************************************************************)
(* The steps of the running query that leave the stacks alone.             *)
(***************************************************************************)
LEMMA RunningAt ==
  ASSUME NEW used, Invs(used), RunningOK(used)
  PROVE  /\ StoreOK(heap, trail) /\ HeapOK(heap) /\ Typed /\ FencesOK
         /\ cn \in Pointable(heap) /\ cn \in Nat /\ answer \in Pointable(heap)
         /\ active_catch \in Nat /\ old_top \in Nat /\ Len(heap) \in Nat
         /\ \A q \in Levels : FenceOK(heap, trail, BaseAt(q).heap, TMark(q)) /\ BaseAt(q).heap < cn
         /\ \A q \in Levels : BaseAt(q).heap \in Nat /\ BaseAt(q).heap <= Len(heap)
         /\ \A q \in Levels : \A d \in AtHand :
              d \in Pointable(heap) /\ IsEnd(heap, d) /\ BaseAt(q).heap < d
         /\ \A q \in Levels : \A d \in Args : d \in Pointable(heap) /\ BaseAt(q).heap < d
<1>1. /\ StoreOK(heap, trail) /\ HeapOK(heap) /\ Typed /\ FencesOK
      /\ cn \in Pointable(heap) /\ answer \in Pointable(heap)
      /\ \A q \in Levels : FenceOK(heap, trail, BaseAt(q).heap, TMark(q)) /\ BaseAt(q).heap < cn
  BY DEF Invs, StoreOK, RunningOK, FencesOK
<1>2. ASSUME NEW q \in Levels
      PROVE  /\ BaseAt(q).heap \in Nat /\ BaseAt(q).heap <= Len(heap)
             /\ \A d \in AtHand : d \in Pointable(heap) /\ IsEnd(heap, d) /\ BaseAt(q).heap < d
             /\ \A d \in Args : d \in Pointable(heap) /\ BaseAt(q).heap < d
  <2>1. PICK hk, tk : hk = BaseAt(q).heap /\ tk = TMark(q)
    OBVIOUS
  <2>2. FenceOK(heap, trail, hk, tk) /\ hk < cn
    BY <1>1, <2>1
  <2>3. hk \in 0 .. Len(heap) /\ Len(heap) \in Nat
    BY <1>1, <2>2, CellAt DEF FenceOK
  <2>4. hk \in Nat /\ hk <= Len(heap)
    BY <2>3
  <2>5. /\ \A d \in AtHand : d \in Pointable(heap) /\ IsEnd(heap, d) /\ hk < d
        /\ \A d \in Args : d \in Pointable(heap) /\ hk < d
    BY <1>1, <2>2, AtHandIs
  <2>. QED
    BY <2>1, <2>4, <2>5
<1>. QED
  BY <1>1, <1>2, CellAt DEF Typed

LEMMA BuildKeeps ==
  ASSUME HeapInv, Build
  PROVE  HeapInv'
<1>1. PICK used : Invs(used) /\ RunningOK(used)
  BY InvParts
<1>2. PICK h, n, h2, tr : h = heap /\ n = Len(heap) /\ h2 = heap' /\ tr = trail
  OBVIOUS
<1>3. /\ StoreOK(h, tr) /\ HeapOK(h) /\ n \in Nat
      /\ \A q \in Levels : BaseAt(q).heap \in Nat /\ BaseAt(q).heap <= n
  BY <1>1, <1>2, RunningAt
<1>4. /\ cn' = n + 3 /\ UNCHANGED <<trail, frames, catches, active_catch, answer, base, outer, old_top>>
  BY <1>2 DEF Build, stacks, query
<1>5. PICK arg \in AtHand \cup {n + 2, n + 4} :
        h2 = h \o <<Functor(1), Ref(arg), Str(n + 1)>> \o (IF arg = n + 4 THEN <<Atom>> ELSE <<>>)
  BY <1>2 DEF Build
<1>6. arg \in Pointable(h) \cup {n + 2, n + 4} /\ \A q \in Levels : BaseAt(q).heap < arg
  <2>1. CASE arg \in AtHand
    <3>1. 0 \in Levels
      BY <1>1, LevelAt, RunningAt
    <3>. QED
      BY <1>1, <1>2, <2>1, <3>1, RunningAt
  <2>2. CASE arg \in {n + 2, n + 4}
    <3>1. ASSUME NEW q \in Levels
          PROVE  BaseAt(q).heap < arg
      <4>1. PICK b \in Nat : b = BaseAt(q).heap /\ b <= n
        BY <1>3
      <4>. QED
        BY <1>3, <2>2, <4>1
    <3>. QED
      BY <2>2, <3>1
  <2>. QED
    BY <2>1, <2>2
<1>7. /\ HeapOK(h2) /\ Grows(h, h2) /\ Settled(h, h2) /\ n + 3 \in Pointable(h2)
      /\ \A c \in 1 .. Len(h2) : c > n =>
           /\ h2[c].tag = "REF" => h2[c].ref = arg
           /\ h2[c].tag = "STR" => h2[c].ptr = n + 1
  <2>1. HeapOK(h) /\ Builds(h, n, arg, h2)
    BY <1>2, <1>3, <1>5, <1>6 DEF Builds
  <2>. QED
    BY <2>1, BuildGrows
<1>8. StoreOK(h2, tr)
  BY <1>3, <1>7, GrowStore
<1>9. KeepsMarks(h, tr, h2, tr)
  BY <1>3, <1>7, GrowMark DEF KeepsMarks
<1>10. ASSUME NEW q \in Levels
       PROVE  FenceOK(h2, tr, BaseAt(q).heap, TMark(q))
  <2>1. PICK hk, tk : hk = BaseAt(q).heap /\ tk = TMark(q)
    OBVIOUS
  <2>2. FenceOK(h, tr, hk, tk)
    BY <1>1, <1>2, <2>1, RunningAt
  <2>3. hk < arg /\ hk < n + 1
    <3>1. hk \in Nat /\ hk <= n /\ hk < arg
      BY <1>3, <1>6, <2>1
    <3>. QED
      BY <1>3, <3>1
  <2>4. NewAbove(h, h2, hk)
    BY <1>2, <1>7, <2>3 DEF NewAbove
  <2>5. FenceOK(h2, tr, hk, tk)
    BY <1>3, <1>7, <2>2, <2>4, GrowFence
  <2>. QED
    BY <2>1, <2>5
<1>11. Levels' = Levels /\ \A q : BaseAt(q)' = BaseAt(q) /\ TMark(q)' = TMark(q)
  BY <1>4 DEF Levels, BaseAt, TMark
<1>12. FencesOK'
  BY <1>2, <1>4, <1>10, <1>11 DEF FencesOK
<1>13. cn' \in Nat /\ active_catch' \in Nat /\ old_top' \in Nat
  <2>1. active_catch \in Nat /\ old_top \in Nat
    BY <1>1, RunningAt
  <2>. QED
    BY <1>3, <1>4, <2>1
<1>14. Invs(used)'
  BY <1>1, <1>2, <1>4, <1>8, <1>9, <1>12, <1>13, StacksStay
<1>15. RunningOK(used)'
  <2>1. answer' \in Pointable(heap')
    <3>1. answer \in Pointable(h)
      BY <1>1, <1>2, RunningAt
    <3>. QED
      BY <1>2, <1>4, <1>7, <3>1 DEF Pointable, Grows
  <2>2. \A q \in Levels : BaseAt(q).heap < n + 3
    <3> TAKE q \in Levels
    <3>1. PICK b \in Nat : b = BaseAt(q).heap /\ b <= n
      BY <1>3
    <3>. QED
      BY <1>3, <3>1
  <2>. QED
    BY <1>1, <1>2, <1>4, <1>7, <1>11, <2>1, <2>2 DEF RunningOK
<1>16. PointUpByTrail(heap', trail', old_top')
  <2>1. PICK from : from = old_top
    OBVIOUS
  <2>2. PointUpByTrail(h, tr, from)
    BY <1>2, <2>1, InvParts
  <2>3. PointUpByTrail(h2, tr, from)
    BY <1>3, <1>7, <2>2, GrowPointUp
  <2>. QED
    BY <1>2, <1>4, <2>1, <2>3
<1>. QED
  BY <1>14, <1>15, <1>16, InvAgain

LEMMA SameMarks ==
  ASSUME NEW h, NEW tr
  PROVE  KeepsMarks(h, tr, h, tr)
BY DEF KeepsMarks

LEMMA ProceedKeeps ==
  ASSUME HeapInv, Proceed
  PROVE  HeapInv'
<1>1. PICK used : Invs(used) /\ RunningOK(used)
  BY InvParts
<1>2. UNCHANGED <<heap, trail, frames, catches, active_catch, answer, base, outer, old_top>> /\ cn' \in Args
  BY DEF Proceed, stacks, query, store
<1>3. Levels' = Levels /\ \A q : BaseAt(q)' = BaseAt(q) /\ TMark(q)' = TMark(q)
  BY <1>2 DEF Levels, BaseAt, TMark
<1>4. FencesOK' /\ StoreOK(heap', trail')
  <2>1. FencesOK /\ StoreOK(heap, trail)
    BY <1>1, RunningAt
  <2>. QED
    BY <1>2, <1>3, <2>1 DEF FencesOK
<1>5. /\ cn' \in Pointable(heap) /\ cn' \in Nat /\ active_catch' \in Nat /\ old_top' \in Nat
      /\ \A q \in Levels : BaseAt(q).heap < cn'
  <2>1. 0 \in Levels /\ active_catch \in Nat /\ old_top \in Nat /\ HeapOK(heap)
    BY <1>1, LevelAt, RunningAt
  <2>2. cn' \in Pointable(heap) /\ \A q \in Levels : BaseAt(q).heap < cn'
    BY <1>1, <1>2, <2>1, RunningAt
  <2>3. cn' \in Nat
    BY <2>1, <2>2, CellAt DEF Pointable
  <2>. QED
    BY <1>2, <2>1, <2>2, <2>3
<1>6. KeepsMarks(heap, trail, heap', trail')
  BY <1>2, SameMarks
<1>7. Invs(used)'
  BY <1>1, <1>2, <1>4, <1>5, <1>6, StacksStay
<1>8. RunningOK(used)'
  BY <1>1, <1>2, <1>3, <1>5 DEF RunningOK
<1>9. PointUpByTrail(heap', trail', old_top')
  BY <1>2, InvParts
<1>. QED
  BY <1>7, <1>8, <1>9, InvAgain

LEMMA BindKeeps ==
  ASSUME HeapInv, Bind
  PROVE  HeapInv'
<1>1. PICK used : Invs(used) /\ RunningOK(used)
  BY InvParts
<1>2. UNCHANGED <<cn, frames, catches, active_catch, answer, base, outer, old_top>>
  BY DEF Bind, stacks, query
<1>3. PICK v \in AtHand, t \in AtHand :
        v # t /\ IsVar(heap, v) /\ heap' = [heap EXCEPT ![v] = Ref(t)] /\ trail' = Append(trail, v)
  BY DEF Bind
<1>4. PICK h, h2, tr, tr2 : h = heap /\ h2 = heap' /\ tr = trail /\ tr2 = trail'
  OBVIOUS
<1>5. h[v] = Ref(v) /\ h2 = [h EXCEPT ![v] = Ref(t)] /\ tr2 = Append(tr, v)
  BY <1>3, <1>4 DEF IsVar
<1>6. /\ StoreOK(h, tr) /\ v \in 1 .. Len(h) /\ t \in Pointable(h) /\ t \in 1 .. Len(h) /\ IsEnd(h, t)
  <2>1. 0 \in Levels
    BY <1>1, LevelAt, RunningAt
  <2>2. StoreOK(h, tr) /\ v \in Pointable(h) /\ t \in Pointable(h) /\ IsEnd(h, t)
    BY <1>1, <1>3, <1>4, <2>1, RunningAt
  <2>. QED
    BY <2>2 DEF Pointable
<1>7. StoreOK(h2, tr2)
  BY <1>3, <1>5, <1>6, BindStore
<1>8. KeepsMarks(h, tr, h2, tr2)
  <2>1. ASSUME NEW hm, NEW tm, MarkOK(h, tr, hm, tm)
        PROVE  MarkOK(h2, tr2, hm, tm) /\ Rel(h2, tr2, hm, tm) = Rel(h, tr, hm, tm)
    <3>1. Binds(h, tr, v, t, h2, tr2)
      BY <1>5, <1>6 DEF Binds
    <3>. QED
      BY <2>1, <3>1, BindMark
  <2>. QED
    BY <2>1 DEF KeepsMarks
<1>9. ASSUME NEW q \in Levels
      PROVE  FenceOK(h2, tr2, BaseAt(q).heap, TMark(q))
  <2>1. PICK hk, tk : hk = BaseAt(q).heap /\ tk = TMark(q)
    OBVIOUS
  <2>2. FenceOK(h, tr, hk, tk) /\ hk < v /\ hk < t
    BY <1>1, <1>3, <1>4, <2>1, RunningAt
  <2>3. FenceOK(h2, tr2, hk, tk)
    BY <1>5, <1>6, <2>2, BindFence
  <2>. QED
    BY <2>1, <2>3
<1>10. Levels' = Levels /\ \A q : BaseAt(q)' = BaseAt(q) /\ TMark(q)' = TMark(q)
  BY <1>2 DEF Levels, BaseAt, TMark
<1>11. FencesOK'
  BY <1>4, <1>9, <1>10 DEF FencesOK
<1>12. cn' \in Nat /\ active_catch' \in Nat /\ old_top' \in Nat
  BY <1>1, <1>2, RunningAt
<1>13. Invs(used)'
  BY <1>1, <1>2, <1>4, <1>7, <1>8, <1>11, <1>12, StacksStay
<1>14. Pointable(h2) = Pointable(h)
  <2>1. Len(h) \in Nat /\ DOMAIN h = 1 .. Len(h) /\ h \in Seq(HeapCell) /\ h2 \in Seq(HeapCell)
    <3>1. HeapOK(h) /\ HeapOK(h2)
      BY <1>6, <1>7 DEF StoreOK
    <3>. QED
      BY <3>1, CellAt DEF HeapOK
  <2>2. Len(h2) = Len(h) /\ \A c \in 1 .. Len(h) : h2[c] = IF c = v THEN Ref(t) ELSE h[c]
    BY <1>5, <2>1
  <2>3. h[v].tag = "REF" /\ h2[v].tag = "REF"
    BY <1>5, <1>6, <2>2 DEF Ref
  <2>. QED
    BY <2>2, <2>3 DEF Pointable
<1>15. RunningOK(used)'
  BY <1>1, <1>2, <1>4, <1>10, <1>14 DEF RunningOK
<1>16. PointUpByTrail(heap', trail', old_top')
  <2>1. PICK from : from = old_top
    OBVIOUS
  <2>2. PointUpByTrail(h, tr, from)
    BY <1>4, <2>1, InvParts
  <2>3. PointUpByTrail(h2, tr2, from)
    BY <1>5, <1>6, <2>2, BindPointUp
  <2>. QED
    BY <1>2, <1>4, <2>1, <2>3
<1>. QED
  BY <1>13, <1>15, <1>16, InvAgain

LEMMA UncatchKeeps ==
  ASSUME HeapInv, Uncatch
  PROVE  HeapInv'
<1>1. PICK used : Invs(used) /\ RunningOK(used)
  BY InvParts
<1>2. /\ UNCHANGED <<heap, trail, cn, frames, catches, answer, base, outer, old_top>>
      /\ active_catch # 0 /\ active_catch' = catches[active_catch].outer_active_catch
  BY DEF Uncatch, stacks, query, store
<1>3. PICK i, k : i = active_catch /\ k = active_catch'
  OBVIOUS
<1>4. /\ i \in used /\ k = catches[i].outer_active_catch /\ i \in 1 .. Len(catches) /\ k \in Nat
      /\ EntryLinked(used, i) /\ \A q \in Levels : EntryFenced(i, q) /\ BaseAt(q).catch < i
  <2>1. i \in used /\ k = catches[i].outer_active_catch /\ \A q \in Levels : BaseAt(q).catch < i
    BY <1>1, <1>2, <1>3 DEF RunningOK
  <2>2. CatchesOK(used) /\ Typed
    BY <1>1 DEF Invs
  <2>3. i \in 1 .. Len(catches) /\ EntryLinked(used, i) /\ \A q \in Levels : EntryFenced(i, q)
    BY <2>1, <2>2 DEF CatchesOK
  <2>. QED
    BY <2>1, <2>2, <2>3, StackAt
<1>5. Levels' = Levels /\ \A q : BaseAt(q)' = BaseAt(q) /\ TMark(q)' = TMark(q)
  BY <1>2 DEF Levels, BaseAt, TMark
<1>6. FencesOK' /\ StoreOK(heap', trail')
  <2>1. FencesOK /\ StoreOK(heap, trail)
    BY <1>1, RunningAt
  <2>. QED
    BY <1>2, <1>5, <2>1 DEF FencesOK
<1>7. cn' \in Nat /\ active_catch' \in Nat /\ old_top' \in Nat
  BY <1>1, <1>2, <1>3, <1>4, RunningAt
<1>8. KeepsMarks(heap, trail, heap', trail')
  BY <1>2, SameMarks
<1>9. Invs(used)'
  BY <1>1, <1>2, <1>6, <1>7, <1>8, StacksStay
<1>10. k # 0 => k \in used /\ \A q \in Levels : BaseAt(q).catch < k
  <2>1. k # 0 => k \in used
    BY <1>4 DEF EntryLinked
  <2>2. ASSUME NEW q \in Levels, k # 0
        PROVE  BaseAt(q).catch < k
    <3>1. PICK b : b = BaseAt(q).catch
      OBVIOUS
    <3>2. b \in Nat /\ i \in Nat /\ b < i
      BY <1>1, <1>4, <3>1, LevelAt, StackAt, RunningAt
    <3>3. ~(i <= b)
      BY <3>2
    <3>. QED
      BY <1>4, <2>2, <3>1, <3>3 DEF EntryFenced
  <2>. QED
    BY <2>1, <2>2
<1>11. RunningOK(used)'
  BY <1>1, <1>2, <1>3, <1>5, <1>10 DEF RunningOK
<1>12. PointUpByTrail(heap', trail', old_top')
  BY <1>2, InvParts
<1>. QED
  BY <1>9, <1>11, <1>12, InvAgain

(***************************************************************************)
(* Steps that release: all that is left is what StillUsed keeps, and what  *)
(* the running query comes back to.                                        *)
(***************************************************************************)
LEMMA WholePrefix ==
  ASSUME NEW S, NEW s \in Seq(S)
  PROVE  SubSeq(s, 1, Len(s)) = s
<1>1. Len(s) \in 0 .. Len(s)
  BY LenProperties
<1>2. /\ SubSeq(s, 1, Len(s)) \in Seq(S) /\ Len(SubSeq(s, 1, Len(s))) = Len(s)
      /\ \A i \in 1 .. Len(s) : SubSeq(s, 1, Len(s))[i] = s[i]
  BY <1>1, PrefixSeq
<1>. QED
  BY <1>2, SeqEqual

\* The mark of what is there now.
LEMMA MarkNow ==
  ASSUME NEW h, NEW tr, StoreOK(h, tr), NEW hm, hm = Len(h), NEW tm, tm = Len(tr)
  PROVE  MarkOK(h, tr, hm, tm) /\ Rel(h, tr, hm, tm) = h /\ SubSeq(tr, 1, tm) = tr
<1>1. /\ HeapOK(h) /\ TrailOK(h, tr) /\ hm \in Nat /\ tm \in Nat /\ DOMAIN h = 1 .. hm /\ tr \in Seq(Nat)
      /\ h \in Seq(HeapCell)
  BY CellAt, TrailAt DEF StoreOK, TrailOK, HeapOK
<1>2. \A c : ~Undone(tr, tm, c)
  <2>1. \A i \in tm + 1 .. Len(tr) : FALSE
    BY <1>1
  <2>. QED
    BY <2>1 DEF Undone
<1>3. \A i \in 1 .. tm : tr[i] <= hm
  BY <1>1, TrailAt
<1>4. \A c \in 1 .. hm : h[c].tag = "REF" => ~(h[c].ref > hm)
  <2> SUFFICES ASSUME NEW c \in 1 .. hm, h[c].tag = "REF" PROVE ~(h[c].ref > hm)
    OBVIOUS
  <2>1. PICK d : d = h[c].ref
    OBVIOUS
  <2>2. d \in Children(h, c)
    BY <2>1 DEF Children
  <2>3. d \in 1 .. hm
    BY <1>1, <2>2, ChildrenIn
  <2>. QED
    BY <1>1, <2>1, <2>3
<1>5. hm \in 0 .. Len(h) /\ tm \in 0 .. Len(tr)
  BY <1>1
<1>6. Rel(h, tr, hm, tm) = h
  <2>1. Rel(h, tr, hm, tm) = [c \in 1 .. hm |-> h[c]]
    BY <1>2 DEF Rel
  <2>2. h = [c \in 1 .. hm |-> h[c]]
    BY <1>1
  <2>. QED
    BY <2>1, <2>2
<1>. QED
  BY <1>1, <1>3, <1>4, <1>5, <1>6, WholePrefix DEF MarkOK

\* What is above the base of the running query is its own.
LEMMA OwnLevel ==
  ASSUME Typed, BasesOK, NEW q \in Levels
  PROVE  /\ \A n \in Nat : base.sp < n /\ FrameOf(n, q) => q = Len(outer)
         /\ \A i \in Nat : base.catch < i /\ EntryOf(i, q) => q = Len(outer)
<1> SUFFICES ASSUME q # Len(outer)
             PROVE  \A n \in Nat : /\ FrameOf(n, q) => ~(base.sp < n)
                                   /\ EntryOf(n, q) => ~(base.catch < n)
  OBVIOUS
<1>1. Len(outer) \in Nat /\ q \in 0 .. Len(outer)
  BY StackAt DEF Levels
<1>2. q < Len(outer) /\ q + 1 \in Levels /\ Len(outer) \in Levels /\ q + 1 <= Len(outer)
  BY <1>1 DEF Levels
<1>3. PICK a, b, a1, b1 : /\ a = BaseAt(q + 1).sp /\ b = BaseAt(q + 1).catch
                          /\ a1 = base.sp /\ b1 = base.catch
  OBVIOUS
<1>4. BaseAt(Len(outer)) = base
  BY LevelAt
<1>5. a <= a1 /\ b <= b1
  BY <1>2, <1>3, <1>4 DEF BasesOK, Rising
<1>6. a \in Nat /\ b \in Nat /\ a1 \in Nat /\ b1 \in Nat
  BY <1>2, <1>3, <1>4, LevelAt
<1>7. \A n \in Nat : (n <= a => ~(a1 < n)) /\ (n <= b => ~(b1 < n))
  BY ONLY <1>5, <1>6
<1>. QED
  BY <1>2, <1>3, <1>7 DEF FrameOf, EntryOf

LEMMA ReleaseIs ==
  ASSUME StoreOK(heap, trail), NEW hm, NEW tm, MarkOK(heap, trail, hm, tm), Release(hm, tm)
  PROVE  Resets(heap, trail, hm, tm, heap', trail') /\ old_top' = Least(old_top, hm)
BY ReleasedIs DEF Release, Resets

LEMMA CutsInv ==
  ASSUME NEW used, Invs(used), PointUpByTrail(heap, trail, old_top),
         NEW hm, NEW tm, NEW n, NEW c, NEW k, CutsTo(hm, tm, n, c, k), old_top' = Least(old_top, hm),
         NEW was, SnapOK(heap, trail, hm, tm, cn', answer', was),
         \A q \in 0 .. k : BaseAt(q).heap < cn',
         active_catch' \in Nat,
         active_catch' # 0 => /\ active_catch' \in StillUsed(used, hm, tm, n, c)
                              /\ \A q \in 0 .. k : BaseAt(q).catch < active_catch'
  PROVE  HeapInv'
<1>1. Typed /\ StoreOK(heap, trail) /\ Resets(heap, trail, hm, tm, heap', trail') /\ heap' = Rel(heap, trail, hm, tm)
  BY DEF Invs, CutsTo, Resets
<1>2. PICK kept : kept = StillUsed(used, hm, tm, n, c)
  OBVIOUS
<1>3. cn' \in Pointable(heap') /\ answer' \in Pointable(heap')
  BY <1>1 DEF SnapOK
<1>4. hm \in Nat /\ HeapOK(heap')
  BY <1>1, RelHeap DEF Resets
<1>5. cn' \in Nat
  <2>1. Len(heap') \in Nat
    BY <1>4, CellAt
  <2>. QED
    BY <1>3, <2>1 DEF Pointable
<1>6. PICK from : from = old_top
  OBVIOUS
<1>7. from \in Nat /\ old_top' = Least(from, hm) /\ PointUpByTrail(heap, trail, from)
  BY <1>1, <1>6 DEF Typed
<1>8. old_top' \in Nat
  BY <1>4, <1>7 DEF Least
<1>9. PointUpByTrail(heap', trail', old_top')
  <2>1. PointUpByTrail(heap', trail', Least(from, hm))
    BY <1>1, <1>7, ReleasePointUp
  <2>. QED
    BY <1>7, <2>1
<1>10. Invs(kept)'
  BY <1>2, <1>5, <1>8, CutsKeep
<1>11. /\ Levels' = 0 .. k /\ \A q \in 0 .. k : BaseAt(q)' = BaseAt(q)
  BY <1>1, CutsLevels
<1>12. RunningOK(kept)'
  <2>1. \A q \in Levels' : BaseAt(q)'.heap < cn'
    BY <1>11
  <2>2. active_catch' # 0 => active_catch' \in kept /\ \A q \in Levels' : BaseAt(q)'.catch < active_catch'
    BY <1>2, <1>11
  <2>. QED
    BY <1>3, <2>1, <2>2 DEF RunningOK
<1>. QED
  BY <1>9, <1>10, <1>12, InvAgain

\* What everything that is there is made of, at the level of the running query.
LEMMA TopAt ==
  ASSUME NEW used, Invs(used)
  PROVE  /\ StoreOK(heap, trail) /\ Typed /\ BasesOK /\ FramesOK(used) /\ CatchesOK(used) /\ WaitingOK(used)
         /\ Len(frames) \in Nat /\ Len(catches) \in Nat /\ Len(outer) \in Nat
         /\ Len(outer) \in Levels /\ BaseAt(Len(outer)) = base /\ AnswerAt(Len(outer)) = answer
         /\ base.sp \in Nat /\ base.heap \in Nat /\ base.catch \in Nat /\ TMark(Len(outer)) \in Nat
         /\ base.sp <= Len(frames) /\ base.catch <= Len(catches)
         /\ SubSeq(frames, 1, Len(frames)) = frames /\ SubSeq(catches, 1, Len(catches)) = catches
         /\ SubSeq(outer, 1, Len(outer)) = outer
         /\ \A q \in Levels : q \in 0 .. Len(outer) /\ Rising(q, Len(outer))
<1>1. /\ StoreOK(heap, trail) /\ Typed /\ BasesOK /\ FramesOK(used) /\ CatchesOK(used) /\ WaitingOK(used)
  BY DEF Invs
<1>2. /\ Len(frames) \in Nat /\ Len(catches) \in Nat /\ Len(outer) \in Nat
      /\ Len(outer) \in Levels /\ BaseAt(Len(outer)) = base /\ AnswerAt(Len(outer)) = answer
      /\ TMark(Len(outer)) \in Nat
  BY <1>1, StackAt, LevelAt
<1>3. /\ base.sp \in Nat /\ base.heap \in Nat /\ base.catch \in Nat
  BY <1>1, <1>2, LevelAt
<1>4. /\ base.sp <= Len(frames) /\ base.catch <= Len(catches)
  BY <1>1, <1>2 DEF BasesOK
<1>5. /\ SubSeq(frames, 1, Len(frames)) = frames /\ SubSeq(catches, 1, Len(catches)) = catches
      /\ SubSeq(outer, 1, Len(outer)) = outer
  BY <1>1, WholePrefix DEF Typed
<1>6. \A q \in Levels : q \in 0 .. Len(outer) /\ Rising(q, Len(outer))
  <2>1. \A q \in Levels : q \in 0 .. Len(outer) /\ q <= Len(outer)
    BY <1>2 DEF Levels
  <2>. QED
    BY <1>1, <1>2, <2>1 DEF BasesOK
<1>. QED
  BY <1>1, <1>2, <1>3, <1>4, <1>5, <1>6

LEMMA BacktrackKeeps ==
  ASSUME HeapInv, Backtrack
  PROVE  HeapInv'
<1>1. PICK used : Invs(used) /\ PointUpByTrail(heap, trail, old_top)
  BY InvParts
<1>2. PICK m, c, k : m = Len(frames) /\ c = Len(catches) /\ k = Len(outer)
  OBVIOUS
<1>3. m \in Nat /\ c \in Nat /\ k \in Nat /\ base.sp \in Nat /\ base.sp < m
  BY <1>1, <1>2, TopAt DEF Backtrack
<1>4. m \in 1 .. Len(frames) /\ m - 1 \in 0 .. Len(frames) /\ base.sp <= m - 1
  BY <1>2, <1>3
<1>5. PICK f : f = frames[m]
  OBVIOUS
<1>6. PICK hm, tm, i : hm = f.heap_mark /\ tm = f.trail_mark /\ i = f.active_catch
  OBVIOUS
<1>7. /\ Release(hm, tm) /\ cn' = f.goals /\ active_catch' = i
      /\ frames' = SubSeq(frames, 1, m - 1) /\ UNCHANGED <<catches, answer, base, outer>>
  BY <1>2, <1>5, <1>6 DEF Backtrack, query
<1>8. FrameLinked(used, m) /\ FrameAfter(m) /\ \A q \in Levels : FrameFenced(m, q)
  BY <1>1, <1>4, TopAt DEF FramesOK
<1>9. SnapOK(heap, trail, hm, tm, f.goals, answer, f.was)
  <2>1. PICK q \in Levels : FrameOf(m, q) /\ FrameSnap(m, q)
    BY <1>1, <1>4, TopAt DEF FramesOK
  <2>2. q = Len(outer)
    BY <1>1, <1>3, <2>1, OwnLevel, TopAt
  <2>3. AnswerAt(q) = answer
    BY <1>1, <2>2, TopAt
  <2>. QED
    BY <1>5, <1>6, <2>1, <2>3 DEF FrameSnap
<1>10. Resets(heap, trail, hm, tm, heap', trail') /\ old_top' = Least(old_top, hm)
  <2>1. MarkOK(heap, trail, hm, tm) /\ StoreOK(heap, trail)
    BY <1>1, <1>9, TopAt DEF SnapOK
  <2>. QED
    BY <1>7, <2>1, ReleaseIs
<1>11. ASSUME NEW q \in Levels
       PROVE  /\ BaseAt(q).heap <= hm /\ TMark(q) <= tm /\ BaseAt(q).heap < f.goals
              /\ i # 0 => BaseAt(q).catch < i
  <2>1. PICK a, b : a = BaseAt(q).sp /\ b = base.sp
    OBVIOUS
  <2>2. a <= b
    BY <1>1, <2>1, TopAt DEF Rising
  <2>3. a \in Nat /\ b \in Nat /\ b < m
    BY <1>1, <1>3, <2>1, LevelAt, TopAt
  <2>4. ~(m <= a)
    BY ONLY <1>3, <2>2, <2>3
  <2>. QED
    BY <1>5, <1>6, <1>8, <2>1, <2>4 DEF FrameFenced
<1>12. ASSUME NEW j \in 1 .. m - 1
       PROVE  /\ frames[j].heap_mark <= hm /\ frames[j].trail_mark <= tm /\ frames[j].active_catch <= c
  <2>1. j \in 1 .. m /\ j \in 1 .. Len(frames)
    BY <1>2, <1>3
  <2>2. Earlier(frames[j], frames[m]) /\ FrameLinked(used, j)
    BY <1>1, <1>8, <2>1, TopAt DEF FrameAfter, FramesOK
  <2>3. PICK d : d = frames[j].active_catch
    OBVIOUS
  <2>4. d # 0 => d \in 1 .. c
    BY <1>1, <1>2, <2>2, <2>3, TopAt DEF FrameLinked, CatchesOK
  <2>5. d <= c
    BY <1>3, <2>4
  <2>. QED
    BY <1>5, <1>6, <2>2, <2>3, <2>5 DEF Earlier
<1>13. CutsTo(hm, tm, m - 1, c, k)
  <2>1. /\ c \in 0 .. Len(catches) /\ catches' = SubSeq(catches, 1, c)
        /\ k \in Levels /\ outer' = SubSeq(outer, 1, k) /\ base' = BaseAt(k) /\ answer' = AnswerAt(k)
        /\ BaseAt(k).sp <= m - 1 /\ BaseAt(k).catch <= c
    BY <1>1, <1>2, <1>3, <1>4, <1>7, TopAt
  <2>2. ~(k < Len(outer))
    BY <1>2, <1>3
  <2>3. BaseAt(k).heap <= hm /\ TMark(k) <= tm
    BY <1>11, <2>1
  <2>. QED
    BY <1>4, <1>7, <1>10, <1>12, <2>1, <2>2, <2>3 DEF CutsTo
<1>14. ASSUME i # 0
       PROVE  i \in StillUsed(used, hm, tm, m - 1, c)
  <2>1. i \in used /\ Earlier(catches[i], f) /\ catches[i].sp_at_entry < m
    BY <1>5, <1>6, <1>8, <1>14 DEF FrameLinked
  <2>2. i \in 1 .. c
    BY <1>1, <1>2, <2>1, TopAt DEF CatchesOK
  <2>3. catches[i].sp_at_entry \in Nat
    BY <1>1, <1>2, <2>2, StackAt, TopAt
  <2>4. i <= c /\ catches[i].sp_at_entry <= m - 1
    BY <1>3, <2>1, <2>2, <2>3
  <2>. QED
    BY <1>6, <2>1, <2>4 DEF StillUsed, Earlier
<1>15. SnapOK(heap, trail, hm, tm, cn', answer', f.was)
  BY <1>7, <1>9
<1>16. \A q \in 0 .. k : q \in Levels
  BY <1>2 DEF Levels
<1>17. active_catch' \in Nat
  BY <1>1, <1>4, <1>5, <1>6, <1>7, StackAt, TopAt
<1>18. \A q \in 0 .. k : BaseAt(q).heap < cn'
  BY <1>7, <1>11, <1>16
<1>19. active_catch' # 0 => /\ active_catch' \in StillUsed(used, hm, tm, m - 1, c)
                            /\ \A q \in 0 .. k : BaseAt(q).catch < active_catch'
  BY <1>7, <1>11, <1>14, <1>16
<1>20. PICK n : n = m - 1
  OBVIOUS
<1>. QED
  BY <1>1, <1>10, <1>13, <1>15, <1>17, <1>18, <1>19, <1>20, CutsInv

LEMMA CutKeeps ==
  ASSUME HeapInv, Cut
  PROVE  HeapInv'
<1>1. PICK used : Invs(used) /\ RunningOK(used) /\ PointUpByTrail(heap, trail, old_top)
  BY InvParts
<1>2. PICK hm, tm, c, k : hm = Len(heap) /\ tm = Len(trail) /\ c = Len(catches) /\ k = Len(outer)
  OBVIOUS
<1>3. PICK n \in base.sp .. Len(frames) - 1 :
        /\ active_catch # 0 => n >= catches[active_catch].sp_at_entry
        /\ frames' = SubSeq(frames, 1, n)
  BY DEF Cut
<1>4. UNCHANGED <<heap, trail, cn, catches, active_catch, answer, base, outer, old_top>>
  BY DEF Cut, store, query
<1>5. /\ n \in Nat /\ n \in 0 .. Len(frames) /\ base.sp <= n /\ c \in Nat /\ k \in Nat
      /\ \A m \in 1 .. n : m \in 1 .. Len(frames)
  <2>1. base.sp \in Nat /\ Len(frames) \in Nat /\ c \in Nat /\ k \in Nat
    BY <1>1, <1>2, TopAt
  <2>. QED
    BY <1>3, <2>1
<1>6. MarkOK(heap, trail, hm, tm) /\ Rel(heap, trail, hm, tm) = heap /\ SubSeq(trail, 1, tm) = trail
  BY <1>1, <1>2, MarkNow, TopAt
<1>7. Resets(heap, trail, hm, tm, heap', trail')
  BY <1>1, <1>4, <1>6, TopAt DEF Resets
<1>8. hm \in Nat /\ tm \in Nat
  BY <1>1, <1>2, CellAt, TrailAt, TopAt DEF StoreOK
<1>9. old_top' = Least(old_top, hm)
  <2>1. old_top \in 0 .. Len(heap)
    BY <1>1 DEF PointUpByTrail
  <2>2. old_top <= hm
    BY <1>2, <1>8, <2>1
  <2>. QED
    BY <1>4, <2>2 DEF Least
<1>10. \A h1, t1 : MarkOK(heap, trail, h1, t1) => h1 <= hm /\ t1 <= tm
  BY <1>2, <1>8 DEF MarkOK
<1>11. ASSUME NEW j \in 1 .. n
       PROVE  /\ frames[j].heap_mark <= hm /\ frames[j].trail_mark <= tm /\ frames[j].active_catch <= c
  <2>1. j \in 1 .. Len(frames)
    BY <1>5
  <2>2. FrameLinked(used, j) /\ \E q \in Levels : FrameSnap(j, q)
    BY <1>1, <2>1, TopAt DEF FramesOK
  <2>3. MarkOK(heap, trail, frames[j].heap_mark, frames[j].trail_mark)
    BY <2>2 DEF FrameSnap, SnapOK
  <2>4. PICK d : d = frames[j].active_catch
    OBVIOUS
  <2>5. d # 0 => d \in 1 .. c
    BY <1>1, <1>2, <2>2, <2>4, TopAt DEF FrameLinked, CatchesOK
  <2>6. d <= c
    BY <1>5, <2>5
  <2>. QED
    BY <1>10, <2>3, <2>4, <2>6
<1>12. BaseAt(k).heap <= hm /\ TMark(k) <= tm
  <2>1. FenceOK(heap, trail, BaseAt(k).heap, TMark(k))
    BY <1>1, <1>2, TopAt DEF Invs, FencesOK
  <2>. QED
    BY <1>2, <1>8, <2>1 DEF FenceOK
<1>13. CutsTo(hm, tm, n, c, k)
  <2>1. /\ c \in 0 .. Len(catches) /\ catches' = SubSeq(catches, 1, c)
        /\ k \in Levels /\ outer' = SubSeq(outer, 1, k) /\ base' = BaseAt(k) /\ answer' = AnswerAt(k)
        /\ BaseAt(k).sp <= n /\ BaseAt(k).catch <= c
    BY <1>1, <1>2, <1>4, <1>5, TopAt
  <2>2. ~(k < Len(outer))
    BY <1>2, <1>5
  <2>. QED
    BY <1>3, <1>5, <1>7, <1>11, <1>12, <2>1, <2>2 DEF CutsTo
<1>14. PICK was : was = Terms(heap, <<cn, answer>>)
  OBVIOUS
<1>15. SnapOK(heap, trail, hm, tm, cn', answer', was)
  BY <1>1, <1>4, <1>6, <1>14 DEF SnapOK, RunningOK
<1>16. ASSUME active_catch # 0
       PROVE  active_catch \in StillUsed(used, hm, tm, n, c)
  <2>1. PICK i : i = active_catch
    OBVIOUS
  <2>2. i \in used /\ i \in 1 .. c
    BY <1>1, <1>2, <1>16, <2>1, TopAt DEF RunningOK, CatchesOK
  <2>3. \E q \in Levels : EntrySnap(i, q)
    BY <1>1, <2>2, TopAt DEF CatchesOK
  <2>4. MarkOK(heap, trail, catches[i].heap_mark, catches[i].trail_mark)
    BY <2>3 DEF EntrySnap, SnapOK
  <2>5. catches[i].sp_at_entry <= n
    <3>1. catches[i].sp_at_entry \in Nat
      BY <1>1, <1>2, <2>2, StackAt, TopAt
    <3>. QED
      BY <1>3, <1>5, <1>16, <2>1, <3>1
  <2>6. i <= c
    BY <1>5, <2>2
  <2>. QED
    BY <1>10, <2>1, <2>2, <2>4, <2>5, <2>6 DEF StillUsed
<1>17. \A q \in 0 .. k : q \in Levels
  BY <1>2 DEF Levels
<1>18. \A q \in 0 .. k : BaseAt(q).heap < cn'
  BY <1>1, <1>4, <1>17 DEF RunningOK
<1>19. active_catch' \in Nat
  BY <1>1, <1>4, RunningAt
<1>20. active_catch' # 0 => /\ active_catch' \in StillUsed(used, hm, tm, n, c)
                            /\ \A q \in 0 .. k : BaseAt(q).catch < active_catch'
  BY <1>1, <1>4, <1>16, <1>17 DEF RunningOK
<1>. QED
  BY <1>1, <1>9, <1>13, <1>15, <1>18, <1>19, <1>20, CutsInv

\* The entries of a chain are in every set that goes on along it.
LEMMA ChainIn ==
  ASSUME Len(catches) \in Nat, \A j \in 1 .. Len(catches) : catches[j].outer_active_catch \in 0 .. j - 1,
         NEW i, i # 0 => i \in 1 .. Len(catches)
  PROVE  /\ Chain(i) \subseteq 1 .. Len(catches) /\ (i # 0 => i \in Chain(i))
         /\ \A j \in Chain(i) : catches[j].outer_active_catch # 0 => catches[j].outer_active_catch \in Chain(i)
         /\ \A X \in SUBSET (1 .. Len(catches)) :
              /\ i # 0 => i \in X
              /\ \A j \in X : catches[j].outer_active_catch # 0 => catches[j].outer_active_catch \in X
              => Chain(i) \subseteq X
<1> DEFINE D == 1 .. Len(catches)
           succ == [j \in D |-> {catches[j].outer_active_catch} \ {0}]
<1>1. IsFiniteSet(D)
  BY UpTo
<1>2. \A j \in D : {catches[j].outer_active_catch} \ {0} \in SUBSET D
  <2> TAKE j \in D
  <2>1. catches[j].outer_active_catch \in 0 .. j - 1 /\ j \in Nat /\ j <= Len(catches)
    OBVIOUS
  <2>. QED
    BY <2>1
<1>3. succ \in [D -> SUBSET D] /\ {i} \ {0} \in SUBSET D
  BY <1>2
<1>4. Chain(i) = Closure(succ, {i} \ {0})
  BY DEF Chain
<1>5. \A j \in D : succ[j] = {catches[j].outer_active_catch} \ {0}
  OBVIOUS
<1> HIDE DEF D, succ
<1>6. PICK C : C = Closure(succ, {i} \ {0})
  OBVIOUS
<1>7. /\ {i} \ {0} \subseteq C /\ C \subseteq D /\ ClosedUnder(succ, C)
      /\ \A X \in SUBSET D : {i} \ {0} \subseteq X /\ ClosedUnder(succ, X) => C \subseteq X
  BY <1>1, <1>3, <1>6, ClosureIsLeast
<1>8. \A j \in C : catches[j].outer_active_catch # 0 => catches[j].outer_active_catch \in C
  BY <1>5, <1>7 DEF ClosedUnder
<1>9. ASSUME NEW X \in SUBSET D, i # 0 => i \in X,
             \A j \in X : catches[j].outer_active_catch # 0 => catches[j].outer_active_catch \in X
      PROVE  C \subseteq X
  <2>1. ClosedUnder(succ, X)
    BY <1>5, <1>9 DEF ClosedUnder
  <2>. QED
    BY <1>7, <1>9, <2>1
<1>. QED
  BY <1>4, <1>6, <1>7, <1>8, <1>9 DEF D

\* Whoever somebody can still come back to is used.
LEMMA ChainUsed ==
  ASSUME NEW used, Invs(used), NEW i, i # 0 => i \in used
  PROVE  /\ Chain(i) \subseteq used /\ (i # 0 => i \in Chain(i))
         /\ \A j \in Chain(i) : catches[j].outer_active_catch # 0 => catches[j].outer_active_catch \in Chain(i)
         /\ (\A q \in Levels : i # 0 => BaseAt(q).catch < i)
               => \A j \in Chain(i) : \A q \in Levels : BaseAt(q).catch < j
<1>1. Typed /\ CatchesOK(used) /\ used \in SUBSET (1 .. Len(catches))
  BY DEF Invs, CatchesOK
<1>2. Len(catches) \in Nat
  BY <1>1, StackAt
<1>3. \A j \in 1 .. Len(catches) : catches[j].outer_active_catch \in 0 .. j - 1
  <2> TAKE j \in 1 .. Len(catches)
  <2>1. catches[j].outer_active_catch \in Nat /\ catches[j].outer_active_catch < j /\ j \in Nat
    BY <1>1, StackAt DEF CatchesOK
  <2>. QED
    BY <2>1
<1>4. i # 0 => i \in 1 .. Len(catches)
  BY <1>1
<1>5. \A j \in used : catches[j].outer_active_catch # 0 => catches[j].outer_active_catch \in used
  BY <1>1 DEF CatchesOK, EntryLinked
<1>6. Chain(i) \subseteq used
  BY <1>1, <1>2, <1>3, <1>4, <1>5, ChainIn
<1>7. (i # 0 => i \in Chain(i))
      /\ \A j \in Chain(i) : catches[j].outer_active_catch # 0 => catches[j].outer_active_catch \in Chain(i)
  BY <1>2, <1>3, <1>4, ChainIn
<1>8. ASSUME \A q \in Levels : i # 0 => BaseAt(q).catch < i
      PROVE  \A j \in Chain(i) : \A q \in Levels : BaseAt(q).catch < j
  <2> DEFINE X == {j \in used : \A q \in Levels : BaseAt(q).catch < j}
  <2>1. X \in SUBSET (1 .. Len(catches)) /\ (i # 0 => i \in X)
    BY <1>1, <1>8
  <2>2. ASSUME NEW j \in X, catches[j].outer_active_catch # 0
        PROVE  catches[j].outer_active_catch \in X
    <3>1. PICK k : k = catches[j].outer_active_catch
      OBVIOUS
    <3>2. k \in used
      BY <1>5, <2>2, <3>1
    <3>3. ASSUME NEW q \in Levels
          PROVE  BaseAt(q).catch < k
      <4>1. PICK b : b = BaseAt(q).catch
        OBVIOUS
      <4>2. b \in Nat /\ j \in Nat /\ b < j
        BY <1>1, <4>1, LevelAt, StackAt
      <4>3. ~(j <= b)
        BY <4>2
      <4>4. EntryFenced(j, q)
        BY <1>1 DEF CatchesOK
      <4>. QED
        BY <2>2, <3>1, <4>1, <4>3, <4>4 DEF EntryFenced
    <3>. QED
      BY <3>1, <3>2, <3>3
  <2>3. Chain(i) \subseteq X
    <3> HIDE DEF X
    <3>. QED
      BY <1>2, <1>3, <1>4, <2>1, <2>2, ChainIn
  <2>. QED
    BY <2>3
<1>. QED
  BY <1>6, <1>7, <1>8

LEMMA ThrowKeeps ==
  ASSUME HeapInv, Throw
  PROVE  HeapInv'
<1>1. PICK used : Invs(used) /\ RunningOK(used) /\ PointUpByTrail(heap, trail, old_top)
  BY InvParts
<1>2. PICK c, k : c = Len(catches) /\ k = Len(outer)
  OBVIOUS
<1>3. PICK i \in Chain(active_catch) :
        /\ Release(catches[i].heap_mark, catches[i].trail_mark)
        /\ frames' = SubSeq(frames, 1, catches[i].sp_at_entry)
        /\ cn' = catches[i].goals /\ active_catch' = catches[i].outer_active_catch
  BY DEF Throw
<1>4. UNCHANGED <<catches, answer, base, outer>>
  BY DEF Throw, query
<1>5. i \in used /\ \A q \in Levels : BaseAt(q).catch < i
  BY <1>1, <1>3, ChainUsed DEF RunningOK
<1>6. PICK e : e = catches[i]
  OBVIOUS
<1>7. PICK hm, tm, n, j : /\ hm = e.heap_mark /\ tm = e.trail_mark /\ n = e.sp_at_entry
                          /\ j = e.outer_active_catch
  OBVIOUS
<1>8. /\ Release(hm, tm) /\ frames' = SubSeq(frames, 1, n) /\ cn' = e.goals /\ active_catch' = j
  BY <1>3, <1>6, <1>7
<1>9. i \in 1 .. c /\ i \in Nat /\ hm \in Nat /\ tm \in Nat /\ n \in Nat /\ j \in Nat /\ c \in Nat /\ k \in Nat
  <2>1. i \in 1 .. Len(catches)
    BY <1>1, <1>5, TopAt DEF CatchesOK
  <2>. QED
    BY <1>1, <1>2, <1>6, <1>7, <2>1, StackAt, TopAt
<1>10. EntryLinked(used, i) /\ EntryAfter(i) /\ \A q \in Levels : EntryFenced(i, q)
  BY <1>1, <1>5, TopAt DEF CatchesOK
<1>11. SnapOK(heap, trail, hm, tm, e.goals, answer, e.was)
  <2>1. PICK q \in Levels : EntryOf(i, q) /\ EntrySnap(i, q)
    BY <1>1, <1>5, TopAt DEF CatchesOK
  <2>2. base.catch < i
    BY <1>1, <1>5, TopAt
  <2>3. q = Len(outer)
    BY <1>1, <1>9, <2>1, <2>2, OwnLevel, TopAt
  <2>4. AnswerAt(q) = answer
    BY <1>1, <2>3, TopAt
  <2>. QED
    BY <1>6, <1>7, <2>1, <2>4 DEF EntrySnap
<1>12. Resets(heap, trail, hm, tm, heap', trail') /\ old_top' = Least(old_top, hm)
  <2>1. MarkOK(heap, trail, hm, tm) /\ StoreOK(heap, trail)
    BY <1>1, <1>11, TopAt DEF SnapOK
  <2>. QED
    BY <1>8, <2>1, ReleaseIs
<1>13. ASSUME NEW q \in Levels
       PROVE  /\ BaseAt(q).heap <= hm /\ TMark(q) <= tm /\ BaseAt(q).sp <= n /\ BaseAt(q).heap < e.goals
              /\ j # 0 => BaseAt(q).catch < j
  <2>1. PICK b : b = BaseAt(q).catch
    OBVIOUS
  <2>2. b \in Nat /\ b < i
    BY <1>1, <1>5, <2>1, LevelAt, TopAt
  <2>3. ~(i <= b)
    BY <1>9, <2>2
  <2>. QED
    BY <1>6, <1>7, <1>10, <2>1, <2>3 DEF EntryFenced
<1>14. n \in 0 .. Len(frames) /\ \A m \in 1 .. n : m \in 1 .. Len(frames)
  <2>1. n <= Len(frames) /\ Len(frames) \in Nat
    BY <1>1, <1>6, <1>7, <1>10, TopAt DEF EntryAfter
  <2>. QED
    BY <1>9, <2>1
<1>15. ASSUME NEW m \in 1 .. n
       PROVE  /\ frames[m].heap_mark <= hm /\ frames[m].trail_mark <= tm /\ frames[m].active_catch <= c
  <2>1. Earlier(frames[m], e)
    BY <1>6, <1>7, <1>10 DEF EntryAfter
  <2>2. m \in 1 .. Len(frames) /\ FrameLinked(used, m)
    BY <1>1, <1>14, TopAt DEF FramesOK
  <2>3. PICK d : d = frames[m].active_catch
    OBVIOUS
  <2>4. d # 0 => d \in 1 .. c
    BY <1>1, <1>2, <2>2, <2>3, TopAt DEF FrameLinked, CatchesOK
  <2>5. d <= c
    BY <1>9, <2>4
  <2>. QED
    BY <1>7, <2>1, <2>3, <2>5 DEF Earlier
<1>16. CutsTo(hm, tm, n, c, k)
  <2>1. /\ c \in 0 .. Len(catches) /\ catches' = SubSeq(catches, 1, c)
        /\ k \in Levels /\ outer' = SubSeq(outer, 1, k) /\ base' = BaseAt(k) /\ answer' = AnswerAt(k)
        /\ BaseAt(k).catch <= c
    BY <1>1, <1>2, <1>4, <1>9, TopAt
  <2>2. ~(k < Len(outer))
    BY <1>2, <1>9
  <2>3. BaseAt(k).heap <= hm /\ TMark(k) <= tm /\ BaseAt(k).sp <= n
    BY <1>13, <2>1
  <2>. QED
    BY <1>8, <1>12, <1>14, <1>15, <2>1, <2>2, <2>3 DEF CutsTo
<1>17. ASSUME j # 0
       PROVE  j \in StillUsed(used, hm, tm, n, c)
  <2>1. j \in used /\ Earlier(catches[j], e) /\ catches[j].sp_at_entry <= n
    BY <1>6, <1>7, <1>10, <1>17 DEF EntryLinked
  <2>2. j \in 1 .. c
    BY <1>1, <1>2, <2>1, TopAt DEF CatchesOK
  <2>3. j <= c
    BY <1>9, <2>2
  <2>. QED
    BY <1>7, <2>1, <2>3 DEF StillUsed, Earlier
<1>18. SnapOK(heap, trail, hm, tm, cn', answer', e.was)
  BY <1>4, <1>8, <1>11
<1>19. \A q \in 0 .. k : q \in Levels
  BY <1>2 DEF Levels
<1>20. \A q \in 0 .. k : BaseAt(q).heap < cn'
  BY <1>8, <1>13, <1>19
<1>21. active_catch' \in Nat
  BY <1>8, <1>9
<1>22. active_catch' # 0 => /\ active_catch' \in StillUsed(used, hm, tm, n, c)
                            /\ \A q \in 0 .. k : BaseAt(q).catch < active_catch'
  BY <1>8, <1>13, <1>17, <1>19
<1>. QED
  BY <1>1, <1>12, <1>16, <1>18, <1>20, <1>21, <1>22, CutsInv

LEMMA DirectiveEndsKeeps ==
  ASSUME HeapInv, DirectiveEnds
  PROVE  HeapInv'
<1>1. PICK used : Invs(used) /\ PointUpByTrail(heap, trail, old_top)
  BY InvParts
<1>2. PICK l, o : l = Len(outer) /\ o = outer[l]
  OBVIOUS
<1>3. /\ outer \in Seq(WaitType) /\ outer # <<>> /\ Typed
  BY <1>1, TopAt DEF DirectiveEnds, Typed
<1>4. l \in Nat /\ l \in 1 .. Len(outer) /\ l - 1 \in 0 .. l /\ l - 1 \in Levels /\ l \in Levels /\ l # 0
  <2>1. l \in Nat /\ l # 0
    BY <1>2, <1>3
  <2>. QED
    BY <1>2, <2>1 DEF Levels
<1>5. PICK k : k = l - 1
  OBVIOUS
<1>6. k \in Nat /\ k \in Levels /\ k < Len(outer) /\ k + 1 = l /\ k # Len(outer) /\ k <= l
  BY <1>2, <1>4, <1>5
<1>7. PICK hm, tm, c, i, n : /\ hm = o.hmark /\ tm = o.tmark /\ c = o.cmark /\ i = o.active_catch
                             /\ n = base.sp
  OBVIOUS
<1>8. /\ Release(hm, tm) /\ catches' = SubSeq(catches, 1, c) /\ frames' = SubSeq(frames, 1, n)
      /\ outer' = SubSeq(outer, 1, k) /\ cn' = o.cn /\ answer' = o.answer
      /\ active_catch' = i /\ base' = o.base
  BY <1>2, <1>5, <1>7 DEF DirectiveEnds
<1>9. /\ n \in Nat /\ hm \in Nat /\ tm \in Nat /\ c \in Nat /\ i \in Nat
      /\ n \in 0 .. Len(frames) /\ \A m \in 1 .. n : m \in 1 .. Len(frames)
  <2>1. hm \in Nat /\ tm \in Nat /\ c \in Nat /\ i \in Nat
    BY <1>2, <1>3, <1>4, <1>7, StackAt
  <2>2. n \in Nat /\ n <= Len(frames) /\ Len(frames) \in Nat
    BY <1>1, <1>7, TopAt
  <2>. QED
    BY <2>1, <2>2
<1>10. /\ BaseAt(l) = base /\ base.heap = hm /\ base.catch = c /\ TMark(l) = tm
       /\ base' = BaseAt(k) /\ answer' = AnswerAt(k)
  <2>1. BaseAt(l) = base
    BY <1>1, <1>2, TopAt
  <2>2. base.heap = hm /\ base.catch = c
    BY <1>1, <1>2, <1>4, <1>7, <2>1, TopAt DEF BasesOK
  <2>3. TMark(l) = tm
    BY <1>2, <1>4, <1>7 DEF TMark
  <2>. QED
    BY <1>2, <1>6, <1>8, <2>1, <2>2, <2>3 DEF BaseAt, AnswerAt
<1>11. WaitLinked(used, l) /\ WaitSnap(l)
  BY <1>1, <1>4, TopAt DEF WaitingOK
<1>12. SnapOK(heap, trail, hm, tm, o.cn, o.answer, o.was)
  BY <1>2, <1>7, <1>11 DEF WaitSnap
<1>13. Resets(heap, trail, hm, tm, heap', trail') /\ old_top' = Least(old_top, hm)
  <2>1. MarkOK(heap, trail, hm, tm) /\ StoreOK(heap, trail)
    BY <1>1, <1>12, TopAt DEF SnapOK
  <2>. QED
    BY <1>8, <2>1, ReleaseIs
<1>14. ASSUME NEW m \in 1 .. n
       PROVE  frames[m].heap_mark <= hm /\ frames[m].trail_mark <= tm /\ frames[m].active_catch <= c
  <2>1. FrameFenced(m, l) /\ m <= n
    BY <1>1, <1>4, <1>9, TopAt DEF FramesOK
  <2>. QED
    BY <1>7, <1>10, <2>1 DEF FrameFenced
<1>15. CutsTo(hm, tm, n, c, k)
  <2>1. c \in 0 .. Len(catches)
    <3>1. c <= Len(catches) /\ Len(catches) \in Nat
      BY <1>1, <1>10, TopAt
    <3>. QED
      BY <1>9, <3>1
  <2>2. BaseAt(k).heap <= hm /\ TMark(k) <= tm /\ BaseAt(k).sp <= n /\ BaseAt(k).catch <= c
    <3>1. Rising(k, l)
      BY <1>1, <1>2, <1>6, TopAt
    <3>. QED
      BY <1>7, <1>10, <3>1 DEF Rising
  <2>3. n <= BaseAt(k + 1).sp /\ c <= BaseAt(k + 1).catch
    BY <1>6, <1>7, <1>9, <1>10
  <2>. QED
    BY <1>6, <1>8, <1>9, <1>10, <1>13, <1>14, <2>1, <2>2, <2>3 DEF CutsTo
<1>16. \A q \in 0 .. k : q \in Levels /\ q \in 0 .. l - 1
  BY <1>2, <1>5, <1>4 DEF Levels
<1>17. ASSUME i # 0
       PROVE  i \in StillUsed(used, hm, tm, n, c) /\ \A q \in 0 .. k : BaseAt(q).catch < i
  <2>1. i \in used /\ i <= c /\ \A q \in 0 .. l - 1 : BaseAt(q).catch < i
    BY <1>2, <1>7, <1>11, <1>17 DEF WaitLinked
  <2>2. EntryFenced(i, l)
    BY <1>1, <1>4, <2>1, TopAt DEF CatchesOK
  <2>3. catches[i].heap_mark <= hm /\ catches[i].trail_mark <= tm /\ catches[i].sp_at_entry <= n
    BY <1>7, <1>10, <2>1, <2>2 DEF EntryFenced
  <2>. QED
    BY <1>16, <2>1, <2>3 DEF StillUsed
<1>18. SnapOK(heap, trail, hm, tm, cn', answer', o.was)
  BY <1>8, <1>12
<1>19. \A q \in 0 .. k : BaseAt(q).heap < cn'
  BY <1>2, <1>8, <1>11, <1>16 DEF WaitSnap
<1>20. active_catch' \in Nat
  BY <1>8, <1>9
<1>21. active_catch' # 0 => /\ active_catch' \in StillUsed(used, hm, tm, n, c)
                            /\ \A q \in 0 .. k : BaseAt(q).catch < active_catch'
  BY <1>8, <1>17
<1>. QED
  BY <1>1, <1>13, <1>15, <1>18, <1>19, <1>20, <1>21, CutsInv

(***************************************************************************)
(* Steps that grow a stack: everything there is comes before now.          *)
(***************************************************************************)
Now == Terms(heap, <<cn, answer>>)

LEMMA NowAt ==
  ASSUME NEW used, Invs(used), RunningOK(used)
  PROVE  /\ Len(heap) \in Nat /\ Len(trail) \in Nat
         /\ SnapOK(heap, trail, Len(heap), Len(trail), cn, answer, Now) /\ Now \in Canon
         /\ Frame \in FrameType /\ Entry \in EntryType
         /\ \A hm, tm : MarkOK(heap, trail, hm, tm) => hm <= Len(heap) /\ tm <= Len(trail)
         /\ \A n \in 1 .. Len(frames) : /\ frames[n].heap_mark <= Len(heap) /\ frames[n].trail_mark <= Len(trail)
                                        /\ frames[n].active_catch <= Len(catches)
         /\ \A i \in used : /\ catches[i].heap_mark <= Len(heap) /\ catches[i].trail_mark <= Len(trail)
                            /\ catches[i].sp_at_entry <= Len(frames)
         /\ \A q \in Levels : /\ BaseAt(q).heap <= Len(heap) /\ TMark(q) <= Len(trail)
                              /\ BaseAt(q).sp <= Len(frames) /\ BaseAt(q).catch <= Len(catches)
         /\ active_catch # 0 => active_catch \in used /\ active_catch \in 1 .. Len(catches)
<1>1. /\ StoreOK(heap, trail) /\ HeapOK(heap) /\ TrailOK(heap, trail) /\ Typed
      /\ FramesOK(used) /\ CatchesOK(used) /\ BasesOK /\ FencesOK
      /\ Len(frames) \in Nat /\ Len(catches) \in Nat
  BY TopAt DEF Invs, StoreOK
<1>2. Len(heap) \in Nat /\ Len(trail) \in Nat
  BY <1>1, CellAt, TrailAt
<1>3. cn \in 1 .. Len(heap) /\ answer \in 1 .. Len(heap) /\ cn \in Pointable(heap) /\ answer \in Pointable(heap)
  BY DEF RunningOK, Pointable
<1>4. Now \in Canon
  BY <1>1, <1>3, TermsType DEF Now
<1>5. PICK hm, tm, was : hm = Len(heap) /\ tm = Len(trail) /\ was = Now
  OBVIOUS
<1>6. MarkOK(heap, trail, hm, tm) /\ Rel(heap, trail, hm, tm) = heap
  BY <1>1, <1>5, MarkNow
<1>7. SnapOK(heap, trail, hm, tm, cn, answer, was)
  BY <1>3, <1>5, <1>6 DEF SnapOK, Now
<1>8. active_catch \in Nat /\ cn \in Nat
  BY <1>1 DEF Typed
<1>9. Frame \in FrameType /\ Entry \in EntryType
  <2>1. Frame = [goals |-> cn, heap_mark |-> hm, trail_mark |-> tm, active_catch |-> active_catch, was |-> was]
    BY <1>5 DEF Frame, Now
  <2>2. Entry = [goals |-> cn, heap_mark |-> hm, trail_mark |-> tm, sp_at_entry |-> Len(frames),
                 outer_active_catch |-> active_catch, was |-> was]
    BY <1>5 DEF Entry, Now
  <2>3. was \in Canon /\ hm \in Nat /\ tm \in Nat
    BY <1>2, <1>4, <1>5
  <2>. QED
    BY <1>1, <1>8, <2>1, <2>2, <2>3 DEF FrameType, EntryType
<1>10. \A h1, t1 : MarkOK(heap, trail, h1, t1) => h1 <= Len(heap) /\ t1 <= Len(trail)
  BY <1>2 DEF MarkOK
<1>11. ASSUME NEW n \in 1 .. Len(frames)
       PROVE  /\ frames[n].heap_mark <= Len(heap) /\ frames[n].trail_mark <= Len(trail)
              /\ frames[n].active_catch <= Len(catches)
  <2>1. FrameLinked(used, n) /\ \E q \in Levels : FrameSnap(n, q)
    BY <1>1 DEF FramesOK
  <2>2. MarkOK(heap, trail, frames[n].heap_mark, frames[n].trail_mark)
    BY <2>1 DEF FrameSnap, SnapOK
  <2>3. PICK d : d = frames[n].active_catch
    OBVIOUS
  <2>4. d # 0 => d \in 1 .. Len(catches)
    BY <1>1, <2>1, <2>3 DEF FrameLinked, CatchesOK
  <2>5. d <= Len(catches)
    BY <1>1, <2>4
  <2>. QED
    BY <1>10, <2>2, <2>3, <2>5
<1>12. ASSUME NEW i \in used
       PROVE  /\ catches[i].heap_mark <= Len(heap) /\ catches[i].trail_mark <= Len(trail)
              /\ catches[i].sp_at_entry <= Len(frames)
  <2>1. EntryAfter(i) /\ \E q \in Levels : EntrySnap(i, q)
    BY <1>1 DEF CatchesOK
  <2>2. MarkOK(heap, trail, catches[i].heap_mark, catches[i].trail_mark)
    BY <2>1 DEF EntrySnap, SnapOK
  <2>. QED
    BY <1>10, <2>1, <2>2 DEF EntryAfter
<1>13. ASSUME NEW q \in Levels
       PROVE  /\ BaseAt(q).heap <= Len(heap) /\ TMark(q) <= Len(trail)
              /\ BaseAt(q).sp <= Len(frames) /\ BaseAt(q).catch <= Len(catches)
  <2>1. FenceOK(heap, trail, BaseAt(q).heap, TMark(q))
    BY <1>1 DEF FencesOK
  <2>. QED
    BY <1>1, <1>2, <2>1 DEF FenceOK, BasesOK
<1>14. active_catch # 0 => active_catch \in used /\ active_catch \in 1 .. Len(catches)
  BY <1>1 DEF RunningOK, CatchesOK
<1>. QED
  BY <1>2, <1>4, <1>5, <1>7, <1>9, <1>10, <1>11, <1>12, <1>13, <1>14

LEMMA PushKeeps ==
  ASSUME HeapInv, Push
  PROVE  HeapInv'
<1>1. PICK used : Invs(used) /\ RunningOK(used) /\ PointUpByTrail(heap, trail, old_top)
  BY InvParts
<1>2. /\ UNCHANGED <<heap, trail, cn, catches, active_catch, answer, base, outer, old_top>>
      /\ frames' = Append(frames, Frame)
  BY DEF Push, store, query
<1>3. /\ Levels' = Levels
      /\ \A q : BaseAt(q)' = BaseAt(q) /\ TMark(q)' = TMark(q) /\ AnswerAt(q)' = AnswerAt(q)
  BY <1>2 DEF Levels, BaseAt, TMark, AnswerAt
<1>4. PICK l : l = Len(frames)
  OBVIOUS
<1>5. PICK f : f = Frame
  OBVIOUS
<1>6. /\ l \in Nat /\ f \in FrameType /\ frames \in Seq(FrameType)
      /\ f.goals = cn /\ f.heap_mark = Len(heap) /\ f.trail_mark = Len(trail)
      /\ f.active_catch = active_catch /\ f.was = Now
  BY <1>1, <1>4, <1>5, NowAt, TopAt DEF Frame, Now, Typed
<1>7. /\ frames' \in Seq(FrameType) /\ Len(frames') = l + 1 /\ frames'[l + 1] = f
      /\ \A n \in 1 .. l : frames'[n] = frames[n]
  <2>1. \A n \in 1 .. l : n \in 1 .. l + 1 /\ n # l + 1
    BY <1>6
  <2>2. l + 1 \in 1 .. l + 1
    BY <1>6
  <2>. QED
    BY <1>2, <1>4, <1>5, <1>6, <2>1, <2>2, AppendProperties
<1>8. Typed'
  BY <1>1, <1>2, <1>7, TopAt DEF Typed
<1>9. \A n \in 1 .. l + 1 : n = l + 1 \/ n \in 1 .. l
  BY <1>6
<1>10. BasesOK'
  <2>1. ASSUME NEW q \in Levels
        PROVE  BaseAt(q).sp <= l + 1
    <3>1. PICK s : s = BaseAt(q).sp
      OBVIOUS
    <3>2. s \in Nat /\ s <= l
      BY <1>1, <1>4, <3>1, LevelAt, NowAt, TopAt
    <3>3. s <= l + 1
      BY ONLY <1>6, <3>2
    <3>. QED
      BY <3>1, <3>3
  <2>. QED
    BY <1>1, <1>2, <1>3, <1>7, <2>1, TopAt DEF BasesOK, Rising
<1>11. FencesOK'
  BY <1>1, <1>2, <1>3 DEF FencesOK, Invs
<1>12. ASSUME NEW n \in 1 .. l
       PROVE  /\ FrameLinked(used, n)' /\ FrameAfter(n)' /\ \A q \in Levels : FrameFenced(n, q)'
              /\ \E q \in Levels : FrameOf(n, q)' /\ FrameSnap(n, q)'
  <2>1. /\ FrameLinked(used, n) /\ FrameAfter(n) /\ \A q \in Levels : FrameFenced(n, q)
        /\ \E q \in Levels : FrameOf(n, q) /\ FrameSnap(n, q)
    BY <1>1, <1>4, TopAt DEF FramesOK
  <2>2. frames'[n] = frames[n] /\ \A m \in 1 .. n : m \in 1 .. l /\ frames'[m] = frames[m]
    <3>1. \A m \in 1 .. n : m \in 1 .. l
      BY <1>6
    <3>. QED
      BY <1>7, <3>1
  <2>3. FrameLinked(used, n)' /\ FrameAfter(n)' /\ \A q \in Levels : FrameFenced(n, q)'
    BY <1>2, <1>3, <2>1, <2>2 DEF FrameLinked, FrameAfter, FrameFenced
  <2>4. \E q \in Levels : FrameOf(n, q)' /\ FrameSnap(n, q)'
    BY <1>2, <1>3, <2>1, <2>2 DEF FrameOf, FrameSnap
  <2>. QED
    BY <2>3, <2>4
<1>13. FrameLinked(used, l + 1)'
  <2> SUFFICES ASSUME active_catch # 0
               PROVE  /\ active_catch \in used /\ Earlier(catches[active_catch], f)
                      /\ catches[active_catch].sp_at_entry < l + 1
    BY <1>2, <1>6, <1>7 DEF FrameLinked
  <2>1. PICK i : i = active_catch
    OBVIOUS
  <2>2. i \in used /\ i \in 1 .. Len(catches)
    BY <1>1, <2>1, NowAt
  <2>3. /\ catches[i].heap_mark <= Len(heap) /\ catches[i].trail_mark <= Len(trail)
        /\ catches[i].sp_at_entry <= l /\ catches[i].sp_at_entry \in Nat
    BY <1>1, <1>4, <2>2, NowAt, StackAt, TopAt
  <2>4. catches[i].sp_at_entry < l + 1
    BY <1>6, <2>3
  <2>. QED
    BY <1>6, <2>1, <2>2, <2>3, <2>4 DEF Earlier
<1>14. FrameAfter(l + 1)'
  <2>1. ASSUME NEW m \in 1 .. l + 1
        PROVE  Earlier(frames'[m], f)
    <3>1. CASE m = l + 1
      BY <1>1, <1>6, <1>7, <3>1, NowAt DEF Earlier
    <3>2. CASE m \in 1 .. l
      BY <1>1, <1>4, <1>6, <1>7, <3>2, NowAt DEF Earlier
    <3>. QED
      BY <1>9, <3>1, <3>2
  <2>. QED
    BY <1>7, <2>1 DEF FrameAfter
<1>15. ASSUME NEW q \in Levels
       PROVE  FrameFenced(l + 1, q)'
  <2>1. PICK s : s = BaseAt(q).sp
    OBVIOUS
  <2>2. s \in Nat /\ s <= l
    BY <1>1, <1>4, <2>1, LevelAt, NowAt, TopAt
  <2>3. ~(l + 1 <= s)
    BY ONLY <1>6, <2>2
  <2>4. BaseAt(q).heap <= Len(heap) /\ TMark(q) <= Len(trail)
    BY <1>1, NowAt
  <2>5. BaseAt(q).heap < cn /\ (active_catch # 0 => BaseAt(q).catch < active_catch)
    BY <1>1 DEF RunningOK
  <2>. QED
    BY <1>3, <1>6, <1>7, <2>1, <2>3, <2>4, <2>5 DEF FrameFenced
<1>16. \E q \in Levels : \A n : n = l + 1 => FrameOf(n, q)' /\ FrameSnap(n, q)'
  <2>1. PICK q : q = Len(outer)
    OBVIOUS
  <2>2. /\ q \in Levels /\ BaseAt(q) = base /\ AnswerAt(q) = answer
        /\ base.sp <= l /\ base.sp \in Nat /\ ~(q < Len(outer))
    BY <1>1, <1>4, <2>1, TopAt
  <2>3. base.sp < l + 1
    BY <1>6, <2>2
  <2>4. SnapOK(heap, trail, f.heap_mark, f.trail_mark, f.goals, answer, f.was)
    BY <1>1, <1>6, NowAt
  <2>5. ASSUME NEW n, n = l + 1
        PROVE  FrameOf(n, q)' /\ FrameSnap(n, q)'
    <3>1. FrameOf(n, q)'
      BY <1>2, <1>3, <2>2, <2>3, <2>5 DEF FrameOf
    <3>2. FrameSnap(n, q)'
      BY <1>2, <1>3, <1>7, <2>2, <2>4, <2>5 DEF FrameSnap
    <3>. QED
      BY <3>1, <3>2
  <2>. QED
    BY <2>2, <2>5
<1>17. FramesOK(used)'
  <2>1. ASSUME NEW n \in 1 .. l + 1
        PROVE  /\ FrameLinked(used, n)' /\ FrameAfter(n)' /\ \A q \in Levels : FrameFenced(n, q)'
               /\ \E q \in Levels : FrameOf(n, q)' /\ FrameSnap(n, q)'
    <3>1. CASE n \in 1 .. l
      BY <1>12, <3>1
    <3>2. CASE n = l + 1
      <4>1. FrameLinked(used, n)' /\ FrameAfter(n)'
        BY <1>13, <1>14, <3>2 DEF FrameLinked, FrameAfter
      <4>2. \A q \in Levels : FrameFenced(n, q)'
        BY <1>15, <3>2 DEF FrameFenced
      <4>3. \E q \in Levels : FrameOf(n, q)' /\ FrameSnap(n, q)'
        BY <1>16, <3>2
      <4>. QED
        BY <4>1, <4>2, <4>3
    <3>. QED
      BY <1>9, <3>1, <3>2
  <2>. QED
    BY <1>3, <1>7, <2>1 DEF FramesOK
<1>18. CatchesOK(used)'
  <2>1. ASSUME NEW i \in used
        PROVE  /\ EntryLinked(used, i)' /\ EntryAfter(i)' /\ \A q \in Levels : EntryFenced(i, q)'
               /\ \E q \in Levels : EntryOf(i, q)' /\ EntrySnap(i, q)'
    <3>1. /\ EntryLinked(used, i) /\ EntryAfter(i) /\ \A q \in Levels : EntryFenced(i, q)
          /\ \E q \in Levels : EntryOf(i, q) /\ EntrySnap(i, q)
      BY <1>1, TopAt DEF CatchesOK
    <3>2. EntryLinked(used, i)' /\ \A q \in Levels : EntryFenced(i, q)'
      BY <1>2, <1>3, <3>1 DEF EntryLinked, EntryFenced
    <3>3. \E q \in Levels : EntryOf(i, q)' /\ EntrySnap(i, q)'
      BY <1>2, <1>3, <3>1 DEF EntryOf, EntrySnap
    <3>4. PICK s : s = catches[i].sp_at_entry
      OBVIOUS
    <3>5. s \in Nat /\ s <= l
      BY <1>1, <1>4, <3>4, NowAt, StackAt, TopAt DEF CatchesOK
    <3>6. s <= l + 1 /\ \A m \in 1 .. s : m \in 1 .. l
      BY ONLY <1>6, <3>5
    <3>7. EntryAfter(i)'
      BY <1>2, <1>7, <3>1, <3>4, <3>6 DEF EntryAfter
    <3>. QED
      BY <3>2, <3>3, <3>7
  <2>2. used \subseteq 1 .. Len(catches') /\ \A i \in 1 .. Len(catches') : catches'[i].outer_active_catch < i
    BY <1>1, <1>2, TopAt DEF CatchesOK
  <2>. QED
    BY <1>3, <2>1, <2>2 DEF CatchesOK
<1>19. WaitingOK(used)'
  <2>1. ASSUME NEW q \in 1 .. Len(outer)
        PROVE  WaitLinked(used, q)' /\ WaitSnap(q)'
    <3>1. WaitLinked(used, q) /\ WaitSnap(q)
      BY <1>1, TopAt DEF WaitingOK
    <3>. QED
      BY <1>2, <1>3, <3>1 DEF WaitLinked, WaitSnap
  <2>. QED
    BY <1>2, <2>1 DEF WaitingOK
<1>20. Invs(used)'
  <2>1. StoreOK(heap', trail')
    BY <1>1, <1>2, TopAt
  <2>. QED
    BY <1>8, <1>10, <1>11, <1>17, <1>18, <1>19, <2>1 DEF Invs
<1>21. RunningOK(used)'
  BY <1>1, <1>2, <1>3 DEF RunningOK
<1>22. PointUpByTrail(heap', trail', old_top')
  BY <1>1, <1>2
<1>. QED
  BY <1>20, <1>21, <1>22, InvAgain

LEMMA CatchKeeps ==
  ASSUME HeapInv, Catch
  PROVE  HeapInv'
<1>1. PICK used : Invs(used) /\ RunningOK(used) /\ PointUpByTrail(heap, trail, old_top)
  BY InvParts
<1>2. /\ UNCHANGED <<heap, trail, cn, frames, answer, base, outer, old_top>>
      /\ catches' = Append(catches, Entry) /\ active_catch' = Len(catches) + 1
  BY DEF Catch, store, query
<1>3. /\ Levels' = Levels
      /\ \A q : BaseAt(q)' = BaseAt(q) /\ TMark(q)' = TMark(q) /\ AnswerAt(q)' = AnswerAt(q)
  BY <1>2 DEF Levels, BaseAt, TMark, AnswerAt
<1>4. PICK l, top : l = Len(catches) /\ top = l + 1
  OBVIOUS
<1>5. PICK e : e = Entry
  OBVIOUS
<1>6. /\ l \in Nat /\ top \in Nat /\ top = l + 1 /\ e \in EntryType /\ catches \in Seq(EntryType)
      /\ e.goals = cn /\ e.heap_mark = Len(heap) /\ e.trail_mark = Len(trail)
      /\ e.sp_at_entry = Len(frames) /\ e.outer_active_catch = active_catch /\ e.was = Now
  <2>1. l \in Nat /\ e \in EntryType /\ catches \in Seq(EntryType)
    BY <1>1, <1>4, <1>5, NowAt, TopAt DEF Typed
  <2>2. top \in Nat
    BY ONLY <1>4, <2>1
  <2>3. /\ e.goals = cn /\ e.heap_mark = Len(heap) /\ e.trail_mark = Len(trail)
        /\ e.sp_at_entry = Len(frames) /\ e.outer_active_catch = active_catch /\ e.was = Now
    BY <1>5 DEF Entry, Now
  <2>. QED
    BY <1>4, <2>1, <2>2, <2>3
<1>7. /\ catches' \in Seq(EntryType) /\ Len(catches') = top /\ catches'[top] = e /\ active_catch' = top
      /\ \A i \in 1 .. l : catches'[i] = catches[i]
  <2>1. \A i \in 1 .. l : i \in 1 .. l + 1 /\ i # l + 1
    BY <1>6
  <2>2. l + 1 \in 1 .. l + 1
    BY <1>6
  <2>. QED
    BY <1>2, <1>4, <1>5, <1>6, <2>1, <2>2, AppendProperties
<1>8. Typed'
  BY <1>1, <1>2, <1>6, <1>7, TopAt DEF Typed
<1>9. PICK used2 : used2 = used \cup {top}
  OBVIOUS
<1>10. /\ used \subseteq 1 .. l /\ \A i \in used : catches'[i] = catches[i] /\ i \in used2
       /\ used2 \subseteq 1 .. top /\ top \in used2
  <2>1. used \subseteq 1 .. l
    BY <1>1, <1>4, TopAt DEF CatchesOK
  <2>2. 1 .. l \subseteq 1 .. top /\ top \in 1 .. top
    BY <1>6
  <2>. QED
    BY <1>7, <1>9, <2>1, <2>2
<1>11. ASSUME NEW q \in Levels
       PROVE  BaseAt(q).catch <= l /\ BaseAt(q).catch <= top /\ BaseAt(q).catch < top
  <2>1. PICK s : s = BaseAt(q).catch
    OBVIOUS
  <2>2. s \in Nat /\ s <= l
    BY <1>1, <1>4, <2>1, LevelAt, NowAt, TopAt
  <2>3. s <= top /\ s < top
    BY ONLY <1>6, <2>2
  <2>. QED
    BY <2>1, <2>2, <2>3
<1>12. BasesOK'
  BY <1>1, <1>2, <1>3, <1>7, <1>11, TopAt DEF BasesOK, Rising
<1>13. FencesOK'
  BY <1>1, <1>2, <1>3 DEF FencesOK, Invs
<1>14. FramesOK(used2)'
  <2>1. ASSUME NEW n \in 1 .. Len(frames)
        PROVE  /\ FrameLinked(used2, n)' /\ FrameAfter(n)' /\ \A q \in Levels : FrameFenced(n, q)'
               /\ \E q \in Levels : FrameOf(n, q)' /\ FrameSnap(n, q)'
    <3>1. /\ FrameLinked(used, n) /\ FrameAfter(n) /\ \A q \in Levels : FrameFenced(n, q)
          /\ \E q \in Levels : FrameOf(n, q) /\ FrameSnap(n, q)
      BY <1>1, TopAt DEF FramesOK
    <3>2. FrameLinked(used2, n)'
      BY <1>2, <1>10, <3>1 DEF FrameLinked
    <3>3. FrameAfter(n)' /\ \A q \in Levels : FrameFenced(n, q)'
      BY <1>2, <1>3, <3>1 DEF FrameAfter, FrameFenced
    <3>4. \E q \in Levels : FrameOf(n, q)' /\ FrameSnap(n, q)'
      BY <1>2, <1>3, <3>1 DEF FrameOf, FrameSnap
    <3>. QED
      BY <3>2, <3>3, <3>4
  <2>. QED
    BY <1>2, <1>3, <2>1 DEF FramesOK
<1>15. ASSUME NEW i \in used
       PROVE  /\ EntryLinked(used2, i)' /\ EntryAfter(i)' /\ \A q \in Levels : EntryFenced(i, q)'
              /\ \E q \in Levels : EntryOf(i, q)' /\ EntrySnap(i, q)'
  <2>1. /\ EntryLinked(used, i) /\ EntryAfter(i) /\ \A q \in Levels : EntryFenced(i, q)
        /\ \E q \in Levels : EntryOf(i, q) /\ EntrySnap(i, q)
    BY <1>1, TopAt DEF CatchesOK
  <2>2. catches'[i] = catches[i]
    BY <1>10
  <2>3. EntryLinked(used2, i)'
    BY <1>10, <2>1, <2>2 DEF EntryLinked
  <2>4. EntryAfter(i)' /\ \A q \in Levels : EntryFenced(i, q)'
    BY <1>2, <1>3, <2>1, <2>2 DEF EntryAfter, EntryFenced
  <2>5. \E q \in Levels : EntryOf(i, q)' /\ EntrySnap(i, q)'
    BY <1>2, <1>3, <2>1, <2>2 DEF EntryOf, EntrySnap
  <2>. QED
    BY <2>3, <2>4, <2>5
<1>16. EntryLinked(used2, top)'
  <2> SUFFICES ASSUME active_catch # 0
               PROVE  /\ active_catch \in used2 /\ Earlier(catches'[active_catch], e)
                      /\ catches'[active_catch].sp_at_entry <= e.sp_at_entry
    BY <1>6, <1>7 DEF EntryLinked
  <2>1. PICK i : i = active_catch
    OBVIOUS
  <2>2. i \in used
    BY <1>1, <2>1, NowAt
  <2>3. /\ catches[i].heap_mark <= Len(heap) /\ catches[i].trail_mark <= Len(trail)
        /\ catches[i].sp_at_entry <= Len(frames)
    BY <1>1, <2>2, NowAt
  <2>. QED
    BY <1>6, <1>10, <2>1, <2>2, <2>3 DEF Earlier
<1>17. EntryAfter(top)'
  <2>1. PICK s : s = Len(frames)
    OBVIOUS
  <2>2. s <= s
    BY <1>1, <2>1, TopAt
  <2>3. \A m \in 1 .. s : Earlier(frames[m], e)
    BY <1>1, <1>6, <2>1, NowAt DEF Earlier
  <2>. QED
    BY <1>2, <1>6, <1>7, <2>1, <2>2, <2>3 DEF EntryAfter
<1>18. ASSUME NEW q \in Levels
       PROVE  EntryFenced(top, q)'
  <2>1. PICK s : s = BaseAt(q).catch
    OBVIOUS
  <2>2. s \in Nat /\ s < top
    BY <1>1, <1>11, <2>1, LevelAt, TopAt
  <2>3. ~(top <= s)
    BY ONLY <1>6, <2>2
  <2>4. BaseAt(q).heap <= Len(heap) /\ TMark(q) <= Len(trail) /\ BaseAt(q).sp <= Len(frames)
    BY <1>1, NowAt
  <2>5. BaseAt(q).heap < cn /\ (active_catch # 0 => BaseAt(q).catch < active_catch)
    BY <1>1 DEF RunningOK
  <2>. QED
    BY <1>3, <1>6, <1>7, <2>1, <2>3, <2>4, <2>5 DEF EntryFenced
<1>19. \E q \in Levels : EntryOf(top, q)' /\ EntrySnap(top, q)'
  <2>1. PICK q : q = Len(outer)
    OBVIOUS
  <2>2. q \in Levels /\ BaseAt(q) = base /\ AnswerAt(q) = answer /\ ~(q < Len(outer)) /\ BaseAt(q).catch < top
    BY <1>1, <1>11, <2>1, TopAt
  <2>3. SnapOK(heap, trail, e.heap_mark, e.trail_mark, e.goals, answer, e.was)
    BY <1>1, <1>6, NowAt
  <2>4. EntryOf(top, q)'
    BY <1>2, <1>3, <2>2 DEF EntryOf
  <2>5. EntrySnap(top, q)'
    BY <1>2, <1>3, <1>7, <2>2, <2>3 DEF EntrySnap
  <2>. QED
    BY <2>2, <2>4, <2>5
<1>20. CatchesOK(used2)'
  <2>1. ASSUME NEW i \in used2
        PROVE  /\ EntryLinked(used2, i)' /\ EntryAfter(i)' /\ \A q \in Levels : EntryFenced(i, q)'
               /\ \E q \in Levels : EntryOf(i, q)' /\ EntrySnap(i, q)'
    <3>1. CASE i \in used
      BY <1>15, <3>1
    <3>2. CASE i = top
      BY <1>16, <1>17, <1>18, <1>19, <3>2
    <3>. QED
      BY <1>9, <3>1, <3>2
  <2>2. used2 \subseteq 1 .. Len(catches')
    BY <1>7, <1>10
  <2>3. ASSUME NEW i \in 1 .. top
        PROVE  catches'[i].outer_active_catch < i
    <3>1. CASE i \in 1 .. l
      BY <1>1, <1>4, <1>7, <3>1, TopAt DEF CatchesOK
    <3>2. CASE i = top
      <4>1. PICK k : k = active_catch
        OBVIOUS
      <4>2. k \in Nat /\ k # 0 => k \in 1 .. l
        BY <1>1, <1>4, <4>1, NowAt
      <4>3. k \in Nat
        BY <1>1, <4>1, RunningAt
      <4>4. k < top
        BY ONLY <1>6, <4>2, <4>3
      <4>. QED
        BY <1>6, <1>7, <3>2, <4>1, <4>4
    <3>. QED
      BY <1>6, <3>1, <3>2
  <2>. QED
    BY <1>3, <1>7, <2>1, <2>2, <2>3 DEF CatchesOK
<1>21. WaitingOK(used2)'
  <2>1. ASSUME NEW q \in 1 .. Len(outer)
        PROVE  WaitLinked(used2, q)' /\ WaitSnap(q)'
    <3>1. WaitLinked(used, q) /\ WaitSnap(q)
      BY <1>1, TopAt DEF WaitingOK
    <3>. QED
      BY <1>2, <1>3, <1>10, <3>1 DEF WaitLinked, WaitSnap
  <2>. QED
    BY <1>2, <2>1 DEF WaitingOK
<1>22. Invs(used2)'
  <2>1. StoreOK(heap', trail')
    BY <1>1, <1>2, TopAt
  <2>. QED
    BY <1>8, <1>12, <1>13, <1>14, <1>20, <1>21, <2>1 DEF Invs
<1>23. RunningOK(used2)'
  BY <1>1, <1>2, <1>3, <1>7, <1>10, <1>11 DEF RunningOK
<1>24. PointUpByTrail(heap', trail', old_top')
  BY <1>1, <1>2
<1>. QED
  BY <1>22, <1>23, <1>24, InvAgain

LEMMA DirectiveKeeps ==
  ASSUME HeapInv, Directive
  PROVE  HeapInv'
<1>1. PICK used : Invs(used) /\ RunningOK(used) /\ PointUpByTrail(heap, trail, old_top)
  BY InvParts
<1>2. PICK h, h2, tr, n, m, k, l : /\ h = heap /\ h2 = heap' /\ tr = trail
                                   /\ n = Len(heap) /\ m = Len(trail) /\ k = Len(outer) /\ l = k + 1
  OBVIOUS
<1>3. /\ UNCHANGED <<trail, frames, catches, old_top>> /\ h2 = h \o QueryCells(n)
      /\ cn' = n + 4 /\ answer' = n + 5 /\ active_catch' = 0
      /\ base' = [sp |-> Len(frames), heap |-> n, catch |-> Len(catches)]
  BY <1>2 DEF Directive, stacks
<1>4. PICK o : o = [cn |-> cn, answer |-> answer, active_catch |-> active_catch, base |-> base,
                    hmark |-> n, tmark |-> m, cmark |-> Len(catches), was |-> Now]
  OBVIOUS
<1>5. outer' = Append(outer, o)
  BY <1>2, <1>4 DEF Directive, Now
<1>6. /\ StoreOK(h, tr) /\ HeapOK(h) /\ TrailOK(h, tr) /\ Typed /\ n \in Nat /\ m \in Nat /\ k \in Nat
      /\ Now \in Canon
  BY <1>1, <1>2, NowAt, TopAt DEF StoreOK
<1>7. l \in Nat /\ l = k + 1 /\ l # 0 /\ \A q \in 0 .. l : q = l \/ q \in 0 .. k
  BY <1>2, <1>6
<1>8. /\ HeapOK(h2) /\ Grows(h, h2) /\ Settled(h, h2) /\ Len(h2) = n + 6
      /\ n + 4 \in Pointable(h2) /\ n + 5 \in Pointable(h2)
      /\ \A c \in 1 .. Len(h2) : c > n => /\ h2[c].tag = "REF" => n < h2[c].ref
                                          /\ h2[c].tag = "STR" => n < h2[c].ptr
  BY <1>2, <1>3, <1>6, QueryGrows
<1>9. StoreOK(h2, tr)
  BY <1>6, <1>8, GrowStore
<1>10. KeepsMarks(h, tr, h2, tr)
  BY <1>6, <1>8, GrowMark DEF KeepsMarks
<1>11. ASSUME NEW hm, NEW tm, NEW goals, NEW ans, NEW was, SnapOK(h, tr, hm, tm, goals, ans, was)
       PROVE  SnapOK(h2, tr, hm, tm, goals, ans, was)
  <2>1. MarkOK(h, tr, hm, tm)
    BY <1>11 DEF SnapOK
  <2>2. MarkOK(h2, tr, hm, tm) /\ Rel(h2, tr, hm, tm) = Rel(h, tr, hm, tm)
    BY <1>10, <2>1 DEF KeepsMarks
  <2>. QED
    BY <1>11, <2>2, SnapKept
<1>12. o \in WaitType
  <2>1. /\ cn \in Nat /\ answer \in Nat /\ active_catch \in Nat /\ base \in BaseType /\ Len(catches) \in Nat
    BY <1>6, StackAt DEF Typed
  <2>. QED
    BY <1>4, <1>6, <2>1 DEF WaitType
<1>13. /\ outer' \in Seq(WaitType) /\ Len(outer') = l /\ outer'[l] = o
       /\ \A q \in 1 .. k : outer'[q] = outer[q]
  <2>1. outer \in Seq(WaitType)
    BY <1>6 DEF Typed
  <2>2. \A q \in 1 .. k : q \in 1 .. k + 1 /\ q # k + 1
    BY <1>6
  <2>3. k + 1 \in 1 .. k + 1
    BY <1>6
  <2>. QED
    BY <1>2, <1>5, <1>12, <2>1, <2>2, <2>3, AppendProperties
<1>14. /\ Levels = 0 .. k /\ Levels' = 0 .. l
       /\ \A q \in 0 .. k : q \in Levels /\ q \in 0 .. l
       /\ l \in 0 .. l
  BY <1>2, <1>7, <1>13 DEF Levels
<1>15. ASSUME NEW q \in 0 .. k
       PROVE  BaseAt(q)' = BaseAt(q) /\ TMark(q)' = TMark(q) /\ AnswerAt(q)' = AnswerAt(q)
  <2>1. q # l /\ (q # 0 => q \in 1 .. k) /\ (q # k => q + 1 \in 1 .. k)
    BY <1>6, <1>7
  <2>2. TMark(q)' = TMark(q)
    BY <1>13, <2>1 DEF TMark
  <2>3. CASE q = k
    <3>1. outer'[q + 1] = o /\ q # Len(outer') /\ q = Len(outer)
      BY <1>2, <1>7, <1>13, <2>1, <2>3
    <3>2. o.base = base /\ o.answer = answer
      BY <1>4
    <3>. QED
      BY <2>2, <3>1, <3>2 DEF BaseAt, AnswerAt
  <2>4. CASE q # k
    <3>1. outer'[q + 1] = outer[q + 1] /\ q # Len(outer') /\ q # Len(outer)
      BY <1>2, <1>13, <2>1, <2>4
    <3>. QED
      BY <2>2, <3>1 DEF BaseAt, AnswerAt
  <2>. QED
    BY <2>3, <2>4
<1>16. BaseAt(l)' = base' /\ TMark(l)' = m /\ AnswerAt(l)' = answer'
  <2>1. o.tmark = m
    BY <1>4
  <2>. QED
    BY <1>7, <1>13, <2>1 DEF BaseAt, TMark, AnswerAt
<1>17. Typed'
  <2>1. base' \in BaseType
    BY <1>3, <1>6, StackAt DEF BaseType
  <2>2. cn' \in Nat /\ answer' \in Nat /\ active_catch' \in Nat
    BY <1>3, <1>6
  <2>. QED
    BY <1>3, <1>6, <1>13, <2>1, <2>2 DEF Typed
<1>18. base'.sp = Len(frames) /\ base'.heap = n /\ base'.catch = Len(catches)
  BY <1>3
<1>19. ASSUME NEW q \in 0 .. k
       PROVE  /\ BaseAt(q).heap <= n /\ TMark(q) <= m /\ BaseAt(q).sp <= Len(frames)
              /\ BaseAt(q).catch <= Len(catches) /\ BaseAt(q).heap \in Nat
  BY <1>1, <1>2, <1>6, <1>14, LevelAt, NowAt
<1>20. BasesOK'
  <2>1. BasesOK /\ Len(frames) \in Nat /\ Len(catches) \in Nat
    BY <1>1, TopAt
  <2>2. (BaseAt(0) = [sp |-> 0, heap |-> 0, catch |-> 0])'
    <3>1. 0 \in 0 .. k
      BY <1>6
    <3>. QED
      BY <1>15, <2>1, <3>1 DEF BasesOK
  <2>3. ASSUME NEW q \in 1 .. l
        PROVE  BaseAt(q)'.heap = outer'[q].hmark /\ BaseAt(q)'.catch = outer'[q].cmark
    <3>1. CASE q = l
      <4>1. o.hmark = n /\ o.cmark = Len(catches)
        BY <1>4
      <4>2. BaseAt(q)' = base'
        BY <1>16, <3>1 DEF BaseAt
      <4>. QED
        BY <1>13, <1>18, <3>1, <4>1, <4>2
    <3>2. CASE q # l
      <4>1. q \in 1 .. k /\ q \in 0 .. k
        BY <1>6, <1>7, <3>2
      <4>2. outer'[q] = outer[q] /\ BaseAt(q)' = BaseAt(q)
        BY <1>13, <1>15, <4>1
      <4>. QED
        BY <1>2, <2>1, <4>1, <4>2 DEF BasesOK
    <3>. QED
      BY <3>1, <3>2
  <2>4. ASSUME NEW q \in 0 .. l
        PROVE  BaseAt(q)'.sp <= Len(frames) /\ BaseAt(q)'.catch <= Len(catches)
    <3>1. CASE q = l
      <4>1. BaseAt(q)' = base'
        BY <1>16, <3>1 DEF BaseAt
      <4>. QED
        BY <1>18, <2>1, <4>1
    <3>2. CASE q \in 0 .. k
      BY <1>15, <1>19, <3>2
    <3>. QED
      BY <1>7, <3>1, <3>2
  <2>5. ASSUME NEW q \in 0 .. l, NEW p \in 0 .. l, q <= p
        PROVE  Rising(q, p)'
    <3>1. CASE p = l /\ q = l
      <4>1. BaseAt(p)' = base' /\ BaseAt(q)' = base' /\ TMark(p)' = m /\ TMark(q)' = m
        BY <1>16, <3>1 DEF BaseAt, TMark
      <4>. QED
        BY <1>6, <1>18, <2>1, <4>1 DEF Rising
    <3>2. CASE p = l /\ q \in 0 .. k
      <4>1. BaseAt(p)' = base' /\ TMark(p)' = m
        BY <1>16, <3>2 DEF BaseAt, TMark
      <4>2. BaseAt(q)' = BaseAt(q) /\ TMark(q)' = TMark(q)
        BY <1>15, <3>2
      <4>. QED
        BY <1>18, <1>19, <3>2, <4>1, <4>2 DEF Rising
    <3>3. CASE p \in 0 .. k
      <4>1. q \in 0 .. k
        BY <1>6, <1>7, <2>5, <3>3
      <4>2. Rising(q, p)
        BY <1>14, <2>1, <2>5, <3>3, <4>1 DEF BasesOK
      <4>. QED
        BY <1>15, <3>3, <4>1, <4>2 DEF Rising
    <3>. QED
      BY <1>7, <3>1, <3>2, <3>3
  <2>. QED
    BY <1>3, <1>13, <1>14, <2>2, <2>3, <2>4, <2>5 DEF BasesOK
<1>21. FencesOK'
  <2>1. ASSUME NEW q \in 0 .. k
        PROVE  FenceOK(h2, tr, BaseAt(q).heap, TMark(q))
    <3>1. PICK hk, tk : hk = BaseAt(q).heap /\ tk = TMark(q)
      OBVIOUS
    <3>2. FenceOK(h, tr, hk, tk)
      BY <1>1, <1>2, <1>14, <3>1 DEF Invs, FencesOK
    <3>3. hk \in Nat /\ hk <= n
      BY <1>19, <3>1
    <3>4. \A x \in Nat : n < x => hk < x
      BY ONLY <1>6, <3>3
    <3>5. NewAbove(h, h2, hk)
      <4>1. ASSUME NEW c \in 1 .. Len(h2), c > n
            PROVE  /\ h2[c].tag = "REF" => h2[c].ref \in Nat
                   /\ h2[c].tag = "STR" => h2[c].ptr \in Nat
        <5>1. h2[c] \in HeapCell
          BY <1>8, CellAt
        <5>. QED
          BY <5>1 DEF HeapCell, Atom
      <4>. QED
        BY <1>2, <1>8, <3>4, <4>1 DEF NewAbove
    <3>6. FenceOK(h2, tr, hk, tk)
      BY <1>6, <1>8, <3>2, <3>5, GrowFence
    <3>. QED
      BY <3>1, <3>6
  <2>2. FenceOK(h2, tr, n, m)
    <3>1. n \in 0 .. Len(h2) /\ m \in 0 .. Len(tr)
      BY <1>2, <1>6, <1>8
    <3>2. \A i \in 1 .. Len(tr) : tr[i] <= n <=> i <= m
      BY <1>2, <1>6, CellAt, TrailAt
    <3>3. ASSUME NEW c \in 1 .. Len(h2), h2[c].tag = "REF"
          PROVE  h2[c].ref <= n <=> c <= n
      <4>1. c \in Nat
        BY <1>8, CellAt
      <4>2. CASE c <= n
        <5>1. c \in 1 .. Len(h) /\ h2[c] = h[c]
          BY <1>2, <1>6, <1>8, <4>1, <4>2 DEF Grows
        <5>2. PICK r : r = h[c].ref
          OBVIOUS
        <5>3. r \in Children(h, c)
          BY <3>3, <5>1, <5>2 DEF Children
        <5>4. r \in 1 .. n
          BY <1>2, <1>6, <5>1, <5>3, ChildrenIn
        <5>. QED
          BY <1>6, <4>2, <5>1, <5>2, <5>4
      <4>3. CASE ~(c <= n)
        <5>1. PICK r : r = h2[c].ref
          OBVIOUS
        <5>2. r \in Nat
          <6>1. h2[c] \in HeapCell
            BY <1>8, CellAt
          <6>. QED
            BY <3>3, <5>1, <6>1 DEF HeapCell, Atom
        <5>3. n < r
          BY <1>6, <1>8, <3>3, <4>1, <4>3, <5>1
        <5>4. ~(r <= n)
          BY ONLY <1>6, <5>2, <5>3
        <5>. QED
          BY <4>3, <5>1, <5>4
      <4>. QED
        BY <4>2, <4>3
    <3>4. ASSUME NEW c \in 1 .. Len(h2), h2[c].tag = "STR", n < c
          PROVE  n < h2[c].ptr
      <4>1. c \in Nat
        BY <1>8, CellAt
      <4>2. c > n
        BY <1>6, <3>4, <4>1
      <4>. QED
        BY <1>8, <3>4, <4>2
    <3>. QED
      BY <3>1, <3>2, <3>3, <3>4 DEF FenceOK
  <2>3. ASSUME NEW q \in 0 .. l
        PROVE  FenceOK(h2, tr, BaseAt(q)'.heap, TMark(q)')
    <3>1. CASE q = l
      <4>1. BaseAt(q)' = base' /\ TMark(q)' = m
        BY <1>16, <3>1 DEF BaseAt, TMark
      <4>. QED
        BY <1>18, <2>2, <4>1
    <3>2. CASE q \in 0 .. k
      BY <1>15, <2>1, <3>2
    <3>. QED
      BY <1>7, <3>1, <3>2
  <2>. QED
    BY <1>2, <1>3, <1>14, <2>3 DEF FencesOK
<1>22. FramesOK(used)'
  <2>1. ASSUME NEW j \in 1 .. Len(frames)
        PROVE  /\ FrameLinked(used, j)' /\ FrameAfter(j)' /\ \A q \in 0 .. l : FrameFenced(j, q)'
               /\ \E q \in 0 .. l : FrameOf(j, q)' /\ FrameSnap(j, q)'
    <3>1. /\ FrameLinked(used, j) /\ FrameAfter(j) /\ \A q \in Levels : FrameFenced(j, q)
      BY <1>1, TopAt DEF FramesOK
    <3>2. PICK q \in Levels : FrameOf(j, q) /\ FrameSnap(j, q)
      BY <1>1, TopAt DEF FramesOK
    <3>3. FrameLinked(used, j)' /\ FrameAfter(j)'
      BY <1>3, <3>1 DEF FrameLinked, FrameAfter
    <3>4. ASSUME NEW p \in 0 .. l
          PROVE  FrameFenced(j, p)'
      <4>1. CASE p \in 0 .. k
        BY <1>3, <1>14, <1>15, <3>1, <4>1 DEF FrameFenced
      <4>2. CASE p = l
        <5>1. BaseAt(p)' = base' /\ TMark(p)' = m
          BY <1>16, <4>2 DEF BaseAt, TMark
        <5>2. j <= Len(frames)
          BY <1>6, StackAt
        <5>3. frames[j].heap_mark <= n /\ frames[j].trail_mark <= m /\ frames[j].active_catch <= Len(catches)
          BY <1>1, <1>2, NowAt
        <5>. QED
          BY <1>3, <1>18, <5>1, <5>2, <5>3 DEF FrameFenced
      <4>. QED
        BY <1>7, <4>1, <4>2
    <3>5. q \in 0 .. k /\ q \in 0 .. l
      BY <1>14, <3>2
    <3>6. FrameOf(j, q)'
      <4>1. BaseAt(q).sp < j /\ BaseAt(q)' = BaseAt(q)
        BY <1>15, <3>2, <3>5 DEF FrameOf
      <4>2. CASE q = k
        <5>1. BaseAt(q + 1)' = base' /\ q + 1 = l
          BY <1>7, <1>16, <4>2 DEF BaseAt
        <5>2. j <= Len(frames)
          BY <1>6, StackAt
        <5>. QED
          BY <1>18, <4>1, <5>1, <5>2 DEF FrameOf
      <4>3. CASE q # k
        <5>1. q + 1 \in 0 .. k /\ q < Len(outer)
          BY <1>2, <1>6, <3>5, <4>3
        <5>2. BaseAt(q + 1)' = BaseAt(q + 1)
          BY <1>15, <5>1
        <5>. QED
          BY <3>2, <4>1, <5>1, <5>2 DEF FrameOf
      <4>. QED
        BY <4>2, <4>3
    <3>7. FrameSnap(j, q)'
      BY <1>2, <1>3, <1>11, <1>15, <3>2, <3>5 DEF FrameSnap
    <3>. QED
      BY <3>3, <3>4, <3>5, <3>6, <3>7
  <2>. QED
    BY <1>3, <1>14, <2>1 DEF FramesOK
<1>23. CatchesOK(used)'
  <2>1. ASSUME NEW i \in used
        PROVE  /\ EntryLinked(used, i)' /\ EntryAfter(i)' /\ \A q \in 0 .. l : EntryFenced(i, q)'
               /\ \E q \in 0 .. l : EntryOf(i, q)' /\ EntrySnap(i, q)'
    <3>1. /\ EntryLinked(used, i) /\ EntryAfter(i) /\ \A q \in Levels : EntryFenced(i, q)
          /\ i \in 1 .. Len(catches)
      BY <1>1, TopAt DEF CatchesOK
    <3>2. PICK q \in Levels : EntryOf(i, q) /\ EntrySnap(i, q)
      BY <1>1, TopAt DEF CatchesOK
    <3>3. EntryLinked(used, i)' /\ EntryAfter(i)'
      BY <1>3, <3>1 DEF EntryLinked, EntryAfter
    <3>4. i <= Len(catches)
      BY <1>6, <3>1, StackAt
    <3>5. ASSUME NEW p \in 0 .. l
          PROVE  EntryFenced(i, p)'
      <4>1. CASE p \in 0 .. k
        BY <1>3, <1>14, <1>15, <3>1, <4>1 DEF EntryFenced
      <4>2. CASE p = l
        <5>1. BaseAt(p)' = base' /\ TMark(p)' = m
          BY <1>16, <4>2 DEF BaseAt, TMark
        <5>2. /\ catches[i].heap_mark <= n /\ catches[i].trail_mark <= m
              /\ catches[i].sp_at_entry <= Len(frames)
          BY <1>1, <1>2, NowAt
        <5>. QED
          BY <1>3, <1>18, <3>4, <5>1, <5>2 DEF EntryFenced
      <4>. QED
        BY <1>7, <4>1, <4>2
    <3>6. q \in 0 .. k /\ q \in 0 .. l
      BY <1>14, <3>2
    <3>7. EntryOf(i, q)'
      <4>1. BaseAt(q).catch < i /\ BaseAt(q)' = BaseAt(q)
        BY <1>15, <3>2, <3>6 DEF EntryOf
      <4>2. CASE q = k
        <5>1. BaseAt(q + 1)' = base' /\ q + 1 = l
          BY <1>7, <1>16, <4>2 DEF BaseAt
        <5>. QED
          BY <1>18, <3>4, <4>1, <5>1 DEF EntryOf
      <4>3. CASE q # k
        <5>1. q + 1 \in 0 .. k /\ q < Len(outer)
          BY <1>2, <1>6, <3>6, <4>3
        <5>2. BaseAt(q + 1)' = BaseAt(q + 1)
          BY <1>15, <5>1
        <5>. QED
          BY <3>2, <4>1, <5>1, <5>2 DEF EntryOf
      <4>. QED
        BY <4>2, <4>3
    <3>8. EntrySnap(i, q)'
      BY <1>2, <1>3, <1>11, <1>15, <3>2, <3>6 DEF EntrySnap
    <3>. QED
      BY <3>3, <3>5, <3>6, <3>7, <3>8
  <2>2. used \subseteq 1 .. Len(catches') /\ \A i \in 1 .. Len(catches') : catches'[i].outer_active_catch < i
    BY <1>1, <1>3, TopAt DEF CatchesOK
  <2>. QED
    BY <1>14, <2>1, <2>2 DEF CatchesOK
<1>24. WaitingOK(used)'
  <2>1. ASSUME NEW q \in 1 .. l
        PROVE  WaitLinked(used, q)' /\ WaitSnap(q)'
    <3>1. \A p \in 0 .. q - 1 : p \in 0 .. k /\ p \in Levels /\ BaseAt(p)' = BaseAt(p)
      <4>1. \A p \in 0 .. q - 1 : p \in 0 .. k
        BY <1>6, <1>7
      <4>. QED
        BY <1>14, <1>15, <4>1
    <3>2. CASE q = l
      <4>1. /\ outer'[q] = o /\ o.cn = cn /\ o.answer = answer /\ o.active_catch = active_catch
            /\ o.hmark = n /\ o.tmark = m /\ o.cmark = Len(catches) /\ o.was = Now
        BY <1>4, <1>13, <3>2
      <4>2. active_catch # 0 => /\ active_catch \in used /\ active_catch <= Len(catches)
                                /\ \A p \in 0 .. q - 1 : BaseAt(p).catch < active_catch
        <5>1. active_catch # 0 => active_catch \in used /\ active_catch \in 1 .. Len(catches)
          BY <1>1, NowAt
        <5>2. active_catch # 0 => active_catch <= Len(catches)
          BY <1>6, <5>1, StackAt
        <5>. QED
          BY <1>1, <3>1, <5>1, <5>2 DEF RunningOK
      <4>3. SnapOK(h2, tr, n, m, cn, answer, Now)
        BY <1>1, <1>2, <1>11, NowAt
      <4>4. WaitLinked(used, q)'
        BY <3>1, <4>1, <4>2 DEF WaitLinked
      <4>5. WaitSnap(q)'
        BY <1>1, <1>2, <1>3, <3>1, <4>1, <4>3 DEF WaitSnap, RunningOK
      <4>. QED
        BY <4>4, <4>5
    <3>3. CASE q # l
      <4>1. q \in 1 .. k /\ outer'[q] = outer[q]
        <5>1. q \in 1 .. k
          BY <1>6, <1>7, <3>3
        <5>. QED
          BY <1>13, <5>1
      <4>2. WaitLinked(used, q) /\ WaitSnap(q)
        BY <1>1, <1>2, <4>1, TopAt DEF WaitingOK
      <4>3. WaitLinked(used, q)'
        BY <3>1, <4>1, <4>2 DEF WaitLinked
      <4>4. WaitSnap(q)'
        BY <1>2, <1>3, <1>11, <3>1, <4>1, <4>2 DEF WaitSnap
      <4>. QED
        BY <4>3, <4>4
    <3>. QED
      BY <3>2, <3>3
  <2>. QED
    BY <1>13, <2>1 DEF WaitingOK
<1>25. Invs(used)'
  <2>1. StoreOK(heap', trail')
    BY <1>2, <1>3, <1>9
  <2>. QED
    BY <1>17, <1>20, <1>21, <1>22, <1>23, <1>24, <2>1 DEF Invs
<1>26. RunningOK(used)'
  <2>1. ASSUME NEW q \in 0 .. l
        PROVE  BaseAt(q)'.heap < n + 4
    <3>1. CASE q = l
      <4>1. BaseAt(q)' = base'
        BY <1>16, <3>1 DEF BaseAt
      <4>. QED
        BY <1>6, <1>18, <4>1
    <3>2. CASE q \in 0 .. k
      <4>1. PICK b : b = BaseAt(q).heap
        OBVIOUS
      <4>2. b \in Nat /\ b <= n
        BY <1>19, <3>2, <4>1
      <4>3. b < n + 4
        BY ONLY <1>6, <4>2
      <4>. QED
        BY <1>15, <3>2, <4>1, <4>3
    <3>. QED
      BY <1>7, <3>1, <3>2
  <2>. QED
    BY <1>2, <1>3, <1>8, <1>14, <2>1 DEF RunningOK
<1>27. PointUpByTrail(heap', trail', old_top')
  <2>1. PICK from : from = old_top
    OBVIOUS
  <2>2. PointUpByTrail(h, tr, from)
    BY <1>1, <1>2, <2>1
  <2>3. PointUpByTrail(h2, tr, from)
    BY <1>6, <1>8, <2>2, GrowPointUp
  <2>. QED
    BY <1>2, <1>3, <2>1, <2>3
<1>. QED
  BY <1>25, <1>26, <1>27, InvAgain

(***************************************************************************)
(* A collection: what is live.                                             *)
(***************************************************************************)
LEMMA ReachedIs ==
  ASSUME NEW used, Invs(used), RunningOK(used)
  PROVE  /\ Reached \subseteq used
         /\ active_catch # 0 => active_catch \in Reached
         /\ \A n \in 1 .. Len(frames) : frames[n].active_catch # 0 => frames[n].active_catch \in Reached
         /\ \A j \in Reached : catches[j].outer_active_catch # 0 => catches[j].outer_active_catch \in Reached
<1>1. \A n \in 1 .. Len(frames) : frames[n].active_catch # 0 => frames[n].active_catch \in used
  BY DEF Invs, FramesOK, FrameLinked
<1>2. active_catch # 0 => active_catch \in used
  BY DEF RunningOK
<1>3. \A i : (i # 0 => i \in used) =>
        /\ Chain(i) \subseteq used /\ (i # 0 => i \in Chain(i))
        /\ \A j \in Chain(i) : catches[j].outer_active_catch # 0 => catches[j].outer_active_catch \in Chain(i)
  BY ChainUsed
<1>4. PICK A, B : A = Chain(active_catch) /\ B = UNION {Chain(frames[n].active_catch) : n \in 1 .. Len(frames)}
  OBVIOUS
<1>5. Reached = A \cup B
  BY <1>4 DEF Reached
<1>6. /\ A \subseteq used /\ (active_catch # 0 => active_catch \in A)
      /\ \A j \in A : catches[j].outer_active_catch # 0 => catches[j].outer_active_catch \in A
  BY <1>2, <1>3, <1>4
<1>7. ASSUME NEW n \in 1 .. Len(frames)
      PROVE  /\ Chain(frames[n].active_catch) \subseteq used /\ Chain(frames[n].active_catch) \subseteq B
             /\ frames[n].active_catch # 0 => frames[n].active_catch \in Chain(frames[n].active_catch)
             /\ \A j \in Chain(frames[n].active_catch) :
                  catches[j].outer_active_catch # 0 =>
                    catches[j].outer_active_catch \in Chain(frames[n].active_catch)
  <2>1. PICK i : i = frames[n].active_catch
    OBVIOUS
  <2>2. /\ Chain(i) \subseteq used /\ (i # 0 => i \in Chain(i))
        /\ \A j \in Chain(i) : catches[j].outer_active_catch # 0 => catches[j].outer_active_catch \in Chain(i)
    BY <1>1, <1>3, <2>1
  <2>3. Chain(frames[n].active_catch) \subseteq B
    BY <1>4
  <2>. QED
    BY <2>1, <2>2, <2>3
<1>8. /\ B \subseteq used
      /\ \A n \in 1 .. Len(frames) : frames[n].active_catch # 0 => frames[n].active_catch \in B
      /\ \A j \in B : catches[j].outer_active_catch # 0 => catches[j].outer_active_catch \in B
  <2>1. \A j \in B : \E n \in 1 .. Len(frames) : j \in Chain(frames[n].active_catch)
    BY <1>4
  <2>. QED
    BY <1>7, <2>1
<1>. QED
  BY <1>5, <1>6, <1>8

LEMMA LiveCatchesAre ==
  ASSUME NEW used, Invs(used), RunningOK(used)
  PROVE  /\ LiveCatches \subseteq 1 .. Len(catches) /\ 1 .. base.catch \subseteq LiveCatches
         /\ \A i \in LiveCatches : i <= base.catch \/ i \in Reached
         /\ Reached \subseteq LiveCatches
         /\ \A i \in LiveCatches : catches[i].outer_active_catch # 0 => catches[i].outer_active_catch \in LiveCatches
<1>1. /\ Typed /\ CatchesOK(used) /\ base.catch <= Len(catches) /\ base.catch \in Nat /\ Len(catches) \in Nat
  BY TopAt
<1>2. Reached \subseteq 1 .. Len(catches)
  BY <1>1, ReachedIs DEF CatchesOK
<1>3. \A i \in 1 .. base.catch : i \in 1 .. Len(catches) /\ i <= base.catch
  BY <1>1
<1>4. ASSUME NEW i \in 1 .. base.catch, catches[i].outer_active_catch # 0
      PROVE  catches[i].outer_active_catch \in 1 .. base.catch
  <2>1. PICK k : k = catches[i].outer_active_catch
    OBVIOUS
  <2>2. k \in Nat /\ k < i /\ i \in Nat /\ i <= base.catch
    BY <1>1, <1>3, <2>1, StackAt DEF CatchesOK
  <2>. QED
    BY <1>1, <1>4, <2>1, <2>2
<1>. QED
  BY <1>2, <1>3, <1>4, ReachedIs DEF LiveCatches

\* The roots are cells, and what the collection keeps is closed.
LEMMA LiveIs ==
  ASSUME NEW used, Invs(used), RunningOK(used), NEW from, PointUpByTrail(heap, trail, from),
         NEW L, L = Live(from)
  PROVE  /\ L \in SUBSET (1 .. Len(heap)) /\ 1 .. from \subseteq L /\ Closed(heap, L)
         /\ cn \in L /\ answer \in L
         /\ \A n \in 1 .. Len(frames) : frames[n].goals \in L
         /\ \A i \in Reached : catches[i].goals \in L
<1>1. /\ StoreOK(heap, trail) /\ HeapOK(heap) /\ TrailOK(heap, trail) /\ FramesOK(used) /\ CatchesOK(used)
      /\ Len(heap) \in Nat
  BY TopAt, RunningAt DEF StoreOK
<1>2. from \in Nat /\ from <= Len(heap)
  <2>1. from \in 0 .. Len(heap)
    BY DEF PointUpByTrail
  <2>. QED
    BY <1>1, <2>1
<1>3. \A hm, tm, goals, ans, was : SnapOK(heap, trail, hm, tm, goals, ans, was) => goals \in 1 .. Len(heap)
  <2> SUFFICES ASSUME NEW hm, NEW tm, NEW goals, NEW ans, NEW was, SnapOK(heap, trail, hm, tm, goals, ans, was)
               PROVE  goals \in 1 .. Len(heap)
    OBVIOUS
  <2>1. MarkOK(heap, trail, hm, tm) /\ goals \in Pointable(Rel(heap, trail, hm, tm))
    BY DEF SnapOK
  <2>2. hm \in Nat /\ hm <= Len(heap)
    BY <1>1, <2>1, RelHeap
  <2>3. goals \in 1 .. hm
    BY <2>1, <2>2, RelAt DEF Pointable
  <2>. QED
    BY <1>1, <2>2, <2>3
<1>4. PICK R : R = Roots(from)
  OBVIOUS
<1>5. ASSUME NEW i \in 1 .. Len(trail), heap[trail[i]].tag = "REF"
      PROVE  heap[trail[i]].ref \in 1 .. Len(heap)
  <2>1. PICK c : c = trail[i]
    OBVIOUS
  <2>2. c \in 1 .. Len(heap)
    BY <1>1, <2>1, TrailAt
  <2>3. heap[c].ref \in Children(heap, c)
    BY <1>5, <2>1 DEF Children
  <2>. QED
    BY <1>1, <2>1, <2>2, <2>3, ChildrenIn
<1>6. \A n \in 1 .. Len(frames) : frames[n].goals \in 1 .. Len(heap)
  BY <1>1, <1>3 DEF FramesOK, FrameSnap
<1>7. \A i \in Reached : catches[i].goals \in 1 .. Len(heap)
  <2>1. \A i \in used : catches[i].goals \in 1 .. Len(heap)
    BY <1>1, <1>3 DEF CatchesOK, EntrySnap
  <2>. QED
    BY <2>1, ReachedIs
<1>8. cn \in 1 .. Len(heap) /\ answer \in 1 .. Len(heap)
  BY RunningAt DEF Pointable
<1>9. R \in SUBSET (1 .. Len(heap))
  BY <1>4, <1>5, <1>6, <1>7, <1>8 DEF Roots
<1>10. PICK A : A = Reach(heap, R, 1 .. from)
  OBVIOUS
<1>11. L = 1 .. from \cup A
  BY <1>4, <1>10 DEF Live
<1>12. /\ R \subseteq L /\ A \subseteq 1 .. Len(heap) /\ \A c \in A : Children(heap, c) \subseteq L
  <2>1. PICK B : B = 1 .. from
    OBVIOUS
  <2>2. A = Reach(heap, R, B)
    BY <1>10, <2>1
  <2>3. R \subseteq A \cup B /\ A \subseteq 1 .. Len(heap) /\ \A c \in A : Children(heap, c) \subseteq A \cup B
    BY <1>1, <1>9, <2>2, ReachIsLeast
  <2>. QED
    BY <1>11, <2>1, <2>3
<1>13. ASSUME NEW c \in 1 .. from
       PROVE  Children(heap, c) \subseteq L
  <2>1. c \in 1 .. Len(heap) /\ c \in Nat /\ c <= from
    BY <1>1, <1>2
  <2>2. Children(heap, c) \subseteq 1 .. Len(heap)
    BY <1>1, <2>1, ChildrenIn
  <2>3. CASE heap[c].tag = "STR"
    <3>1. Children(heap, c) \subseteq 1 .. c - 1
      BY <1>1, <2>1, <2>3, ChildrenIn
    <3>2. 1 .. c - 1 \subseteq 1 .. from
      BY <1>2, <2>1
    <3>. QED
      BY <1>11, <3>1, <3>2
  <2>4. CASE heap[c].tag = "REF"
    <3>1. PICK r : r = heap[c].ref
      OBVIOUS
    <3>2. Children(heap, c) = {r}
      BY <2>4, <3>1 DEF Children
    <3>3. r \in Nat /\ r >= 1
      <4>1. r \in 1 .. Len(heap)
        BY <2>2, <3>2
      <4>. QED
        BY <1>1, <4>1
    <3>4. CASE r <= from
      <4>1. r \in 1 .. from
        BY <1>2, <3>3, <3>4
      <4>. QED
        BY <1>11, <3>2, <4>1
    <3>5. CASE r > from
      <4>1. PICK i \in 1 .. Len(trail) : trail[i] = c
        BY <2>4, <3>1, <3>5 DEF PointUpByTrail
      <4>2. i \in {j \in 1 .. Len(trail) : trail[j] <= from /\ heap[trail[j]].tag = "REF"}
        BY <2>1, <2>4, <4>1
      <4>3. heap[trail[i]].ref \in R
        BY <1>4, <4>2 DEF Roots
      <4>. QED
        BY <1>12, <3>1, <3>2, <4>1, <4>3
    <3>. QED
      BY <1>2, <3>3, <3>4, <3>5
  <2>5. CASE heap[c].tag \notin {"REF", "STR"}
    BY <2>5 DEF Children
  <2>. QED
    BY <2>3, <2>4, <2>5
<1>14. L \in SUBSET (1 .. Len(heap)) /\ Closed(heap, L)
  <2>1. 1 .. from \subseteq 1 .. Len(heap)
    BY <1>1, <1>2
  <2>. QED
    BY <1>11, <1>12, <1>13, <2>1 DEF Closed
<1>15. /\ cn \in R /\ answer \in R /\ \A n \in 1 .. Len(frames) : frames[n].goals \in R
       /\ \A i \in Reached : catches[i].goals \in R
  BY <1>4 DEF Roots
<1>. QED
  BY <1>11, <1>12, <1>14, <1>15

(***************************************************************************)
(* What a collection makes of the state.                                   *)
(***************************************************************************)
\* Numbers keep their order on their way to their places.
KeepsOrder(S) ==
  /\ \A m \in Nat : Place(S, m) \in Nat
  /\ \A a, b \in Nat : a <= b => Place(S, a) <= Place(S, b)
  /\ \A c \in S : c \in Nat /\ \A m \in Nat : c <= m <=> Place(S, c) <= Place(S, m)
  /\ Place(S, 0) = 0

LEMMA OrderKept ==
  ASSUME NEW n \in Nat, NEW S \in SUBSET (1 .. n)
  PROVE  KeepsOrder(S)
<1>1. /\ \A m \in Int : Place(S, m) \in Nat
      /\ \A a, b \in Int : a <= b => Place(S, a) <= Place(S, b)
      /\ \A c \in S : \A m \in Int : c <= m <=> Place(S, c) <= Place(S, m)
  BY PlaceIs
<1>2. PICK z \in Nat : z = 0
  OBVIOUS
<1>3. 1 .. z \subseteq S /\ z \in 0 .. z
  BY <1>2
<1>4. Place(S, z) = z
  BY <1>3, PlaceSame
<1>5. \A m \in Nat : m \in Int
  OBVIOUS
<1>6. \A c \in S : c \in Nat
  OBVIOUS
<1>. QED
  BY <1>1, <1>2, <1>4, <1>5, <1>6 DEF KeepsOrder

FrameMoved(f, f2, L, K, C) ==
  /\ f2.goals = Place(L, f.goals) /\ f2.heap_mark = Place(L, f.heap_mark)
  /\ f2.trail_mark = Place(K, f.trail_mark) /\ f2.active_catch = Place(C, f.active_catch) /\ f2.was = f.was

EntryMoved(e, e2, L, K, C) ==
  /\ e2.goals = Place(L, e.goals) /\ e2.heap_mark = Place(L, e.heap_mark)
  /\ e2.trail_mark = Place(K, e.trail_mark) /\ e2.sp_at_entry = e.sp_at_entry
  /\ e2.outer_active_catch = Place(C, e.outer_active_catch) /\ e2.was = e.was

\* The cells L, the trail entries K and the catch entries C close up, when all
\* that is used is as it should be.
Collects(used, from, L, K, C) ==
  /\ Invs(used) /\ RunningOK(used) /\ base.heap <= from
  /\ L = Live(from) /\ K = OnTrail(trail, L) /\ C = LiveCatches
  /\ Slides(heap, trail, from, L, heap', trail')
  /\ cn' = Place(L, cn) /\ answer' = Place(L, answer) /\ active_catch' = Place(C, active_catch)
  /\ old_top' = Cardinality(L) /\ UNCHANGED <<base, outer>>
  /\ frames' \in Seq(FrameType) /\ Len(frames') = Len(frames)
  /\ \A n \in 1 .. Len(frames) : FrameMoved(frames[n], frames'[n], L, K, C)
  /\ catches' \in Seq(EntryType) /\ Len(catches') = Cardinality(C)
  /\ \A i \in C : catches'[Place(C, i)].outer_active_catch = Place(C, catches[i].outer_active_catch)
  /\ \A i \in C \cap used : EntryMoved(catches[i], catches'[Place(C, i)], L, K, C)

\* What there is to slide.
LEMMA SlideStore ==
  ASSUME NEW used, Invs(used), RunningOK(used), NEW from, PointUpByTrail(heap, trail, from),
         NEW L, L = Live(from), NEW junk, Slide(from, L, junk)
  PROVE  Slides(heap, trail, from, L, heap', trail')
<1>1. L \in SUBSET (1 .. Len(heap)) /\ 1 .. from \subseteq L /\ Closed(heap, L)
  BY LiveIs
<1>2. StoreOK(heap, trail) /\ HeapOK(heap) /\ TrailOK(heap, trail) /\ Len(heap) \in Nat
  BY TopAt, RunningAt DEF StoreOK
<1> DEFINE Moved(c) == IF c <= Len(heap) THEN NumBelow(L, c + 1) ELSE junk
           moved == [c \in 1 .. Len(heap) |-> Moved(c)]
           K == KeptEntries(from, L)
<1>3. /\ heap' = Selected([c \in L |-> IF c > from \/ c \in Range(trail)
                                       THEN Repoint(heap[c], moved) ELSE heap[c]], L)
      /\ trail' = Selected([i \in K |-> Moved(trail[i])], K)
  BY DEF Slide
<1>4. \A c \in 1 .. Len(heap) : Moved(c) = Place(L, c)
  <2>1. \A c \in 1 .. Len(heap) : c <= Len(heap)
    BY <1>2
  <2>. QED
    BY <2>1 DEF Place
<1> HIDE DEF Moved
<1>5. moved = Moves(heap, L)
  BY <1>4 DEF Moves
<1>6. K = OnTrail(trail, L)
  BY DEF KeptEntries, OnTrail
<1>7. [i \in K |-> Moved(trail[i])] = [i \in K |-> Place(L, trail[i])]
  <2>1. \A i \in K : trail[i] \in 1 .. Len(heap)
    BY <1>1, <1>6 DEF OnTrail
  <2>. QED
    BY <1>4, <2>1
<1> HIDE DEF moved, K
<1>. QED
  BY <1>1, <1>2, <1>3, <1>5, <1>6, <1>7 DEF Slides

LEMMA JunkIs ==
  ASSUME HeapOK(heap), NEW junk \in Junk
  PROVE  junk \in Nat
<1>1. Len(heap) \in Nat
  BY CellAt
<1>. QED
  BY <1>1 DEF Junk

LEMMA SlideIs ==
  ASSUME NEW used, Invs(used), RunningOK(used), NEW from, PointUpByTrail(heap, trail, from),
         base.heap <= from, NEW L, L = Live(from), NEW junk \in Nat, Slide(from, L, junk)
  PROVE  Collects(used, from, L, OnTrail(trail, L), LiveCatches)
<1>1. PICK K, C : K = OnTrail(trail, L) /\ C = LiveCatches
  OBVIOUS
<1>2. Slides(heap, trail, from, L, heap', trail')
  BY SlideStore
<1>3. /\ Typed /\ Len(heap) \in Nat /\ Len(trail) \in Nat /\ Len(frames) \in Nat /\ Len(catches) \in Nat
      /\ frames \in Seq(FrameType) /\ catches \in Seq(EntryType)
      /\ cn \in 1 .. Len(heap) /\ answer \in 1 .. Len(heap)
  BY NowAt, RunningAt, TopAt DEF Typed, Pointable
<1>4. /\ \A n \in 1 .. Len(frames) :
           frames[n].goals \in L /\ frames[n].heap_mark <= Len(heap) /\ frames[n].trail_mark <= Len(trail)
      /\ \A i \in used : catches[i].heap_mark <= Len(heap) /\ catches[i].trail_mark <= Len(trail)
  BY NowAt, LiveIs
<1>5. L \in SUBSET (1 .. Len(heap)) /\ \A c \in 1 .. Len(heap) : c <= Len(heap) /\ c \in Nat
  BY <1>3, LiveIs
<1>6. C \in SUBSET (1 .. Len(catches))
  BY <1>1, LiveCatchesAre
<1>7. KeepsOrder(L) /\ KeepsOrder(K) /\ KeepsOrder(C)
  <2>1. PICK a, b, c : a = Len(heap) /\ b = Len(trail) /\ c = Len(catches)
    OBVIOUS
  <2>2. a \in Nat /\ b \in Nat /\ c \in Nat /\ L \in SUBSET (1 .. a) /\ C \in SUBSET (1 .. c)
    BY <1>3, <1>5, <1>6, <2>1
  <2>3. K \in SUBSET (1 .. b)
    BY <1>1, <2>1 DEF OnTrail
  <2>. QED
    BY <2>2, <2>3, OrderKept
<1> DEFINE Moved(c) == IF c <= Len(heap) THEN NumBelow(L, c + 1) ELSE junk
           Kept(m) == IF m <= Len(trail) THEN NumBelow(K, m + 1) ELSE junk
           NewCatch(i) == NumBelow(C, i + 1)
           slid(n) == [frames[n] EXCEPT !.goals = Moved(@), !.heap_mark = Moved(@),
                                        !.trail_mark = Kept(@), !.active_catch = NewCatch(@)]
           slidEntry(i) == [catches[i] EXCEPT !.goals = Moved(@), !.heap_mark = Moved(@),
                              !.trail_mark = Kept(@), !.outer_active_catch = NewCatch(@)]
<1>8. /\ cn' = Moved(cn) /\ answer' = Moved(answer) /\ active_catch' = NewCatch(active_catch)
      /\ frames' = [n \in 1 .. Len(frames) |-> slid(n)]
      /\ catches' = Selected([i \in C |-> slidEntry(i)], C)
      /\ old_top' = Cardinality(L) /\ UNCHANGED <<base, outer>>
  BY <1>1 DEF Slide, KeptEntries, OnTrail
<1>9. /\ \A c \in Nat : Moved(c) \in Nat /\ (c <= Len(heap) => Moved(c) = Place(L, c))
      /\ \A m \in Nat : Kept(m) \in Nat /\ (m <= Len(trail) => Kept(m) = Place(K, m))
      /\ \A i \in Nat : NewCatch(i) \in Nat /\ NewCatch(i) = Place(C, i)
  <2>1. /\ \A m \in Nat : Place(L, m) \in Nat /\ Place(K, m) \in Nat /\ Place(C, m) \in Nat
    BY <1>7 DEF KeepsOrder
  <2>. QED
    BY <2>1 DEF Place
<1> HIDE DEF Moved, Kept, NewCatch
<1>10. ASSUME NEW n \in 1 .. Len(frames)
       PROVE  slid(n) \in FrameType /\ FrameMoved(frames[n], slid(n), L, K, C)
  <2>1. PICK f : f = frames[n]
    OBVIOUS
  <2>2. /\ f \in FrameType /\ f.goals \in Nat /\ f.heap_mark \in Nat /\ f.trail_mark \in Nat /\ f.active_catch \in Nat
        /\ f.goals <= Len(heap) /\ f.heap_mark <= Len(heap) /\ f.trail_mark <= Len(trail)
    BY <1>3, <1>4, <1>5, <2>1, StackAt
  <2>3. PICK g : g = [f EXCEPT !.goals = Moved(@), !.heap_mark = Moved(@),
                                !.trail_mark = Kept(@), !.active_catch = NewCatch(@)]
    OBVIOUS
  <2>4. /\ g \in FrameType /\ g.goals = Moved(f.goals) /\ g.heap_mark = Moved(f.heap_mark)
        /\ g.trail_mark = Kept(f.trail_mark) /\ g.active_catch = NewCatch(f.active_catch) /\ g.was = f.was
    BY <1>9, <2>2, <2>3 DEF FrameType
  <2>5. FrameMoved(f, g, L, K, C)
    BY <1>9, <2>2, <2>4 DEF FrameMoved
  <2>. QED
    BY <2>1, <2>3, <2>4, <2>5
<1>11. ASSUME NEW i \in C
       PROVE  /\ slidEntry(i) \in EntryType
              /\ slidEntry(i).outer_active_catch = Place(C, catches[i].outer_active_catch)
              /\ i \in used => EntryMoved(catches[i], slidEntry(i), L, K, C)
  <2>1. PICK e : e = catches[i]
    OBVIOUS
  <2>2. /\ e \in EntryType /\ e.goals \in Nat /\ e.heap_mark \in Nat /\ e.trail_mark \in Nat
        /\ e.outer_active_catch \in Nat
    BY <1>3, <1>6, <2>1, StackAt
  <2>3. PICK g : g = [e EXCEPT !.goals = Moved(@), !.heap_mark = Moved(@),
                                !.trail_mark = Kept(@), !.outer_active_catch = NewCatch(@)]
    OBVIOUS
  <2>4. /\ g \in EntryType /\ g.goals = Moved(e.goals) /\ g.heap_mark = Moved(e.heap_mark)
        /\ g.trail_mark = Kept(e.trail_mark) /\ g.outer_active_catch = NewCatch(e.outer_active_catch)
        /\ g.was = e.was /\ g.sp_at_entry = e.sp_at_entry
    BY <1>9, <2>2, <2>3 DEF EntryType
  <2>5. ASSUME i \in used
        PROVE  EntryMoved(e, g, L, K, C)
    <3>1. e.heap_mark <= Len(heap) /\ e.trail_mark <= Len(trail)
      BY <1>4, <2>1, <2>5
    <3>2. e.goals <= Len(heap)
      <4>1. PICK q \in Levels : EntrySnap(i, q)
        BY <2>5, TopAt DEF CatchesOK
      <4>2. e.goals \in Pointable(Rel(heap, trail, e.heap_mark, e.trail_mark))
        BY <2>1, <4>1 DEF EntrySnap, SnapOK
      <4>3. e.goals \in 1 .. e.heap_mark
        BY <2>2, <4>2, RelAt DEF Pointable
      <4>. QED
        BY <1>3, <2>2, <3>1, <4>3
    <3>. QED
      BY <1>9, <2>2, <2>4, <3>1, <3>2 DEF EntryMoved
  <2>. QED
    BY <1>9, <2>1, <2>2, <2>3, <2>4, <2>5
<1>12. /\ frames' \in Seq(FrameType) /\ Len(frames') = Len(frames)
       /\ \A n \in 1 .. Len(frames) : FrameMoved(frames[n], frames'[n], L, K, C)
  <2> HIDE DEF slid
  <2>1. PICK l, s : l = Len(frames) /\ s = [n \in 1 .. l |-> slid(n)]
    OBVIOUS
  <2>2. l \in Nat /\ frames' = s /\ \A n \in 1 .. l : slid(n) \in FrameType
    BY <1>3, <1>8, <1>10, <2>1
  <2>3. s \in Seq(FrameType) /\ Len(s) = l /\ \A n \in 1 .. l : s[n] = slid(n)
    BY <2>1, <2>2
  <2>. QED
    BY <1>10, <2>1, <2>2, <2>3
<1>13. /\ catches' \in Seq(EntryType) /\ Len(catches') = Cardinality(C)
       /\ \A i \in C : catches'[Place(C, i)] = slidEntry(i)
  <2> HIDE DEF slidEntry
  <2>1. PICK n, s : n = Len(catches) /\ s = [i \in C |-> slidEntry(i)]
    OBVIOUS
  <2>2. n \in Nat /\ C \in SUBSET (1 .. n) /\ catches' = Selected(s, C)
    BY <1>3, <1>6, <1>8, <2>1
  <2>3. IsFiniteSet(C) /\ C \subseteq Int /\ \A i \in C : Place(C, i) = NumBelow(C, i) + 1
    BY <2>2, PlaceIs
  <2>4. \A i \in C : s[i] = slidEntry(i) /\ s[i] \in EntryType
    BY <1>11, <2>1
  <2>5. Selected(s, C) \in Seq(EntryType)
    BY <2>3, <2>4, SelectedSeq
  <2>6. Len(Selected(s, C)) = Cardinality(C)
    BY <2>3, SelectedLen
  <2>7. ASSUME NEW i \in C
        PROVE  catches'[Place(C, i)] = slidEntry(i)
    <3>1. Selected(s, C)[NumBelow(C, i) + 1] = s[i]
      BY <2>3, SelectedOf
    <3>. QED
      BY <2>2, <2>3, <2>4, <3>1
  <2>. QED
    BY <2>2, <2>5, <2>6, <2>7
<1>14. cn' = Place(L, cn) /\ answer' = Place(L, answer) /\ active_catch' = Place(C, active_catch)
  <2>1. active_catch \in Nat /\ cn <= Len(heap) /\ cn \in Nat /\ answer <= Len(heap) /\ answer \in Nat
    BY <1>3, <1>5 DEF Typed
  <2>. QED
    BY <1>8, <1>9, <2>1
<1>15. \A i \in C : catches'[Place(C, i)].outer_active_catch = Place(C, catches[i].outer_active_catch)
  BY <1>11, <1>13
<1>16. \A i \in C \cap used : EntryMoved(catches[i], catches'[Place(C, i)], L, K, C)
  BY <1>11, <1>13
<1> HIDE DEF slid, slidEntry
<1>17. Collects(used, from, L, K, C)
  BY <1>1, <1>2, <1>8, <1>12, <1>13, <1>14, <1>15, <1>16 DEF Collects
<1>. QED
  BY <1>1, <1>17

LEMMA CollectOrder ==
  ASSUME NEW used, NEW from, NEW L, NEW K, NEW C, Collects(used, from, L, K, C)
  PROVE  /\ KeepsOrder(L) /\ KeepsOrder(K) /\ KeepsOrder(C)
         /\ C \subseteq 1 .. Len(catches) /\ from \in Nat /\ 1 .. from \subseteq L
         /\ \A c \in 0 .. from : Place(L, c) = c
         /\ \A i \in 0 .. base.catch : Place(C, i) = i
         /\ \A i \in C : Place(C, i) \in 1 .. Len(catches')
         /\ \A j \in 1 .. Len(catches') : \E i \in C : j = Place(C, i)
         /\ \A i, j \in C : Place(C, i) = Place(C, j) => i = j
<1>1. /\ Invs(used) /\ RunningOK(used) /\ K = OnTrail(trail, L) /\ C = LiveCatches
      /\ Len(catches') = Cardinality(C) /\ Slides(heap, trail, from, L, heap', trail')
  BY DEF Collects
<1>2. PICK h, tr, h2, tr2 : h = heap /\ tr = trail /\ h2 = heap' /\ tr2 = trail'
  OBVIOUS
<1>3. Slides(h, tr, from, L, h2, tr2)
  BY <1>1, <1>2
<1>4. /\ L \in SUBSET (1 .. Len(h)) /\ Len(h) \in Nat /\ from \in Nat /\ \A c \in 0 .. from : Place(L, c) = c
      /\ 1 .. from \subseteq L
  <2>1. L \in SUBSET (1 .. Len(h)) /\ Len(h) \in Nat /\ from \in Nat /\ \A c \in 0 .. from : Place(L, c) = c
    BY <1>3, SlidAt
  <2>2. 1 .. from \subseteq L
    BY <1>3 DEF Slides
  <2>. QED
    BY <2>1, <2>2
<1>5. K \in SUBSET (1 .. Len(tr)) /\ Len(tr) \in Nat
  <2>1. TrailMoves(tr, L, OnTrail(tr, L), tr2)
    BY <1>3, SlidTrail
  <2>2. Len(tr) \in Nat
    BY <2>1 DEF TrailMoves
  <2>. QED
    BY <1>1, <1>2, <2>2 DEF OnTrail
<1>6. /\ C \subseteq 1 .. Len(catches) /\ 1 .. base.catch \subseteq C
      /\ Len(catches) \in Nat /\ base.catch \in Nat
  BY <1>1, LiveCatchesAre, TopAt
<1>7. PICK a, b, c, d : a = Len(h) /\ b = Len(tr) /\ c = Len(catches) /\ d = base.catch
  OBVIOUS
<1>8. /\ a \in Nat /\ b \in Nat /\ c \in Nat /\ d \in Nat
      /\ L \in SUBSET (1 .. a) /\ K \in SUBSET (1 .. b) /\ C \in SUBSET (1 .. c) /\ 1 .. d \subseteq C
  BY <1>4, <1>5, <1>6, <1>7
<1>9. KeepsOrder(L) /\ KeepsOrder(K) /\ KeepsOrder(C)
  BY <1>8, OrderKept
<1>10. \A i \in 0 .. d : Place(C, i) = i
  BY <1>8, PlaceSame
<1>11. /\ \A i \in C : Place(C, i) \in 1 .. Cardinality(C) /\ Nth(C, Place(C, i)) = i
       /\ \A j \in 1 .. Cardinality(C) : Nth(C, j) \in C /\ Place(C, Nth(C, j)) = j
  BY <1>8, PlaceIs
<1>12. \A i, j \in C : Place(C, i) = Place(C, j) => i = j
  BY <1>11
<1>. QED
  BY <1>1, <1>4, <1>6, <1>7, <1>9, <1>10, <1>11, <1>12

LEMMA CollectLevels ==
  ASSUME NEW used, NEW from, NEW L, NEW K, NEW C, Collects(used, from, L, K, C)
  PROVE  /\ Levels' = Levels /\ \A q : BaseAt(q)' = BaseAt(q) /\ TMark(q)' = TMark(q)
         /\ \A q \in Levels : /\ BaseAt(q).heap \in Nat /\ BaseAt(q).heap <= from
                              /\ BaseAt(q).catch \in Nat /\ BaseAt(q).catch <= base.catch
                              /\ Place(L, BaseAt(q).heap) = BaseAt(q).heap
                              /\ Place(K, TMark(q)) = TMark(q) /\ TMark(q) \in Nat
                              /\ Place(C, BaseAt(q).catch) = BaseAt(q).catch
                              /\ FenceOK(heap', trail', BaseAt(q).heap, TMark(q))
<1>1. /\ Invs(used) /\ K = OnTrail(trail, L) /\ base.heap <= from /\ UNCHANGED <<base, outer>>
      /\ Slides(heap, trail, from, L, heap', trail')
  BY DEF Collects
<1>2. Levels' = Levels /\ \A q : BaseAt(q)' = BaseAt(q) /\ TMark(q)' = TMark(q)
  BY <1>1 DEF Levels, BaseAt, TMark
<1>3. PICK h, tr, h2, tr2 : h = heap /\ tr = trail /\ h2 = heap' /\ tr2 = trail'
  OBVIOUS
<1>4. Slides(h, tr, from, L, h2, tr2)
  BY <1>1, <1>3
<1>5. from \in Nat /\ \A i \in 0 .. base.catch : Place(C, i) = i
  BY CollectOrder
<1>6. ASSUME NEW q \in Levels
      PROVE  /\ BaseAt(q).heap \in Nat /\ BaseAt(q).heap <= from
             /\ BaseAt(q).catch \in Nat /\ BaseAt(q).catch <= base.catch
             /\ Place(L, BaseAt(q).heap) = BaseAt(q).heap
             /\ Place(K, TMark(q)) = TMark(q) /\ TMark(q) \in Nat
             /\ Place(C, BaseAt(q).catch) = BaseAt(q).catch
             /\ FenceOK(heap', trail', BaseAt(q).heap, TMark(q))
  <2>1. PICK b, t, d : b = BaseAt(q).heap /\ t = TMark(q) /\ d = BaseAt(q).catch
    OBVIOUS
  <2>2. PICK b1, d1 : b1 = base.heap /\ d1 = base.catch
    OBVIOUS
  <2>3. b \in Nat /\ t \in Nat /\ d \in Nat /\ b1 \in Nat /\ d1 \in Nat
    BY <1>1, <2>1, <2>2, LevelAt, TopAt
  <2>4. b <= b1 /\ d <= d1
    BY <1>1, <2>1, <2>2, TopAt DEF Rising
  <2>5. b <= from /\ d \in 0 .. d1
    <3>1. b1 <= from
      BY <1>1, <2>2
    <3>. QED
      BY <1>5, <2>3, <2>4, <3>1
  <2>6. FenceOK(h, tr, b, t)
    BY <1>1, <1>3, <2>1 DEF Invs, FencesOK
  <2>7. FenceOK(h2, tr2, b, t) /\ Place(L, b) = b /\ Place(OnTrail(tr, L), t) = t
    BY <1>4, <2>5, <2>6, SlidFence
  <2>8. Place(C, d) = d
    BY <1>5, <2>2, <2>5
  <2>. QED
    BY <1>1, <1>3, <2>1, <2>2, <2>3, <2>4, <2>5, <2>7, <2>8
<1>. QED
  BY <1>2, <1>6

LEMMA CollectAnswers ==
  ASSUME NEW used, NEW from, NEW L, NEW K, NEW C, Collects(used, from, L, K, C), NEW q \in Levels
  PROVE  AnswerAt(q) \in L /\ AnswerAt(q)' = Place(L, AnswerAt(q))
<1>1. /\ Invs(used) /\ RunningOK(used) /\ UNCHANGED <<base, outer>> /\ answer' = Place(L, answer)
      /\ Slides(heap, trail, from, L, heap', trail') /\ L = Live(from)
  BY DEF Collects
<1>2. answer \in L
  <2>1. PointUpByTrail(heap, trail, from)
    BY <1>1 DEF Slides
  <2>. QED
    BY <1>1, <2>1, LiveIs
<1>3. CASE q = Len(outer)
  BY <1>1, <1>2, <1>3 DEF AnswerAt
<1>4. CASE q # Len(outer)
  <2>1. q + 1 \in 1 .. Len(outer) /\ q + 1 \in Levels
    <3>1. q \in 0 .. Len(outer) /\ Len(outer) \in Nat
      BY <1>1, TopAt
    <3>. QED
      BY <1>4, <3>1 DEF Levels
  <2>2. PICK p : p = q + 1
    OBVIOUS
  <2>3. PICK o, a, b : o = outer[p] /\ a = o.answer /\ b = o.hmark
    OBVIOUS
  <2>4. SnapOK(heap, trail, b, o.tmark, o.cn, a, o.was) /\ BaseAt(p).heap = b
    BY <1>1, <2>1, <2>2, <2>3, TopAt DEF WaitingOK, WaitSnap, BasesOK
  <2>5. b \in Nat /\ b <= from /\ from \in Nat
    BY <2>1, <2>2, <2>4, CollectLevels, CollectOrder
  <2>6. a \in 1 .. b
    <3>1. a \in Pointable(Rel(heap, trail, b, o.tmark))
      BY <2>4 DEF SnapOK
    <3>. QED
      BY <2>5, <3>1, RelAt DEF Pointable
  <2>7. a \in 1 .. from /\ a \in 0 .. from
    BY <2>5, <2>6
  <2>8. a \in L /\ Place(L, a) = a
    BY <2>7, CollectOrder
  <2>9. AnswerAt(q) = a /\ AnswerAt(q)' = a
    BY <1>1, <1>4, <2>2, <2>3 DEF AnswerAt
  <2>. QED
    BY <2>8, <2>9
<1>. QED
  BY <1>3, <1>4

\* The store, the bases and the fences.
LEMMA CollectBases ==
  ASSUME NEW used, NEW from, NEW L, NEW K, NEW C, Collects(used, from, L, K, C)
  PROVE  StoreOK(heap', trail') /\ Typed' /\ BasesOK' /\ FencesOK' /\ PointUpByTrail(heap', trail', old_top')
<1>1. /\ Invs(used) /\ RunningOK(used) /\ UNCHANGED <<base, outer>>
      /\ Slides(heap, trail, from, L, heap', trail') /\ L = Live(from)
      /\ cn' = Place(L, cn) /\ answer' = Place(L, answer) /\ active_catch' = Place(C, active_catch)
      /\ old_top' = Cardinality(L)
      /\ frames' \in Seq(FrameType) /\ Len(frames') = Len(frames)
      /\ catches' \in Seq(EntryType) /\ Len(catches') = Cardinality(C)
  BY DEF Collects
<1>2. PICK h, tr, h2, tr2 : h = heap /\ tr = trail /\ h2 = heap' /\ tr2 = trail'
  OBVIOUS
<1>3. Slides(h, tr, from, L, h2, tr2)
  BY <1>1, <1>2
<1>4. StoreOK(h2, tr2) /\ HeapOK(h2)
  BY <1>3, SlidStore DEF StoreOK
<1>5. old_top' = Len(h2) /\ Len(h2) \in Nat
  BY <1>1, <1>3, SlidAt
<1>6. PointUpByTrail(h2, tr2, Len(h2))
  <2>1. PICK n : n = Len(h2)
    OBVIOUS
  <2>2. MarkOK(h2, tr2, n, Len(tr2))
    BY <1>4, <2>1, MarkNow
  <2>3. \A c \in 1 .. n : ~(h2[c].tag = "REF" /\ h2[c].ref > n)
    <3>1. \A c : ~Undone(tr2, Len(tr2), c)
      <4>1. Len(tr2) \in Nat
        BY <1>4, TrailAt DEF StoreOK
      <4>2. \A i \in Len(tr2) + 1 .. Len(tr2) : FALSE
        BY <4>1
      <4>. QED
        BY <4>2 DEF Undone
    <3>. QED
      BY <2>2, <3>1 DEF MarkOK
  <2>4. n \in 0 .. Len(h2)
    BY <1>5, <2>1
  <2>. QED
    BY <2>1, <2>3, <2>4 DEF PointUpByTrail
<1>7. FencesOK'
  BY CollectLevels DEF FencesOK
<1>8. BasesOK'
  <2>1. BasesOK /\ base.catch \in Nat /\ Len(frames) \in Nat
    BY <1>1, TopAt
  <2>2. ASSUME NEW q \in Levels
        PROVE  BaseAt(q).catch <= Len(catches')
    <3>1. PICK b, d : b = BaseAt(q).catch /\ d = base.catch
      OBVIOUS
    <3>2. b \in Nat /\ b <= d /\ Place(C, b) = b
      BY <3>1, CollectLevels
    <3>3. Place(C, b) <= Cardinality(C)
      <4>1. PICK n : n = Len(catches)
        OBVIOUS
      <4>2. n \in Nat /\ C \in SUBSET (1 .. n)
        BY <1>1, <4>1, CollectOrder, TopAt
      <4>3. b \in Int
        BY <3>2
      <4>. QED
        BY <4>2, <4>3, PlaceIs
    <3>. QED
      BY <1>1, <3>1, <3>2, <3>3
  <2>3. Levels' = Levels /\ \A q : BaseAt(q)' = BaseAt(q) /\ TMark(q)' = TMark(q)
    BY CollectLevels
  <2>. QED
    BY <1>1, <2>1, <2>2, <2>3 DEF BasesOK, Rising
<1>9. Typed'
  <2>1. cn \in Nat /\ answer \in Nat /\ active_catch \in Nat /\ base \in BaseType /\ outer \in Seq(WaitType)
    BY <1>1, TopAt DEF Typed
  <2>2. cn' \in Nat /\ answer' \in Nat /\ active_catch' \in Nat
    <3>1. KeepsOrder(L) /\ KeepsOrder(C)
      BY CollectOrder
    <3>. QED
      BY <1>1, <2>1, <3>1 DEF KeepsOrder
  <2>. QED
    BY <1>1, <1>5, <2>1, <2>2 DEF Typed
<1>. QED
  BY <1>2, <1>4, <1>5, <1>6, <1>7, <1>8, <1>9

(***************************************************************************)
(* What a collection makes of a choicepoint and of a catch entry.          *)
(***************************************************************************)
\* The marks of a went to those of b.
MarksMoved(a, b, L, K) ==
  /\ a.heap_mark \in Nat /\ a.trail_mark \in Nat
  /\ b.heap_mark = Place(L, a.heap_mark) /\ b.trail_mark = Place(K, a.trail_mark)

LEMMA EarlierMoved ==
  ASSUME NEW L, NEW K, KeepsOrder(L), KeepsOrder(K),
         NEW a, NEW a2, MarksMoved(a, a2, L, K), NEW b, NEW b2, MarksMoved(b, b2, L, K), Earlier(a, b)
  PROVE  Earlier(a2, b2)
BY DEF KeepsOrder, MarksMoved, Earlier

\* A number that places below are before, and one that is among those that are placed.
LEMMA OrderAt ==
  ASSUME NEW S, KeepsOrder(S), NEW m \in Nat, NEW k \in Nat, Place(S, k) = k
  PROVE  /\ m <= k => Place(S, m) <= k
         /\ k <= m => k <= Place(S, m)
         /\ m \in S => (m <= k <=> Place(S, m) <= k)
         /\ m \in S => (k < m <=> k < Place(S, m))
<1>1. Place(S, m) \in Nat
  BY DEF KeepsOrder
<1>2. (m <= k => Place(S, m) <= Place(S, k)) /\ (k <= m => Place(S, k) <= Place(S, m))
  BY DEF KeepsOrder
<1>3. m \in S => (m <= k <=> Place(S, m) <= Place(S, k))
  BY DEF KeepsOrder
<1>4. (m <= k <=> ~(k < m)) /\ (Place(S, m) <= k <=> ~(k < Place(S, m)))
  BY <1>1
<1>. QED
  BY <1>2, <1>3, <1>4

\* The catch entries in use that there still are, at their new places.
StillAt(used, C) == {Place(C, i) : i \in used \cap C}

LEMMA CollectFrame ==
  ASSUME NEW used, NEW from, NEW L, NEW K, NEW C, Collects(used, from, L, K, C), NEW n \in 1 .. Len(frames)
  PROVE  /\ FrameMoved(frames[n], frames'[n], L, K, C) /\ MarksMoved(frames[n], frames'[n], L, K)
         /\ frames[n].goals \in L /\ frames[n].goals \in Nat /\ frames[n].active_catch \in Nat
         /\ frames[n].active_catch # 0 => frames[n].active_catch \in used \cap C
<1>1. /\ Invs(used) /\ RunningOK(used) /\ L = Live(from) /\ C = LiveCatches
      /\ FrameMoved(frames[n], frames'[n], L, K, C) /\ Slides(heap, trail, from, L, heap', trail')
  BY DEF Collects
<1>2. PointUpByTrail(heap, trail, from) /\ Typed
  BY <1>1, TopAt DEF Slides
<1>3. frames[n].goals \in L
  BY <1>1, <1>2, LiveIs
<1>4. /\ frames[n].goals \in Nat /\ frames[n].active_catch \in Nat
      /\ frames[n].heap_mark \in Nat /\ frames[n].trail_mark \in Nat
  BY <1>2, StackAt
<1>5. frames[n].active_catch # 0 => frames[n].active_catch \in used /\ frames[n].active_catch \in C
  BY <1>1, ReachedIs, LiveCatchesAre
<1>6. MarksMoved(frames[n], frames'[n], L, K)
  BY <1>1, <1>4 DEF FrameMoved, MarksMoved
<1>. QED
  BY <1>1, <1>3, <1>4, <1>5, <1>6

LEMMA CollectEntry ==
  ASSUME NEW used, NEW from, NEW L, NEW K, NEW C, Collects(used, from, L, K, C), NEW i \in used \cap C
  PROVE  /\ EntryMoved(catches[i], catches'[Place(C, i)], L, K, C) /\ i \in Nat
         /\ MarksMoved(catches[i], catches'[Place(C, i)], L, K)
         /\ catches[i].goals \in L /\ catches[i].goals \in Nat /\ catches[i].sp_at_entry \in Nat
         /\ catches[i].outer_active_catch \in Nat
         /\ catches[i].outer_active_catch # 0 => catches[i].outer_active_catch \in used \cap C
<1>1. /\ Invs(used) /\ RunningOK(used) /\ L = Live(from) /\ C = LiveCatches
      /\ EntryMoved(catches[i], catches'[Place(C, i)], L, K, C) /\ Slides(heap, trail, from, L, heap', trail')
  BY DEF Collects
<1>2. /\ PointUpByTrail(heap, trail, from) /\ Typed /\ CatchesOK(used)
      /\ Len(outer) \in Levels /\ BaseAt(Len(outer)) = base
  BY <1>1, TopAt DEF Slides
<1>3. i \in 1 .. Len(catches)
  BY <1>2 DEF CatchesOK
<1>4. /\ catches[i].goals \in Nat /\ catches[i].outer_active_catch \in Nat /\ catches[i].sp_at_entry \in Nat
      /\ catches[i].heap_mark \in Nat /\ catches[i].trail_mark \in Nat /\ i \in Nat
  BY <1>2, <1>3, StackAt
<1>5. catches[i].outer_active_catch # 0 =>
        catches[i].outer_active_catch \in used /\ catches[i].outer_active_catch \in C
  <2>1. catches[i].outer_active_catch # 0 => catches[i].outer_active_catch \in used
    BY <1>2 DEF CatchesOK, EntryLinked
  <2>. QED
    BY <1>1, <2>1, LiveCatchesAre
<1>6. MarksMoved(catches[i], catches'[Place(C, i)], L, K)
  BY <1>1, <1>4 DEF EntryMoved, MarksMoved
<1>7. catches[i].goals \in L
  <2>1. CASE i \in Reached
    BY <1>1, <1>2, <2>1, LiveIs
  <2>2. CASE i \notin Reached
    <3>1. i <= base.catch
      BY <1>1, <2>2, LiveCatchesAre
    <3>2. PICK g, m, b : g = catches[i].goals /\ m = catches[i].heap_mark /\ b = base.heap
      OBVIOUS
    <3>3. EntryFenced(i, Len(outer))
      BY <1>2 DEF CatchesOK
    <3>4. m <= b
      BY <1>2, <3>1, <3>2, <3>3 DEF EntryFenced
    <3>5. PICK q \in Levels : EntrySnap(i, q)
      BY <1>2 DEF CatchesOK
    <3>6. g \in Pointable(Rel(heap, trail, m, catches[i].trail_mark))
      BY <3>2, <3>5 DEF EntrySnap, SnapOK
    <3>7. m \in Nat /\ b \in Nat /\ from \in Nat /\ b <= from /\ 1 .. from \subseteq L
      <4>1. b <= from
        BY <3>2 DEF Collects
      <4>2. b \in Nat
        BY <1>1, <3>2, TopAt
      <4>3. from \in Nat /\ 1 .. from \subseteq L
        BY CollectOrder
      <4>. QED
        BY <1>4, <3>2, <4>1, <4>2, <4>3
    <3>8. g \in 1 .. m
      BY <3>6, <3>7, RelAt DEF Pointable
    <3>9. g \in 1 .. from
      BY <3>4, <3>7, <3>8
    <3>. QED
      BY <3>2, <3>7, <3>9
  <2>. QED
    BY <2>1, <2>2
<1>. QED
  BY <1>1, <1>4, <1>5, <1>6, <1>7

\* The terms somebody comes back to.
LEMMA CollectSnap ==
  ASSUME NEW used, NEW from, NEW L, NEW K, NEW C, Collects(used, from, L, K, C), NEW q \in Levels,
         NEW hm, NEW tm, NEW goals \in L, NEW was, SnapOK(heap, trail, hm, tm, goals, AnswerAt(q), was),
         NEW hm2, NEW tm2, NEW goals2, hm2 = Place(L, hm), tm2 = Place(K, tm), goals2 = Place(L, goals)
  PROVE  SnapOK(heap', trail', hm2, tm2, goals2, AnswerAt(q)', was)
<1>1. PICK h, tr, h2, tr2, a : h = heap /\ tr = trail /\ h2 = heap' /\ tr2 = trail' /\ a = AnswerAt(q)
  OBVIOUS
<1>2. Slides(h, tr, from, L, h2, tr2) /\ K = OnTrail(tr, L)
  BY <1>1 DEF Collects
<1>3. a \in L /\ AnswerAt(q)' = Place(L, a)
  BY <1>1, CollectAnswers
<1>4. SnapOK(h, tr, hm, tm, goals, a, was)
  BY <1>1
<1>5. SnapOK(h2, tr2, Place(L, hm), Place(K, tm), Place(L, goals), Place(L, a), was)
  BY <1>2, <1>3, <1>4, SlidSnap
<1>. QED
  BY <1>1, <1>3, <1>5

LEMMA CollectFrames ==
  ASSUME NEW used, NEW from, NEW L, NEW K, NEW C, Collects(used, from, L, K, C), NEW U, U = StillAt(used, C)
  PROVE  FramesOK(U)'
<1>1. /\ Invs(used) /\ RunningOK(used) /\ FramesOK(used) /\ Len(frames') = Len(frames) /\ UNCHANGED outer
      /\ Len(frames) \in Nat /\ Len(outer) \in Nat /\ Typed
  BY TopAt DEF Collects
<1>2. KeepsOrder(L) /\ KeepsOrder(K) /\ KeepsOrder(C)
  BY CollectOrder
<1>3. /\ Levels' = Levels /\ \A q : BaseAt(q)' = BaseAt(q) /\ TMark(q)' = TMark(q)
      /\ \A q \in Levels : /\ BaseAt(q).heap \in Nat /\ BaseAt(q).catch \in Nat /\ TMark(q) \in Nat
                           /\ Place(L, BaseAt(q).heap) = BaseAt(q).heap
                           /\ Place(K, TMark(q)) = TMark(q)
                           /\ Place(C, BaseAt(q).catch) = BaseAt(q).catch
  BY CollectLevels
<1>4. ASSUME NEW n \in 1 .. Len(frames)
      PROVE  /\ FrameLinked(U, n)' /\ FrameAfter(n)'
             /\ \A q \in Levels : FrameFenced(n, q)'
             /\ \E q \in Levels : FrameOf(n, q)' /\ FrameSnap(n, q)'
  <2>1. PICK f, f2 : f = frames[n] /\ f2 = frames'[n]
    OBVIOUS
  <2>2. /\ FrameMoved(f, f2, L, K, C) /\ MarksMoved(f, f2, L, K)
        /\ f.goals \in L /\ f.goals \in Nat /\ f.active_catch \in Nat
        /\ f.active_catch # 0 => f.active_catch \in used \cap C
    BY <2>1, CollectFrame
  <2>3. /\ FrameLinked(used, n) /\ FrameAfter(n) /\ \A q \in Levels : FrameFenced(n, q)
    BY <1>1 DEF FramesOK
  <2>4. FrameLinked(U, n)'
    <3>1. PICK k, k2 : k = f.active_catch /\ k2 = f2.active_catch
      OBVIOUS
    <3>2. k2 = Place(C, k)
      BY <2>2, <3>1 DEF FrameMoved
    <3>3. CASE k = 0
      <4>1. k2 = 0
        BY <1>2, <3>2, <3>3 DEF KeepsOrder
      <4>. QED
        BY <2>1, <3>1, <4>1 DEF FrameLinked
    <3>4. CASE k # 0
      <4>1. k \in used \cap C /\ k2 \in U
        BY <2>2, <3>1, <3>2, <3>4 DEF StillAt
      <4>2. PICK e, e2 : e = catches[k] /\ e2 = catches'[k2]
        OBVIOUS
      <4>3. EntryMoved(e, e2, L, K, C) /\ MarksMoved(e, e2, L, K)
        BY <3>2, <4>1, <4>2, CollectEntry
      <4>4. Earlier(e, f) /\ e.sp_at_entry < n
        BY <2>1, <2>3, <3>1, <3>4, <4>2 DEF FrameLinked
      <4>5. Earlier(e2, f2)
        BY <1>2, <2>2, <4>3, <4>4, EarlierMoved
      <4>6. e2.sp_at_entry < n
        BY <4>3, <4>4 DEF EntryMoved
      <4>. QED
        BY <2>1, <3>1, <4>1, <4>2, <4>5, <4>6 DEF FrameLinked
    <3>. QED
      BY <3>3, <3>4
  <2>5. FrameAfter(n)'
    <3>1. ASSUME NEW m \in 1 .. n
          PROVE  Earlier(frames'[m], frames'[n])
      <4>1. m \in 1 .. Len(frames)
        BY <1>1
      <4>2. PICK g, g2 : g = frames[m] /\ g2 = frames'[m]
        OBVIOUS
      <4>3. MarksMoved(g, g2, L, K)
        BY <4>1, <4>2, CollectFrame
      <4>4. Earlier(g, f)
        BY <2>1, <2>3, <4>2 DEF FrameAfter
      <4>5. Earlier(g2, f2)
        BY <1>2, <2>2, <4>3, <4>4, EarlierMoved
      <4>. QED
        BY <2>1, <4>2, <4>5
    <3>. QED
      BY <3>1 DEF FrameAfter
  <2>6. ASSUME NEW q \in Levels
        PROVE  FrameFenced(n, q)'
    <3>1. PICK b, s, d, t : b = BaseAt(q).heap /\ s = BaseAt(q).sp /\ d = BaseAt(q).catch /\ t = TMark(q)
      OBVIOUS
    <3>2. /\ b = BaseAt(q)'.heap /\ s = BaseAt(q)'.sp /\ d = BaseAt(q)'.catch /\ t = TMark(q)'
          /\ b \in Nat /\ d \in Nat /\ t \in Nat /\ Place(L, b) = b /\ Place(K, t) = t /\ Place(C, d) = d
      BY <1>3, <3>1
    <3>3. PICK hm, tm, g, k : hm = f.heap_mark /\ tm = f.trail_mark /\ g = f.goals /\ k = f.active_catch
      OBVIOUS
    <3>4. /\ hm \in Nat /\ tm \in Nat /\ g \in Nat /\ g \in L /\ k \in Nat
          /\ k # 0 => k \in C
          /\ f2.heap_mark = Place(L, hm) /\ f2.trail_mark = Place(K, tm)
          /\ f2.goals = Place(L, g) /\ f2.active_catch = Place(C, k)
      BY <2>2, <3>3 DEF FrameMoved, MarksMoved
    <3>5. IF n <= s THEN hm <= b /\ tm <= t /\ k <= d
          ELSE b <= hm /\ t <= tm /\ b < g /\ (k # 0 => d < k)
      BY <2>1, <2>3, <3>1, <3>3 DEF FrameFenced
    <3>6. /\ hm <= b => Place(L, hm) <= b
          /\ b <= hm => b <= Place(L, hm)
          /\ b < g => b < Place(L, g)
      BY <1>2, <3>2, <3>4, OrderAt
    <3>7. /\ tm <= t => Place(K, tm) <= t
          /\ t <= tm => t <= Place(K, tm)
      BY <1>2, <3>2, <3>4, OrderAt
    <3>8. /\ k <= d => Place(C, k) <= d
          /\ k \in C => (d < k => d < Place(C, k))
      BY <1>2, <3>2, <3>4, OrderAt
    <3>9. Place(C, k) # 0 => k # 0
      BY <1>2 DEF KeepsOrder
    <3>10. IF n <= s THEN Place(L, hm) <= b /\ Place(K, tm) <= t /\ Place(C, k) <= d
           ELSE b <= Place(L, hm) /\ t <= Place(K, tm) /\ b < Place(L, g) /\ (Place(C, k) # 0 => d < Place(C, k))
      BY <3>4, <3>5, <3>6, <3>7, <3>8, <3>9
    <3>. QED
      BY <2>1, <3>2, <3>4, <3>10 DEF FrameFenced
  <2>7. \E q \in Levels : FrameOf(n, q)' /\ FrameSnap(n, q)'
    <3>1. PICK q \in Levels : FrameOf(n, q) /\ FrameSnap(n, q)
      BY <1>1 DEF FramesOK
    <3>2. FrameOf(n, q)'
      <4>1. FrameOf(n, q)
        BY <3>1
      <4>2. BaseAt(q)' = BaseAt(q) /\ BaseAt(q + 1)' = BaseAt(q + 1)
        BY <1>3
      <4>. QED
        BY <1>1, <4>1, <4>2 DEF FrameOf
    <3>3. SnapOK(heap, trail, f.heap_mark, f.trail_mark, f.goals, AnswerAt(q), f.was)
      BY <2>1, <3>1 DEF FrameSnap
    <3>4. SnapOK(heap', trail', f2.heap_mark, f2.trail_mark, f2.goals, AnswerAt(q)', f.was)
      <4>1. PICK hm, tm, g, w, hm2, tm2, g2 :
              /\ hm = f.heap_mark /\ tm = f.trail_mark /\ g = f.goals /\ w = f.was
              /\ hm2 = f2.heap_mark /\ tm2 = f2.trail_mark /\ g2 = f2.goals
        OBVIOUS
      <4>2. /\ g \in L /\ hm2 = Place(L, hm) /\ tm2 = Place(K, tm) /\ g2 = Place(L, g)
            /\ SnapOK(heap, trail, hm, tm, g, AnswerAt(q), w)
        BY <2>2, <3>3, <4>1 DEF FrameMoved
      <4>3. SnapOK(heap', trail', hm2, tm2, g2, AnswerAt(q)', w)
        BY <4>2, CollectSnap
      <4>. QED
        BY <4>1, <4>3
    <3>5. f2.was = f.was
      BY <2>2 DEF FrameMoved
    <3>6. FrameSnap(n, q)'
      BY <2>1, <3>4, <3>5 DEF FrameSnap
    <3>. QED
      BY <3>2, <3>6
  <2>. QED
    BY <2>4, <2>5, <2>6, <2>7
<1>. QED
  BY <1>1, <1>3, <1>4 DEF FramesOK

LEMMA CollectCatches ==
  ASSUME NEW used, NEW from, NEW L, NEW K, NEW C, Collects(used, from, L, K, C), NEW U, U = StillAt(used, C)
  PROVE  CatchesOK(U)' /\ U \in SUBSET (1 .. Len(catches'))
<1>1. /\ Invs(used) /\ RunningOK(used) /\ CatchesOK(used) /\ Len(frames') = Len(frames) /\ UNCHANGED outer
      /\ Len(frames) \in Nat /\ Len(outer) \in Nat /\ Typed
  BY TopAt DEF Collects
<1>2. /\ KeepsOrder(L) /\ KeepsOrder(K) /\ KeepsOrder(C) /\ C \subseteq 1 .. Len(catches)
      /\ \A i \in C : Place(C, i) \in 1 .. Len(catches')
      /\ \A j \in 1 .. Len(catches') : \E i \in C : j = Place(C, i)
  BY CollectOrder
<1>3. /\ Levels' = Levels /\ \A q : BaseAt(q)' = BaseAt(q) /\ TMark(q)' = TMark(q)
      /\ \A q \in Levels : /\ BaseAt(q).heap \in Nat /\ BaseAt(q).catch \in Nat /\ TMark(q) \in Nat
                           /\ Place(L, BaseAt(q).heap) = BaseAt(q).heap
                           /\ Place(K, TMark(q)) = TMark(q)
                           /\ Place(C, BaseAt(q).catch) = BaseAt(q).catch
  BY CollectLevels
<1>4. U \in SUBSET (1 .. Len(catches'))
  BY <1>2 DEF StillAt
<1>5. ASSUME NEW j \in 1 .. Len(catches')
      PROVE  catches'[j].outer_active_catch < j
  <2>1. PICK i \in C : j = Place(C, i)
    BY <1>2
  <2>2. PICK k : k = catches[i].outer_active_catch
    OBVIOUS
  <2>3. k \in Nat /\ i \in Nat /\ k < i
    BY <1>1, <1>2, <2>2, StackAt DEF CatchesOK
  <2>4. catches'[j].outer_active_catch = Place(C, k)
    BY <2>1, <2>2 DEF Collects
  <2>5. Place(C, k) \in Nat /\ Place(C, i) \in Nat
    BY <1>2, <2>3 DEF KeepsOrder
  <2>6. i <= k <=> Place(C, i) <= Place(C, k)
    BY <1>2, <2>3 DEF KeepsOrder
  <2>. QED
    BY <2>1, <2>3, <2>4, <2>5, <2>6
<1>6. ASSUME NEW i \in used \cap C, NEW j, j = Place(C, i)
      PROVE  /\ EntryLinked(U, j)' /\ EntryAfter(j)'
             /\ \A q \in Levels : EntryFenced(j, q)'
             /\ \E q \in Levels : EntryOf(j, q)' /\ EntrySnap(j, q)'
  <2>1. PICK e, e2 : e = catches[i] /\ e2 = catches'[j]
    OBVIOUS
  <2>2. /\ EntryMoved(e, e2, L, K, C) /\ MarksMoved(e, e2, L, K) /\ i \in Nat
        /\ e.goals \in L /\ e.goals \in Nat /\ e.sp_at_entry \in Nat /\ e.outer_active_catch \in Nat
        /\ e.outer_active_catch # 0 => e.outer_active_catch \in used \cap C
    BY <1>6, <2>1, CollectEntry
  <2>3. EntryLinked(used, i) /\ EntryAfter(i) /\ \A q \in Levels : EntryFenced(i, q)
    BY <1>1 DEF CatchesOK
  <2>4. EntryLinked(U, j)'
    <3>1. PICK k, k2 : k = e.outer_active_catch /\ k2 = e2.outer_active_catch
      OBVIOUS
    <3>2. k2 = Place(C, k)
      BY <2>2, <3>1 DEF EntryMoved
    <3>3. CASE k = 0
      <4>1. k2 = 0
        BY <1>2, <3>2, <3>3 DEF KeepsOrder
      <4>. QED
        BY <2>1, <3>1, <4>1 DEF EntryLinked
    <3>4. CASE k # 0
      <4>1. k \in used \cap C /\ k2 \in U
        BY <2>2, <3>1, <3>2, <3>4 DEF StillAt
      <4>2. PICK o, o2 : o = catches[k] /\ o2 = catches'[k2]
        OBVIOUS
      <4>3. EntryMoved(o, o2, L, K, C) /\ MarksMoved(o, o2, L, K)
        BY <3>2, <4>1, <4>2, CollectEntry
      <4>4. Earlier(o, e) /\ o.sp_at_entry <= e.sp_at_entry
        BY <2>1, <2>3, <3>1, <3>4, <4>2 DEF EntryLinked
      <4>5. Earlier(o2, e2)
        BY <1>2, <2>2, <4>3, <4>4, EarlierMoved
      <4>6. o2.sp_at_entry <= e2.sp_at_entry
        BY <2>2, <4>3, <4>4 DEF EntryMoved
      <4>. QED
        BY <2>1, <3>1, <4>1, <4>2, <4>5, <4>6 DEF EntryLinked
    <3>. QED
      BY <3>3, <3>4
  <2>5. EntryAfter(j)'
    <3>1. PICK s : s = e.sp_at_entry
      OBVIOUS
    <3>2. s \in Nat /\ s <= Len(frames) /\ e2.sp_at_entry = s
      BY <2>1, <2>2, <2>3, <3>1 DEF EntryAfter, EntryMoved
    <3>3. ASSUME NEW m \in 1 .. s
          PROVE  Earlier(frames'[m], catches'[j])
      <4>1. m \in 1 .. Len(frames)
        BY <1>1, <3>2
      <4>2. PICK g, g2 : g = frames[m] /\ g2 = frames'[m]
        OBVIOUS
      <4>3. MarksMoved(g, g2, L, K)
        BY <4>1, <4>2, CollectFrame
      <4>4. Earlier(g, e)
        BY <2>1, <2>3, <3>1, <4>2 DEF EntryAfter
      <4>5. Earlier(g2, e2)
        BY <1>2, <2>2, <4>3, <4>4, EarlierMoved
      <4>. QED
        BY <2>1, <4>2, <4>5
    <3>. QED
      BY <1>1, <2>1, <3>2, <3>3 DEF EntryAfter
  <2>6. ASSUME NEW q \in Levels
        PROVE  EntryFenced(j, q)'
    <3>1. PICK b, s, d, t : b = BaseAt(q).heap /\ s = BaseAt(q).sp /\ d = BaseAt(q).catch /\ t = TMark(q)
      OBVIOUS
    <3>2. /\ b = BaseAt(q)'.heap /\ s = BaseAt(q)'.sp /\ d = BaseAt(q)'.catch /\ t = TMark(q)'
          /\ b \in Nat /\ d \in Nat /\ t \in Nat /\ Place(L, b) = b /\ Place(K, t) = t /\ Place(C, d) = d
      BY <1>3, <3>1
    <3>3. PICK hm, tm, g, k, sp : /\ hm = e.heap_mark /\ tm = e.trail_mark /\ g = e.goals
                                  /\ k = e.outer_active_catch /\ sp = e.sp_at_entry
      OBVIOUS
    <3>4. /\ hm \in Nat /\ tm \in Nat /\ g \in Nat /\ g \in L /\ k \in Nat
          /\ k # 0 => k \in C
          /\ e2.heap_mark = Place(L, hm) /\ e2.trail_mark = Place(K, tm) /\ e2.sp_at_entry = sp
          /\ e2.goals = Place(L, g) /\ e2.outer_active_catch = Place(C, k)
      BY <2>2, <3>3 DEF EntryMoved, MarksMoved
    <3>5. IF i <= d THEN hm <= b /\ tm <= t /\ sp <= s
          ELSE b <= hm /\ t <= tm /\ s <= sp /\ b < g /\ (k # 0 => d < k)
      BY <2>1, <2>3, <3>1, <3>3 DEF EntryFenced
    <3>6. /\ hm <= b => Place(L, hm) <= b
          /\ b <= hm => b <= Place(L, hm)
          /\ b < g => b < Place(L, g)
      BY <1>2, <3>2, <3>4, OrderAt
    <3>7. /\ tm <= t => Place(K, tm) <= t
          /\ t <= tm => t <= Place(K, tm)
      BY <1>2, <3>2, <3>4, OrderAt
    <3>8. k \in C => (d < k => d < Place(C, k))
      BY <1>2, <3>2, <3>4, OrderAt
    <3>9. i <= d <=> j <= d
      BY <1>2, <1>6, <2>2, <3>2, OrderAt
    <3>10. Place(C, k) # 0 => k # 0
      BY <1>2 DEF KeepsOrder
    <3>11. IF j <= d THEN Place(L, hm) <= b /\ Place(K, tm) <= t /\ sp <= s
           ELSE /\ b <= Place(L, hm) /\ t <= Place(K, tm) /\ s <= sp /\ b < Place(L, g)
                /\ Place(C, k) # 0 => d < Place(C, k)
      BY <3>4, <3>5, <3>6, <3>7, <3>8, <3>9, <3>10
    <3>. QED
      BY <2>1, <3>2, <3>4, <3>11 DEF EntryFenced
  <2>7. \E q \in Levels : EntryOf(j, q)' /\ EntrySnap(j, q)'
    <3>1. PICK q \in Levels : EntryOf(i, q) /\ EntrySnap(i, q)
      BY <1>1 DEF CatchesOK
    <3>2. EntryOf(j, q)'
      <4>1. EntryOf(i, q)
        BY <3>1
      <4>2. BaseAt(q)' = BaseAt(q) /\ BaseAt(q + 1)' = BaseAt(q + 1)
        BY <1>3
      <4>3. BaseAt(q).catch < i <=> BaseAt(q).catch < j
        <5>1. PICK d : d = BaseAt(q).catch
          OBVIOUS
        <5>2. d \in Nat /\ Place(C, d) = d
          BY <1>3, <5>1
        <5>. QED
          BY <1>2, <1>6, <2>2, <5>1, <5>2, OrderAt
      <4>4. q < Len(outer) => (i <= BaseAt(q + 1).catch <=> j <= BaseAt(q + 1).catch)
        <5>1. SUFFICES ASSUME q < Len(outer) PROVE i <= BaseAt(q + 1).catch <=> j <= BaseAt(q + 1).catch
          OBVIOUS
        <5>2. PICK d, p : p = q + 1 /\ d = BaseAt(p).catch
          OBVIOUS
        <5>3. p \in Levels
          BY <1>1, <5>1, <5>2 DEF Levels
        <5>4. d \in Nat /\ Place(C, d) = d
          BY <1>3, <5>2, <5>3
        <5>5. i <= d <=> j <= d
          BY <1>2, <1>6, <2>2, <5>4, OrderAt
        <5>. QED
          BY <5>2, <5>5
      <4>. QED
        BY <1>1, <4>1, <4>2, <4>3, <4>4 DEF EntryOf
    <3>3. SnapOK(heap, trail, e.heap_mark, e.trail_mark, e.goals, AnswerAt(q), e.was)
      BY <2>1, <3>1 DEF EntrySnap
    <3>4. SnapOK(heap', trail', e2.heap_mark, e2.trail_mark, e2.goals, AnswerAt(q)', e.was)
      <4>1. PICK hm, tm, g, w, hm2, tm2, g2 :
              /\ hm = e.heap_mark /\ tm = e.trail_mark /\ g = e.goals /\ w = e.was
              /\ hm2 = e2.heap_mark /\ tm2 = e2.trail_mark /\ g2 = e2.goals
        OBVIOUS
      <4>2. /\ g \in L /\ hm2 = Place(L, hm) /\ tm2 = Place(K, tm) /\ g2 = Place(L, g)
            /\ SnapOK(heap, trail, hm, tm, g, AnswerAt(q), w)
        BY <2>2, <3>3, <4>1 DEF EntryMoved
      <4>3. SnapOK(heap', trail', hm2, tm2, g2, AnswerAt(q)', w)
        BY <4>2, CollectSnap
      <4>. QED
        BY <4>1, <4>3
    <3>5. e2.was = e.was
      BY <2>2 DEF EntryMoved
    <3>6. EntrySnap(j, q)'
      BY <2>1, <3>4, <3>5 DEF EntrySnap
    <3>. QED
      BY <3>2, <3>6
  <2>. QED
    BY <2>4, <2>5, <2>6, <2>7
<1>7. \A j \in U : \E i \in used \cap C : j = Place(C, i)
  BY DEF StillAt
<1>. QED
  BY <1>3, <1>4, <1>5, <1>6, <1>7 DEF CatchesOK

LEMMA CollectWaiting ==
  ASSUME NEW used, NEW from, NEW L, NEW K, NEW C, Collects(used, from, L, K, C), NEW U, U = StillAt(used, C)
  PROVE  WaitingOK(U)'
<1>1. /\ Invs(used) /\ RunningOK(used) /\ C = LiveCatches /\ UNCHANGED outer /\ K = OnTrail(trail, L)
      /\ Typed /\ WaitingOK(used) /\ BasesOK /\ Len(outer) \in Nat /\ base.catch \in Nat
  BY TopAt DEF Collects
<1>2. /\ 1 .. base.catch \subseteq C
      /\ \A i \in 0 .. base.catch : Place(C, i) = i
      /\ \A c \in 0 .. from : Place(L, c) = c
      /\ from \in Nat /\ 1 .. from \subseteq L
  BY <1>1, LiveCatchesAre, CollectOrder
<1>3. PICK h, tr, h2, tr2 : h = heap /\ tr = trail /\ h2 = heap' /\ tr2 = trail'
  OBVIOUS
<1>4. Slides(h, tr, from, L, h2, tr2) /\ K = OnTrail(tr, L)
  BY <1>1, <1>3 DEF Collects
<1>5. ASSUME NEW q \in 1 .. Len(outer)
      PROVE  WaitLinked(U, q)' /\ WaitSnap(q)'
  <2>1. PICK o : o = outer[q]
    OBVIOUS
  <2>2. /\ o.hmark = BaseAt(q).heap /\ o.cmark = BaseAt(q).catch /\ o.tmark = TMark(q)
        /\ q \in Levels /\ \A p \in 0 .. q - 1 : p \in Levels
    <3>1. q # 0 /\ q \in Levels /\ \A p \in 0 .. q - 1 : p \in Levels
      BY <1>1 DEF Levels
    <3>. QED
      BY <1>1, <2>1, <3>1 DEF BasesOK, TMark
  <2>3. PICK b, t, d, k, a, c : /\ b = o.hmark /\ t = o.tmark /\ d = o.cmark
                                /\ k = o.active_catch /\ a = o.answer /\ c = o.cn
    OBVIOUS
  <2>4. /\ b \in Nat /\ b <= from /\ Place(L, b) = b /\ Place(K, t) = t
        /\ d \in Nat /\ d <= base.catch
    BY <2>2, <2>3, CollectLevels
  <2>5. k \in Nat
    BY <1>1, <2>1, <2>3, StackAt
  <2>6. \A p \in 0 .. q - 1 : BaseAt(p)' = BaseAt(p)
    BY CollectLevels
  <2>7. WaitLinked(used, q) /\ WaitSnap(q)
    BY <1>1 DEF WaitingOK
  <2>8. WaitLinked(U, q)'
    <3>1. k # 0 => k \in used /\ k <= d /\ \A p \in 0 .. q - 1 : BaseAt(p).catch < k
      BY <2>1, <2>3, <2>7 DEF WaitLinked
    <3>2. k # 0 => k \in 1 .. base.catch /\ k \in 0 .. base.catch
      BY <1>1, <2>4, <2>5, <3>1
    <3>3. k # 0 => k \in U
      <4>1. k # 0 => k \in used \cap C /\ k = Place(C, k)
        BY <1>2, <3>1, <3>2
      <4>. QED
        BY <4>1 DEF StillAt
    <3>. QED
      BY <1>1, <2>1, <2>3, <2>6, <3>1, <3>3 DEF WaitLinked
  <2>9. WaitSnap(q)'
    <3>1. PICK w : w = o.was
      OBVIOUS
    <3>2. SnapOK(h, tr, b, t, c, a, w) /\ \A p \in 0 .. q - 1 : BaseAt(p).heap < c
      BY <1>3, <2>1, <2>3, <2>7, <3>1 DEF WaitSnap
    <3>3. c \in 1 .. b /\ a \in 1 .. b
      <4>1. c \in Pointable(Rel(h, tr, b, t)) /\ a \in Pointable(Rel(h, tr, b, t))
        BY <3>2 DEF SnapOK
      <4>. QED
        BY <2>4, <4>1, RelAt DEF Pointable
    <3>4. c \in 1 .. from /\ a \in 1 .. from /\ c \in 0 .. from /\ a \in 0 .. from
      BY <1>2, <2>4, <3>3
    <3>5. c \in L /\ a \in L /\ Place(L, c) = c /\ Place(L, a) = a
      BY <1>2, <3>4
    <3>6. SnapOK(h2, tr2, Place(L, b), Place(K, t), Place(L, c), Place(L, a), w)
      BY <1>4, <3>2, <3>5, SlidSnap
    <3>7. SnapOK(h2, tr2, b, t, c, a, w)
      BY <2>4, <3>5, <3>6
    <3>. QED
      BY <1>1, <1>3, <2>1, <2>3, <2>6, <3>1, <3>2, <3>7 DEF WaitSnap
  <2>. QED
    BY <2>8, <2>9
<1>. QED
  BY <1>1, <1>5 DEF WaitingOK

LEMMA CollectRunning ==
  ASSUME NEW used, NEW from, NEW L, NEW K, NEW C, Collects(used, from, L, K, C), NEW U, U = StillAt(used, C)
  PROVE  RunningOK(U)'
<1>1. /\ Invs(used) /\ RunningOK(used) /\ C = LiveCatches /\ L = Live(from) /\ UNCHANGED outer
      /\ cn' = Place(L, cn) /\ answer' = Place(L, answer) /\ active_catch' = Place(C, active_catch)
      /\ Typed
  BY TopAt DEF Collects
<1>2. PICK h, tr, h2, tr2 : h = heap /\ tr = trail /\ h2 = heap' /\ tr2 = trail'
  OBVIOUS
<1>3. Slides(h, tr, from, L, h2, tr2) /\ PointUpByTrail(heap, trail, from)
  BY <1>2 DEF Collects, Slides
<1>4. cn \in L /\ answer \in L /\ h[cn].tag # "FUNCTOR" /\ h[answer].tag # "FUNCTOR"
  <2>1. cn \in Pointable(heap) /\ answer \in Pointable(heap)
    BY <1>1 DEF RunningOK
  <2>. QED
    BY <1>1, <1>2, <1>3, <2>1, LiveIs DEF Pointable
<1>5. ASSUME NEW c \in L, h[c].tag # "FUNCTOR"
      PROVE  Place(L, c) \in Pointable(h2)
  <2>1. Place(L, c) \in 1 .. Len(h2)
    BY <1>3, SlidAt
  <2>2. h2[Place(L, c)].tag = h[c].tag
    BY <1>3, SlidView
  <2>. QED
    BY <1>5, <2>1, <2>2 DEF Pointable
<1>6. cn' \in Pointable(h2) /\ answer' \in Pointable(h2)
  BY <1>1, <1>4, <1>5
<1>7. /\ KeepsOrder(L) /\ KeepsOrder(C) /\ Levels' = Levels
      /\ \A q : BaseAt(q)' = BaseAt(q)
      /\ \A q \in Levels : /\ BaseAt(q).heap \in Nat /\ BaseAt(q).catch \in Nat
                           /\ Place(L, BaseAt(q).heap) = BaseAt(q).heap
                           /\ Place(C, BaseAt(q).catch) = BaseAt(q).catch
  BY CollectOrder, CollectLevels
<1>8. PICK c, k : c = cn /\ k = active_catch
  OBVIOUS
<1>9. c \in Nat /\ k \in Nat
  BY <1>1, <1>8 DEF Typed
<1>10. ASSUME NEW q \in Levels
       PROVE  BaseAt(q).heap < Place(L, c)
  <2>1. PICK b : b = BaseAt(q).heap
    OBVIOUS
  <2>2. b \in Nat /\ Place(L, b) = b /\ b < c /\ c \in L
    BY <1>1, <1>4, <1>7, <1>8, <2>1 DEF RunningOK
  <2>3. b < Place(L, c)
    BY <1>7, <1>9, <2>2, OrderAt
  <2>. QED
    BY <2>1, <2>3
<1>11. CASE k = 0
  <2>1. active_catch' = 0
    BY <1>1, <1>7, <1>8, <1>11 DEF KeepsOrder
  <2>. QED
    BY <1>1, <1>2, <1>6, <1>7, <1>8, <1>10, <2>1 DEF RunningOK
<1>12. CASE k # 0
  <2>1. k \in used \cap C
    BY <1>1, <1>8, <1>12, ReachedIs, LiveCatchesAre
  <2>2. active_catch' \in U
    BY <1>1, <1>8, <2>1 DEF StillAt
  <2>3. ASSUME NEW q \in Levels
        PROVE  BaseAt(q).catch < Place(C, k)
    <3>1. PICK d : d = BaseAt(q).catch
      OBVIOUS
    <3>2. d \in Nat /\ Place(C, d) = d /\ d < k /\ k \in C
      BY <1>1, <1>7, <1>8, <1>12, <2>1, <3>1 DEF RunningOK
    <3>3. d < Place(C, k)
      BY <1>7, <1>9, <3>2, OrderAt
    <3>. QED
      BY <3>1, <3>3
  <2>. QED
    BY <1>1, <1>2, <1>6, <1>7, <1>8, <1>10, <2>2, <2>3 DEF RunningOK
<1>. QED
  BY <1>11, <1>12

\* A collection, minor or major, keeps all of it.
LEMMA CollectFromKeeps ==
  ASSUME HeapInv, NEW from, PointUpByTrail(heap, trail, from), base.heap <= from, CollectFrom(from)
  PROVE  HeapInv'
<1>1. PICK used : Invs(used) /\ RunningOK(used)
  BY InvParts
<1>2. PICK L, K, C, U : L = Live(from) /\ K = OnTrail(trail, L) /\ C = LiveCatches /\ U = StillAt(used, C)
  OBVIOUS
<1>3. PICK junk \in Junk : Slide(from, L, junk)
  BY <1>2 DEF CollectFrom
<1>4. junk \in Nat
  BY <1>1, RunningAt, JunkIs
<1>5. Collects(used, from, L, K, C)
  BY <1>1, <1>2, <1>3, <1>4, SlideIs
<1>6. StoreOK(heap', trail') /\ Typed' /\ BasesOK' /\ FencesOK' /\ PointUpByTrail(heap', trail', old_top')
  BY <1>5, CollectBases
<1>7. FramesOK(U)' /\ CatchesOK(U)' /\ WaitingOK(U)' /\ RunningOK(U)'
  BY <1>2, <1>5, CollectFrames, CollectCatches, CollectWaiting, CollectRunning
<1>8. Invs(U)'
  BY <1>6, <1>7 DEF Invs
<1>. QED
  BY <1>6, <1>7, <1>8, InvAgain

\* Only bound variables below the base of the running query point above it, and
\* there are none.
LEMMA BasePointsUp ==
  ASSUME NEW used, Invs(used)
  PROVE  PointUpByTrail(heap, trail, base.heap)
<1>1. PICK b, t : b = base.heap /\ t = TMark(Len(outer))
  OBVIOUS
<1>2. FenceOK(heap, trail, b, t) /\ b \in Nat
  <2>1. Len(outer) \in Levels /\ BaseAt(Len(outer)) = base /\ base.heap \in Nat /\ FencesOK
    BY TopAt DEF Invs
  <2>. QED
    BY <1>1, <2>1 DEF FencesOK
<1>3. b \in 0 .. Len(heap) /\ Len(heap) \in Nat
  BY <1>2, TopAt, CellAt DEF FenceOK, StoreOK
<1>4. ASSUME NEW c \in 1 .. b, heap[c].tag = "REF", heap[c].ref > b
      PROVE  FALSE
  <2>1. c \in 1 .. Len(heap) /\ c <= b
    BY <1>2, <1>3
  <2>2. heap[c].ref <= b
    BY <1>2, <1>4, <2>1 DEF FenceOK
  <2>3. heap[c].ref \in Nat
    <3>1. HeapOK(heap)
      BY TopAt DEF StoreOK
    <3>2. heap[c].ref \in Children(heap, c)
      BY <1>4 DEF Children
    <3>3. heap[c].ref \in 1 .. Len(heap)
      BY <2>1, <3>1, <3>2, ChildrenIn
    <3>. QED
      BY <1>3, <3>3
  <2>. QED
    BY <1>2, <1>4, <2>2, <2>3
<1>. QED
  BY <1>1, <1>3, <1>4 DEF PointUpByTrail

LEMMA CollectKeeps ==
  ASSUME HeapInv, Collect
  PROVE  HeapInv'
<1>1. PICK used : Invs(used) /\ RunningOK(used) /\ PointUpByTrail(heap, trail, old_top)
  BY InvParts
<1>2. base.heap \in Nat /\ old_top \in Nat
  BY <1>1, TopAt, RunningAt
<1>3. CASE Major
  <2>1. PICK from : from = base.heap
    OBVIOUS
  <2>2. PointUpByTrail(heap, trail, from) /\ base.heap <= from /\ CollectFrom(from)
    BY <1>1, <1>2, <1>3, <2>1, BasePointsUp DEF Major
  <2>. QED
    BY <2>2, CollectFromKeeps
<1>4. CASE Minor
  <2>1. PICK from : from = old_top
    OBVIOUS
  <2>2. PointUpByTrail(heap, trail, from) /\ base.heap <= from /\ CollectFrom(from)
    BY <1>1, <1>2, <1>4, <2>1 DEF Minor
  <2>. QED
    BY <2>2, CollectFromKeeps
<1>. QED
  BY <1>3, <1>4 DEF Collect

(***************************************************************************)
(* The invariant.                                                          *)
(***************************************************************************)
LEMMA InitInv ==
  ASSUME Init
  PROVE  HeapInv
<1>1. PICK h, h2, tr, n : h = <<>> /\ h2 = heap /\ tr = trail /\ n = 0
  OBVIOUS
<1>2. /\ h2 = QueryCells(n) /\ tr = <<>> /\ frames = <<>> /\ catches = <<>> /\ outer = <<>>
      /\ cn = n + 4 /\ answer = n + 5 /\ active_catch = 0 /\ old_top = 0
      /\ base = [sp |-> 0, heap |-> 0, catch |-> 0]
  BY <1>1 DEF Init
<1>3. /\ HeapOK(h) /\ NoRing(h) /\ TrailOK(h, tr) /\ n = Len(h) /\ Len(tr) = 0
  <2>1. Len(h) = 0 /\ Len(tr) = 0 /\ h \in Seq(HeapCell) /\ tr \in Seq(Nat)
    BY <1>1, <1>2
  <2>2. 1 .. Len(h) = {} /\ 1 .. Len(tr) = {}
    BY <2>1
  <2>3. HeapOK(h)
    BY <2>1, <2>2 DEF HeapOK
  <2>4. NoRing(h)
    BY <2>2 DEF NoRing
  <2>5. TrailOK(h, tr)
    BY <2>1, <2>2 DEF TrailOK
  <2>. QED
    BY <1>1, <2>1, <2>3, <2>4, <2>5
<1>4. h2 = h \o QueryCells(n)
  <2>1. PICK s : s = QueryCells(n)
    OBVIOUS
  <2>2. s \in Seq(HeapCell)
    <3>1. Functor(2) \in HeapCell /\ \A i \in Nat : Ref(i) \in HeapCell /\ Str(i) \in HeapCell
      BY DEF HeapCell, Functor, Ref, Str
    <3>2. n + 5 \in Nat /\ n + 6 \in Nat /\ n + 1 \in Nat
      BY <1>1
    <3>. QED
      BY <2>1, <3>1, <3>2 DEF QueryCells
  <2>3. <<>> \o s = s
    BY <2>2, ConcatEmptySeq
  <2>. QED
    BY <1>1, <1>2, <2>1, <2>3
<1>5. /\ HeapOK(h2) /\ Grows(h, h2) /\ Settled(h, h2) /\ Len(h2) = n + 6
      /\ n + 4 \in Pointable(h2) /\ n + 5 \in Pointable(h2)
      /\ \A c \in 1 .. Len(h2) : c > n => /\ h2[c].tag = "REF" => n < h2[c].ref
                                          /\ h2[c].tag = "STR" => n < h2[c].ptr
  BY <1>3, <1>4, QueryGrows
<1>6. StoreOK(h2, tr)
  <2>1. StoreOK(h, tr)
    BY <1>3 DEF StoreOK
  <2>. QED
    BY <1>5, <2>1, GrowStore
<1>7. Typed
  BY <1>1, <1>2 DEF Typed, BaseType
<1>8. /\ Levels = {0} /\ BaseAt(0) = base /\ TMark(0) = 0
  BY <1>2 DEF Levels, BaseAt, TMark
<1>9. BasesOK
  BY <1>2, <1>8 DEF BasesOK, Rising
<1>10. FenceOK(h2, tr, n, n)
  <2>1. n \in 0 .. Len(h2) /\ n \in 0 .. Len(tr)
    BY <1>1, <1>3, <1>5
  <2>2. ASSUME NEW c \in 1 .. Len(h2)
        PROVE  /\ h2[c].tag = "REF" => (h2[c].ref <= n <=> c <= n)
               /\ h2[c].tag = "STR" /\ n < c => n < h2[c].ptr
    <3>1. c \in Nat /\ c > n /\ ~(c <= n)
      BY <1>1, <1>5
    <3>2. h2[c].tag = "REF" => ~(h2[c].ref <= n)
      <4>1. SUFFICES ASSUME h2[c].tag = "REF" PROVE ~(h2[c].ref <= n)
        OBVIOUS
      <4>2. PICK r : r = h2[c].ref
        OBVIOUS
      <4>3. r \in Children(h2, c)
        BY <4>1, <4>2 DEF Children
      <4>4. r \in 1 .. Len(h2)
        BY <1>5, <4>3, ChildrenIn
      <4>5. r \in Nat /\ r >= 1
        BY <1>1, <1>5, <4>4
      <4>. QED
        BY <1>1, <4>2, <4>5
    <3>. QED
      BY <1>5, <3>1, <3>2
  <2>3. \A i \in 1 .. Len(tr) : FALSE
    BY <1>3
  <2>. QED
    BY <2>1, <2>2, <2>3 DEF FenceOK
<1>11. FencesOK
  BY <1>1, <1>2, <1>8, <1>10 DEF FencesOK
<1>12. FramesOK({}) /\ CatchesOK({}) /\ WaitingOK({})
  BY <1>2 DEF FramesOK, CatchesOK, WaitingOK
<1>13. RunningOK({})
  <2>1. BaseAt(0).heap < cn
    BY <1>1, <1>2, <1>8
  <2>. QED
    BY <1>1, <1>2, <1>5, <1>8, <2>1 DEF RunningOK
<1>14. PointUpByTrail(heap, trail, old_top)
  <2>1. old_top \in 0 .. Len(h2) /\ 1 .. old_top = {}
    BY <1>1, <1>2, <1>5
  <2>. QED
    BY <1>1, <2>1 DEF PointUpByTrail
<1>. QED
  BY <1>1, <1>6, <1>7, <1>9, <1>11, <1>12, <1>13, <1>14 DEF HeapInv, StacksOK

LEMMA SameInv ==
  ASSUME HeapInv, UNCHANGED vars
  PROVE  HeapInv'
<1>1. /\ UNCHANGED <<heap, trail, cn, answer, frames, catches, active_catch, base, outer, old_top>>
  BY DEF vars
<1>2. PICK used : Invs(used) /\ RunningOK(used) /\ PointUpByTrail(heap, trail, old_top)
  BY InvParts
<1>3. /\ Levels' = Levels
      /\ \A q : BaseAt(q)' = BaseAt(q) /\ TMark(q)' = TMark(q) /\ AnswerAt(q)' = AnswerAt(q)
  BY <1>1 DEF Levels, BaseAt, TMark, AnswerAt
<1>4. StoreOK(heap', trail') /\ PointUpByTrail(heap', trail', old_top')
  BY <1>1, <1>2 DEF Invs
<1>5. Typed' /\ BasesOK' /\ FencesOK'
  BY <1>1, <1>2, <1>3 DEF Invs, Typed, BasesOK, FencesOK, Rising
<1>6. FramesOK(used)'
  BY <1>1, <1>2, <1>3 DEF Invs, FramesOK, FrameLinked, FrameAfter, FrameFenced, FrameOf, FrameSnap, Earlier
<1>7. CatchesOK(used)'
  BY <1>1, <1>2, <1>3 DEF Invs, CatchesOK, EntryLinked, EntryAfter, EntryFenced, EntryOf, EntrySnap, Earlier
<1>8. WaitingOK(used)' /\ RunningOK(used)'
  BY <1>1, <1>2, <1>3 DEF Invs, WaitingOK, WaitLinked, WaitSnap, RunningOK
<1>9. Invs(used)'
  BY <1>4, <1>5, <1>6, <1>7, <1>8 DEF Invs
<1>. QED
  BY <1>4, <1>8, <1>9, InvAgain

LEMMA NextInv ==
  ASSUME HeapInv, [Next]_vars
  PROVE  HeapInv'
<1>1. CASE Build
  BY <1>1, BuildKeeps
<1>2. CASE Proceed
  BY <1>2, ProceedKeeps
<1>3. CASE Bind
  BY <1>3, BindKeeps
<1>4. CASE Push
  BY <1>4, PushKeeps
<1>5. CASE Backtrack
  BY <1>5, BacktrackKeeps
<1>6. CASE Cut
  BY <1>6, CutKeeps
<1>7. CASE Catch
  BY <1>7, CatchKeeps
<1>8. CASE Uncatch
  BY <1>8, UncatchKeeps
<1>9. CASE Throw
  BY <1>9, ThrowKeeps
<1>10. CASE Directive
  BY <1>10, DirectiveKeeps
<1>11. CASE DirectiveEnds
  BY <1>11, DirectiveEndsKeeps
<1>12. CASE Minor \/ Major
  BY <1>12, CollectKeeps DEF Collect
<1>13. CASE UNCHANGED vars
  BY <1>13, SameInv
<1>. QED
  BY <1>1, <1>2, <1>3, <1>4, <1>5, <1>6, <1>7, <1>8, <1>9, <1>10, <1>11, <1>12, <1>13 DEF Next

\* The inductive invariant: whatever program runs, and wherever collections are
\* made in it, the store is well formed, no pointer crosses the base of a query
\* that waits, and every mark that somebody can come back to still gives, with
\* its terms, what was there when it was set.
THEOREM HeapStaysSound == Spec => []HeapInv
<1>1. Init => HeapInv
  BY InitInv
<1>2. HeapInv /\ [Next]_vars => HeapInv'
  BY NextInv
<1>. QED
  BY <1>1, <1>2, PTL DEF Spec

(***************************************************************************)
(* What follows from it.                                                   *)
(***************************************************************************)
\* A release makes no FUNCTOR of anything.
LEMMA RelPointable ==
  ASSUME NEW h, NEW tr, StoreOK(h, tr), NEW hm, NEW tm, MarkOK(h, tr, hm, tm),
         NEW c \in Pointable(Rel(h, tr, hm, tm))
  PROVE  c \in Pointable(h) /\ hm \in 0 .. Len(h) /\ tm \in 0 .. Len(tr)
<1>1. PICK g : g = Rel(h, tr, hm, tm)
  OBVIOUS
<1>2. HeapOK(h) /\ TrailOK(h, tr) /\ Len(h) \in Nat /\ Len(tr) \in Nat /\ hm \in Nat /\ hm <= Len(h)
  BY RelHeap, CellAt, TrailAt DEF StoreOK
<1>3. c \in 1 .. hm /\ g[c].tag # "FUNCTOR" /\ g[c] = IF Undone(tr, tm, c) THEN Ref(c) ELSE h[c]
  BY <1>1, <1>2, RelAt DEF Pointable
<1>4. c \in 1 .. Len(h)
  BY <1>2, <1>3
<1>5. hm \in 0 .. Len(h) /\ tm \in 0 .. Len(tr)
  BY DEF MarkOK
<1>6. CASE Undone(tr, tm, c)
  <2>1. PICK i \in tm + 1 .. Len(tr) : tr[i] = c
    BY <1>6 DEF Undone
  <2>2. i \in 1 .. Len(tr)
    BY <1>2, <1>5
  <2>3. h[c].tag = "REF"
    BY <1>2, <2>1, <2>2, TrailAt
  <2>. QED
    BY <1>4, <1>5, <2>3 DEF Pointable
<1>7. CASE ~Undone(tr, tm, c)
  BY <1>3, <1>4, <1>5, <1>7 DEF Pointable
<1>. QED
  BY <1>6, <1>7

\* Nothing points outside: no cell, trail entry, register or choicepoint, and no
\* catch entry that somebody comes back to, names what a release (heap.c:98-121)
\* or a collection has taken away.
THEOREM NothingPointsOutside == Spec => []TypeOK
<1>1. ASSUME HeapInv
      PROVE  TypeOK
  <2>1. PICK used : Invs(used) /\ RunningOK(used) /\ PointUpByTrail(heap, trail, old_top)
    BY <1>1, InvParts
  <2>2. /\ StoreOK(heap, trail) /\ HeapOK(heap) /\ TrailOK(heap, trail) /\ Typed
        /\ FramesOK(used) /\ CatchesOK(used) /\ Len(catches) \in Nat /\ Len(heap) \in Nat
        /\ cn \in Pointable(heap) /\ answer \in Pointable(heap)
    BY <2>1, TopAt, RunningAt DEF StoreOK
  <2>3. \A hm, tm, goals, ans, was : SnapOK(heap, trail, hm, tm, goals, ans, was) =>
          goals \in Pointable(heap) /\ hm \in 0 .. Len(heap) /\ tm \in 0 .. Len(trail)
    BY <2>2, RelPointable DEF SnapOK
  <2>4. \A i \in used : i \in 1 .. Len(catches) /\ i \in 0 .. Len(catches)
    <3>1. \A i \in 1 .. Len(catches) : i \in 0 .. Len(catches)
      BY <2>2
    <3>. QED
      BY <2>2, <3>1 DEF CatchesOK
  <2>5. ASSUME NEW c \in 1 .. Len(heap)
        PROVE  \/ heap[c].tag \in {"ATOM", "FUNCTOR"}
               \/ heap[c].tag = "REF" /\ heap[c].ref \in Pointable(heap)
               \/ heap[c].tag = "STR" /\ heap[c].ptr < c /\ heap[heap[c].ptr].tag = "FUNCTOR"
    <3>1. CASE IsAtomCell(heap, c) \/ IsFunctorCell(heap, c) \/ IsRefCell(heap, c)
      BY <3>1 DEF IsAtomCell, IsFunctorCell, IsRefCell, Atom
    <3>2. CASE IsStrCell(heap, c)
      <4>1. heap[c].ptr \in 1 .. c - 1 /\ heap[c].tag = "STR" /\ heap[heap[c].ptr].tag = "FUNCTOR"
        BY <3>2 DEF IsStrCell, IsFunctorCell
      <4>2. heap[c].ptr < c
        BY <2>2, <4>1
      <4>. QED
        BY <4>1, <4>2
    <3>. QED
      BY <2>2, <3>1, <3>2 DEF HeapOK
  <2>6. \A i \in 1 .. Len(trail) : trail[i] \in 1 .. Len(heap) /\ heap[trail[i]].tag = "REF"
    BY <2>2, TrailAt
  <2>7. active_catch \in 0 .. Len(catches) /\ 0 \in 0 .. Len(catches)
    <3>1. 0 \in 0 .. Len(catches)
      BY <2>2
    <3>. QED
      BY <2>1, <2>4, <3>1 DEF RunningOK
  <2>8. ASSUME NEW n \in 1 .. Len(frames)
        PROVE  /\ frames[n].goals \in Pointable(heap) /\ frames[n].active_catch \in 0 .. Len(catches)
               /\ frames[n].heap_mark \in 0 .. Len(heap) /\ frames[n].trail_mark \in 0 .. Len(trail)
    <3>1. FrameLinked(used, n) /\ \E q \in Levels : FrameSnap(n, q)
      BY <2>2 DEF FramesOK
    <3>2. frames[n].active_catch \in 0 .. Len(catches)
      BY <2>4, <2>7, <3>1 DEF FrameLinked
    <3>. QED
      BY <2>3, <3>1, <3>2 DEF FrameSnap
  <2>9. ASSUME NEW i \in Reached
        PROVE  /\ catches[i].goals \in Pointable(heap) /\ catches[i].outer_active_catch \in 0 .. i - 1
               /\ catches[i].heap_mark \in 0 .. Len(heap) /\ catches[i].trail_mark \in 0 .. Len(trail)
    <3>1. i \in used
      BY <2>1, ReachedIs
    <3>2. \E q \in Levels : EntrySnap(i, q)
      BY <2>2, <3>1 DEF CatchesOK
    <3>3. catches[i].outer_active_catch \in 0 .. i - 1
      <4>1. PICK k : k = catches[i].outer_active_catch
        OBVIOUS
      <4>2. k \in Nat /\ i \in Nat /\ k < i
        BY <2>2, <2>4, <3>1, <4>1, StackAt DEF CatchesOK
      <4>3. k \in 0 .. i - 1
        BY <4>2
      <4>. QED
        BY <4>1, <4>3
    <3>. QED
      BY <2>3, <3>2, <3>3 DEF EntrySnap
  <2>10. old_top \in 0 .. Len(heap)
    BY <2>1 DEF PointUpByTrail
  <2>. QED
    BY <2>2, <2>5, <2>6, <2>7, <2>8, <2>9, <2>10 DEF TypeOK
<1>2. HeapInv => TypeOK
  BY <1>1
<1>. QED
  BY <1>2, HeapStaysSound, PTL

\* Backtracking (label C, solve.c:2810-2825) gives back what the choicepoint was
\* pushed with, whatever was bound, dropped from the trail and slid since.
THEOREM ChoicepointsRestore == Spec => []BacktrackRestores
<1>1. ASSUME HeapInv
      PROVE  BacktrackRestores
  <2>1. PICK used : Invs(used) /\ RunningOK(used)
    BY <1>1, InvParts
  <2>2. /\ StoreOK(heap, trail) /\ Typed /\ BasesOK /\ FramesOK(used) /\ AnswerAt(Len(outer)) = answer
        /\ base.sp \in Nat /\ Len(frames) \in Nat
    BY <2>1, TopAt
  <2>3. ASSUME NEW n \in base.sp + 1 .. Len(frames)
        PROVE  Terms(Released(frames[n].heap_mark, frames[n].trail_mark), <<frames[n].goals, answer>>) = frames[n].was
    <3>1. n \in 1 .. Len(frames) /\ n \in Nat /\ base.sp < n
      BY <2>2
    <3>2. PICK q \in Levels : FrameOf(n, q) /\ FrameSnap(n, q)
      BY <2>2, <3>1 DEF FramesOK
    <3>3. q = Len(outer)
      BY <2>2, <3>1, <3>2, OwnLevel
    <3>4. PICK hm, tm, goals, was : /\ hm = frames[n].heap_mark /\ tm = frames[n].trail_mark
                                    /\ goals = frames[n].goals /\ was = frames[n].was
      OBVIOUS
    <3>5. SnapOK(heap, trail, hm, tm, goals, answer, was)
      BY <2>2, <3>2, <3>3, <3>4 DEF FrameSnap
    <3>6. Released(hm, tm) = Rel(heap, trail, hm, tm)
      BY <2>2, <3>5, ReleasedIs DEF SnapOK
    <3>. QED
      BY <3>4, <3>5, <3>6 DEF SnapOK
  <2>. QED
    BY <2>3 DEF BacktrackRestores
<1>2. HeapInv => BacktrackRestores
  BY <1>1
<1>. QED
  BY <1>2, HeapStaysSound, PTL

\* A throw (do_throw, solve.c:2443-2472) gives back what catch/3 was called with,
\* if an entry can be reached at all: what a collection reads in the others
\* beyond its arrays (gc.c:370, gc.c:431) meets nobody.
THEOREM CatchesRestore == Spec => []ThrowRestores
<1>1. ASSUME HeapInv
      PROVE  ThrowRestores
  <2>1. PICK used : Invs(used) /\ RunningOK(used)
    BY <1>1, InvParts
  <2>2. /\ StoreOK(heap, trail) /\ Typed /\ BasesOK /\ CatchesOK(used) /\ AnswerAt(Len(outer)) = answer
        /\ base.catch \in Nat /\ Reached \subseteq used
    BY <2>1, TopAt, ReachedIs
  <2>3. ASSUME NEW i \in Reached \ 1 .. base.catch
        PROVE  /\ catches[i].heap_mark <= Len(heap) /\ catches[i].trail_mark <= Len(trail)
               /\ catches[i].sp_at_entry <= Len(frames)
               /\ Terms(Released(catches[i].heap_mark, catches[i].trail_mark), <<catches[i].goals, answer>>)
                    = catches[i].was
    <3>1. i \in used /\ i \in Nat /\ base.catch < i
      <4>1. i \in used /\ i \in 1 .. Len(catches)
        BY <2>2 DEF CatchesOK
      <4>. QED
        BY <2>2, <4>1, StackAt
    <3>2. PICK q \in Levels : EntryOf(i, q) /\ EntrySnap(i, q)
      BY <2>2, <3>1 DEF CatchesOK
    <3>3. q = Len(outer)
      BY <2>2, <3>1, <3>2, OwnLevel
    <3>4. PICK hm, tm, goals, was : /\ hm = catches[i].heap_mark /\ tm = catches[i].trail_mark
                                    /\ goals = catches[i].goals /\ was = catches[i].was
      OBVIOUS
    <3>5. SnapOK(heap, trail, hm, tm, goals, answer, was)
      BY <2>2, <3>2, <3>3, <3>4 DEF EntrySnap
    <3>6. Released(hm, tm) = Rel(heap, trail, hm, tm)
      BY <2>2, <3>5, ReleasedIs DEF SnapOK
    <3>7. /\ catches[i].heap_mark <= Len(heap) /\ catches[i].trail_mark <= Len(trail)
          /\ catches[i].sp_at_entry <= Len(frames)
      BY <2>1, <3>1, NowAt
    <3>. QED
      BY <3>4, <3>5, <3>6, <3>7 DEF SnapOK
  <2>. QED
    BY <2>3 DEF ThrowRestores
<1>2. HeapInv => ThrowRestores
  BY <1>1
<1>. QED
  BY <1>2, HeapStaysSound, PTL

\* What lies below a fence is what a release to it would leave.
LEMMA FencedTerms ==
  ASSUME NEW h, NEW tr, StoreOK(h, tr), NEW hm, NEW tm, FenceOK(h, tr, hm, tm),
         NEW a, NEW b, NEW was, SnapOK(h, tr, hm, tm, a, b, was)
  PROVE  Terms(h, <<a, b>>) = was
<1>1. PICK g, X, to : g = Rel(h, tr, hm, tm) /\ X = 1 .. hm /\ to = [c \in 1 .. hm |-> c]
  OBVIOUS
<1>2. MarkOK(h, tr, hm, tm) /\ HeapOK(h) /\ TrailOK(h, tr)
  BY DEF SnapOK, StoreOK
<1>3. /\ hm \in Nat /\ hm <= Len(h) /\ Len(h) \in Nat /\ HeapOK(g) /\ Len(g) = hm
      /\ Len(tr) \in Nat /\ tm \in 0 .. Len(tr)
  <2>1. hm \in Nat /\ hm <= Len(h) /\ HeapOK(g)
    BY <1>1, <1>2, RelHeap
  <2>2. Len(h) \in Nat /\ Len(tr) \in Nat
    BY <1>2, CellAt, TrailAt
  <2>3. tm \in 0 .. Len(tr)
    BY <1>2 DEF MarkOK
  <2>. QED
    BY <1>1, <2>1, <2>2, <2>3, RelAt
<1>4. ASSUME NEW c \in 1 .. hm
      PROVE  g[c] = h[c]
  <2>1. ~Undone(tr, tm, c)
    <3>1. SUFFICES ASSUME NEW i \in tm + 1 .. Len(tr), tr[i] = c PROVE FALSE
      BY DEF Undone
    <3>2. i \in 1 .. Len(tr) /\ ~(i <= tm)
      BY <1>3
    <3>3. c <= hm
      BY <1>3
    <3>. QED
      BY <3>1, <3>2, <3>3 DEF FenceOK
  <2>. QED
    BY <1>1, <1>3, <2>1, RelAt
<1>5. ASSUME NEW c \in 1 .. hm
      PROVE  Children(g, c) \subseteq 1 .. hm
  BY <1>3, ChildrenIn
<1>6. \A c \in 1 .. hm : to[c] = c /\ c \in 1 .. Len(h) /\ c \in Int
  BY <1>1, <1>3
<1>7. ASSUME NEW c \in 1 .. hm
      PROVE  Repoint(g[c], to) = g[c]
  <2>1. CASE IsAtomCell(g, c) \/ IsFunctorCell(g, c)
    BY <2>1 DEF IsAtomCell, IsFunctorCell, Repoint, Atom
  <2>2. CASE IsRefCell(g, c)
    <3>1. g[c].tag = "REF" /\ g[c] = Ref(g[c].ref) /\ g[c].ref \in 1 .. hm
      BY <1>3, <2>2 DEF IsRefCell, Pointable
    <3>. QED
      BY <1>6, <3>1 DEF Repoint
  <2>3. CASE IsStrCell(g, c)
    <3>1. g[c].tag = "STR" /\ g[c] = Str(g[c].ptr)
      BY <2>3 DEF IsStrCell
    <3>2. g[c].ptr \in 1 .. hm
      BY <1>3, <1>5, <3>1, ChildrenIn
    <3>. QED
      BY <1>6, <3>1, <3>2 DEF Repoint
  <2>. QED
    BY <1>3, <2>1, <2>2, <2>3 DEF HeapOK
<1>8. Carried(g, X, to, h)
  <2>1. X \subseteq 1 .. Len(g) /\ Closed(g, X)
    BY <1>1, <1>3, <1>5 DEF Closed
  <2>2. \A c \in X : to[c] \in 1 .. Len(h) /\ h[to[c]] = Repoint(g[c], to)
    BY <1>1, <1>4, <1>6, <1>7
  <2>3. \A c, d \in X : c < d => to[c] < to[d]
    BY <1>1, <1>6
  <2>4. ASSUME NEW c \in X, g[c].tag = "STR", NEW d \in Children(g, c)
        PROVE  to[d] = to[g[c].ptr] + (d - g[c].ptr)
    <3>1. PICK p : p = g[c].ptr
      OBVIOUS
    <3>2. d \in 1 .. hm /\ p \in 1 .. hm
      BY <1>1, <1>3, <1>5, <2>4, <3>1, ChildrenIn
    <3>3. to[d] = d /\ to[p] = p /\ d \in Int /\ p \in Int
      BY <1>6, <3>2
    <3>4. d = p + (d - p)
      BY <3>3
    <3>. QED
      BY <3>1, <3>3, <3>4
  <2>. QED
    BY <2>1, <2>2, <2>3, <2>4 DEF Carried
<1>9. PICK roots : roots = <<a, b>>
  OBVIOUS
<1>10. a \in X /\ b \in X /\ was = Terms(g, roots)
  <2>1. a \in Pointable(g) /\ b \in Pointable(g) /\ was = Terms(g, <<a, b>>)
    BY <1>1 DEF SnapOK
  <2>. QED
    BY <1>1, <1>3, <1>9, <2>1 DEF Pointable
<1>11. Len(roots) = 2 /\ Len(roots) \in Nat /\ \A i \in 1 .. Len(roots) : roots[i] \in X /\ roots[i] = to[roots[i]]
  <2>1. Len(roots) = 2 /\ roots[1] = a /\ roots[2] = b
    BY <1>9
  <2>2. \A i \in 1 .. 2 : i = 1 \/ i = 2
    OBVIOUS
  <2>3. to[a] = a /\ to[b] = b
    BY <1>1, <1>6, <1>10
  <2>. QED
    BY <1>10, <2>1, <2>2, <2>3
<1>12. Terms(h, roots) = Terms(g, roots)
  BY <1>2, <1>3, <1>8, <1>11, CarriedTerms
<1>. QED
  BY <1>9, <1>10, <1>12

\* A query that waits for a directive (parse.c:751-770) keeps its terms, though
\* the directive's collections do not have them as roots.
THEOREM OuterQueriesKeepTerms == Spec => []OuterKept
<1>1. ASSUME HeapInv
      PROVE  OuterKept
  <2>1. PICK used : Invs(used) /\ RunningOK(used)
    BY <1>1, InvParts
  <2>2. /\ StoreOK(heap, trail) /\ BasesOK /\ FencesOK /\ WaitingOK(used) /\ Len(outer) \in Nat
    BY <2>1, TopAt DEF Invs
  <2>3. ASSUME NEW k \in 1 .. Len(outer)
        PROVE  Terms(heap, <<outer[k].cn, outer[k].answer>>) = outer[k].was
    <3>1. k \in Levels /\ k # 0
      BY <2>2 DEF Levels
    <3>2. PICK hm, tm, a, b, was : /\ hm = outer[k].hmark /\ tm = outer[k].tmark
                                   /\ a = outer[k].cn /\ b = outer[k].answer /\ was = outer[k].was
      OBVIOUS
    <3>3. SnapOK(heap, trail, hm, tm, a, b, was)
      BY <2>2, <3>2 DEF WaitingOK, WaitSnap
    <3>4. BaseAt(k).heap = hm /\ TMark(k) = tm
      BY <2>2, <3>1, <3>2 DEF BasesOK, TMark
    <3>5. FenceOK(heap, trail, hm, tm)
      BY <2>2, <3>1, <3>4 DEF FencesOK
    <3>6. Terms(heap, <<a, b>>) = was
      BY <2>2, <3>3, <3>5, FencedTerms
    <3>. QED
      BY <3>2, <3>6
  <2>. QED
    BY <2>3 DEF OuterKept
<1>2. HeapInv => OuterKept
  BY <1>1
<1>. QED
  BY <1>2, HeapStaysSound, PTL

\* The cells below a query's base, or that survived a collection, point up only
\* where the trail says so, so a collection may leave them unread (gc.c:351-390).
THEOREM OldCellsPointUpByTrail == Spec => []OldPointUpByTrail
<1>1. ASSUME HeapInv
      PROVE  OldPointUpByTrail
  <2>1. PICK used : Invs(used) /\ RunningOK(used) /\ PointUpByTrail(heap, trail, old_top)
    BY <1>1, InvParts
  <2>2. /\ HeapOK(heap) /\ TrailOK(heap, trail) /\ Len(heap) \in Nat
        /\ PointUpByTrail(heap, trail, base.heap)
    BY <2>1, RunningAt, BasePointsUp DEF StoreOK
  <2>3. Least(old_top, Len(heap)) = old_top
    <3>1. old_top \in 0 .. Len(heap)
      BY <2>1 DEF PointUpByTrail
    <3>. QED
      BY <2>2, <3>1 DEF Least
  <2>4. ASSUME NEW from, PointUpByTrail(heap, trail, from), NEW c \in 1 .. from,
               NEW d \in Children(heap, c), d > from
        PROVE  heap[c].tag = "REF" /\ c \in Range(trail)
    <3>1. from \in Nat /\ from <= Len(heap) /\ c \in 1 .. Len(heap) /\ c \in Nat /\ c <= from
      <4>1. from \in 0 .. Len(heap)
        BY <2>4 DEF PointUpByTrail
      <4>. QED
        BY <2>2, <4>1
    <3>2. heap[c].tag # "STR"
      <4>1. SUFFICES ASSUME heap[c].tag = "STR" PROVE FALSE
        OBVIOUS
      <4>2. d \in 1 .. c - 1
        BY <2>2, <3>1, <4>1, ChildrenIn
      <4>. QED
        BY <2>4, <3>1, <4>2
    <3>3. heap[c].tag = "REF" /\ heap[c].ref = d
      BY <3>2 DEF Children
    <3>4. PICK i \in 1 .. Len(trail) : trail[i] = c
      BY <2>4, <3>3 DEF PointUpByTrail
    <3>5. trail \in Seq(Nat)
      BY <2>2 DEF TrailOK
    <3>6. c \in Range(trail)
      BY <3>4, <3>5, InRange
    <3>. QED
      BY <3>3, <3>6
  <2>. QED
    BY <2>1, <2>2, <2>3, <2>4 DEF OldPointUpByTrail
<1>2. HeapInv => OldPointUpByTrail
  BY <1>1
<1>. QED
  BY <1>2, HeapStaysSound, PTL

\* Two roots and as many more.
LEMMA RootsAre ==
  ASSUME NEW a \in Nat, NEW b \in Nat, NEW k \in Nat, NEW r, \A n \in 1 .. k : r[n] \in Nat,
         NEW s, s = <<a, b>> \o [n \in 1 .. k |-> r[n]]
  PROVE  /\ Len(s) = k + 2 /\ s[1] = a /\ s[2] = b
         /\ \A n \in 1 .. k : s[n + 2] = r[n]
<1>1. PICK t, u, j, m : t = <<a, b>> /\ u = [n \in 1 .. k |-> r[n]] /\ j = Len(t) /\ m = Len(u)
  OBVIOUS
<1>2. /\ t \in Seq(Nat) /\ u \in Seq(Nat) /\ j = 2 /\ m = k
      /\ t[1] = a /\ t[2] = b /\ \A n \in 1 .. k : u[n] = r[n]
  <2>1. t \in Seq(Nat) /\ j = 2 /\ t[1] = a /\ t[2] = b
    BY <1>1
  <2>2. u \in Seq(Nat) /\ m = k /\ \A n \in 1 .. k : u[n] = r[n]
    BY <1>1
  <2>. QED
    BY <2>1, <2>2
<1>3. s = t \o u
  BY <1>1
<1>4. /\ Len(s) = j + m /\ j \in Nat /\ m \in Nat
      /\ \A c \in 1 .. j : s[c] = t[c]
      /\ \A c \in 1 .. m : s[j + c] = u[c]
  BY <1>1, <1>2, <1>3, ConcatAt
<1>5. Len(s) = k + 2
  BY <1>2, <1>4
<1>6. s[1] = a /\ s[2] = b
  <2>1. 1 \in 1 .. 2 /\ 2 \in 1 .. 2
    OBVIOUS
  <2>. QED
    BY <1>2, <1>4, <2>1
<1>7. \A n \in 1 .. k : s[n + 2] = r[n]
  <2>1. \A n \in 1 .. k : n + 2 = 2 + n
    OBVIOUS
  <2>. QED
    BY <1>2, <1>4, <2>1
<1>. QED
  BY <1>5, <1>6, <1>7

\* A collection changes no term of the running query or its choicepoints.
LEMMA CollectTerms ==
  ASSUME HeapInv, NEW from, PointUpByTrail(heap, trail, from), base.heap <= from, CollectFrom(from)
  PROVE  Terms(heap', <<cn', answer'>> \o [n \in 1 .. Len(frames') |-> frames'[n].goals])
          = Terms(heap, <<cn, answer>> \o [n \in 1 .. Len(frames) |-> frames[n].goals])
<1>1. PICK used : Invs(used) /\ RunningOK(used)
  BY InvParts
<1>2. PICK L, K, C : L = Live(from) /\ K = OnTrail(trail, L) /\ C = LiveCatches
  OBVIOUS
<1>3. Collects(used, from, L, K, C)
  <2>1. PICK junk \in Junk : Slide(from, L, junk)
    BY <1>2 DEF CollectFrom
  <2>2. junk \in Nat
    BY <1>1, RunningAt, JunkIs
  <2>. QED
    BY <1>1, <1>2, <2>1, <2>2, SlideIs
<1>4. PICK h, tr, h2, tr2, to : /\ h = heap /\ tr = trail /\ h2 = heap' /\ tr2 = trail'
                                /\ to = Moves(h, L)
  OBVIOUS
<1>5. Slides(h, tr, from, L, h2, tr2)
  BY <1>3, <1>4 DEF Collects
<1>6. HeapOK(h) /\ HeapOK(h2) /\ Carried(h, L, to, h2)
  <2>1. HeapOK(h)
    BY <1>5, SlidAt
  <2>2. HeapOK(h2)
    BY <1>5, SlidHeap
  <2>. QED
    BY <1>4, <1>5, <2>1, <2>2, SlidCarried
<1>7. \A c \in L : to[c] = Place(L, c)
  BY <1>4, <1>5, SlidAt
<1>8. PICK k, a, b, a2, b2, r, r2 :
        /\ k = Len(frames) /\ a = cn /\ b = answer /\ a2 = cn' /\ b2 = answer'
        /\ r = [n \in 1 .. k |-> frames[n].goals] /\ r2 = [n \in 1 .. k |-> frames'[n].goals]
  OBVIOUS
<1>9. /\ k \in Nat /\ a \in L /\ b \in L /\ a2 = Place(L, a) /\ b2 = Place(L, b)
      /\ a \in Nat /\ b \in Nat /\ Len(frames') = k
  <2>1. k \in Nat /\ Typed
    BY <1>1, <1>8, TopAt
  <2>2. a \in L /\ b \in L
    BY <1>1, <1>2, <1>8, LiveIs
  <2>3. a2 = Place(L, a) /\ b2 = Place(L, b) /\ Len(frames') = k
    BY <1>3, <1>8 DEF Collects
  <2>. QED
    BY <1>8, <2>1, <2>2, <2>3 DEF Typed
<1>10. \A n \in 1 .. k : r[n] \in L /\ r[n] \in Nat /\ r2[n] = Place(L, r[n])
  <2>1. \A n \in 1 .. k : /\ frames[n].goals \in L /\ frames[n].goals \in Nat
                          /\ frames'[n].goals = Place(L, frames[n].goals)
    BY <1>3, <1>8, CollectFrame DEF FrameMoved
  <2>. QED
    BY <1>8, <2>1
<1>11. \A m \in Nat : Place(L, m) \in Nat
  BY <1>3, CollectOrder DEF KeepsOrder
<1>12. PICK s, s2 : s = <<a, b>> \o [n \in 1 .. k |-> r[n]] /\ s2 = <<a2, b2>> \o [n \in 1 .. k |-> r2[n]]
  OBVIOUS
<1>13. Len(s) = k + 2 /\ s[1] = a /\ s[2] = b /\ \A n \in 1 .. k : s[n + 2] = r[n]
  BY <1>9, <1>10, <1>12, RootsAre
<1>14. Len(s2) = k + 2 /\ s2[1] = a2 /\ s2[2] = b2 /\ \A n \in 1 .. k : s2[n + 2] = r2[n]
  <2>1. a2 \in Nat /\ b2 \in Nat /\ \A n \in 1 .. k : r2[n] \in Nat
    BY <1>9, <1>10, <1>11
  <2>. QED
    BY <1>9, <1>12, <2>1, RootsAre
<1>15. ASSUME NEW i \in 1 .. k + 2
       PROVE  s[i] \in L /\ s2[i] = to[s[i]]
  <2>1. CASE i = 1 \/ i = 2
    BY <1>7, <1>9, <1>13, <1>14, <2>1
  <2>2. CASE i # 1 /\ i # 2
    <3>1. PICK n : n = i - 2
      OBVIOUS
    <3>2. n \in 1 .. k /\ i = n + 2
      BY <1>9, <2>2, <3>1
    <3>. QED
      BY <1>7, <1>10, <1>13, <1>14, <3>2
  <2>. QED
    BY <2>1, <2>2
<1>16. Terms(h2, s2) = Terms(h, s)
  <2>1. Len(s) \in Nat /\ Len(s2) = Len(s) /\ \A i \in 1 .. Len(s) : s[i] \in L /\ s2[i] = to[s[i]]
    BY <1>9, <1>13, <1>14, <1>15
  <2>. QED
    BY <1>6, <2>1, CarriedTerms
<1>17. s = <<cn, answer>> \o [n \in 1 .. Len(frames) |-> frames[n].goals]
  <2>1. [n \in 1 .. k |-> r[n]] = [n \in 1 .. Len(frames) |-> frames[n].goals]
    BY <1>8
  <2>. QED
    BY <1>8, <1>12, <2>1
<1>18. s2 = <<cn', answer'>> \o [n \in 1 .. Len(frames') |-> frames'[n].goals]
  <2>1. [n \in 1 .. k |-> r2[n]] = [n \in 1 .. Len(frames') |-> frames'[n].goals]
    BY <1>8, <1>9
  <2>. QED
    BY <1>8, <1>12, <2>1
<1>. QED
  BY <1>4, <1>16, <1>17, <1>18

\* A collection leaves the terms of the running query and of all choicepoints
\* what they were, and shares what they shared: the slide of compact_heap is an
\* isomorphism of what the roots reach (gc.c:392-455).
THEOREM CollectionsKeepTerms == Spec => CollectionKeepsTerms
<1> DEFINE Kept == Terms(heap', <<cn', answer'>> \o [n \in 1 .. Len(frames') |-> frames'[n].goals])
                     = Terms(heap, <<cn, answer>> \o [n \in 1 .. Len(frames) |-> frames[n].goals])
<1>1. ASSUME HeapInv, Collect
      PROVE  Kept
  <2>1. PICK used : Invs(used) /\ RunningOK(used) /\ PointUpByTrail(heap, trail, old_top)
    BY <1>1, InvParts
  <2>2. base.heap \in Nat /\ old_top \in Nat
    BY <2>1, TopAt, RunningAt
  <2>3. CASE Major
    <3>1. PICK from : from = base.heap
      OBVIOUS
    <3>2. PointUpByTrail(heap, trail, from) /\ base.heap <= from /\ CollectFrom(from)
      BY <2>1, <2>2, <2>3, <3>1, BasePointsUp DEF Major
    <3>. QED
      BY <1>1, <3>2, CollectTerms
  <2>4. CASE Minor
    <3>1. PICK from : from = old_top
      OBVIOUS
    <3>2. PointUpByTrail(heap, trail, from) /\ base.heap <= from /\ CollectFrom(from)
      BY <2>1, <2>2, <2>4, <3>1 DEF Minor
    <3>. QED
      BY <1>1, <3>2, CollectTerms
  <2>. QED
    BY <1>1, <2>3, <2>4 DEF Collect
<1>2. HeapInv /\ [Next]_vars => [old_top' = Len(heap') /\ Collect => Kept]_vars
  BY <1>1
<1>. QED
  BY <1>2, HeapStaysSound, PTL DEF Spec, CollectionKeepsTerms
=============================================================================
