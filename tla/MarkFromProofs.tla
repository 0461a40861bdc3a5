---------------------------- MODULE MarkFromProofs ----------------------------
(***************************************************************************)
(* The mark phase is right on every well-formed heap, of any size and with *)
(* any sharing and cycles, from any roots: MarksReachable of MarkFrom.     *)
(*                                                                         *)
(* The walk has no stack: what a recursive one would keep there is in the  *)
(* pointers it has turned round.  The proof goes the other way: path is    *)
(* that stack, Turned says that the heap is what the collection found      *)
(* except for what path accounts for, so when path is empty nothing is     *)
(* left turned; Linked says that what a cell on the path led to is the     *)
(* next one, so what climbing puts back is what was there.                 *)
(***************************************************************************)
EXTENDS MarkFrom, Facts, TLAPS

\* The cell that the walk entered when it put e on the path: e itself, or the
\* STR cell of the structure that begins at e.
Owner(e) == IF first[e].tag = "REF" THEN e ELSE e + 1 + first[e].arity

Before(i) == IF i = 1 THEN Nil ELSE path[i - 1]

\* c is a cell that the walk visits from e.
Leads(e, c) ==
  IF first[e].tag = "REF" THEN c = first[e].ref ELSE c \in e + 1 .. Owner(e) - 1

\* The cell that is visited from path[i].
Child(i) == IF i = Len(path) THEN t ELSE Owner(path[i + 1])

PathOK ==
  /\ path \in Seq(1 .. Len(first))
  /\ \A i \in 1 .. Len(path) :
       /\ first[path[i]].tag \in {"REF", "FUNCTOR"}
       /\ path[i] \in marked
       /\ Owner(path[i]) \in marked \ from.marked
  /\ \A i, j \in 1 .. Len(path) : path[i] = path[j] => i = j
  /\ p = IF path = <<>> THEN Nil ELSE path[Len(path)]

Linked == \A i \in 1 .. Len(path) : Leads(path[i], Child(i))

Turned ==
  /\ heap \in [1 .. Len(first) -> Cell]
  /\ \A i \in 1 .. Len(path) :
       IF first[path[i]].tag = "REF" THEN heap[path[i]] = Ref(Before(i))
       ELSE heap[path[i]] = Functor(Owner(path[i])) /\ heap[Owner(path[i])] = Str(Before(i))
  /\ \A c \in 1 .. Len(first) :
       (\A i \in 1 .. Len(path) : c # path[i] /\ c # Owner(path[i])) => heap[c] = first[c]

Visiting == IF pc = "visit" THEN {t} ELSE {}

RootsOK ==
  /\ roots \in Seq(from.roots)
  /\ from.roots \subseteq Pointable(first)
  /\ \A r \in from.roots : r \in marked \/ r \in Visiting \/ \E i \in 1 .. Len(roots) : roots[i] = r

WalkOK ==
  /\ pc \in {"visit", "climb", "done"}
  /\ t \in Pointable(first)
  /\ pc = "climb" => t \in marked
  /\ pc = "done" => path = <<>> /\ roots = <<>>
  /\ from.marked \subseteq marked /\ marked \subseteq 1 .. Len(first)

\* A cell that a new one leads to is marked, or is being visited, or is an
\* argument that comes after the one that is being visited.
Later(c, d) ==
  \E i \in 1 .. Len(path) : first[path[i]].tag = "FUNCTOR" /\ c = Owner(path[i]) /\ d > Child(i)

Owed ==
  \A c \in marked \ from.marked : \A d \in Children(first, c) :
    d \in marked \/ d \in Visiting \/ Later(c, d)

Sound ==
  \A X \in SUBSET (1 .. Len(first)) :
    Closed(X) => marked \subseteq X \cup from.marked /\ t \in X \cup from.marked

MarkInv ==
  /\ WellFormed(first)
  /\ PathOK
  /\ Linked
  /\ Turned
  /\ RootsOK
  /\ WalkOK
  /\ Owed
  /\ Sound

(***************************************************************************)
(* Cells.                                                                  *)
(***************************************************************************)
LEMMA Fields ==
  ASSUME NEW i
  PROVE  /\ Ref(i).tag = "REF" /\ Ref(i).ref = i
         /\ Str(i).tag = "STR" /\ Str(i).ptr = i
         /\ Functor(i).tag = "FUNCTOR" /\ Functor(i).arity = i
         /\ Atom.tag = "ATOM"
BY DEF Ref, Str, Functor, Atom

LEMMA Makes ==
  ASSUME NEW i \in Nat
  PROVE  Ref(i) \in Cell /\ Str(i) \in Cell /\ Functor(i) \in Cell
BY DEF Ref, Str, Functor, Cell

LEMMA Setting ==
  ASSUME NEW x \in Cell, NEW i \in Nat
  PROVE  /\ x.tag = "REF" => x.ref \in Nat /\ x = Ref(x.ref) /\ [x EXCEPT !.ref = i] = Ref(i)
         /\ x.tag = "STR" => x.ptr \in Nat /\ x = Str(x.ptr) /\ [x EXCEPT !.ptr = i] = Str(i)
         /\ x.tag = "FUNCTOR" => /\ x.arity \in Nat /\ x = Functor(x.arity)
                                 /\ [x EXCEPT !.arity = i] = Functor(i)
BY DEF Ref, Str, Functor, Atom, Cell

\* What a well-formed heap has at a cell of each kind.
LEMMA RefAt ==
  ASSUME WellFormed(first), NEW c \in 1 .. Len(first), first[c].tag = "REF"
  PROVE  first[c] \in Cell /\ first[c] = Ref(first[c].ref) /\ first[c].ref \in Pointable(first)
<1>1. first[c] \in Cell
  BY ElementOfSeq DEF WellFormed
<1>2. IsRef(first, c)
  BY Fields DEF WellFormed, IsStr, IsFunctor
<1>. QED
  BY <1>1, <1>2, Setting, 0 \in Nat DEF IsRef

LEMMA StrAt ==
  ASSUME WellFormed(first), NEW c \in 1 .. Len(first), first[c].tag = "STR", NEW b, b = first[c].ptr
  PROVE  /\ first[c] \in Cell /\ first[c] = Str(b) /\ b \in 1 .. Len(first) /\ b < c
         /\ first[b] = Functor(c - b - 1) /\ first[b].tag = "FUNCTOR" /\ first[b].arity = c - b - 1
         /\ \A i \in b + 1 .. c - 1 : first[i].tag = "REF"
<1>1. first[c] \in Cell /\ Len(first) \in Nat
  BY ElementOfSeq, LenProperties DEF WellFormed
<1>2. IsStr(first, c)
  BY Fields DEF WellFormed, IsRef, IsFunctor
<1>3. first[c] = Str(b)
  BY <1>1, Setting, 0 \in Nat
<1>. QED
  BY <1>1, <1>2, <1>3, Fields DEF IsStr

LEMMA FunctorAt ==
  ASSUME WellFormed(first), NEW c \in 1 .. Len(first), first[c].tag = "FUNCTOR",
         NEW e, e = c + 1 + first[c].arity
  PROVE  /\ first[c] \in Cell /\ first[c].arity \in Nat /\ first[c] = Functor(first[c].arity)
         /\ e \in 1 .. Len(first) /\ c < e /\ e - c - 1 = first[c].arity
         /\ first[e] = Str(c) /\ first[e].tag = "STR"
         /\ \A i \in c + 1 .. e - 1 : first[i].tag = "REF"
<1>1. first[c] \in Cell /\ Len(first) \in Nat
  BY ElementOfSeq, LenProperties DEF WellFormed
<1>2. IsFunctor(first, c)
  BY Fields DEF WellFormed, IsRef, IsStr
<1>3. first[c].arity \in Nat /\ first[c] = Functor(first[c].arity)
  BY <1>1, <1>2, Setting, 0 \in Nat DEF IsFunctor
<1>4. e = c + first[c].arity + 1 /\ e \in 1 .. Len(first) /\ c < e /\ e - c - 1 = first[c].arity
  <2>1. PICK a : a = first[c].arity
    OBVIOUS
  <2>2. a \in Nat /\ c + a + 1 \in 1 .. Len(first) /\ e = c + 1 + a /\ c \in Int
    BY <1>2, <1>3, <2>1 DEF IsFunctor
  <2>3. e = c + a + 1 /\ c < e /\ e - c - 1 = a
    BY ONLY <2>2
  <2>. QED
    BY <2>1, <2>2, <2>3
<1>5. first[e] = Str(c) /\ first[e].tag = "STR" /\ first[e].ptr = c
  <2>1. first[c + first[c].arity + 1] = Str(c)
    BY <1>2 DEF IsFunctor
  <2>2. first[e] = Str(c)
    BY <2>1, <1>4
  <2>. QED
    BY <2>2, Fields
<1>6. \A i \in c + 1 .. e - 1 : first[i].tag = "REF"
  BY <1>4, <1>5, StrAt
<1>. QED
  BY <1>1, <1>3, <1>4, <1>5, <1>6

\* The cells that may be on the path.
Inner(e) == e \in 1 .. Len(first) /\ first[e].tag \in {"REF", "FUNCTOR"}

LEMMA OwnerAt ==
  ASSUME WellFormed(first), NEW e, Inner(e)
  PROVE  /\ Owner(e) \in 1 .. Len(first)
         /\ first[e].tag = "REF" => Owner(e) = e
         /\ first[e].tag # "REF" => /\ first[e].tag = "FUNCTOR" /\ first[Owner(e)].tag = "STR"
                                    /\ first[Owner(e)] = Str(e) /\ first[Owner(e)].ptr = e
                                    /\ Owner(e) = e + 1 + first[e].arity /\ first[e].arity \in Nat
                                    /\ \A i \in e + 1 .. Owner(e) - 1 : first[i].tag = "REF"
<1>1. CASE first[e].tag = "REF"
  BY <1>1 DEF Owner, Inner
<1>2. CASE first[e].tag = "FUNCTOR"
  <2>1. e \in 1 .. Len(first) /\ Owner(e) = e + 1 + first[e].arity
    BY <1>2 DEF Owner, Inner
  <2>2. /\ first[e].arity \in Nat /\ Owner(e) \in 1 .. Len(first)
        /\ first[Owner(e)] = Str(e) /\ first[Owner(e)].tag = "STR"
        /\ \A i \in e + 1 .. Owner(e) - 1 : first[i].tag = "REF"
    BY <1>2, <2>1, FunctorAt
  <2>3. Str(e).ptr = e
    BY Fields
  <2>. QED
    BY <1>2, <2>1, <2>2, <2>3
<1>. QED
  BY <1>1, <1>2 DEF Inner

LEMMA OwnersApart ==
  ASSUME WellFormed(first), NEW e, NEW f, Inner(e), Inner(f)
  PROVE  /\ Owner(e) = Owner(f) => e = f
         /\ Owner(e) = f => e = f
<1>1. /\ first[e].tag \in {"REF", "FUNCTOR"} /\ first[f].tag \in {"REF", "FUNCTOR"}
  BY DEF Inner
<1>2. CASE first[e].tag = "REF" /\ first[f].tag = "REF"
  BY <1>2, OwnerAt
<1>3. CASE first[e].tag = "FUNCTOR" /\ first[f].tag = "REF"
  BY <1>3, OwnerAt
<1>4. CASE first[e].tag = "REF" /\ first[f].tag = "FUNCTOR"
  BY <1>4, OwnerAt
<1>5. CASE first[e].tag = "FUNCTOR" /\ first[f].tag = "FUNCTOR"
  BY <1>5, OwnerAt
<1>. QED
  BY <1>1, <1>2, <1>3, <1>4, <1>5

\* What can be visited from a cell of the path names a term.
LEMMA LeadsToTerm ==
  ASSUME WellFormed(first), NEW e, Inner(e), NEW c, Leads(e, c)
  PROVE  c \in Pointable(first) /\ c \in Children(first, Owner(e))
<1>1. CASE first[e].tag = "REF"
  BY <1>1, OwnerAt, RefAt DEF Leads, Children, Inner
<1>2. CASE first[e].tag # "REF"
  <2>1. /\ e \in 1 .. Len(first) /\ Owner(e) \in 1 .. Len(first) /\ first[Owner(e)].tag = "STR"
        /\ first[Owner(e)].ptr = e /\ Owner(e) = e + 1 + first[e].arity /\ first[e].arity \in Nat
        /\ \A i \in e + 1 .. Owner(e) - 1 : first[i].tag = "REF"
    BY <1>2, OwnerAt DEF Inner
  <2>2. c \in e + 1 .. Owner(e) - 1 /\ first[c].tag = "REF"
    BY <1>2, <2>1 DEF Leads
  <2>3. Len(first) \in Nat
    BY LenProperties DEF WellFormed
  <2>4. c \in 1 .. Len(first) /\ c \in e .. e + first[e].arity
    BY <2>1, <2>2, <2>3
  <2>5. Children(first, Owner(e)) = first[Owner(e)].ptr .. first[Owner(e)].ptr + first[first[Owner(e)].ptr].arity
    BY <2>1 DEF Children
  <2>. QED
    BY <2>1, <2>2, <2>4, <2>5 DEF Pointable
<1>. QED
  BY <1>1, <1>2

(***************************************************************************)
(* The path.                                                               *)
(***************************************************************************)
LEMMA PathCells ==
  ASSUME MarkInv
  PROVE  /\ WellFormed(first) /\ first \in Seq(Cell) /\ Len(first) \in Nat
         /\ path \in Seq(1 .. Len(first)) /\ Len(path) \in Nat
         /\ \A i \in 1 .. Len(path) : /\ Inner(path[i]) /\ path[i] \in marked
                                      /\ Owner(path[i]) \in marked \ from.marked
         /\ \A i, j \in 1 .. Len(path) : path[i] = path[j] => i = j
         /\ t \in 1 .. Len(first) /\ first[t].tag # "FUNCTOR"
         /\ marked \subseteq 1 .. Len(first) /\ from.marked \subseteq marked
<1>1. WellFormed(first) /\ first \in Seq(Cell) /\ Len(first) \in Nat
  BY LenProperties DEF MarkInv, WellFormed
<1>2. path \in Seq(1 .. Len(first)) /\ Len(path) \in Nat
  BY LenProperties DEF MarkInv, PathOK
<1>3. \A i \in 1 .. Len(path) : path[i] \in 1 .. Len(first)
  BY <1>2, ElementOfSeq
<1>. QED
  BY <1>1, <1>2, <1>3 DEF MarkInv, PathOK, WalkOK, Inner, Pointable

LEMMA PathEnd ==
  ASSUME MarkInv
  PROVE  /\ p = Nil <=> path = <<>>
         /\ path # <<>> => Len(path) \in 1 .. Len(path) /\ p = path[Len(path)] /\ Inner(p)
<1>1. /\ path \in Seq(1 .. Len(first)) /\ Len(path) \in Nat
      /\ \A i \in 1 .. Len(path) : Inner(path[i])
  BY PathCells
<1>2. p = IF path = <<>> THEN Nil ELSE path[Len(path)]
  BY DEF MarkInv, PathOK
<1>3. path # <<>> => Len(path) \in 1 .. Len(path)
  BY <1>1, EmptySeq
<1>4. \A x : Inner(x) => x # Nil
  BY DEF Inner, Nil
<1>. QED
  BY <1>1, <1>2, <1>3, <1>4

\* What turned cells hold, and what is as it was.
LEMMA HeapAt ==
  ASSUME MarkInv
  PROVE  /\ heap \in [1 .. Len(first) -> Cell]
         /\ \A i \in 1 .. Len(path) :
              /\ first[path[i]].tag = "REF" => heap[path[i]] = Ref(Before(i))
              /\ first[path[i]].tag # "REF" => /\ heap[path[i]] = Functor(Owner(path[i]))
                                               /\ heap[Owner(path[i])] = Str(Before(i))
         /\ \A c \in 1 .. Len(first) :
              (\A i \in 1 .. Len(path) : c # path[i] /\ c # Owner(path[i])) => heap[c] = first[c]
BY DEF MarkInv, Turned

\* A cell that is not marked is not on the path, nor is the structure it ends.
LEMMA OffPath ==
  ASSUME MarkInv, t \notin marked, NEW e, Inner(e), Owner(e) = t
  PROVE  /\ \A i \in 1 .. Len(path) : /\ path[i] # t /\ Owner(path[i]) # t
                                      /\ path[i] # e /\ Owner(path[i]) # e
         /\ heap[t] = first[t] /\ heap[e] = first[e]
<1>1. \A i \in 1 .. Len(path) : Inner(path[i]) /\ path[i] \in marked /\ Owner(path[i]) \in marked
  BY PathCells
<1>2. ASSUME NEW i \in 1 .. Len(path)
      PROVE  path[i] # t /\ Owner(path[i]) # t /\ path[i] # e /\ Owner(path[i]) # e
  BY <1>1, PathCells, OwnersApart
<1>3. t \in 1 .. Len(first) /\ e \in 1 .. Len(first)
  BY PathCells DEF Inner
<1>. QED
  BY <1>2, <1>3, HeapAt

\* As OffPath, for a leaf.
LEMMA LeafOffPath ==
  ASSUME MarkInv, t \notin marked
  PROVE  heap[t] = first[t]
<1>1. \A i \in 1 .. Len(path) : path[i] # t /\ Owner(path[i]) # t
  BY PathCells
<1>. QED
  BY <1>1, PathCells, HeapAt

\* The children of cells are their owners' children.
LEMMA ChildrenAt ==
  ASSUME WellFormed(first), NEW e, Inner(e)
  PROVE  /\ first[e].tag = "REF" => Children(first, Owner(e)) = {first[e].ref}
         /\ first[e].tag = "FUNCTOR" => Children(first, Owner(e)) = e .. Owner(e) - 1
<1>1. CASE first[e].tag = "REF"
  BY <1>1, OwnerAt DEF Children
<1>2. CASE first[e].tag = "FUNCTOR"
  <2>1. /\ e \in 1 .. Len(first) /\ first[Owner(e)].tag = "STR" /\ first[Owner(e)].ptr = e
        /\ Owner(e) = e + 1 + first[e].arity /\ first[e].arity \in Nat
    BY <1>2, OwnerAt DEF Inner
  <2>2. Children(first, Owner(e)) = first[Owner(e)].ptr .. first[Owner(e)].ptr + first[first[Owner(e)].ptr].arity
    BY <2>1 DEF Children
  <2>3. e + first[e].arity = Owner(e) - 1
    BY <2>1
  <2>. QED
    BY <1>2, <2>1, <2>2, <2>3
<1>. QED
  BY <1>1, <1>2 DEF Inner

(***************************************************************************)
(* Going down: VisitRef and VisitStr put a cell on the path.               *)
(***************************************************************************)
Enters(e) ==
  /\ pc = "visit" /\ pc' = "visit" /\ t \notin marked
  /\ Inner(e) /\ Owner(e) = t /\ Leads(e, t') /\ (first[e].tag = "FUNCTOR" => t' = e + 1)
  /\ marked' = marked \cup {t, e} /\ p' = e /\ path' = Append(path, e)
  /\ heap' \in [1 .. Len(first) -> Cell]
  /\ first[e].tag = "REF" => heap'[e] = Ref(p)
  /\ first[e].tag = "FUNCTOR" => heap'[e] = Functor(t) /\ heap'[t] = Str(p)
  /\ \A c \in 1 .. Len(first) : c # e /\ c # t => heap'[c] = heap[c]
  /\ roots' = roots /\ first' = first /\ from' = from

LEMMA EnterGrows ==
  ASSUME MarkInv, NEW e, Enters(e)
  PROVE  /\ path' \in Seq(1 .. Len(first)) /\ Len(path') = Len(path) + 1 /\ Len(path) \in Nat
         /\ path'[Len(path) + 1] = e /\ path' # <<>>
         /\ \A i \in 1 .. Len(path) : path'[i] = path[i]
         /\ \A i \in 1 .. Len(path') : i \in 1 .. Len(path) \/ i = Len(path) + 1
         /\ \A i \in 1 .. Len(path) : i \in 1 .. Len(path')
         /\ Len(path) + 1 \in 1 .. Len(path')
         /\ \A x : Inner(x)' = Inner(x) /\ (Owner(x))' = Owner(x)
         /\ \A x, y : Leads(x, y)' = Leads(x, y)
<1>1. path \in Seq(1 .. Len(first)) /\ Len(path) \in Nat /\ e \in 1 .. Len(first)
  BY PathCells DEF Enters, Inner
<1>2. path' = Append(path, e) /\ first' = first
  BY DEF Enters
<1>3. path' \in Seq(1 .. Len(first)) /\ Len(path') = Len(path) + 1
      /\ path'[Len(path) + 1] = e /\ \A i \in 1 .. Len(path) : path'[i] = path[i]
  BY <1>1, <1>2, AppendProperties
<1>4. path' # <<>>
  BY <1>1, <1>3, EmptySeq
<1>5. \A x : Inner(x)' = Inner(x) /\ (Owner(x))' = Owner(x)
  BY <1>2 DEF Inner, Owner
<1>6. \A x, y : Leads(x, y)' = Leads(x, y)
  BY <1>2, <1>5 DEF Leads
<1>. QED
  BY <1>1, <1>3, <1>4, <1>5, <1>6

LEMMA EnterPath ==
  ASSUME MarkInv, NEW e, Enters(e)
  PROVE  PathOK'
<1>1. \A i \in 1 .. Len(path) : /\ Inner(path[i]) /\ path[i] \in marked
                                /\ Owner(path[i]) \in marked /\ Owner(path[i]) \notin from.marked
  BY PathCells
<1>2. \A i \in 1 .. Len(path) : path[i] # e
  BY OffPath DEF Enters
<1>3. e \in marked' /\ Owner(e) \in marked' /\ Owner(e) \notin from.marked /\ Inner(e)
  <2>1. from.marked \subseteq marked
    BY PathCells
  <2>. QED
    BY <2>1 DEF Enters
<1>4. ASSUME NEW i \in 1 .. Len(path')
      PROVE  /\ first'[path'[i]].tag \in {"REF", "FUNCTOR"} /\ path'[i] \in marked'
             /\ (Owner(path[i]))' \in marked' \ from'.marked
  <2>1. Inner(path'[i]) /\ path'[i] \in marked' /\ Owner(path'[i]) \in marked' /\ Owner(path'[i]) \notin from.marked
    BY <1>1, <1>3, EnterGrows DEF Enters
  <2>2. (Owner(path[i]))' = Owner(path'[i])
    BY EnterGrows DEF Owner, Enters
  <2>. QED
    BY <2>1, <2>2 DEF Inner, Enters
<1>5. ASSUME NEW i \in 1 .. Len(path'), NEW j \in 1 .. Len(path'), path'[i] = path'[j]
      PROVE  i = j
  <2>1. CASE i \in 1 .. Len(path) /\ j \in 1 .. Len(path)
    BY <2>1, <1>5, EnterGrows, PathCells
  <2>2. CASE i = Len(path) + 1 \/ j = Len(path) + 1
    BY <2>2, <1>5, <1>2, EnterGrows
  <2>. QED
    BY <2>1, <2>2, EnterGrows
<1>6. path' \in Seq(1 .. Len(first')) /\ p' = path'[Len(path')] /\ path' # <<>>
  BY EnterGrows DEF Enters
<1>. QED
  BY <1>4, <1>5, <1>6 DEF PathOK

LEMMA EnterChild ==
  ASSUME MarkInv, NEW e, Enters(e)
  PROVE  /\ \A i \in 1 .. Len(path) : Child(i)' = Child(i)
         /\ \A n : n = Len(path) + 1 => Child(n)' = t'
<1>1. ASSUME NEW i \in 1 .. Len(path)
      PROVE  Child(i)' = Child(i)
  <2>1. Child(i)' = (Owner(path[i + 1]))'
    BY EnterGrows DEF Child
  <2>2. (Owner(path[i + 1]))' = Owner(path'[i + 1])
    BY DEF Owner, Enters
  <2>3. CASE i = Len(path)
    BY <2>1, <2>2, <2>3, EnterGrows DEF Child, Enters
  <2>4. CASE i # Len(path)
    <3>1. i + 1 \in 1 .. Len(path)
      BY <2>4, EnterGrows
    <3>. QED
      BY <2>1, <2>2, <2>4, <3>1, EnterGrows DEF Child
  <2>. QED
    BY <2>3, <2>4
<1>2. \A n : n = Len(path) + 1 => Child(n)' = t'
  BY EnterGrows DEF Child
<1>. QED
  BY <1>1, <1>2

LEMMA EnterLinked ==
  ASSUME MarkInv, NEW e, Enters(e)
  PROVE  Linked'
<1>1. ASSUME NEW i \in 1 .. Len(path')
      PROVE  Leads(path[i], Child(i))'
  <2>1. Leads(path[i], Child(i))' <=> Leads(path'[i], Child(i)')
    BY DEF Leads, Owner, Enters
  <2>2. CASE i \in 1 .. Len(path)
    <3>1. Leads(path[i], Child(i))
      BY <2>2 DEF MarkInv, Linked
    <3>2. Child(i)' = Child(i) /\ path'[i] = path[i]
      BY <2>2, EnterChild, EnterGrows
    <3>. QED
      BY <2>1, <3>1, <3>2
  <2>3. CASE i = Len(path) + 1
    <3>1. Child(i)' = t' /\ Leads(e, t')
      BY <2>3, EnterChild DEF Enters
    <3>. QED
      BY <2>1, <2>3, <3>1, EnterGrows
  <2>. QED
    BY <2>2, <2>3, EnterGrows
<1>. QED
  BY <1>1 DEF Linked

LEMMA EnterTurned ==
  ASSUME MarkInv, NEW e, Enters(e)
  PROVE  Turned'
<1>1. ASSUME NEW i \in 1 .. Len(path)
      PROVE  /\ Before(i)' = Before(i) /\ path'[i] = path[i]
             /\ heap'[path[i]] = heap[path[i]] /\ heap'[Owner(path[i])] = heap[Owner(path[i])]
  <2>1. path[i] \in 1 .. Len(first) /\ Owner(path[i]) \in 1 .. Len(first)
    BY PathCells, OwnerAt DEF Inner
  <2>2. path[i] # t /\ Owner(path[i]) # t /\ path[i] # e /\ Owner(path[i]) # e
    BY OffPath DEF Enters
  <2>3. i # 1 => i - 1 \in 1 .. Len(path)
    BY PathCells
  <2>. QED
    BY <2>1, <2>2, <2>3, EnterGrows DEF Before, Enters
<1>2. \A i : i = Len(path) + 1 => Before(i)' = p
  <2>1. CASE path = <<>>
    <3>1. Len(path) = 0 /\ p = Nil
      BY <2>1, PathEnd
    <3>. QED
      BY <3>1 DEF Before
  <2>2. CASE path # <<>>
    BY <2>2, PathEnd, EnterGrows DEF Before
  <2>. QED
    BY <2>1, <2>2
<1>3. ASSUME NEW i \in 1 .. Len(path')
      PROVE  IF first'[path'[i]].tag = "REF" THEN heap'[path'[i]] = Ref(Before(i)')
             ELSE heap'[path'[i]] = Functor(Owner(path'[i])) /\ heap'[Owner(path'[i])] = Str(Before(i)')
  <2>1. CASE i \in 1 .. Len(path)
    <3>1. /\ Before(i)' = Before(i) /\ path'[i] = path[i] /\ first' = first
          /\ heap'[path[i]] = heap[path[i]] /\ heap'[Owner(path[i])] = heap[Owner(path[i])]
      BY <1>1, <2>1 DEF Enters
    <3>2. /\ first[path[i]].tag = "REF" => heap[path[i]] = Ref(Before(i))
          /\ first[path[i]].tag # "REF" => /\ heap[path[i]] = Functor(Owner(path[i]))
                                           /\ heap[Owner(path[i])] = Str(Before(i))
      BY <2>1, HeapAt
    <3>. QED
      BY <3>1, <3>2
  <2>2. CASE i = Len(path) + 1
    <3>1. Before(i)' = p /\ path'[i] = e
      BY <1>2, <2>2, EnterGrows
    <3>. QED
      BY <3>1 DEF Enters, Inner
  <2>. QED
    BY <2>1, <2>2, EnterGrows
<1>4. ASSUME NEW c \in 1 .. Len(first'),
             \A i \in 1 .. Len(path') : c # path'[i] /\ c # (Owner(path[i]))'
      PROVE  heap'[c] = first'[c]
  <2>1. c # e /\ c # t
    <3>1. PICK n : n = Len(path) + 1
      OBVIOUS
    <3>2. path'[n] = e /\ (Owner(path[n]))' = Owner(e) /\ n \in 1 .. Len(path')
      BY <3>1, EnterGrows DEF Owner, Enters
    <3>. QED
      BY <1>4, <3>2 DEF Enters
  <2>2. ASSUME NEW i \in 1 .. Len(path)
        PROVE  c # path[i] /\ c # Owner(path[i])
    <3>1. path'[i] = path[i] /\ (Owner(path[i]))' = Owner(path[i]) /\ i \in 1 .. Len(path')
      BY EnterGrows DEF Owner, Enters
    <3>. QED
      BY <1>4, <3>1
  <2>. QED
    BY <2>1, <2>2, HeapAt DEF Enters
<1>5. \A i : (Owner(path[i]))' = Owner(path'[i])
  BY DEF Owner, Enters
<1>6. heap' \in [1 .. Len(first') -> Cell]
  BY DEF Enters
<1>. QED
  BY <1>3, <1>4, <1>5, <1>6 DEF Turned

LEMMA EnterRoots ==
  ASSUME MarkInv, NEW e, Enters(e)
  PROVE  RootsOK'
<1>1. ASSUME NEW r \in from.roots
      PROVE  r \in marked' \/ \E i \in 1 .. Len(roots') : roots'[i] = r
  BY DEF MarkInv, RootsOK, Visiting, Enters
<1>2. roots' \in Seq(from'.roots) /\ from'.roots \subseteq Pointable(first')
  BY DEF MarkInv, RootsOK, Enters
<1>3. from' = from
  BY DEF Enters
<1>. QED
  BY <1>1, <1>2, <1>3 DEF RootsOK

LEMMA EnterWalk ==
  ASSUME MarkInv, NEW e, Enters(e)
  PROVE  WalkOK'
<1>1. t' \in Pointable(first)
  BY LeadsToTerm, PathCells DEF Enters
<1>2. marked' \subseteq 1 .. Len(first) /\ from.marked \subseteq marked'
  BY PathCells DEF Enters, Inner
<1>. QED
  BY <1>1, <1>2 DEF WalkOK, Enters

LEMMA EnterOwed ==
  ASSUME MarkInv, NEW e, Enters(e)
  PROVE  Owed'
<1>1. ASSUME NEW c \in marked' \ from.marked, NEW d \in Children(first, c)
      PROVE  d \in marked' \/ d \in Visiting' \/ Later(c, d)'
  <2>1. ASSUME NEW i \in 1 .. Len(path), first[path[i]].tag = "FUNCTOR", c = Owner(path[i]), d > Child(i)
        PROVE  Later(c, d)'
    <3>1. /\ i \in 1 .. Len(path') /\ path'[i] = path[i] /\ (Owner(path[i]))' = Owner(path[i])
          /\ Child(i)' = Child(i) /\ first' = first
      BY EnterGrows, EnterChild DEF Owner, Enters
    <3>. QED
      BY <2>1, <3>1 DEF Later
  <2>2. CASE c \in marked
    <3>1. d \in marked \/ d \in Visiting \/ Later(c, d)
      BY <1>1, <2>2 DEF MarkInv, Owed
    <3>2. d \in Visiting => d \in marked'
      BY DEF Visiting, Enters
    <3>3. d \in marked => d \in marked'
      BY DEF Enters
    <3>4. Later(c, d) => Later(c, d)'
      BY <2>1 DEF Later
    <3>. QED
      BY <3>1, <3>2, <3>3, <3>4
  <2>3. CASE c = t /\ first[e].tag = "REF"
    <3>1. d = first[e].ref /\ t' = first[e].ref
      BY <2>3, ChildrenAt, PathCells DEF Enters, Leads
    <3>. QED
      BY <3>1 DEF Visiting, Enters
  <2>4. CASE c = t /\ first[e].tag = "FUNCTOR"
    <3>1. d \in e .. t - 1 /\ e \in Int /\ t' = e + 1 /\ t \in Int
      <4>1. WellFormed(first) /\ Inner(e) /\ Owner(e) = t /\ t' = e + 1 /\ e \in Int /\ t \in Int
        BY <2>4, PathCells DEF Enters, Inner
      <4>2. Children(first, t) = e .. t - 1
        BY <2>4, <4>1, ChildrenAt
      <4>. QED
        BY <1>1, <2>4, <4>1, <4>2
    <3>2. CASE d = e
      BY <3>2 DEF Enters
    <3>3. CASE d = e + 1
      BY <3>1, <3>3 DEF Visiting, Enters
    <3>4. CASE d > e + 1
      <4>1. PICK n : n = Len(path) + 1
        OBVIOUS
      <4>2. /\ path'[n] = e /\ (Owner(path[n]))' = t /\ n \in 1 .. Len(path')
            /\ Child(n)' = t' /\ first' = first
        BY <4>1, EnterGrows, EnterChild DEF Owner, Enters
      <4>. QED
        BY <2>4, <3>1, <3>4, <4>2 DEF Later
    <3>. QED
      BY <3>1, <3>2, <3>3, <3>4
  <2>5. CASE c = e /\ first[e].tag = "FUNCTOR"
    BY <2>5, <1>1 DEF Children
  <2>6. e = t \/ first[e].tag = "FUNCTOR"
    BY OwnerAt, PathCells DEF Enters, Inner
  <2>7. first[e].tag \in {"REF", "FUNCTOR"} /\ (c \in marked \/ c = t \/ c = e)
    BY DEF Enters, Inner
  <2>. QED
    BY <2>2, <2>3, <2>4, <2>5, <2>6, <2>7
<1>2. first' = first /\ from' = from
  BY DEF Enters
<1>. QED
  BY <1>1, <1>2 DEF Owed

LEMMA EnterSound ==
  ASSUME MarkInv, NEW e, Enters(e)
  PROVE  Sound'
<1>1. ASSUME NEW X \in SUBSET (1 .. Len(first)), Closed(X)
      PROVE  marked' \subseteq X \cup from.marked /\ t' \in X \cup from.marked
  <2>1. marked \subseteq X \cup from.marked /\ t \in X
    <3>1. t \notin from.marked
      BY PathCells DEF Enters
    <3>. QED
      BY <1>1, <3>1 DEF MarkInv, Sound
  <2>2. Children(first, t) \subseteq X \cup from.marked
    BY <1>1, <2>1 DEF Closed
  <2>3. t' \in Children(first, t)
    BY LeadsToTerm, PathCells DEF Enters
  <2>4. e = t \/ e \in Children(first, t)
    <3>1. CASE first[e].tag = "REF"
      BY <3>1, OwnerAt, PathCells DEF Enters
    <3>2. CASE first[e].tag = "FUNCTOR"
      <4>1. WellFormed(first) /\ Inner(e) /\ Owner(e) = t /\ e \in Int
        BY PathCells DEF Enters, Inner
      <4>2. Children(first, t) = e .. t - 1
        BY <3>2, <4>1, ChildrenAt
      <4>3. t = e + 1 + first[e].arity /\ first[e].arity \in Nat
        BY <3>2, <4>1, OwnerAt
      <4>. QED
        BY <4>1, <4>2, <4>3
    <3>. QED
      BY <3>1, <3>2 DEF Enters, Inner
  <2>. QED
    BY <2>1, <2>2, <2>3, <2>4 DEF Enters
<1>2. \A X : Closed(X)' <=> Closed(X)
  BY DEF Closed, Enters
<1>. QED
  BY <1>1, <1>2 DEF Sound, Enters

LEMMA EnterKeeps ==
  ASSUME MarkInv, NEW e, Enters(e)
  PROVE  MarkInv'
<1>1. WellFormed(first)'
  BY DEF MarkInv, Enters
<1>. QED
  BY <1>1, EnterPath, EnterLinked, EnterTurned, EnterRoots, EnterWalk, EnterOwed, EnterSound DEF MarkInv

(***************************************************************************)
(* Going up: ClimbRef and ClimbStr take the last cell from the path.       *)
(***************************************************************************)
Leaves ==
  /\ pc = "climb" /\ pc' = "climb" /\ path # <<>>
  /\ first[p].tag = "FUNCTOR" => t + 1 >= Owner(p)
  /\ marked' = marked /\ t' = Owner(p) /\ p' = Before(Len(path)) /\ path' = Up
  /\ heap' \in [1 .. Len(first) -> Cell]
  /\ heap'[p] = first[p] /\ heap'[Owner(p)] = first[Owner(p)]
  /\ \A c \in 1 .. Len(first) : c # p /\ c # Owner(p) => heap'[c] = heap[c]
  /\ roots' = roots /\ first' = first /\ from' = from

LEMMA LeaveShrinks ==
  ASSUME MarkInv, Leaves
  PROVE  /\ path' \in Seq(1 .. Len(first)) /\ Len(path') = Len(path) - 1
         /\ Len(path) \in Nat /\ Len(path) \in 1 .. Len(path) /\ p = path[Len(path)] /\ Inner(p)
         /\ \A i \in 1 .. Len(path') : path'[i] = path[i] /\ i \in 1 .. Len(path) /\ i # Len(path)
         /\ \A i \in 1 .. Len(path) : i # Len(path) => i \in 1 .. Len(path') /\ i + 1 \in 1 .. Len(path)
         /\ \A x : (Owner(x))' = Owner(x)
         /\ \A x, y : Leads(x, y)' = Leads(x, y)
<1>1. /\ path \in Seq(1 .. Len(first)) /\ Len(path) \in Nat /\ Len(path) \in 1 .. Len(path)
      /\ p = path[Len(path)] /\ Inner(p)
  BY PathCells, PathEnd DEF Leaves
<1>2. path' = SubSeq(path, 1, Len(path) - 1) /\ first' = first
  BY DEF Leaves, Up
<1>3. Len(path) - 1 \in 0 .. Len(path)
  BY <1>1
<1>4. path' \in Seq(1 .. Len(first)) /\ Len(path') = Len(path) - 1
      /\ \A i \in 1 .. Len(path) - 1 : path'[i] = path[i]
  BY <1>1, <1>2, <1>3, PrefixSeq
<1>5. \A x : (Owner(x))' = Owner(x)
  BY <1>2 DEF Owner
<1>6. \A x, y : Leads(x, y)' = Leads(x, y)
  BY <1>2, <1>5 DEF Leads
<1>7. PICK n : n = Len(path)
  OBVIOUS
<1>8. /\ \A i \in 1 .. n - 1 : i \in 1 .. n /\ i # n
      /\ \A i \in 1 .. n : i # n => i \in 1 .. n - 1 /\ i + 1 \in 1 .. n
  BY <1>1, <1>7
<1>9. /\ \A i \in 1 .. Len(path') : path'[i] = path[i] /\ i \in 1 .. Len(path) /\ i # Len(path)
      /\ \A i \in 1 .. Len(path) : i # Len(path) => i \in 1 .. Len(path') /\ i + 1 \in 1 .. Len(path)
  BY <1>4, <1>7, <1>8
<1>. QED
  BY <1>1, <1>4, <1>5, <1>6, <1>9

LEMMA LeavePath ==
  ASSUME MarkInv, Leaves
  PROVE  PathOK'
<1>1. ASSUME NEW i \in 1 .. Len(path')
      PROVE  /\ first'[path'[i]].tag \in {"REF", "FUNCTOR"} /\ path'[i] \in marked'
             /\ (Owner(path[i]))' \in marked' \ from'.marked
  <2>1. path'[i] = path[i] /\ i \in 1 .. Len(path)
    BY LeaveShrinks
  <2>2. (Owner(path[i]))' = Owner(path'[i])
    BY DEF Owner, Leaves
  <2>. QED
    BY <2>1, <2>2, PathCells DEF Inner, Leaves
<1>2. ASSUME NEW i \in 1 .. Len(path'), NEW j \in 1 .. Len(path'), path'[i] = path'[j]
      PROVE  i = j
  BY <1>2, LeaveShrinks, PathCells
<1>3. p' = IF path' = <<>> THEN Nil ELSE path'[Len(path')]
  <2>1. CASE Len(path) = 1
    <3>1. path' = <<>> /\ p' = Nil
      BY <2>1, LeaveShrinks, EmptySeq DEF Leaves, Before
    <3>. QED
      BY <3>1
  <2>2. CASE Len(path) # 1
    <3>1. /\ Len(path') = Len(path) - 1 /\ Len(path) - 1 \in 1 .. Len(path')
          /\ path'[Len(path) - 1] = path[Len(path) - 1]
      <4>1. Len(path') = Len(path) - 1 /\ Len(path) - 1 \in 1 .. Len(path')
        BY <2>2, LeaveShrinks
      <4>2. \A i \in 1 .. Len(path') : path'[i] = path[i]
        BY LeaveShrinks
      <4>. QED
        BY ONLY <4>1, <4>2
    <3>2. path' # <<>>
      BY <3>1, LeaveShrinks, EmptySeq
    <3>3. p' = path[Len(path) - 1]
      BY <2>2 DEF Leaves, Before
    <3>. QED
      BY <3>1, <3>2, <3>3
  <2>. QED
    BY <2>1, <2>2
<1>4. path' \in Seq(1 .. Len(first'))
  BY LeaveShrinks DEF Leaves
<1>. QED
  BY <1>1, <1>2, <1>3, <1>4 DEF PathOK

LEMMA LeaveChild ==
  ASSUME MarkInv, Leaves
  PROVE  \A i \in 1 .. Len(path') : Child(i)' = Child(i) /\ Before(i)' = Before(i)
<1>1. ASSUME NEW i \in 1 .. Len(path')
      PROVE  Child(i)' = Child(i)
  <2>1. path'[i] = path[i] /\ i \in 1 .. Len(path) /\ i # Len(path) /\ i + 1 \in 1 .. Len(path)
    BY LeaveShrinks
  <2>2. Child(i) = Owner(path[i + 1])
    BY <2>1 DEF Child
  <2>3. CASE i = Len(path')
    <3>1. i + 1 = Len(path)
      BY <2>3, LeaveShrinks
    <3>2. Child(i)' = t' /\ t' = Owner(p) /\ p = path[i + 1]
      BY <2>3, <3>1, LeaveShrinks DEF Child, Leaves
    <3>. QED
      BY <2>2, <3>2
  <2>4. CASE i # Len(path')
    <3>1. i + 1 \in 1 .. Len(path')
      BY <2>1, <2>4, LeaveShrinks
    <3>2. Child(i)' = (Owner(path[i + 1]))'
      BY <2>4 DEF Child
    <3>3. (Owner(path[i + 1]))' = Owner(path'[i + 1])
      BY DEF Owner, Leaves
    <3>4. path'[i + 1] = path[i + 1]
      BY <3>1, LeaveShrinks
    <3>. QED
      BY <2>2, <3>2, <3>3, <3>4
  <2>. QED
    BY <2>3, <2>4
<1>2. ASSUME NEW i \in 1 .. Len(path')
      PROVE  Before(i)' = Before(i)
  <2>1. CASE i = 1
    BY <2>1 DEF Before
  <2>2. CASE i # 1
    <3>1. i - 1 \in 1 .. Len(path')
      BY <2>2, LeaveShrinks
    <3>. QED
      BY <2>2, <3>1, LeaveShrinks DEF Before
  <2>. QED
    BY <2>1, <2>2
<1>. QED
  BY <1>1, <1>2

LEMMA LeaveLinked ==
  ASSUME MarkInv, Leaves
  PROVE  Linked'
<1>1. ASSUME NEW i \in 1 .. Len(path')
      PROVE  Leads(path[i], Child(i))'
  <2>1. Leads(path[i], Child(i))' <=> Leads(path'[i], Child(i)')
    BY DEF Leads, Owner, Leaves
  <2>2. Child(i)' = Child(i) /\ path'[i] = path[i] /\ i \in 1 .. Len(path)
    BY LeaveChild, LeaveShrinks
  <2>3. Leads(path[i], Child(i))
    BY <2>2 DEF MarkInv, Linked
  <2>. QED
    BY <2>1, <2>2, <2>3
<1>. QED
  BY <1>1 DEF Linked

LEMMA LeaveTurned ==
  ASSUME MarkInv, Leaves
  PROVE  Turned'
<1>1. ASSUME NEW i \in 1 .. Len(path')
      PROVE  /\ i \in 1 .. Len(path) /\ path'[i] = path[i] /\ Before(i)' = Before(i)
             /\ heap'[path[i]] = heap[path[i]] /\ heap'[Owner(path[i])] = heap[Owner(path[i])]
  <2>1. i \in 1 .. Len(path) /\ path'[i] = path[i] /\ i # Len(path) /\ Before(i)' = Before(i)
    BY LeaveShrinks, LeaveChild
  <2>2. path[i] # p /\ Inner(path[i]) /\ Inner(p) /\ p = path[Len(path)]
    BY <2>1, LeaveShrinks, PathCells
  <2>3. path[i] # Owner(p) /\ Owner(path[i]) # p /\ Owner(path[i]) # Owner(p)
    BY <2>2, OwnersApart, PathCells
  <2>4. path[i] \in 1 .. Len(first) /\ Owner(path[i]) \in 1 .. Len(first)
    BY <2>2, OwnerAt, PathCells DEF Inner
  <2>. QED
    BY <2>1, <2>2, <2>3, <2>4 DEF Leaves
<1>2. ASSUME NEW i \in 1 .. Len(path')
      PROVE  IF first'[path'[i]].tag = "REF" THEN heap'[path'[i]] = Ref(Before(i)')
             ELSE heap'[path'[i]] = Functor(Owner(path'[i])) /\ heap'[Owner(path'[i])] = Str(Before(i)')
  <2>1. /\ Before(i)' = Before(i) /\ path'[i] = path[i] /\ first' = first
        /\ heap'[path[i]] = heap[path[i]] /\ heap'[Owner(path[i])] = heap[Owner(path[i])]
    BY <1>1 DEF Leaves
  <2>2. /\ first[path[i]].tag = "REF" => heap[path[i]] = Ref(Before(i))
        /\ first[path[i]].tag # "REF" => /\ heap[path[i]] = Functor(Owner(path[i]))
                                         /\ heap[Owner(path[i])] = Str(Before(i))
    BY <1>1, HeapAt
  <2>. QED
    BY <2>1, <2>2
<1>3. ASSUME NEW c \in 1 .. Len(first'),
             \A i \in 1 .. Len(path') : c # path'[i] /\ c # (Owner(path[i]))'
      PROVE  heap'[c] = first'[c]
  <2>1. CASE c = p \/ c = Owner(p)
    BY <2>1 DEF Leaves
  <2>2. CASE c # p /\ c # Owner(p)
    <3>1. ASSUME NEW i \in 1 .. Len(path)
          PROVE  c # path[i] /\ c # Owner(path[i])
      <4>1. CASE i = Len(path)
        BY <2>2, <4>1, LeaveShrinks
      <4>2. CASE i # Len(path)
        <5>1. path'[i] = path[i] /\ (Owner(path[i]))' = Owner(path[i]) /\ i \in 1 .. Len(path')
          BY <4>2, LeaveShrinks DEF Owner, Leaves
        <5>. QED
          BY <1>3, <5>1
      <4>. QED
        BY <4>1, <4>2
    <3>2. c \in 1 .. Len(first)
      BY DEF Leaves
    <3>3. heap[c] = first[c]
      BY <3>1, <3>2, HeapAt
    <3>. QED
      BY <2>2, <3>2, <3>3 DEF Leaves
  <2>. QED
    BY <2>1, <2>2
<1>4. \A i : (Owner(path[i]))' = Owner(path'[i])
  BY DEF Owner, Leaves
<1>5. heap' \in [1 .. Len(first') -> Cell]
  BY DEF Leaves
<1>. QED
  BY <1>2, <1>3, <1>4, <1>5 DEF Turned

LEMMA LeaveOwed ==
  ASSUME MarkInv, Leaves
  PROVE  Owed'
<1>1. ASSUME NEW c \in marked \ from.marked, NEW d \in Children(first, c)
      PROVE  d \in marked \/ Later(c, d)'
  <2>1. d \in marked \/ Later(c, d)
    BY DEF MarkInv, Owed, Visiting, Leaves
  <2>2. ASSUME NEW i \in 1 .. Len(path), first[path[i]].tag = "FUNCTOR", c = Owner(path[i]), d > Child(i)
        PROVE  Later(c, d)'
    <3>1. i # Len(path)
      <4>1. SUFFICES ASSUME i = Len(path)
                     PROVE  FALSE
        OBVIOUS
      <4>2. path[i] = p /\ Inner(p) /\ Child(i) = t
        BY <4>1, LeaveShrinks DEF Child
      <4>3. Children(first, c) = p .. Owner(p) - 1
        BY <2>2, <4>2, ChildrenAt, PathCells
      <4>4. t + 1 >= Owner(p)
        BY <2>2, <4>2 DEF Leaves
      <4>5. Owner(p) \in Int /\ t \in Int /\ p \in Int
        BY <4>2, OwnerAt, PathCells DEF Inner
      <4>. QED
        BY <2>2, <4>2, <4>3, <4>4, <4>5
    <3>2. /\ i \in 1 .. Len(path') /\ path'[i] = path[i] /\ (Owner(path[i]))' = Owner(path[i])
          /\ Child(i)' = Child(i) /\ first' = first
      BY <3>1, LeaveShrinks, LeaveChild DEF Owner, Leaves
    <3>. QED
      BY <2>2, <3>2 DEF Later
  <2>. QED
    BY <2>1, <2>2 DEF Later
<1>2. first' = first /\ from' = from /\ marked' = marked
  BY DEF Leaves
<1>. QED
  BY <1>1, <1>2 DEF Owed

LEMMA LeaveKeeps ==
  ASSUME MarkInv, Leaves
  PROVE  MarkInv'
<1>1. WellFormed(first)'
  BY DEF MarkInv, Leaves
<1>2. Owner(p) \in marked /\ Owner(p) \in 1 .. Len(first) /\ Inner(p)
  BY LeaveShrinks, PathCells, OwnerAt
<1>3. first[Owner(p)].tag # "FUNCTOR"
  BY <1>2, OwnerAt, PathCells DEF Inner
<1>4. RootsOK'
  BY DEF MarkInv, RootsOK, Visiting, Leaves
<1>5. WalkOK'
  BY <1>2, <1>3 DEF MarkInv, WalkOK, Pointable, Leaves
<1>6. Sound'
  <2>1. ASSUME NEW X \in SUBSET (1 .. Len(first)), Closed(X)
        PROVE  marked' \subseteq X \cup from.marked /\ t' \in X \cup from.marked
    BY <1>2, <2>1 DEF MarkInv, Sound, Leaves
  <2>2. \A X : Closed(X)' <=> Closed(X)
    BY DEF Closed, Leaves
  <2>. QED
    BY <2>1, <2>2 DEF Sound, Leaves
<1>. QED
  BY <1>1, <1>4, <1>5, <1>6, LeavePath, LeaveLinked, LeaveTurned, LeaveOwed DEF MarkInv

(***************************************************************************)
(* The actions.                                                            *)
(***************************************************************************)
\* On the path, a cell keeps its kind.
LEMMA EndAt ==
  ASSUME MarkInv, path # <<>>
  PROVE  /\ Inner(p) /\ Owner(p) \in marked \ from.marked /\ Leads(p, t) /\ p \in 1 .. Len(first)
         /\ first[p].tag = "REF" => heap[p] = Ref(Before(Len(path))) /\ heap[p].tag = "REF"
         /\ first[p].tag # "REF" => /\ heap[p] = Functor(Owner(p)) /\ heap[p].tag = "FUNCTOR"
                                    /\ heap[p].arity = Owner(p)
                                    /\ heap[Owner(p)] = Str(Before(Len(path)))
<1>1. Len(path) \in 1 .. Len(path) /\ p = path[Len(path)] /\ Inner(p)
  BY PathEnd
<1>2. Child(Len(path)) = t
  BY DEF Child
<1>3. Leads(p, t)
  BY <1>1, <1>2 DEF MarkInv, Linked
<1>4. /\ first[p].tag = "REF" => heap[p] = Ref(Before(Len(path)))
      /\ first[p].tag # "REF" => heap[p] = Functor(Owner(p)) /\ heap[Owner(p)] = Str(Before(Len(path)))
  BY <1>1, HeapAt
<1>. QED
  BY <1>1, <1>3, <1>4, PathCells, Fields DEF Inner

LEMMA RefEnters ==
  ASSUME MarkInv, VisitRef
  PROVE  Enters(t)
<1>1. heap[t] = first[t] /\ t \in 1 .. Len(first) /\ heap \in [1 .. Len(first) -> Cell]
  BY LeafOffPath, PathCells, HeapAt DEF VisitRef
<1>2. first[t].tag = "REF" /\ t' = first[t].ref
  BY <1>1 DEF VisitRef
<1>3. Inner(t) /\ Owner(t) = t /\ Leads(t, t')
  BY <1>1, <1>2 DEF Inner, Owner, Leads
<1>4. p \in Nat
  BY PathEnd, PathCells DEF Nil, Inner
<1>5. [heap[t] EXCEPT !.ref = p] = Ref(p) /\ Ref(p) \in Cell
  BY <1>1, <1>2, <1>4, Setting, Makes
<1>6. heap' = [heap EXCEPT ![t] = Ref(p)]
  BY <1>5 DEF VisitRef
<1>7. /\ heap' \in [1 .. Len(first) -> Cell] /\ heap'[t] = Ref(p)
      /\ \A c \in 1 .. Len(first) : c # t => heap'[c] = heap[c]
  BY <1>1, <1>5, <1>6
<1>. QED
  BY <1>2, <1>3, <1>7 DEF Enters, VisitRef

\* The structure that ends at a cell that is not marked is not turned.
LEMMA StrBase ==
  ASSUME MarkInv, t \notin marked, heap[t].tag = "STR", NEW e, e = Base
  PROVE  /\ heap[t] = first[t] /\ heap[e] = first[e] /\ first[t].tag = "STR" /\ first[e].tag = "FUNCTOR"
         /\ e \in 1 .. Len(first) /\ e + 1 + first[e].arity = t /\ first[e].arity = t - e - 1 /\ e # t
         /\ Inner(e) /\ Owner(e) = t /\ first[e] \in Cell
<1>1. heap[t] = first[t] /\ t \in 1 .. Len(first) /\ WellFormed(first)
  BY LeafOffPath, PathCells
<1>2. first[t].tag = "STR" /\ Base = first[t].ptr
  BY <1>1 DEF Base
<1>3. /\ e \in 1 .. Len(first) /\ e < t /\ first[e] = Functor(t - e - 1) /\ first[e].tag = "FUNCTOR"
      /\ first[e].arity = t - e - 1
  BY <1>1, <1>2, StrAt
<1>4. e + 1 + first[e].arity = t /\ e # t
  <2>1. PICK a : a = first[e].arity
    OBVIOUS
  <2>2. a = t - e - 1 /\ e \in Int /\ t \in Int /\ e < t
    BY <1>1, <1>3, <2>1
  <2>3. e + 1 + a = t /\ e # t
    BY ONLY <2>2
  <2>. QED
    BY <2>1, <2>3
<1>5. Inner(e) /\ Owner(e) = t
  BY <1>3, <1>4 DEF Inner, Owner
<1>6. heap[e] = first[e] /\ first[e] \in Cell
  BY <1>1, <1>3, <1>5, OffPath, FunctorAt
<1>. QED
  BY <1>1, <1>2, <1>3, <1>4, <1>5, <1>6

LEMMA StrEnters ==
  ASSUME MarkInv, VisitStr
  PROVE  Enters(Base)
<1>1. t \in 1 .. Len(first) /\ heap \in [1 .. Len(first) -> Cell] /\ WellFormed(first)
  BY PathCells, HeapAt
<1>2. PICK e : e = Base
  OBVIOUS
<1>3. /\ heap[t] = first[t] /\ heap[e] = first[e] /\ first[t].tag = "STR" /\ first[e].tag = "FUNCTOR"
      /\ e \in 1 .. Len(first) /\ e + 1 + first[e].arity = t /\ first[e].arity = t - e - 1 /\ e # t
      /\ Inner(e) /\ Owner(e) = t /\ first[e] \in Cell
  BY <1>2, StrBase DEF VisitStr
<1>4. heap[e].arity > 0 /\ Bound = t
  BY <1>2, <1>3 DEF VisitStr, Bound
<1>5. Leads(e, e + 1)
  <2>1. e + 1 \in e + 1 .. t - 1
    <3>1. PICK a : a = first[e].arity
      OBVIOUS
    <3>2. e + 1 + a = t /\ a > 0 /\ a = t - e - 1 /\ e \in Int /\ t \in Int
      BY <1>1, <1>3, <1>4, <3>1
    <3>. QED
      BY ONLY <3>2
  <2>2. first[e].tag # "REF"
    BY <1>3
  <2>. QED
    BY <1>3, <2>1, <2>2 DEF Leads
<1>6. p \in Nat /\ t \in Nat
  BY PathEnd, PathCells DEF Nil, Inner
<1>7. [heap[t] EXCEPT !.ptr = p] = Str(p) /\ Str(p) \in Cell
  <2>1. heap[t] \in Cell /\ heap[t].tag = "STR"
    BY <1>1, <1>3
  <2>. QED
    BY <2>1, <1>6, Setting, Makes
<1>8. [heap[e] EXCEPT !.arity = t] = Functor(t) /\ Functor(t) \in Cell
  BY <1>3, <1>6, Setting, Makes
<1>9. heap' = [heap EXCEPT ![e].arity = t, ![t].ptr = p]
  BY <1>2, <1>4 DEF VisitStr
<1>10. heap' = [[heap EXCEPT ![e] = Functor(t)] EXCEPT ![t] = Str(p)]
  BY <1>1, <1>3, <1>7, <1>8, <1>9
<1>11. /\ heap' \in [1 .. Len(first) -> Cell] /\ heap'[t] = Str(p) /\ heap'[e] = Functor(t)
       /\ \A c \in 1 .. Len(first) : c # t /\ c # e => heap'[c] = heap[c]
  BY <1>1, <1>3, <1>7, <1>8, <1>10
<1>12. Enters(e)
  BY <1>2, <1>3, <1>5, <1>11 DEF Enters, VisitStr
<1>. QED
  BY <1>2, <1>12

LEMMA RefLeaves ==
  ASSUME MarkInv, ClimbRef
  PROVE  Leaves
<1>1. path # <<>> /\ heap \in [1 .. Len(first) -> Cell] /\ WellFormed(first)
  BY PathEnd, PathCells, HeapAt DEF ClimbRef
<1>2. first[p].tag = "REF" /\ p \in 1 .. Len(first) /\ Inner(p)
  BY <1>1, EndAt, Fields DEF ClimbRef
<1>3. Owner(p) = p /\ first[p] = Ref(first[p].ref) /\ t = first[p].ref
  BY <1>1, <1>2, EndAt, OwnerAt, RefAt DEF Leads
<1>4. heap[p] = Ref(Before(Len(path))) /\ heap[p].ref = Before(Len(path)) /\ heap[p] \in Cell
  BY <1>1, <1>2, EndAt, Fields
<1>5. t \in Nat
  BY PathCells
<1>6. [heap[p] EXCEPT !.ref = t] = first[p] /\ first[p] \in Cell
  BY <1>2, <1>3, <1>4, <1>5, EndAt, Setting, Makes DEF ClimbRef
<1>7. heap' = [heap EXCEPT ![p] = first[p]]
  BY <1>6 DEF ClimbRef
<1>8. /\ heap' \in [1 .. Len(first) -> Cell] /\ heap'[p] = first[p]
      /\ \A c \in 1 .. Len(first) : c # p => heap'[c] = heap[c]
  BY <1>1, <1>2, <1>6, <1>7
<1>. QED
  BY <1>1, <1>2, <1>3, <1>4, <1>8 DEF Leaves, ClimbRef

LEMMA StrLeaves ==
  ASSUME MarkInv, ClimbStr
  PROVE  Leaves
<1>1. path # <<>> /\ heap \in [1 .. Len(first) -> Cell] /\ WellFormed(first)
  BY PathEnd, PathCells, HeapAt DEF ClimbStr
<1>2. first[p].tag = "FUNCTOR" /\ first[p].tag # "REF" /\ p \in 1 .. Len(first) /\ Inner(p)
  BY <1>1, EndAt, Fields DEF ClimbStr, Inner
<1>3. PICK s : s = Owner(p)
  OBVIOUS
<1>4. /\ heap[p] = Functor(s) /\ heap[p].arity = s /\ heap[s] = Str(Before(Len(path))) /\ heap[p].tag = "FUNCTOR"
      /\ s \in 1 .. Len(first) /\ s # p
  BY <1>1, <1>2, <1>3, EndAt, OwnerAt
<1>5. /\ first[s] = Str(p) /\ first[p] = Functor(s - p - 1) /\ s - p - 1 \in Nat
      /\ first[p] \in Cell /\ first[s] \in Cell
  <2>1. s = p + 1 + first[p].arity
    BY <1>1, <1>2, <1>3, OwnerAt
  <2>2. /\ first[p] \in Cell /\ first[p].arity \in Nat /\ first[p] = Functor(first[p].arity)
        /\ s - p - 1 = first[p].arity /\ first[s] = Str(p) /\ first[s].tag = "STR"
    BY <1>1, <1>2, <2>1, FunctorAt
  <2>3. first[s] \in Cell
    BY <1>1, <1>4, <2>2, StrAt
  <2>. QED
    BY <2>2, <2>3
<1>6. heap[s].tag = "STR" /\ heap[s].ptr = Before(Len(path)) /\ heap[s] \in Cell /\ heap[p] \in Cell
  BY <1>1, <1>2, <1>4, Fields
<1>7. [heap[p] EXCEPT !.arity = s - p - 1] = first[p]
  BY <1>4, <1>5, <1>6, Setting
<1>8. [heap[s] EXCEPT !.ptr = p] = first[s]
  <2>1. p \in Nat
    BY <1>2
  <2>. QED
    BY <2>1, <1>5, <1>6, Setting
<1>9. heap' = [heap EXCEPT ![p].arity = s - p - 1, ![s].ptr = p] /\ t' = s /\ p' = heap[s].ptr
  BY <1>4 DEF ClimbStr
<1>10. heap' = [[heap EXCEPT ![p] = first[p]] EXCEPT ![s] = first[s]]
  BY <1>1, <1>2, <1>4, <1>7, <1>8, <1>9
<1>11. /\ heap' \in [1 .. Len(first) -> Cell] /\ heap'[p] = first[p] /\ heap'[s] = first[s]
       /\ \A c \in 1 .. Len(first) : c # p /\ c # s => heap'[c] = heap[c]
  BY <1>1, <1>2, <1>4, <1>5, <1>10
<1>12. t + 1 >= s
  BY <1>4 DEF ClimbStr
<1>. QED
  BY <1>1, <1>3, <1>6, <1>9, <1>11, <1>12 DEF Leaves, ClimbStr

LEMMA StayKeeps ==
  ASSUME MarkInv, path' = path, p' = p, heap' = heap, first' = first, from' = from, marked \subseteq marked'
  PROVE  PathOK' /\ Turned' /\ (t' = t \/ path = <<>> => Linked')
<1>1. PathOK'
  BY DEF MarkInv, PathOK, Owner
<1>2. Turned'
  BY DEF MarkInv, Turned, Owner, Before
<1>3. ASSUME t' = t
      PROVE  Linked'
  BY <1>3 DEF MarkInv, Linked, Leads, Child, Owner
<1>4. ASSUME path = <<>>
      PROVE  Linked'
  BY <1>4 DEF Linked
<1>. QED
  BY <1>1, <1>2, <1>3, <1>4

LEMMA SeenKeeps ==
  ASSUME MarkInv, Seen
  PROVE  MarkInv'
<1>1. PathOK' /\ Turned' /\ Linked'
  BY StayKeeps DEF Seen
<1>2. WellFormed(first)' /\ RootsOK' /\ WalkOK' /\ Sound'
  BY DEF MarkInv, RootsOK, WalkOK, Sound, Closed, Visiting, Seen
<1>3. ASSUME NEW c, NEW d
      PROVE  Later(c, d)' = Later(c, d)
  BY DEF Later, Child, Owner, Seen
<1>4. Owed'
  BY <1>3 DEF MarkInv, Owed, Visiting, Seen
<1>. QED
  BY <1>1, <1>2, <1>4 DEF MarkInv

LEMMA LeafKeeps ==
  ASSUME MarkInv, VisitLeaf
  PROVE  MarkInv'
<1>1. PICK new : /\ marked' = marked \cup new /\ new \subseteq 1 .. Len(first) /\ t \in new
                 /\ new \subseteq {t} \cup Children(first, t)
                 /\ \A c \in new : Children(first, c) \subseteq marked'
  <2>1. heap[t] = first[t] /\ t \in 1 .. Len(first) /\ first[t].tag # "FUNCTOR" /\ WellFormed(first)
    BY LeafOffPath, PathCells DEF VisitLeaf
  <2>2. CASE heap[t].tag \in {"ATOM", "FUNCTOR"} /\ marked' = marked \cup {t}
    <3>1. Children(first, t) = {}
      BY <2>1, <2>2 DEF Children
    <3>. QED
      BY <2>1, <2>2, <3>1
  <2>3. CASE heap[t] = Ref(t) /\ marked' = marked \cup {t}
    <3>1. Children(first, t) = {t}
      BY <2>1, <2>3, Fields DEF Children
    <3>. QED
      BY <2>1, <2>3, <3>1
  <2>4. CASE heap[t].tag = "STR" /\ heap[Base].arity = 0 /\ marked' = marked \cup {t, Base}
    <3>1. PICK e : e = Base
      OBVIOUS
    <3>2. /\ first[e].tag = "FUNCTOR" /\ e \in 1 .. Len(first) /\ e + 1 + first[e].arity = t
          /\ Inner(e) /\ Owner(e) = t /\ first[e].arity = 0
      BY <2>4, <3>1, StrBase DEF VisitLeaf
    <3>3. Children(first, t) = {e}
      BY <2>1, <3>2, ChildrenAt
    <3>4. Children(first, e) = {}
      BY <3>2 DEF Children
    <3>. QED
      BY <2>1, <2>4, <3>1, <3>2, <3>3, <3>4
  <2>. QED
    BY <2>2, <2>3, <2>4 DEF VisitLeaf
<1>2. PathOK' /\ Turned' /\ Linked'
  BY <1>1, StayKeeps DEF VisitLeaf
<1>3. WellFormed(first)' /\ RootsOK' /\ WalkOK'
  BY <1>1 DEF MarkInv, RootsOK, WalkOK, Visiting, VisitLeaf
<1>4. ASSUME NEW c, NEW d
      PROVE  Later(c, d)' = Later(c, d)
  BY DEF Later, Child, Owner, VisitLeaf
<1>5. Owed'
  <2>1. ASSUME NEW c \in marked' \ from.marked, NEW d \in Children(first, c)
        PROVE  d \in marked' \/ Later(c, d)
    <3>1. CASE c \in marked
      BY <1>1, <2>1, <3>1 DEF MarkInv, Owed, Visiting
    <3>2. CASE c \in new
      BY <1>1, <3>2
    <3>. QED
      BY <1>1, <3>1, <3>2
  <2>. QED
    BY <2>1, <1>4 DEF Owed, VisitLeaf
<1>6. Sound'
  <2>1. ASSUME NEW X \in SUBSET (1 .. Len(first)), Closed(X)
        PROVE  marked' \subseteq X \cup from.marked /\ t \in X \cup from.marked
    <3>1. marked \subseteq X \cup from.marked /\ t \in X
      BY <2>1, PathCells DEF MarkInv, Sound, VisitLeaf
    <3>2. Children(first, t) \subseteq X \cup from.marked
      BY <2>1, <3>1 DEF Closed
    <3>. QED
      BY <1>1, <3>1, <3>2
  <2>2. \A X : Closed(X)' <=> Closed(X)
    BY DEF Closed, VisitLeaf
  <2>. QED
    BY <2>1, <2>2 DEF Sound, VisitLeaf
<1>. QED
  BY <1>2, <1>3, <1>5, <1>6 DEF MarkInv

LEMMA NextArgumentKeeps ==
  ASSUME MarkInv, NextArgument
  PROVE  MarkInv'
<1>1. path # <<>> /\ Len(path) \in 1 .. Len(path) /\ p = path[Len(path)] /\ WellFormed(first)
  BY PathEnd, PathCells DEF NextArgument
<1>2. /\ first[p].tag = "FUNCTOR" /\ Inner(p) /\ Owner(p) \in marked \ from.marked
      /\ heap[p].arity = Owner(p) /\ Leads(p, t) /\ p \in 1 .. Len(first)
  BY <1>1, EndAt, Fields DEF NextArgument, Inner
<1>3. Owner(p) \in 1 .. Len(first) /\ t \in 1 .. Len(first)
  BY <1>1, <1>2, OwnerAt, PathCells
<1>4. t + 1 \in p + 1 .. Owner(p) - 1
  BY <1>2, <1>3 DEF Leads, NextArgument
<1>5. Leads(p, t + 1)
  BY <1>2, <1>4 DEF Leads
<1>6. t + 1 \in Pointable(first) /\ t + 1 \in Children(first, Owner(p))
  BY <1>1, <1>2, <1>5, LeadsToTerm
<1>7. PathOK' /\ Turned'
  BY StayKeeps DEF NextArgument
<1>8. Linked'
  <2>1. ASSUME NEW i \in 1 .. Len(path)
        PROVE  Leads(path[i], Child(i)')
    <3>1. CASE i = Len(path)
      BY <1>1, <1>5, <3>1 DEF Child, NextArgument
    <3>2. CASE i # Len(path)
      BY <3>2 DEF Child, Owner, NextArgument, MarkInv, Linked
    <3>. QED
      BY <3>1, <3>2
  <2>2. \A i \in 1 .. Len(path) : Leads(path[i], Child(i))' <=> Leads(path[i], Child(i)')
    BY DEF Leads, Owner, NextArgument
  <2>3. path' = path
    BY DEF NextArgument
  <2>. QED
    BY <2>1, <2>2, <2>3 DEF Linked
<1>9. WellFormed(first)' /\ RootsOK'
  BY DEF MarkInv, RootsOK, Visiting, NextArgument
<1>10. WalkOK'
  BY <1>6 DEF MarkInv, WalkOK, NextArgument
<1>11. Owed'
  <2>1. ASSUME NEW c \in marked \ from.marked, NEW d \in Children(first, c)
        PROVE  d \in marked \/ d \in Visiting' \/ Later(c, d)'
    <3>1. d \in marked \/ Later(c, d)
      BY DEF MarkInv, Owed, Visiting, NextArgument
    <3>2. ASSUME NEW i \in 1 .. Len(path), first[path[i]].tag = "FUNCTOR", c = Owner(path[i]), d > Child(i)
          PROVE  d = t + 1 \/ Later(c, d)'
      <4>1. path' = path /\ first' = first /\ (Owner(path[i]))' = Owner(path[i])
        BY DEF Owner, NextArgument
      <4>2. CASE i = Len(path)
        <5>1. Child(i) = t /\ Child(i)' = t + 1
          BY <4>2 DEF Child, NextArgument
        <5>2. d \in p .. Owner(p) - 1
          BY <1>1, <1>2, <3>2, <4>2, ChildrenAt, <2>1
        <5>3. d = t + 1 \/ d > t + 1
          BY <5>1, <5>2, <1>2, <1>3, <3>2
        <5>. QED
          BY <3>2, <4>1, <5>1, <5>3 DEF Later
      <4>3. CASE i # Len(path)
        <5>1. Child(i)' = Child(i)
          BY <4>3 DEF Child, Owner, NextArgument
        <5>. QED
          BY <3>2, <4>1, <5>1 DEF Later
      <4>. QED
        BY <4>2, <4>3
    <3>3. Visiting' = {t + 1}
      BY DEF Visiting, NextArgument
    <3>. QED
      BY <3>1, <3>2, <3>3 DEF Later
  <2>. QED
    BY <2>1 DEF Owed, NextArgument
<1>12. Sound'
  <2>1. ASSUME NEW X \in SUBSET (1 .. Len(first)), Closed(X)
        PROVE  marked \subseteq X \cup from.marked /\ t + 1 \in X \cup from.marked
    <3>1. marked \subseteq X \cup from.marked
      BY <2>1 DEF MarkInv, Sound
    <3>2. Owner(p) \in X
      BY <1>2, <3>1
    <3>3. Children(first, Owner(p)) \subseteq X \cup from.marked
      BY <2>1, <3>2 DEF Closed
    <3>. QED
      BY <1>6, <3>1, <3>3
  <2>2. \A X : Closed(X)' <=> Closed(X)
    BY DEF Closed, NextArgument
  <2>. QED
    BY <2>1, <2>2 DEF Sound, NextArgument
<1>. QED
  BY <1>7, <1>8, <1>9, <1>10, <1>11, <1>12 DEF MarkInv

LEMMA ReturnKeeps ==
  ASSUME MarkInv, Return
  PROVE  MarkInv'
<1>1. path = <<>> /\ Len(path) = 0
  BY PathEnd DEF Return
<1>2. PathOK' /\ Turned' /\ Linked'
  BY <1>1, StayKeeps DEF Return
<1>3. \A c, d : ~Later(c, d)
  BY <1>1 DEF Later
<1>4. Owed'
  BY <1>3 DEF MarkInv, Owed, Visiting, Return
<1>5. roots \in Seq(from.roots) /\ from.roots \subseteq Pointable(first) /\ Len(roots) \in Nat
  BY LenProperties DEF MarkInv, RootsOK
<1>6. WellFormed(first)'
  BY DEF MarkInv, Return
<1>7. \A X : Closed(X)' <=> Closed(X)
  BY DEF Closed, Return
<1>8. CASE roots = <<>>
  <2>1. RootsOK' /\ WalkOK' /\ Sound'
    BY <1>1, <1>7, <1>8 DEF MarkInv, RootsOK, WalkOK, Sound, Visiting, Return
  <2>. QED
    BY <1>2, <1>4, <1>6, <2>1 DEF MarkInv
<1>9. CASE roots # <<>>
  <2>1. Len(roots) \in 1 .. Len(roots) /\ 1 \in 1 .. Len(roots)
    BY <1>5, <1>9, EmptySeq
  <2>2. \A i \in 1 .. Len(roots) : roots[i] \in from.roots
    BY <1>5, ElementOfSeq
  <2>3. t' = roots[1] /\ t' \in from.roots /\ pc' = "visit" /\ roots' = Tail(roots)
    BY <1>9, <2>1, <2>2 DEF Return
  <2>4. /\ roots' \in Seq(from.roots) /\ Len(roots') = Len(roots) - 1
        /\ \A i \in 1 .. Len(roots) - 1 : roots'[i] = roots[i + 1]
    BY <1>5, <1>9, <2>3, HeadTailProperties
  <2>5. RootsOK'
    <3>1. ASSUME NEW r \in from.roots
          PROVE  r \in marked \/ r = t' \/ \E i \in 1 .. Len(roots') : roots'[i] = r
      <4>1. r \in marked \/ \E i \in 1 .. Len(roots) : roots[i] = r
        BY DEF MarkInv, RootsOK, Visiting, Return
      <4>2. ASSUME NEW i \in 1 .. Len(roots), roots[i] = r
            PROVE  r = t' \/ \E k \in 1 .. Len(roots') : roots'[k] = r
        <5>1. CASE i = 1
          BY <4>2, <5>1, <2>3
        <5>2. CASE i # 1
          <6>1. PICK k : k = i - 1
            OBVIOUS
          <6>2. k \in 1 .. Len(roots') /\ k \in 1 .. Len(roots) - 1 /\ k + 1 = i
            BY <1>5, <2>4, <5>2, <6>1
          <6>3. roots'[k] = roots[i]
            BY <2>4, <6>2
          <6>. QED
            BY <4>2, <6>2, <6>3
        <5>. QED
          BY <5>1, <5>2
      <4>. QED
        BY <4>1, <4>2
    <3>2. Visiting' = {t'} /\ from' = from /\ first' = first /\ marked' = marked
      BY <2>3 DEF Visiting, Return
    <3>. QED
      BY <1>5, <2>4, <3>1, <3>2 DEF RootsOK
  <2>6. WalkOK'
    BY <1>5, <2>3 DEF MarkInv, WalkOK, Return
  <2>7. Sound'
    BY <1>7, <2>3 DEF MarkInv, Sound, Closed, Return
  <2>. QED
    BY <1>2, <1>4, <1>6, <2>5, <2>6, <2>7 DEF MarkInv
<1>. QED
  BY <1>8, <1>9

LEMMA InitMark == Init => MarkInv
<1> SUFFICES ASSUME Init
             PROVE  MarkInv
  OBVIOUS
<1>1. WellFormed(first) /\ first = heap /\ first \in Seq(Cell) /\ Len(first) \in Nat
  <2>1. WellFormed(heap) /\ first = heap
    BY HeapsAssumption DEF Init
  <2>. QED
    BY <2>1, LenProperties DEF WellFormed
<1>2. PICK b \in Boundaries(heap) : marked = 1 .. b - 1
  BY DEF Init
<1>3. marked \subseteq 1 .. Len(first)
  BY <1>1, <1>2 DEF Boundaries
<1>4. PICK rs \in [1 .. RootCount -> Pointable(heap)] :
        /\ from = [roots |-> {rs[i] : i \in 1 .. RootCount}, marked |-> marked]
        /\ t = rs[1] /\ roots = Tail(rs)
  BY DEF Init
<1>5. path = <<>> /\ Len(path) = 0 /\ p = Nil /\ pc = "visit"
  BY DEF Init
<1>6. RootCount \in Nat /\ 1 \in 1 .. RootCount
  BY RootCountAssumption
<1>7. /\ \A i \in 1 .. RootCount : rs[i] \in from.roots
      /\ \A r \in from.roots : \E i \in 1 .. RootCount : r = rs[i]
      /\ from.roots \subseteq Pointable(first) /\ from.marked = marked
  BY <1>1, <1>4
<1>8. t \in from.roots
  BY <1>4, <1>6, <1>7
<1>9. /\ roots \in Seq(from.roots) /\ Len(roots) = RootCount - 1
      /\ \A i \in 1 .. RootCount - 1 : roots[i] = rs[i + 1]
  <2>1. rs \in Seq(from.roots) /\ Len(rs) = RootCount
    <3>1. rs \in [1 .. RootCount -> from.roots]
      BY <1>4, <1>7
    <3>. QED
      BY <1>6, <3>1
  <2>2. rs # <<>>
    BY <1>6, <2>1, EmptySeq
  <2>. QED
    BY <1>4, <2>1, <2>2, HeadTailProperties
<1>10. PathOK
  <2>1. <<>> \in Seq(1 .. Len(first))
    BY EmptySeq
  <2>. QED
    BY <1>5, <2>1 DEF PathOK
<1>11. Linked
  BY <1>5 DEF Linked
<1>12. Turned
  <2>1. heap \in [1 .. Len(first) -> Cell]
    BY <1>1, LenProperties
  <2>. QED
    BY <1>1, <1>5, <2>1 DEF Turned
<1>13. RootsOK
  <2>1. ASSUME NEW r \in from.roots
        PROVE  r \in Visiting \/ \E i \in 1 .. Len(roots) : roots[i] = r
    <3>1. PICK i \in 1 .. RootCount : r = rs[i]
      BY <1>7
    <3>2. CASE i = 1
      BY <1>4, <1>5, <3>1, <3>2 DEF Visiting
    <3>3. CASE i # 1
      <4>1. PICK k : k = i - 1
        OBVIOUS
      <4>2. k \in 1 .. Len(roots) /\ k \in 1 .. RootCount - 1 /\ k + 1 = i
        BY <1>6, <1>9, <3>3, <4>1
      <4>. QED
        BY <1>9, <3>1, <4>2
    <3>. QED
      BY <3>2, <3>3
  <2>. QED
    BY <1>7, <1>9, <2>1 DEF RootsOK
<1>14. WalkOK
  BY <1>3, <1>5, <1>7, <1>8 DEF WalkOK
<1>15. Owed
  BY <1>7 DEF Owed
<1>16. Sound
  BY <1>7, <1>8 DEF Sound, Closed
<1>. QED
  BY <1>1, <1>10, <1>11, <1>12, <1>13, <1>14, <1>15, <1>16 DEF MarkInv

LEMMA NextMark == MarkInv /\ [Next]_vars => MarkInv'
<1> SUFFICES ASSUME MarkInv, [Next]_vars
             PROVE  MarkInv'
  OBVIOUS
<1>1. CASE UNCHANGED vars
  <2>1. \A c, d : Later(c, d)' = Later(c, d)
    BY <1>1 DEF Later, Child, Owner, vars
  <2>2. PathOK' /\ Turned' /\ Linked'
    BY <1>1, StayKeeps DEF vars
  <2>. QED
    BY <1>1, <2>1, <2>2 DEF vars, MarkInv, RootsOK, WalkOK, Owed, Sound, Closed, Visiting
<1>2. CASE VisitRef
  BY <1>2, RefEnters, EnterKeeps
<1>3. CASE VisitStr
  BY <1>3, StrEnters, EnterKeeps
<1>4. CASE ClimbRef
  BY <1>4, RefLeaves, LeaveKeeps
<1>5. CASE ClimbStr
  BY <1>5, StrLeaves, LeaveKeeps
<1>. QED
  BY <1>1, <1>2, <1>3, <1>4, <1>5, SeenKeeps, LeafKeeps, NextArgumentKeeps, ReturnKeeps DEF Next

\* Whatever heap the collector finds, of any size, with any sharing and any
\* cycles, and from whatever roots: when mark_from has returned for all of them
\* the heap is as it was, and marked is the least set that the roots and all
\* they lead to need.
THEOREM MarkingIsExact == Spec => []MarksReachable
<1>1. MarkInv => MarksReachable
  <2> SUFFICES ASSUME MarkInv, pc = "done"
               PROVE  /\ heap = first
                      /\ from.marked \subseteq marked
                      /\ Closed(marked \ from.marked)
                      /\ \A X \in SUBSET (1 .. Len(first)) : Closed(X) => marked \subseteq X \cup from.marked
    BY DEF MarksReachable
  <2>1. path = <<>> /\ roots = <<>> /\ Len(path) = 0 /\ Len(roots) = 0 /\ Visiting = {}
    BY DEF MarkInv, WalkOK, Visiting
  <2>2. heap = first
    <3>1. first \in [1 .. Len(first) -> Cell]
      BY PathCells, LenProperties
    <3>2. \A c \in 1 .. Len(first) : heap[c] = first[c]
      BY <2>1, HeapAt
    <3>. QED
      BY <3>1, <3>2, HeapAt
  <2>3. Closed(marked \ from.marked)
    BY <2>1 DEF MarkInv, RootsOK, Owed, Later, Closed
  <2>. QED
    BY <2>2, <2>3 DEF MarkInv, WalkOK, Sound
<1>. QED
  BY <1>1, InitMark, NextMark, PTL DEF Spec

=============================================================================
