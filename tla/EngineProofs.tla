---------------------------- MODULE EngineProofs ----------------------------
(***************************************************************************)
(* Theorems about module Engine, for every set of files, whatever they     *)
(* consist of, and for histories without a bound.                          *)
(*                                                                         *)
(* Most lemmas are about a sequence n that stands for nest.                *)
(***************************************************************************)
EXTENDS Engine, Facts

(***************************************************************************)
(* The inductive invariant, in parts.                                      *)
(***************************************************************************)
\* What may stand below what.
Adjacent(s, t) ==
  /\ s.kind \in {"bag", "capture"} => s.phase = "inside"
  /\ s.kind = "consult" <=> t.kind = "load"
  /\ s.kind = "consult" => s.phase = "loading"
  /\ s.kind = "load" <=> t.kind = "query"

\* The program starts with a query of the host or a text it loads.
Bottom(s) == s.kind = "query" \/ (s.kind = "load" /\ s.file = Text)

Nested(n) ==
  /\ n \in Seq(Scopes)
  /\ n # <<>> => Bottom(n[1])
  /\ \A i \in 1 .. Len(n) : i < Len(n) => Adjacent(n[i], n[i + 1])

\* The newest scope s, while the exception b goes through it or none does, in a
\* history that uses the features u.
NewestOK(u, s, b) ==
  /\ s.kind = "load" => b = NoBall
  /\ s.kind = "consult" => s.phase = "loaded"
  /\ s.kind = "capture" /\ b # NoBall => s.phase = "inside" \/ "exhaustion" \in u

TopOK(u, n, b) == IF n = <<>> THEN b = NoBall ELSE NewestOK(u, n[Len(n)], b)

\* The findalls of n have bags of their own among b, with what they have answered.
BagsIn(n, b) ==
  /\ \A i \in 1 .. Len(n) : n[i].kind = "bag" => n[i].n \in 1 .. Len(b) /\ b[n[i].n] = n[i].own
  /\ \A i, j \in 1 .. Len(n) : i < j /\ n[i].kind = "bag" /\ n[j].kind = "bag" => n[i].n < n[j].n

ScopesIn(n, kind) == {i \in 1 .. Len(n) : n[i].kind = kind}

\* A load, the i-th scope of n, is at p in file c with module m; 0 is the host.
LoadsOf(n) == ScopesIn(n, "load")
NameOf(f) == IF f = Text THEN None ELSE f
IsAt(n, i, p, c, m) ==
  IF i = 0 THEN p = None /\ c = None /\ m = None
  ELSE /\ p = [text |-> n[i].file, at |-> n[i].own.at]
       /\ c = NameOf(n[i].file)
       /\ m = n[i].own.module

\* Each load saves what the one outside it is at; the innermost is at p, c and m.
Innermost(n, i) == \A k \in LoadsOf(n) : k <= i
Encloses(n, i, j) == i < j /\ \A k \in LoadsOf(n) : k <= i \/ j <= k
LoadsIn(n, p, c, m, saved) ==
  /\ Len(saved) = Cardinality(LoadsOf(n))
  /\ \A i \in LoadsOf(n) \cup {0} : \A j \in LoadsOf(n) :
       Encloses(n, i, j) => IsAt(n, i, n[j].position, n[j].consulting, saved[NumBelow(LoadsOf(n), j) + 1])
  /\ \A i \in LoadsOf(n) \cup {0} : Innermost(n, i) => IsAt(n, i, p, c, m)

\* Each capture of n has an entry of st, the first of which is 0.
CapturesOf(n) == ScopesIn(n, "capture")
CapturesIn(n, st, pos) ==
  /\ Len(st) = Cardinality(CapturesOf(n))
  /\ IF st = <<>> THEN pos = 0 ELSE st[1] = 0

\* What a capture's goal wrote is in buf, from its start to the next one or to pos.
EndOf(k, st, pos) == IF k = Len(st) THEN pos ELSE st[k + 1]
IsText(own, buf, from, to) ==
  Len(own) = to - from /\ \A d \in 1 .. Len(own) : own[d] = buf[from + d]
TextIn(n, st, pos, buf) ==
  /\ pos < Len(buf) => buf[pos + 1] = Nul
  /\ \A i \in 1 .. pos : buf[i] \in Outputs
  /\ \A i \in CapturesOf(n) :
       LET k == NumBelow(CapturesOf(n), i) + 1
       IN  IsText(n[i].own, buf, st[k], EndOf(k, st, pos))

\* The starts are in order, and inside the buffer.
StartsIn(st, pos, buf) ==
  /\ st \in Seq(Nat) /\ Len(st) <= CaptureMax
  /\ buf \in Seq(Outputs \cup {Nul}) /\ pos \in 0 .. Len(buf)
  /\ \A k \in 1 .. Len(st) : st[k] <= pos /\ \A j \in 1 .. Len(st) : j <= k => st[j] <= st[k]

\* Histories in which a capture is left behind, or text of one.
LeavesCaptures(u) == {"captures", "exhaustion"} \subseteq u
LeavesText(u) == {"captures", "interrupts"} \subseteq u

Captured(u, n, st, pos, buf) ==
  /\ StartsIn(st, pos, buf)
  /\ "captures" \in u \/ CapturesOf(n) = {}
  /\ LeavesCaptures(u) \/ CapturesIn(n, st, pos)
  /\ LeavesCaptures(u) \/ LeavesText(u) \/ TextIn(n, st, pos, buf)

Shape == uses \in Uses /\ ball \in Balls /\ Nested(nest) /\ TopOK(uses, nest, ball)
BagsInv == bags \in Seq(Seq(Answers)) /\ BagsIn(nest, bags)
LoadsInv == module_saved \in Seq(Files \cup {None}) /\ LoadsIn(nest, position, consulting, module, module_saved)
CapturesInv == Captured(uses, nest, starts, capture_pos, capture_buf)
ProgramInv ==
  /\ load_error \in {"load error", None}
  /\ db \in Seq([file : Files \cup {None}, item : Nat]) /\ consulted \subseteq Files

EngineInv == Shape /\ BagsInv /\ LoadsInv /\ CapturesInv /\ ProgramInv

(***************************************************************************)
(* Sequences.                                                              *)
(***************************************************************************)
LEMMA AppendIs ==
  ASSUME NEW S, NEW n \in Seq(S), NEW s \in S
  PROVE  /\ Append(n, s) \in Seq(S) /\ Len(Append(n, s)) = Len(n) + 1 /\ Len(n) \in Nat
         /\ Append(n, s)[Len(n) + 1] = s /\ Append(n, s) # <<>>
         /\ \A i \in 1 .. Len(n) : Append(n, s)[i] = n[i]
<1>1. Len(n) \in Nat
  BY LenProperties
<1>. QED
  BY <1>1, AppendProperties

\* What steps do to nest.
Pushed(n, s) == Append(n, s)
Put(n, k, s) == [n EXCEPT ![k] = s]

LEMMA PushIs ==
  ASSUME NEW n \in Seq(Scopes), NEW s \in Scopes
  PROVE  /\ Pushed(n, s) \in Seq(Scopes) /\ Len(Pushed(n, s)) = Len(n) + 1 /\ Len(n) \in Nat
         /\ Pushed(n, s)[Len(n) + 1] = s /\ Pushed(n, s) # <<>>
         /\ \A i \in 1 .. Len(n) : Pushed(n, s)[i] = n[i]
BY AppendIs DEF Pushed

LEMMA FrontOf ==
  ASSUME NEW S, NEW n \in Seq(S), n # <<>>
  PROVE  /\ Front(n) \in Seq(S) /\ Len(Front(n)) = Len(n) - 1 /\ Len(n) \in Nat /\ Len(n) >= 1
         /\ \A i \in 1 .. Len(n) - 1 : Front(n)[i] = n[i]
         /\ Front(n) = <<>> <=> Len(n) = 1
         /\ Last(n) = n[Len(n)] /\ n[Len(n)] \in S
<1>1. Len(n) \in Nat /\ Len(n) # 0
  BY EmptySeq, LenProperties
<1>2. Len(n) - 1 \in 0 .. Len(n) /\ Len(n) >= 1
  BY ONLY <1>1
<1>3. /\ Front(n) \in Seq(S) /\ Len(Front(n)) = Len(n) - 1
      /\ \A i \in 1 .. Len(n) - 1 : Front(n)[i] = n[i]
  BY <1>2, PrefixSeq DEF Front
<1>4. Front(n) = <<>> <=> Len(n) = 1
  BY <1>1, <1>3, EmptySeq
<1>5. Last(n) = n[Len(n)] /\ n[Len(n)] \in S
  BY <1>1, ElementOfSeq DEF Last
<1>. QED
  BY <1>1, <1>2, <1>3, <1>4, <1>5

LEMMA PutIs ==
  ASSUME NEW n \in Seq(Scopes), NEW k \in 1 .. Len(n), NEW s \in Scopes
  PROVE  /\ Put(n, k, s) \in Seq(Scopes) /\ Len(Put(n, k, s)) = Len(n) /\ Len(n) \in Nat
         /\ Put(n, k, s)[k] = s /\ Put(n, k, s) # <<>>
         /\ \A i \in 1 .. Len(n) : i # k => Put(n, k, s)[i] = n[i]
<1>1. Len(n) \in Nat
  BY LenProperties
<1>2. Put(n, k, s) \in Seq(Scopes) /\ Len(Put(n, k, s)) = Len(n)
  BY ExceptSeq DEF Put
<1>3. DOMAIN n = 1 .. Len(n)
  BY LenProperties
<1>. QED
  BY <1>1, <1>2, <1>3, EmptySeq DEF Put

(***************************************************************************)
(* Scopes.                                                                 *)
(***************************************************************************)
LEMMA ScopeKinds ==
  ASSUME NEW s \in Scopes
  PROVE  /\ s.kind \in {"query", "catch", "consult", "load", "bag", "capture"}
         /\ s.kind = "consult" => s \in Consults
         /\ s.kind = "load" => s \in Loads
         /\ s.kind = "bag" => s \in BagScopes
         /\ s.kind = "capture" => s \in CaptureScopes
BY DEF Scopes, Query, Catch, Consults, Loads, BagScopes, CaptureScopes

LEMMA NewScopes ==
  /\ Query \in Scopes /\ Catch \in Scopes /\ Capture \in Scopes
  /\ Query.kind = "query" /\ Catch.kind = "catch"
  /\ Capture.kind = "capture" /\ Capture.phase = "opened" /\ Capture.own = <<>>
  /\ \A n \in Nat \ {0} : Bag(n) \in Scopes /\ Bag(n).kind = "bag" /\ Bag(n).n = n /\ Bag(n).own = <<>>
                          /\ Bag(n).phase = "opened"
  /\ \A f \in Files : Consult(f) \in Scopes /\ Consult(f).kind = "consult" /\ Consult(f).file = f
                      /\ Consult(f).phase = "loading"
<1>1. <<>> \in Seq(Answers) /\ <<>> \in Seq(Outputs)
  BY EmptySeq
<1>2. Capture \in CaptureScopes
  BY <1>1 DEF Capture, CaptureScopes, Phases, Balls, NoBall
<1>3. \A n \in Nat \ {0} : Bag(n) \in BagScopes
  BY <1>1 DEF Bag, BagScopes, Phases, Balls, NoBall
<1>4. \A f \in Files : Consult(f) \in Consults
  BY DEF Consult, Consults
<1>5. Query \in Scopes /\ Catch \in Scopes /\ Capture \in Scopes /\ (\A n \in Nat \ {0} : Bag(n) \in Scopes)
      /\ (\A f \in Files : Consult(f) \in Scopes)
  BY <1>2, <1>3, <1>4 DEF Scopes
<1>. QED
  BY <1>5 DEF Query, Catch, Capture, Bag, Consult

LEMMA NewLoad ==
  ASSUME NEW f \in Sources, position \in Positions, consulting \in Files \cup {None}
  PROVE  /\ Load(f) \in Scopes /\ Load(f).kind = "load" /\ Load(f).file = f
         /\ Load(f).position = position /\ Load(f).consulting = consulting
         /\ Load(f).own.at = 1 /\ Load(f).own.module = None
<1>1. Load(f) \in Loads
  BY DEF Load, Loads
<1>2. Load(f) \in Scopes
  BY <1>1 DEF Scopes
<1>. QED
  BY <1>2 DEF Load

\* What steps do to a scope.
LEMMA PhaseScope ==
  ASSUME NEW s \in Scopes, s.kind \in {"bag", "capture"}, NEW p \in Phases
  PROVE  LET r == [s EXCEPT !.phase = p]
         IN  /\ r \in Scopes /\ r.kind = s.kind /\ r.phase = p /\ r.own = s.own
             /\ s.kind = "bag" => r.n = s.n
<1>1. CASE s.kind = "bag"
  <2>1. s \in BagScopes
    BY <1>1, ScopeKinds
  <2>2. [s EXCEPT !.phase = p] \in BagScopes
    BY <2>1 DEF BagScopes
  <2>. QED
    BY <2>1, <2>2 DEF BagScopes, Scopes
<1>2. CASE s.kind = "capture"
  <2>1. s \in CaptureScopes
    BY <1>2, ScopeKinds
  <2>2. [s EXCEPT !.phase = p] \in CaptureScopes
    BY <2>1 DEF CaptureScopes
  <2>. QED
    BY <1>2, <2>1, <2>2 DEF CaptureScopes, Scopes
<1>. QED
  BY <1>1, <1>2

LEMMA HandlerScope ==
  ASSUME NEW s \in Scopes, s.kind \in {"bag", "capture"}, NEW b \in Balls
  PROVE  LET r == [s EXCEPT !.phase = "handler", !.ball = b]
         IN  /\ r \in Scopes /\ r.kind = s.kind /\ r.phase = "handler" /\ r.own = s.own
             /\ s.kind = "bag" => r.n = s.n
<1>1. CASE s.kind = "bag"
  <2>1. s \in BagScopes
    BY <1>1, ScopeKinds
  <2>2. [s EXCEPT !.phase = "handler", !.ball = b] \in BagScopes
    BY <2>1 DEF BagScopes, Phases
  <2>. QED
    BY <2>1, <2>2 DEF BagScopes, Scopes
<1>2. CASE s.kind = "capture"
  <2>1. s \in CaptureScopes
    BY <1>2, ScopeKinds
  <2>2. [s EXCEPT !.phase = "handler", !.ball = b] \in CaptureScopes
    BY <2>1 DEF CaptureScopes, Phases
  <2>. QED
    BY <1>2, <2>1, <2>2 DEF CaptureScopes, Scopes
<1>. QED
  BY <1>1, <1>2

LEMMA AnsweredScope ==
  ASSUME NEW s \in Scopes, s.kind = "bag", NEW a \in Answers
  PROVE  LET r == [s EXCEPT !.own = Append(@, a)]
         IN  /\ r \in Scopes /\ r.kind = "bag" /\ r.phase = s.phase /\ r.n = s.n
             /\ r.own = Append(s.own, a)
<1>1. s \in BagScopes
  BY ScopeKinds
<1>2. Append(s.own, a) \in Seq(Answers)
  BY <1>1, AppendProperties DEF BagScopes
<1>3. [s EXCEPT !.own = Append(@, a)] \in BagScopes
  BY <1>1, <1>2 DEF BagScopes
<1>. QED
  BY <1>1, <1>3 DEF BagScopes, Scopes

LEMMA WrittenScope ==
  ASSUME NEW s \in Scopes, s.kind = "capture", NEW x \in Outputs
  PROVE  LET r == [s EXCEPT !.own = Append(@, x)]
         IN  /\ r \in Scopes /\ r.kind = "capture" /\ r.phase = s.phase
             /\ r.own = Append(s.own, x) /\ s.own \in Seq(Outputs)
<1>1. s \in CaptureScopes
  BY ScopeKinds
<1>2. Append(s.own, x) \in Seq(Outputs)
  BY <1>1, AppendProperties DEF CaptureScopes
<1>3. [s EXCEPT !.own = Append(@, x)] \in CaptureScopes
  BY <1>1, <1>2 DEF CaptureScopes
<1>. QED
  BY <1>1, <1>3 DEF CaptureScopes, Scopes

LEMMA LoadedScope ==
  ASSUME NEW s \in Scopes, s.kind = "consult"
  PROVE  LET r == [s EXCEPT !.phase = "loaded"]
         IN  r \in Scopes /\ r.kind = "consult" /\ r.phase = "loaded" /\ r.file = s.file
<1>1. s \in Consults
  BY ScopeKinds
<1>2. [s EXCEPT !.phase = "loaded"] \in Consults
  BY <1>1 DEF Consults
<1>. QED
  BY <1>1, <1>2 DEF Consults, Scopes

LEMMA ReadScope ==
  ASSUME NEW s \in Scopes, s.kind = "load"
  PROVE  LET r == [s EXCEPT !.own.at = @ + 1]
         IN  /\ r \in Scopes /\ r.kind = "load" /\ r.file = s.file /\ r.position = s.position
             /\ r.consulting = s.consulting /\ r.own.at = s.own.at + 1 /\ r.own.module = s.own.module
<1>1. s \in Loads
  BY ScopeKinds
<1>2. s.own \in [at : Nat, module : Files \cup {None}] /\ s.own.at + 1 \in Nat
  BY <1>1 DEF Loads
<1>3. PICK o : o = [s.own EXCEPT !.at = @ + 1]
  OBVIOUS
<1>4. o \in [at : Nat, module : Files \cup {None}] /\ o.at = s.own.at + 1 /\ o.module = s.own.module
  BY <1>2, <1>3
<1>5. [s EXCEPT !.own.at = @ + 1] = [s EXCEPT !.own = o]
  BY <1>3
<1>6. [s EXCEPT !.own = o] \in Loads
  BY <1>1, <1>4 DEF Loads
<1>7. [s EXCEPT !.own = o].own = o
  BY <1>1 DEF Loads
<1>. QED
  BY <1>1, <1>4, <1>5, <1>6, <1>7 DEF Loads, Scopes

LEMMA ModuleScope ==
  ASSUME NEW s \in Scopes, s.kind = "load", NEW m \in Files
  PROVE  LET r == [s EXCEPT !.own.module = m]
         IN  /\ r \in Scopes /\ r.kind = "load" /\ r.file = s.file /\ r.position = s.position
             /\ r.consulting = s.consulting /\ r.own.at = s.own.at /\ r.own.module = m
<1>1. s \in Loads
  BY ScopeKinds
<1>2. s.own \in [at : Nat, module : Files \cup {None}]
  BY <1>1 DEF Loads
<1>3. PICK o : o = [s.own EXCEPT !.module = m]
  OBVIOUS
<1>4. o \in [at : Nat, module : Files \cup {None}] /\ o.at = s.own.at /\ o.module = m
  BY <1>2, <1>3
<1>5. [s EXCEPT !.own.module = m] = [s EXCEPT !.own = o]
  BY <1>3
<1>6. [s EXCEPT !.own = o] \in Loads
  BY <1>1, <1>4 DEF Loads
<1>7. [s EXCEPT !.own = o].own = o
  BY <1>1 DEF Loads
<1>. QED
  BY <1>1, <1>4, <1>5, <1>6, <1>7 DEF Loads, Scopes

(***************************************************************************)
(* What may stand below what.                                              *)
(***************************************************************************)
LEMMA NestedPush ==
  ASSUME NEW n, Nested(n), NEW s \in Scopes, IF n = <<>> THEN Bottom(s) ELSE Adjacent(n[Len(n)], s)
  PROVE  Nested(Pushed(n, s)) /\ Pushed(n, s) # <<>> /\ Pushed(n, s)[Len(Pushed(n, s))] = s
<1>1. PICK m : m = Pushed(n, s)
  OBVIOUS
<1>2. n \in Seq(Scopes)
  BY DEF Nested
<1>3. /\ m \in Seq(Scopes) /\ Len(m) = Len(n) + 1 /\ Len(n) \in Nat /\ m[Len(n) + 1] = s /\ m # <<>>
      /\ \A i \in 1 .. Len(n) : m[i] = n[i]
  BY <1>1, <1>2, PushIs
<1>4. n = <<>> <=> Len(n) = 0
  BY <1>2, EmptySeq, LenProperties
<1>5. Bottom(m[1])
  BY <1>3, <1>4 DEF Nested
<1>6. ASSUME NEW i \in 1 .. Len(m), i < Len(m)
      PROVE  Adjacent(m[i], m[i + 1])
  <2>1. CASE i = Len(n)
    <3>1. i \in 1 .. Len(n) /\ n # <<>>
      BY <1>3, <1>4, <2>1
    <3>. QED
      BY <1>3, <2>1, <3>1
  <2>2. CASE i # Len(n)
    <3>1. i \in 1 .. Len(n) /\ i + 1 \in 1 .. Len(n) /\ i < Len(n)
      BY <1>3, <1>6, <2>2
    <3>. QED
      BY <1>3, <3>1 DEF Nested
  <2>. QED
    BY <2>1, <2>2
<1>. QED
  BY <1>1, <1>3, <1>5, <1>6 DEF Nested

LEMMA NestedFront ==
  ASSUME NEW n, Nested(n), n # <<>>
  PROVE  Nested(Front(n))
<1>1. PICK m : m = Front(n)
  OBVIOUS
<1>2. n \in Seq(Scopes)
  BY DEF Nested
<1>3. /\ m \in Seq(Scopes) /\ Len(m) = Len(n) - 1 /\ Len(n) \in Nat /\ Len(n) >= 1
      /\ \A i \in 1 .. Len(n) - 1 : m[i] = n[i]
      /\ m = <<>> <=> Len(n) = 1
  BY <1>1, <1>2, FrontOf
<1>4. m # <<>> => Bottom(m[1])
  BY <1>3 DEF Nested
<1>5. ASSUME NEW i \in 1 .. Len(m), i < Len(m)
      PROVE  Adjacent(m[i], m[i + 1])
  <2>1. i \in 1 .. Len(n) - 1 /\ i + 1 \in 1 .. Len(n) - 1 /\ i \in 1 .. Len(n) /\ i < Len(n)
    BY <1>3, <1>5
  <2>. QED
    BY <1>3, <2>1 DEF Nested
<1>. QED
  BY <1>1, <1>3, <1>4, <1>5 DEF Nested

\* A scope that changes may stand where it stood.
Alike(s, t) ==
  /\ s.kind = t.kind
  /\ s.kind = "load" => s.file = t.file

LEMMA NestedPut ==
  ASSUME NEW n, Nested(n), NEW k \in 1 .. Len(n), NEW s \in Scopes, Alike(s, n[k]),
         k < Len(n) /\ s.kind \in {"bag", "capture", "consult"} => s.phase = n[k].phase
  PROVE  Nested(Put(n, k, s)) /\ Put(n, k, s) # <<>>
         /\ Put(n, k, s)[Len(Put(n, k, s))] = IF k = Len(n) THEN s ELSE n[Len(n)]
<1>1. PICK m : m = Put(n, k, s)
  OBVIOUS
<1>2. n \in Seq(Scopes)
  BY DEF Nested
<1>3. /\ m \in Seq(Scopes) /\ Len(m) = Len(n) /\ Len(n) \in Nat /\ m[k] = s /\ m # <<>>
      /\ \A i \in 1 .. Len(n) : i # k => m[i] = n[i]
  BY <1>1, <1>2, PutIs
<1>4. n # <<>> /\ 1 \in 1 .. Len(n) /\ Len(n) \in 1 .. Len(n)
  BY <1>2, <1>3, EmptySeq
<1>5. Bottom(m[1])
  <2>1. Bottom(n[1])
    BY <1>4 DEF Nested
  <2>. QED
    BY <1>3, <1>4, <2>1 DEF Bottom, Alike
<1>6. ASSUME NEW i \in 1 .. Len(m), i < Len(m)
      PROVE  Adjacent(m[i], m[i + 1])
  <2>1. i \in 1 .. Len(n) /\ i + 1 \in 1 .. Len(n) /\ i < Len(n)
    BY <1>3, <1>6
  <2>2. Adjacent(n[i], n[i + 1])
    BY <2>1 DEF Nested
  <2>3. m[i].kind = n[i].kind /\ m[i + 1].kind = n[i + 1].kind
    BY <1>3, <2>1 DEF Alike
  <2>4. m[i].kind \in {"bag", "capture", "consult"} => m[i].phase = n[i].phase
    BY <1>3, <2>1
  <2>. QED
    BY <2>2, <2>3, <2>4 DEF Adjacent
<1>. QED
  BY <1>1, <1>3, <1>4, <1>5, <1>6 DEF Nested

LEMMA TopIn ==
  ASSUME NEW n, Nested(n), n # <<>>
  PROVE  Len(n) \in 1 .. Len(n) /\ Len(n) \in Nat /\ n[Len(n)] \in Scopes
<1>1. n \in Seq(Scopes)
  BY DEF Nested
<1>2. Len(n) \in Nat /\ Len(n) >= 1 /\ n[Len(n)] \in Scopes
  BY <1>1, FrontOf
<1>. QED
  BY <1>2

\* What is left when the newest scope goes.
LEMMA BelowTop ==
  ASSUME NEW n, Nested(n), n # <<>>
  PROVE  IF Front(n) = <<>> THEN Bottom(n[Len(n)])
         ELSE /\ Adjacent(Front(n)[Len(Front(n))], n[Len(n)])
              /\ Front(n)[Len(Front(n))] \in Scopes
<1>1. n \in Seq(Scopes)
  BY DEF Nested
<1>2. PICK m : m = Front(n)
  OBVIOUS
<1>3. /\ m \in Seq(Scopes) /\ Len(m) = Len(n) - 1 /\ Len(n) \in Nat /\ Len(n) >= 1
      /\ \A i \in 1 .. Len(n) - 1 : m[i] = n[i]
      /\ m = <<>> <=> Len(n) = 1
  BY <1>1, <1>2, FrontOf
<1>4. CASE Len(n) = 1
  BY <1>2, <1>3, <1>4 DEF Nested
<1>5. CASE Len(n) # 1
  <2>1. Len(n) - 1 \in 1 .. Len(n) /\ Len(n) - 1 < Len(n) /\ Len(n) - 1 \in 1 .. Len(n) - 1
        /\ (Len(n) - 1) + 1 = Len(n)
    BY ONLY <1>3, <1>5
  <2>2. Adjacent(n[Len(n) - 1], n[Len(n)])
    BY <2>1 DEF Nested
  <2>3. n[Len(n) - 1] \in Scopes
    BY <1>1, <2>1, ElementOfSeq
  <2>. QED
    BY <1>2, <1>3, <1>5, <2>1, <2>2, <2>3
<1>. QED
  BY <1>4, <1>5

\* A scope of the program, or of a library predicate, stands on something that runs.
LEMMA DropInner ==
  ASSUME NEW n, Nested(n), n # <<>>, n[Len(n)].kind \notin {"query", "load"}, NEW u, NEW b
  PROVE  Front(n) # <<>> /\ Nested(Front(n)) /\ TopOK(u, Front(n), b)
<1>1. Nested(Front(n))
  BY NestedFront
<1>2. Front(n) # <<>>
  BY BelowTop DEF Bottom
<1>3. Adjacent(Front(n)[Len(Front(n))], n[Len(n)])
  BY <1>2, BelowTop
<1>. QED
  BY <1>1, <1>2, <1>3 DEF TopOK, NewestOK, Adjacent

\* Below a query is the load whose directive it runs, if any.
LEMMA DropQuery ==
  ASSUME NEW n, Nested(n), n # <<>>, n[Len(n)].kind = "query", NEW u
  PROVE  /\ Nested(Front(n)) /\ TopOK(u, Front(n), NoBall)
         /\ Front(n) # <<>> => Front(n)[Len(Front(n))].kind = "load"
<1>1. Nested(Front(n))
  BY NestedFront
<1>2. Front(n) # <<>> => Adjacent(Front(n)[Len(Front(n))], n[Len(n)])
  BY BelowTop
<1>. QED
  BY <1>1, <1>2 DEF TopOK, NewestOK, Adjacent

\* Below a load is the consult/1 that it serves, if any.
LEMMA DropLoad ==
  ASSUME NEW n, Nested(n), n # <<>>, n[Len(n)].kind = "load"
  PROVE  /\ Nested(Front(n))
         /\ Front(n) = <<>> => n[Len(n)].file = Text
         /\ Front(n) # <<>> => Front(n)[Len(Front(n))].kind = "consult"
<1>1. Nested(Front(n))
  BY NestedFront
<1>2. IF Front(n) = <<>> THEN Bottom(n[Len(n)]) ELSE Adjacent(Front(n)[Len(Front(n))], n[Len(n)])
  BY BelowTop
<1>. QED
  BY <1>1, <1>2 DEF Bottom, Adjacent

(***************************************************************************)
(* Bags.                                                                   *)
(***************************************************************************)
\* The findalls of m are some of those of n: what n holds of them holds of m.
LEMMA BagsFewer ==
  ASSUME NEW n, NEW m, NEW b, BagsIn(n, b), Len(n) \in Nat, Len(m) \in Nat, Len(m) <= Len(n),
         \A i \in 1 .. Len(m) : m[i].kind = "bag" => n[i].kind = "bag" /\ n[i].n = m[i].n /\ n[i].own = m[i].own
  PROVE  BagsIn(m, b)
<1>1. \A i \in 1 .. Len(m) : i \in 1 .. Len(n)
  OBVIOUS
<1>. QED
  BY <1>1 DEF BagsIn

LEMMA BagsFront ==
  ASSUME NEW n, Nested(n), n # <<>>, NEW b, BagsIn(n, b)
  PROVE  BagsIn(Front(n), b)
<1>1. n \in Seq(Scopes)
  BY DEF Nested
<1>2. /\ Len(Front(n)) = Len(n) - 1 /\ Len(n) \in Nat /\ Len(n) >= 1
      /\ \A i \in 1 .. Len(n) - 1 : Front(n)[i] = n[i]
  BY <1>1, FrontOf
<1>3. Len(n) - 1 \in Nat /\ Len(n) - 1 <= Len(n)
  BY ONLY <1>2
<1>. QED
  BY <1>2, <1>3, BagsFewer

LEMMA BagsPush ==
  ASSUME NEW n, Nested(n), NEW s \in Scopes, s.kind # "bag", NEW b, BagsIn(n, b)
  PROVE  BagsIn(Pushed(n, s), b)
<1>1. n \in Seq(Scopes)
  BY DEF Nested
<1>2. PICK m : m = Pushed(n, s)
  OBVIOUS
<1>3. /\ Len(m) = Len(n) + 1 /\ Len(n) \in Nat /\ m[Len(n) + 1] = s
      /\ \A i \in 1 .. Len(n) : m[i] = n[i]
  BY <1>1, <1>2, PushIs
<1>4. \A i \in 1 .. Len(m) : m[i].kind = "bag" => i \in 1 .. Len(n) /\ m[i] = n[i]
  BY <1>3
<1>. QED
  BY <1>2, <1>4 DEF BagsIn

LEMMA BagsPut ==
  ASSUME NEW n, Nested(n), NEW k \in 1 .. Len(n), NEW s \in Scopes, s.kind = n[k].kind,
         s.kind = "bag" => s.n = n[k].n /\ s.own = n[k].own, NEW b, BagsIn(n, b)
  PROVE  BagsIn(Put(n, k, s), b)
<1>1. n \in Seq(Scopes)
  BY DEF Nested
<1>2. PICK m : m = Put(n, k, s)
  OBVIOUS
<1>3. /\ Len(m) = Len(n) /\ Len(n) \in Nat /\ m[k] = s
      /\ \A i \in 1 .. Len(n) : i # k => m[i] = n[i]
  BY <1>1, <1>2, PutIs
<1>4. \A i \in 1 .. Len(m) : m[i].kind = "bag" => n[i].kind = "bag" /\ n[i].n = m[i].n /\ n[i].own = m[i].own
  BY <1>3
<1>5. Len(m) <= Len(n)
  BY <1>3
<1>. QED
  BY <1>2, <1>3, <1>4, <1>5, BagsFewer

\* '$$bag_open'.
LEMMA BagsOpen ==
  ASSUME NEW n, Nested(n), NEW b \in Seq(Seq(Answers)), BagsIn(n, b),
         NEW s \in Scopes, s.kind = "bag", s.n = Len(b) + 1, s.own = <<>>
  PROVE  BagsIn(Pushed(n, s), Append(b, <<>>)) /\ Append(b, <<>>) \in Seq(Seq(Answers))
<1>1. n \in Seq(Scopes)
  BY DEF Nested
<1>2. PICK m : m = Pushed(n, s)
  OBVIOUS
<1>3. /\ Len(m) = Len(n) + 1 /\ Len(n) \in Nat /\ m[Len(n) + 1] = s
      /\ \A i \in 1 .. Len(n) : m[i] = n[i]
  BY <1>1, <1>2, PushIs
<1>4. PICK c : c = Append(b, <<>>)
  OBVIOUS
<1>5. <<>> \in Seq(Answers)
  BY EmptySeq
<1>6. /\ c \in Seq(Seq(Answers)) /\ Len(c) = Len(b) + 1 /\ Len(b) \in Nat /\ c[Len(b) + 1] = <<>>
      /\ \A i \in 1 .. Len(b) : c[i] = b[i]
  BY <1>4, <1>5, AppendIs
<1>7. ASSUME NEW i \in 1 .. Len(m), m[i].kind = "bag"
      PROVE  m[i].n \in 1 .. Len(c) /\ c[m[i].n] = m[i].own
  <2>1. CASE i = Len(n) + 1
    BY <1>3, <1>6, <2>1
  <2>2. CASE i # Len(n) + 1
    <3>1. i \in 1 .. Len(n) /\ m[i] = n[i]
      BY <1>3, <2>2
    <3>2. n[i].n \in 1 .. Len(b) /\ b[n[i].n] = n[i].own
      BY <1>7, <3>1 DEF BagsIn
    <3>3. PICK x : x = n[i].n
      OBVIOUS
    <3>4. x \in 1 .. Len(b) /\ b[x] = n[i].own
      BY <3>2, <3>3
    <3>5. Len(c) = Len(b) + 1 /\ Len(b) \in Nat /\ c[x] = b[x]
      BY <1>6, <3>4
    <3>6. x \in 1 .. Len(c)
      BY ONLY <3>4, <3>5
    <3>. QED
      BY ONLY <3>1, <3>3, <3>4, <3>5, <3>6
  <2>. QED
    BY <2>1, <2>2
<1>8. ASSUME NEW i \in 1 .. Len(m), NEW j \in 1 .. Len(m), i < j, m[i].kind = "bag", m[j].kind = "bag"
      PROVE  m[i].n < m[j].n
  <2>1. i \in 1 .. Len(n) /\ m[i] = n[i]
    BY <1>3, <1>8
  <2>2. n[i].n \in 1 .. Len(b)
    BY <1>8, <2>1 DEF BagsIn
  <2>3. CASE j = Len(n) + 1
    <3>1. m[j].n = Len(b) + 1 /\ m[i].n = n[i].n
      BY <1>3, <2>1, <2>3
    <3>2. Len(b) \in Nat
      BY LenProperties
    <3>. QED
      BY <2>2, <3>1, <3>2
  <2>4. CASE j # Len(n) + 1
    <3>1. j \in 1 .. Len(n) /\ m[j] = n[j]
      BY <1>3, <2>4
    <3>. QED
      BY <1>8, <2>1, <3>1 DEF BagsIn
  <2>. QED
    BY <2>3, <2>4
<1>. QED
  BY <1>2, <1>4, <1>6, <1>7, <1>8 DEF BagsIn

\* '$$bag_add', to the bag of the innermost scope.
LEMMA BagsAdd ==
  ASSUME NEW n, Nested(n), n # <<>>, n[Len(n)].kind = "bag",
         NEW b \in Seq(Seq(Answers)), BagsIn(n, b), NEW a \in Answers,
         NEW s \in Scopes, s.kind = "bag", s.n = n[Len(n)].n, s.own = Append(n[Len(n)].own, a)
  PROVE  /\ s.n \in 1 .. Len(b)
         /\ BagsIn(Put(n, Len(n), s), [b EXCEPT ![s.n] = Append(@, a)])
         /\ [b EXCEPT ![s.n] = Append(@, a)] \in Seq(Seq(Answers))
<1>1. n \in Seq(Scopes) /\ Len(n) \in 1 .. Len(n) /\ Len(n) \in Nat
  BY TopIn DEF Nested
<1>2. PICK m : m = Put(n, Len(n), s)
  OBVIOUS
<1>3. /\ Len(m) = Len(n) /\ m[Len(n)] = s
      /\ \A i \in 1 .. Len(n) : i # Len(n) => m[i] = n[i]
  BY <1>1, <1>2, PutIs
<1>4. s.n \in 1 .. Len(b) /\ b[s.n] = n[Len(n)].own
  BY <1>1 DEF BagsIn
<1>5. b[s.n] \in Seq(Answers)
  BY <1>4, ElementOfSeq
<1>6. Append(b[s.n], a) \in Seq(Answers)
  BY <1>5, AppendProperties
<1>7. PICK c : c = [b EXCEPT ![s.n] = Append(b[s.n], a)]
  OBVIOUS
<1>8. /\ c \in Seq(Seq(Answers)) /\ Len(c) = Len(b)
      /\ \A j \in 1 .. Len(b) : c[j] = IF j = s.n THEN Append(b[s.n], a) ELSE b[j]
  BY <1>4, <1>6, <1>7, ExceptSeq
<1>9. ASSUME NEW i \in 1 .. Len(m), m[i].kind = "bag"
      PROVE  m[i].n \in 1 .. Len(c) /\ c[m[i].n] = m[i].own
  <2>1. CASE i = Len(n)
    BY <1>3, <1>4, <1>8, <2>1
  <2>2. CASE i # Len(n)
    <3>1. i \in 1 .. Len(n) /\ m[i] = n[i] /\ i < Len(n)
      BY <1>1, <1>3, <2>2
    <3>2. n[i].n \in 1 .. Len(b) /\ b[n[i].n] = n[i].own /\ n[i].n < s.n
      BY <1>1, <1>9, <3>1 DEF BagsIn
    <3>3. n[i].n # s.n
      BY <1>4, <3>2
    <3>. QED
      BY <1>8, <3>1, <3>2, <3>3
  <2>. QED
    BY <2>1, <2>2
<1>10. \A i \in 1 .. Len(m) : m[i].kind = n[i].kind /\ (m[i].kind = "bag" => m[i].n = n[i].n)
  BY <1>3
<1>11. \A i, j \in 1 .. Len(m) : i < j /\ m[i].kind = "bag" /\ m[j].kind = "bag" => m[i].n < m[j].n
  BY <1>3, <1>10 DEF BagsIn
<1>12. BagsIn(m, c)
  BY <1>9, <1>11 DEF BagsIn
<1>. QED
  BY <1>2, <1>4, <1>7, <1>8, <1>12

\* '$$bag_collect' and '$$bag_drop', of the innermost scope.
LEMMA BagsDrop ==
  ASSUME NEW n, Nested(n), n # <<>>, n[Len(n)].kind = "bag", NEW b \in Seq(Seq(Answers)), BagsIn(n, b)
  PROVE  /\ n[Len(n)].n \in 1 .. Len(b)
         /\ BagsIn(Front(n), SubSeq(b, 1, n[Len(n)].n - 1))
         /\ SubSeq(b, 1, n[Len(n)].n - 1) \in Seq(Seq(Answers))
<1>1. n \in Seq(Scopes) /\ Len(n) \in 1 .. Len(n) /\ Len(n) \in Nat
  BY TopIn DEF Nested
<1>2. PICK m : m = Front(n)
  OBVIOUS
<1>3. /\ Len(m) = Len(n) - 1
      /\ \A i \in 1 .. Len(n) - 1 : m[i] = n[i]
  BY <1>1, <1>2, FrontOf
<1>4. PICK top : top = n[Len(n)].n
  OBVIOUS
<1>5. top \in 1 .. Len(b) /\ Len(b) \in Nat
  BY <1>1, <1>4, LenProperties DEF BagsIn
<1>6. top - 1 \in 0 .. Len(b)
  BY ONLY <1>5
<1>7. PICK c : c = SubSeq(b, 1, top - 1)
  OBVIOUS
<1>8. c \in Seq(Seq(Answers)) /\ Len(c) = top - 1 /\ \A i \in 1 .. top - 1 : c[i] = b[i]
  BY <1>6, <1>7, PrefixSeq
<1>9. ASSUME NEW i \in 1 .. Len(m), m[i].kind = "bag"
      PROVE  m[i].n \in 1 .. Len(c) /\ c[m[i].n] = m[i].own
  <2>1. i \in 1 .. Len(n) /\ m[i] = n[i] /\ i < Len(n)
    BY <1>1, <1>3
  <2>2. n[i].n \in 1 .. Len(b) /\ b[n[i].n] = n[i].own /\ n[i].n < top
    BY <1>1, <1>4, <1>9, <2>1 DEF BagsIn
  <2>3. n[i].n \in 1 .. top - 1
    BY <1>5, <2>2
  <2>. QED
    BY <1>8, <2>1, <2>2, <2>3
<1>10. \A i \in 1 .. Len(m) : i \in 1 .. Len(n) /\ m[i] = n[i]
  <2>1. \A i \in 1 .. Len(m) : i \in 1 .. Len(n) /\ i \in 1 .. Len(n) - 1
    BY <1>1, <1>3
  <2>. QED
    BY <1>3, <2>1
<1>11. \A i, j \in 1 .. Len(m) : i < j /\ m[i].kind = "bag" /\ m[j].kind = "bag" => m[i].n < m[j].n
  BY <1>10 DEF BagsIn
<1>12. BagsIn(m, c)
  BY <1>9, <1>11 DEF BagsIn
<1>. QED
  BY <1>2, <1>4, <1>5, <1>7, <1>8, <1>12

(***************************************************************************)
(* The scopes of a kind, and how many there are.                           *)
(***************************************************************************)
LEMMA KindFinite ==
  ASSUME NEW n, Nested(n), NEW kind
  PROVE  /\ ScopesIn(n, kind) \subseteq Int /\ IsFiniteSet(ScopesIn(n, kind))
         /\ Cardinality(ScopesIn(n, kind)) \in Nat
         /\ \A i \in ScopesIn(n, kind) : i \in 1 .. Len(n) /\ i \in Nat /\ n[i] \in Scopes /\ n[i].kind = kind
<1>1. n \in Seq(Scopes)
  BY DEF Nested
<1>2. Len(n) \in Nat
  BY <1>1, LenProperties
<1>3. IsFiniteSet(1 .. Len(n))
  BY <1>2, FS_Interval
<1>4. ScopesIn(n, kind) \subseteq 1 .. Len(n)
  BY DEF ScopesIn
<1>5. IsFiniteSet(ScopesIn(n, kind))
  BY <1>3, <1>4, FS_Subset
<1>6. \A i \in ScopesIn(n, kind) : i \in 1 .. Len(n) /\ n[i].kind = kind
  BY DEF ScopesIn
<1>7. \A i \in 1 .. Len(n) : n[i] \in Scopes
  BY <1>1, ElementOfSeq
<1>. QED
  BY <1>2, <1>4, <1>5, <1>6, <1>7, FS_CardinalityType

LEMMA KindFront ==
  ASSUME NEW n, Nested(n), n # <<>>, NEW kind
  PROVE  /\ ScopesIn(n, kind) = IF n[Len(n)].kind = kind THEN ScopesIn(Front(n), kind) \cup {Len(n)}
                                ELSE ScopesIn(Front(n), kind)
         /\ \A i \in ScopesIn(Front(n), kind) : Front(n)[i] = n[i] /\ i < Len(n)
<1>1. n \in Seq(Scopes)
  BY DEF Nested
<1>2. PICK m : m = Front(n)
  OBVIOUS
<1>3. /\ Len(m) = Len(n) - 1 /\ Len(n) \in Nat /\ Len(n) >= 1
      /\ \A i \in 1 .. Len(n) - 1 : m[i] = n[i]
  BY <1>1, <1>2, FrontOf
<1>. QED
  BY <1>2, <1>3 DEF ScopesIn

LEMMA KindPush ==
  ASSUME NEW n, Nested(n), NEW s \in Scopes, NEW kind
  PROVE  /\ ScopesIn(Pushed(n, s), kind) = IF s.kind = kind THEN ScopesIn(n, kind) \cup {Len(n) + 1}
                                           ELSE ScopesIn(n, kind)
         /\ \A i \in ScopesIn(n, kind) : Pushed(n, s)[i] = n[i] /\ i < Len(n) + 1
         /\ Pushed(n, s)[Len(n) + 1] = s /\ Len(n) + 1 \in Int
<1>1. n \in Seq(Scopes)
  BY DEF Nested
<1>2. PICK m : m = Pushed(n, s)
  OBVIOUS
<1>3. /\ Len(m) = Len(n) + 1 /\ Len(n) \in Nat /\ m[Len(n) + 1] = s
      /\ \A i \in 1 .. Len(n) : m[i] = n[i]
  BY <1>1, <1>2, PushIs
<1>. QED
  BY <1>2, <1>3 DEF ScopesIn

LEMMA KindPut ==
  ASSUME NEW n, Nested(n), NEW k \in 1 .. Len(n), NEW s \in Scopes, s.kind = n[k].kind, NEW kind
  PROVE  /\ ScopesIn(Put(n, k, s), kind) = ScopesIn(n, kind)
         /\ \A i \in ScopesIn(n, kind) : i # k => Put(n, k, s)[i] = n[i]
         /\ Put(n, k, s)[k] = s
<1>1. n \in Seq(Scopes)
  BY DEF Nested
<1>2. PICK m : m = Put(n, k, s)
  OBVIOUS
<1>3. /\ Len(m) = Len(n) /\ Len(n) \in Nat /\ m[k] = s
      /\ \A i \in 1 .. Len(n) : i # k => m[i] = n[i]
  BY <1>1, <1>2, PutIs
<1>. QED
  BY <1>2, <1>3 DEF ScopesIn

\* A number above all of S.
LEMMA BelowLast ==
  ASSUME NEW S, S \subseteq Int, IsFiniteSet(S), NEW top \in Int, \A i \in S : i < top
  PROVE  /\ Cardinality(S \cup {top}) = Cardinality(S) + 1
         /\ NumBelow(S \cup {top}, top) = Cardinality(S)
         /\ \A i \in S : NumBelow(S \cup {top}, i) = NumBelow(S, i)
<1>1. top \notin S
  OBVIOUS
<1>2. Cardinality(S \cup {top}) = Cardinality(S) + 1
  BY <1>1, FS_AddElement
<1>3. {j \in S \cup {top} : j < top} = S
  <2>1. ~(top < top)
    OBVIOUS
  <2>. QED
    BY <2>1
<1>4. \A i \in S : {j \in S \cup {top} : j < i} = {j \in S : j < i}
  OBVIOUS
<1>. QED
  BY <1>2, <1>3, <1>4 DEF NumBelow

(***************************************************************************)
(* Loads.                                                                  *)
(***************************************************************************)
\* The loads of m are those of n.
LEMMA LoadsSame ==
  ASSUME NEW n, NEW m, NEW p, NEW c, NEW mod, NEW saved, LoadsIn(n, p, c, mod, saved), 0 \notin LoadsOf(n),
         LoadsOf(m) = LoadsOf(n), \A i \in LoadsOf(n) : m[i] = n[i]
  PROVE  LoadsIn(m, p, c, mod, saved)
<1>1. PICK L : L = LoadsOf(n)
  OBVIOUS
<1>2. \A i \in L \cup {0} : i # 0 => m[i] = n[i]
  BY <1>1
<1>3. ASSUME NEW i \in L \cup {0}, NEW j \in L, Encloses(m, i, j)
      PROVE  IsAt(m, i, m[j].position, m[j].consulting, saved[NumBelow(L, j) + 1])
  <2>1. Encloses(n, i, j)
    BY <1>1, <1>3 DEF Encloses
  <2>2. IsAt(n, i, n[j].position, n[j].consulting, saved[NumBelow(L, j) + 1])
    BY <1>1, <2>1 DEF LoadsIn
  <2>. QED
    BY <1>1, <1>2, <2>2 DEF IsAt
<1>4. ASSUME NEW i \in L \cup {0}, Innermost(m, i)
      PROVE  IsAt(m, i, p, c, mod)
  <2>1. Innermost(n, i)
    BY <1>1, <1>4 DEF Innermost
  <2>2. IsAt(n, i, p, c, mod)
    BY <1>1, <2>1 DEF LoadsIn
  <2>. QED
    BY <1>2, <2>2 DEF IsAt
<1>. QED
  BY <1>1, <1>3, <1>4 DEF LoadsIn

LEMMA HostNoLoad ==
  ASSUME NEW n
  PROVE  0 \notin LoadsOf(n)
BY DEF LoadsOf, ScopesIn

LEMMA LoadsFront ==
  ASSUME NEW n, Nested(n), n # <<>>, n[Len(n)].kind # "load",
         NEW p, NEW c, NEW mod, NEW saved, LoadsIn(n, p, c, mod, saved)
  PROVE  LoadsIn(Front(n), p, c, mod, saved)
<1>1. LoadsOf(Front(n)) = LoadsOf(n) /\ \A i \in LoadsOf(n) : Front(n)[i] = n[i]
  BY KindFront DEF LoadsOf
<1>. QED
  BY <1>1, LoadsSame, HostNoLoad

LEMMA LoadsPush ==
  ASSUME NEW n, Nested(n), NEW s \in Scopes, s.kind # "load",
         NEW p, NEW c, NEW mod, NEW saved, LoadsIn(n, p, c, mod, saved)
  PROVE  LoadsIn(Pushed(n, s), p, c, mod, saved)
<1>1. /\ ScopesIn(Pushed(n, s), "load") = ScopesIn(n, "load")
      /\ \A i \in ScopesIn(n, "load") : Pushed(n, s)[i] = n[i]
  BY KindPush
<1>2. LoadsOf(Pushed(n, s)) = LoadsOf(n) /\ \A i \in LoadsOf(n) : Pushed(n, s)[i] = n[i]
  BY <1>1 DEF LoadsOf
<1>. QED
  BY <1>2, LoadsSame, HostNoLoad

LEMMA LoadsPut ==
  ASSUME NEW n, Nested(n), NEW k \in 1 .. Len(n), NEW s \in Scopes, s.kind = n[k].kind, s.kind # "load",
         NEW p, NEW c, NEW mod, NEW saved, LoadsIn(n, p, c, mod, saved)
  PROVE  LoadsIn(Put(n, k, s), p, c, mod, saved)
<1>1. LoadsOf(Put(n, k, s)) = LoadsOf(n) /\ \A i \in LoadsOf(n) : i # k => Put(n, k, s)[i] = n[i]
  BY KindPut DEF LoadsOf
<1>2. k \notin LoadsOf(n)
  BY KindFinite DEF LoadsOf
<1>. QED
  BY <1>1, <1>2, LoadsSame, HostNoLoad

\* What a new innermost load has to be.
LEMMA LoadsEnter ==
  ASSUME NEW n, Nested(n), NEW p, NEW c, NEW mod, NEW saved \in Seq(Files \cup {None}), LoadsIn(n, p, c, mod, saved),
         mod \in Files \cup {None}, NEW f \in Sources,
         NEW s \in Scopes, s.kind = "load", s.file = f, s.position = p, s.consulting = c,
         s.own.at = 1, s.own.module = None
  PROVE  LoadsIn(Pushed(n, s), [text |-> f, at |-> 1], NameOf(f), None, Append(saved, mod))
<1>1. PICK L : L = LoadsOf(n)
  OBVIOUS
<1>2. PICK top : top = Len(n) + 1
  OBVIOUS
<1>3. /\ L \subseteq Int /\ IsFiniteSet(L) /\ Cardinality(L) \in Nat /\ top \in Int
      /\ \A i \in L : i < top /\ i > 0
  BY <1>1, <1>2, KindFinite, KindPush DEF LoadsOf
<1>4. PICK m : m = Pushed(n, s)
  OBVIOUS
<1>5. LoadsOf(m) = L \cup {top} /\ m[top] = s /\ \A i \in L : m[i] = n[i]
  <2>1. /\ ScopesIn(m, "load") = ScopesIn(n, "load") \cup {top}
        /\ \A i \in ScopesIn(n, "load") : m[i] = n[i]
        /\ m[top] = s
    <3>1. /\ ScopesIn(Pushed(n, s), "load") = ScopesIn(n, "load") \cup {Len(n) + 1}
          /\ \A i \in ScopesIn(n, "load") : Pushed(n, s)[i] = n[i]
          /\ Pushed(n, s)[Len(n) + 1] = s
      BY KindPush
    <3>. QED
      BY ONLY <1>2, <1>4, <3>1
  <2>. QED
    BY <1>1, <2>1 DEF LoadsOf
<1>6. /\ Cardinality(L \cup {top}) = Cardinality(L) + 1
      /\ NumBelow(L \cup {top}, top) = Cardinality(L)
      /\ \A i \in L : NumBelow(L \cup {top}, i) = NumBelow(L, i)
  BY <1>3, BelowLast
<1>7. PICK save : save = Append(saved, mod)
  OBVIOUS
<1>8. /\ Len(save) = Len(saved) + 1 /\ save[Len(saved) + 1] = mod
      /\ \A i \in 1 .. Len(saved) : save[i] = saved[i]
  BY <1>7, AppendIs
<1>9. Len(saved) = Cardinality(L)
  BY <1>1 DEF LoadsIn
<1>10. top > 0
  BY <1>2, <1>3, TopIn, LenProperties DEF Nested
<1>11. ASSUME NEW i \in L \cup {top, 0}, NEW j \in L \cup {top}, i < j, \A k \in L \cup {top} : k <= i \/ j <= k
       PROVE  IsAt(m, i, m[j].position, m[j].consulting, save[NumBelow(L \cup {top}, j) + 1])
  <2>1. i \in L \cup {0} /\ i # top /\ (i # 0 => m[i] = n[i])
    BY <1>3, <1>5, <1>10, <1>11
  <2>2. CASE j = top
    <3>1. \A k \in L : k <= i
      BY <1>3, <1>11, <2>2
    <3>2. IsAt(n, i, p, c, mod)
      BY <1>1, <2>1, <3>1 DEF LoadsIn, Innermost
    <3>3. IsAt(m, i, p, c, mod)
      BY <2>1, <3>2 DEF IsAt
    <3>. QED
      BY <1>5, <1>6, <1>8, <1>9, <2>2, <3>3
  <2>3. CASE j # top
    <3>1. j \in L
      BY <2>3
    <3>2. Encloses(n, i, j)
      BY <1>1, <1>11 DEF Encloses
    <3>3. IsAt(n, i, n[j].position, n[j].consulting, saved[NumBelow(L, j) + 1])
      BY <1>1, <2>1, <3>1, <3>2 DEF LoadsIn
    <3>4. NumBelow(L, j) \in 0 .. Cardinality(L) - 1
      BY <1>3, <3>1, BelowInside
    <3>5. NumBelow(L, j) + 1 \in 1 .. Len(saved)
      BY <1>3, <1>9, <3>4
    <3>6. save[NumBelow(L \cup {top}, j) + 1] = saved[NumBelow(L, j) + 1]
      <4>1. NumBelow(L \cup {top}, j) = NumBelow(L, j)
        BY <1>6, <3>1
      <4>2. PICK x : x = NumBelow(L, j) + 1
        OBVIOUS
      <4>3. save[x] = saved[x]
        BY <1>8, <3>5, <4>2
      <4>. QED
        BY ONLY <4>1, <4>2, <4>3
    <3>. QED
      BY <1>5, <2>1, <3>1, <3>3, <3>6 DEF IsAt
  <2>. QED
    BY <2>2, <2>3
<1>12. ASSUME NEW i \in L \cup {top, 0}, \A k \in L \cup {top} : k <= i
       PROVE  IsAt(m, i, [text |-> f, at |-> 1], NameOf(f), None)
  <2>1. i = top /\ i # 0
    BY <1>3, <1>10, <1>12
  <2>. QED
    BY <1>5, <2>1 DEF IsAt
<1>13. LoadsOf(m) \cup {0} = L \cup {top, 0}
  BY <1>5
<1>. QED
  BY <1>4, <1>5, <1>6, <1>7, <1>8, <1>9, <1>11, <1>12, <1>13 DEF LoadsIn, Encloses, Innermost

\* The innermost load is over: what it saved is what the next one is at.
LEMMA LoadsLeave ==
  ASSUME NEW n, Nested(n), n # <<>>, n[Len(n)].kind = "load",
         NEW p, NEW c, NEW mod, NEW saved \in Seq(Files \cup {None}), LoadsIn(n, p, c, mod, saved)
  PROVE  /\ LoadsIn(Front(n), n[Len(n)].position, n[Len(n)].consulting, Last(saved), Front(saved))
         /\ saved # <<>>
<1>1. PICK m : m = Front(n)
  OBVIOUS
<1>2. PICK L : L = LoadsOf(m)
  OBVIOUS
<1>3. PICK top : top = Len(n)
  OBVIOUS
<1>4. LoadsOf(n) = L \cup {top} /\ \A i \in L : m[i] = n[i] /\ i < top
  BY <1>1, <1>2, <1>3, KindFront DEF LoadsOf
<1>5. Nested(m) /\ top \in Nat /\ top > 0
  BY <1>1, <1>3, NestedFront, TopIn
<1>6. /\ L \subseteq Int /\ IsFiniteSet(L) /\ Cardinality(L) \in Nat
      /\ \A i \in L : i > 0
  BY <1>2, <1>5, KindFinite DEF LoadsOf
<1>7. /\ Cardinality(L \cup {top}) = Cardinality(L) + 1
      /\ NumBelow(L \cup {top}, top) = Cardinality(L)
      /\ \A i \in L : NumBelow(L \cup {top}, i) = NumBelow(L, i)
  <2>1. top \in Int /\ \A i \in L : i < top
    BY <1>4, <1>5
  <2>. QED
    BY <1>6, <2>1, BelowLast
<1>8. Len(saved) = Cardinality(L) + 1
  BY <1>4, <1>7 DEF LoadsIn
<1>9. saved # <<>>
  BY <1>6, <1>8, EmptySeq
<1>10. PICK save : save = Front(saved)
  OBVIOUS
<1>11. /\ Len(save) = Cardinality(L) /\ Last(saved) = saved[Cardinality(L) + 1]
       /\ \A i \in 1 .. Cardinality(L) : save[i] = saved[i]
  <2>1. /\ Len(save) = Len(saved) - 1 /\ Last(saved) = saved[Len(saved)]
        /\ \A i \in 1 .. Len(saved) - 1 : save[i] = saved[i]
    BY <1>9, <1>10, FrontOf
  <2>2. Len(saved) - 1 = Cardinality(L)
    BY <1>6, <1>8
  <2>. QED
    BY ONLY <1>8, <2>1, <2>2
<1>12. ASSUME NEW i \in L \cup {0}, NEW j \in L, Encloses(m, i, j)
       PROVE  IsAt(m, i, m[j].position, m[j].consulting, save[NumBelow(L, j) + 1])
  <2>1. Encloses(n, i, j)
    <3>1. i < j /\ \A k \in L : k <= i \/ j <= k
      BY <1>2, <1>12 DEF Encloses
    <3>2. j <= top
      BY <1>4, <1>5, <1>6
    <3>. QED
      BY <1>4, <3>1, <3>2 DEF Encloses
  <2>2. IsAt(n, i, n[j].position, n[j].consulting, saved[NumBelow(L \cup {top}, j) + 1])
    BY <1>4, <2>1 DEF LoadsIn
  <2>3. NumBelow(L, j) \in 0 .. Cardinality(L) - 1
    BY <1>6, BelowInside
  <2>4. NumBelow(L, j) + 1 \in 1 .. Cardinality(L)
    BY <1>6, <2>3
  <2>5. save[NumBelow(L, j) + 1] = saved[NumBelow(L \cup {top}, j) + 1]
    <3>1. NumBelow(L \cup {top}, j) = NumBelow(L, j)
      BY <1>7
    <3>2. PICK x : x = NumBelow(L, j) + 1
      OBVIOUS
    <3>3. save[x] = saved[x]
      BY <1>11, <2>4, <3>2
    <3>. QED
      BY ONLY <3>1, <3>2, <3>3
  <2>6. i # 0 => m[i] = n[i]
    BY <1>4
  <2>. QED
    BY <1>4, <2>2, <2>5, <2>6 DEF IsAt
<1>13. ASSUME NEW i \in L \cup {0}, Innermost(m, i)
       PROVE  IsAt(m, i, n[top].position, n[top].consulting, Last(saved))
  <2>1. Encloses(n, i, top)
    BY <1>2, <1>4, <1>5, <1>13 DEF Encloses, Innermost
  <2>2. IsAt(n, i, n[top].position, n[top].consulting, saved[NumBelow(L \cup {top}, top) + 1])
    BY <1>4, <2>1 DEF LoadsIn
  <2>3. i # 0 => m[i] = n[i]
    BY <1>4
  <2>. QED
    BY <1>7, <1>11, <2>2, <2>3 DEF IsAt
<1>. QED
  BY <1>1, <1>2, <1>3, <1>9, <1>10, <1>11, <1>12, <1>13 DEF LoadsIn

\* The innermost load goes on, or gets its module.
LEMMA LoadsOn ==
  ASSUME NEW n, Nested(n), NEW k \in LoadsOf(n), Innermost(n, k),
         NEW s \in Scopes, s.kind = "load", s.position = n[k].position, s.consulting = n[k].consulting,
         NEW p, NEW c, NEW mod, NEW saved, LoadsIn(n, p, c, mod, saved),
         NEW p2, NEW c2, NEW mod2, IsAt(Put(n, k, s), k, p2, c2, mod2)
  PROVE  LoadsIn(Put(n, k, s), p2, c2, mod2, saved)
<1>1. PICK L : L = LoadsOf(n)
  OBVIOUS
<1>2. PICK m : m = Put(n, k, s)
  OBVIOUS
<1>3. k \in 1 .. Len(n) /\ n[k].kind = "load"
  BY KindFinite DEF LoadsOf
<1>4. L \subseteq Int /\ \A i \in L : i > 0
  BY <1>1, KindFinite DEF LoadsOf
<1>5. LoadsOf(m) = L /\ m[k] = s /\ \A i \in L : i # k => m[i] = n[i]
  BY <1>1, <1>2, <1>3, KindPut DEF LoadsOf
<1>6. \A j \in L : m[j].position = n[j].position /\ m[j].consulting = n[j].consulting
  BY <1>5
<1>7. k \in L /\ \A i \in L : i <= k
  BY <1>1 DEF Innermost
<1>8. ASSUME NEW i \in L \cup {0}, NEW j \in L, Encloses(m, i, j)
      PROVE  IsAt(m, i, m[j].position, m[j].consulting, saved[NumBelow(L, j) + 1])
  <2>1. Encloses(n, i, j)
    BY <1>1, <1>5, <1>8 DEF Encloses
  <2>2. IsAt(n, i, n[j].position, n[j].consulting, saved[NumBelow(L, j) + 1])
    BY <1>1, <2>1 DEF LoadsIn
  <2>3. i < j /\ j <= k /\ k \in Int /\ j \in Int /\ i \in Int
    BY <1>4, <1>7, <2>1 DEF Encloses
  <2>4. i # k
    BY ONLY <2>3
  <2>5. i # 0 => m[i] = n[i]
    BY <1>5, <2>4
  <2>. QED
    BY <1>6, <2>2, <2>5 DEF IsAt
<1>9. ASSUME NEW i \in L \cup {0}, Innermost(m, i)
      PROVE  IsAt(m, i, p2, c2, mod2)
  <2>1. k <= i
    BY <1>5, <1>7, <1>9 DEF Innermost
  <2>2. i = k
    BY <1>4, <1>7, <2>1
  <2>. QED
    BY <1>2, <2>2
<1>10. Len(saved) = Cardinality(L)
  BY <1>1 DEF LoadsIn
<1>. QED
  BY <1>2, <1>5, <1>8, <1>9, <1>10 DEF LoadsIn

(***************************************************************************)
(* Captures.                                                               *)
(***************************************************************************)
LEMMA Greatest ==
  ASSUME NEW S, S \subseteq Int, IsFiniteSet(S), S # {}
  PROVE  \E m \in S : \A i \in S : i <= m
<1>1. Cardinality(S) \in Nat /\ Cardinality(S) # 0
  BY FS_CardinalityType, FS_EmptySet
<1>2. Cardinality(S) \in 1 .. Cardinality(S)
  BY ONLY <1>1
<1>3. PICK m \in S : NumBelow(S, m) = Cardinality(S) - 1
  BY <1>2, PlaceTaken
<1>4. ASSUME NEW i \in S, m < i
      PROVE  FALSE
  <2>1. NumBelow(S, m) < NumBelow(S, i)
    BY <1>4, BelowStrict
  <2>2. NumBelow(S, i) \in 0 .. Cardinality(S) - 1
    BY BelowInside
  <2>. QED
    BY ONLY <1>1, <1>3, <2>1, <2>2
<1>5. \A i \in S : i \in Int
  OBVIOUS
<1>. QED
  BY <1>3, <1>4, <1>5

\* The place of a capture among the captures.
PlaceOf(n, i) == NumBelow(CapturesOf(n), i) + 1

LEMMA Places ==
  ASSUME NEW n, Nested(n), NEW i \in CapturesOf(n)
  PROVE  /\ PlaceOf(n, i) \in 1 .. Cardinality(CapturesOf(n)) /\ PlaceOf(n, i) \in Nat
         /\ \A j \in CapturesOf(n) : i < j => PlaceOf(n, i) < PlaceOf(n, j)
         /\ (\A j \in CapturesOf(n) : j <= i) => PlaceOf(n, i) = Cardinality(CapturesOf(n))
<1>1. PICK S : S = CapturesOf(n)
  OBVIOUS
<1>2. S \subseteq Int /\ IsFiniteSet(S) /\ Cardinality(S) \in Nat /\ i \in S
  BY <1>1, KindFinite DEF CapturesOf
<1>3. NumBelow(S, i) \in 0 .. Cardinality(S) - 1
  BY <1>2, BelowInside
<1>4. \A j \in S : i < j => NumBelow(S, i) < NumBelow(S, j)
  BY <1>2, BelowStrict
<1>5. ASSUME \A j \in S : j <= i
      PROVE  NumBelow(S, i) = Cardinality(S) - 1
  <2>1. S \ {i} = {j \in S : j < i}
    <3>1. \A j \in S : j \in Int
      BY <1>2
    <3>2. \A j \in S : j # i <=> j < i
      BY <1>2, <1>5, <3>1
    <3>. QED
      BY <3>2
  <2>2. Cardinality(S \ {i}) = Cardinality(S) - 1
    BY <1>2, FS_RemoveElement
  <2>. QED
    BY <2>1, <2>2 DEF NumBelow
<1>6. PlaceOf(n, i) = NumBelow(S, i) + 1 /\ \A j \in S : PlaceOf(n, j) = NumBelow(S, j) + 1
  BY <1>1 DEF PlaceOf
<1>7. \A j \in S : NumBelow(S, j) \in Int
  BY <1>2, BelowType
<1>8. \A j \in S : i < j => PlaceOf(n, i) < PlaceOf(n, j)
  BY <1>3, <1>4, <1>6, <1>7
<1>9. PlaceOf(n, i) \in 1 .. Cardinality(S) /\ PlaceOf(n, i) \in Nat
  BY <1>2, <1>3, <1>6
<1>10. (\A j \in S : j <= i) => PlaceOf(n, i) = Cardinality(S)
  BY <1>2, <1>5, <1>6
<1>. QED
  BY <1>1, <1>8, <1>9, <1>10

\* The captures of m are those of n.
LEMMA CapturedSame ==
  ASSUME NEW u, NEW n, NEW st, NEW pos, NEW buf, Captured(u, n, st, pos, buf), NEW m,
         CapturesOf(m) = CapturesOf(n), \A i \in CapturesOf(n) : m[i].own = n[i].own
  PROVE  Captured(u, m, st, pos, buf)
<1>1. CapturesIn(n, st, pos) => CapturesIn(m, st, pos)
  BY DEF CapturesIn
<1>2. TextIn(n, st, pos, buf) => TextIn(m, st, pos, buf)
  BY DEF TextIn
<1>. QED
  BY <1>1, <1>2 DEF Captured

LEMMA CapturedFront ==
  ASSUME NEW u, NEW n, NEW st, NEW pos, NEW buf, Captured(u, n, st, pos, buf),
         Nested(n), n # <<>>, n[Len(n)].kind # "capture"
  PROVE  Captured(u, Front(n), st, pos, buf)
<1>1. CapturesOf(Front(n)) = CapturesOf(n) /\ \A i \in CapturesOf(n) : Front(n)[i] = n[i]
  BY KindFront DEF CapturesOf
<1>. QED
  BY <1>1, CapturedSame

LEMMA CapturedPush ==
  ASSUME NEW u, NEW n, NEW st, NEW pos, NEW buf, Captured(u, n, st, pos, buf),
         Nested(n), NEW s \in Scopes, s.kind # "capture"
  PROVE  Captured(u, Pushed(n, s), st, pos, buf)
<1>1. CapturesOf(Pushed(n, s)) = CapturesOf(n) /\ \A i \in CapturesOf(n) : Pushed(n, s)[i] = n[i]
  BY KindPush DEF CapturesOf
<1>. QED
  BY <1>1, CapturedSame

LEMMA CapturedPut ==
  ASSUME NEW u, NEW n, NEW st, NEW pos, NEW buf, Captured(u, n, st, pos, buf),
         Nested(n), NEW k \in 1 .. Len(n), NEW s \in Scopes, s.kind = n[k].kind,
         s.kind = "capture" => s.own = n[k].own
  PROVE  Captured(u, Put(n, k, s), st, pos, buf)
<1>1. /\ CapturesOf(Put(n, k, s)) = CapturesOf(n) /\ Put(n, k, s)[k] = s
      /\ \A i \in CapturesOf(n) : i # k => Put(n, k, s)[i] = n[i]
  BY KindPut DEF CapturesOf
<1>2. \A i \in CapturesOf(n) : n[i].kind = "capture"
  BY KindFinite DEF CapturesOf
<1>3. \A i \in CapturesOf(n) : Put(n, k, s)[i].own = n[i].own
  BY <1>1, <1>2
<1>. QED
  BY <1>1, <1>3, CapturedSame

\* '$$capture_start'.
LEMMA CapturedStart ==
  ASSUME NEW u, NEW n, NEW st, NEW pos, NEW buf, Captured(u, n, st, pos, buf),
         Nested(n), "captures" \in u, Len(st) < CaptureMax,
         NEW s \in Scopes, s.kind = "capture", s.own = <<>>
  PROVE  Captured(u, Pushed(n, s), Append(st, pos), pos, buf)
<1>1. /\ st \in Seq(Nat) /\ Len(st) \in Nat /\ CaptureMax \in Nat /\ pos \in Nat
      /\ buf \in Seq(Outputs \cup {Nul}) /\ pos \in 0 .. Len(buf)
      /\ \A k \in 1 .. Len(st) : st[k] <= pos /\ \A j \in 1 .. Len(st) : j <= k => st[j] <= st[k]
  BY LenProperties, BoundsAssumption DEF Captured, StartsIn
<1>2. PICK new : new = Append(st, pos)
  OBVIOUS
<1>3. /\ new \in Seq(Nat) /\ Len(new) = Len(st) + 1 /\ new[Len(st) + 1] = pos /\ new # <<>>
      /\ \A i \in 1 .. Len(st) : new[i] = st[i]
  <2>1. st \in Seq(Nat) /\ pos \in Nat /\ Len(st) \in Nat
    BY <1>1
  <2>2. /\ new \in Seq(Nat) /\ Len(new) = Len(st) + 1 /\ new[Len(st) + 1] = pos
        /\ \A i \in 1 .. Len(st) : new[i] = st[i]
    BY ONLY <1>2, <2>1, AppendIs
  <2>3. new # <<>>
    BY ONLY <2>1, <2>2
  <2>. QED
    BY ONLY <2>2, <2>3
<1>4. StartsIn(new, pos, buf)
  <2>1. Len(new) <= CaptureMax
    BY <1>1, <1>3
  <2>2. ASSUME NEW k \in 1 .. Len(new)
        PROVE  new[k] <= pos /\ \A j \in 1 .. Len(new) : j <= k => new[j] <= new[k]
    <3>1. \A j \in 1 .. Len(new) : new[j] <= pos
      <4> TAKE j \in 1 .. Len(new)
      <4>1. CASE j = Len(st) + 1
        BY <1>1, <1>3, <4>1
      <4>2. CASE j # Len(st) + 1
        <5>1. j \in 1 .. Len(st)
          BY <1>1, <1>3, <4>2
        <5>. QED
          BY <1>1, <1>3, <5>1
      <4>. QED
        BY <4>1, <4>2
    <3>2. CASE k = Len(st) + 1
      BY <1>3, <3>1, <3>2
    <3>3. CASE k # Len(st) + 1
      <4>1. k \in 1 .. Len(st)
        BY <1>1, <1>3, <3>3
      <4>2. \A j \in 1 .. Len(new) : j <= k => j \in 1 .. Len(st)
        BY <1>1, <1>3, <4>1
      <4>. QED
        BY <1>1, <1>3, <3>1, <4>1, <4>2
    <3>. QED
      BY <3>2, <3>3
  <2>. QED
    BY <1>1, <1>3, <2>1, <2>2 DEF StartsIn
<1>5. PICK S : S = CapturesOf(n)
  OBVIOUS
<1>6. PICK top : top = Len(n) + 1
  OBVIOUS
<1>7. PICK m : m = Pushed(n, s)
  OBVIOUS
<1>8. /\ CapturesOf(m) = S \cup {top} /\ m[top] = s /\ top \in Int
      /\ \A i \in S : m[i] = n[i] /\ i < top
  BY <1>5, <1>6, <1>7, KindPush DEF CapturesOf
<1>9. S \subseteq Int /\ IsFiniteSet(S) /\ Cardinality(S) \in Nat
  BY <1>5, KindFinite DEF CapturesOf
<1>10. /\ Cardinality(S \cup {top}) = Cardinality(S) + 1
       /\ NumBelow(S \cup {top}, top) = Cardinality(S)
       /\ \A i \in S : NumBelow(S \cup {top}, i) = NumBelow(S, i)
  BY <1>8, <1>9, BelowLast
<1>11. CapturesIn(n, st, pos) => CapturesIn(m, new, pos)
  <2>1. st = <<>> => new[1] = pos
    BY <1>3, EmptySeq
  <2>2. st # <<>> => new[1] = st[1]
    BY <1>1, <1>3, EmptySeq
  <2>. QED
    BY <1>3, <1>5, <1>8, <1>10, <2>1, <2>2 DEF CapturesIn
<1>12. ASSUME CapturesIn(n, st, pos), TextIn(n, st, pos, buf)
       PROVE  TextIn(m, new, pos, buf)
  <2>1. Len(st) = Cardinality(S)
    BY <1>5, <1>12 DEF CapturesIn
  <2>2. ASSUME NEW i \in S \cup {top}, NEW k, k = NumBelow(S \cup {top}, i) + 1
        PROVE  IsText(m[i].own, buf, new[k], EndOf(k, new, pos))
    <3>1. CASE i = top
      <4>1. k = Len(st) + 1 /\ k = Len(new) /\ m[i].own = <<>>
        BY <1>3, <1>8, <1>10, <2>1, <2>2, <3>1
      <4>2. new[k] = pos /\ EndOf(k, new, pos) = pos
        BY <1>3, <4>1 DEF EndOf
      <4>3. Len(m[i].own) = 0
        BY <4>1
      <4>. QED
        BY <1>1, <4>2, <4>3 DEF IsText
    <3>2. CASE i # top
      <4>1. i \in S /\ k = NumBelow(S, i) + 1
        BY <1>10, <2>2, <3>2
      <4>2. NumBelow(S, i) \in 0 .. Cardinality(S) - 1
        BY <1>9, <4>1, BelowInside
      <4>3. k \in 1 .. Len(st)
        BY <1>9, <2>1, <4>1, <4>2
      <4>4. IsText(n[i].own, buf, st[k], EndOf(k, st, pos))
        BY <1>5, <1>12, <4>1 DEF TextIn
      <4>5. EndOf(k, new, pos) = EndOf(k, st, pos)
        <5>1. k # Len(new) /\ (k # Len(st) => k + 1 \in 1 .. Len(st))
          BY <1>1, <1>3, <4>3
        <5>. QED
          BY <1>3, <5>1 DEF EndOf
      <4>6. m[i] = n[i] /\ new[k] = st[k]
        BY <1>3, <1>8, <4>1, <4>3
      <4>. QED
        BY <4>4, <4>5, <4>6
    <3>. QED
      BY <3>1, <3>2
  <2>. QED
    BY <1>8, <1>12, <2>2 DEF TextIn
<1>. QED
  BY <1>2, <1>4, <1>7, <1>11, <1>12 DEF Captured

\* '$$capture_stop', of the innermost scope.
Stopped(buf, at) == IF buf = <<>> THEN <<>> ELSE [buf EXCEPT ![at + 1] = Nul]

LEMMA StoppedIs ==
  ASSUME NEW B, NEW buf \in Seq(B), Nul \in B, NEW at \in 0 .. Len(buf)
  PROVE  /\ Stopped(buf, at) \in Seq(B) /\ Len(Stopped(buf, at)) = Len(buf) /\ Len(buf) \in Nat
         /\ \A i \in 1 .. Len(buf) : Stopped(buf, at)[i] = IF i = at + 1 THEN Nul ELSE buf[i]
<1>1. Len(buf) \in Nat /\ DOMAIN buf = 1 .. Len(buf) /\ buf \in [1 .. Len(buf) -> B]
  BY LenProperties
<1>2. CASE buf = <<>>
  BY <1>1, <1>2 DEF Stopped
<1>3. CASE buf # <<>>
  <2>1. PICK new : new = [buf EXCEPT ![at + 1] = Nul]
    OBVIOUS
  <2>2. CASE at + 1 \in 1 .. Len(buf)
    <3>1. /\ new \in Seq(B) /\ Len(new) = Len(buf)
          /\ \A i \in 1 .. Len(buf) : new[i] = IF i = at + 1 THEN Nul ELSE buf[i]
      BY <2>1, <2>2, ExceptSeq
    <3>. QED
      BY <1>1, <1>3, <2>1, <3>1 DEF Stopped
  <2>3. CASE at + 1 \notin 1 .. Len(buf)
    <3>1. new = buf
      BY <1>1, <2>1, <2>3
    <3>2. \A i \in 1 .. Len(buf) : i # at + 1
      BY <2>3
    <3>. QED
      BY <1>1, <1>3, <2>1, <3>1, <3>2 DEF Stopped
  <2>. QED
    BY <2>2, <2>3
<1>. QED
  BY <1>2, <1>3

LEMMA StartsStop ==
  ASSUME NEW st, NEW pos, NEW buf, StartsIn(st, pos, buf), st # <<>>
  PROVE  StartsIn(Front(st), Last(st), Stopped(buf, Last(st)))
<1>1. /\ st \in Seq(Nat) /\ CaptureMax \in Nat /\ pos \in Nat /\ Len(st) <= CaptureMax
      /\ buf \in Seq(Outputs \cup {Nul}) /\ pos \in 0 .. Len(buf) /\ Len(buf) \in Nat
      /\ \A k \in 1 .. Len(st) : st[k] <= pos /\ \A j \in 1 .. Len(st) : j <= k => st[j] <= st[k]
  BY LenProperties, BoundsAssumption DEF StartsIn
<1>2. PICK new : new = Front(st)
  OBVIOUS
<1>3. PICK at : at = Last(st)
  OBVIOUS
<1>4. /\ new \in Seq(Nat) /\ Len(new) = Len(st) - 1 /\ Len(st) \in Nat /\ Len(st) >= 1
      /\ \A i \in 1 .. Len(st) - 1 : new[i] = st[i]
      /\ at = st[Len(st)] /\ at \in Nat
  BY <1>1, <1>2, <1>3, FrontOf
<1>5. Len(st) \in 1 .. Len(st) /\ \A k \in 1 .. Len(new) : k \in 1 .. Len(st) /\ k <= Len(st) /\ new[k] = st[k]
  BY <1>4
<1>6. at \in 0 .. Len(buf)
  BY <1>1, <1>4, <1>5
<1>7. PICK buf2 : buf2 = Stopped(buf, at)
  OBVIOUS
<1>8. buf2 \in Seq(Outputs \cup {Nul}) /\ Len(buf2) = Len(buf)
  BY <1>1, <1>6, <1>7, StoppedIs
<1>9. \A k \in 1 .. Len(new) : new[k] <= at /\ \A j \in 1 .. Len(new) : j <= k => new[j] <= new[k]
  BY <1>1, <1>4, <1>5
<1>10. Len(new) <= CaptureMax
  BY <1>1, <1>4
<1>. QED
  BY <1>2, <1>3, <1>4, <1>6, <1>7, <1>8, <1>9, <1>10 DEF StartsIn

LEMMA CapturedStop ==
  ASSUME NEW u, NEW n, NEW st, NEW pos, NEW buf, Captured(u, n, st, pos, buf),
         Nested(n), n # <<>>, n[Len(n)].kind = "capture", st # <<>>
  PROVE  Captured(u, Front(n), Front(st), Last(st), Stopped(buf, Last(st)))
<1>1. /\ st \in Seq(Nat) /\ pos \in Nat /\ StartsIn(st, pos, buf)
      /\ buf \in Seq(Outputs \cup {Nul}) /\ pos \in 0 .. Len(buf) /\ Len(buf) \in Nat
      /\ \A k \in 1 .. Len(st) : st[k] <= pos /\ \A j \in 1 .. Len(st) : j <= k => st[j] <= st[k]
  BY LenProperties DEF Captured, StartsIn
<1>2. PICK new : new = Front(st)
  OBVIOUS
<1>3. PICK at : at = Last(st)
  OBVIOUS
<1>4. /\ new \in Seq(Nat) /\ Len(new) = Len(st) - 1 /\ Len(st) \in Nat /\ Len(st) >= 1
      /\ \A i \in 1 .. Len(st) - 1 : new[i] = st[i]
      /\ at = st[Len(st)] /\ at \in Nat /\ (new = <<>> <=> Len(st) = 1)
  BY <1>1, <1>2, <1>3, FrontOf
<1>5. Len(st) \in 1 .. Len(st)
  BY <1>4
<1>6. at \in 0 .. Len(buf) /\ at <= pos
  BY <1>1, <1>4, <1>5
<1>7. PICK buf2 : buf2 = Stopped(buf, at)
  OBVIOUS
<1>8. /\ Len(buf2) = Len(buf)
      /\ \A i \in 1 .. Len(buf) : buf2[i] = IF i = at + 1 THEN Nul ELSE buf[i]
  BY <1>1, <1>6, <1>7, StoppedIs
<1>9. StartsIn(new, at, buf2)
  BY <1>1, <1>2, <1>3, <1>7, StartsStop
<1>10. PICK m : m = Front(n)
  OBVIOUS
<1>11. PICK S : S = CapturesOf(m)
  OBVIOUS
<1>12. PICK top : top = Len(n)
  OBVIOUS
<1>13. CapturesOf(n) = S \cup {top} /\ \A i \in S : m[i] = n[i] /\ i < top
  BY <1>10, <1>11, <1>12, KindFront DEF CapturesOf
<1>14. Nested(m) /\ top \in Int
  BY <1>10, <1>12, NestedFront, TopIn
<1>15. S \subseteq Int /\ IsFiniteSet(S) /\ Cardinality(S) \in Nat
  BY <1>11, <1>14, KindFinite DEF CapturesOf
<1>16. /\ Cardinality(S \cup {top}) = Cardinality(S) + 1
       /\ NumBelow(S \cup {top}, top) = Cardinality(S)
       /\ \A i \in S : NumBelow(S \cup {top}, i) = NumBelow(S, i)
  <2>1. \A i \in S : i < top
    BY <1>13
  <2>. QED
    BY <1>14, <1>15, <2>1, BelowLast
<1>17. CapturesIn(n, st, pos) => CapturesIn(m, new, at)
  <2>1. new = <<>> => at = st[1]
    BY <1>4
  <2>2. new # <<>> => new[1] = st[1]
    BY <1>4
  <2>3. st[1] = 0 => IF new = <<>> THEN at = 0 ELSE new[1] = 0
    BY <2>1, <2>2
  <2>. QED
    BY <1>4, <1>11, <1>13, <1>15, <1>16, <2>3 DEF CapturesIn
<1>18. ASSUME CapturesIn(n, st, pos), TextIn(n, st, pos, buf)
       PROVE  TextIn(m, new, at, buf2)
  <2>1. Len(st) = Cardinality(S) + 1
    BY <1>13, <1>16, <1>18 DEF CapturesIn
  <2>2. at < Len(buf2) => buf2[at + 1] = Nul
    BY <1>6, <1>8
  <2>3. \A i \in 1 .. at : i \in 1 .. Len(buf) /\ i \in 1 .. pos /\ i # at + 1
    BY <1>1, <1>6
  <2>4. \A i \in 1 .. at : buf2[i] = buf[i] /\ buf[i] \in Outputs
    BY <1>8, <1>18, <2>3 DEF TextIn
  <2>5. ASSUME NEW i \in S, NEW k, k = NumBelow(S, i) + 1
        PROVE  IsText(m[i].own, buf2, new[k], EndOf(k, new, at))
    <3>1. k = NumBelow(CapturesOf(n), i) + 1 /\ i \in CapturesOf(n) /\ m[i] = n[i]
      BY <1>13, <1>16, <2>5
    <3>2. IsText(m[i].own, buf, st[k], EndOf(k, st, pos))
      BY <1>18, <3>1 DEF TextIn
    <3>3. NumBelow(S, i) \in 0 .. Cardinality(S) - 1
      BY <1>15, BelowInside
    <3>4. k \in 1 .. Len(st) - 1 /\ k # Len(st) /\ k + 1 \in 1 .. Len(st)
      BY <1>15, <2>1, <2>5, <3>3
    <3>5. new[k] = st[k] /\ EndOf(k, st, pos) = st[k + 1]
      BY <1>4, <3>4 DEF EndOf
    <3>6. EndOf(k, new, at) = st[k + 1]
      <4>1. CASE k = Len(new)
        BY <1>4, <4>1 DEF EndOf
      <4>2. CASE k # Len(new)
        <5>1. k + 1 \in 1 .. Len(st) - 1
          BY <1>4, <3>4, <4>2
        <5>. QED
          BY <1>4, <4>2, <5>1 DEF EndOf
      <4>. QED
        BY <4>1, <4>2
    <3>7. st[k + 1] <= at /\ st[k] \in Nat /\ st[k + 1] \in Nat
      <4>1. k \in 1 .. Len(st)
        BY <1>4, <3>4
      <4>2. st[k] \in Nat /\ st[k + 1] \in Nat
        BY <1>1, <3>4, <4>1, ElementOfSeq
      <4>3. k + 1 <= Len(st)
        BY <1>4, <3>4
      <4>. QED
        BY <1>1, <1>4, <1>5, <3>4, <4>2, <4>3
    <3>8. Len(m[i].own) = st[k + 1] - st[k] /\ \A d \in 1 .. Len(m[i].own) : m[i].own[d] = buf[st[k] + d]
      BY <3>2, <3>5 DEF IsText
    <3>9. \A d \in 1 .. Len(m[i].own) : st[k] + d \in 1 .. at
      <4>1. PICK a \in Nat, b \in Nat : a = st[k] /\ b = st[k + 1]
        BY <3>7
      <4>2. b <= at /\ Len(m[i].own) = b - a /\ at \in Nat
        BY <1>4, <3>7, <3>8, <4>1
      <4>3. \A d \in 1 .. b - a : a + d \in 1 .. at
        BY ONLY <4>1, <4>2
      <4>. QED
        BY <4>1, <4>2, <4>3
    <3>10. \A d \in 1 .. Len(m[i].own) : m[i].own[d] = buf2[st[k] + d]
      BY <2>4, <3>8, <3>9
    <3>. QED
      BY <3>5, <3>6, <3>8, <3>10 DEF IsText
  <2>. QED
    BY <1>11, <2>2, <2>4, <2>5 DEF TextIn
<1>19. "captures" \in u
  BY <1>13 DEF Captured
<1>. QED
  BY <1>2, <1>3, <1>7, <1>9, <1>10, <1>17, <1>18, <1>19 DEF Captured

\* A capture that nothing stops.
LEMMA CapturedLeft ==
  ASSUME NEW u, NEW n, NEW st, NEW pos, NEW buf, Captured(u, n, st, pos, buf), LeavesCaptures(u), NEW m
  PROVE  Captured(u, m, st, pos, buf)
BY DEF Captured, LeavesCaptures

\* io_write_str.
Written(buf, pos, x) ==
  SubSeq(buf, 1, pos) \o <<x, Nul>> \o SubSeq(buf, pos + 3, Len(buf))

LEMMA WrittenIs ==
  ASSUME NEW B, NEW buf \in Seq(B), Nul \in B, NEW pos \in 0 .. Len(buf), NEW x \in B
  PROVE  /\ Written(buf, pos, x) \in Seq(B) /\ Len(Written(buf, pos, x)) \in Nat
         /\ Len(Written(buf, pos, x)) >= pos + 2
         /\ \A i \in 1 .. pos + 2 :
              Written(buf, pos, x)[i] = IF i <= pos THEN buf[i] ELSE IF i = pos + 1 THEN x ELSE Nul
<1>1. Len(buf) \in Nat /\ pos \in Nat
  BY LenProperties
<1>2. PICK a : a = SubSeq(buf, 1, pos)
  OBVIOUS
<1>3. a \in Seq(B) /\ Len(a) = pos /\ \A i \in 1 .. pos : a[i] = buf[i]
  BY <1>2, PrefixSeq
<1>4. PICK b : b = <<x, Nul>>
  OBVIOUS
<1>5. b \in Seq(B) /\ Len(b) = 2 /\ b[1] = x /\ b[2] = Nul
  BY <1>4
<1>6. PICK c : c = SubSeq(buf, pos + 3, Len(buf))
  OBVIOUS
<1>7. c \in Seq(B) /\ Len(c) \in Nat
  <2>1. pos + 3 \in 1 .. Len(buf) + 1 \/ pos + 3 > Len(buf) + 1
    BY <1>1
  <2>2. \A i \in pos + 3 .. Len(buf) : i \in 1 .. Len(buf)
    BY <1>1
  <2>3. \A i \in pos + 3 .. Len(buf) : buf[i] \in B
    BY <2>2, ElementOfSeq
  <2>4. c \in Seq(B)
    BY <1>1, <1>6, <2>3, SubSeqProperties
  <2>. QED
    BY <2>4, LenProperties
<1>8. PICK ab : ab = a \o b
  OBVIOUS
<1>9. /\ ab \in Seq(B) /\ Len(ab) = pos + 2
      /\ \A i \in 1 .. pos + 2 : ab[i] = IF i <= pos THEN a[i] ELSE b[i - pos]
  <2>1. /\ ab \in Seq(B) /\ Len(ab) = Len(a) + Len(b)
        /\ \A i \in 1 .. Len(a) + Len(b) : ab[i] = IF i <= Len(a) THEN a[i] ELSE b[i - Len(a)]
    BY <1>3, <1>5, <1>8, ConcatProperties
  <2>. QED
    BY <1>3, <1>5, <2>1
<1>10. PICK abc : abc = ab \o c
  OBVIOUS
<1>11. /\ abc \in Seq(B) /\ Len(abc) = pos + 2 + Len(c)
       /\ \A i \in 1 .. pos + 2 : abc[i] = ab[i]
  <2>1. /\ abc \in Seq(B) /\ Len(abc) = Len(ab) + Len(c)
        /\ \A i \in 1 .. Len(ab) + Len(c) : abc[i] = IF i <= Len(ab) THEN ab[i] ELSE c[i - Len(ab)]
    BY <1>7, <1>9, <1>10, ConcatProperties
  <2>. QED
    BY <1>1, <1>7, <1>9, <2>1
<1>12. pos + 1 \in 1 .. pos + 2 /\ pos + 2 \in 1 .. pos + 2 /\ \A i \in 1 .. pos : i \in 1 .. pos + 2 /\ i <= pos
  BY <1>1
<1>13. abc[pos + 1] = x /\ abc[pos + 2] = Nul
  <2>1. abc[pos + 1] = b[pos + 1 - pos] /\ abc[pos + 2] = b[pos + 2 - pos]
    BY <1>1, <1>9, <1>11, <1>12
  <2>2. pos + 1 - pos = 1 /\ pos + 2 - pos = 2
    BY <1>1
  <2>. QED
    BY <1>5, <2>1, <2>2
<1>14. \A i \in 1 .. pos + 2 : i <= pos \/ i = pos + 1 \/ i = pos + 2
  BY <1>1
<1>15. \A i \in 1 .. pos + 2 : i <= pos => i \in 1 .. pos
  BY <1>1
<1>16. ~(pos + 1 <= pos) /\ ~(pos + 2 <= pos) /\ pos + 2 # pos + 1
  BY <1>1
<1>17. \A i \in 1 .. pos + 2 : abc[i] = IF i <= pos THEN buf[i] ELSE IF i = pos + 1 THEN x ELSE Nul
  <2> TAKE i \in 1 .. pos + 2
  <2>1. CASE i <= pos
    BY <1>3, <1>9, <1>11, <1>12, <1>15, <2>1
  <2>2. CASE i = pos + 1
    BY <1>13, <1>16, <2>2
  <2>3. CASE i = pos + 2
    BY <1>13, <1>16, <2>3
  <2>. QED
    BY <1>14, <2>1, <2>2, <2>3
<1>18. Written(buf, pos, x) = abc
  BY <1>2, <1>4, <1>6, <1>8, <1>10 DEF Written
<1>. QED
  BY <1>1, <1>7, <1>11, <1>17, <1>18

LEMMA StartsWrite ==
  ASSUME NEW st, NEW pos, NEW buf, StartsIn(st, pos, buf), NEW x \in Outputs
  PROVE  StartsIn(st, pos + 1, Written(buf, pos, x))
<1>1. /\ st \in Seq(Nat) /\ pos \in Nat /\ Len(st) <= CaptureMax
      /\ buf \in Seq(Outputs \cup {Nul}) /\ pos \in 0 .. Len(buf) /\ Len(buf) \in Nat
      /\ \A k \in 1 .. Len(st) : st[k] <= pos /\ \A j \in 1 .. Len(st) : j <= k => st[j] <= st[k]
  BY LenProperties DEF StartsIn
<1>2. PICK new : new = Written(buf, pos, x)
  OBVIOUS
<1>3. new \in Seq(Outputs \cup {Nul}) /\ Len(new) \in Nat /\ Len(new) >= pos + 2
  <2>1. x \in Outputs \cup {Nul} /\ Nul \in Outputs \cup {Nul}
    OBVIOUS
  <2>2. pos \in 0 .. Len(buf) /\ buf \in Seq(Outputs \cup {Nul})
    BY <1>1
  <2>. QED
    BY ONLY <1>2, <2>1, <2>2, WrittenIs
<1>4. \A k \in 1 .. Len(st) : st[k] \in Nat
  BY <1>1, ElementOfSeq
<1>5. \A k \in 1 .. Len(st) : st[k] <= pos + 1
  BY <1>1, <1>4
<1>6. pos + 1 \in 0 .. Len(new)
  BY <1>1, <1>3
<1>. QED
  BY <1>1, <1>2, <1>3, <1>5, <1>6 DEF StartsIn

\* No scope is captured: what is written goes to a capture that was left behind.
LEMMA CapturedNone ==
  ASSUME NEW u, NEW n, NEW st, NEW pos, NEW buf, Captured(u, n, st, pos, buf), st # <<>>, CapturesOf(n) = {},
         NEW x \in Outputs
  PROVE  Captured(u, n, st, pos + 1, Written(buf, pos, x))
<1>1. StartsIn(st, pos + 1, Written(buf, pos, x))
  BY StartsWrite DEF Captured
<1>2. Len(st) # 0
  BY EmptySeq DEF Captured, StartsIn
<1>3. ~CapturesIn(n, st, pos)
  BY <1>2, FS_EmptySet DEF CapturesIn
<1>. QED
  BY <1>1, <1>3 DEF Captured

\* What is written belongs to the innermost capture.
LEMMA CapturedWrite ==
  ASSUME NEW u, NEW n, NEW st, NEW pos, NEW buf, Captured(u, n, st, pos, buf), st # <<>>,
         Nested(n), NEW k \in CapturesOf(n), \A i \in CapturesOf(n) : i <= k, NEW x \in Outputs,
         NEW s \in Scopes, s.kind = "capture", s.own = Append(n[k].own, x), n[k].own \in Seq(Outputs)
  PROVE  Captured(u, Put(n, k, s), st, pos + 1, Written(buf, pos, x))
<1>1. /\ st \in Seq(Nat) /\ pos \in Nat /\ StartsIn(st, pos, buf) /\ Len(st) \in Nat
      /\ buf \in Seq(Outputs \cup {Nul}) /\ pos \in 0 .. Len(buf) /\ Len(buf) \in Nat
      /\ \A i \in 1 .. Len(st) : st[i] <= pos
  BY LenProperties DEF Captured, StartsIn
<1>2. PICK new : new = Written(buf, pos, x)
  OBVIOUS
<1>3. StartsIn(st, pos + 1, new)
  BY <1>1, <1>2, StartsWrite
<1>4. /\ Len(new) \in Nat /\ Len(new) >= pos + 2
      /\ \A i \in 1 .. pos : new[i] = buf[i]
      /\ \A i \in Nat : (i = pos + 1 => new[i] = x) /\ (i = pos + 2 => new[i] = Nul)
  <2>1. PICK B : B = Outputs \cup {Nul}
    OBVIOUS
  <2>2. x \in B /\ Nul \in B /\ buf \in Seq(B) /\ pos \in 0 .. Len(buf)
    BY <1>1, <2>1
  <2>. DEFINE w == Written(buf, pos, x)
  <2>3. /\ w \in Seq(B) /\ Len(w) \in Nat
        /\ Len(w) >= pos + 2
        /\ \A i \in 1 .. pos + 2 : w[i] = IF i <= pos THEN buf[i] ELSE IF i = pos + 1 THEN x ELSE Nul
    BY <2>2, WrittenIs
  <2>. HIDE DEF w
  <2>4. \A i \in 1 .. pos : i \in 1 .. pos + 2 /\ i <= pos
    BY <1>1
  <2>5. \A i \in Nat : i = pos + 1 => i \in 1 .. pos + 2 /\ ~(i <= pos)
    BY <1>1
  <2>6. \A i \in Nat : i = pos + 2 => i \in 1 .. pos + 2 /\ ~(i <= pos) /\ i # pos + 1
    BY <1>1
  <2>7. new = w
    BY <1>2 DEF w
  <2>. QED
    BY <2>3, <2>4, <2>5, <2>6, <2>7
<1>5. PICK m : m = Put(n, k, s)
  OBVIOUS
<1>6. PICK S : S = CapturesOf(n)
  OBVIOUS
<1>7. k \in 1 .. Len(n) /\ n[k].kind = "capture" /\ k \in S
  BY <1>6, KindFinite DEF CapturesOf
<1>8. CapturesOf(m) = S /\ m[k] = s /\ \A i \in S : i # k => m[i] = n[i]
  BY <1>5, <1>6, <1>7, KindPut DEF CapturesOf
<1>9. S \subseteq Int /\ \A i \in S : i # k => i < k
  BY <1>6, KindFinite DEF CapturesOf
<1>10. CapturesIn(n, st, pos) => CapturesIn(m, st, pos + 1)
  BY <1>6, <1>8, EmptySeq DEF CapturesIn
<1>11. ASSUME CapturesIn(n, st, pos), TextIn(n, st, pos, buf)
       PROVE  TextIn(m, st, pos + 1, new)
  <2>1. Len(st) = Cardinality(S)
    BY <1>6, <1>11 DEF CapturesIn
  <2>2. pos + 1 < Len(new) => new[pos + 1 + 1] = Nul
    <3>1. pos + 1 + 1 = pos + 2 /\ pos + 2 \in Nat
      BY <1>1
    <3>. QED
      BY <1>4, <3>1
  <2>3. \A i \in 1 .. pos + 1 : new[i] \in Outputs
    <3> TAKE i \in 1 .. pos + 1
    <3>1. CASE i = pos + 1
      BY <1>4, <3>1
    <3>2. CASE i # pos + 1
      <4>1. i \in 1 .. pos
        BY <1>1, <3>2
      <4>. QED
        BY <1>4, <1>11, <4>1 DEF TextIn
    <3>. QED
      BY <3>1, <3>2
  <2>4. ASSUME NEW i \in S, NEW p, p = PlaceOf(n, i)
        PROVE  IsText(m[i].own, new, st[p], EndOf(p, st, pos + 1))
    <3>1. p \in 1 .. Len(st) /\ (i < k => p < PlaceOf(n, k)) /\ PlaceOf(n, k) \in 1 .. Len(st)
      BY <1>6, <1>7, <2>1, <2>4, Places
    <3>2. IsText(n[i].own, buf, st[p], EndOf(p, st, pos))
      BY <1>6, <1>11, <2>4 DEF TextIn, PlaceOf
    <3>3. st[p] \in Nat
      BY <1>1, <3>1, ElementOfSeq
    <3>4. CASE i = k
      <4>1. p = Len(st)
        BY <1>6, <2>1, <2>4, <3>4, Places
      <4>2. EndOf(p, st, pos) = pos /\ EndOf(p, st, pos + 1) = pos + 1
        BY <4>1 DEF EndOf
      <4>3. PICK own : own = n[k].own
        OBVIOUS
      <4>4. PICK from : from = st[p]
        OBVIOUS
      <4>5. from \in Nat /\ from <= pos
        BY <1>1, <3>1, <3>3, <4>4
      <4>6. Len(own) = pos - from /\ \A d \in 1 .. Len(own) : own[d] = buf[from + d]
        BY <3>2, <3>4, <4>2, <4>3, <4>4 DEF IsText
      <4>7. /\ Len(s.own) = Len(own) + 1 /\ s.own[Len(own) + 1] = x /\ Len(own) \in Nat
            /\ \A d \in 1 .. Len(own) : s.own[d] = own[d]
        BY <4>3, AppendIs
      <4>8. PICK written : written = s.own
        OBVIOUS
      <4>9. Len(written) = (pos + 1) - from
        <5>1. Len(written) = Len(own) + 1
          BY <4>7, <4>8
        <5>. QED
          BY ONLY <1>1, <4>5, <4>6, <5>1
      <4>10. ASSUME NEW d \in 1 .. Len(written)
             PROVE  written[d] = new[from + d]
        <5>1. CASE d = Len(own) + 1
          <6>1. from + d = pos + 1 /\ from + d \in Nat
            BY <1>1, <4>5, <4>6, <5>1
          <6>. QED
            BY <1>4, <4>7, <4>8, <5>1, <6>1
        <5>2. CASE d # Len(own) + 1
          <6>1. PICK l : l = Len(own)
            OBVIOUS
          <6>2. PICK w : w = Len(written)
            OBVIOUS
          <6>3. l = pos - from /\ w = (pos + 1) - from /\ d \in 1 .. w /\ d # l + 1 /\ pos \in Nat
            BY <1>1, <4>6, <4>9, <5>2, <6>1, <6>2
          <6>4. d \in 1 .. l /\ from + d \in 1 .. pos
            BY ONLY <4>5, <6>3
          <6>5. d \in 1 .. Len(own) /\ from + d \in 1 .. pos
            BY ONLY <6>1, <6>4
          <6>. QED
            BY <1>4, <4>6, <4>7, <4>8, <6>5
        <5>. QED
          BY <5>1, <5>2
      <4>11. PICK end : end = pos + 1
        OBVIOUS
      <4>12. IsText(written, new, from, end)
        BY <4>9, <4>10, <4>11 DEF IsText
      <4>. QED
        BY <1>8, <3>4, <4>2, <4>4, <4>8, <4>11, <4>12
    <3>5. CASE i # k
      <4>1. p + 1 \in 1 .. Len(st) /\ p # Len(st)
        BY <1>1, <1>9, <3>1, <3>5
      <4>2. EndOf(p, st, pos) = st[p + 1] /\ EndOf(p, st, pos + 1) = st[p + 1]
        BY <4>1 DEF EndOf
      <4>3. st[p + 1] \in Nat /\ st[p + 1] <= pos
        BY <1>1, <4>1, ElementOfSeq
      <4>4. PICK own : own = n[i].own
        OBVIOUS
      <4>5. Len(own) = st[p + 1] - st[p] /\ \A d \in 1 .. Len(own) : own[d] = buf[st[p] + d]
        BY <3>2, <4>2, <4>4 DEF IsText
      <4>6. \A d \in 1 .. Len(own) : st[p] + d \in 1 .. pos
        <5>1. PICK a : a = st[p]
          OBVIOUS
        <5>2. PICK b : b = st[p + 1]
          OBVIOUS
        <5>3. PICK l : l = Len(own)
          OBVIOUS
        <5>4. a \in Nat /\ b \in Nat /\ b <= pos /\ l = b - a /\ pos \in Nat
          BY <1>1, <3>3, <4>3, <4>5, <5>1, <5>2, <5>3
        <5>5. \A d \in 1 .. l : a + d \in 1 .. pos
          BY ONLY <5>4
        <5>. QED
          BY ONLY <5>1, <5>3, <5>5
      <4>7. \A d \in 1 .. Len(own) : own[d] = new[st[p] + d]
        BY <1>4, <4>5, <4>6
      <4>. QED
        BY <1>8, <3>5, <4>2, <4>4, <4>5, <4>7 DEF IsText
    <3>. QED
      BY <3>4, <3>5
  <2>5. \A i \in S : PlaceOf(n, i) = NumBelow(S, i) + 1
    BY <1>6 DEF PlaceOf
  <2>. QED
    BY <1>8, <2>2, <2>3, <2>4, <2>5 DEF TextIn
<1>12. "captures" \in u
  BY DEF Captured
<1>. QED
  BY <1>2, <1>3, <1>5, <1>10, <1>11, <1>12 DEF Captured

\* The longjmp to the host.
LEMMA CapturedUnwound ==
  ASSUME NEW u, NEW n, NEW st, NEW pos, NEW buf, Captured(u, n, st, pos, buf), "interrupts" \in u, Nested(n)
  PROVE  Captured(u, <<>>, <<>>, 0, buf)
<1>1. CaptureMax \in Nat /\ buf \in Seq(Outputs \cup {Nul}) /\ Len(buf) \in Nat
  BY BoundsAssumption, LenProperties DEF Captured, StartsIn
<1>2. <<>> \in Seq(Nat) /\ Len(<<>>) = 0
  BY EmptySeq
<1>3. CapturesOf(<<>>) = {} /\ Cardinality(CapturesOf(<<>>)) = 0
  BY <1>2, FS_EmptySet DEF CapturesOf, ScopesIn
<1>4. StartsIn(<<>>, 0, buf)
  BY <1>1, <1>2 DEF StartsIn
<1>5. CapturesIn(<<>>, <<>>, 0)
  BY <1>2, <1>3 DEF CapturesIn
<1>6. CASE "captures" \in u
  BY <1>3, <1>4, <1>5, <1>6 DEF Captured, LeavesText
<1>7. CASE "captures" \notin u
  <2>1. CapturesOf(n) = {} /\ CapturesIn(n, st, pos) /\ TextIn(n, st, pos, buf) /\ st \in Seq(Nat)
    BY <1>7 DEF Captured, LeavesCaptures, LeavesText, StartsIn
  <2>2. st = <<>> /\ pos = 0
    BY <2>1, FS_EmptySet, EmptySeq DEF CapturesIn
  <2>3. TextIn(<<>>, <<>>, 0, buf)
    BY <1>3, <2>1, <2>2 DEF TextIn
  <2>. QED
    BY <1>3, <1>4, <1>5, <2>3 DEF Captured
<1>. QED
  BY <1>6, <1>7

(***************************************************************************)
(* Kinds of steps.                                                         *)
(***************************************************************************)
LEMMA BelowIsFront == Below = Front(nest) /\ Top = nest[Len(nest)]
BY DEF Below, Front, Top

\* A step that changes nothing but nest, ball, and what it says of the rest.
LEMMA DropStep ==
  ASSUME EngineInv, nest # <<>>, nest[Len(nest)].kind \notin {"query", "load", "capture"},
         nest' = Front(nest), ball' \in Balls, UNCHANGED <<uses, capturing, loading>>,
         bags' \in Seq(Seq(Answers)), BagsIn(Front(nest), bags'), ProgramInv'
  PROVE  EngineInv'
<1>1. Nested(nest)
  BY DEF EngineInv, Shape
<1>2. Nested(Front(nest)) /\ TopOK(uses, Front(nest), ball')
  BY <1>1, DropInner
<1>3. Shape'
  BY <1>2 DEF EngineInv, Shape
<1>4. LoadsIn(Front(nest), position, consulting, module, module_saved)
  BY <1>1, LoadsFront DEF EngineInv, LoadsInv
<1>5. LoadsInv'
  BY <1>4 DEF EngineInv, LoadsInv, loading
<1>6. Captured(uses, Front(nest), starts, capture_pos, capture_buf)
  BY <1>1, CapturedFront DEF EngineInv, CapturesInv
<1>7. CapturesInv'
  BY <1>6 DEF CapturesInv, capturing
<1>. QED
  BY <1>3, <1>5, <1>7 DEF EngineInv, BagsInv

LEMMA PushStep ==
  ASSUME EngineInv, ball = NoBall, NEW s \in Scopes, s.kind \notin {"load", "consult"},
         IF nest = <<>> THEN Bottom(s) ELSE Adjacent(nest[Len(nest)], s),
         nest' = Pushed(nest, s), UNCHANGED <<uses, ball, loading, load_error, program>>,
         bags' \in Seq(Seq(Answers)), BagsIn(Pushed(nest, s), bags'),
         Captured(uses, Pushed(nest, s), starts', capture_pos', capture_buf')
  PROVE  EngineInv'
<1>1. Nested(nest) /\ nest \in Seq(Scopes)
  BY DEF EngineInv, Shape, Nested
<1>2. /\ Nested(Pushed(nest, s)) /\ Pushed(nest, s) # <<>>
      /\ Pushed(nest, s)[Len(Pushed(nest, s))] = s
  BY <1>1, NestedPush
<1>3. TopOK(uses, Pushed(nest, s), NoBall)
  BY <1>2 DEF TopOK, NewestOK
<1>4. Shape'
  BY <1>2, <1>3 DEF EngineInv, Shape
<1>5. LoadsIn(Pushed(nest, s), position, consulting, module, module_saved)
  BY <1>1, LoadsPush DEF EngineInv, LoadsInv
<1>6. LoadsInv'
  BY <1>5 DEF EngineInv, LoadsInv, loading
<1>7. ProgramInv'
  BY DEF EngineInv, ProgramInv, program
<1>. QED
  BY <1>4, <1>6, <1>7 DEF EngineInv, BagsInv, CapturesInv

\* A findall or with_output_to gets on.
LEMMA PutStep ==
  ASSUME EngineInv, ball' = NoBall, nest # <<>>, NEW k \in 1 .. Len(nest),
         NEW s \in Scopes, s.kind = nest[k].kind, s.kind \in {"bag", "capture"},
         k < Len(nest) => s.phase = nest[k].phase,
         nest[Len(nest)].kind # "consult" \/ nest[Len(nest)].phase = "loaded",
         nest' = Put(nest, k, s), UNCHANGED <<uses, loading, load_error, program>>,
         bags' \in Seq(Seq(Answers)), BagsIn(Put(nest, k, s), bags'),
         Captured(uses, Put(nest, k, s), starts', capture_pos', capture_buf')
  PROVE  EngineInv'
<1>1. Nested(nest) /\ nest \in Seq(Scopes)
  BY DEF EngineInv, Shape, Nested
<1>2. Alike(s, nest[k])
  BY DEF Alike
<1>3. /\ Nested(Put(nest, k, s)) /\ Put(nest, k, s) # <<>>
      /\ Put(nest, k, s)[Len(Put(nest, k, s))] = IF k = Len(nest) THEN s ELSE nest[Len(nest)]
  BY <1>1, <1>2, NestedPut
<1>4. TopOK(uses, Put(nest, k, s), NoBall)
  BY <1>3 DEF TopOK, NewestOK
<1>5. Shape'
  BY <1>3, <1>4 DEF EngineInv, Shape, Balls, NoBall
<1>6. LoadsIn(Put(nest, k, s), position, consulting, module, module_saved)
  BY <1>1, LoadsPut DEF EngineInv, LoadsInv
<1>7. LoadsInv'
  BY <1>6 DEF EngineInv, LoadsInv, loading
<1>8. ProgramInv'
  BY DEF EngineInv, ProgramInv, program
<1>. QED
  BY <1>5, <1>7, <1>8 DEF EngineInv, BagsInv, CapturesInv

\* What is true of the scope where a goal runs.
LEMMA RunningTop ==
  ASSUME EngineInv, Running
  PROVE  /\ nest # <<>> /\ ball = NoBall /\ Nested(nest) /\ Len(nest) \in 1 .. Len(nest)
         /\ nest[Len(nest)] \in Scopes /\ nest[Len(nest)].kind # "load"
         /\ nest[Len(nest)].kind = "consult" => nest[Len(nest)].phase = "loaded"
<1>1. nest # <<>> /\ ball = NoBall /\ Nested(nest) /\ TopOK(uses, nest, ball)
  BY DEF EngineInv, Shape, Running
<1>. QED
  BY <1>1, TopIn DEF Running, Top, TopOK, NewestOK

LEMMA FreeTop ==
  ASSUME EngineInv, Free, NEW s, s.kind \notin {"load", "query"}
  PROVE  Adjacent(nest[Len(nest)], s)
BY DEF Free, Running, Top, Adjacent

(***************************************************************************)
(* Findalls.                                                               *)
(***************************************************************************)
LEMMA BagOpenKeeps ==
  ASSUME EngineInv, BagOpen
  PROVE  EngineInv'
<1>1. Free /\ Running
  BY DEF BagOpen, Free
<1>2. nest # <<>> /\ ball = NoBall /\ Nested(nest)
  BY <1>1, RunningTop
<1>3. PICK s : s = Bag(Len(bags) + 1)
  OBVIOUS
<1>4. bags \in Seq(Seq(Answers)) /\ BagsIn(nest, bags) /\ Len(bags) \in Nat
  BY LenProperties DEF EngineInv, BagsInv
<1>5. Len(bags) + 1 \in Nat \ {0}
  BY <1>4
<1>6. s \in Scopes /\ s.kind = "bag" /\ s.n = Len(bags) + 1 /\ s.own = <<>>
  BY <1>3, <1>5, NewScopes
<1>7. nest' = Pushed(nest, s) /\ bags' = Append(bags, <<>>)
  BY <1>3 DEF BagOpen, Push, Pushed
<1>8. BagsIn(Pushed(nest, s), Append(bags, <<>>)) /\ Append(bags, <<>>) \in Seq(Seq(Answers))
  BY <1>2, <1>4, <1>6, BagsOpen
<1>9. Captured(uses, Pushed(nest, s), starts, capture_pos, capture_buf)
  BY <1>2, <1>6, CapturedPush DEF EngineInv, CapturesInv
<1>10. Adjacent(nest[Len(nest)], s)
  BY <1>1, <1>6, FreeTop
<1>. QED
  BY <1>2, <1>6, <1>7, <1>8, <1>9, <1>10, PushStep DEF BagOpen, capturing

LEMMA BagAddKeeps ==
  ASSUME EngineInv, NEW a \in Answers, BagAdd(a)
  PROVE  EngineInv'
<1>1. At("bag", "inside") /\ Running
  BY DEF BagAdd, At
<1>2. /\ nest # <<>> /\ ball = NoBall /\ Nested(nest) /\ Len(nest) \in 1 .. Len(nest)
      /\ nest[Len(nest)] \in Scopes /\ nest[Len(nest)].kind = "bag"
  BY <1>1, RunningTop DEF At, Top
<1>3. PICK s : s = [nest[Len(nest)] EXCEPT !.own = Append(@, a)]
  OBVIOUS
<1>4. s \in Scopes /\ s.kind = "bag" /\ s.n = nest[Len(nest)].n /\ s.own = Append(nest[Len(nest)].own, a)
  BY <1>2, <1>3, AnsweredScope
<1>5. bags \in Seq(Seq(Answers)) /\ BagsIn(nest, bags)
  BY DEF EngineInv, BagsInv
<1>6. PICK b : b = [bags EXCEPT ![s.n] = Append(@, a)]
  OBVIOUS
<1>7. s.n \in 1 .. Len(bags) /\ BagsIn(Put(nest, Len(nest), s), b) /\ b \in Seq(Seq(Answers))
  BY <1>2, <1>4, <1>5, <1>6, BagsAdd
<1>8. bags' = b
  BY <1>4, <1>6, <1>7 DEF BagAdd, Top
<1>9. nest' = Put(nest, Len(nest), s)
  BY <1>3 DEF BagAdd, Put
<1>10. Captured(uses, Put(nest, Len(nest), s), starts, capture_pos, capture_buf)
  BY <1>2, <1>4, CapturedPut DEF EngineInv, CapturesInv
<1>11. UNCHANGED <<uses, loading, load_error, program>> /\ ball' = NoBall /\ UNCHANGED capturing
  BY <1>2 DEF BagAdd
<1>12. Captured(uses, Put(nest, Len(nest), s), starts', capture_pos', capture_buf')
  BY <1>10, <1>11 DEF capturing
<1>13. bags' \in Seq(Seq(Answers)) /\ BagsIn(Put(nest, Len(nest), s), bags')
  BY <1>7, <1>8
<1>14. s.kind = nest[Len(nest)].kind /\ s.kind \in {"bag", "capture"} /\ nest[Len(nest)].kind # "consult"
  BY <1>2, <1>4
<1>15. ~(Len(nest) < Len(nest))
  BY <1>2, TopIn
<1>. QED
  BY <1>2, <1>4, <1>9, <1>11, <1>12, <1>13, <1>14, <1>15, PutStep

\* Its own bag and those of findalls inside it that were left go.
LEMMA BagGoes ==
  ASSUME EngineInv, nest # <<>>, nest[Len(nest)].kind = "bag", ball' \in Balls,
         IF Top.n \in 1 .. Len(bags) THEN Drop(Top.n) ELSE UNCHANGED bags,
         nest' = Below, UNCHANGED <<uses, capturing, load_error, loading, program>>
  PROVE  EngineInv'
<1>1. Nested(nest) /\ bags \in Seq(Seq(Answers)) /\ BagsIn(nest, bags)
  BY DEF EngineInv, Shape, BagsInv
<1>2. PICK b : b = SubSeq(bags, 1, nest[Len(nest)].n - 1)
  OBVIOUS
<1>3. nest[Len(nest)].n \in 1 .. Len(bags) /\ BagsIn(Front(nest), b) /\ b \in Seq(Seq(Answers))
  BY <1>1, <1>2, BagsDrop
<1>4. bags' = b
  BY <1>2, <1>3 DEF Drop, Top
<1>5. ProgramInv'
  BY DEF EngineInv, ProgramInv, program
<1>6. nest' = Front(nest)
  BY BelowIsFront
<1>7. bags' \in Seq(Seq(Answers)) /\ BagsIn(Front(nest), bags')
  BY <1>3, <1>4
<1>8. nest[Len(nest)].kind \notin {"query", "load", "capture"}
  OBVIOUS
<1>. QED
  BY <1>5, <1>6, <1>7, <1>8, DropStep

LEMMA BagCollectKeeps ==
  ASSUME EngineInv, BagCollect
  PROVE  EngineInv'
<1>1. Running /\ Top.kind = "bag"
  BY DEF BagCollect, At
<1>2. nest # <<>> /\ nest[Len(nest)].kind = "bag" /\ ball' \in Balls
  BY <1>1, RunningTop DEF Top, BagCollect, EngineInv, Shape
<1>. QED
  BY <1>2, BagGoes DEF BagCollect

LEMMA BagRethrowKeeps ==
  ASSUME EngineInv, BagRethrow
  PROVE  EngineInv'
<1>1. Running /\ Top.kind = "bag"
  BY DEF BagRethrow, At
<1>2. nest # <<>> /\ nest[Len(nest)].kind = "bag" /\ nest[Len(nest)] \in Scopes
  BY <1>1, RunningTop DEF Top
<1>3. nest[Len(nest)].ball \in Balls
  BY <1>2, ScopeKinds DEF BagScopes
<1>4. ball' \in Balls
  BY <1>3 DEF BagRethrow, Top
<1>. QED
  BY <1>2, <1>4, BagGoes DEF BagRethrow

(***************************************************************************)
(* Captures, and the goals of findalls and captures.                       *)
(***************************************************************************)
LEMMA CaptureStartKeeps ==
  ASSUME EngineInv, CaptureStart
  PROVE  EngineInv'
<1>1. Free /\ Running
  BY DEF CaptureStart, Free
<1>2. nest # <<>> /\ ball = NoBall /\ Nested(nest)
  BY <1>1, RunningTop
<1>3. PICK s : s = Capture
  OBVIOUS
<1>4. s \in Scopes /\ s.kind = "capture" /\ s.own = <<>>
  BY <1>3, NewScopes
<1>5. nest' = Pushed(nest, s) /\ starts' = Append(starts, capture_pos)
  BY <1>3 DEF CaptureStart, Push, Pushed
<1>6. bags \in Seq(Seq(Answers)) /\ BagsIn(Pushed(nest, s), bags)
  BY <1>2, <1>4, BagsPush DEF EngineInv, BagsInv
<1>7. Captured(uses, Pushed(nest, s), Append(starts, capture_pos), capture_pos, capture_buf)
  BY <1>2, <1>4, CapturedStart DEF EngineInv, CapturesInv, CaptureStart
<1>8. Adjacent(nest[Len(nest)], s)
  BY <1>1, <1>4, FreeTop
<1>. QED
  BY <1>2, <1>4, <1>5, <1>6, <1>7, <1>8, PushStep DEF CaptureStart

LEMMA WriteKeeps ==
  ASSUME EngineInv, NEW x \in Outputs, Write(x)
  PROVE  EngineInv'
<1>1. Free /\ Running
  BY DEF Write, Free
<1>2. /\ nest # <<>> /\ ball = NoBall /\ Nested(nest) /\ Len(nest) \in 1 .. Len(nest)
      /\ nest[Len(nest)].kind # "consult"
  BY <1>1, RunningTop DEF Free, Top
<1>3. PICK S : S = CapturesOf(nest)
  OBVIOUS
<1>4. /\ S \subseteq Int /\ IsFiniteSet(S) /\ S = {i \in 1 .. Len(nest) : nest[i].kind = "capture"}
      /\ \A i \in S : nest[i] \in Scopes /\ nest[i].kind = "capture" /\ i \in 1 .. Len(nest)
  BY <1>2, <1>3, KindFinite DEF CapturesOf, ScopesIn
<1>5. /\ starts # <<>> /\ starts' = starts /\ capture_pos' = capture_pos + 1
      /\ capture_buf' = Written(capture_buf, capture_pos, x)
      /\ bags' = bags /\ ball' = ball
  BY DEF Write, Written
<1>6. bags \in Seq(Seq(Answers)) /\ BagsIn(nest, bags)
  BY DEF EngineInv, BagsInv
<1>7. CASE S = {}
  <2>1. nest' = nest
    BY <1>4, <1>7 DEF Write
  <2>2. Captured(uses, nest, starts, capture_pos + 1, Written(capture_buf, capture_pos, x))
    BY <1>3, <1>5, <1>7, CapturedNone DEF EngineInv, CapturesInv
  <2>3. CapturesInv'
    BY <1>5, <2>1, <2>2 DEF CapturesInv, Write
  <2>4. Shape' /\ BagsInv' /\ LoadsInv' /\ ProgramInv'
    BY <1>5, <2>1 DEF EngineInv, Shape, BagsInv, LoadsInv, ProgramInv, Write, loading, program
  <2>. QED
    BY <2>3, <2>4 DEF EngineInv
<1>8. CASE S # {}
  <2>1. \E m \in S : \A i \in S : i <= m
    BY <1>4, <1>8, Greatest
  <2>2. PICK k : k = CHOOSE i \in S : \A j \in S : j <= i
    OBVIOUS
  <2>3. k \in S /\ \A j \in S : j <= k
    BY <2>1, <2>2
  <2>4. PICK s : s = [nest[k] EXCEPT !.own = Append(@, x)]
    OBVIOUS
  <2>5. /\ s \in Scopes /\ s.kind = "capture" /\ s.phase = nest[k].phase
        /\ s.own = Append(nest[k].own, x) /\ nest[k].own \in Seq(Outputs)
    BY <1>4, <2>3, <2>4, WrittenScope
  <2>6. nest' = Put(nest, k, s)
    BY <1>4, <1>8, <2>2, <2>4 DEF Write, Put
  <2>7. k \in 1 .. Len(nest) /\ nest[k].kind = "capture"
    BY <1>4, <2>3
  <2>8. BagsIn(Put(nest, k, s), bags)
    BY <1>2, <1>6, <2>5, <2>7, BagsPut
  <2>9. k \in CapturesOf(nest) /\ \A i \in CapturesOf(nest) : i <= k
    BY <1>3, <2>3
  <2>10. Captured(uses, nest, starts, capture_pos, capture_buf)
    BY DEF EngineInv, CapturesInv
  <2>11. Captured(uses, Put(nest, k, s), starts, capture_pos + 1, Written(capture_buf, capture_pos, x))
    BY <1>2, <1>5, <2>5, <2>9, <2>10, CapturedWrite
  <2>12. Captured(uses, Put(nest, k, s), starts', capture_pos', capture_buf')
    BY <1>5, <2>11
  <2>13. bags' \in Seq(Seq(Answers)) /\ BagsIn(Put(nest, k, s), bags')
    BY <1>5, <1>6, <2>8
  <2>14. s.kind = nest[k].kind /\ s.kind \in {"bag", "capture"}
    BY <2>5, <2>7
  <2>15. UNCHANGED <<uses, loading, load_error, program>> /\ ball' = NoBall
    BY <1>2 DEF Write
  <2>. QED
    BY <1>2, <2>5, <2>6, <2>7, <2>12, <2>13, <2>14, <2>15, PutStep
<1>. QED
  BY <1>7, <1>8

\* The capture of the innermost scope is over.
LEMMA StopKeeps ==
  ASSUME EngineInv, nest # <<>>, nest[Len(nest)].kind = "capture", Stop, nest' = Below, ball' \in Balls,
         UNCHANGED <<uses, bags, load_error, loading, program>>
  PROVE  EngineInv'
<1>1. Nested(nest)
  BY DEF EngineInv, Shape
<1>2. nest' = Front(nest)
  BY BelowIsFront
<1>3. Nested(Front(nest)) /\ TopOK(uses, Front(nest), ball')
  BY <1>1, DropInner
<1>4. Shape'
  BY <1>2, <1>3 DEF EngineInv, Shape
<1>5. BagsInv'
  BY <1>1, <1>2, BagsFront DEF EngineInv, BagsInv
<1>6. LoadsIn(Front(nest), position, consulting, module, module_saved)
  BY <1>1, LoadsFront DEF EngineInv, LoadsInv
<1>7. LoadsInv'
  BY <1>2, <1>6 DEF EngineInv, LoadsInv, loading
<1>8. Captured(uses, nest, starts, capture_pos, capture_buf) /\ starts # <<>>
  BY DEF EngineInv, CapturesInv, Stop
<1>9. Captured(uses, Front(nest), Front(starts), Last(starts), Stopped(capture_buf, Last(starts)))
  BY <1>1, <1>8, CapturedStop
<1>10. capture_buf' = Stopped(capture_buf, Last(starts)) /\ starts' = Front(starts) /\ capture_pos' = Last(starts)
  BY DEF Stop, Stopped
<1>11. CapturesInv'
  BY <1>2, <1>9, <1>10 DEF CapturesInv
<1>12. ProgramInv'
  BY DEF EngineInv, ProgramInv, program
<1>. QED
  BY <1>4, <1>5, <1>7, <1>11, <1>12 DEF EngineInv

LEMMA CaptureStopKeeps ==
  ASSUME EngineInv, CaptureStop
  PROVE  EngineInv'
<1>1. Running /\ Top.kind = "capture"
  BY DEF CaptureStop, At
<1>2. nest # <<>> /\ nest[Len(nest)].kind = "capture" /\ ball' \in Balls
  BY <1>1, RunningTop DEF Top, CaptureStop, EngineInv, Shape
<1>. QED
  BY <1>2, StopKeeps DEF CaptureStop

LEMMA CaptureRethrowKeeps ==
  ASSUME EngineInv, CaptureRethrow
  PROVE  EngineInv'
<1>1. Running /\ Top.kind = "capture"
  BY DEF CaptureRethrow, At
<1>2. nest # <<>> /\ nest[Len(nest)].kind = "capture" /\ nest[Len(nest)] \in Scopes
  BY <1>1, RunningTop DEF Top
<1>3. nest[Len(nest)].ball \in Balls
  BY <1>2, ScopeKinds DEF CaptureScopes
<1>4. ball' \in Balls
  BY <1>3 DEF CaptureRethrow, Top
<1>. QED
  BY <1>2, <1>4, StopKeeps DEF CaptureRethrow

\* A findall or with_output_to gets on.
LEMMA GetsOn ==
  ASSUME EngineInv, nest # <<>>, nest[Len(nest)].kind \in {"bag", "capture"},
         NEW s \in Scopes, s.kind = nest[Len(nest)].kind, s.own = nest[Len(nest)].own,
         s.kind = "bag" => s.n = nest[Len(nest)].n,
         nest' = Put(nest, Len(nest), s), ball' = NoBall,
         UNCHANGED <<uses, bags, capturing, load_error, loading, program>>
  PROVE  EngineInv'
<1>1. Nested(nest)
  BY DEF EngineInv, Shape
<1>2. Len(nest) \in 1 .. Len(nest) /\ Len(nest) \in Nat
  BY <1>1, TopIn
<1>3. BagsIn(Put(nest, Len(nest), s), bags)
  BY <1>1, <1>2, BagsPut DEF EngineInv, BagsInv
<1>4. Captured(uses, Put(nest, Len(nest), s), starts, capture_pos, capture_buf)
  BY <1>1, <1>2, CapturedPut DEF EngineInv, CapturesInv
<1>5. bags' \in Seq(Seq(Answers)) /\ BagsIn(Put(nest, Len(nest), s), bags')
  BY <1>3 DEF EngineInv, BagsInv
<1>6. Captured(uses, Put(nest, Len(nest), s), starts', capture_pos', capture_buf')
  BY <1>4 DEF capturing
<1>7. s.kind \in {"bag", "capture"} /\ ~(Len(nest) < Len(nest)) /\ nest[Len(nest)].kind # "consult"
  BY <1>2
<1>. QED
  BY <1>2, <1>5, <1>6, <1>7, PutStep

LEMMA PhaseKeeps ==
  ASSUME EngineInv, NEW k \in {"bag", "capture"}, NEW from, At(k, from), NEW p \in Phases, InPhase(p),
         UNCHANGED <<uses, ball, bags, capturing, load_error, loading, program>>
  PROVE  EngineInv'
<1>1. Running
  BY DEF At
<1>2. nest # <<>> /\ ball = NoBall /\ nest[Len(nest)] \in Scopes /\ nest[Len(nest)].kind \in {"bag", "capture"}
  BY <1>1, RunningTop DEF At, Top
<1>3. PICK s : s = [nest[Len(nest)] EXCEPT !.phase = p]
  OBVIOUS
<1>4. /\ s \in Scopes /\ s.kind = nest[Len(nest)].kind /\ s.own = nest[Len(nest)].own
      /\ s.kind = "bag" => s.n = nest[Len(nest)].n
  BY <1>2, <1>3, PhaseScope
<1>5. nest' = Put(nest, Len(nest), s)
  BY <1>3 DEF InPhase, Put
<1>. QED
  BY <1>2, <1>4, <1>5, GetsOn

LEMMA EnterGoalKeeps ==
  ASSUME EngineInv, EnterGoal
  PROVE  EngineInv'
<1>1. PICK k \in {"bag", "capture"} : At(k, "opened")
  BY DEF EnterGoal
<1>2. "inside" \in Phases
  BY DEF Phases
<1>. QED
  BY <1>1, <1>2, PhaseKeeps DEF EnterGoal

LEMMA LeaveGoalKeeps ==
  ASSUME EngineInv, LeaveGoal
  PROVE  EngineInv'
<1>1. PICK k \in {"bag", "capture"} : At(k, "inside")
  BY DEF LeaveGoal
<1>2. "closed" \in Phases
  BY DEF Phases
<1>. QED
  BY <1>1, <1>2, PhaseKeeps DEF LeaveGoal

LEMMA HandleKeeps ==
  ASSUME EngineInv, Handle
  PROVE  EngineInv'
<1>1. nest # <<>> /\ Nested(nest) /\ ball \in Balls
  BY DEF EngineInv, Shape, TopOK, Handle
<1>2. nest[Len(nest)] \in Scopes /\ nest[Len(nest)].kind \in {"bag", "capture"}
  BY <1>1, TopIn DEF Handle, Top
<1>3. PICK s : s = [nest[Len(nest)] EXCEPT !.phase = "handler", !.ball = ball]
  OBVIOUS
<1>4. /\ s \in Scopes /\ s.kind = nest[Len(nest)].kind /\ s.own = nest[Len(nest)].own
      /\ s.kind = "bag" => s.n = nest[Len(nest)].n
  BY <1>1, <1>2, <1>3, HandlerScope
<1>5. nest' = Put(nest, Len(nest), s)
  BY <1>3 DEF Handle, Put
<1>. QED
  BY <1>1, <1>2, <1>4, <1>5, GetsOn DEF Handle

(***************************************************************************)
(* Queries, catches and exceptions, but for the loads they end.            *)
(***************************************************************************)
LEMMA EmptyNest ==
  ASSUME NEW s \in Scopes
  PROVE  <<s>> = Pushed(<<>>, s) /\ Nested(<<>>) /\ \A kind : ScopesIn(<<>>, kind) = {}
<1>1. <<>> \in Seq(Scopes) /\ Len(<<>>) = 0
  BY EmptySeq
<1>2. \A i : i \notin 1 .. 0
  OBVIOUS
<1>. QED
  BY <1>1, <1>2 DEF Pushed, Nested, ScopesIn

LEMMA StartQueryKeeps ==
  ASSUME EngineInv, StartQuery
  PROVE  EngineInv'
<1>1. PICK s : s = Query
  OBVIOUS
<1>2. s \in Scopes /\ s.kind = "query"
  BY <1>1, NewScopes
<1>3. nest = <<>> /\ nest' = Pushed(nest, s) /\ Nested(nest)
  BY <1>1, <1>2, EmptyNest DEF StartQuery
<1>4. ball = NoBall
  BY <1>3 DEF EngineInv, Shape, TopOK
<1>5. bags \in Seq(Seq(Answers)) /\ BagsIn(Pushed(nest, s), bags)
  BY <1>2, <1>3, BagsPush DEF EngineInv, BagsInv
<1>6. Captured(uses, Pushed(nest, s), starts, capture_pos, capture_buf)
  BY <1>2, <1>3, CapturedPush DEF EngineInv, CapturesInv
<1>7. UNCHANGED <<uses, ball, loading, load_error, program>> /\ UNCHANGED capturing /\ bags' = bags
  BY DEF StartQuery
<1>8. /\ bags' \in Seq(Seq(Answers)) /\ BagsIn(Pushed(nest, s), bags')
      /\ Captured(uses, Pushed(nest, s), starts', capture_pos', capture_buf')
  BY <1>5, <1>6, <1>7 DEF capturing
<1>9. IF nest = <<>> THEN Bottom(s) ELSE Adjacent(nest[Len(nest)], s)
  BY <1>2, <1>3 DEF Bottom
<1>. QED
  BY <1>2, <1>3, <1>4, <1>7, <1>8, <1>9, PushStep

LEMMA EnterCatchKeeps ==
  ASSUME EngineInv, EnterCatch
  PROVE  EngineInv'
<1>1. Free /\ Running
  BY DEF EnterCatch, Free
<1>2. nest # <<>> /\ ball = NoBall /\ Nested(nest)
  BY <1>1, RunningTop
<1>3. PICK s : s = Catch
  OBVIOUS
<1>4. s \in Scopes /\ s.kind = "catch"
  BY <1>3, NewScopes
<1>5. nest' = Pushed(nest, s) /\ UNCHANGED <<uses, ball, loading, load_error, program>> /\ UNCHANGED capturing
      /\ bags' = bags
  BY <1>3 DEF EnterCatch, Push, Pushed
<1>6. bags' \in Seq(Seq(Answers)) /\ BagsIn(Pushed(nest, s), bags')
  BY <1>2, <1>4, <1>5, BagsPush DEF EngineInv, BagsInv
<1>7. Captured(uses, Pushed(nest, s), starts, capture_pos, capture_buf)
  BY <1>2, <1>4, CapturedPush DEF EngineInv, CapturesInv
<1>8. Captured(uses, Pushed(nest, s), starts', capture_pos', capture_buf')
  BY <1>5, <1>7 DEF capturing
<1>9. Adjacent(nest[Len(nest)], s)
  BY <1>1, <1>4, FreeTop
<1>. QED
  BY <1>2, <1>4, <1>5, <1>6, <1>8, <1>9, PushStep

\* A scope goes that kept nothing, or whose bag stays open.
LEMMA GoesKeeps ==
  ASSUME EngineInv, nest # <<>>, nest[Len(nest)].kind \notin {"query", "load", "capture"},
         nest' = Below, ball' \in Balls, UNCHANGED <<uses, bags, capturing, loading>>, ProgramInv'
  PROVE  EngineInv'
<1>1. Nested(nest)
  BY DEF EngineInv, Shape
<1>2. bags' \in Seq(Seq(Answers)) /\ BagsIn(Front(nest), bags')
  BY <1>1, BagsFront DEF EngineInv, BagsInv
<1>3. nest' = Front(nest)
  BY BelowIsFront
<1>. QED
  BY <1>2, <1>3, DropStep

LEMMA RegisterKeeps ==
  ASSUME EngineInv, Register
  PROVE  EngineInv'
<1>1. Running /\ Top.kind = "consult"
  BY DEF Register, At
<1>2. nest # <<>> /\ nest[Len(nest)].kind = "consult" /\ nest[Len(nest)] \in Scopes
  BY <1>1, RunningTop DEF Top
<1>3. Top.file \in Files
  BY <1>2, ScopeKinds DEF Top, Consults
<1>4. ProgramInv'
  BY <1>3 DEF Register, EngineInv, ProgramInv
<1>5. ball' \in Balls
  BY DEF Register, EngineInv, Shape
<1>. QED
  BY <1>2, <1>4, <1>5, GoesKeeps DEF Register

LEMMA LeaveCatchKeeps ==
  ASSUME EngineInv, LeaveCatch
  PROVE  EngineInv'
<1>1. Running /\ Top.kind = "catch"
  BY DEF LeaveCatch, Free
<1>2. nest # <<>> /\ nest[Len(nest)].kind = "catch"
  BY <1>1, RunningTop DEF Top
<1>3. ProgramInv' /\ ball' \in Balls
  BY DEF LeaveCatch, EngineInv, Shape, ProgramInv, program
<1>. QED
  BY <1>2, <1>3, GoesKeeps DEF LeaveCatch

LEMMA TryCatchKeeps ==
  ASSUME EngineInv, TryCatch
  PROVE  EngineInv'
<1>1. nest # <<>> /\ nest[Len(nest)].kind = "catch"
  BY DEF TryCatch, Top, EngineInv, Shape, TopOK
<1>2. ProgramInv' /\ ball' \in Balls
  BY DEF TryCatch, EngineInv, Shape, ProgramInv, program, Balls, NoBall
<1>. QED
  BY <1>1, <1>2, GoesKeeps DEF TryCatch

LEMMA UnwindKeeps ==
  ASSUME EngineInv, Unwind
  PROVE  EngineInv'
<1>1. /\ nest # <<>> /\ ball # NoBall /\ Nested(nest) /\ TopOK(uses, nest, ball)
      /\ nest[Len(nest)].kind \in {"bag", "capture", "consult"} /\ nest[Len(nest)].phase # "inside"
  BY DEF Unwind, Top, EngineInv, Shape, TopOK
<1>2. ProgramInv' /\ ball' \in Balls
  BY DEF Unwind, EngineInv, Shape, ProgramInv, program
<1>3. CASE nest[Len(nest)].kind # "capture"
  BY <1>1, <1>2, <1>3, GoesKeeps DEF Unwind
<1>4. CASE nest[Len(nest)].kind = "capture"
  <2>1. nest' = Front(nest)
    BY BelowIsFront DEF Unwind
  <2>2. Nested(Front(nest)) /\ TopOK(uses, Front(nest), ball)
    BY <1>1, DropInner
  <2>3. Shape'
    BY <1>2, <2>1, <2>2 DEF Unwind, EngineInv, Shape
  <2>4. BagsInv'
    BY <1>1, <2>1, BagsFront DEF Unwind, EngineInv, BagsInv
  <2>5. LoadsIn(Front(nest), position, consulting, module, module_saved)
    BY <1>1, <1>4, LoadsFront DEF EngineInv, LoadsInv
  <2>6. LoadsInv'
    BY <2>1, <2>5 DEF Unwind, EngineInv, LoadsInv, loading
  <2>7. "exhaustion" \in uses
    BY <1>1, <1>4 DEF TopOK, NewestOK
  <2>8. Len(nest) \in CapturesOf(nest)
    BY <1>1, <1>4, TopIn DEF CapturesOf, ScopesIn
  <2>9. Captured(uses, nest, starts, capture_pos, capture_buf)
    BY DEF EngineInv, CapturesInv
  <2>10. "captures" \in uses
    BY <2>8, <2>9 DEF Captured
  <2>11. Captured(uses, Front(nest), starts, capture_pos, capture_buf)
    BY <2>7, <2>9, <2>10, CapturedLeft DEF LeavesCaptures
  <2>12. CapturesInv'
    BY <2>1, <2>11 DEF Unwind, CapturesInv, capturing
  <2>. QED
    BY <1>2, <2>3, <2>4, <2>6, <2>12 DEF EngineInv
<1>. QED
  BY <1>3, <1>4

\* An exception starts.
LEMMA BallKeeps ==
  ASSUME EngineInv, Running, ball' \in Balls,
         Top.kind \in {"capture", "consult"} => Top.phase = "inside" \/ "exhaustion" \in uses,
         UNCHANGED <<uses, nest, bags, capturing, load_error, loading, program>>
  PROVE  EngineInv'
<1>1. /\ nest # <<>> /\ Nested(nest) /\ nest[Len(nest)].kind # "load"
      /\ nest[Len(nest)].kind = "consult" => nest[Len(nest)].phase = "loaded"
  BY RunningTop
<1>2. TopOK(uses, nest, ball')
  BY <1>1 DEF TopOK, NewestOK, Top
<1>3. Shape'
  BY <1>1, <1>2 DEF Shape, EngineInv
<1>4. BagsInv' /\ LoadsInv' /\ CapturesInv' /\ ProgramInv'
  BY DEF EngineInv, BagsInv, LoadsInv, CapturesInv, ProgramInv, capturing, loading, program
<1>. QED
  BY <1>3, <1>4 DEF EngineInv

LEMMA ThrowKeeps ==
  ASSUME EngineInv, Throw
  PROVE  EngineInv'
<1>1. Running /\ (Top.kind = "capture" => Top.phase = "inside") /\ Top.kind # "consult"
  BY DEF Throw, Free
<1>2. ball' \in Balls
  BY DEF Throw, Balls
<1>. QED
  BY <1>1, <1>2, BallKeeps DEF Throw

LEMMA HeapExhaustedKeeps ==
  ASSUME EngineInv, HeapExhausted
  PROVE  EngineInv'
<1>1. ball' \in Balls
  BY DEF HeapExhausted, Balls
<1>. QED
  BY <1>1, BallKeeps DEF HeapExhausted

\* unwound().
LEMMA InterruptKeeps ==
  ASSUME EngineInv, Interrupt
  PROVE  EngineInv'
<1>1. nest' = <<>> /\ ball' = NoBall /\ bags' = <<>> /\ starts' = <<>> /\ capture_pos' = 0 /\ load_error' = None
      /\ position' = None /\ consulting' = None /\ module' = None /\ module_saved' = <<>>
      /\ uses' = uses /\ capture_buf' = capture_buf /\ db' = db /\ consulted' = consulted
  BY DEF Interrupt, program
<1>2. Nested(<<>>) /\ \A kind : ScopesIn(<<>>, kind) = {}
  BY NewScopes, EmptyNest
<1>3. Shape'
  BY <1>1, <1>2 DEF EngineInv, Shape, TopOK, Balls, NoBall
<1>4. Len(<<>>) = 0 /\ \A i : i \notin 1 .. 0
  BY EmptySeq
<1>5. BagsIn(<<>>, <<>>) /\ <<>> \in Seq(Seq(Answers))
  BY <1>4, EmptySeq DEF BagsIn
<1>6. BagsInv'
  BY <1>1, <1>5 DEF BagsInv
<1>7. LoadsIn(<<>>, None, None, None, <<>>)
  BY <1>2, <1>4, FS_EmptySet DEF LoadsIn, LoadsOf, IsAt
<1>8. LoadsInv'
  BY <1>1, <1>7, EmptySeq DEF LoadsInv
<1>9. Captured(uses, <<>>, <<>>, 0, capture_buf)
  BY CapturedUnwound DEF Interrupt, EngineInv, Shape, CapturesInv
<1>10. CapturesInv'
  BY <1>1, <1>9 DEF CapturesInv
<1>11. ProgramInv'
  BY <1>1 DEF EngineInv, ProgramInv
<1>. QED
  BY <1>3, <1>6, <1>8, <1>10, <1>11 DEF EngineInv

(***************************************************************************)
(* Loads.                                                                  *)
(***************************************************************************)
LEMMA InnermostLoad ==
  ASSUME NEW n, Nested(n), NEW p, NEW c, NEW m, NEW saved, LoadsIn(n, p, c, m, saved)
  PROVE  IF LoadsOf(n) = {} THEN p = None /\ c = None /\ m = None
         ELSE \E k \in LoadsOf(n) : Innermost(n, k) /\ IsAt(n, k, p, c, m)
<1>1. PICK L : L = LoadsOf(n)
  OBVIOUS
<1>2. L \subseteq Int /\ IsFiniteSet(L)
  BY <1>1, KindFinite DEF LoadsOf
<1>3. CASE L = {}
  <2>1. Innermost(n, 0)
    BY <1>1, <1>3 DEF Innermost
  <2>2. IsAt(n, 0, p, c, m)
    BY <2>1 DEF LoadsIn
  <2>. QED
    BY <1>1, <1>3, <2>2 DEF IsAt
<1>4. CASE L # {}
  <2>1. PICK k \in L : \A i \in L : i <= k
    BY <1>2, <1>4, Greatest
  <2>2. Innermost(n, k)
    BY <1>1, <2>1 DEF Innermost
  <2>3. IsAt(n, k, p, c, m)
    BY <1>1, <2>1, <2>2 DEF LoadsIn
  <2>. QED
    BY <1>1, <1>4, <2>1, <2>2, <2>3
<1>. QED
  BY <1>3, <1>4

\* What it is at the scope of a load says what is loaded.
LEMMA AtLoad ==
  ASSUME NEW n, Nested(n), NEW k \in LoadsOf(n), NEW p, NEW c, NEW m, IsAt(n, k, p, c, m)
  PROVE  /\ k \in 1 .. Len(n) /\ k \in Nat /\ n[k] \in Scopes /\ n[k].kind = "load"
         /\ n[k].file \in Sources /\ n[k].own.at \in Nat
         /\ p = [text |-> n[k].file, at |-> n[k].own.at] /\ c = NameOf(n[k].file) /\ m = n[k].own.module
         /\ p \in Positions /\ c \in Files \cup {None} /\ m \in Files \cup {None}
<1>1. k \in 1 .. Len(n) /\ k \in Nat /\ n[k] \in Scopes /\ n[k].kind = "load"
  BY KindFinite DEF LoadsOf
<1>2. n[k] \in Loads
  BY <1>1, ScopeKinds
<1>3. n[k].file \in Sources /\ n[k].own \in [at : Nat, module : Files \cup {None}]
  BY <1>2 DEF Loads
<1>4. n[k].own.at \in Nat /\ n[k].own.module \in Files \cup {None}
  BY <1>3
<1>5. k # 0
  BY HostNoLoad
<1>6. p = [text |-> n[k].file, at |-> n[k].own.at] /\ c = NameOf(n[k].file) /\ m = n[k].own.module
  BY <1>5 DEF IsAt
<1>7. p \in Positions
  BY <1>3, <1>4, <1>6 DEF Positions
<1>8. c \in Files \cup {None}
  BY <1>3, <1>6 DEF NameOf, Sources
<1>. QED
  BY <1>1, <1>3, <1>4, <1>6, <1>7, <1>8

LEMMA NowTyped ==
  ASSUME EngineInv
  PROVE  position \in Positions /\ consulting \in Files \cup {None} /\ module \in Files \cup {None}
<1>1. Nested(nest) /\ LoadsIn(nest, position, consulting, module, module_saved)
  BY DEF EngineInv, Shape, LoadsInv
<1>2. CASE LoadsOf(nest) = {}
  <2>1. position = None /\ consulting = None /\ module = None
    BY <1>1, <1>2, InnermostLoad
  <2>. QED
    BY <2>1 DEF Positions
<1>3. CASE LoadsOf(nest) # {}
  <2>1. PICK k \in LoadsOf(nest) : IsAt(nest, k, position, consulting, module)
    BY <1>1, <1>3, InnermostLoad
  <2>. QED
    BY <1>1, <2>1, AtLoad
<1>. QED
  BY <1>2, <1>3

\* A load starts on n.
LEMMA EnterLoadKeeps ==
  ASSUME EngineInv, NEW n, Nested(n), LoadsIn(n, position, consulting, module, module_saved),
         BagsIn(n, bags), Captured(uses, n, starts, capture_pos, capture_buf), ball = NoBall, NEW f \in Sources,
         IF n = <<>> THEN f = Text ELSE n[Len(n)].kind = "consult" /\ n[Len(n)].phase = "loading",
         nest' = Pushed(n, Load(f)), StartLoad(f), UNCHANGED <<uses, ball, bags, capturing>>, ProgramInv'
  PROVE  EngineInv'
<1>1. position \in Positions /\ consulting \in Files \cup {None} /\ module \in Files \cup {None}
  BY NowTyped
<1>2. PICK s : s = Load(f)
  OBVIOUS
<1>3. /\ s \in Scopes /\ s.kind = "load" /\ s.file = f /\ s.position = position /\ s.consulting = consulting
      /\ s.own.at = 1 /\ s.own.module = None
  BY <1>1, <1>2, NewLoad
<1>4. IF n = <<>> THEN Bottom(s) ELSE Adjacent(n[Len(n)], s)
  BY <1>3 DEF Bottom, Adjacent
<1>5. Nested(Pushed(n, s)) /\ Pushed(n, s) # <<>> /\ Pushed(n, s)[Len(Pushed(n, s))] = s
  BY <1>3, <1>4, NestedPush
<1>6. TopOK(uses, Pushed(n, s), NoBall)
  BY <1>3, <1>5 DEF TopOK, NewestOK
<1>7. nest' = Pushed(n, s)
  BY <1>2
<1>8. Shape'
  BY <1>5, <1>6, <1>7 DEF EngineInv, Shape
<1>9. BagsIn(Pushed(n, s), bags)
  BY <1>3, BagsPush
<1>10. BagsInv'
  BY <1>7, <1>9 DEF EngineInv, BagsInv
<1>11. module_saved \in Seq(Files \cup {None})
  BY DEF EngineInv, LoadsInv
<1>12. LoadsIn(Pushed(n, s), [text |-> f, at |-> 1], NameOf(f), None, Append(module_saved, module))
  BY <1>1, <1>3, <1>11, LoadsEnter
<1>13. Append(module_saved, module) \in Seq(Files \cup {None})
  BY <1>1, <1>11, AppendIs
<1>14. LoadsInv'
  BY <1>7, <1>12, <1>13 DEF LoadsInv, StartLoad, NameOf
<1>15. Captured(uses, Pushed(n, s), starts, capture_pos, capture_buf)
  BY <1>3, CapturedPush
<1>16. CapturesInv'
  BY <1>7, <1>15 DEF CapturesInv, capturing
<1>. QED
  BY <1>8, <1>10, <1>14, <1>16 DEF EngineInv

LEMMA LoadStringKeeps ==
  ASSUME EngineInv, LoadString
  PROVE  EngineInv'
<1>1. nest = <<>> /\ nest' = Pushed(nest, Load(Text)) /\ StartLoad(Text)
  BY DEF LoadString, Push, Pushed
<1>2. /\ Nested(nest) /\ BagsIn(nest, bags) /\ LoadsIn(nest, position, consulting, module, module_saved)
      /\ Captured(uses, nest, starts, capture_pos, capture_buf)
  BY DEF EngineInv, Shape, BagsInv, LoadsInv, CapturesInv
<1>3. ball = NoBall
  BY <1>1 DEF EngineInv, Shape, TopOK
<1>4. UNCHANGED <<uses, ball, bags, capturing>> /\ ProgramInv'
  BY DEF LoadString, EngineInv, ProgramInv, program
<1>5. Text \in Sources
  BY DEF Sources
<1>. QED
  BY <1>1, <1>2, <1>3, <1>4, <1>5, EnterLoadKeeps

LEMMA PushedTwice ==
  ASSUME NEW n \in Seq(Scopes), NEW s \in Scopes, NEW t \in Scopes
  PROVE  n \o <<s, t>> = Pushed(Pushed(n, s), t)
<1>1. PICK w : w = <<s, t>>
  OBVIOUS
<1>2. w \in Seq(Scopes) /\ Len(w) = 2 /\ w[1] = s /\ w[2] = t
  BY <1>1
<1>3. Len(n) \in Nat
  BY LenProperties
<1>4. /\ n \o w \in Seq(Scopes) /\ Len(n \o w) = Len(n) + 2
      /\ \A i \in 1 .. Len(n) + 2 : (n \o w)[i] = IF i <= Len(n) THEN n[i] ELSE w[i - Len(n)]
  <2>1. /\ n \o w \in Seq(Scopes) /\ Len(n \o w) = Len(n) + Len(w)
        /\ \A i \in 1 .. Len(n) + Len(w) : (n \o w)[i] = IF i <= Len(n) THEN n[i] ELSE w[i - Len(n)]
    BY <1>2, ConcatProperties
  <2>. QED
    BY <1>2, <2>1
<1>5. PICK a : a = Pushed(n, s)
  OBVIOUS
<1>6. /\ a \in Seq(Scopes) /\ Len(a) = Len(n) + 1 /\ a[Len(n) + 1] = s
      /\ \A i \in 1 .. Len(n) : a[i] = n[i]
  BY <1>5, PushIs
<1>7. /\ Pushed(a, t) \in Seq(Scopes) /\ Len(Pushed(a, t)) = Len(a) + 1 /\ Pushed(a, t)[Len(a) + 1] = t
      /\ \A i \in 1 .. Len(a) : Pushed(a, t)[i] = a[i]
  BY <1>6, PushIs
<1>8. ASSUME NEW i \in 1 .. Len(n) + 2
      PROVE  (n \o w)[i] = Pushed(a, t)[i]
  <2>1. i \in 1 .. Len(n) \/ i = Len(n) + 1 \/ i = Len(n) + 2
    BY <1>3
  <2>2. CASE i \in 1 .. Len(n)
    BY <1>3, <1>4, <1>6, <1>7, <2>2
  <2>3. CASE i = Len(n) + 1
    BY <1>2, <1>3, <1>4, <1>6, <1>7, <2>3
  <2>4. CASE i = Len(n) + 2
    BY <1>2, <1>3, <1>4, <1>6, <1>7, <2>4
  <2>. QED
    BY <2>1, <2>2, <2>3, <2>4
<1>9. Len(n \o w) = Len(Pushed(a, t)) /\ \A i \in 1 .. Len(n \o w) : (n \o w)[i] = Pushed(a, t)[i]
  BY <1>3, <1>4, <1>6, <1>7, <1>8
<1>10. n \o w = Pushed(a, t)
  BY <1>4, <1>7, <1>9, SeqEqual
<1>. QED
  BY <1>1, <1>5, <1>10

LEMMA ConsultFileKeeps ==
  ASSUME EngineInv, NEW f \in Files, ConsultFile(f)
  PROVE  EngineInv'
<1>1. Free /\ Running
  BY DEF ConsultFile, Free
<1>2. nest # <<>> /\ ball = NoBall /\ Nested(nest) /\ nest \in Seq(Scopes)
  BY <1>1, RunningTop DEF Nested
<1>3. PICK s : s = Consult(f)
  OBVIOUS
<1>4. s \in Scopes /\ s.kind = "consult" /\ s.phase = "loading"
  BY <1>3, NewScopes
<1>5. PICK n : n = Pushed(nest, s)
  OBVIOUS
<1>6. Adjacent(nest[Len(nest)], s)
  BY <1>1, <1>4, FreeTop
<1>7. Nested(n) /\ n # <<>> /\ n[Len(n)] = s
  BY <1>2, <1>4, <1>5, <1>6, NestedPush
<1>8. BagsIn(n, bags)
  BY <1>2, <1>4, <1>5, BagsPush DEF EngineInv, BagsInv
<1>9. LoadsIn(n, position, consulting, module, module_saved)
  BY <1>2, <1>4, <1>5, LoadsPush DEF EngineInv, LoadsInv
<1>10. Captured(uses, n, starts, capture_pos, capture_buf)
  BY <1>2, <1>4, <1>5, CapturedPush DEF EngineInv, CapturesInv
<1>11. f \in Sources /\ Load(f) \in Scopes
  BY NowTyped, NewLoad DEF Sources
<1>12. nest' = Pushed(n, Load(f))
  BY <1>2, <1>3, <1>4, <1>5, <1>11, PushedTwice DEF ConsultFile
<1>13. StartLoad(f) /\ UNCHANGED <<uses, ball, bags, capturing>>
  BY DEF ConsultFile
<1>14. ProgramInv'
  <2>1. PICK S : S = {i \in 1 .. Len(db) : db[i].file # f}
    OBVIOUS
  <2>2. db \in Seq([file : Files \cup {None}, item : Nat]) /\ Len(db) \in Nat
    BY LenProperties DEF EngineInv, ProgramInv
  <2>3. IsFiniteSet(1 .. Len(db)) /\ S \subseteq 1 .. Len(db)
    BY <2>1, <2>2, UpTo
  <2>4. S \subseteq Int
    BY <2>2, <2>3
  <2>5. IsFiniteSet(S)
    BY <2>3, FS_Subset
  <2>6. \A i \in S : db[i] \in [file : Files \cup {None}, item : Nat]
    BY <2>2, <2>3, ElementOfSeq
  <2>7. Selected(db, S) \in Seq([file : Files \cup {None}, item : Nat])
    BY <2>4, <2>5, <2>6, SelectedSeq
  <2>. QED
    BY <2>1, <2>7 DEF ConsultFile, EngineInv, ProgramInv
<1>15. n[Len(n)].kind = "consult" /\ n[Len(n)].phase = "loading"
  BY <1>4, <1>7
<1>. QED
  BY <1>2, <1>7, <1>8, <1>9, <1>10, <1>11, <1>12, <1>13, <1>14, <1>15, EnterLoadKeeps

LEMMA NotBeforeItself ==
  ASSUME NEW i \in Nat
  PROVE  ~(i < i)
OBVIOUS

\* consult_nested returns from the load at the top of n.
LEMMA LoadReturnsKeeps ==
  ASSUME EngineInv, NEW n, Nested(n), n # <<>>, n[Len(n)].kind = "load",
         NEW p, LoadsIn(n, p, consulting, module, module_saved),
         BagsIn(n, bags), Captured(uses, n, starts, capture_pos, capture_buf),
         NEW ok \in BOOLEAN, NEW e \in {"load error", None}, LoadReturns(n, ok, e),
         UNCHANGED <<uses, bags, capturing, consulted>>,
         db' \in Seq([file : Files \cup {None}, item : Nat])
  PROVE  EngineInv'
<1>1. PICK below : below = Front(n)
  OBVIOUS
<1>2. Nested(below) /\ (below # <<>> => below[Len(below)].kind = "consult")
  BY <1>1, DropLoad
<1>3. module_saved \in Seq(Files \cup {None})
  BY DEF EngineInv, LoadsInv
<1>4. /\ LoadsIn(below, n[Len(n)].position, n[Len(n)].consulting, Last(module_saved), Front(module_saved))
      /\ module_saved # <<>>
  BY <1>1, <1>3, LoadsLeave
<1>5. position' = n[Len(n)].position /\ consulting' = n[Len(n)].consulting
      /\ module' = Last(module_saved) /\ module_saved' = Front(module_saved)
  <2>1. n \in Seq(Scopes)
    BY DEF Nested
  <2>2. Last(n) = n[Len(n)]
    BY <2>1, FrontOf
  <2>. QED
    BY <2>2 DEF LoadReturns
<1>6. LoadsIn(below, position', consulting', module', module_saved') /\ module_saved' \in Seq(Files \cup {None})
  BY <1>3, <1>4, <1>5, FrontOf
<1>7. BagsIn(below, bags) /\ bags \in Seq(Seq(Answers))
  BY <1>1, BagsFront DEF EngineInv, BagsInv
<1>8. Captured(uses, below, starts, capture_pos, capture_buf)
  BY <1>1, CapturedFront
<1>9. uses \in Uses /\ uses' = uses /\ bags' = bags /\ consulted' = consulted
      /\ starts' = starts /\ capture_pos' = capture_pos /\ capture_buf' = capture_buf
      /\ consulted \subseteq Files
  BY DEF EngineInv, Shape, ProgramInv, capturing
<1>10. /\ Nested(nest') /\ TopOK(uses, nest', ball') /\ ball' \in Balls
       /\ BagsIn(nest', bags) /\ LoadsIn(nest', position', consulting', module', module_saved')
       /\ Captured(uses, nest', starts, capture_pos, capture_buf) /\ load_error' \in {"load error", None}
  <2>1. CASE below = <<>>
    <3>1. nest' = below /\ ball' = NoBall /\ load_error' = e
      BY <1>1, <2>1 DEF LoadReturns
    <3>2. TopOK(uses, below, ball') /\ ball' \in Balls
      BY <2>1, <3>1 DEF TopOK, Balls, NoBall
    <3>. QED
      BY <1>2, <1>6, <1>7, <1>8, <3>1, <3>2
  <2>2. CASE below # <<>> /\ ok
    <3>1. PICK s : s = [below[Len(below)] EXCEPT !.phase = "loaded"]
      OBVIOUS
    <3>2. nest' = Put(below, Len(below), s) /\ ball' = NoBall /\ load_error' = e
      BY <1>1, <2>2, <3>1 DEF LoadReturns, Put
    <3>3. Len(below) \in 1 .. Len(below) /\ Len(below) \in Nat /\ below[Len(below)] \in Scopes
      BY <1>2, <2>2, TopIn
    <3>4. s \in Scopes /\ s.kind = "consult" /\ s.phase = "loaded" /\ s.kind = below[Len(below)].kind
      BY <1>2, <2>2, <3>1, <3>3, LoadedScope
    <3>5. Alike(s, below[Len(below)]) /\ ~(Len(below) < Len(below))
      <4>1. ~(Len(below) < Len(below))
        BY <3>3, NotBeforeItself
      <4>. QED
        BY <3>4, <4>1 DEF Alike
    <3>6. PICK m : m = Put(below, Len(below), s)
      OBVIOUS
    <3>7. Nested(m) /\ m # <<>> /\ m[Len(m)] = s
      BY <1>2, <3>3, <3>4, <3>5, <3>6, NestedPut
    <3>8. TopOK(uses, m, ball') /\ ball' \in Balls
      BY <3>2, <3>4, <3>7 DEF TopOK, NewestOK, Balls, NoBall
    <3>9. BagsIn(m, bags)
      BY <1>2, <1>7, <3>3, <3>4, <3>6, BagsPut
    <3>10. LoadsIn(m, position', consulting', module', module_saved')
      BY <1>2, <1>6, <3>3, <3>4, <3>6, LoadsPut
    <3>11. Captured(uses, m, starts, capture_pos, capture_buf)
      BY <1>2, <1>8, <3>3, <3>4, <3>6, CapturedPut
    <3>. QED
      BY <3>2, <3>6, <3>7, <3>8, <3>9, <3>10, <3>11
  <2>3. CASE below # <<>> /\ ~ok
    <3>1. PICK m : m = Front(below)
      OBVIOUS
    <3>2. nest' = m /\ ball' = e /\ load_error' = None
      BY <1>1, <2>3, <3>1 DEF LoadReturns
    <3>3. below[Len(below)].kind = "consult"
      BY <1>2, <2>3
    <3>4. Nested(m) /\ TopOK(uses, m, ball') /\ ball' \in Balls
      BY <1>2, <2>3, <3>1, <3>2, <3>3, DropInner DEF Balls
    <3>5. BagsIn(m, bags)
      BY <1>2, <1>7, <2>3, <3>1, BagsFront
    <3>6. LoadsIn(m, position', consulting', module', module_saved')
      BY <1>2, <1>6, <2>3, <3>1, <3>3, LoadsFront
    <3>7. Captured(uses, m, starts, capture_pos, capture_buf)
      BY <1>2, <1>8, <2>3, <3>1, <3>3, CapturedFront
    <3>. QED
      BY <3>2, <3>4, <3>5, <3>6, <3>7
  <2>. QED
    BY <2>1, <2>2, <2>3
<1>11. Shape'
  BY <1>9, <1>10 DEF Shape
<1>12. BagsInv' /\ LoadsInv' /\ CapturesInv'
  BY <1>6, <1>7, <1>9, <1>10 DEF BagsInv, LoadsInv, CapturesInv
<1>13. ProgramInv'
  BY <1>9, <1>10 DEF ProgramInv
<1>. QED
  BY <1>11, <1>12, <1>13 DEF EngineInv

\* consult_source after an item.
LEMMA AfterItemKeeps ==
  ASSUME EngineInv, ball = NoBall, NEW n, Nested(n), n # <<>>, n[Len(n)].kind = "load",
         NEW p, LoadsIn(n, p, consulting, module, module_saved),
         BagsIn(n, bags), Captured(uses, n, starts, capture_pos, capture_buf),
         AfterItem(n, p, load_error), UNCHANGED <<uses, bags, capturing, consulted>>,
         db' \in Seq([file : Files \cup {None}, item : Nat])
  PROVE  EngineInv'
<1>1. load_error \in {"load error", None}
  BY DEF EngineInv, ProgramInv
<1>2. CASE load_error # None
  <2>1. LoadReturns(n, FALSE, load_error)
    BY <1>2 DEF AfterItem
  <2>. QED
    BY <1>1, <2>1, LoadReturnsKeeps
<1>3. CASE load_error = None
  <2>1. nest' = n /\ position' = p /\ UNCHANGED <<ball, load_error, consulting, module, module_saved>>
    BY <1>3 DEF AfterItem
  <2>2. TopOK(uses, n, NoBall)
    BY DEF TopOK, NewestOK
  <2>3. Shape'
    BY <2>1, <2>2 DEF EngineInv, Shape
  <2>4. BagsInv' /\ LoadsInv' /\ CapturesInv'
    BY <2>1 DEF EngineInv, BagsInv, LoadsInv, CapturesInv, capturing
  <2>5. ProgramInv'
    BY <2>1 DEF EngineInv, ProgramInv
  <2>. QED
    BY <2>3, <2>4, <2>5 DEF EngineInv
<1>. QED
  BY <1>2, <1>3

\* What a load at the top of nest is at, and the next item of its text.
LEMMA ReadingTop ==
  ASSUME EngineInv, Reading
  PROVE  /\ nest # <<>> /\ ball = NoBall /\ Nested(nest)
         /\ Len(nest) \in LoadsOf(nest) /\ Innermost(nest, Len(nest))
         /\ IsAt(nest, Len(nest), position, consulting, module)
<1>1. nest # <<>> /\ ball = NoBall /\ Nested(nest) /\ nest[Len(nest)].kind = "load"
      /\ LoadsIn(nest, position, consulting, module, module_saved)
  BY DEF EngineInv, Shape, Reading, Top, LoadsInv
<1>2. Len(nest) \in 1 .. Len(nest) /\ Len(nest) \in Nat
  BY <1>1, TopIn
<1>3. Len(nest) \in LoadsOf(nest)
  BY <1>1, <1>2 DEF LoadsOf, ScopesIn
<1>4. Innermost(nest, Len(nest))
  BY <1>2 DEF Innermost, LoadsOf, ScopesIn
<1>5. IsAt(nest, Len(nest), position, consulting, module)
  BY <1>1, <1>3, <1>4 DEF LoadsIn
<1>. QED
  BY <1>1, <1>3, <1>4, <1>5

\* The position moves on in the load and in its history field.
LEMMA ReadsOn ==
  ASSUME EngineInv, Reading
  PROVE  /\ Nested(ReadOn) /\ ReadOn # <<>> /\ ReadOn[Len(ReadOn)].kind = "load"
         /\ LoadsIn(ReadOn, After, consulting, module, module_saved)
         /\ BagsIn(ReadOn, bags) /\ Captured(uses, ReadOn, starts, capture_pos, capture_buf)
<1>1. PICK k : k = Len(nest)
  OBVIOUS
<1>2. /\ nest # <<>> /\ Nested(nest) /\ k \in LoadsOf(nest) /\ Innermost(nest, k)
      /\ IsAt(nest, k, position, consulting, module)
  BY <1>1, ReadingTop
<1>3. /\ k \in 1 .. Len(nest) /\ k \in Nat /\ nest[k] \in Scopes /\ nest[k].kind = "load" /\ nest[k].own.at \in Nat
      /\ position = [text |-> nest[k].file, at |-> nest[k].own.at]
      /\ consulting = NameOf(nest[k].file) /\ module = nest[k].own.module
  BY <1>2, AtLoad
<1>4. PICK s : s = [nest[k] EXCEPT !.own.at = @ + 1]
  OBVIOUS
<1>5. /\ s \in Scopes /\ s.kind = "load" /\ s.file = nest[k].file /\ s.position = nest[k].position
      /\ s.consulting = nest[k].consulting /\ s.own.at = nest[k].own.at + 1 /\ s.own.module = nest[k].own.module
  BY <1>3, <1>4, ReadScope
<1>6. ReadOn = Put(nest, k, s)
  BY <1>1, <1>4 DEF ReadOn, Put
<1>7. PICK m : m = Put(nest, k, s)
  OBVIOUS
<1>8. Alike(s, nest[k]) /\ s.kind \notin {"bag", "capture", "consult"}
  BY <1>3, <1>5 DEF Alike
<1>9. Nested(m) /\ m # <<>> /\ m[Len(m)] = s
  BY <1>1, <1>2, <1>3, <1>5, <1>7, <1>8, NestedPut
<1>10. m[k] = s
  BY <1>2, <1>3, <1>5, <1>7, PutIs DEF Nested
<1>11. After = [text |-> s.file, at |-> s.own.at]
  BY <1>3, <1>5 DEF After
<1>12. IsAt(m, k, After, consulting, module)
  BY <1>3, <1>5, <1>10, <1>11 DEF IsAt
<1>13. LoadsIn(nest, position, consulting, module, module_saved)
  BY DEF EngineInv, LoadsInv
<1>14. LoadsIn(m, After, consulting, module, module_saved)
  BY <1>2, <1>5, <1>7, <1>12, <1>13, LoadsOn
<1>15. BagsIn(nest, bags) /\ Captured(uses, nest, starts, capture_pos, capture_buf)
  BY DEF EngineInv, BagsInv, CapturesInv
<1>16. s.kind = nest[k].kind /\ s.kind # "bag" /\ s.kind # "capture"
  BY <1>3, <1>5
<1>17. BagsIn(m, bags)
  BY <1>2, <1>3, <1>5, <1>7, <1>15, <1>16, BagsPut
<1>18. Captured(uses, m, starts, capture_pos, capture_buf)
  BY <1>2, <1>3, <1>5, <1>7, <1>15, <1>16, CapturedPut
<1>. QED
  BY <1>5, <1>6, <1>7, <1>9, <1>14, <1>17, <1>18

LEMMA ReadClauseKeeps ==
  ASSUME EngineInv, ReadClause
  PROVE  EngineInv'
<1>1. Reading /\ ball = NoBall
  BY DEF ReadClause, Reading
<1>2. PICK n : n = ReadOn
  OBVIOUS
<1>3. PICK p : p = After
  OBVIOUS
<1>4. /\ Nested(n) /\ n # <<>> /\ n[Len(n)].kind = "load" /\ LoadsIn(n, p, consulting, module, module_saved)
      /\ BagsIn(n, bags) /\ Captured(uses, n, starts, capture_pos, capture_buf)
  BY <1>1, <1>2, <1>3, ReadsOn
<1>5. AfterItem(n, p, load_error) /\ UNCHANGED <<uses, bags, capturing, consulted>>
  BY <1>2, <1>3 DEF ReadClause
<1>6. position.at \in Nat /\ consulting \in Files \cup {None}
  <2>1. Nested(nest) /\ Len(nest) \in LoadsOf(nest) /\ IsAt(nest, Len(nest), position, consulting, module)
    BY <1>1, ReadingTop
  <2>2. /\ nest[Len(nest)].own.at \in Nat /\ consulting \in Files \cup {None}
        /\ position = [text |-> nest[Len(nest)].file, at |-> nest[Len(nest)].own.at]
    BY <2>1, AtLoad
  <2>. QED
    BY <2>2
<1>7. [file |-> consulting, item |-> position.at] \in [file : Files \cup {None}, item : Nat]
  BY <1>6
<1>8. db' \in Seq([file : Files \cup {None}, item : Nat])
  BY <1>7, AppendIs DEF ReadClause, EngineInv, ProgramInv
<1>. QED
  BY <1>1, <1>4, <1>5, <1>8, AfterItemKeeps

LEMMA ReadDirectiveKeeps ==
  ASSUME EngineInv, ReadDirective
  PROVE  EngineInv'
<1>1. Reading /\ ball = NoBall
  BY DEF ReadDirective, Reading
<1>2. PICK n : n = ReadOn
  OBVIOUS
<1>3. PICK p : p = After
  OBVIOUS
<1>4. /\ Nested(n) /\ n # <<>> /\ n[Len(n)].kind = "load" /\ LoadsIn(n, p, consulting, module, module_saved)
      /\ BagsIn(n, bags) /\ Captured(uses, n, starts, capture_pos, capture_buf)
  BY <1>1, <1>2, <1>3, ReadsOn
<1>5. PICK s : s = Query
  OBVIOUS
<1>6. s \in Scopes /\ s.kind = "query"
  BY <1>5, NewScopes
<1>7. nest' = Pushed(n, s) /\ position' = p
      /\ UNCHANGED <<uses, ball, bags, capturing, load_error, consulting, module, module_saved, program>>
  BY <1>2, <1>3, <1>5 DEF ReadDirective, Pushed
<1>8. Adjacent(n[Len(n)], s)
  BY <1>4, <1>6 DEF Adjacent
<1>9. Nested(Pushed(n, s)) /\ Pushed(n, s) # <<>> /\ Pushed(n, s)[Len(Pushed(n, s))] = s
  BY <1>4, <1>6, <1>8, NestedPush
<1>10. TopOK(uses, Pushed(n, s), NoBall)
  BY <1>6, <1>9 DEF TopOK, NewestOK
<1>11. Shape'
  BY <1>1, <1>7, <1>9, <1>10 DEF EngineInv, Shape
<1>12. BagsIn(Pushed(n, s), bags)
  BY <1>4, <1>6, BagsPush
<1>13. BagsInv'
  BY <1>7, <1>12 DEF EngineInv, BagsInv
<1>14. LoadsIn(Pushed(n, s), p, consulting, module, module_saved)
  BY <1>4, <1>6, LoadsPush
<1>15. LoadsInv'
  BY <1>7, <1>14 DEF EngineInv, LoadsInv
<1>16. Captured(uses, Pushed(n, s), starts, capture_pos, capture_buf)
  BY <1>4, <1>6, CapturedPush
<1>17. CapturesInv'
  BY <1>7, <1>16 DEF CapturesInv, capturing
<1>18. ProgramInv'
  BY <1>7 DEF EngineInv, ProgramInv, program
<1>. QED
  BY <1>11, <1>13, <1>15, <1>17, <1>18 DEF EngineInv

LEMMA EndLoadKeeps ==
  ASSUME EngineInv, EndLoad
  PROVE  EngineInv'
<1>1. Reading /\ nest # <<>> /\ nest[Len(nest)].kind = "load"
  BY DEF EndLoad, Reading, Top
<1>2. /\ Nested(nest) /\ LoadsIn(nest, position, consulting, module, module_saved)
      /\ BagsIn(nest, bags) /\ Captured(uses, nest, starts, capture_pos, capture_buf)
      /\ load_error \in {"load error", None} /\ db \in Seq([file : Files \cup {None}, item : Nat])
  BY DEF EngineInv, Shape, BagsInv, LoadsInv, CapturesInv, ProgramInv
<1>3. PICK ok \in BOOLEAN : ok = (NextItem = "end")
  OBVIOUS
<1>4. LoadReturns(nest, ok, load_error)
  BY <1>3 DEF EndLoad
<1>5. UNCHANGED <<uses, bags, capturing, consulted>> /\ db' = db
  BY DEF EndLoad, program
<1>. QED
  BY <1>1, <1>2, <1>4, <1>5, LoadReturnsKeeps

LEMMA SetModuleKeeps ==
  ASSUME EngineInv, SetModule
  PROVE  EngineInv'
<1>1. Running /\ Top.kind # "consult" /\ consulting # None
  BY DEF SetModule, Free
<1>2. /\ nest # <<>> /\ ball = NoBall /\ Nested(nest) /\ Len(nest) \in 1 .. Len(nest)
      /\ nest[Len(nest)] \in Scopes /\ nest[Len(nest)].kind \notin {"load", "consult"}
  BY <1>1, RunningTop DEF Top
<1>3. PICK L : L = LoadsOf(nest)
  OBVIOUS
<1>4. LoadsIn(nest, position, consulting, module, module_saved)
  BY DEF EngineInv, LoadsInv
<1>5. L # {} /\ \E i \in L : Innermost(nest, i) /\ IsAt(nest, i, position, consulting, module)
  BY <1>1, <1>2, <1>3, <1>4, InnermostLoad
<1>6. PICK k : k = CHOOSE i \in L : \A j \in L : j <= i
  OBVIOUS
<1>7. L = {i \in 1 .. Len(nest) : nest[i].kind = "load"}
  BY <1>3 DEF LoadsOf, ScopesIn
<1>8. k \in L /\ \A j \in L : j <= k
  BY <1>3, <1>5, <1>6 DEF Innermost
<1>9. k \in LoadsOf(nest) /\ Innermost(nest, k)
  BY <1>3, <1>8 DEF Innermost
<1>10. IsAt(nest, k, position, consulting, module)
  BY <1>4, <1>9 DEF LoadsIn
<1>11. /\ k \in 1 .. Len(nest) /\ k \in Nat /\ nest[k] \in Scopes /\ nest[k].kind = "load" /\ nest[k].file \in Sources
       /\ position = [text |-> nest[k].file, at |-> nest[k].own.at] /\ consulting = NameOf(nest[k].file)
  BY <1>2, <1>9, <1>10, AtLoad
<1>12. nest[k].file \in Files /\ nest[k].file = consulting
  BY <1>1, <1>11 DEF NameOf, Sources
<1>13. PICK s : s = [nest[k] EXCEPT !.own.module = consulting]
  OBVIOUS
<1>14. /\ s \in Scopes /\ s.kind = "load" /\ s.file = nest[k].file /\ s.position = nest[k].position
       /\ s.consulting = nest[k].consulting /\ s.own.at = nest[k].own.at /\ s.own.module = consulting
  <2>1. consulting \in Files
    BY <1>12
  <2>2. LET r == [nest[k] EXCEPT !.own.module = consulting]
        IN  /\ r \in Scopes /\ r.kind = "load" /\ r.file = nest[k].file /\ r.position = nest[k].position
            /\ r.consulting = nest[k].consulting /\ r.own.at = nest[k].own.at /\ r.own.module = consulting
    BY <1>11, <2>1, ModuleScope
  <2>. QED
    BY <1>13, <2>2
<1>15. PICK m : m = Put(nest, k, s)
  OBVIOUS
<1>16. nest' = m
  BY <1>6, <1>7, <1>12, <1>13, <1>15 DEF SetModule, Put
<1>17. Alike(s, nest[k]) /\ s.kind \notin {"bag", "capture", "consult"}
  BY <1>11, <1>14 DEF Alike
<1>18. Nested(m) /\ m # <<>> /\ m[Len(m)] = nest[Len(nest)]
  <2>1. k # Len(nest)
    BY <1>2, <1>11
  <2>. QED
    BY <1>2, <1>11, <1>14, <1>15, <1>17, <2>1, NestedPut
<1>19. m[k] = s
  BY <1>2, <1>11, <1>14, <1>15, PutIs DEF Nested
<1>20. UNCHANGED <<uses, ball, bags, capturing, load_error, position, consulting, module_saved, program>>
       /\ module' = consulting
  BY DEF SetModule
<1>21. IsAt(m, k, position, consulting, consulting)
  BY <1>11, <1>14, <1>19 DEF IsAt
<1>22. LoadsIn(m, position, consulting, consulting, module_saved)
  BY <1>2, <1>4, <1>9, <1>14, <1>15, <1>21, LoadsOn
<1>23. LoadsInv'
  BY <1>16, <1>20, <1>22 DEF EngineInv, LoadsInv
<1>24. TopOK(uses, m, NoBall)
  BY <1>2, <1>18, <1>20 DEF EngineInv, Shape, TopOK
<1>25. Shape'
  BY <1>2, <1>16, <1>18, <1>20, <1>24 DEF EngineInv, Shape
<1>26. s.kind = nest[k].kind /\ s.kind # "bag" /\ s.kind # "capture"
  BY <1>11, <1>14
<1>27. BagsIn(m, bags)
  BY <1>2, <1>11, <1>14, <1>15, <1>26, BagsPut DEF EngineInv, BagsInv
<1>28. BagsInv'
  BY <1>16, <1>20, <1>27 DEF EngineInv, BagsInv
<1>29. Captured(uses, m, starts, capture_pos, capture_buf)
  BY <1>2, <1>11, <1>14, <1>15, <1>26, CapturedPut DEF EngineInv, CapturesInv
<1>30. CapturesInv'
  BY <1>16, <1>20, <1>29 DEF CapturesInv, capturing
<1>31. ProgramInv'
  BY <1>20 DEF EngineInv, ProgramInv, program
<1>. QED
  BY <1>23, <1>25, <1>28, <1>30, <1>31 DEF EngineInv

(***************************************************************************)
(* The end of a query.                                                     *)
(***************************************************************************)
LEMMA BelowQuery ==
  ASSUME EngineInv, nest # <<>>, nest[Len(nest)].kind = "query"
  PROVE  LET n == Front(nest)
         IN  /\ Below = n /\ Nested(n) /\ (n # <<>> => n[Len(n)].kind = "load")
             /\ LoadsIn(n, position, consulting, module, module_saved)
             /\ BagsIn(n, bags) /\ Captured(uses, n, starts, capture_pos, capture_buf)
             /\ TopOK(uses, n, NoBall)
<1>1. Nested(nest)
  BY DEF EngineInv, Shape
<1>2. Nested(Front(nest)) /\ TopOK(uses, Front(nest), NoBall)
      /\ (Front(nest) # <<>> => Front(nest)[Len(Front(nest))].kind = "load")
  BY <1>1, DropQuery
<1>3. LoadsIn(Front(nest), position, consulting, module, module_saved)
  BY <1>1, LoadsFront DEF EngineInv, LoadsInv
<1>4. BagsIn(Front(nest), bags)
  BY <1>1, BagsFront DEF EngineInv, BagsInv
<1>5. Captured(uses, Front(nest), starts, capture_pos, capture_buf)
  BY <1>1, CapturedFront DEF EngineInv, CapturesInv
<1>. QED
  BY <1>2, <1>3, <1>4, <1>5, BelowIsFront

\* A query goes, with no exception left.
LEMMA QueryGoesKeeps ==
  ASSUME EngineInv, nest # <<>>, nest[Len(nest)].kind = "query", nest' = Below, ball' = NoBall,
         UNCHANGED <<uses, bags, capturing, load_error, loading, program>>
  PROVE  EngineInv'
<1>1. PICK n : n = Front(nest)
  OBVIOUS
<1>2. /\ nest' = n /\ Nested(n) /\ TopOK(uses, n, NoBall)
      /\ LoadsIn(n, position, consulting, module, module_saved)
      /\ BagsIn(n, bags) /\ Captured(uses, n, starts, capture_pos, capture_buf)
  BY <1>1, BelowQuery
<1>3. Shape'
  BY <1>2 DEF EngineInv, Shape, Balls, NoBall
<1>4. BagsInv' /\ LoadsInv' /\ CapturesInv' /\ ProgramInv'
  BY <1>2 DEF EngineInv, BagsInv, LoadsInv, CapturesInv, ProgramInv, capturing, loading, program
<1>. QED
  BY <1>3, <1>4 DEF EngineInv

LEMMA QueryReturnsKeeps ==
  ASSUME EngineInv, QueryReturns
  PROVE  EngineInv'
<1>1. Running /\ Top.kind = "query"
  BY DEF QueryReturns, Free
<1>2. nest # <<>> /\ ball = NoBall /\ nest[Len(nest)].kind = "query"
  BY <1>1, RunningTop DEF Top
<1>3. CASE Below = <<>>
  <2>1. nest' = Below /\ UNCHANGED <<ball, uses, bags, capturing, load_error, loading, program>>
    BY <1>3 DEF QueryReturns
  <2>. QED
    BY <1>2, <2>1, QueryGoesKeeps
<1>4. CASE Below # <<>>
  <2>1. PICK n : n = Front(nest)
    OBVIOUS
  <2>2. /\ Below = n /\ Nested(n) /\ n # <<>> /\ n[Len(n)].kind = "load"
        /\ LoadsIn(n, position, consulting, module, module_saved)
        /\ BagsIn(n, bags) /\ Captured(uses, n, starts, capture_pos, capture_buf)
    BY <1>2, <1>4, <2>1, BelowQuery
  <2>3. AfterItem(n, position, load_error) /\ UNCHANGED <<uses, bags, capturing, consulted>> /\ db' = db
    BY <1>4, <2>2 DEF QueryReturns, program
  <2>4. db' \in Seq([file : Files \cup {None}, item : Nat])
    BY <2>3 DEF EngineInv, ProgramInv
  <2>. QED
    BY <1>2, <2>2, <2>3, <2>4, AfterItemKeeps
<1>. QED
  BY <1>3, <1>4

LEMMA UncaughtKeeps ==
  ASSUME EngineInv, Uncaught
  PROVE  EngineInv'
<1>1. nest # <<>> /\ nest[Len(nest)].kind = "query" /\ ball # NoBall /\ ball \in Balls
      /\ load_error \in {"load error", None}
  BY DEF Uncaught, Top, EngineInv, Shape, TopOK, ProgramInv
<1>2. UNCHANGED <<uses, bags, capturing, program>> /\ db' = db /\ consulted' = consulted
  BY DEF Uncaught, program
<1>3. db' \in Seq([file : Files \cup {None}, item : Nat])
  BY <1>2 DEF EngineInv, ProgramInv
<1>4. CASE Below = <<>>
  <2>1. nest' = Below /\ ball' = NoBall /\ UNCHANGED <<load_error, loading>>
    BY <1>4 DEF Uncaught
  <2>. QED
    BY <1>1, <1>2, <2>1, QueryGoesKeeps
<1>5. CASE Below # <<>>
  <2>1. PICK n : n = Front(nest)
    OBVIOUS
  <2>2. /\ Below = n /\ Nested(n) /\ n # <<>> /\ n[Len(n)].kind = "load"
        /\ LoadsIn(n, position, consulting, module, module_saved)
        /\ BagsIn(n, bags) /\ Captured(uses, n, starts, capture_pos, capture_buf)
    BY <1>1, <1>5, <2>1, BelowQuery
  <2>3. ASSUME NEW e \in {"load error", None}, LoadReturns(n, FALSE, e)
        PROVE  EngineInv'
    BY <1>2, <1>3, <2>2, <2>3, LoadReturnsKeeps
  <2>4. CASE ball = "load error"
    BY <1>5, <2>2, <2>3, <2>4 DEF Uncaught
  <2>5. CASE ball # "load error" /\ load_error # None
    BY <1>1, <1>5, <2>2, <2>3, <2>5 DEF Uncaught
  <2>6. CASE ball # "load error" /\ load_error = None
    <3>1. nest' = Below /\ ball' = NoBall /\ UNCHANGED <<load_error, loading>>
      BY <1>5, <2>6 DEF Uncaught
    <3>. QED
      BY <1>1, <1>2, <3>1, QueryGoesKeeps
  <2>. QED
    BY <2>4, <2>5, <2>6
<1>. QED
  BY <1>4, <1>5

(***************************************************************************)
(* The invariant is inductive.                                             *)
(***************************************************************************)
LEMMA InitInv ==
  Init => EngineInv
<1>. SUFFICES ASSUME Init
              PROVE  EngineInv
  OBVIOUS
<1>1. /\ uses \in Uses /\ nest = <<>> /\ ball = NoBall /\ bags = <<>> /\ starts = <<>> /\ capture_pos = 0
      /\ capture_buf = <<>> /\ load_error = None /\ position = None /\ consulting = None /\ module = None
      /\ module_saved = <<>> /\ db = <<>> /\ consulted = {}
  BY DEF Init
<1>2. Nested(<<>>) /\ \A kind : ScopesIn(<<>>, kind) = {}
  BY NewScopes, EmptyNest
<1>3. Len(<<>>) = 0 /\ (\A i : i \notin 1 .. 0) /\ \A S : <<>> \in Seq(S)
  BY EmptySeq
<1>4. Shape
  BY <1>1, <1>2 DEF Shape, TopOK, Balls, NoBall
<1>5. BagsInv
  BY <1>1, <1>3 DEF BagsInv, BagsIn
<1>6. LoadsIn(<<>>, None, None, None, <<>>)
  BY <1>2, <1>3, FS_EmptySet DEF LoadsIn, LoadsOf, IsAt
<1>7. LoadsInv
  BY <1>1, <1>3, <1>6 DEF LoadsInv
<1>8. CapturesOf(<<>>) = {}
  BY <1>2 DEF CapturesOf
<1>9. StartsIn(<<>>, 0, <<>>)
  BY <1>3, BoundsAssumption DEF StartsIn
<1>10. CapturesIn(<<>>, <<>>, 0)
  BY <1>3, <1>8, FS_EmptySet DEF CapturesIn
<1>11. TextIn(<<>>, <<>>, 0, <<>>)
  BY <1>3, <1>8 DEF TextIn
<1>12. CapturesInv
  BY <1>1, <1>8, <1>9, <1>10, <1>11 DEF CapturesInv, Captured
<1>13. ProgramInv
  BY <1>1, <1>3 DEF ProgramInv
<1>. QED
  BY <1>4, <1>5, <1>7, <1>12, <1>13 DEF EngineInv

LEMMA NextInv ==
  EngineInv /\ [Next]_vars => EngineInv'
<1>. SUFFICES ASSUME EngineInv, [Next]_vars
              PROVE  EngineInv'
  OBVIOUS
<1>1. CASE UNCHANGED vars
  BY <1>1 DEF vars, capturing, loading, program, EngineInv, Shape, BagsInv, LoadsInv, CapturesInv, ProgramInv
<1>2. CASE StartQuery \/ LoadString \/ Interrupt
  BY <1>2, StartQueryKeeps, LoadStringKeeps, InterruptKeeps
<1>3. CASE BagOpen \/ (\E a \in Answers : BagAdd(a)) \/ BagCollect \/ BagRethrow
  BY <1>3, BagOpenKeeps, BagAddKeeps, BagCollectKeeps, BagRethrowKeeps
<1>4. CASE CaptureStart \/ (\E x \in Outputs : Write(x)) \/ CaptureStop \/ CaptureRethrow
  BY <1>4, CaptureStartKeeps, WriteKeeps, CaptureStopKeeps, CaptureRethrowKeeps
<1>5. CASE EnterGoal \/ LeaveGoal
  BY <1>5, EnterGoalKeeps, LeaveGoalKeeps
<1>6. CASE (\E f \in Files : ConsultFile(f)) \/ ReadClause \/ ReadDirective \/ EndLoad
  BY <1>6, ConsultFileKeeps, ReadClauseKeeps, ReadDirectiveKeeps, EndLoadKeeps
<1>7. CASE Register \/ SetModule
  BY <1>7, RegisterKeeps, SetModuleKeeps
<1>8. CASE EnterCatch \/ LeaveCatch \/ QueryReturns \/ Throw \/ HeapExhausted
  BY <1>8, EnterCatchKeeps, LeaveCatchKeeps, QueryReturnsKeeps, ThrowKeeps, HeapExhaustedKeeps
<1>9. CASE Handle \/ TryCatch \/ Unwind \/ Uncaught
  BY <1>9, HandleKeeps, TryCatchKeeps, UnwindKeeps, UncaughtKeeps
<1>. QED
  BY <1>1, <1>2, <1>3, <1>4, <1>5, <1>6, <1>7, <1>8, <1>9 DEF Next

LEMMA InvHolds ==
  Spec => []EngineInv
BY InitInv, NextInv, PTL DEF Spec

(***************************************************************************)
(* The clauses of a load in the database.                                  *)
(***************************************************************************)
\* The clauses of f before the item at.
ReadOf(f, at) ==
  Selected([i \in 1 .. Len(Items[f]) |-> i], {i \in 1 .. Len(Items[f]) : Items[f][i] = "clause" /\ i < at})

LEMMA ReadMore ==
  ASSUME NEW f \in Sources, NEW at \in Nat, at >= 1
  PROVE  ReadOf(f, at + 1) = IF at <= Len(Items[f]) /\ Items[f][at] = "clause" THEN Append(ReadOf(f, at), at)
                             ELSE ReadOf(f, at)
<1>1. PICK l : l = Len(Items[f])
  OBVIOUS
<1>2. PICK s : s = [i \in 1 .. l |-> i]
  OBVIOUS
<1>3. PICK S : S = {i \in 1 .. l : Items[f][i] = "clause" /\ i < at}
  OBVIOUS
<1>4. PICK M : M = {i \in 1 .. l : Items[f][i] = "clause" /\ i < at + 1}
  OBVIOUS
<1>5. l \in Nat
  BY <1>1, FilesAssumption, LenProperties
<1>6. S \subseteq Int /\ IsFiniteSet(S) /\ \A i \in S : i < at
  <2>1. IsFiniteSet(1 .. l) /\ S \subseteq 1 .. l
    BY <1>3, <1>5, UpTo
  <2>. QED
    BY <1>3, <1>5, <2>1, FS_Subset
<1>7. ReadOf(f, at) = Selected(s, S) /\ ReadOf(f, at + 1) = Selected(s, M)
  BY <1>1, <1>2, <1>3, <1>4 DEF ReadOf
<1>8. CASE at <= l /\ Items[f][at] = "clause"
  <2>1. at \in 1 .. l
    BY <1>5, <1>8
  <2>2. M = S \cup {at}
    BY <1>3, <1>4, <1>5, <1>8, <2>1
  <2>3. Selected(s, M) = Append(Selected(s, S), s[at])
    <3>1. at \in Int
      OBVIOUS
    <3>. QED
      BY ONLY <1>6, <2>2, <3>1, SelectedLast
  <2>4. s[at] = at
    BY <1>2, <2>1
  <2>. QED
    BY <1>1, <1>7, <1>8, <2>3, <2>4
<1>9. CASE ~(at <= l /\ Items[f][at] = "clause")
  <2>1. M = S
    BY <1>3, <1>4, <1>5, <1>9
  <2>. QED
    BY <1>1, <1>7, <1>9, <2>1
<1>. QED
  BY <1>8, <1>9

LEMMA ReadAll ==
  ASSUME NEW f \in Sources, NEW at \in Nat, at > Len(Items[f])
  PROVE  ReadOf(f, at) = ClausesOf(f)
<1>1. Len(Items[f]) \in Nat
  BY FilesAssumption, LenProperties
<1>2. {i \in 1 .. Len(Items[f]) : Items[f][i] = "clause" /\ i < at}
        = {i \in 1 .. Len(Items[f]) : Items[f][i] = "clause"}
  BY <1>1
<1>. QED
  BY <1>2 DEF ReadOf, ClausesOf

LEMMA NothingSelected ==
  ASSUME NEW s, NEW t
  PROVE  Selected(s, {}) = Selected(t, {})
<1>1. {} \subseteq Int /\ IsFiniteSet({})
  BY FS_EmptySet
<1>. QED
  BY ONLY <1>1, SelectedSame

\* Where the clauses of g are in d.
SlotsOf(d, g) == {i \in 1 .. Len(d) : d[i].file = g}

LEMMA SlotsFinite ==
  ASSUME NEW T, NEW d \in Seq(T), NEW g
  PROVE  /\ SlotsOf(d, g) \subseteq Int /\ IsFiniteSet(SlotsOf(d, g)) /\ Len(d) \in Nat
         /\ \A i \in SlotsOf(d, g) : i \in 1 .. Len(d) /\ i \in Int
<1>1. Len(d) \in Nat
  BY LenProperties
<1>2. IsFiniteSet(1 .. Len(d)) /\ SlotsOf(d, g) \subseteq 1 .. Len(d)
  BY <1>1, UpTo DEF SlotsOf
<1>. QED
  BY <1>1, <1>2, FS_Subset

\* db_unload of f, and what it is to the clauses of a file.
Unloaded(d, f) == Selected(d, {i \in 1 .. Len(d) : d[i].file # f})

LEMMA ClausesUnloaded ==
  ASSUME NEW T, NEW d \in Seq(T), NEW f, NEW g
  PROVE  ClausesIn(Unloaded(d, f), g) = IF g = f THEN Selected(<<>>, {}) ELSE ClausesIn(d, g)
<1>. PICK K : K = {i \in 1 .. Len(d) : d[i].file # f}
  OBVIOUS
<1>. PICK e : e = Selected(d, K)
  OBVIOUS
<1>1. Len(d) \in Nat /\ K \subseteq 1 .. Len(d)
  BY LenProperties
<1>2. K \subseteq Int /\ IsFiniteSet(K)
  <2>1. IsFiniteSet(1 .. Len(d))
    BY <1>1, UpTo
  <2>. QED
    BY <1>1, <2>1, FS_Subset
<1>3. Len(e) = Cardinality(K) /\ Cardinality(K) \in Nat
  BY ONLY <1>2, e = Selected(d, K), SelectedLen
<1>4. PICK pos : pos = [i \in K |-> NumBelow(K, i) + 1]
  OBVIOUS
<1>5. \A i \in K : pos[i] \in 1 .. Len(e) /\ e[pos[i]] = d[i]
  <2> TAKE i \in K
  <2>1. NumBelow(K, i) + 1 \in 1 .. Cardinality(K) /\ Selected(d, K)[NumBelow(K, i) + 1] = d[i]
    BY ONLY <1>2, i \in K, SelectedOf
  <2>. QED
    BY <1>3, <1>4, <2>1
<1>6. \A i, k \in K : i < k => pos[i] < pos[k]
  <2> TAKE i, k \in K
  <2>1. NumBelow(K, i) \in Int /\ NumBelow(K, k) \in Int
    <3>1. NumBelow(K, i) \in 0 .. Cardinality(K) - 1 /\ NumBelow(K, k) \in 0 .. Cardinality(K) - 1
      BY ONLY <1>2, i \in K, k \in K, BelowInside
    <3>. QED
      BY ONLY <3>1
  <2>2. i < k => NumBelow(K, i) < NumBelow(K, k)
    BY ONLY <1>2, i \in K, k \in K, BelowStrict
  <2>. QED
    BY <1>4, <2>1, <2>2
<1>7. \A m \in 1 .. Len(e) : \E i \in K : m = pos[i]
  <2> TAKE m \in 1 .. Len(e)
  <2>1. PICK i : i = Nth(K, m)
    OBVIOUS
  <2>2. i \in K /\ NumBelow(K, i) = m - 1
    <3>1. m \in 1 .. Cardinality(K)
      BY ONLY <1>3, m \in 1 .. Len(e)
    <3>. QED
      BY ONLY <1>2, <2>1, <3>1, NthIs
  <2>3. pos[i] = m - 1 + 1
    BY ONLY <1>4, <2>2
  <2>4. m - 1 + 1 = m
    BY ONLY <1>3, m \in 1 .. Len(e)
  <2>. QED
    BY ONLY <2>2, <2>3, <2>4
<1>8. \A m \in 1 .. Len(e) : e[m].file # f
  <2> TAKE m \in 1 .. Len(e)
  <2>1. PICK i \in K : m = pos[i]
    BY ONLY <1>7, m \in 1 .. Len(e)
  <2>2. e[m] = d[i]
    BY ONLY <1>5, <2>1
  <2>3. d[i].file # f
    OBVIOUS
  <2>. QED
    BY ONLY <2>2, <2>3
<1>9. ClausesIn(e, f) = Selected(<<>>, {})
  <2>1. {m \in 1 .. Len(e) : e[m].file = f} = {}
    BY <1>8
  <2>2. ClausesIn(e, f) = Selected([i \in 1 .. Len(e) |-> e[i].item], {})
    BY <2>1 DEF ClausesIn
  <2>. QED
    BY <2>2, NothingSelected
<1>10. ASSUME g # f
       PROVE  ClausesIn(e, g) = ClausesIn(d, g)
  <2>1. PICK S : S = {i \in 1 .. Len(d) : d[i].file = g}
    OBVIOUS
  <2>2. PICK M : M = {m \in 1 .. Len(e) : e[m].file = g}
    OBVIOUS
  <2>3. PICK s : s = [i \in 1 .. Len(d) |-> d[i].item]
    OBVIOUS
  <2>4. PICK t : t = [m \in 1 .. Len(e) |-> e[m].item]
    OBVIOUS
  <2>5. S \subseteq K /\ \A i \in K : i \in S <=> d[i].file = g
    BY <1>1, <1>10, <2>1
  <2>6. \A i \in S : i \in Int
    BY <1>2, <2>5
  <2>7. IsFiniteSet(S)
    BY <1>2, <2>5, FS_Subset
  <2>8. ASSUME NEW i \in S
        PROVE  pos[i] \in Int /\ pos[i] \in M /\ t[pos[i]] = s[i]
    <3>1. i \in K /\ i \in 1 .. Len(d) /\ d[i].file = g
      BY <1>1, <2>5
    <3>2. pos[i] \in 1 .. Len(e) /\ e[pos[i]] = d[i]
      BY <1>5, <3>1
    <3>3. PICK p : p = pos[i]
      OBVIOUS
    <3>4. p \in 1 .. Len(e) /\ e[p] = d[i]
      BY <3>2, <3>3
    <3>5. p \in M /\ t[p] = e[p].item /\ s[i] = d[i].item /\ p \in Int
      BY ONLY <2>2, <2>3, <2>4, <3>1, <3>4
    <3>. QED
      BY ONLY <3>3, <3>4, <3>5
  <2>9. \A m \in M : \E i \in S : m = pos[i]
    <3> TAKE m \in M
    <3>1. m \in 1 .. Len(e) /\ e[m].file = g
      BY <2>2
    <3>2. PICK i \in K : m = pos[i]
      BY <1>7, <3>1
    <3>3. d[i].file = g
      BY <1>5, <3>1, <3>2
    <3>. QED
      BY <2>5, <3>2, <3>3
  <2>10. \A i, k \in S : i < k => pos[i] < pos[k]
    BY <1>6, <2>5
  <2>11. Carries(pos, S, s, M, t)
    BY ONLY <2>8, <2>9, <2>10 DEF Carries
  <2>12. Selected(t, M) = Selected(s, S)
    BY ONLY <2>6, <2>7, <2>11, SelectedMoved
  <2>. QED
    BY ONLY <2>1, <2>2, <2>3, <2>4, <2>12 DEF ClausesIn
<1>. QED
  BY <1>9, <1>10 DEF Unloaded

\* assert_clause at the end.
LEMMA ClausesAdded ==
  ASSUME NEW T, NEW d \in Seq(T), NEW r \in T, NEW g
  PROVE  ClausesIn(Append(d, r), g) = IF r.file = g THEN Append(ClausesIn(d, g), r.item) ELSE ClausesIn(d, g)
<1>1. PICK e : e = Append(d, r)
  OBVIOUS
<1>2. PICK l : l = Len(d)
  OBVIOUS
<1>3. l \in Nat /\ Len(e) = l + 1 /\ e[l + 1] = r /\ \A i \in 1 .. l : e[i] = d[i]
  BY <1>1, <1>2, LenProperties, AppendProperties
<1>4. PICK S : S = {i \in 1 .. l : d[i].file = g}
  OBVIOUS
<1>5. PICK M : M = {i \in 1 .. l + 1 : e[i].file = g}
  OBVIOUS
<1>6. PICK s : s = [i \in 1 .. l |-> d[i].item]
  OBVIOUS
<1>7. PICK t : t = [i \in 1 .. l + 1 |-> e[i].item]
  OBVIOUS
<1>8. S \subseteq Int /\ IsFiniteSet(S) /\ (\A i \in S : i < l + 1) /\ l + 1 \in Int
  <2>1. IsFiniteSet(1 .. l)
    BY <1>3, UpTo
  <2>2. S \subseteq 1 .. l /\ l \in Nat
    BY <1>3, <1>4
  <2>3. IsFiniteSet(S)
    BY ONLY <2>1, <2>2, FS_Subset
  <2>. QED
    BY ONLY <2>2, <2>3
<1>9. \A i \in S : t[i] = s[i]
  BY <1>3, <1>4, <1>6, <1>7
<1>10. Selected(t, S) = Selected(s, S)
  BY ONLY <1>8, <1>9, SelectedSame
<1>11. ClausesIn(d, g) = Selected(s, S) /\ ClausesIn(e, g) = Selected(t, M)
  BY <1>2, <1>3, <1>4, <1>5, <1>6, <1>7 DEF ClausesIn
<1>12. \A i \in 1 .. l + 1 : i \in 1 .. l \/ i = l + 1
  BY <1>3
<1>13. CASE r.file = g
  <2>1. M = S \cup {l + 1}
    BY <1>3, <1>4, <1>5, <1>12, <1>13
  <2>2. Selected(t, M) = Append(Selected(t, S), t[l + 1])
    BY ONLY <1>8, <2>1, SelectedLast
  <2>3. t[l + 1] = r.item
    BY <1>3, <1>7
  <2>. QED
    BY <1>1, <1>10, <1>11, <1>13, <2>2, <2>3
<1>14. CASE r.file # g
  <2>1. M = S
    BY <1>3, <1>4, <1>5, <1>12, <1>14
  <2>. QED
    BY <1>1, <1>10, <1>11, <1>14, <2>1
<1>. QED
  BY <1>13, <1>14

(***************************************************************************)
(* The loads that a step leaves.                                           *)
(***************************************************************************)
\* The loads of m are some of those of n, where they were.
Fewer(m, n) ==
  \A i \in LoadsOf(m) : i \in LoadsOf(n) /\ m[i].file = n[i].file /\ m[i].own.at = n[i].own.at

LEMMA FewerFront ==
  ASSUME NEW n, Nested(n), n # <<>>
  PROVE  Fewer(Front(n), n)
<1>1. /\ \A i \in LoadsOf(Front(n)) : i \in LoadsOf(n)
      /\ \A i \in LoadsOf(Front(n)) : Front(n)[i] = n[i]
  BY KindFront DEF LoadsOf
<1>. QED
  BY <1>1 DEF Fewer

LEMMA FewerPush ==
  ASSUME NEW n, Nested(n), NEW s \in Scopes, s.kind # "load"
  PROVE  Fewer(Pushed(n, s), n)
<1>1. LoadsOf(Pushed(n, s)) = LoadsOf(n) /\ \A i \in LoadsOf(n) : Pushed(n, s)[i] = n[i]
  BY KindPush DEF LoadsOf
<1>. QED
  BY <1>1 DEF Fewer

LEMMA FewerPut ==
  ASSUME NEW n, Nested(n), NEW k \in 1 .. Len(n), NEW s \in Scopes, s.kind = n[k].kind,
         s.kind = "load" => s.file = n[k].file /\ s.own.at = n[k].own.at
  PROVE  Fewer(Put(n, k, s), n)
<1>1. PICK m : m = Put(n, k, s)
  OBVIOUS
<1>2. LoadsOf(m) = LoadsOf(n) /\ (\A i \in LoadsOf(n) : i # k => m[i] = n[i]) /\ m[k] = s
  BY <1>1, KindPut DEF LoadsOf
<1>3. \A i \in LoadsOf(n) : n[i].kind = "load"
  BY DEF LoadsOf, ScopesIn
<1>. QED
  BY <1>1, <1>2, <1>3 DEF Fewer

LEMMA FewerSame ==
  ASSUME NEW n
  PROVE  Fewer(n, n)
BY DEF Fewer

LEMMA FewerNone ==
  ASSUME NEW n
  PROVE  Fewer(<<>>, n)
BY NewScopes, EmptyNest DEF Fewer, LoadsOf

LEMMA FewerYet ==
  ASSUME NEW l, NEW m, NEW n, Fewer(l, m), Fewer(m, n)
  PROVE  Fewer(l, n)
BY DEF Fewer

\* A load returns, and with it the consult/1 that it serves, if it fails.
LEMMA FewerReturned ==
  ASSUME NEW n, Nested(n), n # <<>>, n[Len(n)].kind = "load", NEW ok \in BOOLEAN, NEW e, LoadReturns(n, ok, e)
  PROVE  Fewer(nest', n)
<1>1. PICK below : below = Front(n)
  OBVIOUS
<1>2. Nested(below) /\ (below # <<>> => below[Len(below)].kind = "consult")
  BY <1>1, DropLoad
<1>3. Fewer(below, n)
  BY <1>1, FewerFront
<1>4. CASE below = <<>>
  <2>1. nest' = <<>>
    BY <1>1, <1>4 DEF LoadReturns
  <2>. QED
    BY <2>1, FewerNone
<1>5. CASE below # <<>> /\ ok
  <2>1. PICK s : s = [below[Len(below)] EXCEPT !.phase = "loaded"]
    OBVIOUS
  <2>2. nest' = Put(below, Len(below), s)
    BY <1>1, <1>5, <2>1 DEF LoadReturns, Put
  <2>3. Len(below) \in 1 .. Len(below) /\ below[Len(below)] \in Scopes
    BY <1>2, <1>5, TopIn
  <2>4. s \in Scopes /\ s.kind = "consult" /\ s.kind = below[Len(below)].kind
    BY <1>2, <1>5, <2>1, <2>3, LoadedScope
  <2>5. Fewer(nest', below)
    BY <1>2, <2>2, <2>3, <2>4, FewerPut
  <2>. QED
    BY <1>3, <2>5, FewerYet
<1>6. CASE below # <<>> /\ ~ok
  <2>1. nest' = Front(below)
    BY <1>1, <1>6 DEF LoadReturns
  <2>2. Fewer(nest', below)
    BY <1>2, <1>6, <2>1, FewerFront
  <2>. QED
    BY <1>3, <2>2, FewerYet
<1>. QED
  BY <1>4, <1>5, <1>6

LEMMA FewerAfter ==
  ASSUME NEW n, Nested(n), n # <<>>, n[Len(n)].kind = "load", NEW p, AfterItem(n, p, load_error)
  PROVE  Fewer(nest', n)
<1>1. CASE load_error # None
  BY <1>1, FewerReturned DEF AfterItem
<1>2. CASE load_error = None
  BY <1>2, FewerSame DEF AfterItem
<1>. QED
  BY <1>1, <1>2

\* The steps that start no load and read nothing.
Quiet == db' = db /\ Fewer(nest', nest)

LEMMA QuietDrop ==
  ASSUME EngineInv, nest # <<>>, nest' = Below, db' = db
  PROVE  Quiet
BY FewerFront, BelowIsFront DEF Quiet, EngineInv, Shape

LEMMA QuietPush ==
  ASSUME EngineInv, NEW s \in Scopes, s.kind # "load", nest' = Pushed(nest, s), db' = db
  PROVE  Quiet
BY FewerPush DEF Quiet, EngineInv, Shape

LEMMA QuietTop ==
  ASSUME EngineInv, nest # <<>>, nest[Len(nest)].kind \in {"bag", "capture"},
         NEW s \in Scopes, s.kind = nest[Len(nest)].kind, nest' = Put(nest, Len(nest), s), db' = db
  PROVE  Quiet
<1>1. Nested(nest) /\ Len(nest) \in 1 .. Len(nest)
  BY TopIn DEF EngineInv, Shape
<1>2. Fewer(Put(nest, Len(nest), s), nest)
  BY <1>1, FewerPut
<1>. QED
  BY <1>2 DEF Quiet

LEMMA BagsQuiet ==
  ASSUME EngineInv, BagOpen \/ (\E a \in Answers : BagAdd(a)) \/ BagCollect \/ BagRethrow
  PROVE  Quiet
<1>1. CASE BagOpen
  <2>1. PICK k : k = Len(bags) + 1
    OBVIOUS
  <2>2. k \in Nat \ {0}
    BY <2>1, LenProperties DEF EngineInv, BagsInv
  <2>3. PICK s : s = Bag(k)
    OBVIOUS
  <2>4. s \in Scopes /\ s.kind = "bag"
    BY <2>2, <2>3, NewScopes
  <2>5. nest' = Pushed(nest, s) /\ db' = db
    BY <1>1, <2>1, <2>3 DEF BagOpen, Push, Pushed, program
  <2>. QED
    BY <2>4, <2>5, QuietPush
<1>2. CASE \E a \in Answers : BagAdd(a)
  <2>1. PICK a \in Answers : BagAdd(a)
    BY <1>2
  <2>2. Running /\ Top.kind = "bag"
    BY <2>1 DEF BagAdd, At
  <2>3. nest # <<>> /\ nest[Len(nest)] \in Scopes /\ nest[Len(nest)].kind = "bag"
    BY <2>2, RunningTop DEF Top
  <2>4. PICK s : s = [nest[Len(nest)] EXCEPT !.own = Append(@, a)]
    OBVIOUS
  <2>5. s \in Scopes /\ s.kind = "bag"
    BY <2>3, <2>4, AnsweredScope
  <2>6. nest' = Put(nest, Len(nest), s) /\ db' = db
    BY <2>1, <2>4 DEF BagAdd, Put, program
  <2>. QED
    BY <2>3, <2>5, <2>6, QuietTop
<1>3. CASE BagCollect
  <2>1. nest # <<>> /\ nest' = Below /\ db' = db
    BY <1>3 DEF BagCollect, At, Running, program
  <2>. QED
    BY <2>1, QuietDrop
<1>4. CASE BagRethrow
  <2>1. nest # <<>> /\ nest' = Below /\ db' = db
    BY <1>4 DEF BagRethrow, At, Running, program
  <2>. QED
    BY <2>1, QuietDrop
<1>. QED
  BY <1>1, <1>2, <1>3, <1>4

LEMMA CapturesQuiet ==
  ASSUME EngineInv, CaptureStart \/ (\E x \in Outputs : Write(x)) \/ CaptureStop \/ CaptureRethrow
  PROVE  Quiet
<1>1. CASE CaptureStart
  <2>1. nest' = Pushed(nest, Capture) /\ db' = db
    BY <1>1 DEF CaptureStart, Push, Pushed, program
  <2>2. Capture \in Scopes /\ Capture.kind # "load"
    BY NewScopes
  <2>. QED
    BY <2>1, <2>2, QuietPush
<1>2. CASE \E x \in Outputs : Write(x)
  <2>1. PICK x \in Outputs : Write(x)
    BY <1>2
  <2>2. db' = db /\ Nested(nest)
    BY <2>1 DEF Write, program, EngineInv, Shape
  <2>3. PICK S : S = CapturesOf(nest)
    OBVIOUS
  <2>4. S = {i \in 1 .. Len(nest) : nest[i].kind = "capture"}
    BY <2>3 DEF CapturesOf, ScopesIn
  <2>5. CASE S = {}
    <3>1. nest' = nest
      BY <2>1, <2>4, <2>5 DEF Write
    <3>. QED
      BY <2>2, <3>1, FewerSame DEF Quiet
  <2>6. CASE S # {}
    <3>1. PICK k : k = CHOOSE i \in S : \A j \in S : j <= i
      OBVIOUS
    <3>2. PICK s : s = [nest[k] EXCEPT !.own = Append(@, x)]
      OBVIOUS
    <3>3. nest' = Put(nest, k, s)
      BY <2>1, <2>4, <2>6, <3>1, <3>2 DEF Write, Put
    <3>4. S \subseteq Int /\ IsFiniteSet(S)
      BY <2>2, <2>3, KindFinite DEF CapturesOf
    <3>5. k \in S
      <4>1. \E m \in S : \A i \in S : i <= m
        BY <2>6, <3>4, Greatest
      <4>. QED
        BY <3>1, <4>1
    <3>6. k \in 1 .. Len(nest) /\ nest[k] \in Scopes /\ nest[k].kind = "capture"
      BY <2>2, <2>3, <3>5, KindFinite DEF CapturesOf
    <3>7. s \in Scopes /\ s.kind = "capture"
      BY <3>2, <3>6, WrittenScope
    <3>8. Fewer(Put(nest, k, s), nest)
      BY <2>2, <3>6, <3>7, FewerPut
    <3>. QED
      BY <2>2, <3>3, <3>8 DEF Quiet
  <2>. QED
    BY <2>5, <2>6
<1>3. CASE CaptureStop
  <2>1. nest # <<>> /\ nest' = Below /\ db' = db
    BY <1>3 DEF CaptureStop, At, Running, program
  <2>. QED
    BY <2>1, QuietDrop
<1>4. CASE CaptureRethrow
  <2>1. nest # <<>> /\ nest' = Below /\ db' = db
    BY <1>4 DEF CaptureRethrow, At, Running, program
  <2>. QED
    BY <2>1, QuietDrop
<1>. QED
  BY <1>1, <1>2, <1>3, <1>4

LEMMA GoalQuiet ==
  ASSUME EngineInv, EnterGoal \/ LeaveGoal
  PROVE  Quiet
<1>1. PICK p \in Phases : InPhase(p)
  BY DEF EnterGoal, LeaveGoal, Phases
<1>2. Running /\ Top.kind \in {"bag", "capture"} /\ db' = db
  BY DEF EnterGoal, LeaveGoal, At, program
<1>3. nest # <<>> /\ nest[Len(nest)] \in Scopes /\ nest[Len(nest)].kind \in {"bag", "capture"}
  BY <1>2, RunningTop DEF Top
<1>4. PICK s : s = [nest[Len(nest)] EXCEPT !.phase = p]
  OBVIOUS
<1>5. s \in Scopes /\ s.kind = nest[Len(nest)].kind
  BY <1>3, <1>4, PhaseScope
<1>6. nest' = Put(nest, Len(nest), s)
  BY <1>1, <1>4 DEF InPhase, Put
<1>. QED
  BY <1>2, <1>3, <1>5, <1>6, QuietTop

\* The scopes of queries, catches and exceptions, but for the loads they end.
LEMMA ControlQuiet ==
  ASSUME EngineInv,
         StartQuery \/ Interrupt \/ Register \/ EnterCatch \/ LeaveCatch \/ Throw \/ HeapExhausted
         \/ Handle \/ TryCatch \/ Unwind
  PROVE  Quiet
<1>1. CASE StartQuery
  <2>1. Query \in Scopes /\ Query.kind # "load"
    BY NewScopes
  <2>2. nest' = Pushed(nest, Query) /\ db' = db
    BY <1>1, <2>1, EmptyNest DEF StartQuery, program
  <2>. QED
    BY <2>1, <2>2, QuietPush
<1>2. CASE Interrupt
  BY <1>2, FewerNone DEF Interrupt, program, Quiet
<1>3. CASE EnterCatch
  <2>1. nest' = Pushed(nest, Catch) /\ db' = db
    BY <1>3 DEF EnterCatch, Push, Pushed, program
  <2>2. Catch \in Scopes /\ Catch.kind # "load"
    BY NewScopes
  <2>. QED
    BY <2>1, <2>2, QuietPush
<1>4. CASE Register \/ LeaveCatch
  <2>1. nest # <<>> /\ nest' = Below /\ db' = db
    BY <1>4 DEF Register, LeaveCatch, Free, At, Running, program
  <2>. QED
    BY <2>1, QuietDrop
<1>5. CASE Throw \/ HeapExhausted
  BY <1>5, FewerSame DEF Throw, HeapExhausted, program, Quiet
<1>6. CASE Handle
  <2>1. nest # <<>> /\ Nested(nest) /\ ball \in Balls
    BY <1>6 DEF EngineInv, Shape, TopOK, Handle
  <2>2. nest[Len(nest)] \in Scopes /\ nest[Len(nest)].kind \in {"bag", "capture"}
    BY <1>6, <2>1, TopIn DEF Handle, Top
  <2>3. PICK s : s = [nest[Len(nest)] EXCEPT !.phase = "handler", !.ball = ball]
    OBVIOUS
  <2>4. s \in Scopes /\ s.kind = nest[Len(nest)].kind
    BY <2>1, <2>2, <2>3, HandlerScope
  <2>5. nest' = Put(nest, Len(nest), s) /\ db' = db
    BY <1>6, <2>3 DEF Handle, Put, program
  <2>. QED
    BY <2>1, <2>2, <2>4, <2>5, QuietTop
<1>7. CASE TryCatch \/ Unwind
  <2>1. nest # <<>> /\ nest' = Below /\ db' = db
    BY <1>7 DEF TryCatch, Unwind, EngineInv, Shape, TopOK, program
  <2>. QED
    BY <2>1, QuietDrop
<1>. QED
  BY <1>1, <1>2, <1>3, <1>4, <1>5, <1>6, <1>7

\* A query ends, and the load whose directive it was may end with it.
LEMMA QueryQuiet ==
  ASSUME EngineInv, QueryReturns \/ Uncaught
  PROVE  Quiet
<1>1. db' = db /\ load_error \in {"load error", None}
  BY DEF QueryReturns, Uncaught, program, EngineInv, ProgramInv
<1>2. nest # <<>> /\ nest[Len(nest)].kind = "query" /\ Nested(nest)
  BY DEF QueryReturns, Free, Running, Uncaught, Top, EngineInv, Shape, TopOK
<1>3. PICK n : n = Front(nest)
  OBVIOUS
<1>4. Below = n /\ Nested(n) /\ (n # <<>> => n[Len(n)].kind = "load")
  BY <1>2, <1>3, BelowQuery
<1>5. Fewer(n, nest)
  BY <1>2, <1>3, FewerFront
<1>6. Fewer(nest', n)
  <2>1. CASE n = <<>>
    BY <1>4, <2>1, FewerNone DEF QueryReturns, Uncaught
  <2>2. CASE n # <<>> /\ QueryReturns
    <3>1. AfterItem(n, position, load_error)
      BY <1>4, <2>2 DEF QueryReturns
    <3>. QED
      BY <1>4, <2>2, <3>1, FewerAfter
  <2>3. CASE n # <<>> /\ Uncaught
    <3>1. nest' = n \/ \E e : LoadReturns(n, FALSE, e)
      BY <1>4, <2>3 DEF Uncaught
    <3>2. CASE nest' = n
      BY <3>2, FewerSame
    <3>3. CASE \E e : LoadReturns(n, FALSE, e)
      BY <1>4, <2>3, <3>3, FewerReturned
    <3>. QED
      BY <3>1, <3>2, <3>3
  <2>. QED
    BY <2>1, <2>2, <2>3
<1>. QED
  BY <1>1, <1>5, <1>6, FewerYet DEF Quiet

LEMMA EndQuiet ==
  ASSUME EngineInv, EndLoad
  PROVE  Quiet
<1>1. nest # <<>> /\ nest[Len(nest)].kind = "load" /\ Nested(nest)
  BY DEF EndLoad, Reading, Top, EngineInv, Shape
<1>2. PICK ok \in BOOLEAN : ok = (NextItem = "end")
  OBVIOUS
<1>3. LoadReturns(nest, ok, load_error) /\ db' = db
  BY <1>2 DEF EndLoad, program
<1>4. Fewer(nest', nest)
  BY <1>1, <1>3, FewerReturned
<1>. QED
  BY <1>3, <1>4 DEF Quiet

LEMMA ModuleQuiet ==
  ASSUME EngineInv, SetModule
  PROVE  Quiet
<1>1. Nested(nest) /\ db' = db /\ consulting # None
  BY DEF SetModule, program, EngineInv, Shape
<1>2. PICK L : L = LoadsOf(nest)
  OBVIOUS
<1>3. LoadsIn(nest, position, consulting, module, module_saved)
  BY DEF EngineInv, LoadsInv
<1>4. \E i \in L : \A j \in L : j <= i
  BY <1>1, <1>2, <1>3, InnermostLoad DEF Innermost
<1>5. PICK k : k = CHOOSE i \in L : \A j \in L : j <= i
  OBVIOUS
<1>6. L = {i \in 1 .. Len(nest) : nest[i].kind = "load"}
  BY <1>2 DEF LoadsOf, ScopesIn
<1>7. k \in LoadsOf(nest)
  BY <1>2, <1>4, <1>5
<1>8. k \in 1 .. Len(nest) /\ nest[k] \in Scopes /\ nest[k].kind = "load"
  BY <1>1, <1>7, KindFinite DEF LoadsOf
<1>9. nest[k] \in Loads
  BY <1>8, ScopeKinds
<1>10. PICK f : f = nest[k].file
  OBVIOUS
<1>11. PICK s : s = [nest[k] EXCEPT !.own.module = f]
  OBVIOUS
<1>12. nest' = Put(nest, k, s)
  BY <1>5, <1>6, <1>10, <1>11 DEF SetModule, Put
<1>13. f \in Files
  <2>1. Innermost(nest, k)
    BY <1>2, <1>4, <1>5 DEF Innermost
  <2>2. IsAt(nest, k, position, consulting, module)
    BY <1>3, <1>7, <2>1 DEF LoadsIn
  <2>3. consulting = NameOf(f) /\ f \in Sources
    BY <1>1, <1>7, <1>10, <2>2, AtLoad
  <2>. QED
    BY <1>1, <2>3 DEF NameOf, Sources
<1>14. s \in Scopes /\ s.kind = "load" /\ s.file = nest[k].file /\ s.own.at = nest[k].own.at
  BY <1>8, <1>11, <1>13, ModuleScope
<1>15. Fewer(Put(nest, k, s), nest)
  BY <1>1, <1>8, <1>14, FewerPut
<1>. QED
  BY <1>1, <1>12, <1>15 DEF Quiet

(***************************************************************************)
(* What a load has read is in the database.                                *)
(***************************************************************************)
\* No file is loaded inside itself; of each in the middle of a load the database
\* d has what has been read of it.
WholeIn(n, d) ==
  /\ \A i \in LoadsOf(n) :
       /\ n[i].own.at >= 1
       /\ n[i].file # Text => ClausesIn(d, n[i].file) = ReadOf(n[i].file, n[i].own.at)
  /\ \A i, j \in LoadsOf(n) : n[i].file = n[j].file => i = j

LEMMA WholeFewer ==
  ASSUME NEW m, NEW n, NEW d, WholeIn(n, d), Fewer(m, n)
  PROVE  WholeIn(m, d)
BY DEF WholeIn, Fewer

LEMMA WholeString ==
  ASSUME EngineInv, LoadString
  PROVE  WholeIn(nest', db')
<1>1. nest = <<>> /\ nest' = Pushed(nest, Load(Text)) /\ Nested(nest)
  BY DEF LoadString, Push, Pushed, EngineInv, Shape
<1>2. PICK s : s = Load(Text)
  OBVIOUS
<1>3. s \in Scopes /\ s.kind = "load" /\ s.file = Text /\ s.own.at = 1
  BY <1>2, NowTyped, NewLoad DEF Sources
<1>4. LoadsOf(nest) = {}
  BY <1>1, NewScopes, EmptyNest DEF LoadsOf
<1>5. LoadsOf(nest') = {Len(nest) + 1} /\ nest'[Len(nest) + 1] = s
  BY <1>1, <1>2, <1>3, <1>4, KindPush DEF LoadsOf
<1>. QED
  BY <1>3, <1>5 DEF WholeIn

LEMMA WholeConsult ==
  ASSUME EngineInv, "cycles" \notin uses, WholeIn(nest, db), NEW f \in Files, ConsultFile(f)
  PROVE  WholeIn(nest', db')
<1>1. Free /\ Running /\ ~InLoad(f)
  BY DEF ConsultFile, Free, MayConsult
<1>2. nest # <<>> /\ Nested(nest) /\ nest \in Seq(Scopes)
  BY <1>1, RunningTop DEF Nested
<1>3. PICK s : s = Consult(f)
  OBVIOUS
<1>4. s \in Scopes /\ s.kind = "consult"
  BY <1>3, NewScopes
<1>5. PICK n : n = Pushed(nest, s)
  OBVIOUS
<1>6. Nested(n)
  BY <1>1, <1>2, <1>4, <1>5, FreeTop, NestedPush
<1>7. PICK t : t = Load(f)
  OBVIOUS
<1>8. t \in Scopes /\ t.kind = "load" /\ t.file = f /\ t.own.at = 1
  BY <1>7, NowTyped, NewLoad DEF Sources
<1>9. PICK m : m = Pushed(n, t)
  OBVIOUS
<1>10. nest' = m
  BY <1>2, <1>3, <1>4, <1>5, <1>7, <1>8, <1>9, PushedTwice DEF ConsultFile
<1>11. LoadsOf(n) = LoadsOf(nest) /\ \A i \in LoadsOf(nest) : n[i] = nest[i]
  BY <1>2, <1>4, <1>5, KindPush DEF LoadsOf
<1>12. PICK k : k = Len(n) + 1
  OBVIOUS
<1>13. LoadsOf(m) = LoadsOf(nest) \cup {k} /\ m[k] = t /\ \A i \in LoadsOf(nest) : m[i] = nest[i]
  BY <1>6, <1>8, <1>9, <1>11, <1>12, KindPush DEF LoadsOf
<1>14. \A i \in LoadsOf(nest) : nest[i].file # f
  BY <1>1 DEF InLoad, LoadsOf, ScopesIn
<1>15. /\ ClausesIn(db', f) = Selected(<<>>, {})
       /\ \A g : g # f => ClausesIn(db', g) = ClausesIn(db, g)
  <2>1. PICK T : db \in Seq(T)
    BY DEF EngineInv, ProgramInv
  <2>2. db' = Unloaded(db, f)
    BY DEF ConsultFile, Unloaded
  <2>3. ASSUME NEW g
        PROVE  ClausesIn(Unloaded(db, f), g) = IF g = f THEN Selected(<<>>, {}) ELSE ClausesIn(db, g)
    BY ONLY <2>1, ClausesUnloaded
  <2>. QED
    BY ONLY <2>2, <2>3
<1>16. PICK d : d = db'
  OBVIOUS
<1>17. ClausesIn(d, f) = ReadOf(f, 1)
  <2>1. Len(Items[f]) \in Nat
    BY FilesAssumption, LenProperties DEF Sources
  <2>2. {i \in 1 .. Len(Items[f]) : Items[f][i] = "clause" /\ i < 1} = {}
    BY <2>1
  <2>3. ReadOf(f, 1) = Selected([i \in 1 .. Len(Items[f]) |-> i], {})
    BY <2>2 DEF ReadOf
  <2>. QED
    BY <1>15, <1>16, <2>3, NothingSelected
<1>18. ASSUME NEW i \in LoadsOf(m)
       PROVE  /\ m[i].own.at >= 1
              /\ m[i].file # Text => ClausesIn(d, m[i].file) = ReadOf(m[i].file, m[i].own.at)
  <2>1. CASE i = k
    BY <1>8, <1>13, <1>17, <2>1
  <2>2. CASE i # k
    <3>1. i \in LoadsOf(nest) /\ m[i] = nest[i] /\ nest[i].file # f
      BY <1>13, <1>14, <2>2
    <3>. QED
      BY <1>15, <1>16, <3>1 DEF WholeIn
  <2>. QED
    BY <2>1, <2>2
<1>19. \A i, j \in LoadsOf(m) : m[i].file = m[j].file => i = j
  BY <1>8, <1>13, <1>14 DEF WholeIn
<1>20. WholeIn(m, d)
  BY <1>18, <1>19 DEF WholeIn
<1>. QED
  BY <1>10, <1>16, <1>20

\* What the load at the top of nest reads next, and what is read then.
LEMMA ReadsNext ==
  ASSUME EngineInv, Reading, WholeIn(nest, db)
  PROVE  LET k == Len(nest)
             f == nest[k].file
             at == nest[k].own.at
         IN  /\ f \in Sources /\ at \in Nat /\ at >= 1 /\ consulting = NameOf(f)
             /\ position.text = f /\ position.at = at
             /\ k \in LoadsOf(nest) /\ LoadsOf(ReadOn) = LoadsOf(nest)
             /\ ReadOn[k].file = f /\ ReadOn[k].own.at = at + 1
             /\ \A i \in LoadsOf(nest) : i # k => ReadOn[i] = nest[i]
<1>1. PICK k : k = Len(nest)
  OBVIOUS
<1>2. Nested(nest) /\ k \in LoadsOf(nest) /\ IsAt(nest, k, position, consulting, module)
  BY <1>1, ReadingTop
<1>3. /\ k \in 1 .. Len(nest) /\ nest[k] \in Scopes /\ nest[k].kind = "load"
      /\ nest[k].file \in Sources /\ nest[k].own.at \in Nat
      /\ position = [text |-> nest[k].file, at |-> nest[k].own.at] /\ consulting = NameOf(nest[k].file)
  BY <1>2, AtLoad
<1>4. nest[k].own.at >= 1
  BY <1>2 DEF WholeIn
<1>5. PICK s : s = [nest[k] EXCEPT !.own.at = @ + 1]
  OBVIOUS
<1>6. s \in Scopes /\ s.kind = "load" /\ s.file = nest[k].file /\ s.own.at = nest[k].own.at + 1
  BY <1>3, <1>5, ReadScope
<1>7. ReadOn = Put(nest, k, s)
  BY <1>1, <1>5 DEF ReadOn, Put
<1>8. PICK m : m = Put(nest, k, s)
  OBVIOUS
<1>9. LoadsOf(m) = LoadsOf(nest) /\ (\A i \in LoadsOf(nest) : i # k => m[i] = nest[i]) /\ m[k] = s
  BY <1>2, <1>3, <1>6, <1>8, KindPut DEF LoadsOf
<1>. QED
  BY <1>1, <1>2, <1>3, <1>4, <1>6, <1>7, <1>8, <1>9

Enlarged == IF NextItem = "clause" THEN Append(db, [file |-> consulting, item |-> position.at]) ELSE db

LEMMA WholeRead ==
  ASSUME EngineInv, Reading, WholeIn(nest, db), NextItem \in {"clause", "directive"}
  PROVE  WholeIn(ReadOn, Enlarged)
<1>1. PICK k, f, at : k = Len(nest) /\ f = nest[k].file /\ at = nest[k].own.at
  OBVIOUS
<1>2. PICK m, d : m = ReadOn /\ d = Enlarged
  OBVIOUS
<1>3. /\ f \in Sources /\ at \in Nat /\ at >= 1 /\ consulting = NameOf(f)
      /\ position.text = f /\ position.at = at
      /\ k \in LoadsOf(nest) /\ LoadsOf(m) = LoadsOf(nest)
      /\ m[k].file = f /\ m[k].own.at = at + 1
      /\ \A i \in LoadsOf(nest) : i # k => m[i] = nest[i]
  BY <1>1, <1>2, ReadsNext
<1>4. PICK r : r = [file |-> consulting, item |-> position.at]
  OBVIOUS
<1>5. r.file = NameOf(f) /\ r.item = at
  BY <1>3, <1>4
<1>6. r \in [file : Files \cup {None}, item : Nat]
  BY <1>3, <1>4 DEF NameOf, Sources
<1>7. ASSUME NEW g
      PROVE  ClausesIn(Append(db, r), g) = IF r.file = g THEN Append(ClausesIn(db, g), r.item) ELSE ClausesIn(db, g)
  <2>1. PICK T : db \in Seq(T) /\ r \in T
    BY <1>6 DEF EngineInv, ProgramInv
  <2>. QED
    BY ONLY <2>1, ClausesAdded
<1>8. at <= Len(Items[f]) /\ (NextItem = "clause" <=> Items[f][at] = "clause")
  BY <1>3 DEF NextItem
<1>9. ASSUME NEW g \in Files
      PROVE  ClausesIn(d, g) = IF g = f /\ NextItem = "clause" THEN Append(ClausesIn(db, g), at) ELSE ClausesIn(db, g)
  <2>1. r.file = g <=> g = f
    BY <1>3, <1>5, FilesAssumption DEF NameOf, Sources
  <2>. QED
    BY <1>2, <1>4, <1>5, <1>7, <2>1 DEF Enlarged
<1>10. f # Text => ClausesIn(d, f) = ReadOf(f, at + 1)
  <2>. SUFFICES ASSUME f # Text
                PROVE  ClausesIn(d, f) = ReadOf(f, at + 1)
    OBVIOUS
  <2>1. f \in Files
    BY <1>3 DEF Sources
  <2>2. ClausesIn(db, f) = ReadOf(f, at)
    BY <1>1, <1>3 DEF WholeIn
  <2>3. ReadOf(f, at + 1) = IF at <= Len(Items[f]) /\ Items[f][at] = "clause" THEN Append(ReadOf(f, at), at)
                            ELSE ReadOf(f, at)
    BY <1>3, ReadMore
  <2>4. ClausesIn(d, f) = IF NextItem = "clause" THEN Append(ClausesIn(db, f), at) ELSE ClausesIn(db, f)
    BY <1>9, <2>1
  <2>. QED
    BY ONLY <1>8, <2>2, <2>3, <2>4
<1>11. ASSUME NEW i \in LoadsOf(m)
       PROVE  /\ m[i].own.at >= 1
              /\ m[i].file # Text => ClausesIn(d, m[i].file) = ReadOf(m[i].file, m[i].own.at)
  <2>1. CASE i = k
    BY <1>3, <1>10, <2>1
  <2>2. CASE i # k
    <3>1. i \in LoadsOf(nest) /\ m[i] = nest[i] /\ nest[i].file # f
      BY <1>1, <1>3, <2>2 DEF WholeIn
    <3>2. nest[i].own.at >= 1 /\ (nest[i].file # Text => ClausesIn(db, nest[i].file) = ReadOf(nest[i].file, nest[i].own.at))
      BY <3>1 DEF WholeIn
    <3>3. nest[i].file \in Sources
      BY <3>1, KindFinite, ScopeKinds DEF LoadsOf, EngineInv, Shape, Loads
    <3>4. nest[i].file # Text => ClausesIn(d, nest[i].file) = ClausesIn(db, nest[i].file)
      BY <1>9, <3>1, <3>3 DEF Sources
    <3>. QED
      BY ONLY <3>1, <3>2, <3>4
  <2>. QED
    BY <2>1, <2>2
<1>12. \A i, j \in LoadsOf(m) : m[i].file = m[j].file => i = j
  <2>1. \A i \in LoadsOf(nest) : m[i].file = nest[i].file
    BY <1>1, <1>3
  <2>. QED
    BY <1>3, <2>1 DEF WholeIn
<1>13. WholeIn(m, d)
  BY <1>11, <1>12 DEF WholeIn
<1>. QED
  BY <1>2, <1>13

LEMMA WholeItem ==
  ASSUME EngineInv, WholeIn(nest, db), ReadClause \/ ReadDirective
  PROVE  WholeIn(nest', db')
<1>1. Reading /\ NextItem \in {"clause", "directive"}
  BY DEF ReadClause, ReadDirective
<1>2. PICK d : d = Enlarged
  OBVIOUS
<1>3. db' = d
  BY <1>2 DEF Enlarged, ReadClause, ReadDirective, program
<1>4. PICK n : n = ReadOn
  OBVIOUS
<1>5. WholeIn(n, d)
  BY <1>1, <1>2, <1>4, WholeRead
<1>6. Nested(n) /\ n # <<>> /\ n[Len(n)].kind = "load"
  BY <1>1, <1>4, ReadsOn
<1>7. Fewer(nest', n)
  <2>1. CASE ReadClause
    <3>1. AfterItem(n, After, load_error)
      BY <1>4, <2>1 DEF ReadClause
    <3>. QED
      BY <1>6, <3>1, FewerAfter
  <2>2. CASE ReadDirective
    <3>1. nest' = Pushed(n, Query)
      BY <1>4, <2>2 DEF ReadDirective, Pushed
    <3>. QED
      BY <1>6, <3>1, NewScopes, FewerPush
  <2>. QED
    BY <2>1, <2>2
<1>. QED
  BY <1>3, <1>5, <1>7, WholeFewer

\* The invariant of the histories in which no file is loaded inside itself.
WholeInv == EngineInv /\ "cycles" \notin uses /\ WholeIn(nest, db)

LEMMA UsesFixed ==
  ASSUME Next
  PROVE  uses' = uses
<1>1. CASE StartQuery \/ LoadString \/ Interrupt
  BY <1>1 DEF StartQuery, LoadString, Interrupt
<1>2. CASE BagOpen \/ (\E a \in Answers : BagAdd(a)) \/ BagCollect \/ BagRethrow
  BY <1>2 DEF BagOpen, BagAdd, BagCollect, BagRethrow
<1>3. CASE CaptureStart \/ (\E x \in Outputs : Write(x)) \/ CaptureStop \/ CaptureRethrow
  BY <1>3 DEF CaptureStart, Write, CaptureStop, CaptureRethrow
<1>4. CASE EnterGoal \/ LeaveGoal
  BY <1>4 DEF EnterGoal, LeaveGoal
<1>5. CASE (\E f \in Files : ConsultFile(f)) \/ ReadClause \/ ReadDirective \/ EndLoad
  BY <1>5 DEF ConsultFile, ReadClause, ReadDirective, EndLoad
<1>6. CASE Register \/ SetModule
  BY <1>6 DEF Register, SetModule
<1>7. CASE EnterCatch \/ LeaveCatch \/ QueryReturns \/ Throw \/ HeapExhausted
  BY <1>7 DEF EnterCatch, LeaveCatch, QueryReturns, Throw, HeapExhausted
<1>8. CASE Handle \/ TryCatch \/ Unwind \/ Uncaught
  BY <1>8 DEF Handle, TryCatch, Unwind, Uncaught
<1>. QED
  BY <1>1, <1>2, <1>3, <1>4, <1>5, <1>6, <1>7, <1>8 DEF Next

LEMMA WholeNext ==
  WholeInv /\ [Next]_vars => WholeInv'
<1>. SUFFICES ASSUME WholeInv, [Next]_vars
              PROVE  WholeInv'
  OBVIOUS
<1>1. EngineInv /\ "cycles" \notin uses /\ WholeIn(nest, db)
  BY DEF WholeInv
<1>2. EngineInv'
  BY <1>1, NextInv
<1>3. CASE UNCHANGED vars
  BY <1>1, <1>2, <1>3 DEF vars, program, WholeInv
<1>4. CASE Next
  <2>1. "cycles" \notin uses'
    BY <1>1, <1>4, UsesFixed
  <2>2. Quiet => WholeIn(nest', db')
    BY <1>1, WholeFewer DEF Quiet
  <2>3. CASE StartQuery \/ Interrupt \/ Register \/ EnterCatch \/ LeaveCatch \/ Throw \/ HeapExhausted
             \/ Handle \/ TryCatch \/ Unwind
    BY <1>1, <1>2, <2>1, <2>2, <2>3, ControlQuiet DEF WholeInv
  <2>4. CASE LoadString
    BY <1>1, <1>2, <2>1, <2>4, WholeString DEF WholeInv
  <2>5. CASE BagOpen \/ (\E a \in Answers : BagAdd(a)) \/ BagCollect \/ BagRethrow
    BY <1>1, <1>2, <2>1, <2>2, <2>5, BagsQuiet DEF WholeInv
  <2>6. CASE CaptureStart \/ (\E x \in Outputs : Write(x)) \/ CaptureStop \/ CaptureRethrow
    BY <1>1, <1>2, <2>1, <2>2, <2>6, CapturesQuiet DEF WholeInv
  <2>7. CASE EnterGoal \/ LeaveGoal
    BY <1>1, <1>2, <2>1, <2>2, <2>7, GoalQuiet DEF WholeInv
  <2>8. CASE \E f \in Files : ConsultFile(f)
    BY <1>1, <1>2, <2>1, <2>8, WholeConsult DEF WholeInv
  <2>9. CASE ReadClause \/ ReadDirective
    BY <1>1, <1>2, <2>1, <2>9, WholeItem DEF WholeInv
  <2>10. CASE EndLoad
    BY <1>1, <1>2, <2>1, <2>2, <2>10, EndQuiet DEF WholeInv
  <2>11. CASE SetModule
    BY <1>1, <1>2, <2>1, <2>2, <2>11, ModuleQuiet DEF WholeInv
  <2>12. CASE QueryReturns \/ Uncaught
    BY <1>1, <1>2, <2>1, <2>2, <2>12, QueryQuiet DEF WholeInv
  <2>. QED
    BY <1>4, <2>3, <2>4, <2>5, <2>6, <2>7, <2>8, <2>9, <2>10, <2>11, <2>12 DEF Next
<1>. QED
  BY <1>3, <1>4

LEMMA WholeInit ==
  Init /\ "cycles" \notin uses => WholeInv
<1>. SUFFICES ASSUME Init, "cycles" \notin uses
              PROVE  WholeInv
  OBVIOUS
<1>1. LoadsOf(<<>>) = {}
  BY NewScopes, EmptyNest DEF LoadsOf
<1>2. nest = <<>>
  BY DEF Init
<1>. QED
  BY <1>1, <1>2, InitInv DEF WholeInv, WholeIn

LEMMA EndsWhole ==
  ASSUME WholeInv, EndLoad, NextItem = "end", Top.file # Text
  PROVE  ClausesIn(db, Top.file) = ClausesOf(Top.file)
<1>1. EngineInv /\ WholeIn(nest, db) /\ Reading
  BY DEF WholeInv, EndLoad
<1>2. PICK k, f, at : k = Len(nest) /\ f = nest[k].file /\ at = nest[k].own.at
  OBVIOUS
<1>3. f \in Sources /\ at \in Nat /\ position.text = f /\ position.at = at /\ k \in LoadsOf(nest) /\ Top.file = f
  BY <1>1, <1>2, ReadsNext DEF Top
<1>4. Items[f] \in Seq({"clause", "directive", "syntax error"}) /\ Len(Items[f]) \in Nat
  BY <1>3, FilesAssumption, LenProperties
<1>5. at >= 1
  BY <1>1, <1>2, <1>3 DEF WholeIn
<1>6. at > Len(Items[f])
  <2>. DEFINE l == Len(Items[f])
  <2>1. CASE at <= l
    <3>1. at \in 1 .. l
      <4>. HIDE DEF l
      <4>1. l \in Nat
        BY <1>4 DEF l
      <4>. QED
        BY ONLY <1>3, <1>5, <2>1, <4>1
    <3>2. Items[f][at] \in {"clause", "directive", "syntax error"}
      BY <1>4, <3>1, ElementOfSeq
    <3>3. NextItem = Items[f][at]
      BY <1>3, <2>1 DEF NextItem
    <3>. QED
      BY <3>2, <3>3
  <2>2. at > l \/ at <= l
    <3>. HIDE DEF l
    <3>1. l \in Nat
      BY <1>4 DEF l
    <3>. QED
      BY ONLY <1>3, <3>1
  <2>. QED
    BY <2>1, <2>2
<1>7. ClausesIn(db, f) = ReadOf(f, at)
  BY <1>1, <1>2, <1>3 DEF WholeIn
<1>. QED
  BY <1>3, <1>6, <1>7, ReadAll

(***************************************************************************)
(* Theorems.                                                               *)
(***************************************************************************)
LEMMA TypeFollows ==
  EngineInv => TypeOK
<1>. SUFFICES ASSUME EngineInv
              PROVE  TypeOK
  OBVIOUS
<1>1. /\ uses \in Uses /\ ball \in Balls /\ nest \in Seq(Scopes) /\ bags \in Seq(Seq(Answers))
      /\ load_error \in {"load error", None} /\ module_saved \in Seq(Files \cup {None})
      /\ db \in Seq([file : Files \cup {None}, item : Nat]) /\ consulted \subseteq Files
  BY DEF EngineInv, Shape, Nested, BagsInv, LoadsInv, ProgramInv
<1>2. position \in Positions /\ consulting \in Files \cup {None} /\ module \in Files \cup {None}
  BY NowTyped
<1>3. Len(module_saved) = Cardinality(ScopesOf("load"))
  BY DEF EngineInv, LoadsInv, LoadsIn, LoadsOf, ScopesIn, ScopesOf
<1>4. /\ starts \in Seq(Nat) /\ Len(starts) <= CaptureMax
      /\ capture_buf \in Seq(Outputs \cup {Nul}) /\ capture_pos \in 0 .. Len(capture_buf)
      /\ \A k \in 1 .. Len(starts) : starts[k] <= capture_pos
  BY DEF EngineInv, CapturesInv, Captured, StartsIn
<1>5. Len(starts) \in Nat /\ Len(capture_buf) \in Nat
  BY <1>4, LenProperties
<1>6. \A k \in 1 .. Len(starts) : starts[k] \in 0 .. Len(capture_buf)
  <2>1. \A k \in 1 .. Len(starts) : starts[k] \in Nat
    BY <1>4, ElementOfSeq
  <2>. QED
    BY <1>4, <1>5, <2>1
<1>7. starts \in Seq(0 .. Len(capture_buf))
  <2>1. PICK B : B = 0 .. Len(capture_buf)
    OBVIOUS
  <2>2. PICK l \in Nat : l = Len(starts)
    BY <1>5
  <2>3. \A k \in 1 .. l : starts[k] \in B
    BY <1>6, <2>1, <2>2
  <2>4. SubSeq(starts, 1, l) \in Seq(B)
    <3>1. 1 \in Int /\ l \in Int
      BY <2>2
    <3>. QED
      BY <2>3, <3>1, SubSeqProperties
  <2>5. SubSeq(starts, 1, l) = starts
    BY <1>4, <2>2, SubSeqFull
  <2>. QED
    BY <2>1, <2>4, <2>5
<1>. QED
  BY <1>1, <1>2, <1>3, <1>4, <1>7 DEF TypeOK

\* The state is of its type, there are never more captures than
\* CAPTURE_STACK_MAX, and a module state is saved for each load: module_state_drop
\* and the pops of consult_nested match the pushes, whatever ends a load.
THEOREM TypeCorrect == Spec => []TypeOK
BY InvHolds, TypeFollows, PTL

\* findall gets its own answers ('$$bag_open' to '$$bag_collect'), however many
\* bags inside its own were left open.
THEOREM FindallCollectsItsOwn == Spec => []OwnAnswers
<1>1. EngineInv => OwnAnswers
  <2>. SUFFICES ASSUME EngineInv, NEW i \in ScopesOf("bag")
                PROVE  nest[i].n <= Len(bags) /\ bags[nest[i].n] = nest[i].own
    BY DEF OwnAnswers
  <2>1. i \in 1 .. Len(nest) /\ nest[i].kind = "bag"
    BY DEF ScopesOf
  <2>2. nest[i].n \in 1 .. Len(bags) /\ bags[nest[i].n] = nest[i].own
    BY <2>1 DEF EngineInv, BagsInv, BagsIn
  <2>3. Len(bags) \in Nat
    BY LenProperties DEF EngineInv, BagsInv
  <2>. QED
    BY <2>2, <2>3
<1>. QED
  BY <1>1, InvHolds, PTL

\* A load finds the parse position, the name and the module that it had, whatever
\* files are loaded in the middle of it (saved_P, saved_atom, module_state_push).
THEOREM OuterLoadsAreKept == Spec => []OuterLoadKept
<1>1. EngineInv => OuterLoadKept
  <2>. SUFFICES ASSUME EngineInv
                PROVE  OuterLoadKept
    OBVIOUS
  <2>. DEFINE loads == ScopesOf("load")
              Inside(i) == {j \in loads : j > i}
              Following(i) == CHOOSE j \in Inside(i) : \A k \in Inside(i) : j <= k
              Was(i) == [position |-> nest[Following(i)].position, consulting |-> nest[Following(i)].consulting,
                         module |-> module_saved[NumBelow(loads, Following(i)) + 1]]
              Now(i) == IF Inside(i) = {} THEN [position |-> position, consulting |-> consulting, module |-> module]
                        ELSE Was(i)
              Is(i) == [position |-> [text |-> nest[i].file, at |-> nest[i].own.at],
                        consulting |-> IF nest[i].file = Text THEN None ELSE nest[i].file,
                        module |-> nest[i].own.module]
  <2>1. Nested(nest) /\ LoadsIn(nest, position, consulting, module, module_saved)
    BY DEF EngineInv, Shape, LoadsInv
  <2>2. loads = LoadsOf(nest)
    BY DEF ScopesOf, LoadsOf, ScopesIn
  <2>3. loads \subseteq Nat /\ \A j \in loads : j \in Nat
    BY <2>1, <2>2, KindFinite DEF LoadsOf
  <2>4. ASSUME NEW i \in loads
        PROVE  Now(i) = Is(i)
    <3>1. i # 0
      BY <2>2, HostNoLoad
    <3>2. \A p, c, m : IsAt(nest, i, p, c, m) => [position |-> p, consulting |-> c, module |-> m] = Is(i)
      BY <3>1 DEF IsAt, NameOf
    <3>3. CASE Inside(i) = {}
      <4>1. Innermost(nest, i)
        BY <2>2, <2>3, <3>3 DEF Innermost
      <4>2. IsAt(nest, i, position, consulting, module)
        BY <2>1, <2>2, <4>1 DEF LoadsIn
      <4>. QED
        BY <3>2, <3>3, <4>2
    <3>4. CASE Inside(i) # {}
      <4>1. Inside(i) \subseteq Nat
        BY <2>3
      <4>2. \E j \in Inside(i) : \A k \in Inside(i) : j <= k
        BY <3>4, <4>1, NatMin
      <4>3. PICK j : j = Following(i)
        OBVIOUS
      <4>4. j \in Inside(i) /\ \A k \in Inside(i) : j <= k
        BY <4>2, <4>3
      <4>5. j \in loads /\ i < j /\ \A k \in loads : k <= i \/ j <= k
        BY <2>3, <4>4
      <4>6. Encloses(nest, i, j)
        BY <2>2, <4>5 DEF Encloses
      <4>7. IsAt(nest, i, nest[j].position, nest[j].consulting, module_saved[NumBelow(LoadsOf(nest), j) + 1])
        BY <2>1, <2>2, <4>5, <4>6 DEF LoadsIn
      <4>8. Was(i) = Is(i)
        BY <2>2, <3>2, <4>3, <4>7
      <4>. QED
        BY <3>4, <4>8
    <3>. QED
      BY <3>3, <3>4
  <2>. QED
    BY <2>4 DEF OuterLoadKept
<1>. QED
  BY <1>1, InvHolds, PTL

\* Between calls nothing is left of the last one, however it ended. An exhausted
\* heap may leave a capture, so histories with both are left out.
THEOREM CallsEndClean == Spec => [](LeavesCaptures(uses) \/ IdleIsClean)
<1>1. EngineInv => LeavesCaptures(uses) \/ IdleIsClean
  <2>. SUFFICES ASSUME EngineInv, ~LeavesCaptures(uses), nest = <<>>
                PROVE  /\ ball = NoBall /\ starts = <<>> /\ capture_pos = 0
                       /\ consulting = None /\ module = None /\ module_saved = <<>>
    BY DEF IdleIsClean
  <2>1. ball = NoBall
    BY DEF EngineInv, Shape, TopOK
  <2>2. Nested(<<>>) /\ \A kind : ScopesIn(<<>>, kind) = {}
    BY NewScopes, EmptyNest
  <2>3. CapturesOf(nest) = {} /\ LoadsOf(nest) = {}
    BY <2>2 DEF CapturesOf, LoadsOf
  <2>4. CapturesIn(nest, starts, capture_pos) /\ starts \in Seq(Nat)
    BY DEF EngineInv, CapturesInv, Captured, StartsIn
  <2>5. starts = <<>> /\ capture_pos = 0
    BY <2>3, <2>4, FS_EmptySet, EmptySeq DEF CapturesIn
  <2>6. LoadsIn(nest, position, consulting, module, module_saved) /\ module_saved \in Seq(Files \cup {None})
    BY DEF EngineInv, LoadsInv
  <2>7. consulting = None /\ module = None
    BY <2>2, <2>3, <2>6, InnermostLoad
  <2>8. module_saved = <<>>
    BY <2>3, <2>6, FS_EmptySet, EmptySeq DEF LoadsIn
  <2>. QED
    BY <2>1, <2>5, <2>7, <2>8
<1>. QED
  BY <1>1, InvHolds, PTL

\* The string from i is what is between i and the first NUL.
LEMMA StringIs ==
  ASSUME capture_buf \in Seq(Outputs \cup {Nul}), capture_pos \in 0 .. Len(capture_buf),
         capture_pos < Len(capture_buf) => capture_buf[capture_pos + 1] = Nul,
         \A d \in 1 .. capture_pos : capture_buf[d] \in Outputs,
         NEW i \in 0 .. capture_pos
  PROVE  StringAt(i) = SubSeq(capture_buf, i + 1, capture_pos)
<1>1. Len(capture_buf) \in Nat
  BY LenProperties
<1>. DEFINE Ends(e) == /\ e < Len(capture_buf) => capture_buf[e + 1] = Nul
                       /\ \A d \in i .. e - 1 : capture_buf[d + 1] # Nul
<1>2. \A d \in i .. capture_pos - 1 : capture_buf[d + 1] # Nul
  <2>1. ASSUME NEW d \in i .. capture_pos - 1
        PROVE  d + 1 \in 1 .. capture_pos
    BY <1>1
  <2>. QED
    BY <2>1, FilesAssumption DEF Nul
<1>3. capture_pos \in i .. Len(capture_buf) /\ Ends(capture_pos)
  BY <1>1, <1>2
<1>4. ASSUME NEW e \in i .. Len(capture_buf), Ends(e)
      PROVE  e = capture_pos
  <2>1. CASE e < capture_pos
    <3>1. e \in i .. capture_pos - 1 /\ e < Len(capture_buf)
      BY <1>1, <2>1
    <3>. QED
      BY <1>2, <1>4, <3>1
  <2>2. CASE e > capture_pos
    <3>1. capture_pos \in i .. e - 1 /\ capture_pos < Len(capture_buf)
      BY <1>1, <2>2
    <3>. QED
      BY <1>4, <3>1
  <2>. QED
    BY <1>1, <2>1, <2>2
<1>5. (CHOOSE e \in i .. Len(capture_buf) : Ends(e)) = capture_pos
  <2>. HIDE DEF Ends
  <2>. QED
    BY <1>3, <1>4
<1>. QED
  BY <1>5 DEF StringAt

\* with_output_to returns what its own goal wrote. A longjmp may leave text in the
\* buffer and an exhausted heap a capture, so histories with captures and either
\* are left out.
THEOREM CapturesItsOwn == Spec => [](LeavesCaptures(uses) \/ LeavesText(uses) \/ OwnOutput)
<1>1. EngineInv => LeavesCaptures(uses) \/ LeavesText(uses) \/ OwnOutput
  <2>. SUFFICES ASSUME EngineInv, ~LeavesCaptures(uses), ~LeavesText(uses)
                PROVE  OwnOutput
    OBVIOUS
  <2>1. /\ Nested(nest) /\ StartsIn(starts, capture_pos, capture_buf)
        /\ CapturesIn(nest, starts, capture_pos) /\ TextIn(nest, starts, capture_pos, capture_buf)
    BY DEF EngineInv, Shape, CapturesInv, Captured
  <2>2. PICK S : S = CapturesOf(nest)
    OBVIOUS
  <2>3. S = ScopesOf("capture") /\ Len(starts) = Cardinality(S)
    BY <2>1, <2>2 DEF CapturesOf, ScopesIn, ScopesOf, CapturesIn
  <2>4. ASSUME starts # <<>>
        PROVE  StringAt(Last(starts)) = nest[CHOOSE i \in S : \A j \in S : j <= i].own
    <3>1. /\ starts \in Seq(Nat) /\ capture_buf \in Seq(Outputs \cup {Nul}) /\ capture_pos \in 0 .. Len(capture_buf)
          /\ \A k \in 1 .. Len(starts) : starts[k] <= capture_pos
      BY <2>1 DEF StartsIn
    <3>2. Len(starts) \in 1 .. Len(starts) /\ Last(starts) = starts[Len(starts)] /\ Last(starts) \in Nat
          /\ Len(starts) \in Nat
      BY <2>4, <3>1, FrontOf
    <3>3. Len(capture_buf) \in Nat
      BY <3>1, LenProperties
    <3>4. Last(starts) \in 0 .. capture_pos
      BY <3>1, <3>2, <3>3
    <3>5. S \subseteq Int /\ IsFiniteSet(S)
      BY <2>1, <2>2, KindFinite DEF CapturesOf
    <3>6. S # {}
      <4>1. Len(starts) # 0
        BY ONLY <3>2
      <4>2. IsFiniteSet(S) /\ Cardinality(S) # 0
        BY <2>3, <3>5, <4>1
      <4>. QED
        BY ONLY <4>2, FS_EmptySet
    <3>7. \E m \in S : \A i \in S : i <= m
      BY <3>5, <3>6, Greatest
    <3>8. PICK k : k = CHOOSE i \in S : \A j \in S : j <= i
      OBVIOUS
    <3>9. k \in S /\ \A j \in S : j <= k
      BY <3>7, <3>8
    <3>10. k \in CapturesOf(nest) /\ \A j \in CapturesOf(nest) : j <= k
      BY <2>2, <3>9
    <3>11. PlaceOf(nest, k) = Cardinality(CapturesOf(nest))
      BY <2>1, <3>10, Places
    <3>12. PlaceOf(nest, k) = Len(starts)
      BY <2>2, <2>3, <3>11
    <3>13. IsText(nest[k].own, capture_buf, starts[Len(starts)], EndOf(Len(starts), starts, capture_pos))
      BY <2>1, <3>10, <3>12 DEF TextIn, PlaceOf
    <3>14. PICK own : own = nest[k].own
      OBVIOUS
    <3>15. IsText(own, capture_buf, Last(starts), capture_pos)
      BY <3>2, <3>13, <3>14 DEF EndOf
    <3>16. own \in Seq(Outputs)
      <4>1. nest[k] \in Scopes /\ nest[k].kind = "capture"
        BY <2>1, <3>10, KindFinite DEF CapturesOf
      <4>. QED
        BY <3>14, <4>1, ScopeKinds DEF CaptureScopes
    <3>17. PICK i : i = Last(starts)
      OBVIOUS
    <3>18. i \in 0 .. capture_pos /\ Len(own) = capture_pos - i /\ \A d \in 1 .. Len(own) : own[d] = capture_buf[i + d]
      BY <3>4, <3>15, <3>17 DEF IsText
    <3>19. StringAt(i) = SubSeq(capture_buf, i + 1, capture_pos)
      BY <2>1, <3>1, <3>18, StringIs DEF TextIn
    <3>20. \A d \in i + 1 .. capture_pos : capture_buf[d] \in Outputs
      <4>1. \A d \in 1 .. capture_pos : capture_buf[d] \in Outputs
        BY <2>1 DEF TextIn
      <4>2. \A d \in i + 1 .. capture_pos : d \in 1 .. capture_pos
        BY <3>1, <3>3, <3>18
      <4>. QED
        BY <4>1, <4>2
    <3>21. PICK s : s = SubSeq(capture_buf, i + 1, capture_pos)
      OBVIOUS
    <3>22. i + 1 \in Int /\ capture_pos \in Int
      BY <3>1, <3>3, <3>18
    <3>23. /\ s \in Seq(Outputs)
           /\ Len(s) = IF i + 1 <= capture_pos THEN capture_pos - (i + 1) + 1 ELSE 0
           /\ \A d \in 1 .. capture_pos - (i + 1) + 1 : s[d] = capture_buf[i + 1 + d - 1]
      BY <3>20, <3>21, <3>22, SubSeqProperties
    <3>24. Len(s) = Len(own)
      BY <3>18, <3>22, <3>23
    <3>25. \A d \in 1 .. Len(s) : s[d] = own[d]
      <4>. TAKE d \in 1 .. Len(s)
      <4>1. i \in Int /\ d \in 1 .. capture_pos - (i + 1) + 1 /\ d \in 1 .. Len(own) /\ i + 1 + d - 1 = i + d
        BY <3>18, <3>22, <3>24
      <4>. QED
        BY <3>18, <3>23, <4>1
    <3>26. s = own
      BY <3>16, <3>23, <3>24, <3>25, SeqEqual
    <3>. QED
      BY <3>8, <3>14, <3>17, <3>19, <3>21, <3>26
  <2>. QED
    BY <2>3, <2>4 DEF OwnOutput
<1>. QED
  BY <1>1, InvHolds, PTL

\* A load that succeeds leaves exactly the clauses of its file, whatever its
\* directives load, catch or leave open: consult_file has unloaded the file, and
\* every clause is added as the file's own. A file loaded inside itself is left out.
THEOREM LoadsAreWhole == Spec /\ "cycles" \notin uses => LoadIsWhole
<1>1. WholeInv /\ [Next]_vars =>
        [EndLoad /\ NextItem = "end" /\ Top.file # Text => ClausesIn(db, Top.file) = ClausesOf(Top.file)]_vars
  BY EndsWhole
<1>. QED
  BY <1>1, WholeInit, WholeNext, PTL DEF Spec, LoadIsWhole
=============================================================================
