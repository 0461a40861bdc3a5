---------------------------- MODULE SolverProofs ----------------------------
(***************************************************************************)
(* Theorems about module Solver, for every set of programs.                *)
(***************************************************************************)
EXTENDS Solver, TLAPS, SequenceTheorems, FiniteSetTheorems

\* A clause as a call resolves against it.
Rules(ns, nc) == [head : Values, body : Conj(ns, nc)]

(***************************************************************************)
(* Sequences.                                                              *)
(***************************************************************************)
LEMMA TailSeq ==
  ASSUME NEW S, NEW s \in Seq(S), s # <<>>
  PROVE  Head(s) \in S /\ Tail(s) \in Seq(S)
BY HeadTailProperties

LEMMA ConcatSeq ==
  ASSUME NEW S, NEW s \in Seq(S), NEW t \in Seq(S)
  PROVE  s \o t \in Seq(S)
BY ConcatProperties

LEMMA SeqSubset ==
  ASSUME NEW S, NEW T, S \subseteq T, NEW s \in Seq(S)
  PROVE  s \in Seq(T)
BY SeqMonotonic

\* A push writes one slot and leaves the others, above the top too.
LEMMA PushSeq ==
  ASSUME NEW S, NEW mem \in Seq(S), NEW top \in 0 .. Len(mem), NEW x \in S
  PROVE  /\ Push(mem, top, x) \in Seq(S)
         /\ Len(Push(mem, top, x)) = IF top < Len(mem) THEN Len(mem) ELSE top + 1
         /\ top + 1 <= Len(Push(mem, top, x))
         /\ Len(mem) <= Len(Push(mem, top, x))
<1> DEFINE n == IF top < Len(mem) THEN Len(mem) ELSE top + 1
<1>1. n \in Nat /\ Len(mem) \in Nat /\ \A i \in 1 .. Len(mem) : mem[i] \in S
  BY LenProperties, ElementOfSeq
<1>2. \A i \in 1 .. n : (IF i = top + 1 THEN x ELSE mem[i]) \in S
  BY <1>1
<1>3. Push(mem, top, x) = [i \in 1 .. n |-> IF i = top + 1 THEN x ELSE mem[i]]
  BY DEF Push
<1>4. Push(mem, top, x) \in [1 .. n -> S]
  BY <1>2, <1>3
<1>. QED
  BY <1>1, <1>4, SeqDef, LenProperties

\* A non-empty set of numbers has a least one.
LEMMA NatMin ==
  ASSUME NEW S, S \subseteq Nat, S # {}
  PROVE  \E m \in S : \A k \in S : m <= k
<1> DEFINE Below == {0 .. k : k \in S}
           R == StrictSubsetOrdering(Nat)
<1>1. IsWellFoundedOn(R, FiniteSubsetsOf(Nat))
  BY FS_StrictSubsetOrderingWellFounded
<1>2. Below \subseteq FiniteSubsetsOf(Nat) /\ Below # {}
  <2>1. ASSUME NEW k \in S
        PROVE  0 .. k \in FiniteSubsetsOf(Nat)
    <3>1. k \in Int /\ 0 .. k \subseteq Nat
      OBVIOUS
    <3>2. IsFiniteSet(0 .. k)
      BY <3>1, FS_Interval
    <3>. QED
      BY <3>1, <3>2 DEF FiniteSubsetsOf
  <2>. QED
    BY <2>1
<1>3. PICK B \in Below : \A C \in Below : ~(<<C, B>> \in R)
  <2> HIDE DEF Below, R
  <2>. QED
    BY <1>1, <1>2, WFMin
<1>4. PICK m \in S : B = 0 .. m
  OBVIOUS
<1>5. ASSUME NEW k \in S, k < m
      PROVE  FALSE
  <2>1. 0 .. k \in SUBSET Nat /\ 0 .. m \in SUBSET Nat /\ 0 .. k \subseteq 0 .. m
    BY <1>5
  <2>2. m \in 0 .. m /\ m \notin 0 .. k
    BY <1>5
  <2>3. <<0 .. k, 0 .. m>> \in R
    BY <2>1, <2>2 DEF StrictSubsetOrdering
  <2>. QED
    BY <1>3, <1>4, <2>3
<1>. QED
  BY <1>5

(***************************************************************************)
(* What is stored stays in bounds when the arrays grow.                    *)
(***************************************************************************)
LEMMA Grow ==
  ASSUME NEW ns \in Nat, NEW nc \in Nat, NEW ns2 \in Nat, NEW nc2 \in Nat,
         ns <= ns2, nc <= nc2
  PROVE  /\ HeapGoals(ns, nc) \subseteq HeapGoals(ns2, nc2)
         /\ Conj(ns, nc) \subseteq Conj(ns2, nc2)
         /\ Calling(ns, nc) \subseteq Calling(ns2, nc2)
         /\ Frame(ns, nc) \subseteq Frame(ns2, nc2)
         /\ CatchEntry(ns, nc) \subseteq CatchEntry(ns2, nc2)
         /\ Suspended(ns, nc) \subseteq Suspended(ns2, nc2)
         /\ Seq(Frame(ns, nc)) \subseteq Seq(Frame(ns2, nc2))
         /\ Seq(CatchEntry(ns, nc)) \subseteq Seq(CatchEntry(ns2, nc2))
         /\ Seq(Suspended(ns, nc)) \subseteq Seq(Suspended(ns2, nc2))
<1>1. Raw .. ns \subseteq Raw .. ns2 /\ 1 .. nc \subseteq 1 .. nc2
  BY DEF Raw
<1>2. HeapGoals(ns, nc) \subseteq HeapGoals(ns2, nc2)
  BY <1>1 DEF HeapGoals
<1>3. Conj(ns, nc) \subseteq Conj(ns2, nc2)
  BY <1>2, SeqSubset DEF Conj
<1>4. Calling(ns, nc) \subseteq Calling(ns2, nc2)
  BY <1>3 DEF Calling
<1>5. 0 .. ns \subseteq 0 .. ns2 /\ 0 .. nc \subseteq 0 .. nc2
  OBVIOUS
<1>6. Frame(ns, nc) \subseteq Frame(ns2, nc2)
  BY <1>4, <1>5 DEF Frame
<1>7. CatchEntry(ns, nc) \subseteq CatchEntry(ns2, nc2)
  BY <1>3, <1>5 DEF CatchEntry
<1>8. Suspended(ns, nc) \subseteq Suspended(ns2, nc2)
  BY <1>3, <1>5 DEF Suspended
<1>. QED
  BY <1>2, <1>3, <1>4, <1>6, <1>7, <1>8, SeqSubset

(***************************************************************************)
(* Goals copied to the heap.                                               *)
(***************************************************************************)
LEMMA BakeType ==
  ASSUME NEW ns \in Nat, NEW nc \in Nat,
         NEW body \in Seq(Goals), NEW arg \in Args, NEW n \in Raw .. ns
  PROVE  Bake(body, arg, n) \in Conj(ns, nc)
<1>1. \A i \in 1 .. Len(body) : body[i] \in Goals
  BY ElementOfSeq
<1>2. \A i \in 1 .. Len(body) : HeapGoal(body[i], arg, n) \in HeapGoals(ns, nc)
  BY <1>1 DEF HeapGoal, HeapGoals
<1>3. Bake(body, arg, n) \in [1 .. Len(body) -> HeapGoals(ns, nc)]
  BY <1>2 DEF Bake
<1>. QED
  BY <1>3, SeqDef, LenProperties DEF Conj

LEMMA ArgOfType ==
  ASSUME NEW ns \in Nat, NEW nc \in Nat, NEW rg \in HeapGoals(ns, nc),
         NEW a \in Args \cup {ClauseVar}
  PROVE  ArgOf(a, rg) \in Args
BY DEF ArgOf, HeapGoals

LEMMA ClausesType ==
  ASSUME NEW ns \in Nat, NEW nc \in Nat, NEW rg \in HeapGoals(ns, nc), IsCall(rg.goal),
         NEW n \in 0 .. ns, prog \in Programs
  PROVE  ClausesOf(rg, n) \in Seq(Rules(ns, nc))
<1> DEFINE g == rg.goal
           Sub(body) == Bake(body, rg.arg, rg.n)
           Own(goals) == Bake(goals, rg.arg, n)
           Rule(body) == [head |-> Fresh, body |-> body]
           If(c, t) == Rule(Sub(c) \o Own(<<CutGoal>>) \o Sub(t))
<1>1. g \in Goals /\ rg.arg \in Args /\ rg.n \in Raw .. ns
  BY DEF HeapGoals, IsCall, IsCore, UncatchGoal
<1>2. n \in Raw .. ns
  BY DEF Raw
<1>3. ASSUME NEW body \in Seq(Goals)
      PROVE  Sub(body) \in Conj(ns, nc) /\ Own(body) \in Conj(ns, nc)
  BY <1>1, <1>2, BakeType
<1>4. ASSUME NEW body \in Conj(ns, nc)
      PROVE  Rule(body) \in Rules(ns, nc)
  BY DEF Rules, Values
<1>5. ASSUME NEW s \in Conj(ns, nc), NEW t \in Conj(ns, nc)
      PROVE  s \o t \in Conj(ns, nc)
  BY ConcatSeq DEF Conj
<1>6. <<CutGoal>> \in Seq(Goals) /\ CutGoal \in Goals /\ FailGoal \in Goals
  BY GoalsAssumption
<1>7. ASSUME NEW c \in Seq(Goals), NEW t \in Seq(Goals)
      PROVE  If(c, t) \in Rules(ns, nc)
  BY <1>3, <1>4, <1>5, <1>6
<1> HIDE DEF Sub, Own, Rule, If
<1>8. CASE g.op = "or"
  <2>1. g.left \in Seq(Goals) /\ g.right \in Seq(Goals)
    BY <1>1, <1>8, GoalsAssumption
  <2>2. CoreClauses(rg, n) = <<Rule(Sub(g.left)), Rule(Sub(g.right))>>
    BY <1>8 DEF CoreClauses, Rule, Sub
  <2>. QED
    BY <1>3, <1>4, <1>8, <2>1, <2>2 DEF ClausesOf, IsCore
<1>9. CASE g.op = "ite"
  <2>1. /\ g.cond \in Seq(Goals) /\ g.then \in Seq(Goals) /\ g.else \in Seq(Goals)
        /\ IfThen(g.cond, g.then) \in Goals
    BY <1>1, <1>9, GoalsAssumption
  <2>2. CoreClauses(rg, n) =
          <<If(g.cond, g.then), Rule(Own(<<CutGoal>>) \o Sub(g.else)),
            Rule(Sub(<<IfThen(g.cond, g.then)>>)), Rule(Sub(g.else))>>
    BY <1>9 DEF CoreClauses, Rule, Sub, Own, If
  <2>3. If(g.cond, g.then) \in Rules(ns, nc)
    BY <1>7, <2>1
  <2>4. Rule(Own(<<CutGoal>>) \o Sub(g.else)) \in Rules(ns, nc)
    BY <1>3, <1>4, <1>5, <1>6, <2>1
  <2>5. <<IfThen(g.cond, g.then)>> \in Seq(Goals)
    BY <2>1
  <2>6. Rule(Sub(<<IfThen(g.cond, g.then)>>)) \in Rules(ns, nc)
    BY <1>3, <1>4, <2>5
  <2>7. Rule(Sub(g.else)) \in Rules(ns, nc)
    BY <1>3, <1>4, <2>1
  <2>. QED
    BY <1>9, <2>2, <2>3, <2>4, <2>6, <2>7 DEF ClausesOf, IsCore
<1>10. CASE g.op = "ifthen"
  <2>1. g.cond \in Seq(Goals) /\ g.then \in Seq(Goals)
    BY <1>1, <1>10, GoalsAssumption
  <2>2. CoreClauses(rg, n) = <<If(g.cond, g.then)>>
    BY <1>10 DEF CoreClauses, Rule, Sub, Own, If
  <2>. QED
    BY <1>7, <1>10, <2>1, <2>2 DEF ClausesOf, IsCore
<1>11. CASE g.op = "once"
  <2>1. CallOf(g.goal) \in Goals
    BY <1>1, <1>11, GoalsAssumption
  <2>2. <<CallOf(g.goal), CutGoal>> \in Seq(Goals)
    BY <1>6, <2>1
  <2>3. CoreClauses(rg, n) = <<Rule(Own(<<CallOf(g.goal), CutGoal>>))>>
    BY <1>11 DEF CoreClauses, Rule, Own
  <2>4. Rule(Own(<<CallOf(g.goal), CutGoal>>)) \in Rules(ns, nc)
    BY <1>3, <1>4, <2>2
  <2>. QED
    BY <1>11, <2>3, <2>4 DEF ClausesOf, IsCore
<1>12. CASE g.op = "not"
  <2>1. CallOf(g.goal) \in Goals
    BY <1>1, <1>12, GoalsAssumption
  <2>2. <<CallOf(g.goal), CutGoal, FailGoal>> \in Seq(Goals)
    BY <1>6, <2>1
  <2>3. CoreClauses(rg, n) = <<Rule(Own(<<CallOf(g.goal), CutGoal, FailGoal>>)), Rule(<<>>)>>
    BY <1>12 DEF CoreClauses, Rule, Own
  <2>4. Rule(Own(<<CallOf(g.goal), CutGoal, FailGoal>>)) \in Rules(ns, nc)
    BY <1>3, <1>4, <2>2
  <2>5. <<>> \in Conj(ns, nc)
    BY DEF Conj
  <2>6. Rule(<<>>) \in Rules(ns, nc)
    BY <1>4, <2>5
  <2>. QED
    BY <1>12, <2>3, <2>4, <2>6 DEF ClausesOf, IsCore
<1>13. CASE g.op = "pred"
  <2> DEFINE db == prog.db[g.name]
             arg == ArgOf(g.arg, rg)
             body(i) == Bake(db[i].body, arg, n)
  <2>1. g.name \in Preds /\ g.arg \in Args \cup {ClauseVar}
    BY <1>1, <1>13, GoalsAssumption
  <2>2. db \in Seq(Clause)
    BY <2>1, ProgramsAssumption
  <2>3. arg \in Args
    BY <2>1, ArgOfType
  <2>4. ASSUME NEW i \in 1 .. Len(db)
        PROVE  [head |-> db[i].head, body |-> body(i)] \in Rules(ns, nc)
    <3>1. db[i] \in Clause
      BY <2>2, ElementOfSeq
    <3>2. db[i].head \in Values /\ db[i].body \in Seq(Goals)
      BY <3>1 DEF Clause
    <3>3. body(i) \in Conj(ns, nc)
      BY <1>2, <2>3, <3>2, BakeType
    <3>. QED
      BY <3>2, <3>3 DEF Rules
  <2>5. ClausesOf(rg, n) = [i \in 1 .. Len(db) |-> [head |-> db[i].head, body |-> body(i)]]
    BY <1>13 DEF ClausesOf, IsCore
  <2> HIDE DEF body
  <2>6. ClausesOf(rg, n) \in [1 .. Len(db) -> Rules(ns, nc)]
    BY <2>4, <2>5
  <2>. QED
    BY <2>2, <2>6, SeqDef, LenProperties
<1>. QED
  BY <1>8, <1>9, <1>10, <1>11, <1>12, <1>13 DEF IsCall, IsCore

\* The clause an index search finds is one of the clauses.
LEMMA BucketMatchType ==
  ASSUME NEW clauses, Len(clauses) \in Nat, NEW from \in Nat \ {0}, NEW v
  PROVE  LET m == BucketMatch(clauses, from, v)
         IN  m \in Nat /\ (m # 0 => m \in from .. Len(clauses))
<1> DEFINE matching == {i \in from .. Len(clauses) : ~FirstArgConflicts(v, clauses[i].head)}
<1>1. CASE matching = {}
  BY <1>1 DEF BucketMatch
<1>2. CASE matching # {}
  <2>1. \E i \in matching : \A j \in matching : i <= j
    <3>1. matching \subseteq Nat
      OBVIOUS
    <3> HIDE DEF matching
    <3>. QED
      BY <1>2, <3>1, NatMin
  <2>2. BucketMatch(clauses, from, v) = CHOOSE i \in matching : \A j \in matching : i <= j
    BY <1>2 DEF BucketMatch
  <2> HIDE DEF matching
  <2>3. BucketMatch(clauses, from, v) \in matching
    BY <2>1, <2>2
  <2>. QED
    BY <2>3 DEF matching
<1>. QED
  BY <1>1, <1>2

(***************************************************************************)
(* The store.                                                              *)
(***************************************************************************)
Stores == [val : [Vars -> Values], trail : Seq(Vars)]

LEMMA DerefType ==
  ASSUME NEW s \in Stores, NEW a \in Args
  PROVE  Deref(s, a) \in Values
BY DEF Deref, Stores, Args, Values

LEMMA UnifyType ==
  ASSUME NEW s \in Stores, NEW a \in Args, NEW t \in Values
  PROVE  Unify(s, a, t) \in Stores
<1>1. CASE a \in Vars /\ s.val[a] = Fresh /\ t # Fresh
  <2>1. [s.val EXCEPT ![a] = t] \in [Vars -> Values] /\ Append(s.trail, a) \in Seq(Vars)
    BY <1>1, AppendProperties DEF Stores
  <2>. QED
    BY <1>1, <2>1 DEF Unify, Stores
<1>2. CASE ~(a \in Vars /\ s.val[a] = Fresh /\ t # Fresh)
  BY <1>2 DEF Unify
<1>. QED
  BY <1>1, <1>2

LEMMA TrailReleaseType ==
  ASSUME NEW s \in Stores, NEW mark \in Nat
  PROVE  TrailRelease(s, mark) \in Stores
<1>1. Len(s.trail) \in Nat /\ s.trail \in Seq(Vars) /\ s.val \in [Vars -> Values]
  BY LenProperties DEF Stores
<1>2. CASE mark >= Len(s.trail)
  BY <1>2 DEF TrailRelease
<1>3. CASE ~(mark >= Len(s.trail))
  <2> DEFINE undone == {s.trail[i] : i \in mark + 1 .. Len(s.trail)}
             val == [v \in Vars |-> IF v \in undone THEN Fresh ELSE s.val[v]]
  <2>1. val \in [Vars -> Values]
    <3> HIDE DEF undone
    <3>. QED
      BY <1>1 DEF Values
  <2>2. \A i \in 1 .. mark : s.trail[i] \in Vars
    BY <1>1, <1>3, ElementOfSeq
  <2>3. SubSeq(s.trail, 1, mark) \in Seq(Vars)
    BY <1>1, <2>2, SubSeqProperties
  <2>4. TrailRelease(s, mark) = [val |-> val, trail |-> SubSeq(s.trail, 1, mark)]
    BY <1>3 DEF TrailRelease
  <2>. QED
    BY <2>1, <2>3, <2>4 DEF Stores
<1>. QED
  BY <1>2, <1>3

(***************************************************************************)
(* Type correctness.  The stacks are arrays that a push may lengthen, so   *)
(* the invariant is stated of given lengths and is kept by longer ones.    *)
(***************************************************************************)
TypeAt(ns, nc) ==
  /\ prog \in Programs
  /\ pc \in {"A", "B", "C", "T", "done"}
  /\ cn \in Conj(ns, nc) /\ (pc = "B" => cn \in Calling(ns, nc))
  /\ stack \in Seq(Frame(ns, nc)) /\ sp \in 0 .. ns
  /\ catches \in Seq(CatchEntry(ns, nc)) /\ catch_sp \in 0 .. nc
  /\ active_catch \in 0 .. nc
  /\ store \in Stores
  /\ try \in [idx : Nat \ {0}, tmark : Nat, barrier : 0 .. ns]
  /\ ball \in [val : Values, ref : Args]
  /\ base \in 0 .. ns /\ outer \in Seq(Suspended(ns, nc))
  /\ answers \in Seq([Vars -> Values]) /\ has_more \in BOOLEAN
  /\ status \in {"running", "true", "false", "error"}

LEMMA TypeOKAt == TypeOK <=> TypeAt(Len(stack), Len(catches))
BY DEF TypeOK, TypeAt, Stores

LEMMA TypeAtGrows ==
  ASSUME NEW ns \in Nat, NEW nc \in Nat, NEW ns2 \in Nat, NEW nc2 \in Nat,
         ns <= ns2, nc <= nc2, TypeAt(ns, nc)
  PROVE  TypeAt(ns2, nc2)
<1>1. 0 .. ns \subseteq 0 .. ns2 /\ 0 .. nc \subseteq 0 .. nc2
  OBVIOUS
<1>2. try \in [idx : Nat \ {0}, tmark : Nat, barrier : 0 .. ns2]
  BY <1>1 DEF TypeAt
<1>. QED
  BY <1>1, <1>2, Grow DEF TypeAt

LEMMA InitType == Init => TypeOK
<1> SUFFICES ASSUME Init PROVE TypeAt(0, 0)
  <2>1. Init => Len(stack) = 0 /\ Len(catches) = 0
    BY DEF Init
  <2>. QED
    BY <2>1, TypeOKAt
<1>1. prog.query \in Seq(Goals)
  BY ProgramsAssumption DEF Init
<1>2. cn \in Conj(0, 0)
  <2>1. 0 \in Raw .. 0 /\ Fresh \in Args
    BY DEF Raw, Args
  <2>. QED
    BY <1>1, <2>1, BakeType DEF Init
<1>3. store \in Stores
  BY DEF Init, Stores, Values
<1>4. Fresh \in Args /\ Fresh \in Values
  BY DEF Args, Values
<1>5. stack \in Seq(Frame(0, 0)) /\ catches \in Seq(CatchEntry(0, 0))
  /\ outer \in Seq(Suspended(0, 0)) /\ answers \in Seq([Vars -> Values])
  BY EmptySeq DEF Init
<1>. QED
  BY <1>2, <1>3, <1>4, <1>5 DEF Init, TypeAt, NoCatch

\* The conjunction being proved, taken apart.
LEMMA HeadType ==
  ASSUME NEW ns \in Nat, NEW nc \in Nat, cn \in Conj(ns, nc), cn # <<>>
  PROVE  /\ Head(cn) \in HeapGoals(ns, nc)
         /\ Rest \in Conj(ns, nc)
BY TailSeq DEF Conj, Rest

LEMMA SourceGoal ==
  ASSUME NEW ns \in Nat, NEW nc \in Nat, NEW rg \in HeapGoals(ns, nc),
         rg.goal.op # "uncatch"
  PROVE  rg.goal \in Goals /\ rg.arg \in Args /\ rg.n \in Raw .. ns
BY DEF HeapGoals, UncatchGoal

LEMMA Lengths ==
  ASSUME TypeOK
  PROVE  Len(stack) \in Nat /\ Len(catches) \in Nat
BY LenProperties DEF TypeOK

\* What the end of a query writes, in bounds.
EndsTyped(ns, nc) ==
  /\ pc' \in {"A", "done"} /\ cn' \in Conj(ns, nc)
  /\ sp' \in 0 .. ns /\ catch_sp' \in 0 .. nc /\ active_catch' \in 0 .. nc
  /\ store' \in Stores /\ base' \in 0 .. ns
  /\ outer' \in Seq(Suspended(ns, nc))
  /\ status' \in {"running", "true", "false", "error"}

LEMMA EndQueryType ==
  ASSUME TypeOK, NEW result \in {"true", "false", "error"}, EndQuery(result)
  PROVE  EndsTyped(Len(stack), Len(catches))
<1> DEFINE ns == Len(stack)
           nc == Len(catches)
<1>1. TypeAt(ns, nc)
  BY TypeOKAt
<1>2. CASE outer = <<>>
  BY <1>1, <1>2 DEF EndQuery, TypeAt, EndsTyped
<1>3. CASE outer # <<>>
  <2> DEFINE o == outer[Len(outer)]
             k == Len(outer) - 1
  <2>1. Len(outer) \in Nat /\ Len(outer) \in 1 .. Len(outer) /\ k \in Nat
    BY <1>1, <1>3, EmptySeq, LenProperties DEF TypeAt
  <2>2. \A i \in 1 .. Len(outer) : outer[i] \in Suspended(ns, nc)
    BY <1>1, ElementOfSeq DEF TypeAt
  <2>3. o \in Suspended(ns, nc)
    BY <2>1, <2>2
  <2>4. SubSeq(outer, 1, k) \in Seq(Suspended(ns, nc))
    BY <1>1, <2>1, <2>2, SubSeqProperties DEF TypeAt
  <2>5. TrailRelease(store, o.tmark) \in Stores
    BY <1>1, <2>3, TrailReleaseType DEF TypeAt, Suspended
  <2>. QED
    BY <1>1, <1>3, <2>3, <2>4, <2>5 DEF EndQuery, TypeAt, Suspended, EndsTyped
<1>. QED
  BY <1>2, <1>3

LEMMA ConsultType == TypeOK /\ Consult => TypeOK'
<1> SUFFICES ASSUME TypeOK, Consult PROVE TypeOK'
  OBVIOUS
<1> DEFINE ns == Len(stack)
           nc == Len(catches)
           rg == Head(cn)
<1>1. TypeAt(ns, nc) /\ ns \in Nat /\ nc \in Nat
  BY TypeOKAt, Lengths
<1>2. rg \in HeapGoals(ns, nc) /\ Rest \in Conj(ns, nc) /\ rg.goal \in Goals
  BY <1>1, HeadType, SourceGoal DEF TypeAt, Consult, At
<1>3. cn' \in Conj(ns, nc)
  <2>1. rg.goal.directive \in Seq(Goals)
    BY <1>2, GoalsAssumption DEF Consult, At
  <2>2. Fresh \in Args /\ 0 \in Raw .. ns
    BY <1>1 DEF Args, Raw
  <2>. QED
    BY <1>1, <2>1, <2>2, BakeType DEF Consult
<1>4. outer' \in Seq(Suspended(ns, nc))
  <2>1. Len(store.trail) \in Nat
    BY <1>1, LenProperties DEF TypeAt, Stores
  <2>2. [rest |-> Rest, active_catch |-> active_catch, base |-> base,
         cmark |-> catch_sp, tmark |-> Len(store.trail)] \in Suspended(ns, nc)
    BY <1>1, <1>2, <2>1 DEF TypeAt, Suspended
  <2>. QED
    BY <1>1, <2>2, AppendProperties DEF Consult, TypeAt
<1>. QED
  BY <1>1, <1>3, <1>4
  DEF Consult, At, TypeAt, TypeOK, Stores, host, frames, NoCatch

LEMMA CutType == TypeOK /\ Cut => TypeOK'
<1> SUFFICES ASSUME TypeOK, Cut PROVE TypeOK'
  OBVIOUS
<1> DEFINE ns == Len(stack)
           nc == Len(catches)
<1>1. TypeAt(ns, nc) /\ ns \in Nat /\ nc \in Nat
  BY TypeOKAt, Lengths
<1>2. Head(cn) \in HeapGoals(ns, nc) /\ Rest \in Conj(ns, nc) /\ Head(cn).n \in Raw .. ns
  BY <1>1, HeadType, SourceGoal DEF TypeAt, Cut, At
<1>3. sp' \in 0 .. ns
  <2>1. PICK n : n = Head(cn).n
    OBVIOUS
  <2>2. sp' = IF n = Raw THEN sp ELSE n
    BY <2>1 DEF Cut
  <2>3. sp \in 0 .. ns /\ n \in Raw .. ns
    BY <1>1, <1>2, <2>1 DEF TypeAt
  <2>. QED
    BY <1>1, <2>2, <2>3 DEF Raw
<1>. QED
  BY <1>1, <1>2, <1>3
  DEF Cut, Succeed, At, TypeAt, TypeOK, Stores, host, catching, nesting

LEMMA SolutionType == TypeOK /\ Solution => TypeOK'
<1> SUFFICES ASSUME TypeOK, Solution PROVE TypeOK'
  OBVIOUS
<1> DEFINE ns == Len(stack)
           nc == Len(catches)
<1>1. TypeAt(ns, nc)
  BY TypeOKAt
<1>2. answers' \in Seq([Vars -> Values]) /\ has_more' \in BOOLEAN
  <2>1. store.val \in [Vars -> Values] /\ answers \in Seq([Vars -> Values])
    BY <1>1 DEF TypeAt, Stores
  <2>2. Append(answers, store.val) \in Seq([Vars -> Values])
    BY <2>1, AppendProperties
  <2>3. answers' = Append(answers, store.val) \/ answers' = answers
    BY DEF Solution
  <2>4. has_more' \in BOOLEAN
    BY <1>1 DEF Solution, TypeAt
  <2>. QED
    BY <2>1, <2>2, <2>3, <2>4
<1>3. CASE EndQuery("true")
  <2>1. EndsTyped(ns, nc)
    BY <1>3, EndQueryType
  <2>2. UNCHANGED <<prog, stack, catches, try, ball>>
    BY DEF Solution
  <2>. QED
    BY <1>1, <1>2, <2>1, <2>2 DEF TypeAt, TypeOK, Stores, EndsTyped
<1>4. CASE pc' = "C" /\ UNCHANGED <<status, cn, sp, catch_sp, active_catch, store, nesting>>
  BY <1>1, <1>2, <1>4 DEF Solution, TypeAt, TypeOK, Stores, nesting
<1>. QED
  BY <1>3, <1>4 DEF Solution

LEMMA Call1Type == TypeOK /\ Call1 => TypeOK'
<1> SUFFICES ASSUME TypeOK, Call1 PROVE TypeOK'
  OBVIOUS
<1> DEFINE ns == Len(stack)
           nc == Len(catches)
           rg == Head(cn)
<1>1. TypeAt(ns, nc) /\ ns \in Nat /\ nc \in Nat
  BY TypeOKAt, Lengths
<1>2. rg \in HeapGoals(ns, nc) /\ Rest \in Conj(ns, nc) /\ rg.goal \in Goals /\ rg.arg \in Args
  BY <1>1, HeadType, SourceGoal DEF TypeAt, Call1, At
<1>3. rg.goal.goal \in Seq(Goals) /\ sp \in Raw .. ns
  BY <1>1, <1>2, GoalsAssumption DEF Call1, At, TypeAt, Raw
<1>4. Bake(rg.goal.goal, rg.arg, sp) \in Conj(ns, nc)
  BY <1>1, <1>2, <1>3, BakeType
<1>5. cn' \in Conj(ns, nc)
  BY <1>2, <1>4, ConcatSeq DEF Call1, Conj
<1>. QED
  BY <1>1, <1>5
  DEF Call1, At, TypeAt, TypeOK, Stores, host, frames, catching, nesting

LEMMA CatchType == TypeOK /\ Catch => TypeOK'
<1> SUFFICES ASSUME TypeOK, Catch PROVE TypeOK'
  OBVIOUS
<1> DEFINE ns == Len(stack)
           nc == Len(catches)
           mc == Len(catches')
           rg == Head(cn)
           idx == catch_sp + 1
           entry == [tmark |-> Len(store.trail), sp_at_entry |-> sp,
                     catcher |-> rg.goal.catcher,
                     recovery |-> Bake(rg.goal.recovery, rg.arg, Raw),
                     continuation |-> Rest, outer |-> active_catch]
<1>1. TypeAt(ns, nc) /\ ns \in Nat /\ nc \in Nat
  BY TypeOKAt, Lengths
<1>2. rg \in HeapGoals(ns, nc) /\ Rest \in Conj(ns, nc) /\ rg.goal \in Goals /\ rg.arg \in Args
  BY <1>1, HeadType, SourceGoal DEF TypeAt, Catch, At
<1>3. /\ rg.goal.goal \in Seq(Goals) /\ rg.goal.recovery \in Seq(Goals)
      /\ rg.goal.catcher \in Args
      /\ sp \in Raw .. ns /\ Raw \in Raw .. ns
  BY <1>1, <1>2, GoalsAssumption DEF Catch, At, TypeAt, Raw
<1>4. entry \in CatchEntry(ns, nc)
  <2>1. Bake(rg.goal.recovery, rg.arg, Raw) \in Conj(ns, nc)
    BY <1>1, <1>2, <1>3, BakeType
  <2>2. Len(store.trail) \in Nat
    BY <1>1, LenProperties DEF TypeAt, Stores
  <2>. QED
    BY <1>1, <1>2, <1>3, <2>1, <2>2 DEF CatchEntry, TypeAt
<1>5. /\ catches' \in Seq(CatchEntry(ns, nc))
      /\ mc \in Nat /\ nc <= mc /\ idx \in 1 .. mc
  <2>1. catches' = Push(catches, catch_sp, entry)
    BY DEF Catch
  <2>2. catch_sp \in 0 .. nc /\ catches \in Seq(CatchEntry(ns, nc))
    BY <1>1 DEF TypeAt
  <2>. QED
    BY <1>1, <1>4, <2>1, <2>2, PushSeq, LenProperties
<1>6. TypeAt(ns, mc)
  BY <1>1, <1>5, TypeAtGrows
<1>7. catches' \in Seq(CatchEntry(ns, mc))
  BY <1>1, <1>5, Grow
<1>8. cn' \in Conj(ns, mc)
  <2>1. Bake(rg.goal.goal, rg.arg, sp) \in Conj(ns, mc)
    BY <1>1, <1>2, <1>3, <1>5, BakeType
  <2>2. Uncatch(idx) \in HeapGoals(ns, mc)
    BY <1>5 DEF Uncatch, HeapGoal, HeapGoals, Args
  <2>3. <<Uncatch(idx)>> \in Conj(ns, mc)
    BY <2>2 DEF Conj
  <2>4. Rest \in Conj(ns, mc)
    BY <1>1, <1>2, <1>5, Grow
  <2>5. cn' = Bake(rg.goal.goal, rg.arg, sp) \o <<Uncatch(idx)>> \o Rest
    BY DEF Catch
  <2>. QED
    BY <2>1, <2>3, <2>4, <2>5, ConcatSeq DEF Conj
<1>9. catch_sp' \in 0 .. mc /\ active_catch' \in 0 .. mc
  BY <1>5 DEF Catch
<1>. QED
  BY <1>6, <1>7, <1>8, <1>9
  DEF Catch, At, TypeAt, TypeOK, Stores, host, frames, nesting

LEMMA DoUncatchType == TypeOK /\ DoUncatch => TypeOK'
<1> SUFFICES ASSUME TypeOK, DoUncatch PROVE TypeOK'
  OBVIOUS
<1> DEFINE ns == Len(stack)
           nc == Len(catches)
<1>1. TypeAt(ns, nc) /\ ns \in Nat /\ nc \in Nat
  BY TypeOKAt, Lengths
<1>2. Head(cn) \in HeapGoals(ns, nc) /\ Rest \in Conj(ns, nc)
  BY <1>1, HeadType DEF TypeAt, DoUncatch, At
<1>3. Head(cn).n \in 1 .. nc
  BY <1>2, GoalsAssumption DEF DoUncatch, At, HeapGoals
<1>4. catches[Head(cn).n] \in CatchEntry(ns, nc)
  BY <1>1, <1>3, ElementOfSeq DEF TypeAt
<1>5. active_catch' \in 0 .. nc
  BY <1>4 DEF DoUncatch, CatchEntry
<1>. QED
  BY <1>1, <1>2, <1>5
  DEF DoUncatch, Succeed, At, TypeAt, TypeOK, Stores, host, frames, nesting

LEMMA ThrowType == TypeOK /\ Throw => TypeOK'
<1> SUFFICES ASSUME TypeOK, Throw PROVE TypeOK'
  OBVIOUS
<1> DEFINE ns == Len(stack)
           nc == Len(catches)
           rg == Head(cn)
           t == ArgOf(rg.goal.ball, rg)
<1>1. TypeAt(ns, nc) /\ ns \in Nat /\ nc \in Nat
  BY TypeOKAt, Lengths
<1>2. rg \in HeapGoals(ns, nc) /\ rg.goal \in Goals
  BY <1>1, HeadType, SourceGoal DEF TypeAt, Throw, At
<1>3. t \in Args
  <2>1. rg.goal.ball \in Args \cup {ClauseVar}
    BY <1>2, GoalsAssumption DEF Throw, At
  <2>. QED
    BY <1>1, <1>2, <2>1, ArgOfType
<1>4. Deref(store, t) \in Values
  BY <1>1, <1>3, DerefType DEF TypeAt
<1>5. ball' \in [val : Values, ref : Args]
  BY <1>3, <1>4 DEF Throw, Raise
<1>. QED
  BY <1>1, <1>5
  DEF Throw, Raise, TypeAt, TypeOK, Stores, host, frames, catching, nesting

LEMMA BuiltinType == TypeOK /\ Builtin => TypeOK'
<1> SUFFICES ASSUME TypeOK, Builtin PROVE TypeOK'
  OBVIOUS
<1> DEFINE ns == Len(stack)
           nc == Len(catches)
           rg == Head(cn)
           a == ArgOf(rg.goal.arg, rg)
<1>1. TypeAt(ns, nc) /\ ns \in Nat /\ nc \in Nat
  BY TypeOKAt, Lengths
<1>2. rg \in HeapGoals(ns, nc) /\ Rest \in Conj(ns, nc) /\ rg.goal \in Goals
  BY <1>1, HeadType, SourceGoal DEF TypeAt, Builtin, At
<1>3. CASE rg.goal.op = "unify" /\ CanUnify(store, a, rg.goal.to)
  <2>1. rg.goal.arg \in Args \cup {ClauseVar} /\ rg.goal.to \in Values
    BY <1>2, <1>3, GoalsAssumption
  <2>2. a \in Args
    BY <1>1, <1>2, <2>1, ArgOfType
  <2>3. store' \in Stores
    BY <1>1, <1>3, <2>1, <2>2, UnifyType DEF Builtin, TypeAt
  <2>. QED
    BY <1>1, <1>2, <1>3, <2>3
    DEF Builtin, Succeed, TypeAt, TypeOK, Stores, host, frames, catching, nesting
<1>4. CASE ~(rg.goal.op = "unify" /\ CanUnify(store, a, rg.goal.to))
  BY <1>1, <1>4
  DEF Builtin, Backtrack, TypeAt, TypeOK, Stores, host, frames, catching, nesting
<1>. QED
  BY <1>3, <1>4

LEMMA CallType == TypeOK /\ Call => TypeOK'
<1> SUFFICES ASSUME TypeOK, Call PROVE TypeOK'
  OBVIOUS
<1> DEFINE ns == Len(stack)
           nc == Len(catches)
<1>1. TypeAt(ns, nc)
  BY TypeOKAt
<1>2. cn \in Calling(ns, nc)
  BY <1>1 DEF Call, TypeAt, Calling
<1>3. try' \in [idx : Nat \ {0}, tmark : Nat, barrier : 0 .. ns]
  BY <1>1, LenProperties DEF Call, TypeAt, Stores
<1>. QED
  BY <1>1, <1>2, <1>3
  DEF Call, TypeAt, TypeOK, Stores, host, frames, catching, nesting

\* At B: the goal is a call, its clauses are well formed, and so are the
\* positions the index finds.
LEMMA AtB ==
  ASSUME TypeOK, pc = "B"
  PROVE  LET ns == Len(stack)
             nc == Len(catches)
         IN  /\ cn # <<>> /\ Head(cn) \in HeapGoals(ns, nc) /\ Rest \in Conj(ns, nc)
             /\ FirstArg(Head(cn)) \in Args
             /\ Match \in Nat /\ NextMatch \in Nat
             /\ Match # 0 =>
                  /\ Clauses[Match].head \in Values
                  /\ Clauses[Match].body \in Conj(ns, nc)
<1> DEFINE ns == Len(stack)
           nc == Len(catches)
           rg == Head(cn)
<1>1. TypeAt(ns, nc) /\ ns \in Nat /\ nc \in Nat
  BY TypeOKAt, Lengths
<1>2. cn \in Calling(ns, nc)
  BY <1>1 DEF TypeAt
<1>3. cn \in Conj(ns, nc) /\ cn # <<>> /\ IsCall(rg.goal)
  BY <1>2 DEF Calling
<1>4. rg \in HeapGoals(ns, nc) /\ Rest \in Conj(ns, nc)
  BY <1>1, <1>3, HeadType
<1>5. FirstArg(rg) \in Args
  <2>1. CASE IsCore(rg.goal)
    BY <2>1 DEF FirstArg, Args
  <2>2. CASE ~IsCore(rg.goal)
    <3>1. rg.goal.op = "pred" /\ rg.goal.op # "uncatch"
      BY <1>3, <2>2 DEF IsCall
    <3>2. rg.goal.arg \in Args \cup {ClauseVar}
      BY <1>1, <1>4, <3>1, SourceGoal, GoalsAssumption
    <3>. QED
      BY <1>1, <1>4, <2>2, <3>2, ArgOfType DEF FirstArg
  <2>. QED
    BY <2>1, <2>2
<1>6. Clauses \in Seq(Rules(ns, nc))
  BY <1>1, <1>3, <1>4, ClausesType DEF Clauses, TypeAt
<1>7. Match \in Nat /\ (Match # 0 => Match \in 1 .. Len(Clauses))
  <2>1. Len(Clauses) \in Nat /\ try.idx \in Nat \ {0}
    BY <1>1, <1>6, LenProperties DEF TypeAt
  <2>2. Match \in Nat /\ (Match # 0 => Match \in try.idx .. Len(Clauses))
    BY <2>1, BucketMatchType DEF Match
  <2>. QED
    BY <2>1, <2>2
<1>8. NextMatch \in Nat
  <2>1. Len(Clauses) \in Nat /\ Match + 1 \in Nat \ {0}
    BY <1>6, <1>7, LenProperties
  <2>. QED
    BY <2>1, BucketMatchType DEF NextMatch
<1>9. ASSUME Match # 0
      PROVE  Clauses[Match].head \in Values /\ Clauses[Match].body \in Conj(ns, nc)
  <2>1. Clauses[Match] \in Rules(ns, nc)
    BY <1>6, <1>7, <1>9, ElementOfSeq
  <2>. QED
    BY <2>1 DEF Rules
<1>. QED
  BY <1>3, <1>4, <1>5, <1>7, <1>8, <1>9

LEMMA NoClauseType == TypeOK /\ NoClause => TypeOK'
<1> SUFFICES ASSUME TypeOK, NoClause PROVE TypeOK'
  OBVIOUS
<1> DEFINE ns == Len(stack)
           nc == Len(catches)
<1>1. TypeAt(ns, nc)
  BY TypeOKAt
<1>2. ball' \in [val : Values, ref : Args] /\ cn' = cn /\ pc' \in {"C", "T"}
  BY <1>1, TermsAssumption DEF NoClause, Raise, Backtrack, TypeAt, Args, Values
<1>. QED
  BY <1>1, <1>2
  DEF NoClause, TypeAt, TypeOK, Stores, host, frames, catching, nesting

LEMMA HeadMismatchType == TypeOK /\ HeadMismatch => TypeOK'
<1> SUFFICES ASSUME TypeOK, HeadMismatch PROVE TypeOK'
  OBVIOUS
<1> DEFINE ns == Len(stack)
           nc == Len(catches)
<1>1. TypeAt(ns, nc)
  BY TypeOKAt
<1>2. store' \in Stores
  BY <1>1, TrailReleaseType DEF HeadMismatch, TypeAt
<1>3. cn' = cn /\ ball' = ball /\ pc' \in {"B", "C"}
  BY DEF HeadMismatch, Backtrack
<1>4. try' \in [idx : Nat \ {0}, tmark : Nat, barrier : 0 .. ns]
  <2>1. NextMatch \in Nat
    BY AtB DEF HeadMismatch
  <2>. QED
    BY <1>1, <2>1 DEF HeadMismatch, TypeAt
<1>5. pc' = "B" => cn \in Calling(ns, nc)
  BY <1>1 DEF HeadMismatch, TypeAt
<1>. QED
  BY <1>1, <1>2, <1>3, <1>4, <1>5
  DEF HeadMismatch, TypeAt, TypeOK, Stores, host, frames, catching, nesting

LEMMA ResolveType == TypeOK /\ Resolve => TypeOK'
<1> SUFFICES ASSUME TypeOK, Resolve PROVE TypeOK'
  OBVIOUS
<1> DEFINE ns == Len(stack)
           nc == Len(catches)
           ms == Len(stack')
           s == TrailRelease(store, try.tmark)
           a == FirstArg(Head(cn))
           frame == [goals |-> cn, idx |-> NextMatch, tmark |-> try.tmark,
                     barrier |-> try.barrier, active_catch |-> active_catch]
<1>1. TypeAt(ns, nc) /\ ns \in Nat /\ nc \in Nat
  BY TypeOKAt, Lengths
<1>2. /\ pc = "B" /\ cn \in Calling(ns, nc) /\ Match # 0 /\ NextMatch \in Nat
      /\ a \in Args /\ Rest \in Conj(ns, nc)
      /\ Clauses[Match].head \in Values /\ Clauses[Match].body \in Conj(ns, nc)
  BY <1>1, AtB DEF Resolve, TypeAt
<1>3. store' \in Stores
  <2>1. s \in Stores
    BY <1>1, TrailReleaseType DEF TypeAt
  <2>. QED
    BY <1>2, <2>1, UnifyType DEF Resolve
<1>4. /\ stack' \in Seq(Frame(ns, nc))
      /\ ms \in Nat /\ ns <= ms /\ sp' \in 0 .. ms
  <2>1. CASE NextMatch = 0
    BY <1>1, <2>1 DEF Resolve, frames, TypeAt
  <2>2. CASE NextMatch # 0
    <3>1. frame \in Frame(ns, nc)
      BY <1>1, <1>2, <2>2 DEF Frame, TypeAt
    <3>2. stack' = Push(stack, sp, frame) /\ sp' = sp + 1
      BY <2>2 DEF Resolve
    <3>3. sp \in 0 .. ns /\ stack \in Seq(Frame(ns, nc))
      BY <1>1 DEF TypeAt
    <3>. QED
      BY <1>1, <3>1, <3>2, <3>3, PushSeq, LenProperties
  <2>. QED
    BY <2>1, <2>2
<1>5. TypeAt(ms, nc)
  BY <1>1, <1>4, TypeAtGrows
<1>6. stack' \in Seq(Frame(ms, nc))
  BY <1>1, <1>4, Grow
<1>7. cn' \in Conj(ms, nc)
  <2>1. Clauses[Match].body \in Conj(ms, nc) /\ Rest \in Conj(ms, nc)
    BY <1>1, <1>2, <1>4, Grow
  <2>. QED
    BY <2>1, ConcatSeq DEF Resolve, Conj
<1>. QED
  BY <1>3, <1>4, <1>5, <1>6, <1>7
  DEF Resolve, TypeAt, TypeOK, Stores, host, catching, nesting

LEMMA ExhaustedType == TypeOK /\ Exhausted => TypeOK'
<1> SUFFICES ASSUME TypeOK, Exhausted PROVE TypeOK'
  OBVIOUS
<1>1. TypeAt(Len(stack), Len(catches))
  BY TypeOKAt
<1>2. EndsTyped(Len(stack), Len(catches))
  BY EndQueryType DEF Exhausted
<1>. QED
  BY <1>1, <1>2 DEF Exhausted, EndsTyped, TypeAt, TypeOK, Stores

LEMMA UncaughtType == TypeOK /\ Uncaught => TypeOK'
<1> SUFFICES ASSUME TypeOK, Uncaught PROVE TypeOK'
  OBVIOUS
<1>1. TypeAt(Len(stack), Len(catches))
  BY TypeOKAt
<1>2. EndsTyped(Len(stack), Len(catches))
  BY EndQueryType DEF Uncaught
<1>. QED
  BY <1>1, <1>2 DEF Uncaught, EndsTyped, TypeAt, TypeOK, Stores

LEMMA RetryType == TypeOK /\ Retry => TypeOK'
<1> SUFFICES ASSUME TypeOK, Retry PROVE TypeOK'
  OBVIOUS
<1> DEFINE ns == Len(stack)
           nc == Len(catches)
           f == stack[sp]
<1>1. TypeAt(ns, nc) /\ ns \in Nat /\ nc \in Nat
  BY TypeOKAt, Lengths
<1>2. sp \in 1 .. ns
  BY <1>1 DEF Retry, TypeAt
<1>3. f \in Frame(ns, nc)
  BY <1>1, <1>2, ElementOfSeq DEF TypeAt
<1>4. store' \in Stores
  BY <1>1, <1>3, TrailReleaseType DEF Retry, TypeAt, Frame
<1>5. cn' \in Calling(ns, nc) /\ cn' \in Conj(ns, nc) /\ active_catch' \in 0 .. nc
  BY <1>3 DEF Retry, Frame, Calling
<1>6. try' \in [idx : Nat \ {0}, tmark : Nat, barrier : 0 .. ns]
  BY <1>3 DEF Retry, Frame
<1>7. sp' \in 0 .. ns
  BY <1>1, <1>2 DEF Retry
<1>. QED
  BY <1>1, <1>4, <1>5, <1>6, <1>7 DEF Retry, TypeAt, TypeOK, Stores, host, nesting

LEMMA TryCatchType == TypeOK /\ TryCatch => TypeOK'
<1> SUFFICES ASSUME TypeOK, TryCatch PROVE TypeOK'
  OBVIOUS
<1> DEFINE ns == Len(stack)
           nc == Len(catches)
           entry == catches[active_catch]
           s == TrailRelease(store, entry.tmark)
<1>1. TypeAt(ns, nc) /\ ns \in Nat /\ nc \in Nat
  BY TypeOKAt, Lengths
<1>2. active_catch \in 1 .. nc
  BY <1>1 DEF TryCatch, TypeAt, NoCatch
<1>3. entry \in CatchEntry(ns, nc)
  BY <1>1, <1>2, ElementOfSeq DEF TypeAt
<1>4. s \in Stores
  BY <1>1, <1>3, TrailReleaseType DEF TypeAt, CatchEntry
<1>5. store' \in Stores
  <2>1. Unify(s, entry.catcher, ball.val) \in Stores
    BY <1>1, <1>3, <1>4, UnifyType DEF TypeAt, CatchEntry
  <2>. QED
    BY <1>4, <2>1 DEF TryCatch
<1>6. cn' \in Conj(ns, nc) /\ pc' \in {"A", "T"}
  <2>1. entry.recovery \o entry.continuation \in Conj(ns, nc)
    BY <1>3, ConcatSeq DEF CatchEntry, Conj
  <2>. QED
    BY <1>1, <2>1 DEF TryCatch, TypeAt
<1>7. sp' \in 0 .. ns /\ active_catch' \in 0 .. nc
  BY <1>3 DEF TryCatch, CatchEntry
<1>. QED
  BY <1>1, <1>5, <1>6, <1>7 DEF TryCatch, TypeAt, TypeOK, Stores, host, nesting

LEMMA HeapExhaustedType == TypeOK /\ HeapExhausted => TypeOK'
<1> SUFFICES ASSUME TypeOK, HeapExhausted PROVE TypeOK'
  OBVIOUS
<1>1. TypeAt(Len(stack), Len(catches))
  BY TypeOKAt
<1>2. ball' \in [val : Values, ref : Args]
  BY TermsAssumption DEF HeapExhausted, Raise, Args, Values
<1>. QED
  BY <1>1, <1>2
  DEF HeapExhausted, Raise, TypeAt, TypeOK, Stores, host, frames, catching, nesting

\* However many entries are live, the new index of one stays in the array.
LEMMA CountBound ==
  ASSUME NEW n \in Nat, NEW live, live \subseteq 1 .. n
  PROVE  Cardinality(live) \in 0 .. n
<1>1. IsFiniteSet(1 .. n) /\ Cardinality(1 .. n) = n
  BY FS_Interval
<1>2. IsFiniteSet(live) /\ Cardinality(live) <= Cardinality(1 .. n)
  BY <1>1, FS_Subset
<1>3. Cardinality(live) \in Nat
  BY <1>2, FS_CardinalityType
<1>. QED
  BY <1>1, <1>2, <1>3

LEMMA GcType == TypeOK /\ Gc => TypeOK'
<1> SUFFICES ASSUME TypeOK, Gc PROVE TypeOK'
  OBVIOUS
<1> DEFINE ns == Len(stack)
           nc == Len(catches)
           live == LiveCatches
           New(i) == Cardinality({j \in live : j <= i})
           moved == [i \in 1 .. nc |->
                       IF i \in live THEN [catches[i] EXCEPT !.outer = New(@)] ELSE catches[i]]
           slid(i) == IF \E j \in live : New(j) = i
                      THEN moved[CHOOSE j \in live : New(j) = i] ELSE moved[i]
           frame(i) == IF i <= sp THEN [stack[i] EXCEPT !.active_catch = New(@)] ELSE stack[i]
<1>1. TypeAt(ns, nc) /\ ns \in Nat /\ nc \in Nat
  BY TypeOKAt, Lengths
<1>2. live \subseteq 1 .. catch_sp /\ live \subseteq 1 .. nc /\ catch_sp \in Nat
  BY <1>1 DEF LiveCatches, TypeAt
<1>3. Cardinality(live) \in 0 .. nc
  BY <1>1, <1>2, CountBound
<1> HIDE DEF live
<1>4. ASSUME NEW i
      PROVE  New(i) \in 0 .. nc
  BY <1>1, <1>2, CountBound
<1> HIDE DEF New
<1>5. ASSUME NEW i \in 1 .. nc
      PROVE  moved[i] \in CatchEntry(ns, nc)
  <2>1. catches[i] \in CatchEntry(ns, nc)
    BY <1>1, <1>5, ElementOfSeq DEF TypeAt
  <2>2. [catches[i] EXCEPT !.outer = New(catches[i].outer)] \in CatchEntry(ns, nc)
    BY <2>1, <1>4 DEF CatchEntry
  <2>. QED
    BY <2>1, <2>2, <1>5
<1> HIDE DEF moved
<1>6. ASSUME NEW i \in 1 .. nc
      PROVE  slid(i) \in CatchEntry(ns, nc)
  <2>1. CASE \E j \in live : New(j) = i
    <3>1. (CHOOSE j \in live : New(j) = i) \in 1 .. nc
      BY <1>2, <2>1
    <3>. QED
      BY <1>5, <2>1, <3>1
  <2>2. CASE ~\E j \in live : New(j) = i
    BY <1>5, <2>2
  <2>. QED
    BY <2>1, <2>2
<1>7. ASSUME NEW i \in 1 .. ns
      PROVE  frame(i) \in Frame(ns, nc)
  <2>1. stack[i] \in Frame(ns, nc)
    BY <1>1, <1>7, ElementOfSeq DEF TypeAt
  <2>2. [stack[i] EXCEPT !.active_catch = New(stack[i].active_catch)] \in Frame(ns, nc)
    BY <2>1, <1>4 DEF Frame
  <2>. QED
    BY <2>1, <2>2
<1>8. /\ catches' = [i \in 1 .. nc |-> slid(i)]
      /\ catch_sp' = Cardinality(live)
      /\ active_catch' = New(active_catch)
      /\ stack' = [i \in 1 .. ns |-> frame(i)]
  BY DEF Gc, CompactCatches, live, New, moved
<1> HIDE DEF slid, frame
<1>9. stack' \in Seq(Frame(ns, nc)) /\ Len(stack') = ns
  BY <1>1, <1>7, <1>8, SeqDef, LenProperties
<1>10. catches' \in Seq(CatchEntry(ns, nc)) /\ Len(catches') = nc
  BY <1>1, <1>6, <1>8, SeqDef, LenProperties
<1>11. catch_sp' \in 0 .. nc /\ active_catch' \in 0 .. nc
  BY <1>3, <1>4, <1>8
<1>. QED
  BY <1>1, <1>9, <1>10, <1>11 DEF Gc, TypeAt, TypeOK, Stores, host, nesting

LEMMA NextType == TypeOK /\ [Next]_vars => TypeOK'
<1> SUFFICES ASSUME TypeOK, [Next]_vars PROVE TypeOK'
  OBVIOUS
<1>1. CASE Next
  BY <1>1, SolutionType, CutType, Call1Type, CatchType, DoUncatchType, ThrowType,
     BuiltinType, ConsultType, CallType, NoClauseType, HeadMismatchType, ResolveType,
     ExhaustedType, RetryType, TryCatchType, UncaughtType, GcType, HeapExhaustedType
  DEF Next, Done, vars, TypeOK
<1>2. CASE UNCHANGED vars
  BY <1>2 DEF vars, TypeOK
<1>. QED
  BY <1>1, <1>2

\* No index the engine stores ever leads outside the array it indexes: a cut
\* barrier baked into a goal, a frame's or a catch's link, the index '$$uncatch'
\* carries, whatever was cut, thrown or collected before (solve.c, gc.c).
THEOREM TypeCorrect == Spec => []TypeOK
<1>. QED
  BY InitType, NextType, PTL DEF Spec

(***************************************************************************)
(* The trail.  It is exact by induction over the steps: a binding is made  *)
(* of an unbound variable only, and a release unbinds what it drops.       *)
(***************************************************************************)
Exact(s) ==
  /\ \A v \in Vars : s.val[v] # Fresh <=> \E i \in 1 .. Len(s.trail) : s.trail[i] = v
  /\ \A i, j \in 1 .. Len(s.trail) : i # j => s.trail[i] # s.trail[j]

LEMMA UnifyExact ==
  ASSUME NEW s \in Stores, Exact(s), NEW a \in Args, NEW t \in Values
  PROVE  Exact(Unify(s, a, t))
<1> DEFINE n == Len(s.trail)
           val == [s.val EXCEPT ![a] = t]
           trail == Append(s.trail, a)
<1>1. CASE a \in Vars /\ s.val[a] = Fresh /\ t # Fresh
  <2>1. n \in Nat /\ s.val \in [Vars -> Values] /\ s.trail \in Seq(Vars)
    BY LenProperties DEF Stores
  <2>2. /\ Len(trail) = n + 1 /\ trail[n + 1] = a
        /\ \A i \in 1 .. n : trail[i] = s.trail[i]
    BY <1>1, <2>1, AppendProperties
  <2>3. \A v \in Vars : val[v] = IF v = a THEN t ELSE s.val[v]
    BY <1>1, <2>1
  <2>4. \A i \in 1 .. n : s.trail[i] # a
    BY <1>1 DEF Exact
  <2>5. Unify(s, a, t) = [val |-> val, trail |-> trail]
    BY <1>1 DEF Unify
  <2> HIDE DEF val, trail
  <2>6. \A v \in Vars : val[v] # Fresh <=> \E i \in 1 .. Len(trail) : trail[i] = v
    <3> SUFFICES ASSUME NEW v \in Vars
                 PROVE  val[v] # Fresh <=> \E i \in 1 .. n + 1 : trail[i] = v
      BY <2>2
    <3>1. CASE v = a
      <4>1. val[v] # Fresh
        BY <1>1, <2>3, <3>1
      <4>2. n + 1 \in 1 .. n + 1 /\ trail[n + 1] = v
        BY <2>1, <2>2, <3>1
      <4>. QED
        BY <4>1, <4>2
    <3>2. CASE v # a
      <4>1. val[v] # Fresh <=> \E i \in 1 .. n : s.trail[i] = v
        BY <2>3, <3>2 DEF Exact
      <4>2. (\E i \in 1 .. n + 1 : trail[i] = v) <=> \E i \in 1 .. n : s.trail[i] = v
        BY <2>1, <2>2, <3>2
      <4>. QED
        BY <4>1, <4>2
    <3>. QED
      BY <3>1, <3>2
  <2>7. \A i, j \in 1 .. Len(trail) : i # j => trail[i] # trail[j]
    BY <2>1, <2>2, <2>4 DEF Exact
  <2>. QED
    BY <2>5, <2>6, <2>7 DEF Exact
<1>2. CASE ~(a \in Vars /\ s.val[a] = Fresh /\ t # Fresh)
  BY <1>2 DEF Unify
<1>. QED
  BY <1>1, <1>2

LEMMA TrailReleaseExact ==
  ASSUME NEW s \in Stores, Exact(s), NEW mark \in Nat
  PROVE  Exact(TrailRelease(s, mark))
<1> DEFINE n == Len(s.trail)
           undone == {s.trail[i] : i \in mark + 1 .. n}
           val == [v \in Vars |-> IF v \in undone THEN Fresh ELSE s.val[v]]
           trail == SubSeq(s.trail, 1, mark)
<1>1. CASE mark >= n
  BY <1>1 DEF TrailRelease
<1>2. CASE ~(mark >= n)
  <2>1. n \in Nat /\ s.trail \in Seq(Vars) /\ mark < n
    BY <1>2, LenProperties DEF Stores
  <2>2. \A i \in 1 .. mark : s.trail[i] \in Vars
    BY <2>1, ElementOfSeq
  <2>3. Len(trail) = mark /\ \A i \in 1 .. mark : trail[i] = s.trail[i]
    BY <2>1, <2>2, SubSeqProperties
  <2>4. TrailRelease(s, mark) = [val |-> val, trail |-> trail]
    BY <1>2 DEF TrailRelease
  <2>5. ASSUME NEW v \in Vars
        PROVE  v \in undone <=> \E i \in mark + 1 .. n : s.trail[i] = v
    OBVIOUS
  <2>6. \A v \in Vars : val[v] = IF v \in undone THEN Fresh ELSE s.val[v]
    OBVIOUS
  <2> HIDE DEF val, trail, undone
  <2>7. ASSUME NEW v \in Vars
        PROVE  val[v] # Fresh <=> \E i \in 1 .. mark : s.trail[i] = v
    <3>1. s.val[v] # Fresh <=> \E i \in 1 .. n : s.trail[i] = v
      BY DEF Exact
    <3>2. CASE v \in undone
      <4>1. PICK j \in mark + 1 .. n : s.trail[j] = v
        BY <2>5, <3>2
      <4>2. \A i \in 1 .. mark : i \in 1 .. n /\ j \in 1 .. n /\ i # j
        BY <2>1
      <4>3. \A i \in 1 .. mark : s.trail[i] # v
        BY <4>1, <4>2 DEF Exact
      <4>. QED
        BY <2>6, <3>2, <4>3
    <3>3. CASE v \notin undone
      <4>1. (\E i \in 1 .. n : s.trail[i] = v) <=> \E i \in 1 .. mark : s.trail[i] = v
        BY <2>1, <2>5, <3>3
      <4>. QED
        BY <2>6, <3>1, <3>3, <4>1
    <3>. QED
      BY <3>2, <3>3
  <2>8. \A i, j \in 1 .. mark : i # j => trail[i] # trail[j]
    BY <2>1, <2>3 DEF Exact
  <2>9. \A v \in Vars : val[v] # Fresh <=> \E i \in 1 .. mark : trail[i] = v
    BY <2>3, <2>7
  <2>. QED
    BY <2>3, <2>4, <2>8, <2>9 DEF Exact
<1>. QED
  BY <1>1, <1>2

LEMMA EndQueryExact ==
  ASSUME TypeOK, Exact(store), NEW result, EndQuery(result)
  PROVE  Exact(store')
<1>1. store \in Stores /\ outer \in Seq(Suspended(Len(stack), Len(catches)))
  BY DEF TypeOK, Stores
<1>2. CASE outer = <<>>
  BY <1>2 DEF EndQuery
<1>3. CASE outer # <<>>
  <2>1. Len(outer) \in 1 .. Len(outer)
    BY <1>1, <1>3, EmptySeq, LenProperties
  <2>2. outer[Len(outer)].tmark \in Nat
    <3>1. outer[Len(outer)] \in Suspended(Len(stack), Len(catches))
      BY <1>1, <2>1, ElementOfSeq
    <3>. QED
      BY <3>1 DEF Suspended
  <2>3. store' = TrailRelease(store, outer[Len(outer)].tmark)
    BY <1>3 DEF EndQuery
  <2>. QED
    BY <1>1, <2>2, <2>3, TrailReleaseExact
<1>. QED
  BY <1>2, <1>3

LEMMA NextExact == TypeOK /\ Exact(store) /\ [Next]_vars => Exact(store')
<1> SUFFICES ASSUME TypeOK, Exact(store), [Next]_vars PROVE Exact(store')
  OBVIOUS
<1> DEFINE ns == Len(stack)
           nc == Len(catches)
<1>1. TypeAt(ns, nc) /\ ns \in Nat /\ nc \in Nat /\ store \in Stores
  BY TypeOKAt, Lengths DEF TypeAt
<1>2. CASE Builtin
  <2> DEFINE rg == Head(cn)
             a == ArgOf(rg.goal.arg, rg)
  <2>1. CASE rg.goal.op = "unify" /\ CanUnify(store, a, rg.goal.to)
    <3>1. rg \in HeapGoals(ns, nc) /\ rg.goal \in Goals
      BY <1>1, <1>2, HeadType, SourceGoal DEF TypeAt, Builtin, At
    <3>2. rg.goal.arg \in Args \cup {ClauseVar} /\ rg.goal.to \in Values
      BY <2>1, <3>1, GoalsAssumption
    <3>3. a \in Args
      BY <1>1, <3>1, <3>2, ArgOfType
    <3>. QED
      BY <1>1, <1>2, <2>1, <3>2, <3>3, UnifyExact DEF Builtin
  <2>2. CASE ~(rg.goal.op = "unify" /\ CanUnify(store, a, rg.goal.to))
    BY <1>2, <2>2 DEF Builtin
  <2>. QED
    BY <2>1, <2>2
<1>3. CASE HeadMismatch
  <2>1. try.tmark \in Nat
    BY <1>1 DEF TypeAt
  <2>. QED
    BY <1>1, <1>3, <2>1, TrailReleaseExact DEF HeadMismatch
<1>4. CASE Resolve
  <2> DEFINE s == TrailRelease(store, try.tmark)
  <2>1. try.tmark \in Nat
    BY <1>1 DEF TypeAt
  <2>2. s \in Stores /\ Exact(s)
    BY <1>1, <2>1, TrailReleaseType, TrailReleaseExact
  <2>3. FirstArg(Head(cn)) \in Args /\ Clauses[Match].head \in Values
    BY <1>4, AtB DEF Resolve
  <2>. QED
    BY <1>4, <2>2, <2>3, UnifyExact DEF Resolve
<1>5. CASE Retry
  <2>1. sp \in 1 .. ns /\ stack \in Seq(Frame(ns, nc))
    BY <1>1, <1>5 DEF Retry, TypeAt
  <2>2. stack[sp].tmark \in Nat
    <3>1. stack[sp] \in Frame(ns, nc)
      BY <2>1, ElementOfSeq
    <3>. QED
      BY <3>1 DEF Frame
  <2>. QED
    BY <1>1, <1>5, <2>2, TrailReleaseExact DEF Retry
<1>6. CASE TryCatch
  <2> DEFINE entry == catches[active_catch]
             s == TrailRelease(store, entry.tmark)
  <2>1. active_catch \in 1 .. nc /\ catches \in Seq(CatchEntry(ns, nc))
    BY <1>1, <1>6 DEF TryCatch, TypeAt, NoCatch
  <2>2. entry.tmark \in Nat /\ entry.catcher \in Args
    <3>1. entry \in CatchEntry(ns, nc)
      BY <2>1, ElementOfSeq
    <3>. QED
      BY <3>1 DEF CatchEntry
  <2>3. s \in Stores /\ Exact(s)
    BY <1>1, <2>2, TrailReleaseType, TrailReleaseExact
  <2>4. ball.val \in Values
    BY <1>1 DEF TypeAt
  <2>5. Exact(Unify(s, entry.catcher, ball.val))
    BY <2>2, <2>3, <2>4, UnifyExact
  <2>. QED
    BY <1>6, <2>3, <2>5 DEF TryCatch
<1>7. CASE Solution
  <2>1. CASE EndQuery("true")
    BY <2>1, EndQueryExact
  <2>2. CASE UNCHANGED store
    BY <2>2
  <2>. QED
    BY <1>7, <2>1, <2>2 DEF Solution
<1>8. CASE Exhausted
  BY <1>8, EndQueryExact DEF Exhausted
<1>9. CASE Uncaught
  BY <1>9, EndQueryExact DEF Uncaught
<1>10. CASE UNCHANGED store
  BY <1>10
<1>11. Next \/ UNCHANGED vars => UNCHANGED store \/ Builtin \/ HeadMismatch \/ Resolve
                                 \/ Retry \/ TryCatch \/ Solution \/ Exhausted \/ Uncaught
  BY DEF Next, Cut, Call1, Catch, DoUncatch, Throw, Consult, Call, NoClause, Gc,
         HeapExhausted, Done, vars
<1>. QED
  BY <1>2, <1>3, <1>4, <1>5, <1>6, <1>7, <1>8, <1>9, <1>10, <1>11

\* Undoing the trail to a mark unbinds exactly what was bound since the mark:
\* heap_bind trails every binding once and trail_release forgets none
\* (heap.c:105-121), through every retry, cut, catch and nested query.
THEOREM TrailAlwaysExact == Spec => []TrailExact
<1>1. Init => Exact(store)
  BY DEF Init, Exact
<1>2. Exact(store) /\ TypeOK /\ [Next]_vars => Exact(store)'
  BY NextExact DEF Exact
<1>3. Exact(store) => TrailExact
  BY DEF Exact, TrailExact
<1>. QED
  BY <1>1, <1>2, <1>3, TypeCorrect, PTL DEF Spec

(***************************************************************************)
(* What the catches, the cuts and the nested queries promise each other,   *)
(* for every set of programs whose cuts are local and which run without    *)
(* collections (each of the two is a finding without it, see               *)
(* MCSolverFindings).                                                      *)
(*                                                                         *)
(* The invariant is about continuations.  Each goal of one that may take   *)
(* the stack down, a `!' or a '$$uncatch', has a level it takes it to; the *)
(* levels fall along the continuation, so that whatever has been run of it *)
(* what is left fits the stack.  A nested query puts a fence on both       *)
(* stacks, and no level and no catch index of its own is below it.         *)
(***************************************************************************)

\* The goals that may cut the clause they are in.
Cutting == CHOOSE C : CutsAreLocal(Goals, C)

(***************************************************************************)
(* A continuation, with the catch stack cs it refers to.                   *)
(***************************************************************************)
IsMark(rg) == rg.goal.op = "uncatch"
HasLevel(rg) == IsMark(rg) \/ (rg.goal \in Cutting /\ rg.n # Raw)
Level(cs, rg) == IF IsMark(rg) THEN cs[rg.n].sp_at_entry ELSE rg.n

\* The levels are within lo .. hi and fall.
Levels(cs, goals, lo, hi) ==
  /\ \A i \in 1 .. Len(goals) : HasLevel(goals[i]) => Level(cs, goals[i]) \in lo .. hi
  /\ \A i, j \in 1 .. Len(goals) :
       i < j /\ HasLevel(goals[i]) /\ HasLevel(goals[j])
         => Level(cs, goals[j]) <= Level(cs, goals[i])

\* The catch in scope after the goals up to the i-th, when idx is before them.
ScopeAfter(cs, goals, idx, i) == IF i = 0 THEN idx ELSE cs[goals[i].n].outer

\* The marks name the catches from idx outwards, as InsideOf says.
Closes(cs, goals, idx) ==
  \A i \in {0} \cup Marks(goals) :
    IF ScopeAfter(cs, goals, idx, i) = NoCatch THEN \A j \in Marks(goals) : j <= i
    ELSE \E j \in Marks(goals) :
           NextMark(goals, i, j) /\ goals[j].n = ScopeAfter(cs, goals, idx, i)

\* The catches it refers to are entries above lo, up to hi.
RefersTo(goals, idx, lo, hi) ==
  /\ idx = NoCatch \/ idx \in lo + 1 .. hi
  /\ \A i \in Marks(goals) : goals[i].n \in lo + 1 .. hi

\* The continuation of a query whose stacks begin at b and lo, when they have
\* s frames and hi entries.
Scoped(cs, goals, idx, b, s, lo, hi) ==
  Closes(cs, goals, idx) /\ Levels(cs, goals, b, s) /\ RefersTo(goals, idx, lo, hi)

LEMMA InsideOfCloses ==
  ASSUME NEW goals, NEW idx, ~prog.gc
  PROVE  InsideOf(goals, idx) <=> Closes(catches, goals, idx)
BY DEF InsideOf, Closes, ScopeAfter

(***************************************************************************)
(* Positions of a longer sequence.                                         *)
(***************************************************************************)
\* goals is the end of longer, p positions further on.
EndsWith(longer, p, goals) ==
  /\ Len(longer) = p + Len(goals)
  /\ \A i \in 1 .. Len(goals) : longer[p + i] = goals[i]

LEMMA ConcatEnds ==
  ASSUME NEW S, NEW s \in Seq(S), NEW t \in Seq(S)
  PROVE  /\ EndsWith(s \o t, Len(s), t)
         /\ \A i \in 1 .. Len(s) : (s \o t)[i] = s[i]
         /\ s \o t \in Seq(S) /\ Len(s) \in Nat /\ Len(t) \in Nat
<1>1. Len(s) \in Nat /\ Len(t) \in Nat
  BY LenProperties
<1>2. Len(s \o t) = Len(s) + Len(t) /\ s \o t \in Seq(S)
  BY ConcatProperties
<1>3. \A i \in 1 .. Len(s) + Len(t) :
        (s \o t)[i] = IF i <= Len(s) THEN s[i] ELSE t[i - Len(s)]
  BY ConcatProperties
<1>4. ASSUME NEW i \in 1 .. Len(t)
      PROVE  (s \o t)[Len(s) + i] = t[i]
  <2>1. Len(s) + i \in 1 .. Len(s) + Len(t) /\ ~(Len(s) + i <= Len(s)) /\ Len(s) + i - Len(s) = i
    BY <1>1
  <2>. QED
    BY <1>3, <2>1
<1>5. ASSUME NEW i \in 1 .. Len(s)
      PROVE  (s \o t)[i] = s[i]
  <2>1. i \in 1 .. Len(s) + Len(t) /\ i <= Len(s)
    BY <1>1
  <2>. QED
    BY <1>3, <2>1
<1>. QED
  BY <1>1, <1>2, <1>4, <1>5 DEF EndsWith

LEMMA TailEnds ==
  ASSUME NEW S, NEW s \in Seq(S), s # <<>>
  PROVE  /\ EndsWith(s, 1, Tail(s)) /\ s[1] = Head(s)
         /\ Tail(s) \in Seq(S) /\ Len(Tail(s)) \in Nat
<1>1. /\ Head(s) = s[1] /\ Tail(s) \in Seq(S) /\ Len(Tail(s)) = Len(s) - 1
      /\ \A i \in 1 .. Len(Tail(s)) : Tail(s)[i] = s[i + 1]
  BY HeadTailProperties
<1>2. Len(s) \in Nat /\ Len(Tail(s)) \in Nat
  BY <1>1, LenProperties
<1>3. \A i \in 1 .. Len(Tail(s)) : 1 + i = i + 1
  OBVIOUS
<1>4. Len(s) = 1 + Len(Tail(s))
  BY <1>1, <1>2
<1>. QED
  BY <1>1, <1>2, <1>3, <1>4 DEF EndsWith

\* Marks of the end are marks of the whole, and the other way round when there
\* are none before it.
LEMMA MarksOfEnd ==
  ASSUME NEW longer, NEW p \in Nat, NEW goals, Len(goals) \in Nat,
         EndsWith(longer, p, goals)
  PROVE  /\ \A i \in Marks(goals) : i \in 1 .. Len(goals) /\ p + i \in Marks(longer)
         /\ \A m \in Marks(longer) :
              m \in 1 .. p + Len(goals) /\ (p < m => m - p \in Marks(goals))
<1>1. ASSUME NEW i \in Marks(goals)
      PROVE  i \in 1 .. Len(goals) /\ p + i \in Marks(longer)
  <2>1. i \in 1 .. Len(goals) /\ goals[i].goal.op = "uncatch"
    BY DEF Marks
  <2>2. p + i \in 1 .. Len(longer) /\ longer[p + i] = goals[i]
    BY <2>1 DEF EndsWith
  <2>. QED
    BY <2>1, <2>2 DEF Marks
<1>2. ASSUME NEW m \in Marks(longer), p < m
      PROVE  m - p \in Marks(goals)
  <2>1. m \in 1 .. p + Len(goals) /\ longer[m].goal.op = "uncatch"
    BY DEF Marks, EndsWith
  <2>2. m - p \in 1 .. Len(goals) /\ p + (m - p) = m
    BY <1>2, <2>1
  <2>3. longer[m] = goals[m - p]
    BY <2>2 DEF EndsWith
  <2>. QED
    BY <2>1, <2>2, <2>3 DEF Marks
<1>3. \A m \in Marks(longer) : m \in 1 .. p + Len(goals)
  BY DEF Marks, EndsWith
<1>. QED
  BY <1>1, <1>2, <1>3

(***************************************************************************)
(* Continuations joined and taken apart.                                   *)
(***************************************************************************)
LEMMA ClosesPast ==
  ASSUME NEW cs, NEW idx, NEW longer, NEW p \in Nat, NEW goals, Len(goals) \in Nat,
         EndsWith(longer, p, goals), \A m \in Marks(longer) : p < m
  PROVE  Closes(cs, longer, idx) <=> Closes(cs, goals, idx)
<1> DEFINE MG == Marks(goals)
           ML == Marks(longer)
           S(i) == ScopeAfter(cs, goals, idx, i)
           L(m) == ScopeAfter(cs, longer, idx, m)
           At0(i) == IF i = 0 THEN 0 ELSE p + i
<1>1. \A i \in MG : i \in 1 .. Len(goals) /\ p + i \in ML /\ longer[p + i] = goals[i]
  BY MarksOfEnd DEF EndsWith
<1>2. \A m \in ML : m \in 1 .. p + Len(goals) /\ p < m /\ m - p \in MG /\ p + (m - p) = m
  BY MarksOfEnd
<1>3. \A i \in {0} \cup MG : L(At0(i)) = S(i)
  BY <1>1 DEF ScopeAfter
<1>4. ASSUME NEW i \in {0} \cup MG
      PROVE  At0(i) \in {0} \cup ML /\ At0(i) \in Nat /\ i \in Nat
  BY <1>1
<1>5. ASSUME NEW m \in {0} \cup ML
      PROVE  \E i \in {0} \cup MG : At0(i) = m
  <2>1. CASE m = 0
    BY <2>1
  <2>2. CASE m # 0
    <3>1. m - p \in MG /\ p + (m - p) = m
      BY <1>2, <2>2
    <3>2. m - p # 0
      BY <1>1, <3>1
    <3>. QED
      BY <3>1, <3>2
  <2>. QED
    BY <2>1, <2>2
<1>6. ASSUME NEW i \in {0} \cup MG, NEW j \in MG
      PROVE  i < j <=> At0(i) < p + j
  BY <1>1
<1>7. ASSUME NEW i \in {0} \cup MG, NEW j \in MG
      PROVE  NextMark(goals, i, j) <=> NextMark(longer, At0(i), p + j)
  <2>1. j \in 1 .. Len(goals) /\ p + j \in ML
    BY <1>1
  <2>2. ASSUME NextMark(goals, i, j)
        PROVE  NextMark(longer, At0(i), p + j)
    <3>1. i < j /\ \A k \in MG : i < k => j <= k
      BY <2>2 DEF NextMark
    <3>2. ASSUME NEW m \in ML, At0(i) < m
          PROVE  p + j <= m
      <4>1. m - p \in MG /\ p + (m - p) = m /\ m \in Nat
        BY <1>2
      <4>2. i < m - p
        BY <1>6, <3>2, <4>1
      <4>3. j <= m - p
        BY <3>1, <4>1, <4>2
      <4>. QED
        BY <2>1, <4>1, <4>3
    <3>. QED
      BY <1>6, <2>1, <3>1, <3>2 DEF NextMark
  <2>3. ASSUME NextMark(longer, At0(i), p + j)
        PROVE  NextMark(goals, i, j)
    <3>1. At0(i) < p + j /\ \A m \in ML : At0(i) < m => p + j <= m
      BY <2>3 DEF NextMark
    <3>2. ASSUME NEW k \in MG, i < k
          PROVE  j <= k
      <4>1. p + k \in ML /\ At0(i) < p + k /\ k \in Nat
        BY <1>1, <1>6, <3>2
      <4>2. p + j <= p + k
        BY <3>1, <4>1
      <4>. QED
        BY <2>1, <4>1, <4>2
    <3>3. i < j
      BY <1>6, <3>1
    <3>. QED
      BY <3>2, <3>3 DEF NextMark
  <2>. QED
    BY <2>2, <2>3
<1> HIDE DEF S, L, MG, ML
<1>8. ASSUME Closes(cs, longer, idx)
      PROVE  Closes(cs, goals, idx)
  <2>1. ASSUME NEW i \in {0} \cup MG
        PROVE  IF S(i) = NoCatch THEN \A j \in MG : j <= i
               ELSE \E j \in MG : NextMark(goals, i, j) /\ goals[j].n = S(i)
    <3>1. IF L(At0(i)) = NoCatch THEN \A m \in ML : m <= At0(i)
          ELSE \E m \in ML : NextMark(longer, At0(i), m) /\ longer[m].n = L(At0(i))
      BY <1>4, <1>8 DEF Closes, L, ML
    <3>2. CASE S(i) = NoCatch
      <4>1. \A m \in ML : m <= At0(i)
        BY <1>3, <3>1, <3>2
      <4>2. ASSUME NEW j \in MG
            PROVE  j <= i
        <5>1. p + j \in ML /\ p + j <= At0(i) /\ j \in Nat
          BY <1>1, <4>1
        <5>2. ~(i < j)
          BY <1>4, <1>6, <5>1
        <5>. QED
          BY <1>4, <5>1, <5>2
      <4>. QED
        BY <3>2, <4>2
    <3>3. CASE S(i) # NoCatch
      <4>1. PICK m \in ML : NextMark(longer, At0(i), m) /\ longer[m].n = L(At0(i))
        BY <1>3, <3>1, <3>3
      <4>2. PICK j \in MG : j = m - p /\ p + j = m
        BY <1>2
      <4>3. NextMark(goals, i, j)
        BY <1>7, <4>1, <4>2
      <4>4. goals[j].n = S(i)
        BY <1>1, <1>3, <4>1, <4>2
      <4>. QED
        BY <3>3, <4>3, <4>4
    <3>. QED
      BY <3>2, <3>3
  <2>. QED
    BY <2>1 DEF Closes, S, MG
<1>9. ASSUME Closes(cs, goals, idx)
      PROVE  Closes(cs, longer, idx)
  <2>1. ASSUME NEW m \in {0} \cup ML
        PROVE  IF L(m) = NoCatch THEN \A k \in ML : k <= m
               ELSE \E k \in ML : NextMark(longer, m, k) /\ longer[k].n = L(m)
    <3>1. PICK i \in {0} \cup MG : At0(i) = m
      BY <1>5
    <3>2. IF S(i) = NoCatch THEN \A j \in MG : j <= i
          ELSE \E j \in MG : NextMark(goals, i, j) /\ goals[j].n = S(i)
      BY <1>9 DEF Closes, S, MG
    <3>3. CASE L(m) = NoCatch
      <4>1. \A j \in MG : j <= i
        BY <1>3, <3>1, <3>2, <3>3
      <4>2. ASSUME NEW k \in ML
            PROVE  k <= m
        <5>1. k - p \in MG /\ p + (k - p) = k /\ k \in Nat /\ k - p \in Nat
          BY <1>1, <1>2
        <5>2. k - p <= i
          BY <4>1, <5>1
        <5>3. ~(At0(i) < p + (k - p))
          BY <1>4, <1>6, <5>1, <5>2
        <5>4. ~(m < k) /\ m \in Nat
          BY <1>4, <3>1, <5>1, <5>3
        <5>. QED
          BY <5>1, <5>4
      <4>. QED
        BY <3>3, <4>2
    <3>4. CASE L(m) # NoCatch
      <4>1. PICK j \in MG : NextMark(goals, i, j) /\ goals[j].n = S(i)
        BY <1>3, <3>1, <3>2, <3>4
      <4>2. NextMark(longer, m, p + j) /\ p + j \in ML /\ longer[p + j].n = L(m)
        BY <1>1, <1>3, <1>7, <3>1, <4>1
      <4>. QED
        BY <3>4, <4>2
    <3>. QED
      BY <3>3, <3>4
  <2>. QED
    BY <2>1 DEF Closes, L, ML
<1>. QED
  BY <1>8, <1>9

\* The first goal is a mark: it closes idx, and what follows its outer catch.
LEMMA ClosesFirst ==
  ASSUME NEW cs, NEW idx, NEW longer, NEW goals, Len(goals) \in Nat,
         EndsWith(longer, 1, goals), IsMark(longer[1])
  PROVE  Closes(cs, longer, idx)
           <=> idx # NoCatch /\ longer[1].n = idx /\ Closes(cs, goals, cs[longer[1].n].outer)
<1> DEFINE MG == Marks(goals)
           ML == Marks(longer)
           next == cs[longer[1].n].outer
           S(i) == ScopeAfter(cs, goals, next, i)
           L(m) == ScopeAfter(cs, longer, idx, m)
<1>1. \A i \in MG : i \in 1 .. Len(goals) /\ 1 + i \in ML /\ longer[1 + i] = goals[i]
  BY MarksOfEnd DEF EndsWith
<1>2. \A m \in ML : m \in 1 .. 1 + Len(goals) /\ (1 < m => m - 1 \in MG /\ 1 + (m - 1) = m)
  BY MarksOfEnd
<1>3. 1 \in ML
  BY DEF Marks, EndsWith, IsMark
<1>4. \A i \in {0} \cup MG : L(1 + i) = S(i) /\ 1 + i \in ML /\ i \in Nat
  BY <1>1, <1>3 DEF ScopeAfter
<1>5. L(0) = idx
  BY DEF ScopeAfter
<1>6. ASSUME NEW i \in {0} \cup MG, NEW j \in MG
      PROVE  NextMark(goals, i, j) <=> NextMark(longer, 1 + i, 1 + j)
  <2>1. j \in 1 .. Len(goals) /\ 1 + j \in ML /\ i \in Nat
    BY <1>1, <1>4
  <2>2. ASSUME NextMark(goals, i, j)
        PROVE  NextMark(longer, 1 + i, 1 + j)
    <3>1. i < j /\ \A k \in MG : i < k => j <= k
      BY <2>2 DEF NextMark
    <3>2. ASSUME NEW m \in ML, 1 + i < m
          PROVE  1 + j <= m
      <4>1. m \in Nat /\ 1 < m
        BY <1>2, <2>1, <3>2
      <4>2. m - 1 \in MG /\ i < m - 1
        BY <1>2, <2>1, <3>2, <4>1
      <4>3. j <= m - 1
        BY <3>1, <4>2
      <4>. QED
        BY <2>1, <4>1, <4>3
    <3>. QED
      BY <2>1, <3>1, <3>2 DEF NextMark
  <2>3. ASSUME NextMark(longer, 1 + i, 1 + j)
        PROVE  NextMark(goals, i, j)
    <3>1. 1 + i < 1 + j /\ \A m \in ML : 1 + i < m => 1 + j <= m
      BY <2>3 DEF NextMark
    <3>2. ASSUME NEW k \in MG, i < k
          PROVE  j <= k
      <4>1. 1 + k \in ML /\ k \in Nat /\ 1 + i < 1 + k
        BY <1>1, <2>1, <3>2
      <4>2. 1 + j <= 1 + k
        BY <3>1, <4>1
      <4>. QED
        BY <2>1, <4>1, <4>2
    <3>. QED
      BY <2>1, <3>1, <3>2 DEF NextMark
  <2>. QED
    BY <2>2, <2>3
<1>7. NextMark(longer, 0, 1)
  BY <1>2, <1>3 DEF NextMark
<1>8. ASSUME NEW m, NextMark(longer, 0, m)
      PROVE  m = 1
  <2>1. m \in ML /\ m <= 1
    BY <1>3, <1>8 DEF NextMark
  <2>. QED
    BY <1>2, <2>1
<1> HIDE DEF S, L, MG, ML
<1>9. ASSUME Closes(cs, longer, idx)
      PROVE  idx # NoCatch /\ longer[1].n = idx /\ Closes(cs, goals, next)
  <2>1. ASSUME NEW m \in {0} \cup ML
        PROVE  IF L(m) = NoCatch THEN \A k \in ML : k <= m
               ELSE \E k \in ML : NextMark(longer, m, k) /\ longer[k].n = L(m)
    BY <1>9 DEF Closes, L, ML
  <2>2. idx # NoCatch
    <3>1. IF L(0) = NoCatch THEN \A k \in ML : k <= 0
          ELSE \E k \in ML : NextMark(longer, 0, k) /\ longer[k].n = L(0)
      BY <2>1
    <3>. QED
      BY <1>3, <1>5, <3>1
  <2>3. longer[1].n = idx
    <3>1. \E k \in ML : NextMark(longer, 0, k) /\ longer[k].n = L(0)
      BY <1>5, <2>1, <2>2
    <3>. QED
      BY <1>5, <1>8, <3>1
  <2>4. ASSUME NEW i \in {0} \cup MG
        PROVE  IF S(i) = NoCatch THEN \A j \in MG : j <= i
               ELSE \E j \in MG : NextMark(goals, i, j) /\ goals[j].n = S(i)
    <3>1. CASE S(i) = NoCatch
      <4>1. \A m \in ML : m <= 1 + i
        BY <1>4, <2>1, <3>1
      <4>2. ASSUME NEW j \in MG
            PROVE  j <= i
        <5>1. 1 + j <= 1 + i /\ j \in Nat /\ i \in Nat
          BY <1>1, <1>4, <4>1
        <5>. QED
          BY <5>1
      <4>. QED
        BY <3>1, <4>2
    <3>2. CASE S(i) # NoCatch
      <4>1. PICK m \in ML : NextMark(longer, 1 + i, m) /\ longer[m].n = L(1 + i)
        BY <1>4, <2>1, <3>2
      <4>2. 1 + i < m
        BY <4>1 DEF NextMark
      <4>3. PICK j \in MG : j = m - 1 /\ 1 + j = m
        BY <1>2, <1>4, <4>2
      <4>4. NextMark(goals, i, j) /\ goals[j].n = S(i)
        BY <1>1, <1>4, <1>6, <4>1, <4>3
      <4>. QED
        BY <3>2, <4>4
    <3>. QED
      BY <3>1, <3>2
  <2>. QED
    BY <2>2, <2>3, <2>4 DEF Closes, S, MG
<1>10. ASSUME idx # NoCatch, longer[1].n = idx, Closes(cs, goals, next)
       PROVE  Closes(cs, longer, idx)
  <2>1. ASSUME NEW i \in {0} \cup MG
        PROVE  IF S(i) = NoCatch THEN \A j \in MG : j <= i
               ELSE \E j \in MG : NextMark(goals, i, j) /\ goals[j].n = S(i)
    BY <1>10 DEF Closes, S, MG
  <2>2. ASSUME NEW m \in ML
        PROVE  IF L(m) = NoCatch THEN \A k \in ML : k <= m
               ELSE \E k \in ML : NextMark(longer, m, k) /\ longer[k].n = L(m)
    <3>1. PICK i \in {0} \cup MG : 1 + i = m
      <4>1. m = 1 \/ 1 < m
        BY <1>2
      <4>2. CASE m = 1
        BY <4>2
      <4>3. CASE 1 < m
        BY <1>2, <4>3
      <4>. QED
        BY <4>1, <4>2, <4>3
    <3>2. CASE L(m) = NoCatch
      <4>1. \A j \in MG : j <= i
        BY <1>4, <2>1, <3>1, <3>2
      <4>2. ASSUME NEW k \in ML
            PROVE  k <= m
        <5>1. CASE k = 1
          BY <1>4, <3>1, <5>1
        <5>2. CASE k # 1
          <6>1. k \in Nat /\ k - 1 \in MG /\ i \in Nat
            BY <1>2, <1>4, <5>2
          <6>2. k - 1 <= i
            BY <4>1, <6>1
          <6>. QED
            BY <3>1, <6>1, <6>2
        <5>. QED
          BY <5>1, <5>2
      <4>. QED
        BY <3>2, <4>2
    <3>3. CASE L(m) # NoCatch
      <4>1. PICK j \in MG : NextMark(goals, i, j) /\ goals[j].n = S(i)
        BY <1>4, <2>1, <3>1, <3>3
      <4>2. NextMark(longer, m, 1 + j) /\ 1 + j \in ML /\ longer[1 + j].n = L(m)
        BY <1>1, <1>4, <1>6, <3>1, <4>1
      <4>. QED
        BY <3>3, <4>2
    <3>. QED
      BY <3>2, <3>3
  <2>3. \E k \in ML : NextMark(longer, 0, k) /\ longer[k].n = L(0)
    BY <1>3, <1>5, <1>7, <1>10
  <2>4. ASSUME NEW m \in {0} \cup ML
        PROVE  IF L(m) = NoCatch THEN \A k \in ML : k <= m
               ELSE \E k \in ML : NextMark(longer, m, k) /\ longer[k].n = L(m)
    <3>1. CASE m = 0
      BY <1>5, <1>10, <2>3, <3>1
    <3>2. CASE m \in ML
      BY <2>2, <3>2
    <3>. QED
      BY <3>1, <3>2
  <2>. QED
    BY <2>4 DEF Closes, L, ML
<1>. QED
  BY <1>9, <1>10

\* A catch in scope is one of the marks ahead.
LEMMA InScopeIsAhead ==
  ASSUME NEW cs, NEW idx, NEW goals, Closes(cs, goals, idx), idx # NoCatch
  PROVE  \E i \in Marks(goals) : goals[i].n = idx
<1>1. ScopeAfter(cs, goals, idx, 0) = idx
  BY DEF ScopeAfter
<1>. QED
  BY <1>1 DEF Closes

\* With no mark ahead, no catch is in scope.
LEMMA ClosesNothing ==
  ASSUME NEW cs, NEW goals, Marks(goals) = {}
  PROVE  Closes(cs, goals, NoCatch)
BY DEF Closes, ScopeAfter

\* Levels of the end of a continuation, and of one put together.
LEMMA LevelsOfEnd ==
  ASSUME NEW cs, NEW longer, NEW p \in Nat, NEW goals, Len(goals) \in Nat,
         EndsWith(longer, p, goals), NEW b, NEW s, Levels(cs, longer, b, s)
  PROVE  Levels(cs, goals, b, s)
<1>1. \A i \in 1 .. Len(goals) : p + i \in 1 .. Len(longer) /\ longer[p + i] = goals[i]
  BY DEF EndsWith
<1>2. ASSUME NEW i \in 1 .. Len(goals), HasLevel(goals[i])
      PROVE  Level(cs, goals[i]) \in b .. s
  BY <1>1, <1>2 DEF Levels
<1>3. ASSUME NEW i \in 1 .. Len(goals), NEW j \in 1 .. Len(goals), i < j,
             HasLevel(goals[i]), HasLevel(goals[j])
      PROVE  Level(cs, goals[j]) <= Level(cs, goals[i])
  <2>1. /\ p + i \in 1 .. Len(longer) /\ longer[p + i] = goals[i]
        /\ p + j \in 1 .. Len(longer) /\ longer[p + j] = goals[j]
        /\ p + i < p + j
    BY <1>1, <1>3
  <2>. QED
    BY <1>3, <2>1 DEF Levels
<1>. QED
  BY <1>2, <1>3 DEF Levels

LEMMA LevelsJoin ==
  ASSUME NEW cs, NEW longer, NEW p \in Nat, NEW goals, Len(goals) \in Nat,
         EndsWith(longer, p, goals), NEW b \in Nat, NEW s \in Nat, Levels(cs, goals, b, s),
         \A i \in 1 .. p : HasLevel(longer[i]) => Level(cs, longer[i]) \in b .. s,
         \A i, j \in 1 .. p :
           i < j /\ HasLevel(longer[i]) /\ HasLevel(longer[j])
             => Level(cs, longer[j]) <= Level(cs, longer[i]),
         \A i \in 1 .. p : \A j \in 1 .. Len(goals) :
           HasLevel(longer[i]) /\ HasLevel(goals[j])
             => Level(cs, goals[j]) <= Level(cs, longer[i])
  PROVE  Levels(cs, longer, b, s)
<1>1. ASSUME NEW m \in 1 .. Len(longer)
      PROVE  m \in 1 .. p \/ (p < m /\ m - p \in 1 .. Len(goals) /\ longer[m] = goals[m - p])
  <2>1. m \in 1 .. p \/ (p < m /\ m - p \in 1 .. Len(goals) /\ p + (m - p) = m)
    BY DEF EndsWith
  <2>. QED
    BY <2>1 DEF EndsWith
<1>2. ASSUME NEW m \in 1 .. Len(longer), HasLevel(longer[m])
      PROVE  Level(cs, longer[m]) \in b .. s
  BY <1>1, <1>2 DEF Levels
<1>3. ASSUME NEW m \in 1 .. Len(longer), NEW k \in 1 .. Len(longer), m < k,
             HasLevel(longer[m]), HasLevel(longer[k])
      PROVE  Level(cs, longer[k]) <= Level(cs, longer[m])
  <2>1. CASE k \in 1 .. p
    <3>1. m \in 1 .. p
      BY <1>3, <2>1
    <3>. QED
      BY <1>3, <2>1, <3>1
  <2>2. CASE k \notin 1 .. p /\ m \in 1 .. p
    <3>1. k - p \in 1 .. Len(goals) /\ longer[k] = goals[k - p]
      BY <1>1, <2>2
    <3>. QED
      BY <1>3, <2>2, <3>1
  <2>3. CASE k \notin 1 .. p /\ m \notin 1 .. p
    <3>1. /\ k - p \in 1 .. Len(goals) /\ longer[k] = goals[k - p]
          /\ m - p \in 1 .. Len(goals) /\ longer[m] = goals[m - p]
      BY <1>1, <2>3
    <3>2. m - p < k - p
      BY <1>3, <3>1
    <3>. QED
      BY <1>3, <3>1, <3>2 DEF Levels
  <2>. QED
    BY <2>1, <2>2, <2>3
<1>. QED
  BY <1>2, <1>3 DEF Levels

\* The first goal's level bounds those behind it.
LEMMA LevelsBehind ==
  ASSUME NEW cs, NEW longer, NEW goals, Len(goals) \in Nat, EndsWith(longer, 1, goals),
         NEW b \in Nat, NEW s \in Nat, Levels(cs, longer, b, s), HasLevel(longer[1])
  PROVE  Level(cs, longer[1]) \in b .. s /\ Levels(cs, goals, b, Level(cs, longer[1]))
<1> DEFINE l == Level(cs, longer[1])
<1>1. 1 \in 1 .. Len(longer)
  BY DEF EndsWith
<1>2. l \in b .. s
  BY <1>1 DEF Levels
<1>3. Levels(cs, goals, b, s)
  BY LevelsOfEnd
<1>4. ASSUME NEW i \in 1 .. Len(goals), HasLevel(goals[i])
      PROVE  Level(cs, goals[i]) \in b .. l
  <2>1. 1 + i \in 1 .. Len(longer) /\ longer[1 + i] = goals[i] /\ 1 < 1 + i
    BY DEF EndsWith
  <2>2. Level(cs, goals[i]) <= l
    BY <1>1, <1>4, <2>1 DEF Levels
  <2>3. Level(cs, goals[i]) \in b .. s
    BY <1>3, <1>4 DEF Levels
  <2>. QED
    BY <1>2, <2>2, <2>3
<1>. QED
  BY <1>2, <1>3, <1>4 DEF Levels

\* The catches a continuation refers to, when it is taken apart or put together.
LEMMA RefersPast ==
  ASSUME NEW longer, NEW p \in Nat, NEW goals, Len(goals) \in Nat,
         EndsWith(longer, p, goals), \A m \in Marks(longer) : p < m,
         NEW idx, NEW lo, NEW hi
  PROVE  RefersTo(longer, idx, lo, hi) <=> RefersTo(goals, idx, lo, hi)
<1>1. \A i \in Marks(goals) : p + i \in Marks(longer) /\ longer[p + i] = goals[i]
  BY MarksOfEnd DEF EndsWith
<1>2. \A m \in Marks(longer) : m - p \in Marks(goals) /\ p + (m - p) = m
  BY MarksOfEnd
<1>3. \A m \in Marks(longer) : longer[m].n = goals[m - p].n
  BY <1>1, <1>2
<1>4. \A i \in Marks(goals) : longer[p + i].n = goals[i].n
  BY <1>1
<1>5. RefersTo(longer, idx, lo, hi) => RefersTo(goals, idx, lo, hi)
  BY <1>1, <1>4 DEF RefersTo
<1>6. RefersTo(goals, idx, lo, hi) => RefersTo(longer, idx, lo, hi)
  BY <1>2, <1>3 DEF RefersTo
<1>. QED
  BY <1>5, <1>6

(***************************************************************************)
(* The same for all that is asked of a continuation.                       *)
(***************************************************************************)
LEMMA ScopedAhead ==
  ASSUME NEW cs, NEW goals, NEW idx, NEW b, NEW s, NEW lo, NEW hi,
         Scoped(cs, goals, idx, b, s, lo, hi), idx # NoCatch
  PROVE  idx \in lo + 1 .. hi /\ cs[idx].sp_at_entry \in b .. s
<1>1. PICK i \in Marks(goals) : goals[i].n = idx
  BY InScopeIsAhead DEF Scoped
<1>2. i \in 1 .. Len(goals) /\ IsMark(goals[i])
  BY DEF Marks, IsMark
<1>3. HasLevel(goals[i]) /\ Level(cs, goals[i]) = cs[idx].sp_at_entry
  BY <1>1, <1>2 DEF HasLevel, Level
<1>. QED
  BY <1>2, <1>3 DEF Scoped, Levels, RefersTo

\* A higher stack and more entries do not disturb it, nor does what is written
\* above the entries it knows.
LEMMA ScopedLoose ==
  ASSUME NEW cs, NEW goals, NEW idx,
         NEW b \in Nat, NEW s \in Nat, NEW lo \in Nat, NEW hi \in Nat,
         NEW cs2, NEW s2 \in Nat, NEW hi2 \in Nat, s <= s2, hi <= hi2,
         \A i \in 1 .. hi : cs2[i] = cs[i],
         Scoped(cs, goals, idx, b, s, lo, hi)
  PROVE  Scoped(cs2, goals, idx, b, s2, lo, hi2)
<1>1. \A i \in Marks(goals) : goals[i].n \in lo + 1 .. hi
  BY DEF Scoped, RefersTo
<1>2. \A i \in Marks(goals) : cs2[goals[i].n] = cs[goals[i].n]
  BY <1>1
<1>3. \A i \in {0} \cup Marks(goals) : ScopeAfter(cs2, goals, idx, i) = ScopeAfter(cs, goals, idx, i)
  BY <1>2 DEF ScopeAfter
<1>4. Closes(cs2, goals, idx)
  <2>1. Closes(cs, goals, idx)
    BY DEF Scoped
  <2>. QED
    BY <1>3, <2>1 DEF Closes
<1>5. \A i \in 1 .. Len(goals) : HasLevel(goals[i]) => Level(cs2, goals[i]) = Level(cs, goals[i])
  <2>1. ASSUME NEW i \in 1 .. Len(goals), IsMark(goals[i])
        PROVE  i \in Marks(goals)
    BY <2>1 DEF Marks, IsMark
  <2>. QED
    BY <1>2, <2>1 DEF Level
<1>6. Levels(cs2, goals, b, s2)
  <2>1. Levels(cs, goals, b, s)
    BY DEF Scoped
  <2>2. \A x \in b .. s : x \in b .. s2
    OBVIOUS
  <2>. QED
    BY <1>5, <2>1, <2>2 DEF Levels
<1>7. RefersTo(goals, idx, lo, hi2)
  <2>1. \A x \in lo + 1 .. hi : x \in lo + 1 .. hi2
    OBVIOUS
  <2>. QED
    BY <2>1 DEF Scoped, RefersTo
<1>. QED
  BY <1>4, <1>6, <1>7 DEF Scoped

\* The goal at hand is done, and was not a mark.
LEMMA ScopedTail ==
  ASSUME NEW S, NEW goals \in Seq(S), goals # <<>>, ~IsMark(Head(goals)),
         NEW cs, NEW idx, NEW b \in Nat, NEW s \in Nat, NEW lo \in Nat, NEW hi \in Nat,
         Scoped(cs, goals, idx, b, s, lo, hi)
  PROVE  /\ Scoped(cs, Tail(goals), idx, b, s, lo, hi)
         /\ HasLevel(Head(goals)) =>
              /\ Head(goals).n \in b .. s
              /\ Scoped(cs, Tail(goals), idx, b, Head(goals).n, lo, hi)
<1> DEFINE rest == Tail(goals)
<1>1. EndsWith(goals, 1, rest) /\ goals[1] = Head(goals) /\ Len(rest) \in Nat
  BY TailEnds
<1>2. \A m \in Marks(goals) : 1 < m
  <2>1. \A m \in Marks(goals) : m \in 1 .. 1 + Len(rest) /\ IsMark(goals[m])
    BY <1>1 DEF Marks, IsMark, EndsWith
  <2>2. \A m \in Marks(goals) : m # 1
    BY <1>1, <2>1
  <2>. QED
    BY <2>1, <2>2
<1> HIDE DEF rest
<1>3. Closes(cs, rest, idx) /\ RefersTo(rest, idx, lo, hi)
  BY <1>1, <1>2, ClosesPast, RefersPast DEF Scoped
<1>4. Levels(cs, goals, b, s)
  BY DEF Scoped
<1>5. Levels(cs, rest, b, s)
  BY <1>1, <1>4, LevelsOfEnd
<1>6. ASSUME HasLevel(Head(goals))
      PROVE  Head(goals).n \in b .. s /\ Levels(cs, rest, b, Head(goals).n)
  <2>1. Level(cs, goals[1]) = Head(goals).n
    BY <1>1 DEF Level
  <2>. QED
    BY <1>1, <1>4, <1>6, <2>1, LevelsBehind
<1>. QED
  BY <1>3, <1>5, <1>6 DEF Scoped, rest

\* The goal at hand is a mark: it is of the catch in scope, and is left.
LEMMA ScopedUnmark ==
  ASSUME NEW S, NEW goals \in Seq(S), goals # <<>>, IsMark(Head(goals)),
         NEW cs, NEW idx, NEW b \in Nat, NEW s \in Nat, NEW lo \in Nat, NEW hi \in Nat,
         Scoped(cs, goals, idx, b, s, lo, hi),
         \A j \in lo + 1 .. hi : cs[j].outer = NoCatch \/ cs[j].outer \in lo + 1 .. hi
  PROVE  Head(goals).n = idx /\ Scoped(cs, Tail(goals), cs[idx].outer, b, s, lo, hi)
<1> DEFINE rest == Tail(goals)
<1>1. EndsWith(goals, 1, rest) /\ goals[1] = Head(goals) /\ Len(rest) \in Nat
  BY TailEnds
<1> HIDE DEF rest
<1>2. idx # NoCatch /\ Head(goals).n = idx /\ Closes(cs, rest, cs[idx].outer)
  <2>1. Closes(cs, goals, idx) /\ IsMark(goals[1])
    BY <1>1 DEF Scoped
  <2>2. idx # NoCatch /\ goals[1].n = idx /\ Closes(cs, rest, cs[goals[1].n].outer)
    BY <1>1, <2>1, ClosesFirst
  <2>. QED
    BY <1>1, <2>2
<1>3. Levels(cs, rest, b, s)
  BY <1>1, LevelsOfEnd DEF Scoped
<1>4. RefersTo(rest, cs[idx].outer, lo, hi)
  <2>1. idx \in lo + 1 .. hi /\ \A m \in Marks(goals) : goals[m].n \in lo + 1 .. hi
    BY <1>2 DEF Scoped, RefersTo
  <2>2. \A i \in Marks(rest) : 1 + i \in Marks(goals) /\ goals[1 + i] = rest[i]
    <3>1. \A i \in Marks(rest) : i \in 1 .. Len(rest) /\ 1 + i \in Marks(goals)
      BY <1>1, 1 \in Nat, MarksOfEnd
    <3>2. \A i \in 1 .. Len(rest) : goals[1 + i] = rest[i]
      BY <1>1 DEF EndsWith
    <3>. QED
      BY ONLY <3>1, <3>2
  <2>3. \A i \in Marks(rest) : rest[i].n \in lo + 1 .. hi
    <3>1. \A i \in Marks(rest) : goals[1 + i].n \in lo + 1 .. hi
      BY <2>1, <2>2
    <3>. QED
      BY <2>2, <3>1
  <2>. QED
    BY <2>1, <2>3 DEF RefersTo
<1>. QED
  BY <1>2, <1>3, <1>4 DEF Scoped, rest

\* Goals put in front, none of them a mark.
LEMMA ScopedJoin ==
  ASSUME NEW S, NEW body \in Seq(S), NEW goals \in Seq(S),
         NEW cs, NEW idx, NEW b \in Nat, NEW s \in Nat, NEW lo \in Nat, NEW hi \in Nat,
         Scoped(cs, goals, idx, b, s, lo, hi),
         \A i \in 1 .. Len(body) :
           ~IsMark(body[i]) /\ (HasLevel(body[i]) => body[i].n \in b .. s),
         \A i, j \in 1 .. Len(body) :
           i < j /\ HasLevel(body[i]) /\ HasLevel(body[j]) => body[j].n <= body[i].n,
         \A i \in 1 .. Len(body) : \A j \in 1 .. Len(goals) :
           HasLevel(body[i]) /\ HasLevel(goals[j]) => Level(cs, goals[j]) <= body[i].n
  PROVE  Scoped(cs, body \o goals, idx, b, s, lo, hi)
<1> DEFINE p == Len(body)
           longer == body \o goals
<1>1. /\ EndsWith(longer, p, goals) /\ p \in Nat /\ Len(goals) \in Nat
      /\ \A i \in 1 .. p : longer[i] = body[i]
  BY ConcatEnds
<1> HIDE DEF p, longer
<1>2. \A m \in Marks(longer) : p < m
  <2>1. \A m \in Marks(longer) : m \in 1 .. p + Len(goals) /\ IsMark(longer[m])
    BY <1>1 DEF Marks, IsMark, EndsWith
  <2>2. \A m \in 1 .. p : ~IsMark(longer[m])
    BY <1>1 DEF p
  <2>. QED
    BY <1>1, <2>1, <2>2
<1>3. Closes(cs, longer, idx) /\ RefersTo(longer, idx, lo, hi)
  BY <1>1, <1>2, ClosesPast, RefersPast DEF Scoped
<1>4. \A i \in 1 .. p : Level(cs, longer[i]) = body[i].n /\ (HasLevel(longer[i]) <=> HasLevel(body[i]))
  BY <1>1 DEF Level, p
<1>5. Levels(cs, longer, b, s)
  <2>1. Levels(cs, goals, b, s)
    BY DEF Scoped
  <2>2. \A i \in 1 .. p : HasLevel(longer[i]) => Level(cs, longer[i]) \in b .. s
    BY <1>4 DEF p
  <2>3. \A i, j \in 1 .. p :
          i < j /\ HasLevel(longer[i]) /\ HasLevel(longer[j])
            => Level(cs, longer[j]) <= Level(cs, longer[i])
    BY <1>4 DEF p
  <2>4. \A i \in 1 .. p : \A j \in 1 .. Len(goals) :
          HasLevel(longer[i]) /\ HasLevel(goals[j])
            => Level(cs, goals[j]) <= Level(cs, longer[i])
    BY <1>4 DEF p
  <2>. QED
    BY <1>1, <2>1, <2>2, <2>3, <2>4, LevelsJoin
<1>. QED
  BY <1>3, <1>5 DEF Scoped, longer

\* Goals copied at the height of the stack, put in front.
LEMMA ScopedPush ==
  ASSUME NEW S, NEW body \in Seq(S), NEW goals \in Seq(S),
         NEW cs, NEW idx, NEW b \in Nat, NEW s \in Nat, NEW lo \in Nat, NEW hi \in Nat,
         b <= s, Scoped(cs, goals, idx, b, s, lo, hi),
         \A i \in 1 .. Len(body) : ~IsMark(body[i]) /\ (HasLevel(body[i]) => body[i].n = s)
  PROVE  Scoped(cs, body \o goals, idx, b, s, lo, hi)
<1>1. \A i \in 1 .. Len(body) : HasLevel(body[i]) => body[i].n \in b .. s
  OBVIOUS
<1>2. \A j \in 1 .. Len(goals) : HasLevel(goals[j]) => Level(cs, goals[j]) <= s
  BY DEF Scoped, Levels
<1>3. \A i \in 1 .. Len(body) : \A j \in 1 .. Len(goals) :
        HasLevel(body[i]) /\ HasLevel(goals[j]) => Level(cs, goals[j]) <= body[i].n
  BY <1>2
<1>4. \A i, j \in 1 .. Len(body) :
        i < j /\ HasLevel(body[i]) /\ HasLevel(body[j]) => body[j].n <= body[i].n
  BY <1>1
<1>. QED
  BY <1>1, <1>3, <1>4, ScopedJoin

\* The goals a query starts with.
LEMMA ScopedStart ==
  ASSUME NEW body, Len(body) \in Nat,
         NEW cs, NEW s \in Nat, NEW b \in Nat, NEW lo, NEW hi, b <= s,
         \A i \in 1 .. Len(body) : ~IsMark(body[i]) /\ (HasLevel(body[i]) => body[i].n = s)
  PROVE  Scoped(cs, body, NoCatch, b, s, lo, hi)
<1>1. Marks(body) = {}
  BY DEF Marks, IsMark
<1>2. Levels(cs, body, b, s)
  <2>1. \A i \in 1 .. Len(body) : HasLevel(body[i]) => Level(cs, body[i]) = s
    BY DEF Level
  <2>. QED
    BY <2>1 DEF Levels
<1>3. RefersTo(body, NoCatch, lo, hi)
  BY <1>1 DEF RefersTo
<1>. QED
  BY <1>1, <1>2, <1>3, ClosesNothing DEF Scoped

\* A mark put in front, of a catch entered just now.
LEMMA ScopedMark ==
  ASSUME NEW S, NEW goals \in Seq(S), NEW mark \in S, IsMark(mark),
         NEW cs, NEW b \in Nat, NEW s \in Nat, NEW lo \in Nat, NEW hi \in Nat,
         b <= s, lo <= hi, mark.n = hi + 1, cs[hi + 1].sp_at_entry = s,
         Scoped(cs, goals, cs[hi + 1].outer, b, s, lo, hi)
  PROVE  Scoped(cs, <<mark>> \o goals, hi + 1, b, s, lo, hi + 1)
<1> DEFINE longer == <<mark>> \o goals
<1>1. <<mark>> \in Seq(S) /\ Len(<<mark>>) = 1 /\ <<mark>>[1] = mark
  OBVIOUS
<1>2. /\ EndsWith(longer, 1, goals) /\ Len(goals) \in Nat
      /\ longer[1] = mark
  <2>1. /\ EndsWith(<<mark>> \o goals, Len(<<mark>>), goals) /\ Len(goals) \in Nat
        /\ \A i \in 1 .. Len(<<mark>>) : (<<mark>> \o goals)[i] = <<mark>>[i]
    BY <1>1, ConcatEnds
  <2>. QED
    BY <1>1, <2>1
<1> HIDE DEF longer
<1>3. Closes(cs, longer, hi + 1)
  <2>1. hi + 1 # NoCatch /\ IsMark(longer[1]) /\ longer[1].n = hi + 1
    BY <1>2 DEF NoCatch
  <2>2. Closes(cs, goals, cs[longer[1].n].outer)
    BY <2>1 DEF Scoped
  <2>. QED
    BY <1>2, <2>1, <2>2, ClosesFirst
<1>4. HasLevel(longer[1]) /\ Level(cs, longer[1]) = s
  BY <1>2 DEF HasLevel, Level
<1>5. Levels(cs, longer, b, s)
  <2>1. Levels(cs, goals, b, s)
    BY DEF Scoped
  <2>2. \A j \in 1 .. Len(goals) : HasLevel(goals[j]) => Level(cs, goals[j]) <= s
    BY <2>1 DEF Levels
  <2>3. \A i \in 1 .. 1 : i = 1
    OBVIOUS
  <2>4. s \in b .. s
    OBVIOUS
  <2>5. \A i \in 1 .. 1 : HasLevel(longer[i]) => Level(cs, longer[i]) \in b .. s
    BY <1>4, <2>3, <2>4
  <2>6. \A i, j \in 1 .. 1 :
          i < j /\ HasLevel(longer[i]) /\ HasLevel(longer[j])
            => Level(cs, longer[j]) <= Level(cs, longer[i])
    OBVIOUS
  <2>7. \A i \in 1 .. 1 : \A j \in 1 .. Len(goals) :
          HasLevel(longer[i]) /\ HasLevel(goals[j])
            => Level(cs, goals[j]) <= Level(cs, longer[i])
    BY <1>4, <2>2, <2>3
  <2>. QED
    BY <1>2, <2>1, <2>5, <2>6, <2>7, LevelsJoin
<1>6. RefersTo(longer, hi + 1, lo, hi + 1)
  <2>1. \A i \in Marks(goals) : goals[i].n \in lo + 1 .. hi
    BY DEF Scoped, RefersTo
  <2>2. ASSUME NEW m \in Marks(longer)
        PROVE  longer[m].n \in lo + 1 .. hi + 1
    <3>1. m \in 1 .. 1 + Len(goals) /\ (1 < m => m - 1 \in Marks(goals))
      BY <1>2, MarksOfEnd
    <3>2. CASE m = 1
      BY <1>2, <3>2
    <3>3. CASE m # 1
      <4>1. m - 1 \in Marks(goals) /\ m - 1 \in 1 .. Len(goals) /\ 1 + (m - 1) = m
        BY <1>2, <3>1, <3>3
      <4>2. longer[m] = goals[m - 1]
        BY <1>2, <4>1 DEF EndsWith
      <4>3. goals[m - 1].n \in lo + 1 .. hi
        BY <2>1, <4>1
      <4>. QED
        BY <4>2, <4>3
    <3>. QED
      BY <3>2, <3>3
  <2>3. hi + 1 \in lo + 1 .. hi + 1
    OBVIOUS
  <2>. QED
    BY <2>2, <2>3 DEF RefersTo
<1>. QED
  BY <1>3, <1>5, <1>6 DEF Scoped, longer

(***************************************************************************)
(* The bodies that goals become.                                           *)
(***************************************************************************)
LocalCuts == CutsAreLocal(Goals, Cutting)
Cuts(body) == \E i \in 1 .. Len(body) : body[i] \in Cutting

\* Goals that cut, if at all, down to n.
CutsTo(body, n) == \A i \in 1 .. Len(body) : ~IsMark(body[i]) /\ (HasLevel(body[i]) => body[i].n = n)

\* The body of a clause that rg resolves against with barrier n: its cuts are to
\* n, and behind these to where rg's own clause cuts to, if rg is a goal that cuts.
ClauseBody(body, rg, n) ==
  /\ \A i \in 1 .. Len(body) :
       ~IsMark(body[i]) /\ (HasLevel(body[i]) => body[i].n = n \/ (HasLevel(rg) /\ body[i].n = rg.n))
  /\ \A i, j \in 1 .. Len(body) :
       i < j /\ HasLevel(body[i]) /\ HasLevel(body[j]) => body[j].n <= body[i].n

LEMMA BakeAt ==
  ASSUME NEW body \in Seq(Goals), NEW arg, NEW n
  PROVE  /\ Len(Bake(body, arg, n)) = Len(body) /\ Len(body) \in Nat
         /\ \A i \in 1 .. Len(body) :
              /\ Bake(body, arg, n)[i] = HeapGoal(body[i], arg, n)
              /\ ~IsMark(Bake(body, arg, n)[i])
<1>1. Len(body) \in Nat /\ \A i \in 1 .. Len(body) : body[i] \in Goals
  BY LenProperties, ElementOfSeq
<1>2. Bake(body, arg, n) = [i \in 1 .. Len(body) |-> HeapGoal(body[i], arg, n)]
  BY DEF Bake
<1>3. Len(Bake(body, arg, n)) = Len(body)
  BY <1>1, <1>2
<1>4. ASSUME NEW i \in 1 .. Len(body)
      PROVE  /\ Bake(body, arg, n)[i] = HeapGoal(body[i], arg, n)
             /\ ~IsMark(Bake(body, arg, n)[i])
  <2>1. Bake(body, arg, n)[i] = HeapGoal(body[i], arg, n)
    BY <1>2
  <2>2. body[i] \in Goals
    BY <1>1
  <2>3. body[i].op # "uncatch"
    BY <2>2, GoalsAssumption
  <2>. QED
    BY <2>1, <2>3 DEF IsMark, HeapGoal
<1>. QED
  BY <1>1, <1>3, <1>4

LEMMA BakeCutsTo ==
  ASSUME NEW body \in Seq(Goals), NEW arg, NEW n
  PROVE  CutsTo(Bake(body, arg, n), n)
<1>1. \A i \in 1 .. Len(body) : HeapGoal(body[i], arg, n).n = n
  BY DEF HeapGoal
<1>. QED
  BY <1>1, BakeAt DEF CutsTo

\* Goals that do not cut have no level, whatever is baked into them.
LEMMA BakeNoCuts ==
  ASSUME NEW body \in Seq(Goals), NEW arg, NEW n, ~Cuts(body)
  PROVE  \A m : CutsTo(Bake(body, arg, n), m)
<1>1. \A i \in 1 .. Len(body) : HeapGoal(body[i], arg, n).goal = body[i] /\ body[i] \notin Cutting
  BY DEF HeapGoal, Cuts
<1>2. ASSUME NEW i \in 1 .. Len(body)
      PROVE  ~HasLevel(Bake(body, arg, n)[i]) /\ ~IsMark(Bake(body, arg, n)[i])
  BY <1>1, BakeAt DEF HasLevel
<1>. QED
  BY <1>2, BakeAt DEF CutsTo

LEMMA BakeClauseBody ==
  ASSUME NEW body \in Seq(Goals), NEW arg, NEW rg, rg.n \in Int, NEW n,
         Cuts(body) => rg.goal \in Cutting
  PROVE  ClauseBody(Bake(body, arg, rg.n), rg, n)
<1> DEFINE baked == Bake(body, arg, rg.n)
<1>1. /\ Len(baked) = Len(body)
      /\ \A i \in 1 .. Len(body) : baked[i] = HeapGoal(body[i], arg, rg.n) /\ ~IsMark(baked[i])
  BY BakeAt
<1> HIDE DEF baked
<1>2. \A i \in 1 .. Len(body) : baked[i].n = rg.n /\ baked[i].goal = body[i]
  <2>1. ASSUME NEW g, NEW m
        PROVE  HeapGoal(g, arg, m).n = m /\ HeapGoal(g, arg, m).goal = g
    BY DEF HeapGoal
  <2>. QED
    BY <1>1, <2>1
<1>3. ASSUME NEW i \in 1 .. Len(body), HasLevel(baked[i])
      PROVE  HasLevel(rg)
  <2>1. body[i] \in Cutting /\ rg.n # Raw
    BY <1>1, <1>2, <1>3 DEF HasLevel
  <2>2. rg.goal \in Cutting
    BY <2>1 DEF Cuts
  <2>. QED
    BY <2>1, <2>2 DEF HasLevel
<1>4. ClauseBody(baked, rg, n)
  BY <1>1, <1>2, <1>3 DEF ClauseBody
<1>. QED
  BY <1>4 DEF baked

LEMMA CutsToBody ==
  ASSUME NEW body, NEW rg, NEW n \in Int, CutsTo(body, n)
  PROVE  ClauseBody(body, rg, n)
<1>1. ASSUME NEW i \in 1 .. Len(body), NEW j \in 1 .. Len(body),
             HasLevel(body[i]), HasLevel(body[j])
      PROVE  body[j].n <= body[i].n
  <2>1. body[j].n = n /\ body[i].n = n
    BY <1>1 DEF CutsTo
  <2>. QED
    BY <2>1
<1>. QED
  BY <1>1 DEF ClauseBody, CutsTo

LEMMA JoinCutsTo ==
  ASSUME NEW S, NEW s \in Seq(S), NEW t \in Seq(S), NEW n, CutsTo(s, n), CutsTo(t, n)
  PROVE  CutsTo(s \o t, n)
<1> DEFINE p == Len(s)
           longer == s \o t
<1>1. /\ EndsWith(longer, p, t) /\ p \in Nat /\ Len(t) \in Nat
      /\ \A i \in 1 .. p : longer[i] = s[i]
  BY ConcatEnds
<1> HIDE DEF longer
<1>2. ASSUME NEW i \in 1 .. Len(longer)
      PROVE  ~IsMark(longer[i]) /\ (HasLevel(longer[i]) => longer[i].n = n)
  <2>1. CASE i \in 1 .. p
    BY <1>1, <2>1 DEF CutsTo
  <2>2. CASE i \notin 1 .. p
    <3>1. i - p \in 1 .. Len(t) /\ p + (i - p) = i
      BY <1>1, <2>2 DEF EndsWith
    <3>2. longer[i] = t[i - p]
      BY <1>1, <3>1 DEF EndsWith
    <3>. QED
      BY <3>1, <3>2 DEF CutsTo
  <2>. QED
    BY <2>1, <2>2
<1>. QED
  BY <1>2 DEF CutsTo, longer

LEMMA JoinClauseBody ==
  ASSUME NEW S, NEW s \in Seq(S), NEW t \in Seq(S), NEW rg, NEW n \in Int,
         HasLevel(rg) => rg.n <= n, CutsTo(s, n), ClauseBody(t, rg, n)
  PROVE  ClauseBody(s \o t, rg, n)
<1> DEFINE p == Len(s)
           longer == s \o t
<1>1. /\ EndsWith(longer, p, t) /\ p \in Nat /\ Len(t) \in Nat
      /\ \A i \in 1 .. p : longer[i] = s[i]
  BY ConcatEnds
<1> HIDE DEF longer
<1>2. ASSUME NEW i \in 1 .. Len(longer), i \notin 1 .. p
      PROVE  i - p \in 1 .. Len(t) /\ longer[i] = t[i - p]
  <2>1. i - p \in 1 .. Len(t) /\ p + (i - p) = i
    BY <1>1, <1>2 DEF EndsWith
  <2>2. longer[i] = t[i - p]
    BY <1>1, <2>1 DEF EndsWith
  <2>. QED
    BY <2>1, <2>2
<1>3. ASSUME NEW i \in 1 .. p
      PROVE  longer[i] = s[i] /\ ~IsMark(longer[i]) /\ (HasLevel(longer[i]) => longer[i].n = n)
  BY <1>1 DEF CutsTo
<1>4. ASSUME NEW i \in 1 .. Len(longer), i \notin 1 .. p
      PROVE  /\ ~IsMark(longer[i])
             /\ HasLevel(longer[i]) => longer[i].n = n \/ (HasLevel(rg) /\ longer[i].n = rg.n)
  BY <1>2, <1>4 DEF ClauseBody
<1>5. ASSUME NEW i \in 1 .. Len(longer), NEW j \in 1 .. Len(longer), i < j,
             HasLevel(longer[i]), HasLevel(longer[j])
      PROVE  longer[j].n <= longer[i].n
  <2>1. CASE i \in 1 .. p
    <3>1. longer[i].n = n
      BY <1>3, <1>5, <2>1
    <3>2. longer[j].n = n \/ (HasLevel(rg) /\ longer[j].n = rg.n)
      BY <1>3, <1>4, <1>5
    <3>3. n <= n
      OBVIOUS
    <3>. QED
      BY <3>1, <3>2, <3>3
  <2>2. CASE i \notin 1 .. p
    <3>1. j \notin 1 .. p /\ i - p < j - p
      BY <1>1, <1>5, <2>2
    <3>2. /\ i - p \in 1 .. Len(t) /\ longer[i] = t[i - p]
          /\ j - p \in 1 .. Len(t) /\ longer[j] = t[j - p]
      BY <1>2, <2>2, <3>1
    <3>. QED
      BY <1>5, <3>1, <3>2 DEF ClauseBody
  <2>. QED
    BY <2>1, <2>2
<1>6. \A i \in 1 .. Len(longer) :
        ~IsMark(longer[i]) /\ (HasLevel(longer[i]) => longer[i].n = n \/ (HasLevel(rg) /\ longer[i].n = rg.n))
  BY <1>3, <1>4
<1>. QED
  BY <1>5, <1>6 DEF ClauseBody, longer

\* Every clause a call resolves against has such a body: a clause of the database
\* by its barrier alone, a clause of core.pl because the goals it takes over
\* from the call are baked for the call's clause and do not cut in a condition.
LEMMA ClausesCut ==
  ASSUME LocalCuts, NEW ns \in Nat, NEW nc \in Nat, NEW rg \in HeapGoals(ns, nc), IsCall(rg.goal),
         NEW n \in 0 .. ns, prog \in Programs, HasLevel(rg) => rg.n <= n
  PROVE  \A i \in 1 .. Len(ClausesOf(rg, n)) : ClauseBody(ClausesOf(rg, n)[i].body, rg, n)
<1> DEFINE g == rg.goal
           Sub(body) == Bake(body, rg.arg, rg.n)
           Own(goals) == Bake(goals, rg.arg, n)
           Rule(body) == [head |-> Fresh, body |-> body]
           If(c, t) == Rule(Sub(c) \o Own(<<CutGoal>>) \o Sub(t))
           Good(clause) == ClauseBody(clause.body, rg, n)
<1>1. g \in Goals /\ rg.arg \in Args /\ rg.n \in Raw .. ns
  BY DEF HeapGoals, IsCall, IsCore, UncatchGoal
<1>2. n \in Raw .. ns /\ n \in Int /\ rg.n \in Int
  BY <1>1 DEF Raw
<1>3. ASSUME NEW body \in Seq(Goals)
      PROVE  /\ Sub(body) \in Conj(ns, nc) /\ Own(body) \in Conj(ns, nc)
             /\ CutsTo(Own(body), n)
             /\ (Cuts(body) => g \in Cutting) => ClauseBody(Sub(body), rg, n)
             /\ ~Cuts(body) => CutsTo(Sub(body), n)
  BY <1>1, <1>2, BakeType, BakeCutsTo, BakeNoCuts, BakeClauseBody
<1>4. ASSUME NEW body
      PROVE  Good(Rule(body)) <=> ClauseBody(body, rg, n)
  OBVIOUS
<1>5. <<CutGoal>> \in Seq(Goals) /\ CutGoal \in Goals /\ FailGoal \in Goals
  BY GoalsAssumption
<1>6. ASSUME NEW body \in Seq(Goals)
      PROVE  ClauseBody(Own(body), rg, n)
  BY <1>2, <1>3, CutsToBody
<1> HIDE DEF Sub, Own, Rule, Good
<1>7. ASSUME NEW c \in Seq(Goals), NEW t \in Seq(Goals), ~Cuts(c), Cuts(t) => g \in Cutting
      PROVE  Good(If(c, t))
  <2> DEFINE front == Sub(c) \o Own(<<CutGoal>>)
  <2>1. /\ Sub(c) \in Conj(ns, nc) /\ Own(<<CutGoal>>) \in Conj(ns, nc) /\ Sub(t) \in Conj(ns, nc)
        /\ CutsTo(Sub(c), n) /\ CutsTo(Own(<<CutGoal>>), n) /\ ClauseBody(Sub(t), rg, n)
    BY <1>3, <1>5, <1>7
  <2>2. front \in Conj(ns, nc) /\ CutsTo(front, n)
    BY <2>1, ConcatSeq, JoinCutsTo DEF Conj
  <2> HIDE DEF front
  <2>3. ClauseBody(front \o Sub(t), rg, n)
    BY <1>2, <2>1, <2>2, JoinClauseBody DEF Conj
  <2>. QED
    BY <1>4, <2>3 DEF front
<1> HIDE DEF If
<1>8. /\ g.op = "or" /\ (Cuts(g.left) \/ Cuts(g.right)) => g \in Cutting
      /\ g.op \in {"ifthen", "ite"} => ~Cuts(g.cond) /\ (Cuts(g.then) => g \in Cutting)
      /\ g.op = "ite" /\ (Cuts(g.else) \/ IfThen(g.cond, g.then) \in Cutting) => g \in Cutting
  BY <1>1 DEF LocalCuts, CutsAreLocal, Cuts
<1>9. CASE g.op = "or"
  <2>1. g.left \in Seq(Goals) /\ g.right \in Seq(Goals)
    BY <1>1, <1>9, GoalsAssumption
  <2>2. ClausesOf(rg, n) = <<Rule(Sub(g.left)), Rule(Sub(g.right))>>
    BY <1>9 DEF ClausesOf, IsCore, CoreClauses, Rule, Sub
  <2>3. Good(Rule(Sub(g.left))) /\ Good(Rule(Sub(g.right)))
    BY <1>3, <1>4, <1>8, <1>9, <2>1
  <2>4. \A i \in 1 .. 2 : Good(<<Rule(Sub(g.left)), Rule(Sub(g.right))>>[i])
    BY <2>3
  <2>5. Len(<<Rule(Sub(g.left)), Rule(Sub(g.right))>>) = 2
    OBVIOUS
  <2>. QED
    BY <2>2, <2>4, <2>5 DEF Good
<1>10. CASE g.op = "ite"
  <2> DEFINE c1 == If(g.cond, g.then)
             c2 == Rule(Own(<<CutGoal>>) \o Sub(g.else))
             c3 == Rule(Sub(<<IfThen(g.cond, g.then)>>))
             c4 == Rule(Sub(g.else))
  <2>1. /\ g.cond \in Seq(Goals) /\ g.then \in Seq(Goals) /\ g.else \in Seq(Goals)
        /\ IfThen(g.cond, g.then) \in Goals
    BY <1>1, <1>10, GoalsAssumption
  <2>2. ClausesOf(rg, n) = <<c1, c2, c3, c4>>
    BY <1>10 DEF ClausesOf, IsCore, CoreClauses, Rule, Sub, Own, If
  <2>3. Good(c1)
    BY <1>7, <1>8, <1>10, <2>1
  <2>4. ClauseBody(Sub(g.else), rg, n) /\ Sub(g.else) \in Conj(ns, nc)
    BY <1>3, <1>8, <1>10, <2>1
  <2>5. Good(c2)
    <3>1. ClauseBody(Own(<<CutGoal>>) \o Sub(g.else), rg, n)
      BY <1>2, <1>3, <1>5, <2>4, JoinClauseBody DEF Conj
    <3>. QED
      BY <1>4, <3>1
  <2>6. Good(c3)
    <3>1. <<IfThen(g.cond, g.then)>> \in Seq(Goals)
      BY <2>1
    <3>2. Cuts(<<IfThen(g.cond, g.then)>>) => g \in Cutting
      BY <1>8, <1>10 DEF Cuts
    <3>. QED
      BY <1>3, <1>4, <3>1, <3>2
  <2>7. Good(c4)
    BY <1>4, <2>4
  <2> HIDE DEF c1, c2, c3, c4
  <2>8. Len(<<c1, c2, c3, c4>>) = 4 /\ \A i \in 1 .. 4 : Good(<<c1, c2, c3, c4>>[i])
    BY <2>3, <2>5, <2>6, <2>7
  <2>. QED
    BY <2>2, <2>8 DEF Good
<1>11. CASE g.op = "ifthen"
  <2>1. g.cond \in Seq(Goals) /\ g.then \in Seq(Goals)
    BY <1>1, <1>11, GoalsAssumption
  <2>2. ClausesOf(rg, n) = <<If(g.cond, g.then)>>
    BY <1>11 DEF ClausesOf, IsCore, CoreClauses, Rule, Sub, Own, If
  <2>3. Good(If(g.cond, g.then))
    BY <1>7, <1>8, <1>11, <2>1
  <2>. QED
    BY <2>2, <2>3 DEF Good
<1>12. CASE g.op = "once"
  <2>1. <<CallOf(g.goal), CutGoal>> \in Seq(Goals)
    BY <1>1, <1>5, <1>12, GoalsAssumption
  <2>2. ClausesOf(rg, n) = <<Rule(Own(<<CallOf(g.goal), CutGoal>>))>>
    BY <1>12 DEF ClausesOf, IsCore, CoreClauses, Rule, Own
  <2>3. Good(Rule(Own(<<CallOf(g.goal), CutGoal>>)))
    BY <1>4, <1>6, <2>1
  <2>. QED
    BY <2>2, <2>3 DEF Good
<1>13. CASE g.op = "not"
  <2> DEFINE c1 == Rule(Own(<<CallOf(g.goal), CutGoal, FailGoal>>))
             c2 == Rule(<<>>)
  <2>1. <<CallOf(g.goal), CutGoal, FailGoal>> \in Seq(Goals)
    BY <1>1, <1>5, <1>13, GoalsAssumption
  <2>2. ClausesOf(rg, n) = <<c1, c2>>
    BY <1>13 DEF ClausesOf, IsCore, CoreClauses, Rule, Own
  <2>3. Good(c1)
    BY <1>4, <1>6, <2>1
  <2>4. Good(c2)
    BY <1>4 DEF ClauseBody
  <2> HIDE DEF c1, c2
  <2>5. Len(<<c1, c2>>) = 2 /\ \A i \in 1 .. 2 : Good(<<c1, c2>>[i])
    BY <2>3, <2>4
  <2>. QED
    BY <2>2, <2>5 DEF Good
<1>14. CASE g.op = "pred"
  <2> DEFINE db == prog.db[g.name]
             arg == ArgOf(g.arg, rg)
             body(i) == Bake(db[i].body, arg, n)
  <2>1. g.name \in Preds
    BY <1>1, <1>14, GoalsAssumption
  <2>2. db \in Seq(Clause)
    BY <2>1, ProgramsAssumption
  <2>3. ASSUME NEW i \in 1 .. Len(db)
        PROVE  ClauseBody(body(i), rg, n)
    <3>1. db[i] \in Clause
      BY <2>2, ElementOfSeq
    <3>2. db[i].body \in Seq(Goals)
      BY <3>1 DEF Clause
    <3>. QED
      BY <1>2, <3>2, BakeCutsTo, CutsToBody
  <2>4. ClausesOf(rg, n) = [i \in 1 .. Len(db) |-> [head |-> db[i].head, body |-> body(i)]]
    BY <1>14 DEF ClausesOf, IsCore
  <2>5. Len(db) \in Nat
    BY <2>2, LenProperties
  <2> HIDE DEF body, db
  <2>6. Len(ClausesOf(rg, n)) = Len(db)
    BY <2>4, <2>5
  <2>7. \A i \in 1 .. Len(db) : ClausesOf(rg, n)[i].body = body(i)
    BY <2>4
  <2>. QED
    BY <2>3, <2>6, <2>7
<1>. QED
  BY <1>9, <1>10, <1>11, <1>12, <1>13, <1>14 DEF IsCall, IsCore

(***************************************************************************)
(* The invariant.  Fence k is where the k-th nested query began, fence 0   *)
(* where the outermost one did: Bases(k) frames and CMarks(k) entries are  *)
(* older than it.                                                          *)
(***************************************************************************)
Fences == 0 .. Len(outer)
Bases(k) == IF k = Len(outer) THEN base ELSE outer[k + 1].base
CMarks(k) == IF k = 0 THEN 0 ELSE outer[k].cmark

FencesOK ==
  /\ Bases(0) = 0
  /\ \A k \in Fences : Bases(k) \in 0 .. sp /\ CMarks(k) \in 0 .. catch_sp
  /\ \A k, l \in Fences : k <= l => Bases(k) <= Bases(l) /\ CMarks(k) <= CMarks(l)

\* A choicepoint's goals fit the stack below it.  One that is older than a fence
\* refers to older catches only, one that is newer stays above the fence.
FramesOK ==
  \A i \in 1 .. sp :
    /\ stack[i].barrier = i - 1
    /\ \A k \in Fences :
         IF i <= Bases(k)
         THEN RefersTo(stack[i].goals, stack[i].active_catch, 0, CMarks(k))
         ELSE Scoped(catches, stack[i].goals, stack[i].active_catch,
                     Bases(k), i - 1, CMarks(k), catch_sp)

\* A catch's continuation fits the stack as it was when the catch was entered.
\* Its recovery brings no level with it: the cuts of a goal that was an argument
\* are raw.
NoLevels(goals) == \A i \in 1 .. Len(goals) : ~IsMark(goals[i]) /\ ~HasLevel(goals[i])

EntriesOK ==
  \A j \in 1 .. catch_sp :
    /\ NoLevels(catches[j].recovery)
    /\ \A k \in Fences : CMarks(k) < j =>
         /\ Bases(k) <= catches[j].sp_at_entry
         /\ Scoped(catches, catches[j].continuation, catches[j].outer,
                   Bases(k), catches[j].sp_at_entry, CMarks(k), j - 1)

\* What a query will go on with fits the stacks as the query nested in it found
\* them, and as that will leave them.
SuspendedOK ==
  \A m \in 1 .. Len(outer) : \A k \in 0 .. m - 1 :
    Scoped(catches, outer[m].rest, outer[m].active_catch,
           Bases(k), Bases(m), CMarks(k), CMarks(m))

\* The goals being run.  Once a ball is thrown, only the catch in scope matters:
\* what it cuts back to is there, and belongs to the query that threw.
Running(k) ==
  pc \in {"A", "B", "C"}
    => Scoped(catches, cn, active_catch, Bases(k), sp, CMarks(k), catch_sp)
Throwing(k) ==
  pc = "T" /\ active_catch # NoCatch
    => /\ active_catch \in CMarks(k) + 1 .. catch_sp
       /\ catches[active_catch].sp_at_entry \in Bases(k) .. sp
HereOK ==
  /\ pc = "B" => try.barrier = sp
  /\ \A k \in Fences : Running(k) /\ Throwing(k)

StoredOK == FencesOK /\ FramesOK /\ EntriesOK /\ SuspendedOK
ScopeInv == ~prog.gc /\ StoredOK /\ HereOK

(***************************************************************************)
(* Fences.                                                                 *)
(***************************************************************************)
LEMMA FenceTypes ==
  ASSUME TypeOK, FencesOK
  PROVE  /\ Len(outer) \in Fences /\ 0 \in Fences /\ Len(outer) \in Nat
         /\ Bases(0) = 0 /\ CMarks(0) = 0
         /\ Bases(Len(outer)) = base /\ CMarks(Len(outer)) = CatchBase
         /\ base \in 0 .. sp /\ CatchBase \in 0 .. catch_sp /\ sp \in Nat /\ catch_sp \in Nat
         /\ \A k \in Fences : /\ k \in Nat
                              /\ Bases(k) \in Nat /\ CMarks(k) \in Nat
                              /\ Bases(k) <= base /\ CMarks(k) <= CatchBase
                              /\ Bases(k) <= sp /\ CMarks(k) <= catch_sp
<1>1. Len(outer) \in Nat /\ outer \in Seq(Suspended(Len(stack), Len(catches)))
  BY LenProperties DEF TypeOK
<1>2. sp \in Nat /\ catch_sp \in Nat
  BY Lengths DEF TypeOK
<1>3. Len(outer) \in Fences /\ 0 \in Fences
  BY <1>1 DEF Fences
<1>4. Bases(Len(outer)) = base /\ CMarks(0) = 0 /\ Bases(0) = 0
  BY DEF Bases, CMarks, FencesOK
<1>5. CMarks(Len(outer)) = CatchBase
  <2>1. CASE outer = <<>>
    BY <2>1 DEF CMarks, CatchBase
  <2>2. CASE outer # <<>>
    <3>1. Len(outer) # 0
      BY <1>1, <2>2, EmptySeq
    <3>. QED
      BY <2>2, <3>1 DEF CMarks, CatchBase
  <2>. QED
    BY <2>1, <2>2
<1>6. ASSUME NEW k \in Fences
      PROVE  /\ k \in Nat /\ Bases(k) \in 0 .. sp /\ CMarks(k) \in 0 .. catch_sp
             /\ Bases(k) <= Bases(Len(outer)) /\ CMarks(k) <= CMarks(Len(outer))
  <2>1. k \in Nat /\ k <= Len(outer)
    BY <1>1 DEF Fences
  <2>. QED
    BY <1>3, <2>1 DEF FencesOK
<1>7. ASSUME NEW k \in Fences
      PROVE  /\ k \in Nat
             /\ Bases(k) \in Nat /\ CMarks(k) \in Nat
             /\ Bases(k) <= base /\ CMarks(k) <= CatchBase
             /\ Bases(k) <= sp /\ CMarks(k) <= catch_sp
  BY <1>2, <1>4, <1>5, <1>6
<1>8. base \in 0 .. sp /\ CatchBase \in 0 .. catch_sp
  BY <1>3, <1>4, <1>5, <1>6
<1>. QED
  BY <1>1, <1>2, <1>3, <1>4, <1>5, <1>7, <1>8

LEMMA FencesSame ==
  ASSUME UNCHANGED nesting
  PROVE  Fences' = Fences /\ \A k : Bases(k)' = Bases(k) /\ CMarks(k)' = CMarks(k)
BY DEF nesting, Fences, Bases, CMarks

\* A step that takes at most frames of its own query off the stack and stores
\* nothing.
Shrinks == sp' \in base .. sp /\ UNCHANGED <<stack, catches, catch_sp, nesting>>

LEMMA ShrinksKeeps ==
  ASSUME TypeOK, StoredOK, Shrinks
  PROVE  StoredOK'
<1>1. FencesOK /\ FramesOK /\ EntriesOK /\ SuspendedOK
  BY DEF StoredOK
<1>2. /\ UNCHANGED nesting /\ outer' = outer /\ base' = base
      /\ stack' = stack /\ catches' = catches /\ catch_sp' = catch_sp
      /\ sp' \in base .. sp
  BY DEF Shrinks, nesting
<1>3. /\ Fences' = Fences
      /\ \A k : Bases(k)' = Bases(k) /\ CMarks(k)' = CMarks(k)
  BY <1>2, FencesSame
<1>4. /\ base \in Nat /\ sp \in Nat
      /\ \A k \in Fences : Bases(k) \in Nat /\ Bases(k) <= base
  BY <1>1, FenceTypes
<1>5. sp' \in Nat /\ sp' <= sp /\ base <= sp'
  BY <1>2, <1>4
<1>6. FencesOK'
  <2>1. \A k \in Fences : Bases(k) \in 0 .. sp'
    BY <1>4, <1>5
  <2>. QED
    BY <1>1, <1>2, <1>3, <2>1 DEF FencesOK
<1>7. FramesOK'
  <2>1. \A i \in 1 .. sp' : i \in 1 .. sp
    BY <1>4, <1>5
  <2>. QED
    BY <1>1, <1>2, <1>3, <2>1 DEF FramesOK
<1>8. EntriesOK'
  BY <1>1, <1>2, <1>3 DEF EntriesOK
<1>9. SuspendedOK'
  BY <1>1, <1>2, <1>3 DEF SuspendedOK
<1>. QED
  BY <1>6, <1>7, <1>8, <1>9 DEF StoredOK

(***************************************************************************)
(* The steps that store nothing.                                           *)
(***************************************************************************)
\* The goals being run, taken apart.
LEMMA Now ==
  ASSUME TypeOK, ScopeInv, pc \in {"A", "B", "C"}
  PROVE  /\ cn \in Conj(Len(stack), Len(catches))
         /\ \A k \in Fences :
              /\ Bases(k) \in Nat /\ CMarks(k) \in Nat
              /\ Scoped(catches, cn, active_catch, Bases(k), sp, CMarks(k), catch_sp)
         /\ sp \in Nat /\ catch_sp \in Nat /\ base \in 0 .. sp
         /\ \A k \in Fences : Bases(k) <= base /\ CMarks(k) <= catch_sp /\ Bases(k) <= sp
<1>1. cn \in Conj(Len(stack), Len(catches))
  BY DEF TypeOK
<1>2. FencesOK /\ HereOK
  BY DEF ScopeInv, StoredOK
<1>3. \A k \in Fences : Scoped(catches, cn, active_catch, Bases(k), sp, CMarks(k), catch_sp)
  BY <1>2 DEF HereOK, Running
<1>. QED
  BY <1>1, <1>2, <1>3, FenceTypes

\* The head of the goals being run is done, and was not a mark.
LEMMA NowRest ==
  ASSUME TypeOK, ScopeInv, pc \in {"A", "B", "C"}, cn # <<>>, ~IsMark(Head(cn))
  PROVE  \A k \in Fences :
           /\ Scoped(catches, Rest, active_catch, Bases(k), sp, CMarks(k), catch_sp)
           /\ HasLevel(Head(cn)) =>
                /\ Head(cn).n \in Bases(k) .. sp
                /\ Scoped(catches, Rest, active_catch, Bases(k), Head(cn).n, CMarks(k), catch_sp)
<1>1. cn \in Seq(HeapGoals(Len(stack), Len(catches)))
  BY Now DEF Conj
<1>2. ASSUME NEW k \in Fences
      PROVE  /\ Scoped(catches, Rest, active_catch, Bases(k), sp, CMarks(k), catch_sp)
             /\ HasLevel(Head(cn)) =>
                  /\ Head(cn).n \in Bases(k) .. sp
                  /\ Scoped(catches, Rest, active_catch, Bases(k), Head(cn).n, CMarks(k), catch_sp)
  <2>1. /\ Bases(k) \in Nat /\ sp \in Nat /\ CMarks(k) \in Nat /\ catch_sp \in Nat
        /\ Scoped(catches, cn, active_catch, Bases(k), sp, CMarks(k), catch_sp)
    BY Now
  <2>. QED
    BY <1>1, <2>1, ScopedTail DEF Rest
<1>. QED
  BY <1>2

LEMMA Continues ==
  ASSUME UNCHANGED nesting, pc' \in {"A", "C"},
         \A k \in Fences :
           Scoped(catches', cn', active_catch', Bases(k), sp', CMarks(k), catch_sp')
  PROVE  HereOK'
<1>1. Fences' = Fences /\ \A k : Bases(k)' = Bases(k) /\ CMarks(k)' = CMarks(k)
  BY FencesSame
<1>2. \A k \in Fences : Running(k)' /\ Throwing(k)'
  BY <1>1 DEF Running, Throwing
<1>. QED
  BY <1>1, <1>2 DEF HereOK

\* The same goals, at another label.
LEMMA Stays ==
  ASSUME TypeOK, ScopeInv, pc \in {"A", "B", "C"}, pc' \in {"A", "B", "C"},
         UNCHANGED <<cn, sp, catches, catch_sp, active_catch, nesting>>,
         pc' = "B" => try'.barrier = sp
  PROVE  HereOK'
<1>1. UNCHANGED nesting
  BY DEF nesting
<1>2. Fences' = Fences /\ \A k : Bases(k)' = Bases(k) /\ CMarks(k)' = CMarks(k)
  BY <1>1, FencesSame
<1>3. \A k \in Fences : Scoped(catches, cn, active_catch, Bases(k), sp, CMarks(k), catch_sp)
  BY Now
<1>4. \A k \in Fences : Running(k)' /\ Throwing(k)'
  BY <1>2, <1>3 DEF Running, Throwing
<1>. QED
  BY <1>2, <1>4 DEF HereOK

\* A ball is thrown: the catch in scope is one of the marks ahead.
LEMMA Raises ==
  ASSUME TypeOK, ScopeInv, pc \in {"A", "B", "C"}, pc' = "T",
         UNCHANGED <<sp, catches, catch_sp, active_catch, nesting>>
  PROVE  HereOK'
<1>1. UNCHANGED nesting
  BY DEF nesting
<1>2. Fences' = Fences /\ \A k : Bases(k)' = Bases(k) /\ CMarks(k)' = CMarks(k)
  BY <1>1, FencesSame
<1>3. ASSUME NEW k \in Fences, active_catch # NoCatch
      PROVE  /\ active_catch \in CMarks(k) + 1 .. catch_sp
             /\ catches[active_catch].sp_at_entry \in Bases(k) .. sp
  <2>1. Scoped(catches, cn, active_catch, Bases(k), sp, CMarks(k), catch_sp)
    BY Now
  <2>. QED
    BY <1>3, <2>1, ScopedAhead
<1>4. \A k \in Fences : Running(k)' /\ Throwing(k)'
  BY <1>2, <1>3 DEF Running, Throwing
<1>. QED
  BY <1>2, <1>4 DEF HereOK

LEMMA SameStacks ==
  ASSUME TypeOK, ScopeInv, UNCHANGED <<stack, sp, catches, catch_sp, nesting>>
  PROVE  Shrinks
<1>1. base \in 0 .. sp /\ sp \in Nat
  BY FenceTypes DEF ScopeInv, StoredOK
<1>2. sp \in base .. sp
  BY <1>1
<1>. QED
  BY <1>2 DEF Shrinks

\* `!' cuts down to a level: its own.
LEMMA CutScope ==
  ASSUME TypeOK, ScopeInv, LocalCuts, Cut
  PROVE  sp' <= sp /\ Shrinks /\ HereOK'
<1> DEFINE n == Head(cn).n
<1>1. /\ pc = "A" /\ cn # <<>> /\ Head(cn).goal.op = "cut" /\ ~IsMark(Head(cn))
      /\ sp' = IF n = Raw THEN sp ELSE n
      /\ pc' = "A" /\ cn' = Rest
      /\ UNCHANGED <<stack, catches, catch_sp, active_catch, nesting>>
  BY DEF Cut, At, Succeed, catching, IsMark
<1>2. FencesOK /\ Len(outer) \in Fences /\ Bases(Len(outer)) = base
  BY FenceTypes DEF ScopeInv, StoredOK
<1>3. sp \in Nat /\ base \in 0 .. sp
  BY <1>1, Now
<1>4. CASE n = Raw
  <2>1. \A k \in Fences : Scoped(catches, Rest, active_catch, Bases(k), sp, CMarks(k), catch_sp)
    BY <1>1, NowRest
  <2>2. sp' = sp
    BY <1>1, <1>4
  <2>3. HereOK'
    BY <1>1, <2>1, <2>2, Continues DEF nesting
  <2>. QED
    BY <1>1, <1>3, <2>2, <2>3 DEF Shrinks
<1>5. CASE n # Raw
  <2>1. Head(cn).goal \in Goals
    BY <1>1, Lengths, HeadType, SourceGoal DEF TypeOK
  <2>2. HasLevel(Head(cn))
    BY <1>1, <1>5, <2>1 DEF HasLevel, LocalCuts, CutsAreLocal
  <2>3. sp' = n
    BY <1>1, <1>5
  <2> HIDE DEF n
  <2>4. \A k \in Fences :
          n \in Bases(k) .. sp /\ Scoped(catches, Rest, active_catch, Bases(k), n, CMarks(k), catch_sp)
    BY <1>1, <2>2, NowRest DEF n
  <2>5. HereOK'
    BY <1>1, <2>3, <2>4, Continues DEF nesting
  <2>6. n \in base .. sp
    BY <1>2, <2>4
  <2>. QED
    BY <1>1, <1>3, <2>3, <2>5, <2>6 DEF Shrinks
<1>. QED
  BY <1>4, <1>5

LEMMA BuiltinScope ==
  ASSUME TypeOK, ScopeInv, Builtin
  PROVE  Shrinks /\ HereOK'
<1>1. /\ pc = "A" /\ cn # <<>> /\ ~IsMark(Head(cn))
      /\ UNCHANGED <<stack, sp, catches, catch_sp, active_catch, nesting>>
  BY DEF Builtin, At, frames, catching, IsMark
<1>2. CASE Succeed
  <2>1. \A k \in Fences : Scoped(catches, Rest, active_catch, Bases(k), sp, CMarks(k), catch_sp)
    BY <1>1, NowRest
  <2>. QED
    BY <1>1, <1>2, <2>1, Continues, SameStacks DEF Succeed, nesting
<1>3. CASE Backtrack
  BY <1>1, <1>3, Stays, SameStacks DEF Backtrack, nesting
<1>. QED
  BY <1>2, <1>3 DEF Builtin

LEMMA ThrowScope ==
  ASSUME TypeOK, ScopeInv, Throw \/ HeapExhausted
  PROVE  Shrinks /\ HereOK'
<1>1. /\ pc = "A" /\ pc' = "T"
      /\ UNCHANGED <<stack, sp, catches, catch_sp, active_catch, nesting>>
  BY DEF Throw, HeapExhausted, Raise, At, frames, catching
<1>. QED
  BY <1>1, Raises, SameStacks DEF nesting

LEMMA CallScope ==
  ASSUME TypeOK, ScopeInv, Call
  PROVE  Shrinks /\ HereOK'
<1>1. /\ pc = "A" /\ pc' = "B"
      /\ UNCHANGED <<cn, stack, sp, catches, catch_sp, active_catch, nesting>>
  BY DEF Call, frames, catching
<1>2. try'.barrier = sp'
  BY <1>1 DEF Call
<1>. QED
  BY <1>1, <1>2, Stays, SameStacks DEF nesting

LEMMA NoClauseScope ==
  ASSUME TypeOK, ScopeInv, NoClause
  PROVE  Shrinks /\ HereOK'
<1>1. /\ pc = "B" /\ UNCHANGED <<stack, sp, catches, catch_sp, active_catch, nesting>>
      /\ pc' = "T" \/ (pc' = "C" /\ cn' = cn)
  BY DEF NoClause, Raise, Backtrack, frames, catching
<1>2. CASE pc' = "T"
  BY <1>1, <1>2, Raises, SameStacks DEF nesting
<1>3. CASE pc' = "C" /\ cn' = cn
  BY <1>1, <1>3, Stays, SameStacks DEF nesting
<1>. QED
  BY <1>1, <1>2, <1>3

LEMMA HeadMismatchScope ==
  ASSUME TypeOK, ScopeInv, HeadMismatch
  PROVE  Shrinks /\ HereOK'
<1>1. /\ pc = "B" /\ UNCHANGED <<cn, stack, sp, catches, catch_sp, active_catch, nesting>>
      /\ pc' = "C" \/ (pc' = pc /\ try' = [try EXCEPT !.idx = NextMatch])
  BY DEF HeadMismatch, Backtrack, frames, catching
<1>2. pc' = "B" => try'.barrier = sp'
  <2>1. try.barrier = sp
    BY <1>1 DEF ScopeInv, HereOK
  <2>2. try \in [idx : Nat \ {0}, tmark : Nat, barrier : 0 .. Len(stack)]
    BY DEF TypeOK
  <2>3. [try EXCEPT !.idx = NextMatch].barrier = try.barrier
    BY <2>2
  <2>. QED
    BY <1>1, <2>1, <2>3
<1>. QED
  BY <1>1, <1>2, Stays, SameStacks DEF nesting

LEMMA Call1Scope ==
  ASSUME TypeOK, ScopeInv, Call1
  PROVE  Shrinks /\ HereOK'
<1> DEFINE ns == Len(stack)
           nc == Len(catches)
           rg == Head(cn)
           body == Bake(rg.goal.goal, rg.arg, sp)
<1>1. /\ pc = "A" /\ pc' = "A" /\ cn # <<>> /\ ~IsMark(Head(cn)) /\ cn' = body \o Rest
      /\ UNCHANGED <<stack, sp, catches, catch_sp, active_catch, nesting>>
  BY DEF Call1, At, frames, catching, IsMark
<1>2. rg \in HeapGoals(ns, nc) /\ rg.goal \in Goals /\ rg.arg \in Args /\ Rest \in Conj(ns, nc)
  BY <1>1, Lengths, HeadType, SourceGoal DEF TypeOK, Call1, At
<1>3. rg.goal.goal \in Seq(Goals)
  BY <1>2, GoalsAssumption DEF Call1, At
<1>4. body \in Conj(ns, nc) /\ CutsTo(body, sp)
  <2>1. sp \in Raw .. ns
    BY Lengths DEF TypeOK, Raw
  <2>. QED
    BY <1>2, <1>3, <2>1, Lengths, BakeType, BakeCutsTo
<1> HIDE DEF body
<1>5. ASSUME NEW k \in Fences
      PROVE  Scoped(catches, body \o Rest, active_catch, Bases(k), sp, CMarks(k), catch_sp)
  <2>1. /\ Bases(k) \in Nat /\ sp \in Nat /\ CMarks(k) \in Nat /\ catch_sp \in Nat /\ Bases(k) <= sp
    BY <1>1, Now
  <2>2. Scoped(catches, Rest, active_catch, Bases(k), sp, CMarks(k), catch_sp)
    BY <1>1, NowRest
  <2>. QED
    BY <1>2, <1>4, <2>1, <2>2, ScopedPush DEF CutsTo, Conj
<1>. QED
  BY <1>1, <1>5, Continues, SameStacks DEF nesting

\* '$$uncatch' leaves the catch in scope for the next one outwards.
LEMMA DoUncatchScope ==
  ASSUME TypeOK, ScopeInv, DoUncatch
  PROVE  Shrinks /\ HereOK'
<1>1. /\ pc = "A" /\ pc' = "A" /\ cn # <<>> /\ IsMark(Head(cn)) /\ cn' = Rest
      /\ active_catch' = catches[Head(cn).n].outer
      /\ UNCHANGED <<stack, sp, catches, catch_sp, nesting>>
  BY DEF DoUncatch, Succeed, At, frames, IsMark
<1>2. ASSUME NEW k \in Fences
      PROVE  Scoped(catches, Rest, catches[Head(cn).n].outer, Bases(k), sp, CMarks(k), catch_sp)
  <2>1. /\ Bases(k) \in Nat /\ sp \in Nat /\ CMarks(k) \in Nat /\ catch_sp \in Nat
        /\ Scoped(catches, cn, active_catch, Bases(k), sp, CMarks(k), catch_sp)
        /\ cn \in Seq(HeapGoals(Len(stack), Len(catches)))
    BY <1>1, Now DEF Conj
  <2>2. ASSUME NEW j \in CMarks(k) + 1 .. catch_sp
        PROVE  catches[j].outer = NoCatch \/ catches[j].outer \in CMarks(k) + 1 .. catch_sp
    <3>1. j \in 1 .. catch_sp /\ CMarks(k) < j
      BY <2>1
    <3>2. RefersTo(catches[j].continuation, catches[j].outer, CMarks(k), j - 1)
      BY <3>1 DEF ScopeInv, StoredOK, EntriesOK, Scoped
    <3>3. catches[j].outer = NoCatch \/ catches[j].outer \in CMarks(k) + 1 .. j - 1
      BY <3>2 DEF RefersTo
    <3>. QED
      BY <2>1, <3>1, <3>3
  <2>3. /\ Head(cn).n = active_catch
        /\ Scoped(catches, Tail(cn), catches[active_catch].outer, Bases(k), sp, CMarks(k), catch_sp)
    BY <1>1, <2>1, <2>2, ScopedUnmark
  <2>. QED
    BY <2>3 DEF Rest
<1>. QED
  BY <1>1, <1>2, Continues, SameStacks DEF nesting

\* The newest choicepoint of the query is resumed with the stack below it.
LEMMA RetryScope ==
  ASSUME TypeOK, ScopeInv, Retry
  PROVE  Shrinks /\ HereOK'
<1> DEFINE f == stack[sp]
<1>1. /\ pc = "C" /\ pc' = "B" /\ sp # base /\ sp > 0 /\ sp' = sp - 1
      /\ cn' = f.goals /\ active_catch' = f.active_catch
      /\ UNCHANGED <<stack, catches, catch_sp, nesting>>
  BY DEF Retry, frames
<1>2. try'.barrier = f.barrier
  BY DEF Retry
<1>3. sp \in Nat /\ catch_sp \in Nat /\ base \in 0 .. sp
  BY <1>1, Now
<1>4. sp \in 1 .. sp /\ sp - 1 \in base .. sp /\ sp - 1 \in Nat
  BY <1>1, <1>3
<1>5. f.barrier = sp - 1
  BY <1>4 DEF ScopeInv, StoredOK, FramesOK
<1>6. ASSUME NEW k \in Fences
      PROVE  Scoped(catches, f.goals, f.active_catch, Bases(k), sp - 1, CMarks(k), catch_sp)
  <2>1. Bases(k) <= base /\ Bases(k) \in Nat
    BY <1>1, Now
  <2>2. ~(sp <= Bases(k))
    BY <1>1, <1>3, <2>1
  <2>. QED
    BY <1>4, <2>2 DEF ScopeInv, StoredOK, FramesOK
<1>7. HereOK'
  <2>1. Fences' = Fences /\ \A k : Bases(k)' = Bases(k) /\ CMarks(k)' = CMarks(k)
    BY <1>1, FencesSame DEF nesting
  <2>2. \A k \in Fences : Running(k)' /\ Throwing(k)'
    BY <1>1, <1>6, <2>1 DEF Running, Throwing
  <2>. QED
    BY <1>1, <1>2, <1>5, <2>1, <2>2 DEF HereOK
<1>. QED
  BY <1>1, <1>4, <1>7 DEF Shrinks

\* do_throw at a catch in scope: the stack is cut to where it was entered, which
\* is below the top; its recovery runs in front of its continuation, or the ball
\* goes on to the next catch outwards.
LEMMA TryCatchScope ==
  ASSUME TypeOK, ScopeInv, TryCatch
  PROVE  Shrinks /\ HereOK'
<1> DEFINE entry == catches[active_catch]
<1>1. /\ pc = "T" /\ active_catch # NoCatch
      /\ sp' = entry.sp_at_entry /\ active_catch' = entry.outer
      /\ UNCHANGED <<stack, catches, catch_sp, nesting>>
      /\ (pc' = "A" /\ cn' = entry.recovery \o entry.continuation) \/ pc' = pc
  BY DEF TryCatch
<1>2. /\ Len(outer) \in Fences /\ 0 \in Fences /\ CMarks(0) = 0 /\ Bases(Len(outer)) = base
      /\ sp \in Nat /\ catch_sp \in Nat /\ base \in 0 .. sp
      /\ \A k \in Fences : Bases(k) \in Nat /\ CMarks(k) \in Nat
  BY FenceTypes DEF ScopeInv, StoredOK
<1>3. ASSUME NEW k \in Fences
      PROVE  active_catch \in CMarks(k) + 1 .. catch_sp /\ entry.sp_at_entry \in Bases(k) .. sp
  BY <1>1 DEF ScopeInv, HereOK, Throwing
<1>4. active_catch \in 1 .. catch_sp /\ entry.sp_at_entry \in base .. sp
  <2>1. active_catch \in CMarks(0) + 1 .. catch_sp
    BY <1>2, <1>3
  <2>2. entry.sp_at_entry \in Bases(Len(outer)) .. sp
    BY <1>2, <1>3
  <2>. QED
    BY <1>2, <2>1, <2>2
<1>5. ASSUME NEW k \in Fences
      PROVE  /\ Bases(k) <= entry.sp_at_entry
             /\ Scoped(catches, entry.continuation, entry.outer,
                       Bases(k), entry.sp_at_entry, CMarks(k), active_catch - 1)
  <2>1. CMarks(k) < active_catch
    BY <1>2, <1>3
  <2>. QED
    BY <1>4, <2>1 DEF ScopeInv, StoredOK, EntriesOK
<1>6. ASSUME NEW k \in Fences
      PROVE  Scoped(catches, entry.continuation, entry.outer,
                    Bases(k), entry.sp_at_entry, CMarks(k), catch_sp)
  <2>1. PICK a, e : a = active_catch /\ e = entry.sp_at_entry
    OBVIOUS
  <2>2. /\ e \in Nat /\ a - 1 \in Nat /\ a - 1 <= catch_sp /\ e <= e
        /\ catch_sp \in Nat /\ Bases(k) \in Nat /\ CMarks(k) \in Nat
    <3>1. a \in 1 .. catch_sp /\ e \in base .. sp /\ base \in 0 .. sp /\ sp \in Nat /\ catch_sp \in Nat
      BY <1>2, <1>4, <2>1
    <3>2. e \in Nat /\ a - 1 \in Nat /\ a - 1 <= catch_sp /\ e <= e
      BY ONLY <3>1
    <3>. QED
      BY <1>2, <3>1, <3>2
  <2>3. \A i \in 1 .. active_catch - 1 : catches[i] = catches[i]
    OBVIOUS
  <2>. QED
    BY <1>5, <2>1, <2>2, <2>3, ScopedLoose
<1>7. /\ entry.recovery \in Conj(Len(stack), Len(catches))
      /\ entry.continuation \in Conj(Len(stack), Len(catches))
  <2>1. active_catch \in 1 .. Len(catches)
    BY <1>1, Lengths DEF TypeOK, NoCatch
  <2>2. entry \in CatchEntry(Len(stack), Len(catches))
    BY <2>1, ElementOfSeq DEF TypeOK
  <2>. QED
    BY <2>2 DEF CatchEntry
<1>8. CASE pc' = "A" /\ cn' = entry.recovery \o entry.continuation
  <2>1. \A i \in 1 .. Len(entry.recovery) :
          ~IsMark(entry.recovery[i]) /\ ~HasLevel(entry.recovery[i])
    BY <1>4 DEF ScopeInv, StoredOK, EntriesOK, NoLevels
  <2>2. ASSUME NEW k \in Fences
        PROVE  Scoped(catches, cn', entry.outer, Bases(k), entry.sp_at_entry, CMarks(k), catch_sp)
    <3>1. /\ Bases(k) \in Nat /\ entry.sp_at_entry \in Nat /\ CMarks(k) \in Nat /\ catch_sp \in Nat
          /\ Bases(k) <= entry.sp_at_entry
      BY <1>2, <1>4, <1>5
    <3>. QED
      BY <1>6, <1>7, <1>8, <2>1, <3>1, ScopedPush DEF Conj
  <2>3. HereOK'
    BY <1>1, <1>8, <2>2, Continues DEF nesting
  <2>. QED
    BY <1>1, <1>4, <2>3 DEF Shrinks
<1>9. CASE pc' = pc
  <2>1. Fences' = Fences /\ \A k : Bases(k)' = Bases(k) /\ CMarks(k)' = CMarks(k)
    BY <1>1, FencesSame DEF nesting
  <2>2. ASSUME NEW k \in Fences, entry.outer # NoCatch
        PROVE  /\ entry.outer \in CMarks(k) + 1 .. catch_sp
               /\ catches[entry.outer].sp_at_entry \in Bases(k) .. entry.sp_at_entry
    BY <1>6, <2>2, ScopedAhead
  <2>3. \A k \in Fences : Running(k)' /\ Throwing(k)'
    BY <1>1, <1>9, <2>1, <2>2 DEF Running, Throwing
  <2>4. HereOK'
    BY <1>1, <1>9, <2>1, <2>3 DEF HereOK
  <2>. QED
    BY <1>1, <1>4, <2>4 DEF Shrinks
<1>. QED
  BY <1>1, <1>8, <1>9

\* The outermost query returns.
LEMMA ReturnScope ==
  ASSUME TypeOK, ScopeInv, outer = <<>>, NEW result, EndQuery(result),
         UNCHANGED <<stack, catches>>
  PROVE  Shrinks /\ HereOK'
<1>1. /\ pc' = "done" /\ sp' = base
      /\ UNCHANGED <<catch_sp, nesting>>
  BY DEF EndQuery, nesting
<1>2. sp \in Nat /\ base \in 0 .. sp
  BY FenceTypes DEF ScopeInv, StoredOK
<1>3. HereOK'
  BY <1>1 DEF HereOK, Running, Throwing
<1>4. base \in base .. sp
  BY <1>2
<1>. QED
  BY <1>1, <1>3, <1>4 DEF Shrinks

(***************************************************************************)
(* A choicepoint is pushed.                                                *)
(***************************************************************************)
LEMMA PushAt ==
  ASSUME NEW mem, Len(mem) \in Nat, NEW top \in 0 .. Len(mem), NEW x
  PROVE  /\ Push(mem, top, x)[top + 1] = x
         /\ \A i \in 1 .. top : Push(mem, top, x)[i] = mem[i]
<1> DEFINE n == IF top < Len(mem) THEN Len(mem) ELSE top + 1
<1>1. n \in Nat /\ top + 1 \in 1 .. n /\ \A i \in 1 .. top : i \in 1 .. n /\ i # top + 1
  OBVIOUS
<1>2. Push(mem, top, x) = [i \in 1 .. n |-> IF i = top + 1 THEN x ELSE mem[i]]
  BY DEF Push
<1> HIDE DEF n
<1>. QED
  BY <1>1, <1>2

\* What a call goes on with: the body of the clause it resolves against.
LEMMA ResolvedScope ==
  ASSUME TypeOK, ScopeInv, LocalCuts, Resolve
  PROVE  \A k \in Fences : Scoped(catches, cn', active_catch, Bases(k), sp, CMarks(k), catch_sp)
<1> DEFINE rg == Head(cn)
           body == Clauses[Match].body
           nc == Len(catches)
           ns == Len(stack)
<1>1. pc = "B" /\ Match # 0 /\ cn' = body \o Rest
  BY DEF Resolve
<1>2. /\ cn # <<>> /\ rg \in HeapGoals(ns, nc) /\ Rest \in Conj(ns, nc) /\ body \in Conj(ns, nc)
      /\ Match \in Nat
  BY <1>1, AtB
<1>3. IsCall(rg.goal)
  BY <1>1 DEF TypeOK, Calling
<1>4. ~IsMark(rg)
  BY <1>3 DEF IsCall, IsCore, IsMark
<1>5. try.barrier = sp /\ sp \in 0 .. ns /\ sp \in Nat /\ ns \in Nat /\ nc \in Nat
  BY <1>1, Lengths DEF ScopeInv, HereOK, TypeOK
<1>6. HasLevel(rg) => rg.n <= sp
  <2>1. 0 \in Fences /\ Bases(0) = 0
    BY FenceTypes DEF ScopeInv, StoredOK
  <2>2. HasLevel(rg) => rg.n \in Bases(0) .. sp
    BY <1>1, <1>2, <1>4, <2>1, NowRest
  <2>. QED
    BY <1>5, <2>1, <2>2
<1>7. ClauseBody(body, rg, sp)
  <2>1. Clauses \in Seq(Rules(ns, nc))
    BY <1>2, <1>3, <1>5, ClausesType DEF Clauses, TypeOK
  <2>2. Match \in 1 .. Len(Clauses)
    <3>1. Len(Clauses) \in Nat /\ try.idx \in Nat \ {0}
      BY <2>1, LenProperties DEF TypeOK
    <3>2. Match # 0 => Match \in try.idx .. Len(Clauses)
      BY <3>1, BucketMatchType DEF Match
    <3>. QED
      BY <1>1, <3>1, <3>2
  <2>3. \A i \in 1 .. Len(ClausesOf(rg, sp)) : ClauseBody(ClausesOf(rg, sp)[i].body, rg, sp)
    <3>1. prog \in Programs
      BY DEF TypeOK
    <3>. QED
      BY <1>2, <1>3, <1>5, <1>6, <3>1, ClausesCut
  <2>4. Clauses = ClausesOf(rg, sp)
    BY <1>5 DEF Clauses
  <2>. QED
    BY <2>2, <2>3, <2>4
<1> HIDE DEF body, rg
<1>8. ASSUME NEW k \in Fences
      PROVE  Scoped(catches, body \o Rest, active_catch, Bases(k), sp, CMarks(k), catch_sp)
  <2>1. /\ Bases(k) \in Nat /\ CMarks(k) \in Nat /\ catch_sp \in Nat /\ Bases(k) <= sp
        /\ Scoped(catches, Rest, active_catch, Bases(k), sp, CMarks(k), catch_sp)
        /\ HasLevel(rg) =>
             /\ rg.n \in Bases(k) .. sp
             /\ Scoped(catches, Rest, active_catch, Bases(k), rg.n, CMarks(k), catch_sp)
    BY <1>1, <1>2, <1>4, Now, NowRest DEF rg
  <2>2. ASSUME NEW i \in 1 .. Len(body), HasLevel(body[i])
        PROVE  body[i].n \in Bases(k) .. sp
    <3>1. body[i].n = sp \/ (HasLevel(rg) /\ body[i].n = rg.n)
      BY <1>7, <2>2 DEF ClauseBody
    <3>2. sp \in Bases(k) .. sp
      BY <1>5, <2>1
    <3>. QED
      BY <2>1, <3>1, <3>2
  <2>3. ASSUME NEW i \in 1 .. Len(body), NEW j \in 1 .. Len(Rest),
               HasLevel(body[i]), HasLevel(Rest[j])
        PROVE  Level(catches, Rest[j]) <= body[i].n
    <3>1. CASE body[i].n = sp
      <4>1. Level(catches, Rest[j]) \in Bases(k) .. sp
        BY <2>1, <2>3 DEF Scoped, Levels
      <4>. QED
        BY <1>5, <2>1, <3>1, <4>1
    <3>2. CASE HasLevel(rg) /\ body[i].n = rg.n
      <4>1. Level(catches, Rest[j]) \in Bases(k) .. rg.n
        BY <2>1, <2>3, <3>2 DEF Scoped, Levels
      <4>2. rg.n \in Bases(k) .. sp
        BY <2>1, <3>2
      <4>. QED
        BY <1>5, <2>1, <3>2, <4>1, <4>2
    <3>3. body[i].n = sp \/ (HasLevel(rg) /\ body[i].n = rg.n)
      BY <1>7, <2>3 DEF ClauseBody
    <3>. QED
      BY <3>1, <3>2, <3>3
  <2>4. /\ \A i \in 1 .. Len(body) : ~IsMark(body[i])
        /\ \A i, j \in 1 .. Len(body) :
             i < j /\ HasLevel(body[i]) /\ HasLevel(body[j]) => body[j].n <= body[i].n
    BY <1>7 DEF ClauseBody
  <2>. QED
    BY <1>2, <1>5, <2>1, <2>2, <2>3, <2>4, ScopedJoin DEF Conj
<1>. QED
  BY <1>1, <1>8 DEF body

LEMMA ResolveScope ==
  ASSUME TypeOK, ScopeInv, LocalCuts, Resolve
  PROVE  StoredOK' /\ HereOK'
<1> DEFINE frame == [goals |-> cn, idx |-> NextMatch, tmark |-> try.tmark,
                     barrier |-> try.barrier, active_catch |-> active_catch]
<1>1. /\ pc = "B" /\ pc' = "A"
      /\ UNCHANGED <<catches, catch_sp, active_catch, nesting>>
      /\ UNCHANGED <<stack, sp>> \/ (stack' = Push(stack, sp, frame) /\ sp' = sp + 1)
  BY DEF Resolve, catching, frames
<1>2. /\ sp \in Nat /\ catch_sp \in Nat /\ base \in 0 .. sp
      /\ \A k \in Fences : /\ Bases(k) \in Nat /\ CMarks(k) \in Nat
                           /\ Bases(k) <= sp /\ Bases(k) <= base
                           /\ Scoped(catches, cn, active_catch, Bases(k), sp, CMarks(k), catch_sp)
  BY <1>1, Now
<1>3. \A k \in Fences : Scoped(catches, cn', active_catch, Bases(k), sp, CMarks(k), catch_sp)
  BY ResolvedScope
<1>4. CASE UNCHANGED <<stack, sp>>
  <2>1. HereOK'
    BY <1>1, <1>3, <1>4, Continues DEF nesting
  <2>2. Shrinks
    BY <1>1, <1>4, SameStacks DEF nesting
  <2>. QED
    BY <2>1, <2>2, ShrinksKeeps DEF ScopeInv
<1>5. CASE stack' = Push(stack, sp, frame) /\ sp' = sp + 1
  <2>1. /\ Fences' = Fences /\ outer' = outer
        /\ \A k : Bases(k)' = Bases(k) /\ CMarks(k)' = CMarks(k)
    BY <1>1, FencesSame DEF nesting
  <2>2. FencesOK /\ FramesOK /\ EntriesOK /\ SuspendedOK
    BY DEF ScopeInv, StoredOK
  <2>3. stack'[sp + 1] = frame /\ \A i \in 1 .. sp : stack'[i] = stack[i]
    <3>1. Len(stack) \in Nat /\ sp \in 0 .. Len(stack)
      BY Lengths DEF TypeOK
    <3>. QED
      BY <1>5, <3>1, PushAt
  <2>4. try.barrier = sp
    BY <1>1 DEF ScopeInv, HereOK
  <2>5. frame.goals = cn /\ frame.barrier = sp /\ frame.active_catch = active_catch
    BY <2>4
  <2> HIDE DEF frame
  <2>6. FencesOK'
    <3>1. \A k \in Fences : Bases(k) \in 0 .. sp'
      BY <1>2, <1>5
    <3>. QED
      BY <1>1, <2>1, <2>2, <3>1 DEF FencesOK
  <2>7. FramesOK'
    <3>1. ASSUME NEW i \in 1 .. sp + 1
          PROVE  /\ stack'[i].barrier = i - 1
                 /\ \A k \in Fences :
                      IF i <= Bases(k)
                      THEN RefersTo(stack'[i].goals, stack'[i].active_catch, 0, CMarks(k))
                      ELSE Scoped(catches, stack'[i].goals, stack'[i].active_catch,
                                  Bases(k), i - 1, CMarks(k), catch_sp)
      <4>1. CASE i \in 1 .. sp
        BY <2>2, <2>3, <4>1 DEF FramesOK
      <4>2. CASE i = sp + 1
        <5>1. stack'[i] = frame /\ i - 1 = sp
          BY <1>2, <2>3, <4>2
        <5>2. \A k \in Fences : ~(i <= Bases(k))
          BY <1>2, <4>2
        <5>. QED
          BY <1>2, <2>5, <5>1, <5>2
      <4>. QED
        BY <1>2, <4>1, <4>2
    <3>. QED
      BY <1>1, <1>5, <2>1, <3>1 DEF FramesOK
  <2>8. EntriesOK' /\ SuspendedOK'
    BY <1>1, <2>1, <2>2 DEF EntriesOK, SuspendedOK
  <2>9. HereOK'
    <3>1. ASSUME NEW k \in Fences
          PROVE  Scoped(catches, cn', active_catch, Bases(k), sp + 1, CMarks(k), catch_sp)
      <4>1. /\ Bases(k) \in Nat /\ sp \in Nat /\ CMarks(k) \in Nat /\ catch_sp \in Nat
            /\ sp + 1 \in Nat /\ sp <= sp + 1 /\ catch_sp <= catch_sp
            /\ \A i \in 1 .. catch_sp : catches[i] = catches[i]
        BY <1>2
      <4>. QED
        BY <1>3, <4>1, ScopedLoose
    <3>. QED
      BY <1>1, <1>5, <3>1, Continues DEF nesting
  <2>. QED
    BY <2>6, <2>7, <2>8, <2>9 DEF StoredOK
<1>. QED
  BY <1>1, <1>4, <1>5

(***************************************************************************)
(* A catch is entered.                                                     *)
(***************************************************************************)
LEMMA CatchScope ==
  ASSUME TypeOK, ScopeInv, Catch
  PROVE  StoredOK' /\ HereOK'
<1> DEFINE rg == Head(cn)
           ns == Len(stack)
           nc == Len(catches)
           idx == catch_sp + 1
           body == Bake(rg.goal.goal, rg.arg, sp)
           recovery == Bake(rg.goal.recovery, rg.arg, Raw)
           entry == [tmark |-> Len(store.trail), sp_at_entry |-> sp,
                     catcher |-> rg.goal.catcher, recovery |-> recovery,
                     continuation |-> Rest, outer |-> active_catch]
<1>1. /\ pc = "A" /\ pc' = "A" /\ cn # <<>> /\ ~IsMark(rg)
      /\ catches' = Push(catches, catch_sp, entry)
      /\ catch_sp' = idx /\ active_catch' = idx
      /\ cn' = body \o <<Uncatch(idx)>> \o Rest
      /\ UNCHANGED <<stack, sp, nesting>>
  BY DEF Catch, At, frames, IsMark
<1>2. rg \in HeapGoals(ns, nc) /\ rg.goal \in Goals /\ rg.arg \in Args /\ Rest \in Conj(ns, nc)
  BY <1>1, Lengths, HeadType, SourceGoal DEF TypeOK, Catch, At
<1>3. rg.goal.goal \in Seq(Goals) /\ rg.goal.recovery \in Seq(Goals)
  BY <1>2, GoalsAssumption DEF Catch, At
<1>4. /\ sp \in Nat /\ catch_sp \in Nat /\ base \in 0 .. sp /\ idx \in Nat /\ catch_sp <= idx
      /\ \A k \in Fences : /\ Bases(k) \in Nat /\ CMarks(k) \in Nat
                           /\ Bases(k) <= sp /\ CMarks(k) <= catch_sp
                           /\ Scoped(catches, Rest, active_catch, Bases(k), sp, CMarks(k), catch_sp)
  BY <1>1, Now, NowRest
<1>5. catches'[idx] = entry /\ \A i \in 1 .. catch_sp : catches'[i] = catches[i]
  <2>1. Len(catches) \in Nat /\ catch_sp \in 0 .. Len(catches)
    BY Lengths DEF TypeOK
  <2>. QED
    BY <1>1, <2>1, PushAt
<1>6. /\ Fences' = Fences /\ outer' = outer
      /\ \A k : Bases(k)' = Bases(k) /\ CMarks(k)' = CMarks(k)
  BY <1>1, FencesSame DEF nesting
<1>7. FencesOK /\ FramesOK /\ EntriesOK /\ SuspendedOK
  BY DEF ScopeInv, StoredOK
<1>8. /\ entry.sp_at_entry = sp /\ entry.recovery = recovery
      /\ entry.continuation = Rest /\ entry.outer = active_catch
  OBVIOUS
<1>9. NoLevels(recovery)
  <2>1. CutsTo(recovery, Raw) /\ \A i \in 1 .. Len(recovery) : recovery[i].n = Raw
    <3>1. \A i \in 1 .. Len(rg.goal.recovery) :
            HeapGoal(rg.goal.recovery[i], rg.arg, Raw).n = Raw
      BY DEF HeapGoal
    <3>. QED
      BY <1>3, <3>1, BakeAt, BakeCutsTo
  <2>. QED
    BY <2>1 DEF NoLevels, CutsTo, HasLevel
<1> HIDE DEF entry, recovery, idx
  \* The entries below are as they were: so is all that refers to them.
<1>10. ASSUME NEW goals, NEW a, NEW b \in Nat, NEW s \in Nat, NEW lo \in Nat, NEW hi \in 0 .. catch_sp,
              NEW hi2 \in Nat, hi <= hi2, Scoped(catches, goals, a, b, s, lo, hi)
       PROVE  Scoped(catches', goals, a, b, s, lo, hi2)
  <2>1. hi \in Nat /\ s <= s /\ \A i \in 1 .. hi : catches'[i] = catches[i]
    BY <1>4, <1>5
  <2>. QED
    BY <1>10, <2>1, ScopedLoose
<1>11. FencesOK'
  <2>1. \A k \in Fences : CMarks(k) \in 0 .. idx
    BY <1>4
  <2>. QED
    BY <1>1, <1>6, <1>7, <2>1 DEF FencesOK
<1>12. FramesOK'
  <2>1. ASSUME NEW i \in 1 .. sp, NEW k \in Fences, ~(i <= Bases(k))
        PROVE  Scoped(catches', stack[i].goals, stack[i].active_catch,
                      Bases(k), i - 1, CMarks(k), idx)
    <3>1. Scoped(catches, stack[i].goals, stack[i].active_catch,
                 Bases(k), i - 1, CMarks(k), catch_sp)
      BY <1>7, <2>1 DEF FramesOK
    <3>2. i - 1 \in Nat /\ catch_sp \in 0 .. catch_sp /\ Bases(k) \in Nat /\ CMarks(k) \in Nat
      BY <1>4
    <3>. QED
      BY <1>4, <1>10, <3>1, <3>2
  <2>. QED
    BY <1>1, <1>6, <1>7, <2>1 DEF FramesOK
<1>13. EntriesOK'
  <2>1. ASSUME NEW j \in 1 .. idx
        PROVE  /\ NoLevels(catches'[j].recovery)
               /\ \A k \in Fences : CMarks(k) < j =>
                    /\ Bases(k) <= catches'[j].sp_at_entry
                    /\ Scoped(catches', catches'[j].continuation, catches'[j].outer,
                              Bases(k), catches'[j].sp_at_entry, CMarks(k), j - 1)
    <3>1. CASE j \in 1 .. catch_sp
      <4>1. catches'[j] = catches[j]
        BY <1>5, <3>1
      <4>2. catches[j].sp_at_entry \in Nat
        <5>1. j \in 1 .. nc /\ catches \in Seq(CatchEntry(ns, nc))
          BY <3>1, Lengths DEF TypeOK
        <5>2. catches[j] \in CatchEntry(ns, nc)
          BY <5>1, ElementOfSeq
        <5>. QED
          BY <5>2 DEF CatchEntry
      <4>3. j - 1 \in 0 .. catch_sp /\ j - 1 \in Nat /\ j - 1 <= j - 1
        BY <1>4, <3>1
      <4>4. ASSUME NEW k \in Fences, CMarks(k) < j
            PROVE  /\ Bases(k) <= catches[j].sp_at_entry
                   /\ Scoped(catches', catches[j].continuation, catches[j].outer,
                             Bases(k), catches[j].sp_at_entry, CMarks(k), j - 1)
        <5>1. /\ Bases(k) <= catches[j].sp_at_entry
              /\ Scoped(catches, catches[j].continuation, catches[j].outer,
                        Bases(k), catches[j].sp_at_entry, CMarks(k), j - 1)
          BY <1>7, <3>1, <4>4 DEF EntriesOK
        <5>. QED
          BY <1>4, <1>10, <4>2, <4>3, <5>1
      <4>5. NoLevels(catches[j].recovery)
        BY <1>7, <3>1 DEF EntriesOK
      <4>. QED
        BY <4>1, <4>4, <4>5
    <3>2. CASE j = idx
      <4>1. catches'[j] = entry /\ j - 1 = catch_sp
        BY <1>4, <1>5, <3>2 DEF idx
      <4>2. \A k \in Fences : Scoped(catches', Rest, active_catch, Bases(k), sp, CMarks(k), catch_sp)
        BY <1>4, <1>10
      <4>. QED
        BY <1>4, <1>8, <1>9, <4>1, <4>2
    <3>. QED
      BY <1>4, <3>1, <3>2 DEF idx
  <2>. QED
    BY <1>1, <1>6, <2>1 DEF EntriesOK
<1>14. SuspendedOK'
  <2>1. ASSUME NEW m \in 1 .. Len(outer), NEW k \in 0 .. m - 1
        PROVE  Scoped(catches', outer[m].rest, outer[m].active_catch,
                      Bases(k), Bases(m), CMarks(k), CMarks(m))
    <3>1. m \in Fences /\ k \in Fences
      <4>1. Len(outer) \in Nat
        BY LenProperties DEF TypeOK
      <4>. QED
        BY <4>1 DEF Fences
    <3>2. Scoped(catches, outer[m].rest, outer[m].active_catch,
                 Bases(k), Bases(m), CMarks(k), CMarks(m))
      BY <1>7 DEF SuspendedOK
    <3>3. CMarks(m) \in 0 .. catch_sp /\ CMarks(m) <= CMarks(m)
      BY <1>4, <3>1
    <3>. QED
      BY <1>4, <1>10, <3>1, <3>2, <3>3
  <2>. QED
    BY <1>6, <2>1 DEF SuspendedOK
<1>15. ASSUME NEW k \in Fences
       PROVE  Scoped(catches', cn', idx, Bases(k), sp, CMarks(k), idx)
  <2>1. Scoped(catches', Rest, active_catch, Bases(k), sp, CMarks(k), catch_sp)
    BY <1>4, <1>10
  <2>2. /\ Uncatch(idx) \in HeapGoals(ns, idx + nc) /\ IsMark(Uncatch(idx))
        /\ Uncatch(idx).n = catch_sp + 1
    <3>1. idx \in 1 .. idx + nc /\ Fresh \in Args
      BY <1>4, Lengths DEF idx, Args
    <3>2. Uncatch(idx) = [goal |-> UncatchGoal, arg |-> Fresh, n |-> idx]
      BY DEF Uncatch, HeapGoal
    <3>3. UncatchGoal.op = "uncatch"
      BY DEF UncatchGoal
    <3>. QED
      BY <3>1, <3>2, <3>3 DEF HeapGoals, IsMark, idx
  <2>3. Rest \in Conj(ns, idx + nc) /\ body \in Conj(ns, idx + nc) /\ CutsTo(body, sp)
    <3>1. ns \in Nat /\ nc \in Nat /\ idx + nc \in Nat /\ ns <= ns /\ nc <= idx + nc
      BY <1>4, Lengths
    <3>2. sp \in Raw .. ns
      BY Lengths DEF TypeOK, Raw
    <3>. QED
      BY <1>2, <1>3, <3>1, <3>2, Grow, BakeType, BakeCutsTo
  <2>4. catches'[catch_sp + 1].sp_at_entry = sp /\ catches'[catch_sp + 1].outer = active_catch
    BY <1>5, <1>8 DEF idx
  <2>5. Scoped(catches', <<Uncatch(idx)>> \o Rest, idx, Bases(k), sp, CMarks(k), idx)
    BY <1>4, <2>1, <2>2, <2>3, <2>4, ScopedMark DEF idx, Conj
  <2>6. <<Uncatch(idx)>> \in Conj(ns, idx + nc)
    BY <2>2 DEF Conj
  <2>7. <<Uncatch(idx)>> \o Rest \in Conj(ns, idx + nc)
    BY <2>3, <2>6, ConcatSeq DEF Conj
  <2> HIDE DEF body
  <2>8. Scoped(catches', body \o (<<Uncatch(idx)>> \o Rest), idx, Bases(k), sp, CMarks(k), idx)
    BY <1>4, <2>3, <2>5, <2>7, ScopedPush DEF CutsTo, Conj
  <2>9. (body \o <<Uncatch(idx)>>) \o Rest = body \o (<<Uncatch(idx)>> \o Rest)
    BY <2>3, <2>6, ConcatAssociative DEF Conj
  <2>. QED
    BY <1>1, <2>8, <2>9 DEF body
<1>16. HereOK'
  BY <1>1, <1>15, Continues DEF nesting
<1>. QED
  BY <1>11, <1>12, <1>13, <1>14, <1>16 DEF StoredOK

(***************************************************************************)
(* A query is nested in the one being run, and ends.                       *)
(***************************************************************************)
LEMMA ConsultScope ==
  ASSUME TypeOK, ScopeInv, LocalCuts, Consult
  PROVE  StoredOK' /\ HereOK'
<1> DEFINE rg == Head(cn)
           o == [rest |-> Rest, active_catch |-> active_catch, base |-> base,
                 cmark |-> catch_sp, tmark |-> Len(store.trail)]
           directive == Bake(rg.goal.directive, Fresh, 0)
<1>0. PICK n : n = Len(outer)
  OBVIOUS
<1>1. /\ pc = "A" /\ pc' = "A" /\ cn # <<>> /\ ~IsMark(rg)
      /\ outer' = Append(outer, o) /\ base' = sp
      /\ active_catch' = NoCatch /\ cn' = directive
      /\ UNCHANGED <<stack, sp, catches, catch_sp>>
  BY DEF Consult, At, frames, IsMark
<1>2. rg.goal \in Goals /\ rg.goal.op = "consult"
  BY <1>1, Lengths, HeadType, SourceGoal DEF TypeOK, Consult, At
<1>3. rg.goal.directive \in Seq(Goals) /\ ~Cuts(rg.goal.directive)
  BY <1>2, GoalsAssumption DEF LocalCuts, CutsAreLocal, Cuts
<1>4. Len(directive) \in Nat /\ \A m : CutsTo(directive, m)
  BY <1>3, BakeAt, BakeNoCuts
<1>5. /\ sp \in Nat /\ catch_sp \in Nat /\ base \in 0 .. sp
      /\ \A k \in Fences : /\ Bases(k) \in Nat /\ CMarks(k) \in Nat
                           /\ Bases(k) <= sp /\ CMarks(k) <= catch_sp
                           /\ Scoped(catches, Rest, active_catch, Bases(k), sp, CMarks(k), catch_sp)
  BY <1>1, Now, NowRest
<1>6. FencesOK /\ FramesOK /\ EntriesOK /\ SuspendedOK
  BY DEF ScopeInv, StoredOK
<1>7. /\ n \in Nat /\ outer'[n + 1] = o /\ Len(outer') = n + 1 /\ Len(outer) = n
      /\ \A m \in 1 .. n : outer'[m] = outer[m]
  <2>1. outer \in Seq(Suspended(Len(stack), Len(catches)))
    BY DEF TypeOK
  <2>2. n \in Nat
    BY <1>0, <2>1, LenProperties
  <2>3. /\ Len(Append(outer, o)) = n + 1 /\ Append(outer, o)[n + 1] = o
        /\ \A m \in 1 .. n : Append(outer, o)[m] = outer[m]
    <3>1. outer \in Seq({outer[m] : m \in 1 .. n} \cup {o})
      BY <1>0, <2>1, <2>2, SeqDef, LenProperties
    <3>. QED
      BY <1>0, <3>1, AppendProperties
  <2>. QED
    BY <1>0, <1>1, <2>2, <2>3
<1>8. o.rest = Rest /\ o.active_catch = active_catch /\ o.base = base /\ o.cmark = catch_sp
  OBVIOUS
<1> HIDE DEF o, directive
<1>9. Fences = 0 .. n /\ Fences' = 0 .. n + 1
  BY <1>7 DEF Fences
<1>10. ASSUME NEW k \in Fences
       PROVE  Bases(k)' = Bases(k) /\ CMarks(k)' = CMarks(k)
  <2>1. k \in Nat /\ k <= n /\ (k # 0 => k \in 1 .. n) /\ (k # n => k + 1 \in 1 .. n)
    BY <1>7, <1>9
  <2>2. CMarks(k)' = CMarks(k)
    BY <1>7, <2>1 DEF CMarks
  <2>3. Bases(k)' = outer'[k + 1].base
    BY <1>7, <2>1 DEF Bases
  <2>4. CASE k = n
    <3>1. Bases(k) = base
      BY <1>7, <2>4 DEF Bases
    <3>2. outer'[k + 1].base = base
      BY <1>7, <1>8, <2>4
    <3>. QED
      BY <2>2, <2>3, <3>1, <3>2
  <2>5. CASE k # n
    <3>1. Bases(k) = outer[k + 1].base
      BY <1>7, <2>5 DEF Bases
    <3>2. outer'[k + 1] = outer[k + 1]
      BY <1>7, <2>1, <2>5
    <3>. QED
      BY <2>2, <2>3, <3>1, <3>2
  <2>. QED
    BY <2>2, <2>4, <2>5
<1>11. Bases(n + 1)' = sp /\ CMarks(n + 1)' = catch_sp
  BY <1>1, <1>7, <1>8 DEF Bases, CMarks
<1>12. ASSUME NEW k \in Fences'
       PROVE  k \in Fences \/ k = n + 1
  BY <1>7, <1>9, <1>12
<1>13. /\ 0 \in Fences /\ Bases(0) = 0 /\ CMarks(0) = 0
  BY <1>6, FenceTypes
<1>14. FencesOK'
  <2>1. Bases(0)' = 0
    BY <1>10, <1>13
  <2>2. ASSUME NEW k \in Fences'
        PROVE  /\ Bases(k)' \in 0 .. sp /\ CMarks(k)' \in 0 .. catch_sp
               /\ Bases(k)' \in Nat /\ CMarks(k)' \in Nat
    BY <1>5, <1>10, <1>11, <1>12
  <2>3. ASSUME NEW k \in Fences', NEW l \in Fences', k <= l
        PROVE  Bases(k)' <= Bases(l)' /\ CMarks(k)' <= CMarks(l)'
    <3>1. CASE l = n + 1
      <4>1. Bases(k)' <= sp /\ CMarks(k)' <= catch_sp
        BY <1>5, <2>2
      <4>. QED
        BY <1>11, <3>1, <4>1
    <3>2. CASE l # n + 1
      <4>1. l \in Fences /\ k \in Fences
        BY <1>7, <1>9, <2>3, <3>2
      <4>2. Bases(k) <= Bases(l) /\ CMarks(k) <= CMarks(l)
        BY <1>6, <2>3, <4>1 DEF FencesOK
      <4>. QED
        BY <1>10, <4>1, <4>2
    <3>. QED
      BY <3>1, <3>2
  <2>. QED
    BY <1>1, <2>1, <2>2, <2>3 DEF FencesOK
<1>15. FramesOK'
  <2>1. ASSUME NEW i \in 1 .. sp, NEW k \in Fences'
        PROVE  IF i <= Bases(k)'
               THEN RefersTo(stack[i].goals, stack[i].active_catch, 0, CMarks(k)')
               ELSE Scoped(catches, stack[i].goals, stack[i].active_catch,
                           Bases(k)', i - 1, CMarks(k)', catch_sp)
    <3>1. CASE k \in Fences
      BY <1>6, <1>10, <3>1 DEF FramesOK
    <3>2. CASE k = n + 1
      <4>1. ~(i <= Bases(0))
        BY <1>13
      <4>2. RefersTo(stack[i].goals, stack[i].active_catch, 0, catch_sp)
        <5>1. RefersTo(stack[i].goals, stack[i].active_catch, CMarks(0), catch_sp)
          BY <1>6, <1>13, <4>1 DEF FramesOK, Scoped
        <5>. QED
          BY <1>13, <5>1
      <4>3. i <= Bases(k)'
        BY <1>5, <1>11, <3>2
      <4>. QED
        BY <1>11, <3>2, <4>2, <4>3
    <3>. QED
      BY <1>12, <3>1, <3>2
  <2>2. \A i \in 1 .. sp : stack[i].barrier = i - 1
    BY <1>6 DEF FramesOK
  <2>. QED
    BY <1>1, <2>1, <2>2 DEF FramesOK
<1>16. EntriesOK'
  <2>1. ASSUME NEW j \in 1 .. catch_sp, NEW k \in Fences', CMarks(k)' < j
        PROVE  /\ Bases(k)' <= catches[j].sp_at_entry
               /\ Scoped(catches, catches[j].continuation, catches[j].outer,
                         Bases(k)', catches[j].sp_at_entry, CMarks(k)', j - 1)
    <3>1. k # n + 1
      BY <1>5, <1>11, <2>1
    <3>2. k \in Fences
      BY <1>12, <3>1
    <3>. QED
      BY <1>6, <1>10, <2>1, <3>2 DEF EntriesOK
  <2>2. \A j \in 1 .. catch_sp : NoLevels(catches[j].recovery)
    BY <1>6 DEF EntriesOK
  <2>. QED
    BY <1>1, <2>1, <2>2 DEF EntriesOK
<1>17. SuspendedOK'
  <2>1. ASSUME NEW m \in 1 .. n + 1, NEW k \in 0 .. m - 1
        PROVE  Scoped(catches, outer'[m].rest, outer'[m].active_catch,
                      Bases(k)', Bases(m)', CMarks(k)', CMarks(m)')
    <3>1. k \in Fences
      BY <1>7, <1>9
    <3>2. CASE m = n + 1
      BY <1>5, <1>7, <1>8, <1>10, <1>11, <3>1, <3>2
    <3>3. CASE m # n + 1
      <4>1. m \in 1 .. n /\ m \in Fences
        BY <1>7, <1>9, <3>3
      <4>2. Scoped(catches, outer[m].rest, outer[m].active_catch,
                   Bases(k), Bases(m), CMarks(k), CMarks(m))
        BY <1>6, <1>7, <4>1 DEF SuspendedOK
      <4>. QED
        BY <1>7, <1>10, <3>1, <4>1, <4>2
    <3>. QED
      BY <3>2, <3>3
  <2>. QED
    BY <1>1, <1>7, <2>1 DEF SuspendedOK
<1>18. HereOK'
  <2>1. ASSUME NEW k \in Fences'
        PROVE  Scoped(catches, directive, NoCatch, Bases(k)', sp, CMarks(k)', catch_sp)
    <3>1. Bases(k)' \in Nat /\ Bases(k)' <= sp
      BY <1>5, <1>10, <1>11, <1>12
    <3>2. \A i \in 1 .. Len(directive) :
            ~IsMark(directive[i]) /\ (HasLevel(directive[i]) => directive[i].n = sp)
      BY <1>4 DEF CutsTo
    <3>. QED
      BY <1>4, <1>5, <3>1, <3>2, ScopedStart
  <2>2. \A k \in Fences' : Running(k)' /\ Throwing(k)'
    BY <1>1, <2>1 DEF Running, Throwing
  <2>. QED
    BY <1>1, <2>2 DEF HereOK
<1>. QED
  BY <1>14, <1>15, <1>16, <1>17, <1>18 DEF StoredOK

\* What refers to older catches only still fits when the newer ones are dropped.
LEMMA ScopedTight ==
  ASSUME NEW cs, NEW goals, NEW idx, NEW b, NEW s,
         NEW lo \in Nat, NEW hi \in Nat, NEW hi2 \in Nat,
         Scoped(cs, goals, idx, b, s, lo, hi), RefersTo(goals, idx, 0, hi2)
  PROVE  Scoped(cs, goals, idx, b, s, lo, hi2)
<1>1. \A x : x \in lo + 1 .. hi /\ x \in 0 + 1 .. hi2 => x \in lo + 1 .. hi2
  OBVIOUS
<1>2. NoCatch \notin lo + 1 .. hi /\ NoCatch \notin 0 + 1 .. hi2
  BY DEF NoCatch
<1>3. RefersTo(goals, idx, lo, hi2)
  BY <1>1, <1>2 DEF Scoped, RefersTo
<1>. QED
  BY <1>3 DEF Scoped

LEMMA ResumeScope ==
  ASSUME TypeOK, ScopeInv, outer # <<>>, NEW result, EndQuery(result),
         UNCHANGED <<stack, catches>>
  PROVE  StoredOK' /\ HereOK'
<1> DEFINE n == Len(outer)
           o == outer[n]
<1>1. /\ pc' = "A" /\ cn' = o.rest /\ active_catch' = o.active_catch
      /\ sp' = base /\ base' = o.base /\ catch_sp' = o.cmark
      /\ outer' = SubSeq(outer, 1, n - 1)
      /\ stack' = stack /\ catches' = catches
  BY DEF EndQuery
<1>2. FencesOK /\ FramesOK /\ EntriesOK /\ SuspendedOK
  BY DEF ScopeInv, StoredOK
<1>3. /\ n \in Nat /\ n >= 1 /\ Len(outer') = n - 1
      /\ \A m \in 1 .. n - 1 : outer'[m] = outer[m]
  <2>1. outer \in Seq(Suspended(Len(stack), Len(catches)))
    BY DEF TypeOK
  <2>2. n \in Nat /\ n >= 1
    BY <2>1, EmptySeq, LenProperties
  <2>3. \A m \in 1 .. n - 1 : outer[m] \in Suspended(Len(stack), Len(catches))
    BY <2>1, <2>2, ElementOfSeq
  <2>4. /\ Len(SubSeq(outer, 1, n - 1)) = n - 1
        /\ \A m \in 1 .. n - 1 : SubSeq(outer, 1, n - 1)[m] = outer[m]
    <3>1. /\ Len(SubSeq(outer, 1, n - 1)) = IF 1 <= n - 1 THEN n - 1 - 1 + 1 ELSE 0
          /\ \A m \in 1 .. n - 1 - 1 + 1 : SubSeq(outer, 1, n - 1)[m] = outer[1 + m - 1]
      <4>1. 1 \in Int /\ n - 1 \in Int
        BY <2>2
      <4>. QED
        BY <2>3, <4>1, SubSeqProperties
    <3>2. \A m \in 1 .. n - 1 : m \in 1 .. n - 1 - 1 + 1 /\ 1 + m - 1 = m
      BY <2>2
    <3>3. PICK l : l = Len(SubSeq(outer, 1, n - 1))
      OBVIOUS
    <3>4. PICK m \in Nat : m = n
      BY <2>2
    <3>5. m >= 1 /\ l = IF 1 <= m - 1 THEN m - 1 - 1 + 1 ELSE 0
      BY <2>2, <3>1, <3>3, <3>4
    <3>6. l = m - 1
      BY ONLY <3>4, <3>5
    <3>. QED
      BY <3>1, <3>2, <3>3, <3>4, <3>6
  <2>. QED
    BY <1>1, <2>2, <2>4
<1>4. Fences = 0 .. n /\ Fences' = 0 .. n - 1
  BY <1>3 DEF Fences
<1>5. ASSUME NEW k \in Fences'
      PROVE  k \in Fences /\ k \in Nat /\ k < n /\ Bases(k)' = Bases(k) /\ CMarks(k)' = CMarks(k)
  <2>1. k \in Fences /\ k \in Nat /\ k < n /\ (k # 0 => k \in 1 .. n - 1)
        /\ (k # n - 1 => k + 1 \in 1 .. n - 1)
    BY <1>3, <1>4
  <2>2. CMarks(k)' = CMarks(k)
    BY <1>3, <2>1 DEF CMarks
  <2>3. Bases(k) = outer[k + 1].base
    BY <2>1 DEF Bases
  <2>4. CASE k = n - 1
    <3>1. k + 1 = n /\ Bases(k)' = base'
      BY <1>3, <2>4 DEF Bases
    <3>. QED
      BY <1>1, <2>1, <2>2, <2>3, <3>1
  <2>5. CASE k # n - 1
    <3>1. Bases(k)' = outer'[k + 1].base
      BY <1>3, <2>5 DEF Bases
    <3>. QED
      BY <1>3, <2>1, <2>2, <2>3, <2>5, <3>1
  <2>. QED
    BY <2>1, <2>2, <2>4, <2>5
<1>6. n \in Fences /\ Bases(n) = base /\ CMarks(n) = o.cmark
  BY <1>3, <1>4 DEF Bases, CMarks
<1>7. /\ sp \in Nat /\ catch_sp \in Nat /\ base \in 0 .. sp /\ o.cmark \in 0 .. catch_sp
      /\ \A k \in Fences : Bases(k) \in Nat /\ CMarks(k) \in Nat
  <2>1. CMarks(n) \in 0 .. catch_sp
    BY <1>2, <1>6 DEF FencesOK
  <2>. QED
    BY <1>2, <1>6, <2>1, FenceTypes
<1>8. \A k \in Fences' : Bases(k) <= base /\ CMarks(k) <= o.cmark
  BY <1>2, <1>5, <1>6 DEF FencesOK
<1>9. FencesOK'
  <2>1. Bases(0)' = 0
    <3>1. 0 \in Fences'
      BY <1>3, <1>4
    <3>. QED
      BY <1>2, <1>5, <3>1 DEF FencesOK
  <2>2. ASSUME NEW k \in Fences'
        PROVE  Bases(k)' \in 0 .. sp' /\ CMarks(k)' \in 0 .. catch_sp'
    BY <1>1, <1>5, <1>7, <1>8
  <2>3. ASSUME NEW k \in Fences', NEW l \in Fences', k <= l
        PROVE  Bases(k)' <= Bases(l)' /\ CMarks(k)' <= CMarks(l)'
    BY <1>2, <1>5, <2>3 DEF FencesOK
  <2>. QED
    BY <2>1, <2>2, <2>3 DEF FencesOK
<1>10. FramesOK'
  <2>1. ASSUME NEW i \in 1 .. base, NEW k \in Fences'
        PROVE  IF i <= Bases(k)
               THEN RefersTo(stack[i].goals, stack[i].active_catch, 0, CMarks(k))
               ELSE Scoped(catches, stack[i].goals, stack[i].active_catch,
                           Bases(k), i - 1, CMarks(k), o.cmark)
    <3>1. i \in 1 .. sp /\ k \in Fences
      BY <1>5, <1>7
    <3>2. RefersTo(stack[i].goals, stack[i].active_catch, 0, o.cmark)
      <4>1. i <= Bases(n)
        BY <1>6, <1>7
      <4>2. RefersTo(stack[i].goals, stack[i].active_catch, 0, CMarks(n))
        BY <1>2, <1>6, <3>1, <4>1 DEF FramesOK
      <4>. QED
        BY <1>6, <4>2
    <3>3. CASE i <= Bases(k)
      BY <1>2, <3>1, <3>3 DEF FramesOK
    <3>4. CASE ~(i <= Bases(k))
      <4>1. Scoped(catches, stack[i].goals, stack[i].active_catch,
                   Bases(k), i - 1, CMarks(k), catch_sp)
        BY <1>2, <3>1, <3>4 DEF FramesOK
      <4>2. CMarks(k) \in Nat /\ o.cmark \in Nat
        BY <1>7, <3>1
      <4>. QED
        BY <1>7, <3>2, <3>4, <4>1, <4>2, ScopedTight
    <3>. QED
      BY <3>3, <3>4
  <2>2. \A i \in 1 .. base : stack[i].barrier = i - 1
    <3>1. \A i \in 1 .. base : i \in 1 .. sp
      BY <1>7
    <3>. QED
      BY <1>2, <3>1 DEF FramesOK
  <2>. QED
    BY <1>1, <1>5, <2>1, <2>2 DEF FramesOK
<1>11. EntriesOK'
  <2>1. \A j \in 1 .. o.cmark : j \in 1 .. catch_sp
    BY <1>7
  <2>. QED
    BY <1>1, <1>2, <1>5, <2>1 DEF EntriesOK
<1>12. SuspendedOK'
  <2>1. ASSUME NEW m \in 1 .. n - 1, NEW k \in 0 .. m - 1
        PROVE  Scoped(catches, outer'[m].rest, outer'[m].active_catch,
                      Bases(k)', Bases(m)', CMarks(k)', CMarks(m)')
    <3>1. m \in 1 .. n /\ m \in Fences' /\ k \in Fences'
      BY <1>3, <1>4
    <3>2. Scoped(catches, outer[m].rest, outer[m].active_catch,
                 Bases(k), Bases(m), CMarks(k), CMarks(m))
      BY <1>2, <3>1 DEF SuspendedOK
    <3>. QED
      BY <1>3, <1>5, <3>1, <3>2
  <2>. QED
    BY <1>1, <1>3, <2>1 DEF SuspendedOK
<1>13. HereOK'
  <2>1. ASSUME NEW k \in Fences'
        PROVE  Scoped(catches, o.rest, o.active_catch, Bases(k)', base, CMarks(k)', o.cmark)
    <3>1. k \in 0 .. n - 1 /\ n \in 1 .. n
      BY <1>3, <1>5
    <3>2. Scoped(catches, o.rest, o.active_catch, Bases(k), Bases(n), CMarks(k), CMarks(n))
      BY <1>2, <3>1 DEF SuspendedOK
    <3>. QED
      BY <1>5, <1>6, <3>2
  <2>2. \A k \in Fences' : Running(k)' /\ Throwing(k)'
    BY <1>1, <2>1 DEF Running, Throwing
  <2>. QED
    BY <1>1, <2>2 DEF HereOK
<1>. QED
  BY <1>9, <1>10, <1>11, <1>12, <1>13 DEF StoredOK

(***************************************************************************)
(* The invariant holds and is kept.                                        *)
(***************************************************************************)
LEMMA InitScope == Init /\ ~prog.gc => ScopeInv
<1> SUFFICES ASSUME Init, ~prog.gc PROVE ScopeInv
  OBVIOUS
<1>1. /\ sp = 0 /\ catch_sp = 0 /\ base = 0 /\ outer = <<>> /\ active_catch = NoCatch /\ pc = "A"
      /\ cn = Bake(prog.query, Fresh, 0)
  BY DEF Init
<1>2. Len(outer) = 0 /\ Fences = {0} /\ Bases(0) = 0 /\ CMarks(0) = 0
  BY <1>1 DEF Fences, Bases, CMarks
<1>3. FencesOK
  BY <1>1, <1>2 DEF FencesOK
<1>4. FramesOK /\ EntriesOK /\ SuspendedOK
  BY <1>1, <1>2 DEF FramesOK, EntriesOK, SuspendedOK
<1>5. Scoped(catches, cn, NoCatch, 0, 0, 0, 0)
  <2>1. prog.query \in Seq(Goals)
    BY ProgramsAssumption DEF Init
  <2>2. Len(cn) \in Nat /\ CutsTo(cn, 0)
    BY <1>1, <2>1, BakeAt, BakeCutsTo
  <2>3. 0 \in Nat /\ 0 <= 0
    OBVIOUS
  <2>. QED
    BY <2>2, <2>3, ScopedStart DEF CutsTo
<1>6. HereOK
  BY <1>1, <1>2, <1>5 DEF HereOK, Running, Throwing
<1>. QED
  BY <1>3, <1>4, <1>6 DEF ScopeInv, StoredOK

\* Steps that only take frames off and move on, those that end a query, and
\* those that store.
LEMMA NextScope ==
  ASSUME TypeOK, ScopeInv, LocalCuts, Next
  PROVE  StoredOK' /\ HereOK'
<1>1. CASE Cut \/ Call1 \/ DoUncatch \/ Throw \/ Builtin \/ Call \/ NoClause \/ HeadMismatch
           \/ Retry \/ TryCatch \/ HeapExhausted
  <2>1. Shrinks /\ HereOK'
    BY <1>1, CutScope, Call1Scope, DoUncatchScope, ThrowScope, BuiltinScope, CallScope,
       NoClauseScope, HeadMismatchScope, RetryScope, TryCatchScope
  <2>. QED
    BY <2>1, ShrinksKeeps DEF ScopeInv
<1>2. ASSUME NEW result, EndQuery(result), UNCHANGED <<stack, catches>>
      PROVE  StoredOK' /\ HereOK'
  <2>1. CASE outer = <<>>
    <3>1. Shrinks /\ HereOK'
      BY <1>2, <2>1, ReturnScope
    <3>. QED
      BY <3>1, ShrinksKeeps DEF ScopeInv
  <2>2. CASE outer # <<>>
    BY <1>2, <2>2, ResumeScope
  <2>. QED
    BY <2>1, <2>2
<1>3. CASE Solution
  <2>1. UNCHANGED <<stack, catches>> /\ pc = "A"
    BY <1>3 DEF Solution
  <2>2. CASE EndQuery("true")
    BY <1>2, <2>1, <2>2
  <2>3. CASE pc' = "C" /\ UNCHANGED <<status, cn, sp, catch_sp, active_catch, store, nesting>>
    <3>1. Shrinks /\ HereOK'
      BY <2>1, <2>3, Stays, SameStacks DEF nesting
    <3>. QED
      BY <3>1, ShrinksKeeps DEF ScopeInv
  <2>. QED
    BY <1>3, <2>2, <2>3 DEF Solution
<1>4. CASE Exhausted \/ Uncaught
  BY <1>2, <1>4 DEF Exhausted, Uncaught
<1>5. CASE Resolve
  BY <1>5, ResolveScope
<1>6. CASE Catch
  BY <1>6, CatchScope
<1>7. CASE Consult
  BY <1>7, ConsultScope
<1>8. CASE Done
  <2>1. UNCHANGED vars
    BY <1>8 DEF Done
  <2>2. Shrinks
    BY <2>1, SameStacks DEF vars, nesting
  <2>3. Fences' = Fences /\ \A k : Bases(k)' = Bases(k) /\ CMarks(k)' = CMarks(k)
    BY <2>1, FencesSame DEF vars, nesting
  <2>4. HereOK'
    BY <2>1, <2>3 DEF vars, ScopeInv, HereOK, Running, Throwing
  <2>. QED
    BY <2>2, <2>4, ShrinksKeeps DEF ScopeInv
<1>9. ~Gc
  BY DEF Gc, ScopeInv
<1>. QED
  BY <1>1, <1>3, <1>4, <1>5, <1>6, <1>7, <1>8, <1>9 DEF Next

LEMMA NextProg == [Next]_vars => prog' = prog
BY DEF Next, Solution, Cut, Call1, Catch, DoUncatch, Throw, Builtin, Consult, Call, NoClause,
   HeadMismatch, Resolve, Exhausted, Retry, TryCatch, Uncaught, Gc, HeapExhausted, Done,
   vars, host

LEMMA StepScope ==
  ASSUME LocalCuts
  PROVE  TypeOK /\ ScopeInv /\ [Next]_vars => ScopeInv'
<1> SUFFICES ASSUME TypeOK, ScopeInv, [Next]_vars PROVE ScopeInv'
  OBVIOUS
<1>1. ~prog'.gc
  BY NextProg DEF ScopeInv
<1>2. CASE Next
  BY <1>1, <1>2, NextScope DEF ScopeInv
<1>3. CASE UNCHANGED vars
  <2>1. Shrinks
    BY <1>3, SameStacks DEF vars, nesting
  <2>2. Fences' = Fences /\ \A k : Bases(k)' = Bases(k) /\ CMarks(k)' = CMarks(k)
    BY <1>3, FencesSame DEF vars, nesting
  <2>3. HereOK'
    BY <1>3, <2>2 DEF vars, ScopeInv, HereOK, Running, Throwing
  <2>4. StoredOK'
    BY <2>1, ShrinksKeeps DEF ScopeInv
  <2>. QED
    BY <1>1, <2>3, <2>4 DEF ScopeInv
<1>. QED
  BY <1>2, <1>3

LEMMA CuttingExists ==
  ASSUME \E C : CutsAreLocal(Goals, C)
  PROVE  LocalCuts
BY DEF LocalCuts, Cutting

LEMMA ScopeAlways ==
  ASSUME \E C : CutsAreLocal(Goals, C)
  PROVE  Spec /\ ~prog.gc => [](TypeOK /\ ScopeInv)
<1>1. Init /\ ~prog.gc => TypeOK /\ ScopeInv
  BY InitType, InitScope
<1>2. TypeOK /\ ScopeInv /\ [Next]_vars => (TypeOK /\ ScopeInv)'
  BY NextType, StepScope, CuttingExists
<1>. QED
  BY <1>1, <1>2, PTL DEF Spec

(***************************************************************************)
(* What it shows.                                                          *)
(***************************************************************************)
\* The engine and the goals agree on which catches are in scope: the '$$uncatch'
\* goals ahead name the chain from active_catch, for the goals being run, every
\* choicepoint, every catch and every suspended query (solve.c: '$$uncatch',
\* frame and catch_entry_t carry active_catch separately from the goals).
THEOREM CatchesAreInScope ==
  ASSUME \E C : CutsAreLocal(Goals, C)
  PROVE  Spec /\ ~prog.gc => []CatchDiscipline
<1>1. TypeOK /\ ScopeInv => CatchDiscipline
  <2> SUFFICES ASSUME TypeOK, ScopeInv PROVE CatchDiscipline
    OBVIOUS
  <2>1. ~prog.gc /\ FencesOK /\ FramesOK /\ EntriesOK /\ SuspendedOK
    BY DEF ScopeInv, StoredOK
  <2>2. 0 \in Fences /\ Bases(0) = 0 /\ CMarks(0) = 0
    BY <2>1, FenceTypes
  <2>3. pc \in {"A", "B", "C"} => InsideOf(cn, active_catch)
    BY <2>1, <2>2, Now, InsideOfCloses DEF Scoped
  <2>4. ASSUME NEW i \in 1 .. sp
        PROVE  InsideOf(stack[i].goals, stack[i].active_catch)
    <3>1. ~(i <= Bases(0))
      BY <2>2
    <3>. QED
      BY <2>1, <2>2, <3>1, InsideOfCloses DEF FramesOK, Scoped
  <2>5. ASSUME NEW j \in LiveCatches
        PROVE  InsideOf(catches[j].continuation, catches[j].outer)
    <3>1. j \in 1 .. catch_sp
      BY DEF LiveCatches
    <3>2. CMarks(0) < j
      BY <2>2, <3>1
    <3>. QED
      BY <2>1, <2>2, <3>1, <3>2, InsideOfCloses DEF EntriesOK, Scoped
  <2>6. ASSUME NEW m \in 1 .. Len(outer)
        PROVE  InsideOf(outer[m].rest, outer[m].active_catch)
    <3>1. 0 \in 0 .. m - 1
      OBVIOUS
    <3>. QED
      BY <2>1, <3>1, InsideOfCloses DEF SuspendedOK, Scoped
  <2>. QED
    BY <2>3, <2>4, <2>5, <2>6 DEF CatchDiscipline
<1>. QED
  BY <1>1, ScopeAlways, PTL

\* A nested query leaves the frames of the one it is nested in, whatever it cuts,
\* fails or throws (run_query: `if (T->sp == T->query_sp_base)').
THEOREM QueriesStayAboveBase ==
  ASSUME \E C : CutsAreLocal(Goals, C)
  PROVE  Spec /\ ~prog.gc => []SpAboveBase
<1>1. TypeOK /\ ScopeInv => SpAboveBase
  <2> SUFFICES ASSUME TypeOK, ScopeInv PROVE SpAboveBase
    OBVIOUS
  <2>1. sp \in Nat /\ base \in 0 .. sp
    BY FenceTypes DEF ScopeInv, StoredOK
  <2>. QED
    BY <2>1 DEF SpAboveBase
<1>. QED
  BY <1>1, ScopeAlways, PTL

\* A cut never brings frames back: the barrier it takes the stack down to, baked
\* into the goal when its clause was resolved, is not above the top by the time
\* it is run (README.md:169).
THEOREM CutsRemove ==
  ASSUME \E C : CutsAreLocal(Goals, C)
  PROVE  Spec /\ ~prog.gc => CutRemovesFrames
<1>1. TypeOK /\ ScopeInv /\ [Next]_vars => [At("cut") => sp' <= sp]_vars
  <2> SUFFICES ASSUME TypeOK, ScopeInv, Next, At("cut") PROVE sp' <= sp
    BY DEF At
  <2>1. LocalCuts
    BY CuttingExists
  <2>2. sp \in Nat
    BY FenceTypes DEF ScopeInv, StoredOK
  <2>3. ~Gc
    BY DEF Gc, ScopeInv
  <2>4. Cut \/ HeapExhausted
    BY <2>3 DEF Next, At, Solution, Call1, Catch, DoUncatch, Throw, Builtin, Consult, Call,
       IsCall, IsCore, NoClause, HeadMismatch, Resolve, Exhausted, Retry, TryCatch, Uncaught, Done
  <2>5. CASE Cut
    BY <2>1, <2>5, CutScope
  <2>6. CASE HeapExhausted
    BY <2>2, <2>6 DEF HeapExhausted, frames
  <2>. QED
    BY <2>4, <2>5, <2>6
<1>2. [](TypeOK /\ ScopeInv) /\ [][Next]_vars => [][At("cut") => sp' <= sp]_vars
  BY <1>1, PTL
<1>. QED
  BY <1>2, ScopeAlways, PTL DEF Spec, CutRemovesFrames

\* Only a clause that is resolved writes the choicepoint stack, and only a catch
\* that is entered the catch stack, each on top of it.
LEMMA StacksWritten ==
  ASSUME Next
  PROVE  \/ UNCHANGED stack
         \/ \E frame : stack' = Push(stack, sp, frame)
         \/ Gc
BY DEF Next, Solution, Cut, Call1, Catch, DoUncatch, Throw, Builtin, Consult, Call, NoClause,
   HeadMismatch, Resolve, Exhausted, Retry, TryCatch, Uncaught, HeapExhausted, Done, vars, frames

LEMMA CatchesWritten ==
  ASSUME Next
  PROVE  \/ UNCHANGED catches
         \/ \E entry : catches' = Push(catches, catch_sp, entry)
         \/ Gc
BY DEF Next, Solution, Cut, Call1, Catch, DoUncatch, Throw, Builtin, Consult, Call, NoClause,
   HeadMismatch, Resolve, Exhausted, Retry, TryCatch, Uncaught, HeapExhausted, Done, vars, catching

\* While a directive runs, the query that consults keeps its choicepoints and its
\* catches, whatever the directive calls, cuts or throws (exec_directive saves
\* only the heights of the two stacks).
THEOREM OuterIsKept ==
  ASSUME \E C : CutsAreLocal(Goals, C)
  PROVE  Spec /\ ~prog.gc => OuterFramesKept
<1> DEFINE Kept == /\ \A i \in 1 .. base : stack'[i] = stack[i]
                   /\ \A i \in 1 .. CatchBase : catches'[i] = catches[i]
<1>1. TypeOK /\ ScopeInv /\ [Next]_vars
        => [outer # <<>> /\ Len(outer') >= Len(outer) => Kept]_vars
  <2> SUFFICES ASSUME TypeOK, ScopeInv, Next PROVE Kept
    BY DEF vars
  <2>1. ~Gc
    BY DEF Gc, ScopeInv
  <2>2. /\ base \in Nat /\ CatchBase \in Nat
        /\ \A i \in 1 .. base : i \in 1 .. sp
        /\ \A i \in 1 .. CatchBase : i \in 1 .. catch_sp
    BY FenceTypes DEF ScopeInv, StoredOK
  <2>3. /\ Len(stack) \in Nat /\ sp \in 0 .. Len(stack)
        /\ Len(catches) \in Nat /\ catch_sp \in 0 .. Len(catches)
    BY Lengths DEF TypeOK
  <2>4. \A i \in 1 .. base : stack'[i] = stack[i]
    <3>1. CASE UNCHANGED stack
      BY <3>1
    <3>2. ASSUME NEW frame, stack' = Push(stack, sp, frame)
          PROVE  \A i \in 1 .. base : stack'[i] = stack[i]
      <4>1. \A i \in 1 .. sp : Push(stack, sp, frame)[i] = stack[i]
        BY <2>3, PushAt
      <4>. QED
        BY <2>2, <3>2, <4>1
    <3>. QED
      BY <2>1, <3>1, <3>2, StacksWritten
  <2>5. \A i \in 1 .. CatchBase : catches'[i] = catches[i]
    <3>1. CASE UNCHANGED catches
      BY <3>1
    <3>2. ASSUME NEW entry, catches' = Push(catches, catch_sp, entry)
          PROVE  \A i \in 1 .. CatchBase : catches'[i] = catches[i]
      <4>1. \A i \in 1 .. catch_sp : Push(catches, catch_sp, entry)[i] = catches[i]
        BY <2>3, PushAt
      <4>. QED
        BY <2>2, <3>2, <4>1
    <3>. QED
      BY <2>1, <3>1, <3>2, CatchesWritten
  <2>. QED
    BY <2>4, <2>5
<1>2. [](TypeOK /\ ScopeInv) /\ [][Next]_vars
        => [][outer # <<>> /\ Len(outer') >= Len(outer) => Kept]_vars
  BY <1>1, PTL
<1>. QED
  BY <1>2, ScopeAlways, PTL DEF Spec, OuterFramesKept
=============================================================================
