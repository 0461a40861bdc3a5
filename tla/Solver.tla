------------------------------- MODULE Solver -------------------------------
(***************************************************************************)
(* The ABC solver of trilog: run_query_body and do_throw of                *)
(* src/kernel/solve.c, with the parts of core.pl that the loop itself runs *)
(* (;/2, ->/2, once/1, \+/1), the nested query of a directive              *)
(* (run_directive in parse.c) and the catch-stack half of a collection     *)
(* (gc.c).  The labels A, B and C of the code are values of pc; T is the   *)
(* loop of do_throw.                                                       *)
(*                                                                         *)
(* What is abstracted.  A term is a variable of the query or a constant;   *)
(* KeyOf gives the part of a constant that first-argument indexing looks   *)
(* at, so that two constants may have the same key and still not unify.    *)
(* A predicate has one argument.  A clause or goal copied to the heap is a *)
(* closure: the source goal, the value of its clause's variable, and the   *)
(* integer that copying baked into it (a cut barrier or a catch index).    *)
(* The conjunction cn is the sequence of its goals, `true' is the empty    *)
(* sequence.  Heap cells, and with them heap marks, are left to gc.c.      *)
(***************************************************************************)
EXTENDS Integers, Sequences, FiniteSets

CONSTANTS
  Vars,           \* variables of the query, and of the directives it runs
  Terms,          \* ground terms, the two error terms below among them
  Fresh,          \* the value of an unbound variable; as a source term, `_'
  ClauseVar,      \* a clause's only variable, the argument of its head
  KeyOf,          \* the first-argument index key of each term
  ExistenceError, \* the ball of a call to an unknown procedure
  ResourceError,  \* the ball of an exhausted heap
  Preds,          \* the user's predicates
  Goals,          \* the source goals that can occur, with their subgoals
  Programs        \* queries, each with its clauses; one of them is run. gc and
                  \* oom say whether collections may compact the catch stack
                  \* meanwhile, and whether they may leave the heap exhausted

\* The goals the engine and core.pl build themselves.
CutGoal == [op |-> "cut"]
FailGoal == [op |-> "fail"]
UncatchGoal == [op |-> "uncatch"]
CallOf(body) == [op |-> "call1", goal |-> body]
IfThen(c, t) == [op |-> "ifthen", cond |-> c, then |-> t]

Args == Vars \cup Terms \cup {Fresh}
Values == Terms \cup {Fresh}
Clause == [head : Values, body : Seq(Goals)]

ASSUME TermsAssumption ==
  /\ ExistenceError \in Terms /\ ResourceError \in Terms
  /\ Vars \cap Terms = {} /\ Fresh \notin Vars \cup Terms
  /\ ClauseVar \notin Args

\* Goals is closed under taking apart a goal and under what CoreClauses builds.
ASSUME GoalsAssumption ==
  /\ {CutGoal, FailGoal} \subseteq Goals
  /\ \A g \in Goals :
       /\ g.op # "uncatch"
       /\ g.op = "pred" => g.name \in Preds /\ g.arg \in Args \cup {ClauseVar}
       /\ g.op = "unify" => g.arg \in Args \cup {ClauseVar} /\ g.to \in Values
       /\ g.op = "throw" => g.ball \in Args \cup {ClauseVar}
       /\ g.op \in {"call1", "catch", "once", "not"} => g.goal \in Seq(Goals)
       /\ g.op \in {"once", "not"} => CallOf(g.goal) \in Goals
       /\ g.op = "catch" => g.catcher \in Args /\ g.recovery \in Seq(Goals)
       /\ g.op \in {"ifthen", "ite"} => g.cond \in Seq(Goals) /\ g.then \in Seq(Goals)
       /\ g.op = "ite" => g.else \in Seq(Goals) /\ IfThen(g.cond, g.then) \in Goals
       /\ g.op = "or" => g.left \in Seq(Goals) /\ g.right \in Seq(Goals)
       /\ g.op = "consult" => g.directive \in Seq(Goals)

ASSUME ProgramsAssumption ==
  \A p \in Programs : /\ p.query \in Seq(Goals) /\ p.db \in [Preds -> Seq(Clause)]
                      /\ p.gc \in BOOLEAN /\ p.oom \in BOOLEAN

VARIABLES
  prog,         \* the one of Programs that is run: fixed
  pc,           \* the label the loop is at: "A", "B", "C", "T" or "done"
  cn,           \* the goals still to prove
  stack,        \* T->stack: memory, of which the first sp frames are in use
  sp,           \* T->sp
  catches,      \* T->catch_stack: memory, never shrunk
  catch_sp,     \* T->catch_sp
  active_catch, \* the innermost catch in scope; 0 is the code's (size_t)-1
  store,        \* the variables' values and the trail
  try,          \* clause_idx, tmark and cut_barrier of the call B is at
  ball,         \* the ball: its template's value, and the term thrown
  base,         \* T->query_sp_base
  outer,        \* the C locals of the queries this one is nested in
  answers,      \* history: the solutions reported to the host
  has_more,     \* history: the flag reported with the last of them
  status        \* what the outermost run_query returned

vars == <<prog, pc, cn, stack, sp, catches, catch_sp, active_catch, store, try,
          ball, base, outer, answers, has_more, status>>
host == <<prog, answers, has_more, status>>
nesting == <<base, outer>>
catching == <<catches, catch_sp, active_catch>>
frames == <<stack, sp>>

NoCatch == 0
Raw == -1      \* a goal copied without baking: its `!' stays the atom `!'

(***************************************************************************)
(* Terms, the trail and unification with a constant.                       *)
(***************************************************************************)
Deref(s, a) == IF a \in Vars THEN s.val[a] ELSE a

CanUnify(s, a, t) == Deref(s, a) = Fresh \/ t = Fresh \/ Deref(s, a) = t

\* Mutant of Unify: the binding is not trailed.
UnifyUntrailed(s, a, t) ==
  IF a \in Vars /\ s.val[a] = Fresh /\ t # Fresh
  THEN [s EXCEPT !.val = [@ EXCEPT ![a] = t]]
  ELSE s

Unify(s, a, t) ==
  IF a \in Vars /\ s.val[a] = Fresh /\ t # Fresh
  THEN [val |-> [s.val EXCEPT ![a] = t], trail |-> Append(s.trail, a)]
  ELSE s

TrailRelease(s, mark) ==
  IF mark >= Len(s.trail) THEN s
  ELSE LET undone == {s.trail[i] : i \in mark + 1 .. Len(s.trail)}
       IN  [val   |-> [v \in Vars |-> IF v \in undone THEN Fresh ELSE s.val[v]],
            trail |-> SubSeq(s.trail, 1, mark)]

(***************************************************************************)
(* Goals on the heap: heap_copy_goal bakes the barrier of its clause into  *)
(* every `!' that is not inside an argument, heap_rebake_cuts that of      *)
(* call/1 or catch/3; a goal that is an argument keeps its `!' raw.        *)
(***************************************************************************)
HeapGoal(g, arg, n) == [goal |-> g, arg |-> arg, n |-> n]

Bake(body, arg, n) == [i \in 1 .. Len(body) |-> HeapGoal(body[i], arg, n)]

ArgOf(a, rg) == IF a = ClauseVar THEN rg.arg ELSE a

\* Mutant of Uncatch: the index after the entry's.
UncatchNext(idx) == HeapGoal(UncatchGoal, Fresh, idx + 1)

Uncatch(idx) == HeapGoal(UncatchGoal, Fresh, idx)

\* The clauses of ;/2, ->/2, once/1 and \+/1 as a call with cut barrier n runs
\* them.  First-argument indexing leaves ;/2's first two clauses out unless
\* its first argument is an if-then.
CoreClauses(rg, n) ==
  LET g == rg.goal
      Sub(body) == Bake(body, rg.arg, rg.n)
      Own(goals) == Bake(goals, rg.arg, n)
      Rule(body) == [head |-> Fresh, body |-> body]
      If(c, t) == Rule(Sub(c) \o Own(<<CutGoal>>) \o Sub(t))
  IN CASE g.op = "or" -> <<Rule(Sub(g.left)), Rule(Sub(g.right))>>
       [] g.op = "ite" -> <<If(g.cond, g.then),
                            Rule(Own(<<CutGoal>>) \o Sub(g.else)),
                            Rule(Sub(<<IfThen(g.cond, g.then)>>)),
                            Rule(Sub(g.else))>>
       [] g.op = "ifthen" -> <<If(g.cond, g.then)>>
       [] g.op = "once" -> <<Rule(Own(<<CallOf(g.goal), CutGoal>>))>>
       [] g.op = "not" -> <<Rule(Own(<<CallOf(g.goal), CutGoal, FailGoal>>)), Rule(<<>>)>>

IsCore(g) == g.op \in {"or", "ite", "ifthen", "once", "not"}
IsCall(g) == g.op = "pred" \/ IsCore(g)

\* The clauses of the goal's predicate, each with its body as it is copied to
\* the heap when the goal resolves against it with cut barrier n.
ClausesOf(rg, n) ==
  IF IsCore(rg.goal) THEN CoreClauses(rg, n)
  ELSE LET db == prog.db[rg.goal.name]
       IN  [i \in 1 .. Len(db) |->
              [head |-> db[i].head,
               body |-> Bake(db[i].body, ArgOf(rg.goal.arg, rg), n)]]

FirstArg(rg) == IF IsCore(rg.goal) THEN Fresh ELSE ArgOf(rg.goal.arg, rg)

FirstArgConflicts(v, head) == v # Fresh /\ head # Fresh /\ KeyOf[v] # KeyOf[head]

\* The first clause from `from' on that the index does not rule out, or 0.
BucketMatch(clauses, from, v) ==
  LET matching == {i \in from .. Len(clauses) : ~FirstArgConflicts(v, clauses[i].head)}
  IN  IF matching = {} THEN 0 ELSE CHOOSE i \in matching : \A j \in matching : i <= j

(***************************************************************************)
(* The two stacks are arrays with a top; what is above the top stays       *)
(* readable until something is pushed over it.                             *)
(***************************************************************************)
Push(mem, top, x) ==
  [i \in 1 .. (IF top < Len(mem) THEN Len(mem) ELSE top + 1) |-> IF i = top + 1 THEN x ELSE mem[i]]

Init ==
  /\ prog \in Programs
  /\ pc = "A" /\ cn = Bake(prog.query, Fresh, 0)
  /\ stack = <<>> /\ sp = 0
  /\ catches = <<>> /\ catch_sp = 0 /\ active_catch = NoCatch
  /\ store = [val |-> [v \in Vars |-> Fresh], trail |-> <<>>]
  /\ try = [idx |-> 1, tmark |-> 0, barrier |-> 0]
  /\ ball = [val |-> Fresh, ref |-> Fresh]
  /\ base = 0 /\ outer = <<>>
  /\ answers = <<>> /\ has_more = TRUE /\ status = "running"

\* The head of cn is a goal of kind op, about to be run at A.
At(op) == pc = "A" /\ cn # <<>> /\ Head(cn).goal.op = op
Rest == Tail(cn)

\* `cn = rest; goto A' of a goal that has succeeded.
Succeed == cn' = Rest /\ pc' = "A"

\* `goto C' and the start of do_throw, from a step that changes nothing else.
Backtrack == pc' = "C" /\ UNCHANGED <<cn, ball>>
Raise(val, ref) == pc' = "T" /\ ball' = [val |-> val, ref |-> ref] /\ UNCHANGED cn

(***************************************************************************)
(* A query ends.  The outermost one returns to the host.  A nested one is  *)
(* a directive's: run_query restores the stack top, run_directive drops    *)
(* its catches and bindings whatever the result, and the goal after        *)
(* consult/1 is next.                                                      *)
(***************************************************************************)
EndQuery(result) ==
  IF outer = <<>>
  THEN /\ pc' = "done" /\ status' = result /\ sp' = base
       /\ UNCHANGED <<cn, catch_sp, active_catch, store, base, outer>>
  ELSE LET o == outer[Len(outer)]
       IN  /\ pc' = "A" /\ cn' = o.rest /\ active_catch' = o.active_catch
           /\ sp' = base /\ base' = o.base
           /\ catch_sp' = o.cmark /\ store' = TrailRelease(store, o.tmark)
           /\ outer' = SubSeq(outer, 1, Len(outer) - 1)
           /\ UNCHANGED status

\* A directive: run_query nested in the query that is consulting its file.  Its
\* goals are copied with cut_barrier 0, which is not its own stack base.
Consult ==
  /\ At("consult")
  /\ outer' = Append(outer, [rest |-> Rest, active_catch |-> active_catch, base |-> base,
                             cmark |-> catch_sp, tmark |-> Len(store.trail)])
  /\ base' = sp /\ active_catch' = NoCatch
  /\ cn' = Bake(Head(cn).goal.directive, Fresh, 0)
  /\ UNCHANGED <<host, pc, frames, catches, catch_sp, store, try, ball>>

\* A: nothing is left to prove.  The host may ask for more; a directive stops
\* at its first solution.
Solution ==
  /\ pc = "A" /\ cn = <<>>
  /\ IF outer = <<>>
     THEN /\ answers' = Append(answers, store.val)
          /\ has_more' = (sp # base)
          /\ \/ EndQuery("true")
             \/ pc' = "C" /\ UNCHANGED <<status, cn, sp, catch_sp, active_catch, store, nesting>>
     ELSE EndQuery("true") /\ UNCHANGED <<answers, has_more>>
  /\ UNCHANGED <<prog, stack, catches, try, ball>>

(***************************************************************************)
(* The control constructs of the loop.                                     *)
(***************************************************************************)
Cut ==
  /\ At("cut")
  /\ sp' = IF Head(cn).n = Raw THEN sp ELSE Head(cn).n
  /\ Succeed
  /\ UNCHANGED <<host, stack, catching, store, try, ball, nesting>>

Call1 ==
  /\ At("call1")
  /\ cn' = Bake(Head(cn).goal.goal, Head(cn).arg, sp) \o Rest
  /\ UNCHANGED <<host, pc, frames, catching, store, try, ball, nesting>>

Catch ==
  /\ At("catch")
  /\ LET rg == Head(cn)
         idx == catch_sp + 1
         entry == [tmark |-> Len(store.trail), sp_at_entry |-> sp,
                   catcher |-> rg.goal.catcher,
                   recovery |-> Bake(rg.goal.recovery, rg.arg, Raw),
                   continuation |-> Rest, outer |-> active_catch]
     IN  /\ catches' = Push(catches, catch_sp, entry)
         /\ catch_sp' = idx /\ active_catch' = idx
         /\ cn' = Bake(rg.goal.goal, rg.arg, sp) \o <<Uncatch(idx)>> \o Rest
  /\ UNCHANGED <<host, pc, frames, store, try, ball, nesting>>

\* Mutant of DoUncatch: the catch stays in scope after its goal has exited.
DoUncatchKeeps ==
  /\ At("uncatch")
  /\ Succeed
  /\ UNCHANGED <<host, frames, catching, store, try, ball, nesting>>

DoUncatch ==
  /\ At("uncatch")
  /\ active_catch' = catches[Head(cn).n].outer
  /\ Succeed
  /\ UNCHANGED <<host, frames, catches, catch_sp, store, try, ball, nesting>>

Throw ==
  /\ At("throw")
  /\ LET t == ArgOf(Head(cn).goal.ball, Head(cn)) IN Raise(Deref(store, t), t)
  /\ UNCHANGED <<host, frames, catching, store, try, nesting>>

\* dispatch_builtin: =/2 stands for the deterministic builtins, which bind or fail.
Builtin ==
  /\ At("unify") \/ At("fail")
  /\ LET rg == Head(cn)
         a == ArgOf(rg.goal.arg, rg)
     IN  IF rg.goal.op = "unify" /\ CanUnify(store, a, rg.goal.to)
         THEN Succeed /\ store' = Unify(store, a, rg.goal.to) /\ UNCHANGED ball
         ELSE Backtrack /\ UNCHANGED store
  /\ UNCHANGED <<host, frames, catching, try, nesting>>

\* Mutant of Call: the barrier counts the call's own choicepoint.
CallBarrierAbove ==
  /\ pc = "A" /\ cn # <<>>
  /\ IsCall(Head(cn).goal)
  /\ try' = [idx |-> 1, tmark |-> Len(store.trail), barrier |-> sp + 1]
  /\ pc' = "B"
  /\ UNCHANGED <<host, cn, frames, catching, store, ball, nesting>>

\* The end of A: the marks and the cut barrier of a call are taken.
Call ==
  /\ pc = "A" /\ cn # <<>>
  /\ IsCall(Head(cn).goal)
  /\ try' = [idx |-> 1, tmark |-> Len(store.trail), barrier |-> sp]
  /\ pc' = "B"
  /\ UNCHANGED <<host, cn, frames, catching, store, ball, nesting>>

(***************************************************************************)
(* B: resolve the first goal against the next clause that can match.       *)
(***************************************************************************)
Clauses == ClausesOf(Head(cn), try.barrier)
Key == Deref(store, FirstArg(Head(cn)))
Match == BucketMatch(Clauses, try.idx, Key)
NextMatch == BucketMatch(Clauses, Match + 1, Key)

NoClause ==
  /\ pc = "B" /\ Match = 0
  /\ IF try.idx = 1 /\ Clauses = <<>> THEN Raise(ExistenceError, ExistenceError) ELSE Backtrack
  /\ UNCHANGED <<host, frames, catching, store, try, nesting>>

HeadMismatch ==
  /\ pc = "B" /\ Match # 0
  /\ LET s == TrailRelease(store, try.tmark)
     IN  /\ ~CanUnify(s, FirstArg(Head(cn)), Clauses[Match].head)
         /\ store' = s
  /\ IF NextMatch = 0 THEN Backtrack /\ UNCHANGED try
     ELSE try' = [try EXCEPT !.idx = NextMatch] /\ UNCHANGED <<pc, cn, ball>>
  /\ UNCHANGED <<host, frames, catching, nesting>>

Resolve ==
  /\ pc = "B" /\ Match # 0
  /\ LET s == TrailRelease(store, try.tmark)
         a == FirstArg(Head(cn))
         frame == [goals |-> cn, idx |-> NextMatch, tmark |-> try.tmark,
                   barrier |-> try.barrier, active_catch |-> active_catch]
     IN  /\ CanUnify(s, a, Clauses[Match].head)
         /\ store' = Unify(s, a, Clauses[Match].head)
         /\ IF NextMatch = 0 THEN UNCHANGED frames
            ELSE stack' = Push(stack, sp, frame) /\ sp' = sp + 1
  /\ cn' = Clauses[Match].body \o Rest
  /\ pc' = "A"
  /\ UNCHANGED <<host, catching, try, ball, nesting>>

(***************************************************************************)
(* C: the query fails, or its newest choicepoint is resumed.               *)
(***************************************************************************)
Exhausted ==
  /\ pc = "C" /\ sp = base
  /\ EndQuery(IF answers # <<>> THEN "true" ELSE "false")
  /\ UNCHANGED <<prog, answers, has_more, stack, catches, try, ball>>

\* Mutant of Retry: query_sp_base does not stop it.
RetryBelowBase ==
  /\ pc = "C" /\ sp > 0
  /\ LET f == stack[sp]
     IN  /\ cn' = f.goals /\ active_catch' = f.active_catch
         /\ try' = [idx |-> f.idx, tmark |-> f.tmark, barrier |-> f.barrier]
         /\ store' = TrailRelease(store, f.tmark)
  /\ sp' = sp - 1 /\ pc' = "B"
  /\ UNCHANGED <<host, stack, catches, catch_sp, ball, nesting>>

Retry ==
  /\ pc = "C" /\ sp # base /\ sp > 0
  /\ LET f == stack[sp]
     IN  /\ cn' = f.goals /\ active_catch' = f.active_catch
         /\ try' = [idx |-> f.idx, tmark |-> f.tmark, barrier |-> f.barrier]
         /\ store' = TrailRelease(store, f.tmark)
  /\ sp' = sp - 1 /\ pc' = "B"
  /\ UNCHANGED <<host, stack, catches, catch_sp, ball, nesting>>

(***************************************************************************)
(* T: do_throw tries the catches in scope, innermost first.                *)
(***************************************************************************)
\* Mutant of TryCatch: the bindings made inside the catch are kept.
TryCatchKeepsBindings ==
  /\ pc = "T" /\ active_catch # NoCatch
  /\ LET entry == catches[active_catch]
     IN  /\ sp' = entry.sp_at_entry
         /\ active_catch' = entry.outer
         /\ IF CanUnify(store, entry.catcher, ball.val)
            THEN /\ store' = Unify(store, entry.catcher, ball.val)
                 /\ cn' = entry.recovery \o entry.continuation
                 /\ pc' = "A"
            ELSE UNCHANGED <<cn, pc, store>>
  /\ UNCHANGED <<host, stack, catches, catch_sp, try, ball, nesting>>

TryCatch ==
  /\ pc = "T" /\ active_catch # NoCatch
  /\ LET entry == catches[active_catch]
         s == TrailRelease(store, entry.tmark)
     IN  /\ sp' = entry.sp_at_entry
         /\ active_catch' = entry.outer
         /\ IF CanUnify(s, entry.catcher, ball.val)
            THEN /\ store' = Unify(s, entry.catcher, ball.val)
                 /\ cn' = entry.recovery \o entry.continuation
                 /\ pc' = "A"
            ELSE store' = s /\ UNCHANGED <<cn, pc>>
  /\ UNCHANGED <<host, stack, catches, catch_sp, try, ball, nesting>>

\* No catch is left: the query ends with uncaught_ball = the term thrown.
Uncaught ==
  /\ pc = "T" /\ active_catch = NoCatch
  /\ EndQuery("error")
  /\ UNCHANGED <<prog, answers, has_more, stack, catches, try, ball>>

UncaughtBall == Deref(store, ball.ref)

(***************************************************************************)
(* A collection at A, as far as the catch stack goes: the entries of an    *)
(* outer query and those on a chain from active_catch or a frame are kept  *)
(* and slid down, and the indices in those three places follow them.       *)
(***************************************************************************)
CatchBase == IF outer = <<>> THEN 0 ELSE outer[Len(outer)].cmark

CatchChain(idx) ==
  LET chain[i \in 0 .. Len(catches)] == IF i = NoCatch THEN <<>> ELSE <<i>> \o chain[catches[i].outer]
  IN  chain[idx]

LiveCatches ==
  LET roots == {active_catch} \cup {stack[i].active_catch : i \in 1 .. sp}
      OnChain(r, i) == LET chain == CatchChain(r) IN \E k \in DOMAIN chain : chain[k] = i
  IN  {i \in 1 .. catch_sp : i <= CatchBase \/ \E r \in roots : OnChain(r, i)}

CompactCatches(live) ==
  LET New(i) == Cardinality({j \in live : j <= i})
      moved == [i \in 1 .. Len(catches) |->
                  IF i \in live THEN [catches[i] EXCEPT !.outer = New(@)] ELSE catches[i]]
  IN  /\ catches' = [i \in 1 .. Len(catches) |->
                       IF \E j \in live : New(j) = i
                       THEN moved[CHOOSE j \in live : New(j) = i] ELSE moved[i]]
      /\ catch_sp' = Cardinality(live)
      /\ active_catch' = New(active_catch)
      /\ stack' = [i \in 1 .. Len(stack) |->
                     IF i <= sp THEN [stack[i] EXCEPT !.active_catch = New(@)] ELSE stack[i]]

Gc ==
  /\ prog.gc /\ pc = "A"
  /\ LiveCatches # 1 .. catch_sp
  /\ CompactCatches(LiveCatches)
  /\ UNCHANGED <<host, pc, cn, sp, store, try, ball, nesting>>

\* gc_heap_exhausted: the collection left more live cells than allowed.
HeapExhausted ==
  /\ prog.oom /\ pc = "A"
  /\ Raise(ResourceError, ResourceError)
  /\ UNCHANGED <<host, frames, catching, store, try, nesting>>

Done == pc = "done" /\ UNCHANGED vars

Next ==
  \/ Solution \/ Cut \/ Call1 \/ Catch \/ DoUncatch \/ Throw \/ Builtin \/ Consult
  \/ Call \/ NoClause \/ HeadMismatch \/ Resolve
  \/ Exhausted \/ Retry
  \/ TryCatch \/ Uncaught
  \/ Gc \/ HeapExhausted
  \/ Done

Spec == Init /\ [][Next]_vars

\* The loop is one thread that runs until it returns, and a host callback or a
\* collection returns to it.
FairSpec == Spec /\ WF_vars(Next)

(***************************************************************************)
(* Properties.                                                             *)
(***************************************************************************)
\* What is stored when T->stack has ns frames and T->catch_stack nc entries.
HeapGoals(ns, nc) ==
  [goal : Goals, arg : Args, n : Raw .. ns] \cup [goal : {UncatchGoal}, arg : Args, n : 1 .. nc]
Conj(ns, nc) == Seq(HeapGoals(ns, nc))
Calling(ns, nc) == {goals \in Conj(ns, nc) : goals # <<>> /\ IsCall(Head(goals).goal)}
Frame(ns, nc) ==
  [goals : Calling(ns, nc), idx : Nat \ {0}, tmark : Nat, barrier : 0 .. ns, active_catch : 0 .. nc]
CatchEntry(ns, nc) ==
  [tmark : Nat, sp_at_entry : 0 .. ns, catcher : Args,
   recovery : Conj(ns, nc), continuation : Conj(ns, nc), outer : 0 .. nc]
Suspended(ns, nc) ==
  [rest : Conj(ns, nc), active_catch : 0 .. nc, base : 0 .. ns, cmark : 0 .. nc, tmark : Nat]

\* The type invariant.  A stored index never leads outside the array it indexes,
\* whatever was cut, thrown or collected since: a barrier baked into a goal is
\* within T->stack, the index baked into '$$uncatch' within T->catch_stack, and
\* a choicepoint is of a call.
TypeOK ==
  LET ns == Len(stack)
      nc == Len(catches)
  IN  /\ prog \in Programs
      /\ pc \in {"A", "B", "C", "T", "done"}
      /\ cn \in Conj(ns, nc) /\ (pc = "B" => cn \in Calling(ns, nc))
      /\ stack \in Seq(Frame(ns, nc)) /\ sp \in 0 .. ns
      /\ catches \in Seq(CatchEntry(ns, nc)) /\ catch_sp \in 0 .. nc
      /\ active_catch \in 0 .. nc
      /\ store \in [val : [Vars -> Values], trail : Seq(Vars)]
      /\ try \in [idx : Nat \ {0}, tmark : Nat, barrier : 0 .. ns]
      /\ ball \in [val : Values, ref : Args]
      /\ base \in 0 .. ns /\ outer \in Seq(Suspended(ns, nc))
      /\ answers \in Seq([Vars -> Values]) /\ has_more \in BOOLEAN
      /\ status \in {"running", "true", "false", "error"}

\* The trail lists exactly the bound variables, each once: so undoing it to a
\* mark (trail_release) unbinds all that was bound since and nothing older.
TrailExact ==
  /\ \A v \in Vars : store.val[v] # Fresh <=> \E i \in 1 .. Len(store.trail) : store.trail[i] = v
  /\ \A i, j \in 1 .. Len(store.trail) : i # j => store.trail[i] # store.trail[j]

\* Where a continuation leaves a catch.
Marks(goals) == {i \in 1 .. Len(goals) : goals[i].goal.op = "uncatch"}

\* One mark after another: the first that is after position i is at j.
NextMark(goals, i, j) ==
  j \in Marks(goals) /\ i < j /\ \A k \in Marks(goals) : i < k => j <= k

\* The marks name, in order, the chain of catches from idx.  Where collections
\* move entries, the goals keep the old indices (that is what
\* UncatchClosesItsCatch is about), but there are as many as catches.
InsideOf(goals, idx) ==
  LET Scope(i) == IF i = 0 THEN idx ELSE catches[goals[i].n].outer
  IN  IF prog.gc THEN Cardinality(Marks(goals)) = Len(CatchChain(idx))
      ELSE \A i \in {0} \cup Marks(goals) :
             IF Scope(i) = NoCatch THEN \A j \in Marks(goals) : j <= i
             ELSE \E j \in Marks(goals) : NextMark(goals, i, j) /\ goals[j].n = Scope(i)

\* The catches a continuation is inside of are the ones the engine believes
\* are in scope: the '$$uncatch' goals ahead of it name, in order, the chain
\* from its active_catch.  For the goals being run, every choicepoint, every
\* catch and every suspended query.
CatchDiscipline ==
  /\ pc \in {"A", "B", "C"} => InsideOf(cn, active_catch)
  /\ \A i \in 1 .. sp : InsideOf(stack[i].goals, stack[i].active_catch)
  /\ \A i \in LiveCatches : InsideOf(catches[i].continuation, catches[i].outer)
  /\ \A i \in 1 .. Len(outer) : InsideOf(outer[i].rest, outer[i].active_catch)

\* C holds the goals that may cut the clause they are in, and every cut removes
\* frames: no such goal is in the condition of an if-then, whose own `!' is run
\* after it and has a higher barrier, nor at the top of a directive, whose
\* barrier is below the frames of the query that consults.
CutsAreLocal(goals, C) ==
  LET Cuts(body) == \E i \in 1 .. Len(body) : body[i] \in C
  IN  \A g \in goals :
        /\ g.op = "cut" => g \in C
        /\ g.op = "or" /\ (Cuts(g.left) \/ Cuts(g.right)) => g \in C
        /\ g.op \in {"ifthen", "ite"} => ~Cuts(g.cond) /\ (Cuts(g.then) => g \in C)
        /\ g.op = "ite" /\ (Cuts(g.else) \/ IfThen(g.cond, g.then) \in C) => g \in C
        /\ g.op = "consult" => ~Cuts(g.directive)

\* A query nested in another never takes the stack below where it began, so
\* the test sp == query_sp_base at C sees its last choicepoint go.
SpAboveBase == sp >= base

\* A cut takes the stack down to its barrier: it never brings back frames that
\* are above the top (README.md:169, "the stack depth a cut removes frames
\* down to").
CutRemovesFrames == [][At("cut") => sp' <= sp]_vars

\* While a nested query runs, the choicepoints and catches of the query it is
\* nested in stay as they were.
OuterFramesKept ==
  [][outer # <<>> /\ Len(outer') >= Len(outer)
       => /\ \A i \in 1 .. base : stack'[i] = stack[i]
          /\ \A i \in 1 .. CatchBase : catches'[i] = catches[i]]_vars

\* The term a failed query reports is the one that was thrown
\* (include/trilog.h:105, "returns the exception term").
UncaughtBallIsThrown == status = "error" => UncaughtBall = ball.val

\* '$$uncatch' leaves the catch that is being left.
UncatchClosesItsCatch == At("uncatch") => Head(cn).n = active_catch
=============================================================================
