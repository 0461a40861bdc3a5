------------------------------- MODULE Engine -------------------------------
(***************************************************************************)
(* One engine between and during the calls of its host: the loads of files *)
(* (consult_file, consult_nested and consult_source of src/kernel/parse.c, *)
(* consult/1 of boot/core.pl), findall's bags and with_output_to's         *)
(* captures (src/kernel/solve.c, core.pl, lib/misc.pl), and the longjmp    *)
(* that ends a call (src/trilog.c).                                        *)
(*                                                                         *)
(* Programs are arbitrary: a goal that runs does any of these things in    *)
(* any order.  What the call is in the middle of is nest, whose entries    *)
(* stand for C frames (a query, a load) and for continuations of library   *)
(* predicates (findall, with_output_to, catch, consult).  An exception     *)
(* takes nest apart from the top.  The solver keeps continuations and      *)
(* catches in order (module Solver), so here they are a stack.             *)
(*                                                                         *)
(* trilog_load_file is a query whose goal is consult/1.  A predicate that  *)
(* has succeeded is not entered again: both keep no choicepoint.           *)
(***************************************************************************)
EXTENDS Integers, SequencesExt, FiniteSets, Selection

CONSTANTS
  Files,       \* the files that can be consulted
  Text,        \* the text of trilog_load_string
  None,        \* the code's -1 and NULL
  Items,       \* what each file and Text consist of
  Answers,     \* what findall collects
  Outputs,     \* what goals write
  CaptureMax,  \* CAPTURE_STACK_MAX
  MaxNest,     \* bound: entries of nest, for each set of features histories use
  MaxOwn,      \* bound: answers of a findall, outputs of a capture
  MaxBags      \* bound: bags, those that were left open included

Features == {"bags", "captures", "loads", "consult", "cycles", "load errors", "strings",
             "catches", "exhaustion", "interrupts"}
Uses == DOMAIN MaxNest
Sources == Files \cup {Text}

ASSUME FilesAssumption ==
  /\ Text \notin Files /\ None \notin Sources
  /\ None \notin Outputs
  /\ Items \in [Sources -> Seq({"clause", "directive", "syntax error"})]

ASSUME BoundsAssumption ==
  /\ Uses \subseteq SUBSET Features /\ MaxNest \in [Uses -> Nat]
  /\ CaptureMax \in Nat /\ MaxOwn \in Nat /\ MaxBags \in Nat

VARIABLES
  uses,          \* the one of Uses of this history: fixed
  nest,          \* what the call of the host is in the middle of
  ball,          \* the exception that is taking nest apart, or None
  bags,          \* T->bags, of which bag_count are in use
  starts,        \* T->capture_starts, of which capture_sp are in use
  capture_pos,   \* T->capture_pos
  capture_buf,   \* T->capture_buf
  load_error,    \* T->load_error_ball
  position,      \* T->P: which text and which item of it comes next
  consulting,    \* T->consulting_atom
  module,        \* T->module_id and the tables that belong to it
  module_saved,  \* T->module_saved
  db,            \* the clauses of files: the file and the item
  consulted      \* the files in '$consulted'/2

capturing == <<starts, capture_pos, capture_buf>>
loading == <<position, consulting, module, module_saved>>
program == <<db, consulted>>
vars == <<uses, nest, ball, bags, capturing, load_error, loading, program>>

NoBall == None
Nul == None \* a byte of the buffer that ends a string

Top == nest[Len(nest)]
Below == SubSeq(nest, 1, Len(nest) - 1)
Push(scope) == Len(nest) < MaxNest[uses] /\ nest' = Append(nest, scope)
InPhase(p) == nest' = [nest EXCEPT ![Len(nest)] = [@ EXCEPT !.phase = p]]

Query == [kind |-> "query"]
Catch == [kind |-> "catch"]
Consult(f) == [kind |-> "consult", phase |-> "loading", file |-> f]
\* saved_P and saved_atom; the history field own follows the load by itself.
Load(f) == [kind |-> "load", file |-> f, position |-> position, consulting |-> consulting,
            own |-> [at |-> 1, module |-> None]]
\* Opened until catch/3 is entered, then inside its goal, closed after it, or in
\* the handler.  The history field own has what the goal answered or wrote.
Bag(n) == [kind |-> "bag", phase |-> "opened", n |-> n, own |-> <<>>, ball |-> NoBall]
Capture == [kind |-> "capture", phase |-> "opened", own |-> <<>>, ball |-> NoBall]

Init ==
  /\ uses \in Uses
  /\ nest = <<>> /\ ball = NoBall
  /\ bags = <<>>
  /\ starts = <<>> /\ capture_pos = 0 /\ capture_buf = <<>>
  /\ load_error = None
  /\ position = None /\ consulting = None /\ module = None /\ module_saved = <<>>
  /\ db = <<>> /\ consulted = {}

\* The solver is at A, with a goal of a library predicate next; with one of the
\* program's next.
Running == nest # <<>> /\ ball = NoBall /\ Top.kind # "load"
Free == Running /\ (Top.kind \in {"bag", "capture"} => Top.phase = "inside") /\ Top.kind # "consult"
At(kind, phase) == Running /\ Top.kind = kind /\ Top.phase = phase

(***************************************************************************)
(* The host.                                                               *)
(***************************************************************************)
StartQuery ==
  /\ nest = <<>>
  /\ nest' = <<Query>>
  /\ UNCHANGED <<uses, ball, bags, capturing, load_error, loading, program>>

\* consult_nested, of a file or a string.
StartLoad(f) ==
  /\ module_saved' = Append(module_saved, module) /\ module' = None
  /\ consulting' = IF f = Text THEN None ELSE f
  /\ position' = [text |-> f, at |-> 1]

LoadString ==
  /\ "strings" \in uses
  /\ nest = <<>>
  /\ Push(Load(Text)) /\ StartLoad(Text)
  /\ UNCHANGED <<uses, ball, bags, capturing, load_error, program>>

\* Mutant of Interrupt: module_state_drop is forgotten.
InterruptKeepsModules ==
  /\ "interrupts" \in uses
  /\ nest # <<>>
  /\ nest' = <<>> /\ ball' = NoBall /\ bags' = <<>>
  /\ starts' = <<>> /\ capture_pos' = 0
  /\ load_error' = None
  /\ position' = None /\ consulting' = None
  /\ UNCHANGED <<uses, capture_buf, module, module_saved, program>>

\* A refused yield, halt/1 or a failed allocation, anywhere: unwound().
Interrupt ==
  /\ "interrupts" \in uses
  /\ nest # <<>>
  /\ nest' = <<>> /\ ball' = NoBall /\ bags' = <<>>
  /\ starts' = <<>> /\ capture_pos' = 0
  /\ load_error' = None
  /\ position' = None /\ consulting' = None /\ module' = None /\ module_saved' = <<>>
  /\ UNCHANGED <<uses, capture_buf, program>>

(***************************************************************************)
(* findall: '$$bag_open', then a catch around the goal and '$$bag_add',    *)
(* then '$$bag_collect'.  A bag is called by its number.                   *)
(***************************************************************************)
Drop(n) == bags' = SubSeq(bags, 1, n - 1)

BagOpen ==
  /\ "bags" \in uses /\ Free /\ Len(bags) < MaxBags
  /\ bags' = Append(bags, <<>>)
  /\ Push(Bag(Len(bags) + 1))
  /\ UNCHANGED <<uses, ball, capturing, load_error, loading, program>>

\* Mutant of BagAdd: the answer goes to the newest bag.
BagAddNewest(a) ==
  /\ At("bag", "inside") /\ Len(Top.own) < MaxOwn
  /\ bags' = [bags EXCEPT ![Len(bags)] = Append(@, a)]
  /\ nest' = [nest EXCEPT ![Len(nest)].own = Append(@, a)]
  /\ UNCHANGED <<uses, ball, capturing, load_error, loading, program>>

\* An answer of the goal; the goal is then retried.
BagAdd(a) ==
  /\ At("bag", "inside") /\ Len(Top.own) < MaxOwn
  /\ bags' = IF Top.n \in 1 .. Len(bags) THEN [bags EXCEPT ![Top.n] = Append(@, a)] ELSE bags
  /\ nest' = [nest EXCEPT ![Len(nest)].own = Append(@, a)]
  /\ UNCHANGED <<uses, ball, capturing, load_error, loading, program>>

BagCollect ==
  /\ At("bag", "closed")
  /\ IF Top.n \in 1 .. Len(bags) THEN Drop(Top.n) ELSE UNCHANGED bags
  /\ nest' = Below
  /\ UNCHANGED <<uses, ball, capturing, load_error, loading, program>>

\* The recovery goal of findall's catch: '$$bag_drop' and the exception again.
BagRethrow ==
  /\ At("bag", "handler")
  /\ IF Top.n \in 1 .. Len(bags) THEN Drop(Top.n) ELSE UNCHANGED bags
  /\ nest' = Below /\ ball' = Top.ball
  /\ UNCHANGED <<uses, capturing, load_error, loading, program>>

(***************************************************************************)
(* with_output_to: '$$capture_start', a catch around the goal, and         *)
(* '$$capture_stop' whether it succeeds, fails or throws.                  *)
(***************************************************************************)
\* The C string that starts at byte i of the buffer.
StringAt(i) ==
  LET end == CHOOSE e \in i .. Len(capture_buf) :
               /\ e < Len(capture_buf) => capture_buf[e + 1] = Nul
               /\ \A d \in i .. e - 1 : capture_buf[d + 1] # Nul
  IN  SubSeq(capture_buf, i + 1, end)

\* At the limit the goal fails, like any other.
CaptureStart ==
  /\ "captures" \in uses /\ Free
  /\ Len(starts) < CaptureMax
  /\ starts' = Append(starts, capture_pos)
  /\ Push(Capture)
  /\ UNCHANGED <<uses, ball, bags, capture_pos, capture_buf, load_error, loading, program>>

\* io_write_str, as far as it is captured.
MaxText == MaxNest[uses] * MaxOwn \* bound: of capture_pos
Write(x) ==
  /\ Free /\ starts # <<>> /\ capture_pos < MaxText
  /\ capture_buf' = SubSeq(capture_buf, 1, capture_pos) \o <<x, Nul>>
                      \o SubSeq(capture_buf, capture_pos + 3, Len(capture_buf))
  /\ capture_pos' = capture_pos + 1
  /\ LET scopes == {i \in 1 .. Len(nest) : nest[i].kind = "capture"}
     IN  IF scopes = {} THEN UNCHANGED nest
         ELSE LET inner == CHOOSE i \in scopes : \A j \in scopes : j <= i
              IN  /\ Len(nest[inner].own) < MaxOwn
                  /\ nest' = [nest EXCEPT ![inner].own = Append(@, x)]
  /\ UNCHANGED <<uses, ball, bags, starts, load_error, loading, program>>

\* Mutant of Stop: the string is not ended where the capture started.
StopKeepsText ==
  /\ starts # <<>>
  /\ starts' = Front(starts)
  /\ capture_pos' = Last(starts)
  /\ UNCHANGED capture_buf

Stop ==
  /\ starts # <<>>
  /\ starts' = Front(starts)
  /\ capture_pos' = Last(starts)
  /\ capture_buf' = IF capture_buf = <<>> THEN <<>> ELSE [capture_buf EXCEPT ![Last(starts) + 1] = Nul]

CaptureStop ==
  /\ At("capture", "closed")
  /\ Stop
  /\ nest' = Below
  /\ UNCHANGED <<uses, ball, bags, load_error, loading, program>>

CaptureRethrow ==
  /\ At("capture", "handler")
  /\ Stop
  /\ nest' = Below /\ ball' = Top.ball
  /\ UNCHANGED <<uses, bags, load_error, loading, program>>

\* catch/3 of findall or with_output_to is entered; its goal is done.
EnterGoal ==
  /\ \E k \in {"bag", "capture"} : At(k, "opened")
  /\ InPhase("inside")
  /\ UNCHANGED <<uses, ball, bags, capturing, load_error, loading, program>>

LeaveGoal ==
  /\ \E k \in {"bag", "capture"} : At(k, "inside")
  /\ InPhase("closed")
  /\ UNCHANGED <<uses, ball, bags, capturing, load_error, loading, program>>

(***************************************************************************)
(* Loads.                                                                  *)
(***************************************************************************)
InLoad(f) == \E i \in 1 .. Len(nest) : nest[i].kind = "load" /\ nest[i].file = f

\* ensure_loaded/1 of a file that is not consulted, or consult/1. Reloading a
\* file while it is being loaded is left to the histories that look at it.
MayConsult(f) ==
  /\ "loads" \in uses
  /\ f \in consulted => "consult" \in uses
  /\ InLoad(f) => "cycles" \in uses

\* Mutant of ConsultFile: db_unload is forgotten.
ConsultKeepsClauses(f) ==
  /\ Free /\ MayConsult(f)
  /\ Len(nest) + 2 <= MaxNest[uses]
  /\ nest' = nest \o <<Consult(f), Load(f)>>
  /\ StartLoad(f)
  /\ UNCHANGED <<uses, ball, bags, capturing, load_error, program>>

ConsultFile(f) ==
  /\ Free /\ MayConsult(f)
  /\ Len(nest) + 2 <= MaxNest[uses]
  /\ db' = Selected(db, {i \in 1 .. Len(db) : db[i].file # f})
  /\ nest' = nest \o <<Consult(f), Load(f)>>
  /\ StartLoad(f)
  /\ UNCHANGED <<uses, ball, bags, capturing, load_error, consulted>>

\* Mutant of LoadReturns: the outer file's parse position is not restored.
LoadReturnsAtEnd(scopes, ok, e) ==
  LET load == Last(scopes)
      below == Front(scopes)
  IN  /\ UNCHANGED position /\ consulting' = load.consulting
      /\ module' = Last(module_saved) /\ module_saved' = Front(module_saved)
      /\ CASE below = <<>> -> nest' = <<>> /\ ball' = NoBall /\ load_error' = e
           [] below # <<>> /\ ok -> /\ nest' = [below EXCEPT ![Len(below)] = [@ EXCEPT !.phase = "loaded"]]
                                    /\ ball' = NoBall /\ load_error' = e
           [] below # <<>> /\ ~ok -> nest' = Front(below) /\ ball' = e /\ load_error' = None

\* consult_nested returns, to trilog_load_string or to '$$consult', which raises
\* the load error e, or fails if there is none.
LoadReturns(scopes, ok, e) ==
  LET load == Last(scopes)
      below == Front(scopes)
  IN  /\ position' = load.position /\ consulting' = load.consulting
      /\ module' = Last(module_saved) /\ module_saved' = Front(module_saved)
      /\ CASE below = <<>> -> nest' = <<>> /\ ball' = NoBall /\ load_error' = e
           [] below # <<>> /\ ok -> /\ nest' = [below EXCEPT ![Len(below)] = [@ EXCEPT !.phase = "loaded"]]
                                    /\ ball' = NoBall /\ load_error' = e
           [] below # <<>> /\ ~ok -> nest' = Front(below) /\ ball' = e /\ load_error' = None

\* consult_source looks at the load error after every item.
AfterItem(scopes, next, e) ==
  IF e # None THEN LoadReturns(scopes, FALSE, e)
  ELSE /\ nest' = scopes /\ position' = next
       /\ UNCHANGED <<ball, load_error, consulting, module, module_saved>>

Reading == nest # <<>> /\ ball = NoBall /\ Top.kind = "load"
NextItem ==
  LET items == Items[position.text]
  IN  IF position.at <= Len(items) THEN items[position.at] ELSE "end"
After == [position EXCEPT !.at = @ + 1]
ReadOn == [nest EXCEPT ![Len(nest)].own.at = @ + 1]

ReadClause ==
  /\ Reading /\ NextItem = "clause"
  /\ db' = Append(db, [file |-> consulting, item |-> position.at])
  /\ AfterItem(ReadOn, After, load_error)
  /\ UNCHANGED <<uses, bags, capturing, consulted>>

\* assemble_clause has moved P on before it runs the directive.
ReadDirective ==
  /\ Reading /\ NextItem = "directive"
  /\ Len(nest) < MaxNest[uses]
  /\ nest' = Append(ReadOn, Query)
  /\ position' = After
  /\ UNCHANGED <<uses, ball, bags, capturing, load_error, consulting, module, module_saved, program>>

EndLoad ==
  /\ Reading /\ NextItem \in {"end", "syntax error"}
  /\ LoadReturns(nest, NextItem = "end", load_error)
  /\ UNCHANGED <<uses, bags, capturing, program>>

\* The rest of consult/1.
Register ==
  /\ At("consult", "loaded")
  /\ consulted' = consulted \cup {Top.file}
  /\ nest' = Below
  /\ UNCHANGED <<uses, ball, bags, capturing, load_error, loading, db>>

\* module/2, of the file that is being loaded.
SetModule ==
  /\ "loads" \in uses /\ Free /\ consulting # None
  /\ module' = consulting
  /\ LET loads == {i \in 1 .. Len(nest) : nest[i].kind = "load"}
         inner == CHOOSE i \in loads : \A j \in loads : j <= i
     IN  nest' = [nest EXCEPT ![inner].own.module = nest[inner].file]
  /\ UNCHANGED <<uses, ball, bags, capturing, load_error, position, consulting, module_saved, program>>

(***************************************************************************)
(* Queries, catches and exceptions.                                        *)
(***************************************************************************)
EnterCatch ==
  /\ "catches" \in uses /\ Free
  /\ Push(Catch)
  /\ UNCHANGED <<uses, ball, bags, capturing, load_error, loading, program>>

LeaveCatch ==
  /\ Free /\ Top.kind = "catch"
  /\ nest' = Below
  /\ UNCHANGED <<uses, ball, bags, capturing, load_error, loading, program>>

\* A query succeeds or fails: the host's, or a directive's.
QueryReturns ==
  /\ Free /\ Top.kind = "query"
  /\ IF Below = <<>> THEN nest' = <<>> /\ UNCHANGED <<ball, load_error, loading>>
     ELSE AfterItem(Below, position, load_error)
  /\ UNCHANGED <<uses, bags, capturing, program>>

\* A load error is one whose context is load/1.
Throw ==
  /\ Free
  /\ ball' \in {"error"} \cup (IF "load errors" \in uses THEN {"load error"} ELSE {})
  /\ UNCHANGED <<uses, nest, bags, capturing, load_error, loading, program>>

\* A collection leaves the heap exhausted, whatever goal is next.
HeapExhausted ==
  /\ "exhaustion" \in uses /\ Running
  /\ ball' = "error"
  /\ UNCHANGED <<uses, nest, bags, capturing, load_error, loading, program>>

Handle ==
  /\ ball # NoBall /\ Top.kind \in {"bag", "capture"} /\ Top.phase = "inside"
  /\ nest' = [nest EXCEPT ![Len(nest)] = [@ EXCEPT !.phase = "handler", !.ball = ball]]
  /\ ball' = NoBall
  /\ UNCHANGED <<uses, bags, capturing, load_error, loading, program>>

\* The program's catch may match the ball or not.
TryCatch ==
  /\ ball # NoBall /\ Top.kind = "catch"
  /\ nest' = Below
  /\ ball' \in {ball, NoBall}
  /\ UNCHANGED <<uses, bags, capturing, load_error, loading, program>>

\* A continuation that is not inside a catch of its own is left as it is.
Unwind ==
  /\ ball # NoBall
  /\ Top.kind \in {"bag", "capture", "consult"} /\ Top.phase # "inside"
  /\ nest' = Below
  /\ UNCHANGED <<uses, ball, bags, capturing, load_error, loading, program>>

\* run_directive prints the error and goes on, unless it is a load error.
Uncaught ==
  /\ ball # NoBall /\ Top.kind = "query"
  /\ IF Below = <<>> THEN nest' = <<>> /\ UNCHANGED <<load_error, loading>> /\ ball' = NoBall
     ELSE IF ball = "load error" THEN LoadReturns(Below, FALSE, ball)
     ELSE IF load_error # None THEN LoadReturns(Below, FALSE, load_error)
     ELSE nest' = Below /\ ball' = NoBall /\ UNCHANGED <<load_error, loading>>
  /\ UNCHANGED <<uses, bags, capturing, program>>

Next ==
  \/ StartQuery \/ LoadString \/ Interrupt
  \/ BagOpen \/ (\E a \in Answers : BagAdd(a)) \/ BagCollect \/ BagRethrow
  \/ CaptureStart \/ (\E x \in Outputs : Write(x)) \/ CaptureStop \/ CaptureRethrow
  \/ EnterGoal \/ LeaveGoal
  \/ (\E f \in Files : ConsultFile(f)) \/ ReadClause \/ ReadDirective \/ EndLoad
  \/ Register \/ SetModule
  \/ EnterCatch \/ LeaveCatch \/ QueryReturns \/ Throw \/ HeapExhausted
  \/ Handle \/ TryCatch \/ Unwind \/ Uncaught

Spec == Init /\ [][Next]_vars

(***************************************************************************)
(* Properties.                                                             *)
(***************************************************************************)
Balls == {"error", "load error", None}
Phases == {"opened", "inside", "closed", "handler"}
Positions == {None} \cup [text : Sources, at : Nat]
Consults == [kind : {"consult"}, phase : {"loading", "loaded"}, file : Files]
Loads == [kind : {"load"}, file : Sources, position : Positions, consulting : Files \cup {None},
          own : [at : Nat, module : Files \cup {None}]]
BagScopes == [kind : {"bag"}, phase : Phases, n : Nat \ {0}, own : Seq(Answers), ball : Balls]
CaptureScopes == [kind : {"capture"}, phase : Phases, own : Seq(Outputs), ball : Balls]
Scopes == {Query, Catch} \cup Consults \cup Loads \cup BagScopes \cup CaptureScopes

ScopesOf(kind) == {i \in 1 .. Len(nest) : nest[i].kind = kind}

\* The type invariant, with the limits of the arrays that have one: never more
\* captures than CAPTURE_STACK_MAX, one saved module state for each load.
TypeOK ==
  /\ uses \in Uses
  /\ nest \in Seq(Scopes)
  /\ ball \in Balls
  /\ bags \in Seq(Seq(Answers))
  /\ starts \in Seq(0 .. Len(capture_buf)) /\ Len(starts) <= CaptureMax
  /\ capture_buf \in Seq(Outputs \cup {Nul}) /\ capture_pos \in 0 .. Len(capture_buf)
  /\ load_error \in {"load error", None}
  /\ position \in Positions
  /\ consulting \in Files \cup {None} /\ module \in Files \cup {None}
  /\ module_saved \in Seq(Files \cup {None}) /\ Len(module_saved) = Cardinality(ScopesOf("load"))
  /\ db \in Seq([file : Files \cup {None}, item : Nat]) /\ consulted \subseteq Files

\* A findall collects what its own goal has answered, in order, whatever findalls
\* inside it have failed, thrown or been left by an exhausted heap.
OwnAnswers ==
  \A i \in ScopesOf("bag") : nest[i].n <= Len(bags) /\ bags[nest[i].n] = nest[i].own

\* The innermost with_output_to would return what its own goal has written, and
\* only goals inside one are captured.
OwnOutput ==
  /\ Len(starts) = Cardinality(ScopesOf("capture"))
  /\ starts # <<>> =>
       LET inner == CHOOSE i \in ScopesOf("capture") : \A j \in ScopesOf("capture") : j <= i
       IN  StringAt(Last(starts)) = nest[inner].own

\* A load goes on where it was, as the file and the module it was, whatever
\* is loaded in the middle of it: what is saved of each load, in the frame or the
\* module stack entry of the load inside it, is what it had itself.
OuterLoadKept ==
  LET loads == ScopesOf("load")
      Inside(i) == {j \in loads : j > i}
      Following(i) == CHOOSE j \in Inside(i) : \A k \in Inside(i) : j <= k
      Now(i) == IF Inside(i) = {} THEN [position |-> position, consulting |-> consulting, module |-> module]
                ELSE [position |-> nest[Following(i)].position, consulting |-> nest[Following(i)].consulting,
                      module |-> module_saved[NumBelow(loads, Following(i)) + 1]]
  IN  \A i \in loads :
        Now(i) = [position |-> [text |-> nest[i].file, at |-> nest[i].own.at],
                  consulting |-> IF nest[i].file = Text THEN None ELSE nest[i].file,
                  module |-> nest[i].own.module]

\* The clauses of f in the database, and those that the file consists of, each
\* as the number of its item.
ClausesIn(d, f) == Selected([i \in 1 .. Len(d) |-> d[i].item], {i \in 1 .. Len(d) : d[i].file = f})
ClausesOf(f) == Selected([i \in 1 .. Len(Items[f]) |-> i], {i \in 1 .. Len(Items[f]) : Items[f][i] = "clause"})

\* A load that succeeds leaves exactly the clauses of its file, in their order
\* (test/e2e/consult.bats:55, "loads the rest of the outer file too", and :93,
\* "replaces its clauses instead of appending").
LoadIsWhole ==
  [][EndLoad /\ NextItem = "end" /\ Top.file # Text => ClausesIn(db, Top.file) = ClausesOf(Top.file)]_vars

\* Between calls the parser, the modules, the ball and the captures are as a new
\* engine has them, however the last call ended.  (MCEngine has no history with both
\* captures and an exhausted heap: one right after '$$capture_start' leaves the
\* capture.)
IdleIsClean ==
  nest = <<>> => /\ ball = NoBall /\ starts = <<>> /\ capture_pos = 0
                 /\ consulting = None /\ module = None /\ module_saved = <<>>

\* A load error fails the load whose directive raised it, not another one
\* (core.pl:148, "a bad declaration fails the load").
LoadErrorFailsItsLoad == nest = <<>> => load_error = None

\* A file is not loaded in the middle of loading it (core.pl:97, "it is loaded
\* unless already loaded").
NoLoadInsideItself ==
  \A i, j \in ScopesOf("load") : nest[i].file = nest[j].file => i = j
=============================================================================
