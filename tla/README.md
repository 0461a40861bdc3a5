# Verification of trilog

trilog is an embeddable Prolog interpreter in C11. A host creates an engine, loads files, registers C functions and
runs queries whose solutions come back through a callback. This directory has TLA+ models of the engine's core, the
TLC configurations that check them on small instances, and TLAPS proofs. Paths are relative to the repository.

## The system

| component | state | operations | models |
|---|---|---|---|
| ABC solver (`src/kernel/solve.c` 2443-2826) | goals `cn`; choicepoint stack `stack`/`sp`; `catch_stack`, `catch_sp`, `active_catch`; query bases; C locals of the running query | labels A, B, C; `do_throw`; `run_query`; cuts, call/1, catch/3 | `Solver` |
| clause database (`solve.c` 31-490) | `db` with dead slots, a bucket of indices per predicate, the dynamic and the consulted sets | `db_add`, `db_add_front`, `db_kill`, `db_compact`, `db_unload`, `dynamic_declare`, first-argument search | `ClauseDb` |
| heap and trail (`heap.c`) | cells, `heap_top`, trail, `gc_old_top` | allocate, bind, mark, release | `Heap`, `Cells` |
| collector (`gc.c`) | mark bytes, index maps, thresholds | mark by pointer reversal, slide, compact trail and catches, minor or major | `MarkFrom`, `Heap`; catch stack also in `Solver` |
| unification (`unify.c`) | work stack, tables of visited pairs, temporary marks | unify, unify with occurs check | `Unify`, `Terms`; ground terms in `Solver` |
| templates (`term.c`) | clause terms outside the heap, path marks | copy to and from the heap, unify a head, acyclicity, bake cuts | `Templates`, `Terms`; baking in `Solver` |
| consult and modules (`parse.c` 727-1318) | parse position, `consulting_atom`, module state, saved per nesting | load a file or string, run a directive, rename a module's private predicates | loads in `Engine`, directives in `Solver` and `Heap`, database side in `ClauseDb` |
| core library (`boot/core.pl`) | `$consulted/2`, operators | control, assert/retract guards, findall, dynamic calls | control in `Solver`, guards in `ClauseDb`, findall and consult in `Engine` |
| API (`src/trilog.c`) | `in_query`, `in_callback`, error term, `fatal_jmp` | new, free, load, query, register, unwind | result stream in `AnswerStream`, calls and unwind in `Engine`, its heap side in `HeapHost` |
| builtins with state (`solve.c` 1916-1997) | findall bags, output captures | open, add, collect, drop; start, stop | `Engine` |
| arithmetic (`solve.c` 709-1010, 1572-1630) | none | `is/2`, the comparisons | `Numbers`, `Calculator` |
| term order (`solve.c` 1108-1188) | work stack, visited pairs | compare, for `compare/3`, `==`, sorts | `Unify`, `Numbers` |
| operators (`core.pl` 1010-1091, `solve.c` 2828-2892) | `'$$op'/3`, a table rebuilt from it | `op/3`, look up by class | `Syntax` |
| reader and printer (`parse.c`, `term.c`, `fmt.c`) | position, frames of `parse_expr`; the last character written | parse, print | `Syntax`, `WriteRead` |
| arena, memory, atoms (`arena.c`, `mem.c`, `term.c`) | chunks per clause, allocator hooks, hash set | allocate, flatten, fail by longjmp | see *Not modelled* |
| streams (`src/io`) | table of open streams, a buffer per reader | open, close, read, peek | the table and the buffer in `Board`, captured output in `Engine` |
| Pico board (`pico/src`, `pico/prolog`) | eight TCP connections, the web server's loop, the crash count of `main`; mail box, files | lwIP callbacks, accept, read, write, close, tidy up and restart | `Board` |
| CLI, line editor, libraries, platform, image | - | - | see *Not modelled* |

**How they interact.** `run_query` copies the goals to the heap and loops. At A it may call the yield callback and the
collector, then runs a control construct, a builtin, a foreign function, or goes to B, which asks a bucket for the next
clause, undoes the trail to the call's mark, unifies the head and pushes a choicepoint if another clause can match. C
pops one. Everything that lives in more than one place is an *index*: choicepoints and catch entries hold heap, trail
and catch indices; goals on the heap hold a stack depth (a cut) or a catch index (`'$$uncatch'`); choicepoints hold
indices into `db`. The collector, `asserta` and compactions move what these indices name. `consult/1` runs directives
by calling `run_query` in the middle of a builtin, on the same stacks. Memory failure, `halt/1` and a refused yield
leave all of it by longjmp to the API call.

On the Pico board a Prolog loop (`http.pl`) serves one request after another through the stream table, on connections
that lwIP's callbacks change between any two of its steps; `main` answers, closes and drops what a crash leaves behind,
and starts the loop again.

**What is hard.** The engine has one thread; the difficulty is in long sequences of legal steps. Indices stored in one
step are used many steps later, after cuts, throws, nested queries and three different compactions. The order of the
steps inside one operation matters (bindings undone before a key is computed, before a ball is reported). Errors may
start at any call. Terms may be cyclic in every walk, and walks write marks into the heap they walk. On the board there
is concurrency proper: callbacks, deadlines, peers that stall or vanish, and crashes. `PROJECT.json` lists the places as
hazards with the properties aimed at them.

**What makes each component correct.** Solver: its answers, flags and result are those of the language. Database:
a choicepoint tries every clause it should, once, whatever moves. Heap and collector: no step loses or changes a term
that can still be reached, and backtracking, throwing and returning restore exactly what was there. Loads: nothing of
the outer load or query changes. API: one result per query, and an engine fit for use after any of them. Bags: every
findall collects its own answers. Unification and order: what they say of rational trees, whatever the sharing.
Templates: variants of the terms they were made of. Arithmetic: the exact integer or an error. Printer and reader: what
is written is read back. Connections: each is used by one owner and freed once, and no peer gets another's reply.

## Modules

### The solver: `Solver`, `AnswerStream`, `SldReference`

`Solver` has an action for each branch of the loop; `pc` is the label (`T` is the loop of `do_throw`). `stack` and
`catches` are arrays with a top, so what is above the top stays readable, as in C. A heap goal is a closure: the source
goal, the value of its clause's variable, and the integer that copying baked into it. Terms are variables of the query
and constants; `KeyOf` lets two constants share an index key and not unify. Predicates have one argument. `CutsAreLocal`
says of a program that no condition, goal called at run time or directive's query has a cut of its own at its top level;
`MCSolver` assumes it of the programs it runs, so that TLC shows it true of them, and the theorems on scope in `SolverProofs` use it.

| code | action |
|---|---|
| A: solution, cut, call/1, catch/3, `'$$uncatch'`, throw/1, builtin | `Solution`, `Cut`, `Call1`, `Catch`, `DoUncatch`, `Throw`, `Builtin` |
| A: `$$consult` with one directive (`run_directive`) | `Consult`, and `EndQuery` in the step that ends it |
| A to B; B | `Call`; `NoClause`, `HeadMismatch`, `Resolve` |
| C | `Exhausted`, `Retry` |
| `do_throw` | `TryCatch`, `Uncaught` |
| collection: catch stack; exhausted heap | `Gc`, `HeapExhausted` |

`AnswerStream` is the abstract specification: the answers of a query one by one, the `has_more` flag, one result.
`SldReference` computes the answers of a program by structural recursion, with no stack or trail, and instantiates
`AnswerStream` with the solver's variables; `ImplementsAnswerStream` is that refinement, liveness included.

### The clause database: `ClauseDb`, `ClauseCursors`, `Reload`

`ClauseDb` has the array, the buckets, the dead count, both declaration sets, the choicepoints' indices and the stack of
loads. `ClauseCursors` is the abstract specification, an ordered list with cursors and no positions: a cursor sees
clauses added at the end, not those added in front, and none twice. `KeepsPromise` is the refinement. That a cursor sees
what comes at the end is what the code does (calls of predicates that are not dynamic have the immediate update view), not
what it is meant to do: TODO:7 lists it as incorrect. `ClauseCursors` departs from the intention there on purpose, so that
`KeepsPromise` says that nothing *else* goes wrong, and `Reload` has the property that is missed, `LogicalUpdateView`: the
actions of `ClauseDb` in the order that `run_query` and `consult_source` give them. `Selection` is the part of a
sequence at given positions, in order, by counting: `ClauseDb` uses it for what a compaction keeps, and `Engine` for what
a load unloads and for the clauses of a file, where the recursive `SelectSeq` would be beyond the prover.

### Heap and collector: `Cells`, `MarkFrom`, `Heap`, `HeapHost`

`Cells` defines cells, what they reach, and `Terms`, a canonical form of the terms at some roots with their sharing,
whatever their addresses. `MarkFrom` is the marking loop step by step, on any set
`Heaps` of well-formed heaps; its history variable `path` lists the cells whose pointers are turned, and `MarksReachable`
says what is marked as the least set of cells closed under what is needed. `Heap` is everything else: a query that builds,
binds, calls, backtracks, catches, throws and runs directives in any order, and the collector, minor and major, at any
point. History fields (`was`) hold the canonical form that whoever comes back was promised. Two things in the code read
arrays beyond what a collection computed; the model gives such a read a small or a large number. `HeapHost` adds the
longjmp to the host.

### Calls, loads, bags and captures: `Engine`

`Engine` looks at the engine from the host's side. `nest` is what a call is in the middle of: C frames (a query, a load)
and continuations of library predicates (`findall`, `with_output_to`, `catch`, `consult`), which the solver keeps in
order, so that here they are a stack. `Outputs` are what a goal may write, `None` not among them: a C string has no zero
inside. Clauses of `trilog_load_string` have no file. A goal of an arbitrary program does any of the things below in any order; an
exception takes `nest` apart from the top, running the recovery goals it meets; a longjmp empties it. Everything the
code keeps outside `nest` is as it is there: the bags and their count, the capture starts, position and buffer with its
terminating zeros, the load error, the parse position, the file and the module that are being loaded, and the stack of
saved modules. `own` fields are history: what a goal answered or wrote, and where a load itself has got to.

| code | action |
|---|---|
| `trilog_query`, `trilog_load_string`; `unwound` | `StartQuery`, `LoadString`, `QueryReturns`; `Interrupt` |
| `findall/3`: `'$$bag_open'`, `'$$bag_add'`, `'$$bag_collect'`; its recovery goal | `BagOpen`, `BagAdd`, `BagCollect`; `BagRethrow` |
| `with_output_to/2`: `'$$capture_start'`, `'$$capture_stop'`; its recovery goal; `io_write_str` | `CaptureStart`, `CaptureStop`; `CaptureRethrow`; `Write` |
| their catch/3 | `EnterGoal`, `LeaveGoal`, `Handle` |
| `consult_file` and the start of `consult_nested`; its end with `'$$consult'`; the end of `consult/1` | `ConsultFile`; `EndLoad` and every step that finds a load error (`LoadReturns`); `Register` |
| `consult_source`, `assemble_clause`, `run_directive` | `ReadClause`, `ReadDirective`, `QueryReturns` and `Uncaught` of a directive's query |
| `'$$module'` | `SetModule` |
| a program's catch/3, throw/1; exhausted heap; `do_throw` | `EnterCatch`, `LeaveCatch`, `Throw`; `HeapExhausted`; `Handle`, `TryCatch`, `Unwind`, `Uncaught` |

### Terms: `Unify`, `Templates`, `Terms`

`Unify` has the two unifications and the comparison as walks: a heap, a stack of pairs, the table of visited pairs with
its threshold, a result, and `UnifyStep` and `CompareStep`, one round of the C loops each (bind with or without the
occurs check, `pair_visits_seen`, arguments pushed last first or first last). `Templates` has `heap_terms_to_templates`
(path marks, variables numbered as they are met), `heap_copy`, `unify_template` and `heap_acyclic`. A mark that the code
makes by a negative arity is a member of a set that each walk starts with and gives up at its end. `Terms` runs
one call at a time, the walks step by step, and then a template against a goal; its properties speak of rational trees:
`Joined` is the congruence closure of a pair, `Standard` the standard order.

| code | definition |
|---|---|
| `unify_rec`, `unify_oc_rec`; `term_compare_rec` | `UnifyOn` (`UnifyStep`, `BindVar`, `Occurs`); `CompareOn` (`CompareStep`) |
| `pair_visits_seen`; `push_arg_pairs`; `next_pair` | `Visited`; `Enter`; `Onward` |
| `heap_to_template_rec`; `heap_copy`; `unify_template` | `Frozen`; `Copied`; `UnifyTemplate` |

### Numbers: `Numbers`, `Calculator`

Integers keep their two's complement width, floats their shape: multiples of a quarter with `Precision` digits, an
infinity and a NaN, so that large integers round when they become floats as 64-bit integers do. `Eval1` and `Eval2` are
the branches of `eval_arith`, with the code's tests for overflow as they are written. `Calculator` is a chain of `is/2`
queries, each on the result of the one before; its properties compare with the integers of mathematics.

### Text: `Syntax`, `WriteRead`

`Syntax` has the operator table and `op/3`, the printer (`Written`: priorities, brackets, `glue`'s spaces) and the
reader (`Parse`: the frames of `parse_expr` are calls of `Parse`, `Primary`, `Continued` and `Items`). Text is a sequence
of tokens with what kind of characters each begins and ends with and whether a space stands before it. `WriteRead`
declares operators, writes a term and reads it back, in any order.

### The board: `Board`

The connection table of `tcp.c` with lwIP's callbacks between any two sections of the interpreter that hold lwIP's lock,
the stream table, the loop of `http.pl` as a program counter, and `main`. `client` is what each peer is doing
and has received; `quiet` is history. A peer may send any number of lines: `bound.window` limits only those that lwIP holds
until they are read. Of a line the model has whose it is; which one is the empty one that ends the headers is open. An error raised inside `handle/3` goes to `request_failed/1`; nothing catches one anywhere else in
`serve/1`, and `main` does not take it for a crash, so the prompt comes back with streams and connection as they are.

| code | action |
|---|---|
| `on_accept`, `on_recv`, `on_err`; a deadline passes | `Connect`, `Send`, `Finish`, `Reset`; `Expire` |
| `tcp_listen`, `tcp_accept`; Ctrl-C in it | `Listen`, `tcp_accept_next`; `Interrupt` |
| `serve/1`, `handle/3`: open, read (`tcp_stream_read`, the reader's buffer), reply, close | `OpenIn`, `OpenOut`; `tcp_stream_read`, `ReadLine`, `ReadEnd`; `ReplyHead`, `ReplyBody`; `CloseIn`, `CloseOut` |
| notes: `mail:send/3`, `mail:log/1`, `request_failed/1` | `Announce`, `Announced`; `log`; `request_failed`; `CloseNote` |
| an abort or an allocation that fails; a collection that leaves the Prolog heap exhausted | `Crash`; `HeapExhausted` |
| `tcp_fail_all`, `trilog_close_streams`, `tcp_drop_all` and the restart | `tcp_fail_all`, `trilog_close_streams`, `Restart` |
| the prompt: `serve(80)` again; a stream opened and left open | `PromptServe`; `PromptOpen` |

## Runs

| run | question | instance and why it is enough |
|---|---|---|
| `solver` | Are the answers those of the language, collections and an exhausted heap included, and do trail, catches and stacks stay consistent? | families: two clauses of every shape from four goals; every control construct with cuts in its branches; nested catches with goals that throw, fail, retry or are unknown; directives of ten kinds, nested too; catches in sequence and under choicepoints with collections at any call, so that dead entries lie below live ones and some are reached only from a choicepoint. At least two choicepoints and two catches are alive at once |
| `clause_db` | Do buckets, counters, declarations and an open choicepoint survive every change of the database? | four slots and clauses, compaction at two dead ones, three index keys, one choicepoint: an index has room to be before, at and after each change; a file unloaded, or clauses asserted, in the middle of its load; one load at a time, as the theorems hold of every nesting |
| `mark` | Does pointer reversal mark the right cells and put everything back? | every way to fill the pointers of seven layouts of at most seven cells, marked from every pair of roots, with every base: cycles, sharing, pointers into a structure that is being visited |
| `heap` | Do collections keep the terms of a query, of what it can go back to, and of a query that waits? | nine cells with a choicepoint, eight with a choicepoint and a directive that has its own, six with a choicepoint and a catch entry in either order; no bound on steps: a collection before, after and between the bindings, and a minor one after a release |
| `engine` | Does what is in the middle of something survive what happens inside it, and is the engine clean afterwards? | six kinds of history, each with what can meet: findalls with catches and an exhausted heap, findalls and captures, captures in loads, findalls in loads that fail, loads again and load errors, loads of text and longjmps. `nest` has 5 to 9 entries: three findalls or captures inside each other, or a load in a directive of another with a goal of its own; two captures at most, so the limit is met; one file ends in a syntax error |
| `board` | Do callbacks, deadlines, crashes, exhausted heaps and restarts leave every connection and stream with its owner, every peer with its own answer, and nothing behind? Is what is accepted released, and what waits served? | two peers on two slots, three stream entries (a request needs two and a note one), lines without end; five kinds of history: both peers with a crash; one connection at a time with an exhausted heap, a crash and two lines at once, with three crashes, when `main` gives up, with a prompt that leaves streams open, so that the table is full in the middle of a request, and with an exhausted heap and a crash around a `serve(80)` from the prompt |
| `numbers` | Is every result the exact one or the right error, and does the standard order sort numbers? | integers of 6 bits and floats of 4 digits: sizes on both sides of every limit, integers that are no floats; every operator with every pair |
| `terms` | Do unification, order and templates do what they do on rational trees? | two variables, an atom, an integer and two structures whose four arguments are any of these, of one functor and of two: every sharing, every cycle through one and both; pairs are remembered after the second visit, before any walk ends; a template is matched with the goal at any cell, cyclic ones too |
| `syntax` | Is what is written read back? | a symbol that may be a sign, a word and a quoted name as operators of every type at priorities 200 and 500, any two at a time and `,`; terms two operators deep in every position, in lists, braces and arguments, with negative and nonnegative numbers |

Bounds: `MaxSlots`, `MaxFrames`, `MaxNesting` and the number of ids in `ClauseDb`; `Limits` in `Heap`, a set of bounds on
cells, choicepoints, catch entries and nested queries of which each state meets one (all of them large at once would be
out of reach; a directive and a catch entry are not in one state); `MaxNest`, by kind of history, `MaxOwn`, `MaxBags` and
`MaxText` in `Engine`; `Conns`, `Entries` and `Histories` in `Board` (8, 16 and none in the code but for lwIP's window; `window` is one or two lines); `Width`, `Precision` and
`Threshold` (64, 53 and 4096 in the code); `MaxOps` in `WriteRead`. The programs of `Solver` have
no recursion, which bounds it. `CompactMin` is 64 in the code and 2 in the instances. `CAPTURE_STACK_MAX` is 16 and 2. `clause_db`, `heap`, `engine`, `mark`, `board` and
`terms` are checked without deadlock detection: at the bounds, at the prompt, once all roots are marked or a call has
ended, there may be no further step. `Solver`
has an explicit step for having ended.

**Fairness.** `Solver` and `MarkFrom` assume weak fairness of the next step: the code is a loop in one thread that runs
until it returns. It is used by `ImplementsAnswerStream` and `MarkingEnds`. A host that asks for more for
ever and collections at every call are allowed; a collection that changes nothing is not a step. `Terms` assumes the
same of the walks, for `WalksEnd`. `Board` assumes that the interpreter and `main` go on (they are a loop; the only waits
in it are those of the model) and that a deadline passes at some time; it assumes nothing of the peers, the user or
crashes. `AcceptedReleased` and `WaitingServed` use it, and state what the code does not give without such an assumption:
the deadline is looked at only when no bytes have come (tcp.c:156-166) and `skip_headers/1` has no limit (http.pl:51-56),
so a peer that streams header lines for ever is read for ever, and those who wait behind it wait (`EndlessRequest`, the
exception of both); and an error that is not caught brings the prompt back with the connection still accepted.

### Findings

Each of these runs checks one property and finds it violated by what the code does; `PROJECT.json` has the lines.

- `stale_uncatch`: a collection slides catch entries down but not the index in `'$$uncatch'(I)` goals, so leaving a
  catch after a collection can restore another entry's outer catch.
- `directive_cut`: a directive's cut has barrier 0, not the base of its nested query, and takes away, or resumes, the
  choicepoints of the query that is consulting the file.
- `reload`: a file consulted again while one of its predicates has a choicepoint gives that choicepoint the new clauses, so
  a query that backtracks over such a load never ends. TODO:7 lists this. Observed on a build.

The directory keeps configurations for seven more disagreements, which TLC shows with `tlc -config X.cfg M`:

| configuration, module | shows |
|---|---|
| `MCRoundTrips`, `MCWriteRead` | with some operators, the text that `term_to_atom/2` writes reads back as another term or not at all: `a xfy b` of equal priority to the left of a `yfx`; a prefix operator alone in `{}` (parse.c:465); a word that is a prefix and an infix operator (parse.c:604); a quoted prefix operator before a bracket (parse.c:552); solve.c:2103 says "quoted, so it round-trips" (`RoundTrips`; term.c:706); observed on a build. `ReadsBack` says that these are all |
| `MCBoundBall`, `MCSolverFindings` | an exception that passes a catch that does not match reaches the host with its bindings undone (`UncaughtBallIsThrown`; solve.c:2456) |
| `MCHeapUnwound`, `MCHeap` | after an abort, halt or memory failure `gc_old_top` is left as it was, and the next query's first minor collection can lose live cells (`OldPointUpByTrail` under `HostSpec` of `HeapHost`; trilog.c:32) |
| `MCCapturedLeftover`, `MCEngine` | after a call that ended inside `with_output_to`, the next capture whose goal writes nothing returns the old text (`OwnOutput`; trilog.c:47); observed on a build |
| `MCStaleLoadError`, `MCEngine` | a load error in the text of `trilog_load_string` stops the next load at its first clause (`LoadErrorFailsItsLoad`; parse.c:760); observed on a build |
| `MCCircularLoad`, `MCEngine` | files that load each other with `ensure_loaded` recurse until the C stack ends (`NoLoadInsideItself`; core.pl:80); observed on a build |
| `MCCompareInts`, `Calculator` | integers that round to the same double compare as equal, so `sort/2` drops one of them, and `=:=` and `compare/3` disagree (`AlikeIsSame`; solve.c:1128); observed on a build |

Seen while modelling and not stated as properties: `( ! -> true ; true )` makes the second of two cuts raise the
stack top over removed frames; a nested query's collection takes all catch entries of the outer query for live and
remaps marks of dead ones, which may be out of range; an exhausted heap right after `'$$capture_start'` leaves a
capture that nothing stops, and one inside `mail:log/1` its stream entry; `+`, `-` and `*` of floats give infinities and NaNs unchecked where `/` and `**` raise
errors, and a NaN is `=:=` to everything; when the stream table is full, `open/3` in `serve/1` fails and the accepted
connection stays (only streams left open at the prompt get there); `tcp_accept` takes the lowest slot, so a busy low slot
can starve a high one (`WaitingServed` says what holds); a crash of the `serve(80)` a user started at the prompt is not
tidied up after, nor is an error that `serve/1` does not catch; an allocation that fails inside `occurs` or a template walk leaves negative arities behind.

Of TODO's list under "correctness", two more items touch a property. TODO:9 says that `7/2` is 3, where the standard has
3.5: `ExactOrOverflow` has the truncation, which the code (solve.c:843) and test/quad/builtins_quad.pl:20 assert. TODO:12
says that `a:-(b:-c)` does not parse: it does (`parse_expr` takes the infix operator and starts its right side at the
bracket; so does a build), the symbol of the `syntax` instance that is prefix and infix operator at once meets this, and
`ReadsBack` holds of it.

The `solver` instances leave out the programs these findings are about (cuts in conditions and in
directives' own goals, balls bound inside a catch that does not match, and an exit from a catch above a dead one), so
that everything else about the solver is checked; the findings' programs are in `MCSolverFindings`.

## Proofs

TLC shows a property on the instances above; the theorems below hold for every value of the constants that satisfies the
module's named assumptions (how many clauses, cells, peers, slots, files, and what is in them). TLC evaluates these
assumptions in the runs that extend the modules. Each theorem on a state rests on an inductive invariant that TLC checked
on the module's run before it was proved: one lemma for each action says that the action preserves it, and an action that
changes little cites a lemma that says which part of the invariant depends on what it changes. `Facts` has the lemmas on
selections, counting and cardinality that several modules cite; its `NatMin` (a set of naturals has a least member) stands
in for induction. `PROJECT.json` lists the theorems with the properties they state.

### `SolverProofs`

From `TermsAssumption`, `GoalsAssumption` and `ProgramsAssumption` (the constants are well formed, and `Goals` is closed
under taking goals apart), with collections and exhausted heaps anywhere:

- `TypeCorrect`: `TypeOK` is inductive as it stands, because it bounds every stored index by the *length* of its array
  and not by its top: nothing shrinks the arrays, so a cut, a throw or a collection cannot invalidate an index. `TypeAt`
  states it for given lengths, and `TypeAtGrows` lets them grow.
- `TrailAlwaysExact`: `Exact(store)` is inductive relative to `TypeOK`; `UnifyExact` and `TrailReleaseExact` are about the
  two operators that change the store, and `NextExact` finds which of them each action uses.

Its second half is about scope. Those theorems have two hypotheses: the cuts of the programs are local, and no collection runs
(`~prog.gc`). Neither can be dropped: a directive's own cut goes below its query (finding `directive_cut`), two cuts in one
condition bring removed frames back, and after a collection an `'$$uncatch'` names another entry (finding
`stale_uncatch`). Under them `ScopeInv` is inductive. It says, of the goals being run and those of every choicepoint, catch
and suspended query, that the depths baked into cuts fall along a continuation and are at most the depth at which it will
be run, that the indices of `'$$uncatch'` goals are the chain of catches from the `active_catch` stored with them, and that
what belongs to a nested query is above its base on both stacks. It gives `CatchesAreInScope` (`CatchDiscipline`),
`QueriesStayAboveBase` (`SpAboveBase`, which `directive_cut` shows violated without the first hypothesis), `CutsRemove`
(`CutRemovesFrames`) and `OuterIsKept` (`OuterFramesKept`).

### `ClauseDbProofs`

From `ConstantsAssumption`. `DbInv` joins the four invariants the run checks (`TypeOK`, `IndexExact`, `DeadBounded`,
`StaticXorDynamic`) with two that they need: `Distinct`, a clause is in one slot, and `BehindCore`, a clause of `core.pl`
is in front of every choicepoint and of what it may still find, which is why no resume index comes down to 0, the index
that means a first call (`ResumesBehindCore`). `Moves` and `Follows` say what a compaction or an insertion in front does to
an index: the clauses at and after it stay the same ones.

Its second half proves the refinement, theorem `Implements`: `Spec => KeepsPromise`, the array with its
buckets and indices implements the ordered list with cursors of `ClauseCursors`. `AddsLast`, `AddsFirst`, `Removes` and
`ResolvesKeep` show that each operation is a step of the list or stutters under the mapping.

### `MarkFromProofs`

For every set of well-formed heaps, theorem `MarkingIsExact` states `MarksReachable`: the heap is as it was, and what is
marked is the least closed set. `MarkInv` follows the pointer reversal: `WellFormed`, `PathOK` (the cells being visited,
each once), `Linked` (following the reversed pointers gives back the path), `Turned` (everything else in the heap is as it
was), `RootsOK`, `WalkOK`, `Owed` (what a marked cell needs is marked, or is still to be visited from a cell on the path)
and `Sound` (only what is needed is marked).

### `StoreProofs`, `HeapProofs`

For any `Limits`, any program of `Heap` and collections, minor and major, at any point of it. `StoreProofs` is about a heap
and a trail by themselves: what `Closure` and `Terms` compute, and what each operation does to the terms at given roots.
Two heaps agree on terms when a map carries what the roots reach in one to what they reach in the other, in order
(`Carried`, `CarriedTerms`); new cells and a release carry them by the identity, a collection by the number of live cells
below (`SlidCarried`). `StoreOK` says that cells are well formed, that a structure lies below its STR cell, that no chain
of REFs is circular, and that the trail names REFs.

`HeapInv` of `HeapProofs` is inductive. It has:

- `StoreOK`, and `PointUpByTrail` for the cells that survived the last collection;
- of every choicepoint, catch entry and waiting query (`FrameSnap`, `EntrySnap`, `WaitSnap`): a release to its marks would
  give, at its goals, the terms it was set with. This is the property itself, and not inductive alone, because a later
  release must not take away what an earlier mark still needs;
- so marks rise along both stacks and from one to the other (`Earlier`: `FrameAfter`, `EntryAfter`, `FrameLinked`);
- of every query that runs or waits, a fence (`FenceOK`): no pointer crosses its base, up or down, in the heap or on the
  trail; what is the query's own is above the base in everything, the rest below it (`FrameFenced`, `EntryFenced`);
- all this of a set `used` of catch entries, which has whatever a chain from `active_catch`, a choicepoint or a waiting query
  leads to. The others may hold anything: the marks that a nested query's collection takes from beyond its arrays are in
  entries that no chain reaches.

From it come `HeapStaysSound` (the invariant), `NothingPointsOutside` (`TypeOK`), `ChoicepointsRestore`
(`BacktrackRestores`), `CatchesRestore` (`ThrowRestores`), `OuterQueriesKeepTerms` (`OuterKept`), `OldCellsPointUpByTrail`
(`OldPointUpByTrail`) and the action property `CollectionsKeepTerms` (`CollectionKeepsTerms`). Before it was proved, TLC
checked `HeapInv` in every state of the run `heap`, and within the first 9 to 12 steps of larger instances, with two
choicepoints, a directive and a catch entry at once. `HostSpec`, where a longjmp comes between, is not covered: there the
claim is false (`MCHeapUnwound`).

### `EngineProofs`

From `FilesAssumption`. `EngineInv` is `Shape` (which fields of `nest` belong together), `BagsIn` (open findalls have bags
of their own, the newer the higher), `LoadsIn` (parse position, file and module of each load are those the load inside it
saved, or the registers), `CapturesIn` (starts rise along `nest`, each with the text its goal wrote) and `ProgramInv`.
From it come `TypeCorrect`, `FindallCollectsItsOwn` (`OwnAnswers`), `OuterLoadsAreKept` (`OuterLoadKept`), `CapturesItsOwn`
(`OwnOutput`) and `CallsEndClean` (`IdleIsClean`). The last two exclude the histories where the code does leave something:
captures with an exhausted heap (both), and captures with longjmps (`OwnOutput`, see `MCCapturedLeftover`).

`LoadsAreWhole` proves the action property `LoadIsWhole` of the histories in which no file is loaded inside itself
(`"cycles" \notin uses`; there `MCCircularLoad` has a finding). Its invariant, `WholeIn`, says that the loads in `nest` are of
different files and that the database has of each exactly the clauses before the position of its load, in order. Unloading
a file keeps the selection of another (`ClausesUnloaded`), and a clause that is read is the last of its own (`ClausesAdded`,
`ReadMore`). All other steps leave some of the loads where they were and the database as it is (`Quiet`).

### `BoardProofs`

From `SizeAssumption` and `HandlesAssumption`, for any number of connections, entries, peers, crashes and exhausted heaps. `TableInv` relates
the connection table, the stream table and what each position of the loop has open; `IdleInv` says that `main` restarts the
loop with both tables as it left them; `PeersInv`, that requests, connections and peers correspond one to one. From them
come `TableAndMain`, `ConnsAreOwned`, `GivesUpIdle`, `PeersAreApart`, and `NothingIsLeft` for histories with at most
`Entries - 2` exhausted heaps (16 entries in the code): `LostFew` counts the notes that such heaps have left open. Also
`RepliesAreOwn`, `StatusIsOne`, and the action property `WaitingStays`.

### Checked by TLC only

- Liveness (`MarkingEnds`, `WalksEnd`, `AcceptedReleased`, `WaitingServed`), and the solver's refinements of `AnswerStream`,
  which contain it.
- What RECURSIVE definitions compute: `SldReference`, `Unify`, `Templates`, `Terms`, `Syntax`, `WriteRead`. The prover has no
  induction over data. `Calculator` and `Numbers` use `Bitwise`, which it cannot read.
- The solver's scope under collections: there it is false (see the findings), and what remains true depends on the program.

## Not modelled

- In the solver: the yield callback, foreign functions, `'$$qualify'`, calls of dynamic predicates, terms with
  structure, the marks a directive with a load error leaves as they are.
- In `Engine`: what a module's name is used for (renaming private predicates), the re-entry flags, a host's callback;
  captures while the heap is exhausted.
- In the collector: when a collection starts and what it does to the capacities. A collection may come at any call.
- In the database: `image_load` of release builds, foreign predicates, clause bodies.
- In the reader: characters (escapes, notations of numbers, comments), variables, strings. In the printer: answers,
  `numbervars`, cyclic terms, the digits of floats.
- In arithmetic: the functions of libm.
- On the board: the ring of the mail box, the files in flash, Wi-Fi. The backlog of a listening socket beyond the slots.
- Arena, memory growth and the atom table: who owns an address; templates are trees here, and what fails by longjmp is a
  crash in `Engine`, `HeapHost` and `Board`.
- Platform, boot image, command line: calls of the outside with no state of their own.
- Libraries: Prolog programs that run on the modelled engine, the line editor among them.

## Plan

Done: all modules above, and the theorems of *Proofs*.

Next theorems: the shifts and casts of `Numbers`, for every width, in a form the prover can read (without `Bitwise`).

Next modules, should the code they stand for become the issue: the snapshot of `'$dyn_call'` against the logical update
view; the re-entry flags of the API with registered C functions; the renaming of private predicates.
