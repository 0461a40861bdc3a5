--------------------------------- MODULE Heap ---------------------------------
(***************************************************************************)
(* The heap of trilog with its trail and all that points into it: the      *)
(* choicepoint stack, the catch stack, the solver's registers, the queries *)
(* that wait for a nested one, and the collector (heap.c, gc.c, and what   *)
(* solve.c and parse.c do with them).                                      *)
(*                                                                         *)
(* What is abstracted.  The solver is any program: at label A it builds    *)
(* terms from those it has, binds variables, calls, backtracks, catches,   *)
(* throws and runs directives in any order.  cn stands for every register  *)
(* of a query that the collector is given, answer for its variables.  A    *)
(* catch entry's catcher, recovery and continuation are one term.  Marking *)
(* is what the roots reach (module MarkFrom).  A collection may come at    *)
(* any A, and be minor or major: the sizes that decide it are left out.    *)
(* Cells are numbered from 1, and a mark is the number of cells below it.  *)
(***************************************************************************)
EXTENDS Cells, Functions

CONSTANT Limits  \* bounds on the cells, choicepoints, catches and nested queries
                 \* that there may be at once: the state is within one of them

ASSUME LimitsAssumption ==
  Limits \subseteq [cells : Nat, frames : Nat, catches : Nat, nesting : Nat]

VARIABLES
  heap,         \* T->heap up to T->heap_top
  trail,        \* T->trail up to T->trail_top
  cn, answer,   \* the running query's goals and its variable (rename)
  frames,       \* T->stack up to T->sp
  catches,      \* T->catch_stack up to T->catch_sp
  active_catch, \* 0 is the code's (size_t)-1
  base,         \* query_sp_base, query_heap_base and query_catch_base
  outer,        \* the C locals of the queries this one is nested in
  old_top       \* T->gc_old_top

vars == <<heap, trail, cn, answer, frames, catches, active_catch, base, outer, old_top>>
store == <<heap, trail>>
stacks == <<frames, catches>>
query == <<answer, base, outer>>

\* Where the REFs from c end.
Deref(c) ==
  LET next == [d \in 1 .. Len(heap) |-> IF heap[d].tag = "REF" THEN {heap[d].ref} ELSE {}]
  IN  CHOOSE d \in Closure(next, {c}) : next[d] \subseteq {d}

\* The bounds, a guard of all that grows.
WithinLimits ==
  \E l \in Limits : /\ Len(heap) <= l.cells /\ Len(frames) <= l.frames
                     /\ Len(catches) <= l.catches /\ Len(outer) <= l.nesting

Least(a, b) == IF a <= b THEN a ELSE b

(***************************************************************************)
(* Releasing: trail_release to trail mark tm and heap_release to mark hm.  *)
(***************************************************************************)
Released(hm, tm) ==
  LET undone == Range(SubSeq(trail, tm + 1, Len(trail)))
  IN  [c \in 1 .. hm |-> IF c \in undone THEN Ref(c) ELSE heap[c]]

Release(hm, tm) ==
  /\ heap' = Released(hm, tm)
  /\ trail' = SubSeq(trail, 1, Least(tm, Len(trail)))
  /\ old_top' = Least(old_top, hm)

\* A choicepoint and a catch entry; `was' is history, the terms that whoever
\* comes back to it was promised.
Frame == [goals |-> cn, heap_mark |-> Len(heap), trail_mark |-> Len(trail),
          active_catch |-> active_catch, was |-> Terms(heap, <<cn, answer>>)]

Entry == [goals |-> cn, heap_mark |-> Len(heap), trail_mark |-> Len(trail),
          sp_at_entry |-> Len(frames), outer_active_catch |-> active_catch,
          was |-> Terms(heap, <<cn, answer>>)]

\* A query p(X, Y) as heap_copy lays it out, with holes that point up to the
\* variables; answer is X.
QueryCells(at) == <<Functor(2), Ref(at + 5), Ref(at + 6), Str(at + 1), Ref(at + 5), Ref(at + 6)>>

Init ==
  /\ heap = QueryCells(0) /\ cn = 4 /\ answer = 5
  /\ trail = <<>> /\ frames = <<>> /\ catches = <<>> /\ active_catch = 0
  /\ base = [sp |-> 0, heap |-> 0, catch |-> 0]
  /\ outer = <<>> /\ old_top = 0

(***************************************************************************)
(* The running query.                                                      *)
(***************************************************************************)
\* The arguments of cn, and the terms a goal can be made of.
Args == Children(heap, Deref(cn)) \cap Pointable(heap)
AtHand == {Deref(c) : c \in Args \cup {cn}}

\* f(T), where T is a term at hand (heap_new_struct), an unbound argument
\* (functor/3) or an atom copied after the structure (heap_copy), to which the
\* hole then points.
Build ==
  /\ \E arg \in AtHand \cup {Len(heap) + 2, Len(heap) + 4} :
       heap' = heap \o <<Functor(1), Ref(arg), Str(Len(heap) + 1)>>
                    \o (IF arg = Len(heap) + 4 THEN <<Atom>> ELSE <<>>)
  /\ cn' = Len(heap) + 3
  /\ UNCHANGED <<trail, stacks, active_catch, query, old_top>>
  /\ WithinLimits'

\* decompose: what is left to do is an argument of what was.
Proceed ==
  /\ cn' \in Args
  /\ UNCHANGED <<store, stacks, active_catch, query, old_top>>

\* heap_bind, from unify or unify_template.
\* Mutant of Bind: only variables older than the newest choicepoint are trailed,
\* all that backtracking needs.
BindTrailsOld ==
  /\ \E v, t \in AtHand :
       /\ v # t /\ IsVar(heap, v)
       /\ heap' = [heap EXCEPT ![v] = Ref(t)]
       /\ trail' = IF frames # <<>> /\ v <= frames[Len(frames)].heap_mark THEN Append(trail, v) ELSE trail
  /\ UNCHANGED <<cn, stacks, active_catch, query, old_top>>

Bind ==
  /\ \E v, t \in AtHand :
       /\ v # t /\ IsVar(heap, v)
       /\ heap' = [heap EXCEPT ![v] = Ref(t)]
       /\ trail' = Append(trail, v)
  /\ UNCHANGED <<cn, stacks, active_catch, query, old_top>>

Push ==
  /\ frames' = Append(frames, Frame)
  /\ UNCHANGED <<store, cn, catches, active_catch, query, old_top>>
  /\ WithinLimits'

\* Mutant of Backtrack: active_catch is not restored.
BacktrackKeepsCatch ==
  /\ Len(frames) > base.sp
  /\ LET f == frames[Len(frames)]
     IN  Release(f.heap_mark, f.trail_mark) /\ cn' = f.goals
  /\ frames' = SubSeq(frames, 1, Len(frames) - 1)
  /\ UNCHANGED <<catches, active_catch, query>>

\* C: the newest choicepoint of this query.
Backtrack ==
  /\ Len(frames) > base.sp
  /\ LET f == frames[Len(frames)]
     IN  /\ Release(f.heap_mark, f.trail_mark)
         /\ cn' = f.goals /\ active_catch' = f.active_catch
  /\ frames' = SubSeq(frames, 1, Len(frames) - 1)
  /\ UNCHANGED <<catches, query>>

\* Not below what the innermost catch/3 in scope was called with: its goal has
\* its cuts baked for that depth (heap_rebake_cuts).
Cut ==
  /\ \E n \in base.sp .. Len(frames) - 1 :
       /\ active_catch # 0 => n >= catches[active_catch].sp_at_entry
       /\ frames' = SubSeq(frames, 1, n)
  /\ UNCHANGED <<store, cn, catches, active_catch, query, old_top>>

Catch ==
  /\ catches' = Append(catches, Entry)
  /\ active_catch' = Len(catches) + 1
  /\ UNCHANGED <<store, cn, frames, query, old_top>>
  /\ WithinLimits'

Uncatch ==
  /\ active_catch # 0
  /\ active_catch' = catches[active_catch].outer_active_catch
  /\ UNCHANGED <<store, cn, stacks, query, old_top>>

\* The entry i and those further out, whose catchers do_throw tries in turn.
Chain(i) ==
  Closure([j \in 1 .. Len(catches) |-> {catches[j].outer_active_catch} \ {0}], {i} \ {0})

\* do_throw: the ball, kept as a template, is caught by one of them.
Throw ==
  /\ \E i \in Chain(active_catch) :
       LET entry == catches[i]
       IN  /\ Release(entry.heap_mark, entry.trail_mark)
           /\ frames' = SubSeq(frames, 1, entry.sp_at_entry)
           /\ cn' = entry.goals
           /\ active_catch' = entry.outer_active_catch
  /\ UNCHANGED <<catches, query>>

(***************************************************************************)
(* Nested queries: consult_file runs a directive, whose goal is copied     *)
(* from a template, while the query that called it waits.                  *)
(***************************************************************************)
Directive ==
  /\ outer' = Append(outer, [cn |-> cn, answer |-> answer, active_catch |-> active_catch,
                             base |-> base, hmark |-> Len(heap), tmark |-> Len(trail),
                             cmark |-> Len(catches), was |-> Terms(heap, <<cn, answer>>)])
  /\ base' = [sp |-> Len(frames), heap |-> Len(heap), catch |-> Len(catches)]
  /\ heap' = heap \o QueryCells(Len(heap))
  /\ cn' = Len(heap) + 4 /\ answer' = Len(heap) + 5 /\ active_catch' = 0
  /\ UNCHANGED <<trail, stacks, old_top>>
  /\ WithinLimits'

\* run_query and run_directive return: all the directive leaves is garbage.
DirectiveEnds ==
  /\ outer # <<>>
  /\ LET caller == outer[Len(outer)]
     IN  /\ Release(caller.hmark, caller.tmark)
         /\ catches' = SubSeq(catches, 1, caller.cmark)
         /\ cn' = caller.cn /\ answer' = caller.answer
         /\ active_catch' = caller.active_catch /\ base' = caller.base
  /\ frames' = SubSeq(frames, 1, base.sp)
  /\ outer' = SubSeq(outer, 1, Len(outer) - 1)

(***************************************************************************)
(* gc_maybe_run.  A minor collection looks at the cells above old_top      *)
(* only; both leave those of the queries that wait where they are.         *)
(***************************************************************************)
Reached == Chain(active_catch) \cup UNION {Chain(frames[n].active_catch) : n \in 1 .. Len(frames)}

\* catch_live: the entries of waiting queries are live, reached or not.
LiveCatches == 1 .. base.catch \cup Reached

\* Mutant of Roots: without what old variables are bound to.
RootsWithoutTrail(from) ==
  {cn, answer} \cup {frames[n].goals : n \in 1 .. Len(frames)} \cup {catches[i].goals : i \in Reached}

\* The cells that the trail's variables below the collection's base are bound
\* to, and the other roots.
Roots(from) ==
  {heap[trail[i]].ref : i \in {j \in 1 .. Len(trail) : trail[j] <= from /\ heap[trail[j]].tag = "REF"}}
    \cup {cn, answer} \cup {frames[n].goals : n \in 1 .. Len(frames)}
    \cup {catches[i].goals : i \in Reached}

\* What a collection from there on keeps.
Live(from) == 1 .. from \cup Reach(heap, Roots(from), 1 .. from)

\* Mutant of KeptEntries: old variables are taken for ones that stay bound.
KeptYoungEntries(from, live) == {i \in 1 .. Len(trail) : trail[i] \in live \ 1 .. from}

\* compact_trail: "trail entries whose target var didn't survive marking are safe
\* to drop".
KeptEntries(from, live) == {i \in 1 .. Len(trail) : trail[i] \in live}

Slide(from, live, junk) ==
  LET Moved(c) == IF c <= Len(heap) THEN NumBelow(live, c + 1) ELSE junk
      moved == [c \in 1 .. Len(heap) |-> Moved(c)]
      onTrail == Range(trail)
      kept == KeptEntries(from, live)
      Kept(m) == IF m <= Len(trail) THEN NumBelow(kept, m + 1) ELSE junk
      NewCatch(i) == NumBelow(LiveCatches, i + 1)
  IN  /\ heap' = Selected([c \in live |-> IF c > from \/ c \in onTrail
                                          THEN Repoint(heap[c], moved) ELSE heap[c]], live)
      /\ trail' = Selected([i \in kept |-> Moved(trail[i])], kept)
      /\ cn' = Moved(cn) /\ answer' = Moved(answer)
      /\ frames' = [n \in 1 .. Len(frames) |->
                      [frames[n] EXCEPT !.goals = Moved(@), !.heap_mark = Moved(@),
                                        !.trail_mark = Kept(@), !.active_catch = NewCatch(@)]]
      /\ catches' = Selected([i \in LiveCatches |->
                       [catches[i] EXCEPT !.goals = Moved(@), !.heap_mark = Moved(@),
                          !.trail_mark = Kept(@), !.outer_active_catch = NewCatch(@)]], LiveCatches)
      /\ active_catch' = NewCatch(active_catch)
      /\ old_top' = Cardinality(live)
      /\ UNCHANGED <<base, outer>>

\* What reading beyond new_index or trail_new_index may give.
Junk ==
  IF \A i \in LiveCatches : catches[i].heap_mark <= Len(heap) /\ catches[i].trail_mark <= Len(trail)
                              /\ catches[i].goals <= Len(heap)
  THEN {0} ELSE {0, Len(heap) + 1}

CollectFrom(from) == \E live \in {Live(from)}, junk \in Junk : Slide(from, live, junk)

Minor == old_top > base.heap /\ CollectFrom(old_top)

\* Mutant of Major: a nested query's collection takes the whole heap.
MajorFromZero == CollectFrom(0)

Major == CollectFrom(base.heap)

Collect == Minor \/ Major

Next ==
  \/ Build \/ Proceed \/ Bind
  \/ Push \/ Backtrack \/ Cut
  \/ Catch \/ Uncatch \/ Throw
  \/ Directive \/ DirectiveEnds
  \/ Minor \/ Major

Spec == Init /\ [][Next]_vars

(***************************************************************************)
(* Properties.                                                             *)
(***************************************************************************)
\* Nothing points outside: no cell, trail entry, register, choicepoint or catch
\* entry names a cell, a mark or an entry that is no longer there.
TypeOK ==
  /\ \A c \in 1 .. Len(heap) :
       \/ heap[c].tag \in {"ATOM", "FUNCTOR"}
       \/ heap[c].tag = "REF" /\ heap[c].ref \in Pointable(heap)
       \/ heap[c].tag = "STR" /\ heap[c].ptr < c /\ heap[heap[c].ptr].tag = "FUNCTOR"
  /\ \A i \in 1 .. Len(trail) : trail[i] \in 1 .. Len(heap) /\ heap[trail[i]].tag = "REF"
  /\ {cn, answer} \subseteq Pointable(heap)
  /\ active_catch \in 0 .. Len(catches)
  /\ \A n \in 1 .. Len(frames) :
       /\ frames[n].goals \in Pointable(heap) /\ frames[n].active_catch \in 0 .. Len(catches)
       /\ frames[n].heap_mark \in 0 .. Len(heap) /\ frames[n].trail_mark \in 0 .. Len(trail)
  /\ \A i \in Reached :
       /\ catches[i].goals \in Pointable(heap) /\ catches[i].outer_active_catch \in 0 .. i - 1
       /\ catches[i].heap_mark \in 0 .. Len(heap) /\ catches[i].trail_mark \in 0 .. Len(trail)
  /\ old_top \in 0 .. Len(heap)

\* What backtracking to a choicepoint brings back is what was there when it was
\* pushed: the same goals and query variables, sharing the same variables, with
\* every binding made since undone and none made before, whatever collections
\* slid the heap, dropped trail entries and moved the marks in between.
BacktrackRestores ==
  \A n \in base.sp + 1 .. Len(frames) :
    LET f == frames[n]
    IN  Terms(Released(f.heap_mark, f.trail_mark), <<f.goals, answer>>) = f.was

\* The same of a catch entry that a throw can still reach, now or after
\* backtracking: do_throw restores the state of the call to catch/3.
ThrowRestores ==
  \A i \in Reached \ 1 .. base.catch :
    LET entry == catches[i]
    IN  /\ entry.heap_mark <= Len(heap) /\ entry.trail_mark <= Len(trail)
        /\ entry.sp_at_entry <= Len(frames)
        /\ Terms(Released(entry.heap_mark, entry.trail_mark), <<entry.goals, answer>>) = entry.was

\* A query that waits for a directive finds its terms as it left them, though no
\* collection the directive's query makes has them as roots ("Outer queries'
\* cells stay put").
OuterKept ==
  \A k \in 1 .. Len(outer) : Terms(heap, <<outer[k].cn, outer[k].answer>>) = outer[k].was

\* "Cells below base stay put; of them only bound variables can point higher":
\* what lets a collection leave the old cells unread and find the new ones they
\* hold from the trail.
OldPointUpByTrail ==
  \A from \in {base.heap, Least(old_top, Len(heap))} : \A c \in 1 .. from :
    (\E d \in Children(heap, c) : d > from) => heap[c].tag = "REF" /\ c \in Range(trail)

\* A collection changes no term of the running query or of its choicepoints, nor
\* what they share (ThrowRestores says the same of the catch entries).
CollectionKeepsTerms ==
  [][old_top' = Len(heap') /\ Collect
       => Terms(heap', <<cn', answer'>> \o [n \in 1 .. Len(frames') |-> frames'[n].goals])
          = Terms(heap, <<cn, answer>> \o [n \in 1 .. Len(frames) |-> frames[n].goals])]_vars
=============================================================================
