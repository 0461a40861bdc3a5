------------------------------- MODULE ClauseDb -------------------------------
(***************************************************************************)
(* The clause database of trilog (solve.c): one array of clauses for all   *)
(* predicates, a bucket of indices into it for each predicate, dead slots  *)
(* that a compaction reclaims, the sets of dynamic and of consulted        *)
(* predicates, and the indices that choicepoints keep while other goals    *)
(* change all of this.                                                     *)
(*                                                                         *)
(* What is abstracted.  A clause is the key of its head's first argument   *)
(* and the file it is from; its id tells it from an equal one and is not   *)
(* in the code.  Whether a goal unifies with a clause whose key does not   *)
(* rule it out is open.  Indices start at 1 where the code's start at 0.   *)
(***************************************************************************)
EXTENDS Integers, Sequences, FiniteSets, Selection

CONSTANTS
  Preds,       \* predicates
  CorePreds,   \* those of core.pl, which no file but core.pl defines
  Keys,        \* first-argument keys, of which
  AnyKey,      \* is that of a variable or a float (IDX_ANY)
  Files,       \* source files
  NoFile,      \* the source of an asserted clause or of a loaded string
  Ids,         \* identities of clauses
  CompactMin,  \* dead slots below which db_compact is not considered; 64
  MaxSlots,    \* bound on the length of the array
  MaxFrames,   \* bound on the choicepoints
  MaxNesting   \* bound on the files being loaded

ASSUME ConstantsAssumption ==
  /\ CorePreds \subseteq Preds /\ CorePreds # {} /\ IsFiniteSet(CorePreds)
  /\ AnyKey \in Keys
  /\ NoFile \notin Files
  /\ IsFiniteSet(Ids) /\ Cardinality(Ids) >= MaxSlots
  /\ CompactMin \in Nat \ {0} /\ MaxSlots \in Nat /\ MaxFrames \in Nat /\ MaxNesting \in Nat

VARIABLES
  db,         \* T->db, up to T->db_count
  bucket,     \* the indices of each predicate's pred_bucket_t
  dead,       \* T->db_dead
  dynamic,    \* T->dynamic_decls
  consulted,  \* T->consulted_decls
  frames,     \* T->stack up to T->sp: goal and clause_idx of static calls
  loading     \* consulting_atom of the loads in progress, the newest last

vars == <<db, bucket, dead, dynamic, consulted, frames, loading>>
tables == <<db, bucket, dead>>
decls == <<dynamic, consulted>>

UserPreds == Preds \ CorePreds

(***************************************************************************)
(* Slots.  db_kill leaves a dead one (head == NULL).                       *)
(***************************************************************************)
Dead == [live |-> FALSE]
Slot(id, p, k, file) == [live |-> TRUE, id |-> id, pred |-> p, key |-> k, source |-> file]
LiveSlots(slots) == {i \in 1 .. Len(slots) : slots[i].live}

FirstArgConflicts(key, c) == key # AnyKey /\ c.key # AnyKey /\ key # c.key

LeastOf(S) == IF S = {} THEN 0 ELSE CHOOSE i \in S : \A j \in S : i <= j

\* bucket_seek: the first position of b that holds an index of at least `from'.
BucketSeek(b, from) == Cardinality({j \in 1 .. Len(b) : b[j] < from}) + 1

\* bucket_match: the first position from pos on whose clause matches key, or 0.
BucketMatch(b, pos, key) ==
  LeastOf({j \in pos .. Len(b) : ~FirstArgConflicts(key, db[b[j]])})

(***************************************************************************)
(* Removing clauses.  db_kill is done for every index of `gone', then the  *)
(* array is compacted if more than half of it is dead.                     *)
(***************************************************************************)
Without(b, gone) == Selected(b, {j \in 1 .. Len(b) : b[j] \notin gone})

Kill(gone) ==
  [db     |-> [i \in 1 .. Len(db) |-> IF i \in gone THEN Dead ELSE db[i]],
   bucket |-> [p \in Preds |-> Without(bucket[p], gone)],
   dead   |-> dead + Cardinality(gone)]

\* Where slot i, or the end of the array, goes when dead slots are squeezed out.
NewPos(slots, i) == NumBelow(LiveSlots(slots), i) + 1

\* Mutants: a compaction that forgets the choicepoints, and one that takes the
\* last live slot before an index for its new place.
CompactKeepsFrames(t) ==
  /\ db' = Selected(t.db, LiveSlots(t.db))
  /\ bucket' = [p \in Preds |-> [j \in 1 .. Len(t.bucket[p]) |-> NewPos(t.db, t.bucket[p][j])]]
  /\ dead' = 0 /\ UNCHANGED frames

CompactToPrevious(t) ==
  /\ db' = Selected(t.db, LiveSlots(t.db))
  /\ bucket' = [p \in Preds |-> [j \in 1 .. Len(t.bucket[p]) |-> NewPos(t.db, t.bucket[p][j])]]
  /\ frames' = [n \in 1 .. Len(frames) |-> [frames[n] EXCEPT !.idx = NewPos(t.db, @) - 1]]
  /\ dead' = 0

Compact(t) ==
  /\ db' = Selected(t.db, LiveSlots(t.db))
  /\ bucket' = [p \in Preds |-> [j \in 1 .. Len(t.bucket[p]) |-> NewPos(t.db, t.bucket[p][j])]]
  /\ frames' = [n \in 1 .. Len(frames) |-> [frames[n] EXCEPT !.idx = NewPos(t.db, @)]]
  /\ dead' = 0

\* Mutant: a threshold off by one.
MaybeCompactLate(t) ==
  IF t.dead > CompactMin /\ t.dead > Len(t.db) - t.dead
  THEN Compact(t)
  ELSE /\ db' = t.db /\ bucket' = t.bucket /\ dead' = t.dead
       /\ UNCHANGED frames

MaybeCompact(t) ==
  IF t.dead >= CompactMin /\ t.dead > Len(t.db) - t.dead
  THEN Compact(t)
  ELSE /\ db' = t.db /\ bucket' = t.bucket /\ dead' = t.dead
       /\ UNCHANGED frames

Remove(gone) == MaybeCompact(Kill(gone))

(***************************************************************************)
(* Adding clauses.                                                         *)
(***************************************************************************)
Room == Len(db) < MaxSlots
UnusedIds == Ids \ {db[i].id : i \in LiveSlots(db)}

DbAdd(p, k, file) ==
  \E id \in UnusedIds :
    /\ db' = Append(db, Slot(id, p, k, file))
    /\ bucket' = [bucket EXCEPT ![p] = Append(@, Len(db) + 1)]
    /\ UNCHANGED <<dead, frames>>

\* Mutants: asserta shifts its own predicate's bucket only, or no choicepoint.
AddFrontOwnBucket(p, k) ==
  \E id \in UnusedIds :
    /\ db' = <<Slot(id, p, k, NoFile)>> \o db
    /\ bucket' = [bucket EXCEPT ![p] = <<1>> \o [j \in 1 .. Len(@) |-> @[j] + 1]]
    /\ frames' = [n \in 1 .. Len(frames) |-> [frames[n] EXCEPT !.idx = @ + 1]]
    /\ UNCHANGED dead

AddFrontKeepsFrames(p, k) ==
  \E id \in UnusedIds :
    LET Shifted(b) == [j \in 1 .. Len(b) |-> b[j] + 1]
    IN  /\ db' = <<Slot(id, p, k, NoFile)>> \o db
        /\ bucket' = [q \in Preds |-> IF q = p THEN <<1>> \o Shifted(bucket[q])
                                      ELSE Shifted(bucket[q])]
        /\ UNCHANGED <<dead, frames>>

DbAddFront(p, k) ==
  \E id \in UnusedIds :
    LET Shifted(b) == [j \in 1 .. Len(b) |-> b[j] + 1]
    IN  /\ db' = <<Slot(id, p, k, NoFile)>> \o db
        /\ bucket' = [q \in Preds |-> IF q = p THEN <<1>> \o Shifted(bucket[q])
                                      ELSE Shifted(bucket[q])]
        /\ frames' = [n \in 1 .. Len(frames) |-> [frames[n] EXCEPT !.idx = @ + 1]]
        /\ UNCHANGED dead

\* core.pl has been loaded, one clause for each of its predicates.
Init ==
  /\ \E order \in [1 .. Cardinality(CorePreds) -> CorePreds], ids \in [1 .. Cardinality(CorePreds) -> Ids] :
       /\ \A i, j \in DOMAIN order : i # j => order[i] # order[j] /\ ids[i] # ids[j]
       /\ db = [i \in DOMAIN order |-> Slot(ids[i], order[i], AnyKey, NoFile)]
  /\ bucket = [p \in Preds |-> IF p \in CorePreds
                               THEN <<CHOOSE i \in 1 .. Len(db) : db[i].pred = p>> ELSE <<>>]
  /\ dead = 0 /\ dynamic = {} /\ consulted = CorePreds
  /\ frames = <<>> /\ loading = <<>>

(***************************************************************************)
(* The procedures of core.pl that change the database: they refuse a       *)
(* static predicate, and asserting makes the predicate dynamic.            *)
(***************************************************************************)
IsStatic(p) == p \in consulted

\* dynamic_declare; nothing if the predicate is dynamic already.
DynamicDeclare(p) == dynamic' = dynamic \cup {p} /\ consulted' = consulted \ {p}

Dynamic(p) ==
  /\ p \notin dynamic
  /\ DynamicDeclare(p)
  /\ UNCHANGED <<tables, frames, loading>>

Assertz(p, k) ==
  /\ ~IsStatic(p) /\ Room
  /\ DynamicDeclare(p)
  /\ DbAdd(p, k, NoFile)
  /\ UNCHANGED loading

Asserta(p, k) ==
  /\ ~IsStatic(p) /\ Room
  /\ DynamicDeclare(p)
  /\ DbAddFront(p, k)
  /\ UNCHANGED loading

\* The first clause that unifies is removed: for some goal or other, any.
Retract(p) ==
  /\ ~IsStatic(p)
  /\ \E j \in 1 .. Len(bucket[p]) : Remove({bucket[p][j]})
  /\ UNCHANGED <<decls, loading>>

\* The end of abolish/1, after retractall/1 has left no clause.
Undynamic(p) ==
  /\ p \in dynamic /\ bucket[p] = <<>>
  /\ dynamic' = dynamic \ {p}
  /\ UNCHANGED <<consulted, tables, frames, loading>>

(***************************************************************************)
(* Loading files.  A file loads others, or itself again, while it is being *)
(* loaded, and goals run between its clauses.                              *)
(***************************************************************************)
\* Mutant: a predicate whose last clause is unloaded stays static.
UnloadKeepsConsulted(file) ==
  /\ Remove({i \in LiveSlots(db) : db[i].source = file})
  /\ UNCHANGED decls

Unload(file) ==
  LET gone == {i \in LiveSlots(db) : db[i].source = file}
      left == {p \in Preds : Without(bucket[p], gone) = <<>>}
      lost == {p \in left : \E i \in gone : db[i].pred = p}
  IN  /\ Remove(gone)
      /\ consulted' = consulted \ lost
      /\ UNCHANGED dynamic

\* consult_file; a string (consult_string) unloads nothing.
Consult(file) ==
  /\ Len(loading) < MaxNesting
  /\ loading' = Append(loading, file)
  /\ IF file = NoFile THEN UNCHANGED <<tables, frames, decls>> ELSE Unload(file)

\* unconsult and make: '$$unload'.
Unconsult(file) == file # NoFile /\ Unload(file) /\ UNCHANGED loading

\* assemble_clause: a clause of the newest load.
LoadClause(p, k) ==
  /\ loading # <<>> /\ Room
  /\ DbAdd(p, k, loading[Len(loading)])
  /\ consulted' = IF p \in dynamic THEN consulted ELSE consulted \cup {p}
  /\ UNCHANGED <<dynamic, loading>>

Loaded ==
  /\ loading # <<>>
  /\ loading' = SubSeq(loading, 1, Len(loading) - 1)
  /\ UNCHANGED <<tables, frames, decls>>

(***************************************************************************)
(* Calls of a predicate that is not dynamic (those of a dynamic one run on *)
(* a copy of its clauses).  Label B is entered at clause_idx = from, with  *)
(* `older' the choicepoints that stay.  A clause whose head does not unify *)
(* is passed over, so the one that resolves may be any candidate; the next *)
(* candidate is where the call's choicepoint resumes.                      *)
(***************************************************************************)
Try(goal, from, older) ==
  LET b == bucket[goal.pred]
      first == BucketMatch(b, BucketSeek(b, from), goal.key)
  IN  \E j \in 1 .. Len(b) :
        /\ first # 0 /\ j >= first
        /\ ~FirstArgConflicts(goal.key, db[b[j]])
        /\ LET after == BucketMatch(b, j + 1, goal.key)
           IN  frames' = IF after = 0 THEN older
                         ELSE Append(older, [goal |-> goal, idx |-> b[after]])

Call(p, k) ==
  /\ p \notin dynamic /\ Len(frames) < MaxFrames
  /\ Try([pred |-> p, key |-> k], 1, frames)
  /\ UNCHANGED <<tables, decls, loading>>

\* C: the newest choicepoint is resumed, or fails.
Backtrack ==
  /\ frames # <<>>
  /\ LET f == frames[Len(frames)]
         older == SubSeq(frames, 1, Len(frames) - 1)
     IN  frames' = older \/ Try(f.goal, f.idx, older)
  /\ UNCHANGED <<tables, decls, loading>>

CutTo(n) ==
  /\ n < Len(frames)
  /\ frames' = SubSeq(frames, 1, n)
  /\ UNCHANGED <<tables, decls, loading>>

Next ==
  \/ \E p \in UserPreds, k \in Keys :
       Assertz(p, k) \/ Asserta(p, k) \/ LoadClause(p, k) \/ Call(p, k)
  \/ \E p \in UserPreds : Retract(p) \/ Dynamic(p) \/ Undynamic(p)
  \/ \E file \in Files \cup {NoFile} : Consult(file) \/ Unconsult(file)
  \/ Loaded
  \/ Backtrack
  \/ \E n \in 0 .. Len(frames) : CutTo(n)

Spec == Init /\ [][Next]_vars

(***************************************************************************)
(* Properties.                                                             *)
(***************************************************************************)
Goals == [pred : UserPreds, key : Keys]

\* Every table is in range: an index in a bucket names a slot of the array, a
\* choicepoint resumes inside it or at its end.
TypeOK ==
  /\ db \in Seq({Dead} \cup
       [live : {TRUE}, id : Ids, pred : Preds, key : Keys, source : Files \cup {NoFile}])
  /\ bucket \in [Preds -> Seq(1 .. Len(db))]
  /\ dead \in 0 .. Len(db)
  /\ dynamic \subseteq UserPreds /\ consulted \subseteq Preds
  /\ frames \in Seq([goal : Goals, idx : 1 .. Len(db) + 1])
  /\ loading \in Seq(Files \cup {NoFile})

\* "indices stay sorted ascending" (pred_bucket_remove_index), which the binary
\* searches of solve.c rely on, and the index of a predicate is complete: it has
\* the predicate's live clauses and nothing else, whatever was added at either
\* end, killed or moved by a compaction.
IndexExact ==
  \A p \in Preds :
    /\ \A i, j \in 1 .. Len(bucket[p]) : i < j => bucket[p][i] < bucket[p][j]
    /\ \A i \in 1 .. Len(db) :
         (db[i].live /\ db[i].pred = p) <=> \E j \in 1 .. Len(bucket[p]) : bucket[p][j] = i

\* db_dead counts the dead slots, and between operations they never outnumber
\* the live ones unless they are fewer than CompactMin ("db_compact reclaims
\* slots once dead ones outnumber live ones"): memory is bounded by live data.
DeadBounded ==
  /\ dead = Len(db) - Cardinality(LiveSlots(db))
  /\ dead < CompactMin \/ 2 * dead <= Len(db)

\* "the two sets stay complementary either order" (was_consulted): a procedure
\* that has clauses is static or dynamic, never both and never neither, and a
\* static one has clauses, through any order of loads, unloads, declarations,
\* assertions and abolitions.
StaticXorDynamic ==
  /\ consulted \cap dynamic = {}
  /\ \A p \in Preds : bucket[p] # <<>> => p \in consulted \cup dynamic
  /\ \A p \in consulted : bucket[p] # <<>>

\* Label B takes clause_idx > 0 for "resuming a call that already matched" and
\* then fails where a new call would throw existence_error.  No asserta, unload
\* or compaction may bring the index of a choicepoint down to the first slot.
ResumeIsResume == \A n \in 1 .. Len(frames) : frames[n].idx > 1

(***************************************************************************)
(* The promise.  A cursor's clauses are those its choicepoint will reach.  *)
(***************************************************************************)
Listed(goal, c) == c.pred = goal.pred /\ ~FirstArgConflicts(goal.key, c)

AbsCursors ==
  [n \in 1 .. Len(frames) |->
     [goal |-> frames[n].goal,
      rest |-> {c \in {db[i] : i \in {i \in LiveSlots(db) : i >= frames[n].idx}} :
                  Listed(frames[n].goal, c)}]]

Promise == INSTANCE ClauseCursors
             WITH clauses <- Selected(db, LiveSlots(db)), cursors <- AbsCursors, Matches <- Listed

\* The array, the buckets and the choicepoints' indices keep the promise of an
\* ordered list with cursors: however clauses come, go and move, a choicepoint
\* neither tries a clause twice nor passes one over.  The list has the immediate
\* update view of the code, also for a file loaded again under a choicepoint, which
\* TODO:7 calls incorrect; LogicalUpdateView (Reload) is what is missed there.
KeepsPromise == Promise!Spec
=============================================================================
