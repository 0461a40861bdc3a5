--------------------------- MODULE ClauseDbProofs ---------------------------
(***************************************************************************)
(* Proofs about ClauseDb, for any predicates, keys, files and bounds: the  *)
(* tables fit together, a choicepoint resumes behind core.pl, and ClauseDb *)
(* implements ClauseCursors.                                               *)
(***************************************************************************)
EXTENDS ClauseDb, Facts

(***************************************************************************)
(* The invariant.                                                          *)
(***************************************************************************)
Clause == [live : {TRUE}, id : Ids, pred : Preds, key : Keys, source : Files \cup {NoFile}]

Ascending(b) == \A i, j \in 1 .. Len(b) : i < j => b[i] < b[j]
Holds(b, i) == \E j \in 1 .. Len(b) : b[j] = i

SlotsOK(d) == d \in Seq({Dead} \cup Clause)

\* The index b of the slots d.
Indexes(b, d) ==
  /\ b \in [Preds -> Seq(1 .. Len(d))]
  /\ \A p \in Preds :
       /\ Ascending(b[p])
       /\ \A i \in 1 .. Len(d) : (d[i].live /\ d[i].pred = p) <=> Holds(b[p], i)

Counts(n, d) == n = Len(d) - Cardinality(LiveSlots(d))

\* An id names one clause.
Distinct(d) == \A i, j \in LiveSlots(d) : d[i].id = d[j].id => i = j

Tables(d, b, n) == SlotsOK(d) /\ Indexes(b, d) /\ Counts(n, d) /\ Distinct(d)

Frame == [goal : Goals, idx : Nat \ {0}]

\* A clause of core.pl, which is never removed, is before every clause that a
\* procedure of a program has if it is not dynamic, and before every choicepoint.
CoreBelow(c) ==
  /\ db[c].live /\ db[c].pred \in CorePreds /\ db[c].source = NoFile
  /\ \A p \in UserPreds \ dynamic : \A i \in 1 .. Len(db) : Holds(bucket[p], i) => c < i
  /\ \A n \in 1 .. Len(frames) : c < frames[n].idx

BehindCore == \E c \in 1 .. Len(db) : CoreBelow(c)

DbInv == TypeOK /\ IndexExact /\ DeadBounded /\ StaticXorDynamic /\ Distinct(db) /\ BehindCore

(***************************************************************************)
(* Slots and buckets.                                                      *)
(***************************************************************************)
LEMMA SlotCases ==
  ASSUME NEW d, SlotsOK(d)
  PROVE  /\ Len(d) \in Nat /\ DOMAIN d = 1 .. Len(d)
         /\ \A i \in 1 .. Len(d) : /\ d[i] \in {Dead} \cup Clause
                                   /\ d[i].live <=> d[i] \in Clause
                                   /\ ~d[i].live <=> d[i] = Dead
<1>1. Len(d) \in Nat /\ DOMAIN d = 1 .. Len(d)
  BY LenProperties DEF SlotsOK
<1>2. \A i \in 1 .. Len(d) : d[i] \in {Dead} \cup Clause
  BY ElementOfSeq DEF SlotsOK
<1>3. \A c \in {Dead} \cup Clause : (c.live <=> c \in Clause) /\ (~c.live <=> c = Dead)
  <2>1. Dead.live = FALSE
    BY DEF Dead
  <2>2. ASSUME NEW c \in Clause
        PROVE  c.live = TRUE
    BY DEF Clause
  <2>. QED
    BY ONLY <2>1, <2>2
<1>. QED
  BY <1>1, <1>2, <1>3

LEMMA LiveFinite ==
  ASSUME NEW d, SlotsOK(d)
  PROVE  /\ LiveSlots(d) \subseteq 1 .. Len(d) /\ LiveSlots(d) \subseteq Int
         /\ IsFiniteSet(LiveSlots(d)) /\ Cardinality(LiveSlots(d)) \in 0 .. Len(d)
<1>1. Len(d) \in Nat
  BY SlotCases
<1>2. IsFiniteSet(1 .. Len(d)) /\ Cardinality(1 .. Len(d)) = Len(d)
  BY <1>1, UpTo
<1>3. LiveSlots(d) \in SUBSET (1 .. Len(d))
  BY DEF LiveSlots
<1>4. IsFiniteSet(LiveSlots(d)) /\ Cardinality(LiveSlots(d)) <= Len(d)
  BY <1>2, <1>3, FS_Subset
<1>5. Cardinality(LiveSlots(d)) \in Nat
  BY <1>4, FS_CardinalityType
<1>. QED
  BY <1>1, <1>3, <1>4, <1>5

\* The invariant's parts in the forms the lemmas below have.
LEMMA InvParts ==
  DbInv <=>
    /\ Tables(db, bucket, dead)
    /\ dead < CompactMin \/ 2 * dead <= Len(db)
    /\ dynamic \subseteq UserPreds /\ consulted \subseteq Preds
    /\ frames \in Seq([goal : Goals, idx : 1 .. Len(db) + 1])
    /\ loading \in Seq(Files \cup {NoFile})
    /\ StaticXorDynamic
    /\ BehindCore
<1>1. ASSUME TypeOK, IndexExact, DeadBounded, Distinct(db)
      PROVE  Tables(db, bucket, dead)
  BY <1>1 DEF TypeOK, IndexExact, DeadBounded, Tables, SlotsOK, Indexes, Ascending, Holds, Counts, Clause
<1>2. ASSUME Tables(db, bucket, dead)
      PROVE  /\ IndexExact /\ dead = Len(db) - Cardinality(LiveSlots(db)) /\ dead \in 0 .. Len(db)
             /\ bucket \in [Preds -> Seq(1 .. Len(db))] /\ SlotsOK(db) /\ Distinct(db)
  BY <1>2, LiveFinite, SlotCases DEF IndexExact, Tables, Indexes, Ascending, Holds, Counts
<1>. QED
  BY <1>1, <1>2 DEF DbInv, TypeOK, DeadBounded, SlotsOK, Clause

\* Taking members out of a bucket.
LEMMA WithoutIs ==
  ASSUME NEW N \in Nat, NEW b \in Seq(1 .. N), Ascending(b), NEW gone
  PROVE  /\ Without(b, gone) \in Seq(1 .. N) /\ Ascending(Without(b, gone))
         /\ \A i : Holds(Without(b, gone), i) <=> Holds(b, i) /\ i \notin gone
<1> DEFINE S == {j \in 1 .. Len(b) : b[j] \notin gone}
           w == Without(b, gone)
<1>1. Len(b) \in Nat /\ \A j \in 1 .. Len(b) : b[j] \in 1 .. N
  BY ElementOfSeq, LenProperties
<1>2. S \subseteq Int /\ IsFiniteSet(S) /\ \A j \in S : b[j] \in 1 .. N
  <2>1. IsFiniteSet(1 .. Len(b)) /\ S \in SUBSET (1 .. Len(b))
    BY <1>1, FS_Interval
  <2>. QED
    BY <1>1, <2>1, FS_Subset
<1>3. w = Selected(b, S)
  BY DEF Without
<1>4. /\ Cardinality(S) \in Nat /\ Len(w) = Cardinality(S)
      /\ \A n \in 1 .. Cardinality(S) : w[n] = b[Nth(S, n)] /\ Nth(S, n) \in S
      /\ \A i \in S : NumBelow(S, i) + 1 \in 1 .. Cardinality(S) /\ w[NumBelow(S, i) + 1] = b[i]
  <2> HIDE DEF S, w
  <2>1. S \subseteq Int /\ IsFiniteSet(S)
    BY <1>2
  <2>2. Cardinality(S) \in Nat /\ Len(Selected(b, S)) = Cardinality(S)
    BY ONLY <2>1, SelectedLen
  <2>3. \A n \in 1 .. Cardinality(S) : Selected(b, S)[n] = b[Nth(S, n)] /\ Nth(S, n) \in S
    <3> TAKE n \in 1 .. Cardinality(S)
    <3>. QED
      BY ONLY <2>1, n \in 1 .. Cardinality(S), SelectedAt
  <2>4. \A i \in S : NumBelow(S, i) + 1 \in 1 .. Cardinality(S) /\ Selected(b, S)[NumBelow(S, i) + 1] = b[i]
    <3> TAKE i \in S
    <3>. QED
      BY ONLY <2>1, i \in S, SelectedOf
  <2>. QED
    BY ONLY <1>3, <2>2, <2>3, <2>4
<1>5. w \in Seq(1 .. N)
  <2> HIDE DEF S, w
  <2>. QED
    BY ONLY <1>2, <1>3, SelectedSeq
<1>6. Ascending(w)
  <2> SUFFICES ASSUME NEW m \in 1 .. Len(w), NEW n \in 1 .. Len(w), m < n
               PROVE  w[m] < w[n]
    BY DEF Ascending
  <2>1. m \in 1 .. Cardinality(S) /\ n \in 1 .. Cardinality(S)
    BY <1>4
  <2>2. Nth(S, m) < Nth(S, n)
    BY <1>2, <2>1, NthIncreases
  <2>3. Nth(S, m) \in 1 .. Len(b) /\ Nth(S, n) \in 1 .. Len(b)
    BY <1>4, <2>1
  <2>4. w[m] = b[Nth(S, m)] /\ w[n] = b[Nth(S, n)]
    BY <1>4, <2>1
  <2>. QED
    BY ONLY <2>2, <2>3, <2>4, Ascending(b) DEF Ascending
<1>7. ASSUME NEW i
      PROVE  Holds(w, i) <=> Holds(b, i) /\ i \notin gone
  <2>1. ASSUME NEW n \in 1 .. Len(w), w[n] = i
        PROVE  Holds(b, i) /\ i \notin gone
    BY <1>4, <2>1 DEF Holds
  <2>2. ASSUME NEW j \in 1 .. Len(b), b[j] = i, i \notin gone
        PROVE  Holds(w, i)
    <3>1. j \in S
      BY <2>2
    <3>. QED
      BY <1>4, <2>2, <3>1 DEF Holds
  <2>. QED
    BY <2>1, <2>2 DEF Holds
<1>. QED
  BY <1>5, <1>6, <1>7

LEMMA KillIs ==
  ASSUME Tables(db, bucket, dead), NEW gone \in SUBSET LiveSlots(db), NEW t, t = Kill(gone)
  PROVE  /\ Tables(t.db, t.bucket, t.dead)
         /\ Len(t.db) = Len(db) /\ t.dead = dead + Cardinality(gone)
         /\ LiveSlots(t.db) = LiveSlots(db) \ gone
         /\ \A i \in LiveSlots(db) \ gone : t.db[i] = db[i]
<1>1. /\ t.db = [i \in 1 .. Len(db) |-> IF i \in gone THEN Dead ELSE db[i]]
      /\ t.bucket = [p \in Preds |-> Without(bucket[p], gone)]
      /\ t.dead = dead + Cardinality(gone)
  BY DEF Kill
<1>2. SlotsOK(db) /\ Indexes(bucket, db) /\ Counts(dead, db) /\ Distinct(db)
  BY DEF Tables
<1>3. /\ Len(db) \in Nat
      /\ \A i \in 1 .. Len(db) : db[i] \in {Dead} \cup Clause
  BY ONLY <1>2, SlotCases
<1>4. SlotsOK(t.db) /\ Len(t.db) = Len(db) /\ \A i \in 1 .. Len(db) : t.db[i] = IF i \in gone THEN Dead ELSE db[i]
  BY ONLY <1>1, <1>3 DEF SlotsOK
<1>5. Dead.live = FALSE
  BY DEF Dead
<1>6. LiveSlots(t.db) = LiveSlots(db) \ gone
  BY ONLY <1>4, <1>5 DEF LiveSlots
<1>7. \A i \in LiveSlots(db) \ gone : t.db[i] = db[i]
  BY <1>4 DEF LiveSlots
<1>8. Indexes(t.bucket, t.db)
  <2>1. ASSUME NEW p \in Preds
        PROVE  /\ t.bucket[p] \in Seq(1 .. Len(t.db)) /\ Ascending(t.bucket[p])
               /\ \A i \in 1 .. Len(t.db) : (t.db[i].live /\ t.db[i].pred = p) <=> Holds(t.bucket[p], i)
    <3>1. bucket[p] \in Seq(1 .. Len(db)) /\ Ascending(bucket[p])
          /\ \A i \in 1 .. Len(db) : (db[i].live /\ db[i].pred = p) <=> Holds(bucket[p], i)
      BY <1>2 DEF Indexes
    <3>2. /\ Without(bucket[p], gone) \in Seq(1 .. Len(db)) /\ Ascending(Without(bucket[p], gone))
          /\ \A i : Holds(Without(bucket[p], gone), i) <=> Holds(bucket[p], i) /\ i \notin gone
      BY ONLY <1>3, <3>1, WithoutIs
    <3>3. t.bucket[p] = Without(bucket[p], gone)
      BY <1>1
    <3>4. ASSUME NEW i \in 1 .. Len(db)
          PROVE  (t.db[i].live /\ t.db[i].pred = p) <=> Holds(t.bucket[p], i)
      <4>1. CASE i \in gone
        <5>1. t.db[i].live = FALSE
          BY <1>4, <1>5, <4>1
        <5>. QED
          BY ONLY <3>2, <3>3, <4>1, <5>1
      <4>2. CASE i \notin gone
        <5>1. t.db[i] = db[i]
          BY <1>4, <4>2
        <5>. QED
          BY ONLY <3>1, <3>2, <3>3, <4>2, <5>1, i \in 1 .. Len(db)
      <4>. QED
        BY <4>1, <4>2
    <3>. QED
      BY ONLY <1>4, <3>2, <3>3, <3>4
  <2>2. t.bucket = [p \in Preds |-> t.bucket[p]]
    BY <1>1
  <2>. QED
    BY ONLY <2>1, <2>2 DEF Indexes
<1>9. Counts(t.dead, t.db)
  <2>1. IsFiniteSet(LiveSlots(db)) /\ Cardinality(LiveSlots(db)) \in 0 .. Len(db)
    BY ONLY <1>2, LiveFinite
  <2>2. LiveSlots(db) \cap gone = gone
    OBVIOUS
  <2>3. Cardinality(LiveSlots(db) \ gone) = Cardinality(LiveSlots(db)) - Cardinality(gone)
    BY <2>1, <2>2, FS_Difference
  <2>4. Cardinality(gone) \in Nat
    BY <2>1, FS_Subset, FS_CardinalityType
  <2>5. dead = Len(db) - Cardinality(LiveSlots(db)) /\ t.dead = dead + Cardinality(gone)
    BY <1>1, <1>2 DEF Counts
  <2>6. t.dead = Len(db) - Cardinality(LiveSlots(db) \ gone)
    BY ONLY <1>3, <2>1, <2>3, <2>4, <2>5
  <2>. QED
    BY ONLY <1>4, <1>6, <2>6 DEF Counts
<1>10. Distinct(t.db)
  BY <1>2, <1>6, <1>7 DEF Distinct
<1>. QED
  BY <1>1, <1>4, <1>6, <1>7, <1>8, <1>9, <1>10 DEF Tables

(***************************************************************************)
(* What a step does to the clauses: it takes slot i to pos[i], keeps their *)
(* order, keeps the clauses `kept' and makes those at `new'.               *)
(***************************************************************************)
Moves(pos, kept, new) ==
  /\ kept \subseteq LiveSlots(db) /\ new \subseteq LiveSlots(db')
  /\ \A i \in 1 .. Len(db) + 1 : pos[i] \in 1 .. Len(db') + 1
  /\ \A i, k \in 1 .. Len(db) + 1 : i <= k => pos[i] <= pos[k]
  /\ \A i \in kept, k \in 1 .. Len(db) + 1 : i < k => pos[i] < pos[k]
  /\ \A i \in kept : pos[i] \in LiveSlots(db') /\ pos[i] \notin new /\ db'[pos[i]] = db[i]
  /\ \A n \in LiveSlots(db') : n \in new \/ \E i \in kept : n = pos[i]

Follows(pos) ==
  /\ Len(frames') = Len(frames)
  /\ frames' = [n \in 1 .. Len(frames) |-> [goal |-> frames[n].goal, idx |-> pos[frames[n].idx]]]

FramesIn(d) == frames \in Seq([goal : Goals, idx : 1 .. Len(d) + 1])

LEMMA FollowsIn ==
  ASSUME FramesIn(db), SlotsOK(db), NEW pos, \A i \in 1 .. Len(db) + 1 : pos[i] \in 1 .. Len(db') + 1,
         frames' = [n \in 1 .. Len(frames) |-> [frames[n] EXCEPT !.idx = pos[@]]]
  PROVE  Follows(pos) /\ FramesIn(db)'
<1>1. Len(frames) \in Nat /\ \A n \in 1 .. Len(frames) : frames[n] \in [goal : Goals, idx : 1 .. Len(db) + 1]
  BY ElementOfSeq, LenProperties DEF FramesIn
<1>2. \A n \in 1 .. Len(frames) :
        [frames[n] EXCEPT !.idx = pos[@]] = [goal |-> frames[n].goal, idx |-> pos[frames[n].idx]]
  BY <1>1
<1>3. frames' = [n \in 1 .. Len(frames) |-> [goal |-> frames[n].goal, idx |-> pos[frames[n].idx]]]
  BY <1>2
<1>4. \A n \in 1 .. Len(frames) : frames[n].goal \in Goals /\ pos[frames[n].idx] \in 1 .. Len(db') + 1
  BY <1>1
<1>5. Len(frames') = Len(frames)
  BY <1>1, <1>3
<1>6. frames' \in Seq([goal : Goals, idx : 1 .. Len(db') + 1])
  BY ONLY <1>1, <1>3, <1>4
<1>. QED
  BY <1>3, <1>5, <1>6 DEF Follows, FramesIn

\* A step that has such a map keeps core.pl in front if what it makes belongs to a
\* dynamic procedure or comes later.
LEMMA CoreMoves ==
  ASSUME Tables(db, bucket, dead), Tables(db, bucket, dead)', FramesIn(db),
         NEW pos, NEW kept, NEW new, Moves(pos, kept, new), Follows(pos),
         NEW c \in kept, CoreBelow(c),
         UserPreds \ dynamic' \subseteq UserPreds \ dynamic,
         \A n \in new : db'[n].pred \in UserPreds \ dynamic' => pos[c] < n
  PROVE  BehindCore'
<1>1. /\ SlotsOK(db) /\ Indexes(bucket, db) /\ SlotsOK(db') /\ Indexes(bucket', db')
      /\ Len(db) \in Nat /\ Len(db') \in Nat
  BY SlotCases DEF Tables
<1>2. /\ c \in LiveSlots(db) /\ c \in 1 .. Len(db) /\ c \in 1 .. Len(db) + 1
      /\ pos[c] \in LiveSlots(db') /\ pos[c] \in 1 .. Len(db') /\ db'[pos[c]] = db[c] /\ db'[pos[c]].live
  BY <1>1 DEF Moves, LiveSlots
<1>3. ASSUME NEW p \in UserPreds \ dynamic', NEW i \in 1 .. Len(db'), Holds(bucket'[p], i)
      PROVE  pos[c] < i
  <2>1. db'[i].live /\ db'[i].pred = p /\ i \in LiveSlots(db')
    BY <1>1, <1>3 DEF Indexes, LiveSlots, UserPreds
  <2>2. CASE i \in new
    BY <2>1, <2>2
  <2>3. ASSUME NEW k \in kept, i = pos[k]
        PROVE  pos[c] < i
    <3>1. k \in 1 .. Len(db) /\ db[k].live /\ db[k].pred = p
      BY <2>1, <2>3 DEF Moves, LiveSlots
    <3>2. Holds(bucket[p], k)
      BY <1>1, <3>1 DEF Indexes, UserPreds
    <3>3. c < k
      BY <3>1, <3>2 DEF CoreBelow
    <3>4. k \in 1 .. Len(db) + 1
      BY <1>1, <3>1
    <3>. QED
      BY <2>3, <3>3, <3>4 DEF Moves
  <2>. QED
    BY <2>1, <2>2, <2>3 DEF Moves
<1>4. ASSUME NEW n \in 1 .. Len(frames')
      PROVE  pos[c] < frames'[n].idx
  <2>1. n \in 1 .. Len(frames) /\ frames'[n].idx = pos[frames[n].idx]
    BY <1>4 DEF Follows
  <2>2. frames[n].idx \in 1 .. Len(db) + 1
    <3>1. frames[n] \in [goal : Goals, idx : 1 .. Len(db) + 1]
      BY <2>1, ElementOfSeq DEF FramesIn
    <3>. QED
      BY ONLY <3>1
  <2>3. c < frames[n].idx
    BY <2>1 DEF CoreBelow
  <2>. QED
    BY <2>1, <2>2, <2>3 DEF Moves
<1>5. CoreBelow(pos[c])'
  BY <1>2, <1>3, <1>4 DEF CoreBelow
<1>. QED
  BY <1>2, <1>5 DEF BehindCore

\* The same slots and buckets, choicepoints that resume behind those there were.
LEMMA CoreStays ==
  ASSUME BehindCore, UNCHANGED tables, UserPreds \ dynamic' \subseteq (UserPreds \ dynamic) \cup {p \in Preds : bucket[p] = <<>>},
         \A n \in 1 .. Len(frames') : \A c \in 1 .. Len(db) : CoreBelow(c) => c < frames'[n].idx
  PROVE  BehindCore'
<1>1. PICK c \in 1 .. Len(db) : CoreBelow(c)
  BY DEF BehindCore
<1>2. db' = db /\ bucket' = bucket
  BY DEF tables
<1>3. ASSUME NEW p \in UserPreds \ dynamic', NEW i \in 1 .. Len(db), Holds(bucket[p], i)
      PROVE  c < i
  <2>1. bucket[p] # <<>>
    BY <1>3 DEF Holds
  <2>. QED
    BY <1>1, <1>3, <2>1 DEF CoreBelow
<1>4. CoreBelow(c)'
  BY <1>1, <1>2, <1>3 DEF CoreBelow
<1>. QED
  BY <1>2, <1>4 DEF BehindCore

LEMMA CompactIs ==
  ASSUME NEW t, Tables(t.db, t.bucket, t.dead), Len(t.db) = Len(db), SlotsOK(db),
         NEW kept, kept = LiveSlots(t.db), kept \subseteq LiveSlots(db),
         \A i \in kept : t.db[i] = db[i],
         FramesIn(db), Compact(t),
         NEW pos, pos = [i \in 1 .. Len(db) + 1 |-> NewPos(t.db, i)]
  PROVE  /\ Tables(db, bucket, dead)' /\ dead' = 0
         /\ Moves(pos, kept, {}) /\ Follows(pos) /\ FramesIn(db)'
<1>1. /\ db' = Selected(t.db, kept)
      /\ bucket' = [p \in Preds |-> [j \in 1 .. Len(t.bucket[p]) |-> NewPos(t.db, t.bucket[p][j])]]
      /\ frames' = [n \in 1 .. Len(frames) |-> [frames[n] EXCEPT !.idx = NewPos(t.db, @)]]
      /\ dead' = 0
  BY DEF Compact
<1>2. /\ SlotsOK(t.db) /\ Indexes(t.bucket, t.db) /\ Counts(t.dead, t.db) /\ Distinct(t.db)
      /\ Len(db) \in Nat /\ kept \subseteq 1 .. Len(db)
  BY SlotCases, LiveFinite DEF Tables
<1>3. kept \subseteq Int /\ IsFiniteSet(kept)
  BY ONLY <1>2, kept = LiveSlots(t.db), LiveFinite
<1>4. /\ Cardinality(kept) \in Nat /\ Len(db') = Cardinality(kept)
      /\ \A n \in 1 .. Cardinality(kept) : db'[n] = t.db[Nth(kept, n)] /\ Nth(kept, n) \in kept
      /\ \A i \in kept : NumBelow(kept, i) + 1 \in 1 .. Cardinality(kept) /\ db'[NumBelow(kept, i) + 1] = t.db[i]
  <2>1. Cardinality(kept) \in Nat /\ Len(db') = Cardinality(kept)
    BY ONLY <1>1, <1>3, SelectedLen
  <2>2. \A n \in 1 .. Cardinality(kept) : db'[n] = t.db[Nth(kept, n)] /\ Nth(kept, n) \in kept
    <3> TAKE n \in 1 .. Cardinality(kept)
    <3>. QED
      BY ONLY <1>1, <1>3, n \in 1 .. Cardinality(kept), SelectedAt
  <2>3. \A i \in kept : NumBelow(kept, i) + 1 \in 1 .. Cardinality(kept) /\ db'[NumBelow(kept, i) + 1] = t.db[i]
    <3> TAKE i \in kept
    <3>. QED
      BY ONLY <1>1, <1>3, i \in kept, SelectedOf
  <2>. QED
    BY ONLY <2>1, <2>2, <2>3
<1>5. \A i \in 1 .. Len(db) + 1 : pos[i] = NumBelow(kept, i) + 1 /\ NewPos(t.db, i) = pos[i]
  BY DEF NewPos
<1>6. \A i \in kept : t.db[i] \in Clause /\ t.db[i].live
  <2> TAKE i \in kept
  <2>1. t.db[i].live /\ i \in 1 .. Len(t.db)
    BY DEF LiveSlots
  <2>. QED
    BY <1>2, <2>1, SlotCases
<1>7. SlotsOK(db') /\ \A n \in 1 .. Len(db') : db'[n].live
  <2>1. \A i \in kept : t.db[i] \in {Dead} \cup Clause
    BY <1>6
  <2>2. db' \in Seq({Dead} \cup Clause)
    BY ONLY <1>1, <1>3, <2>1, SelectedSeq
  <2>. QED
    BY <1>4, <1>6, <2>2 DEF SlotsOK
<1>8. LiveSlots(db') = 1 .. Len(db')
  BY <1>7 DEF LiveSlots
<1>9. /\ \A i \in 1 .. Len(db) + 1 : pos[i] \in 1 .. Len(db') + 1
      /\ \A i \in kept : pos[i] \in 1 .. Len(db') /\ db'[pos[i]] = t.db[i]
  <2>1. \A i \in 1 .. Len(db) + 1 : NumBelow(kept, i) \in 0 .. Cardinality(kept)
    BY <1>3, BelowType
  <2>. QED
    BY <1>2, <1>4, <1>5, <2>1
<1>10. \A i, k \in 1 .. Len(db) + 1 : i <= k => pos[i] <= pos[k]
  <2> TAKE i, k \in 1 .. Len(db) + 1
  <2>1. i <= k => NumBelow(kept, i) <= NumBelow(kept, k)
    BY <1>3, BelowMonotone
  <2>2. NumBelow(kept, i) \in Nat /\ NumBelow(kept, k) \in Nat
    BY <1>3, BelowType, <1>4
  <2>. QED
    BY <1>5, <2>1, <2>2
<1>11. \A i \in kept, k \in 1 .. Len(db) + 1 : i < k => pos[i] < pos[k]
  <2> TAKE i \in kept, k \in 1 .. Len(db) + 1
  <2>1. i < k => NumBelow(kept, i) < NumBelow(kept, k)
    BY <1>3, BelowStrict
  <2>2. NumBelow(kept, i) \in Nat /\ NumBelow(kept, k) \in Nat
    BY <1>3, BelowType, <1>4
  <2>3. i \in 1 .. Len(db) + 1
    BY <1>2
  <2>. QED
    BY <1>5, <2>1, <2>2, <2>3
<1>12. \A n \in 1 .. Len(db') : \E i \in kept : n = pos[i]
  <2> TAKE n \in 1 .. Len(db')
  <2>1. Nth(kept, n) \in kept /\ NumBelow(kept, Nth(kept, n)) = n - 1
    BY <1>3, <1>4, NthIs
  <2>2. Nth(kept, n) \in 1 .. Len(db) + 1 /\ pos[Nth(kept, n)] = NumBelow(kept, Nth(kept, n)) + 1
    BY <1>2, <1>5, <2>1
  <2>. QED
    BY <2>1, <2>2
<1>13. Moves(pos, kept, {})
  <2>1. kept \subseteq LiveSlots(db) /\ {} \subseteq LiveSlots(db')
    OBVIOUS
  <2>2. \A i \in kept : pos[i] \in LiveSlots(db') /\ pos[i] \notin {} /\ db'[pos[i]] = db[i]
    BY <1>8, <1>9
  <2>3. \A n \in LiveSlots(db') : n \in {} \/ \E i \in kept : n = pos[i]
    BY ONLY <1>8, <1>12
  <2>. QED
    BY ONLY <1>9, <1>10, <1>11, <2>1, <2>2, <2>3 DEF Moves
<1>14. frames' = [n \in 1 .. Len(frames) |-> [frames[n] EXCEPT !.idx = pos[@]]]
  <2>1. \A n \in 1 .. Len(frames) : frames[n].idx \in 1 .. Len(db) + 1
    <3> TAKE n \in 1 .. Len(frames)
    <3>1. frames[n] \in [goal : Goals, idx : 1 .. Len(db) + 1]
      BY ElementOfSeq DEF FramesIn
    <3>. QED
      BY ONLY <3>1
  <2>. QED
    BY <1>1, <1>5, <2>1
<1>15. Follows(pos) /\ FramesIn(db)'
  BY ONLY <1>9, <1>14, FollowsIn, FramesIn(db), SlotsOK(db)
<1>16. Indexes(bucket', db')
  <2>1. ASSUME NEW p \in Preds
        PROVE  /\ bucket'[p] \in Seq(1 .. Len(db')) /\ Ascending(bucket'[p])
               /\ \A n \in 1 .. Len(db') : (db'[n].live /\ db'[n].pred = p) <=> Holds(bucket'[p], n)
    <3>1. t.bucket[p] \in Seq(1 .. Len(db)) /\ Ascending(t.bucket[p])
          /\ \A i \in 1 .. Len(db) : (t.db[i].live /\ t.db[i].pred = p) <=> Holds(t.bucket[p], i)
      BY <1>2 DEF Indexes
    <3>2. Len(t.bucket[p]) \in Nat /\ \A j \in 1 .. Len(t.bucket[p]) :
            t.bucket[p][j] \in kept /\ t.bucket[p][j] \in 1 .. Len(db) + 1
      <4>1. Len(t.bucket[p]) \in Nat
        BY <3>1, LenProperties
      <4>2. ASSUME NEW j \in 1 .. Len(t.bucket[p])
            PROVE  t.bucket[p][j] \in kept /\ t.bucket[p][j] \in 1 .. Len(db) + 1
        <5>1. t.bucket[p][j] \in 1 .. Len(db)
          BY <3>1, ElementOfSeq
        <5>2. Holds(t.bucket[p], t.bucket[p][j])
          BY DEF Holds
        <5>3. t.db[t.bucket[p][j]].live
          BY <3>1, <5>1, <5>2
        <5>4. t.bucket[p][j] \in LiveSlots(t.db)
          BY <5>1, <5>3 DEF LiveSlots
        <5>. QED
          BY <1>2, <5>1, <5>4
      <4>. QED
        BY <4>1, <4>2
    <3>3. Len(bucket'[p]) = Len(t.bucket[p]) /\ bucket'[p] = [j \in 1 .. Len(t.bucket[p]) |-> pos[t.bucket[p][j]]]
      BY <1>1, <1>5, <3>2
    <3>4. bucket'[p] \in Seq(1 .. Len(db'))
      BY ONLY <1>9, <3>2, <3>3
    <3>5. Ascending(bucket'[p])
      <4>1. \A i, j \in 1 .. Len(t.bucket[p]) : i < j => pos[t.bucket[p][i]] < pos[t.bucket[p][j]]
        <5> TAKE i, j \in 1 .. Len(t.bucket[p])
        <5>1. i < j => t.bucket[p][i] < t.bucket[p][j]
          BY <3>1 DEF Ascending
        <5>. QED
          BY ONLY <1>11, <3>2, <5>1, i \in 1 .. Len(t.bucket[p]), j \in 1 .. Len(t.bucket[p])
      <4>. QED
        BY ONLY <3>2, <3>3, <4>1 DEF Ascending
    <3>6. ASSUME NEW n \in 1 .. Len(db')
          PROVE  (db'[n].live /\ db'[n].pred = p) <=> Holds(bucket'[p], n)
      <4>1. PICK i \in kept : n = pos[i]
        BY <1>12
      <4>2. db'[n].live /\ db'[n].pred = t.db[i].pred /\ t.db[i].live /\ i \in 1 .. Len(db)
        BY <1>2, <1>6, <1>9, <4>1
      <4>3. t.db[i].pred = p => Holds(bucket'[p], n)
        <5> SUFFICES ASSUME t.db[i].pred = p
                     PROVE  Holds(bucket'[p], n)
          OBVIOUS
        <5>1. PICK j \in 1 .. Len(t.bucket[p]) : t.bucket[p][j] = i
          BY <3>1, <4>2 DEF Holds
        <5>2. j \in 1 .. Len(bucket'[p]) /\ bucket'[p][j] = n
          BY ONLY <3>2, <3>3, <4>1, <5>1
        <5>. QED
          BY <5>2 DEF Holds
      <4>4. ASSUME NEW j \in 1 .. Len(bucket'[p]), bucket'[p][j] = n
            PROVE  t.db[i].pred = p
        <5>1. /\ j \in 1 .. Len(t.bucket[p]) /\ pos[t.bucket[p][j]] = pos[i]
              /\ t.bucket[p][j] \in kept
          BY <3>2, <3>3, <4>1, <4>4
        <5>2. \A k, m \in kept : pos[k] = pos[m] => k = m
          <6> TAKE k, m \in kept
          <6>1. k \in 1 .. Len(db) + 1 /\ m \in 1 .. Len(db) + 1
            BY <1>2
          <6>2. pos[k] \in Int /\ pos[m] \in Int
            BY <1>9, <6>1
          <6>3. k < m => pos[k] < pos[m]
            BY ONLY <1>11, <6>1, k \in kept
          <6>4. m < k => pos[m] < pos[k]
            BY ONLY <1>11, <6>1, m \in kept
          <6>. QED
            BY ONLY <6>1, <6>2, <6>3, <6>4
        <5>3. t.bucket[p][j] = i
          BY <5>1, <5>2
        <5>. QED
          BY <3>1, <4>2, <5>1, <5>3 DEF Holds
      <4>. QED
        BY <4>2, <4>3, <4>4 DEF Holds
    <3>. QED
      BY <3>4, <3>5, <3>6
  <2>2. bucket' = [p \in Preds |-> bucket'[p]]
    BY <1>1
  <2>. QED
    BY ONLY <2>1, <2>2 DEF Indexes
<1>17. Counts(dead', db')
  <2>1. Cardinality(1 .. Len(db')) = Len(db')
    BY <1>4, FS_Interval
  <2>. QED
    BY <1>1, <1>4, <1>8, <2>1 DEF Counts
<1>18. Distinct(db')
  <2> SUFFICES ASSUME NEW m \in 1 .. Len(db'), NEW n \in 1 .. Len(db'), db'[m].id = db'[n].id
               PROVE  m = n
    BY <1>8 DEF Distinct
  <2>1. PICK i \in kept, k \in kept : m = pos[i] /\ n = pos[k]
    BY <1>12
  <2>2. t.db[i].id = t.db[k].id
    BY <1>9, <2>1
  <2>. QED
    BY <1>2, <2>1, <2>2 DEF Distinct
<1>. QED
  BY <1>1, <1>7, <1>13, <1>15, <1>16, <1>17, <1>18 DEF Tables

\* A step that moves nothing.
LEMMA FramesStay ==
  ASSUME FramesIn(db), SlotsOK(db), SlotsOK(db'), Len(db) <= Len(db'), frames' = frames,
         NEW pos, pos = [i \in 1 .. Len(db) + 1 |-> i]
  PROVE  Follows(pos) /\ FramesIn(db)'
<1>1. Len(frames) \in Nat /\ \A n \in 1 .. Len(frames) : frames[n] \in [goal : Goals, idx : 1 .. Len(db) + 1]
  BY ElementOfSeq, LenProperties DEF FramesIn
<1>2. \A n \in 1 .. Len(frames) : frames[n] = [goal |-> frames[n].goal, idx |-> pos[frames[n].idx]]
  <2> TAKE n \in 1 .. Len(frames)
  <2>1. frames[n] \in [goal : Goals, idx : 1 .. Len(db) + 1]
    BY <1>1
  <2>2. frames[n] = [goal |-> frames[n].goal, idx |-> frames[n].idx] /\ frames[n].idx \in 1 .. Len(db) + 1
    BY ONLY <2>1
  <2>3. pos[frames[n].idx] = frames[n].idx
    BY <2>2
  <2>. QED
    BY ONLY <2>2, <2>3
<1>3. frames = [n \in 1 .. Len(frames) |-> frames[n]]
  BY DEF FramesIn
<1>4. frames' = [n \in 1 .. Len(frames) |-> [goal |-> frames[n].goal, idx |-> pos[frames[n].idx]]]
  BY ONLY <1>2, <1>3, frames' = frames
<1>5. 1 .. Len(db) + 1 \subseteq 1 .. Len(db') + 1
  BY SlotCases
<1>6. FramesIn(db)'
  <2>1. [goal : Goals, idx : 1 .. Len(db) + 1] \subseteq [goal : Goals, idx : 1 .. Len(db') + 1]
    BY ONLY <1>5
  <2>2. frames \in Seq([goal : Goals, idx : 1 .. Len(db') + 1])
    BY <2>1, SeqSubset DEF FramesIn
  <2>. QED
    BY <2>2 DEF FramesIn
<1>. QED
  BY <1>4, <1>6 DEF Follows

LEMMA RemoveIs ==
  ASSUME Tables(db, bucket, dead), FramesIn(db), NEW gone \in SUBSET LiveSlots(db), Remove(gone)
  PROVE  /\ Tables(db, bucket, dead)' /\ FramesIn(db)'
         /\ dead' < CompactMin \/ 2 * dead' <= Len(db')
         /\ \E pos : Moves(pos, LiveSlots(db) \ gone, {}) /\ Follows(pos)
<1> DEFINE kept == LiveSlots(db) \ gone
<1>1. PICK t : t = Kill(gone)
  OBVIOUS
<1>2. /\ Tables(t.db, t.bucket, t.dead) /\ Len(t.db) = Len(db)
      /\ kept = LiveSlots(t.db) /\ \A i \in kept : t.db[i] = db[i]
  BY <1>1, KillIs
<1>3. /\ SlotsOK(db) /\ SlotsOK(t.db) /\ Len(db) \in Nat
      /\ t.dead = Len(db) - Cardinality(kept) /\ Cardinality(kept) \in 0 .. Len(db)
  <2>1. SlotsOK(db) /\ SlotsOK(t.db) /\ Counts(t.dead, t.db)
    BY <1>2 DEF Tables
  <2>. QED
    BY <1>2, <2>1, SlotCases, LiveFinite DEF Counts
<1>4. MaybeCompact(t)
  BY <1>1 DEF Remove
<1>5. CASE t.dead >= CompactMin /\ t.dead > Len(t.db) - t.dead
  <2>1. Compact(t)
    BY <1>4, <1>5 DEF MaybeCompact
  <2>2. PICK pos : pos = [i \in 1 .. Len(db) + 1 |-> NewPos(t.db, i)]
    OBVIOUS
  <2>3. /\ Tables(db, bucket, dead)' /\ dead' = 0
        /\ Moves(pos, kept, {}) /\ Follows(pos) /\ FramesIn(db)'
    <3> HIDE DEF kept
    <3>1. kept \subseteq LiveSlots(db)
      BY DEF kept
    <3>. QED
      BY ONLY <1>2, <1>3, <2>1, <2>2, <3>1, FramesIn(db), CompactIs
  <2>. QED
    BY <2>3, ConstantsAssumption
<1>6. CASE ~(t.dead >= CompactMin /\ t.dead > Len(t.db) - t.dead)
  <2>1. db' = t.db /\ bucket' = t.bucket /\ dead' = t.dead /\ frames' = frames
    BY <1>4, <1>6 DEF MaybeCompact
  <2>2. PICK pos : pos = [i \in 1 .. Len(db) + 1 |-> i]
    OBVIOUS
  <2>3. Tables(db, bucket, dead)'
    BY <1>2, <2>1
  <2>4. Follows(pos) /\ FramesIn(db)'
    BY <1>2, <1>3, <2>1, <2>2, FramesStay
  <2>5. dead' < CompactMin \/ 2 * dead' <= Len(db')
    BY <1>2, <1>3, <1>6, <2>1, ConstantsAssumption
  <2>6. Moves(pos, kept, {})
    <3>1. kept \subseteq 1 .. Len(db)
      BY DEF LiveSlots
    <3>2. LiveSlots(db') = kept /\ Len(db') = Len(db) /\ \A i \in kept : db'[i] = db[i]
      BY <1>2, <2>1
    <3>3. \A i \in 1 .. Len(db) + 1 : pos[i] = i
      BY <2>2
    <3>4. \A i \in kept : pos[i] = i
      BY <1>3, <3>1, <3>3
    <3>5. \A i \in kept, k \in 1 .. Len(db) + 1 : i < k => pos[i] < pos[k]
      BY <3>3, <3>4
    <3>. QED
      BY <3>2, <3>3, <3>4, <3>5 DEF Moves
  <2>. QED
    BY <2>3, <2>4, <2>5, <2>6
<1>. QED
  BY <1>5, <1>6

LEMMA NewSlot ==
  ASSUME NEW id \in UnusedIds, NEW p \in Preds, NEW k \in Keys, NEW file \in Files \cup {NoFile}
  PROVE  /\ Slot(id, p, k, file) \in Clause /\ Slot(id, p, k, file).live
         /\ Slot(id, p, k, file).pred = p /\ Slot(id, p, k, file).source = file
         /\ \A i \in LiveSlots(db) : db[i].id # Slot(id, p, k, file).id
BY DEF Slot, Clause, UnusedIds

LEMMA DbAddIs ==
  ASSUME Tables(db, bucket, dead), FramesIn(db),
         NEW p \in Preds, NEW k \in Keys, NEW file \in Files \cup {NoFile}, DbAdd(p, k, file)
  PROVE  /\ Tables(db, bucket, dead)' /\ FramesIn(db)'
         /\ Len(db') = Len(db) + 1 /\ dead' = dead
         /\ db'[Len(db) + 1].pred = p /\ Holds(bucket'[p], Len(db) + 1)
         /\ \A q \in Preds \ {p} : bucket'[q] = bucket[q]
         /\ \E pos : /\ Moves(pos, LiveSlots(db), {Len(db) + 1}) /\ Follows(pos)
                     /\ \A i \in 1 .. Len(db) + 1 : pos[i] = i
<1>1. PICK id \in UnusedIds :
        /\ db' = Append(db, Slot(id, p, k, file))
        /\ bucket' = [bucket EXCEPT ![p] = Append(@, Len(db) + 1)]
        /\ dead' = dead /\ frames' = frames
  BY DEF DbAdd
<1>2. PICK c : c = Slot(id, p, k, file)
  OBVIOUS
<1>3. c \in Clause /\ c.live /\ c.pred = p /\ \A i \in LiveSlots(db) : db[i].id # c.id
  BY <1>2, NewSlot
<1>4. /\ SlotsOK(db) /\ Indexes(bucket, db) /\ Counts(dead, db) /\ Distinct(db)
      /\ Len(db) \in Nat
  BY SlotCases DEF Tables
<1>5. /\ SlotsOK(db') /\ Len(db') = Len(db) + 1 /\ db'[Len(db) + 1] = c
      /\ \A i \in 1 .. Len(db) : db'[i] = db[i]
  <2>1. db \in Seq({Dead} \cup Clause) /\ c \in {Dead} \cup Clause /\ db' = Append(db, c)
    BY <1>1, <1>2, <1>3, <1>4 DEF SlotsOK
  <2>. QED
    BY ONLY <2>1, AppendProperties DEF SlotsOK
<1>6. LiveSlots(db') = LiveSlots(db) \cup {Len(db) + 1}
  <2>1. \A i : i \in 1 .. Len(db') <=> i \in 1 .. Len(db) \/ i = Len(db) + 1
    BY <1>4, <1>5
  <2>. QED
    BY ONLY <1>3, <1>5, <2>1 DEF LiveSlots
<1>7. /\ bucket'[p] = Append(bucket[p], Len(db) + 1)
      /\ \A q \in Preds \ {p} : bucket'[q] = bucket[q]
  BY <1>1, <1>4 DEF Indexes
<1>8. Indexes(bucket', db')
  <2>1. ASSUME NEW q \in Preds
        PROVE  /\ bucket'[q] \in Seq(1 .. Len(db')) /\ Ascending(bucket'[q])
               /\ \A i \in 1 .. Len(db') : (db'[i].live /\ db'[i].pred = q) <=> Holds(bucket'[q], i)
    <3>1. bucket[q] \in Seq(1 .. Len(db)) /\ Ascending(bucket[q])
          /\ \A i \in 1 .. Len(db) : (db[i].live /\ db[i].pred = q) <=> Holds(bucket[q], i)
      BY <1>4 DEF Indexes
    <3>2. Len(bucket[q]) \in Nat /\ \A j \in 1 .. Len(bucket[q]) : bucket[q][j] \in 1 .. Len(db)
      BY <3>1, ElementOfSeq, LenProperties
    <3>3. 1 .. Len(db) \subseteq 1 .. Len(db') /\ Len(db) + 1 \in 1 .. Len(db')
      BY <1>4, <1>5
    <3>4. bucket[q] \in Seq(1 .. Len(db'))
      BY <3>1, <3>3, SeqSubset
    <3>5. ~Holds(bucket[q], Len(db) + 1)
      BY <1>4, <3>2 DEF Holds
    <3>6. CASE q # p
      <4>1. bucket'[q] = bucket[q]
        BY <1>7, <3>6
      <4>2. ASSUME NEW i \in 1 .. Len(db')
            PROVE  (db'[i].live /\ db'[i].pred = q) <=> Holds(bucket'[q], i)
        <5>1. i \in 1 .. Len(db) \/ i = Len(db) + 1
          BY <1>4, <1>5
        <5>. QED
          BY <1>3, <1>5, <3>1, <3>5, <3>6, <4>1, <5>1
      <4>. QED
        BY <3>1, <3>4, <4>1, <4>2
    <3>7. CASE q = p
      <4>1. /\ bucket'[q] \in Seq(1 .. Len(db')) /\ Len(bucket'[q]) = Len(bucket[q]) + 1
            /\ bucket'[q][Len(bucket[q]) + 1] = Len(db) + 1
            /\ \A j \in 1 .. Len(bucket[q]) : bucket'[q][j] = bucket[q][j]
        <5>1. bucket'[q] = Append(bucket[q], Len(db) + 1)
          BY <1>7, <3>7
        <5>. QED
          BY ONLY <3>3, <3>4, <5>1, AppendProperties
      <4>2. Ascending(bucket'[q])
        <5> SUFFICES ASSUME NEW i \in 1 .. Len(bucket'[q]), NEW j \in 1 .. Len(bucket'[q]), i < j
                     PROVE  bucket'[q][i] < bucket'[q][j]
          BY DEF Ascending
        <5>1. i \in 1 .. Len(bucket[q])
          BY <3>2, <4>1
        <5>2. CASE j = Len(bucket[q]) + 1
          <6>1. bucket'[q][i] = bucket[q][i] /\ bucket[q][i] \in 1 .. Len(db) /\ bucket'[q][j] = Len(db) + 1
            BY ONLY <3>2, <4>1, <5>1, <5>2
          <6>. QED
            BY ONLY <1>4, <6>1
        <5>3. CASE j \in 1 .. Len(bucket[q])
          <6>1. bucket[q][i] < bucket[q][j]
            BY ONLY <3>1, <5>1, <5>3, i < j DEF Ascending
          <6>2. bucket'[q][i] = bucket[q][i] /\ bucket'[q][j] = bucket[q][j]
            BY ONLY <4>1, <5>1, <5>3
          <6>. QED
            BY ONLY <6>1, <6>2
        <5>4. j \in 1 .. Len(bucket[q]) \/ j = Len(bucket[q]) + 1
          BY ONLY <3>2, <4>1, j \in 1 .. Len(bucket'[q])
        <5>. QED
          BY ONLY <5>2, <5>3, <5>4
      <4>3. ASSUME NEW i
            PROVE  Holds(bucket'[q], i) <=> Holds(bucket[q], i) \/ i = Len(db) + 1
        <5>1. \A j : j \in 1 .. Len(bucket'[q]) <=> j \in 1 .. Len(bucket[q]) \/ j = Len(bucket[q]) + 1
          BY <3>2, <4>1
        <5>. QED
          BY ONLY <4>1, <5>1 DEF Holds
      <4>4. ASSUME NEW i \in 1 .. Len(db')
            PROVE  (db'[i].live /\ db'[i].pred = q) <=> Holds(bucket'[q], i)
        <5>1. i \in 1 .. Len(db) \/ i = Len(db) + 1
          BY <1>4, <1>5
        <5>2. CASE i = Len(db) + 1
          BY <1>3, <1>5, <3>7, <4>3, <5>2
        <5>3. CASE i \in 1 .. Len(db)
          <6>1. i # Len(db) + 1
            BY <1>4, <5>3
          <6>. QED
            BY <1>5, <3>1, <4>3, <5>3, <6>1
        <5>. QED
          BY <5>1, <5>2, <5>3
      <4>. QED
        BY <4>1, <4>2, <4>4
    <3>. QED
      BY <3>6, <3>7
  <2>2. bucket' = [q \in Preds |-> bucket'[q]]
    BY <1>1, <1>4 DEF Indexes
  <2>. QED
    BY ONLY <2>1, <2>2 DEF Indexes
<1>9. Counts(dead', db')
  <2>1. IsFiniteSet(LiveSlots(db)) /\ Cardinality(LiveSlots(db)) \in 0 .. Len(db) /\ LiveSlots(db) \subseteq 1 .. Len(db)
    BY <1>4, LiveFinite
  <2>2. Len(db) + 1 \notin LiveSlots(db)
    BY <1>4, <2>1
  <2>3. Cardinality(LiveSlots(db')) = Cardinality(LiveSlots(db)) + 1
    BY <1>6, <2>1, <2>2, FS_AddElement
  <2>4. dead = Len(db) - Cardinality(LiveSlots(db))
    BY <1>4 DEF Counts
  <2>5. dead' = Len(db') - Cardinality(LiveSlots(db'))
    BY ONLY <1>1, <1>4, <1>5, <2>1, <2>3, <2>4
  <2>. QED
    BY ONLY <2>5 DEF Counts
<1>10. \A i \in LiveSlots(db) : i \in 1 .. Len(db) /\ i # Len(db) + 1 /\ db'[i] = db[i]
  BY <1>4, <1>5 DEF LiveSlots
<1>11. Distinct(db')
  BY ONLY <1>3, <1>4, <1>5, <1>6, <1>10 DEF Distinct
<1>12. PICK pos : pos = [i \in 1 .. Len(db) + 1 |-> i]
  OBVIOUS
<1>13. Follows(pos) /\ FramesIn(db)'
  BY <1>1, <1>4, <1>5, <1>12, FramesStay
<1>14. Moves(pos, LiveSlots(db), {Len(db) + 1})
  <2>1. \A i \in 1 .. Len(db) + 1 : pos[i] = i
    BY <1>12
  <2>2. \A i \in LiveSlots(db) : pos[i] = i /\ i \in 1 .. Len(db) + 1
    BY <1>4, <1>10, <2>1
  <2>3. \A i \in LiveSlots(db), m \in 1 .. Len(db) + 1 : i < m => pos[i] < pos[m]
    BY <2>1, <2>2
  <2>4. \A i \in LiveSlots(db) : pos[i] \in LiveSlots(db') /\ pos[i] \notin {Len(db) + 1} /\ db'[pos[i]] = db[i]
    BY ONLY <1>6, <1>10, <2>2
  <2>5. \A n \in LiveSlots(db') : n \in {Len(db) + 1} \/ \E i \in LiveSlots(db) : n = pos[i]
    BY ONLY <1>6, <2>2
  <2>6. \A i \in 1 .. Len(db) + 1 : pos[i] \in 1 .. Len(db') + 1
    BY <1>4, <1>5, <2>1
  <2>7. \A i, m \in 1 .. Len(db) + 1 : i <= m => pos[i] <= pos[m]
    BY <2>1
  <2>8. {Len(db) + 1} \subseteq LiveSlots(db')
    BY <1>6
  <2>. QED
    BY ONLY <2>3, <2>4, <2>5, <2>6, <2>7, <2>8 DEF Moves
<1>15. Holds(bucket'[p], Len(db) + 1)
  BY <1>3, <1>4, <1>5, <1>8 DEF Indexes
<1>16. \A i \in 1 .. Len(db) + 1 : pos[i] = i
  BY <1>4, <1>12
<1>. QED
  BY <1>1, <1>3, <1>5, <1>7, <1>8, <1>9, <1>11, <1>13, <1>14, <1>15, <1>16 DEF Tables

LEMMA DbAddFrontIs ==
  ASSUME Tables(db, bucket, dead), FramesIn(db),
         NEW p \in Preds, NEW k \in Keys, DbAddFront(p, k)
  PROVE  /\ Tables(db, bucket, dead)' /\ FramesIn(db)'
         /\ Len(db') = Len(db) + 1 /\ dead' = dead
         /\ db'[1].pred = p /\ Holds(bucket'[p], 1)
         /\ \A q \in Preds \ {p} : bucket'[q] = <<>> <=> bucket[q] = <<>>
         /\ \E pos : /\ Moves(pos, LiveSlots(db), {1}) /\ Follows(pos)
                     /\ \A i \in 1 .. Len(db) + 1 : pos[i] = i + 1
<1> DEFINE Shifted(b) == [j \in 1 .. Len(b) |-> b[j] + 1]
<1>1. PICK id \in UnusedIds :
        /\ db' = <<Slot(id, p, k, NoFile)>> \o db
        /\ bucket' = [q \in Preds |-> IF q = p THEN <<1>> \o Shifted(bucket[q]) ELSE Shifted(bucket[q])]
        /\ frames' = [n \in 1 .. Len(frames) |-> [frames[n] EXCEPT !.idx = @ + 1]]
        /\ dead' = dead
  BY DEF DbAddFront
<1>2. PICK c : c = Slot(id, p, k, NoFile)
  OBVIOUS
<1>3. c \in Clause /\ c.live /\ c.pred = p /\ \A i \in LiveSlots(db) : db[i].id # c.id
  BY <1>2, NewSlot
<1>4. /\ SlotsOK(db) /\ Indexes(bucket, db) /\ Counts(dead, db) /\ Distinct(db)
      /\ Len(db) \in Nat
  BY SlotCases DEF Tables
<1>5. /\ SlotsOK(db') /\ Len(db') = Len(db) + 1 /\ db'[1] = c
      /\ \A i \in 1 .. Len(db) : db'[i + 1] = db[i]
  <2>1. db \in Seq({Dead} \cup Clause) /\ c \in {Dead} \cup Clause /\ db' = <<c>> \o db
    BY <1>1, <1>2, <1>3, <1>4 DEF SlotsOK
  <2>. QED
    BY ONLY <2>1, FrontIs DEF SlotsOK
<1>6. \A n : n \in 1 .. Len(db') <=> n = 1 \/ \E i \in 1 .. Len(db) : n = i + 1
  <2> TAKE n
  <2>1. ASSUME n \in 1 .. Len(db'), n # 1
        PROVE  n - 1 \in 1 .. Len(db) /\ n = n - 1 + 1
    BY <1>4, <1>5, <2>1
  <2>2. ASSUME NEW i \in 1 .. Len(db)
        PROVE  i + 1 \in 1 .. Len(db')
    BY <1>4, <1>5, <2>2
  <2>3. 1 \in 1 .. Len(db')
    BY <1>4, <1>5
  <2>. QED
    BY <2>1, <2>2, <2>3
<1>7. /\ \A i \in LiveSlots(db) : i + 1 \in LiveSlots(db') /\ i \in 1 .. Len(db) /\ i + 1 # 1 /\ db'[i + 1] = db[i]
      /\ 1 \in LiveSlots(db')
      /\ \A n \in LiveSlots(db') : n = 1 \/ \E i \in LiveSlots(db) : n = i + 1
  <2>1. \A i \in LiveSlots(db) : i + 1 \in LiveSlots(db') /\ i \in 1 .. Len(db) /\ db'[i + 1] = db[i]
    BY <1>5, <1>6 DEF LiveSlots
  <2>2. \A i \in LiveSlots(db) : i + 1 # 1
    BY <1>4, <2>1
  <2>3. 1 \in LiveSlots(db')
    BY <1>3, <1>5, <1>6 DEF LiveSlots
  <2>4. ASSUME NEW n \in LiveSlots(db'), n # 1
        PROVE  \E i \in LiveSlots(db) : n = i + 1
    <3>1. PICK i \in 1 .. Len(db) : n = i + 1
      BY <1>6, <2>4 DEF LiveSlots
    <3>2. db[i].live
      BY <1>5, <3>1 DEF LiveSlots
    <3>. QED
      BY <3>1, <3>2 DEF LiveSlots
  <2>. QED
    BY <2>1, <2>2, <2>3, <2>4
<1>8. \A q \in Preds :
        /\ Shifted(bucket[q]) \in Seq(1 .. Len(db')) /\ Len(Shifted(bucket[q])) = Len(bucket[q])
        /\ \A j \in 1 .. Len(bucket[q]) : Shifted(bucket[q])[j] = bucket[q][j] + 1
        /\ Len(bucket[q]) \in Nat /\ \A j \in 1 .. Len(bucket[q]) : bucket[q][j] \in 1 .. Len(db)
        /\ bucket'[q] = IF q = p THEN <<1>> \o Shifted(bucket[q]) ELSE Shifted(bucket[q])
  <2> TAKE q \in Preds
  <2>1. bucket[q] \in Seq(1 .. Len(db))
    BY <1>4 DEF Indexes
  <2>2. Len(bucket[q]) \in Nat /\ \A j \in 1 .. Len(bucket[q]) : bucket[q][j] \in 1 .. Len(db)
    BY <2>1, ElementOfSeq, LenProperties
  <2>3. \A j \in 1 .. Len(bucket[q]) : bucket[q][j] + 1 \in 1 .. Len(db')
    BY <1>4, <1>5, <2>2
  <2>4. /\ Shifted(bucket[q]) \in Seq(1 .. Len(db')) /\ Len(Shifted(bucket[q])) = Len(bucket[q])
        /\ \A j \in 1 .. Len(bucket[q]) : Shifted(bucket[q])[j] = bucket[q][j] + 1
    BY ONLY <2>2, <2>3
  <2>5. bucket'[q] = IF q = p THEN <<1>> \o Shifted(bucket[q]) ELSE Shifted(bucket[q])
    BY <1>1
  <2>. QED
    BY <2>2, <2>4, <2>5
<1> HIDE DEF Shifted
<1>9. Indexes(bucket', db')
  <2>1. ASSUME NEW q \in Preds
        PROVE  /\ bucket'[q] \in Seq(1 .. Len(db')) /\ Ascending(bucket'[q])
               /\ \A n \in 1 .. Len(db') : (db'[n].live /\ db'[n].pred = q) <=> Holds(bucket'[q], n)
    <3>1. bucket[q] \in Seq(1 .. Len(db)) /\ Ascending(bucket[q])
          /\ \A i \in 1 .. Len(db) : (db[i].live /\ db[i].pred = q) <=> Holds(bucket[q], i)
      BY <1>4 DEF Indexes
    <3>2. PICK s : s = Shifted(bucket[q])
      OBVIOUS
    <3>3. /\ s \in Seq(1 .. Len(db')) /\ Len(s) = Len(bucket[q]) /\ Len(bucket[q]) \in Nat
          /\ \A j \in 1 .. Len(bucket[q]) : s[j] = bucket[q][j] + 1 /\ bucket[q][j] \in 1 .. Len(db)
      BY ONLY <1>8, <3>2, q \in Preds
    <3>4. Ascending(s)
      <4>1. \A i, j \in 1 .. Len(bucket[q]) : i < j => bucket[q][i] < bucket[q][j]
        BY <3>1 DEF Ascending
      <4>2. \A i, j \in 1 .. Len(bucket[q]) : i < j => s[i] < s[j]
        <5> TAKE i, j \in 1 .. Len(bucket[q])
        <5>1. s[i] = bucket[q][i] + 1 /\ s[j] = bucket[q][j] + 1 /\ bucket[q][i] \in Int /\ bucket[q][j] \in Int
          BY <3>3
        <5>2. i < j => bucket[q][i] < bucket[q][j]
          BY <4>1
        <5>. QED
          BY ONLY <5>1, <5>2
      <4>. QED
        BY ONLY <3>3, <4>2 DEF Ascending
    <3>5. \A i \in 1 .. Len(db) : Holds(s, i + 1) <=> Holds(bucket[q], i)
      <4> TAKE i \in 1 .. Len(db)
      <4>1. \A j \in 1 .. Len(bucket[q]) : s[j] = i + 1 <=> bucket[q][j] = i
        <5> TAKE j \in 1 .. Len(bucket[q])
        <5>1. s[j] = bucket[q][j] + 1 /\ bucket[q][j] \in Int /\ i \in Int
          BY <3>3
        <5>. QED
          BY ONLY <5>1
      <4>. QED
        BY ONLY <3>3, <4>1 DEF Holds
    <3>6. ~Holds(s, 1) /\ \A j \in 1 .. Len(s) : 1 < s[j]
      <4>1. \A j \in 1 .. Len(s) : 1 < s[j] /\ s[j] # 1
        BY ONLY <3>3
      <4>. QED
        BY ONLY <4>1 DEF Holds
    <3>7. CASE q # p
      <4>1. bucket'[q] = s
        BY <1>8, <3>2, <3>7
      <4>2. ASSUME NEW n \in 1 .. Len(db')
            PROVE  (db'[n].live /\ db'[n].pred = q) <=> Holds(s, n)
        <5>1. CASE n = 1
          BY <1>3, <1>5, <3>6, <3>7, <5>1
        <5>2. ASSUME NEW i \in 1 .. Len(db), n = i + 1
              PROVE  (db'[n].live /\ db'[n].pred = q) <=> Holds(s, n)
          <6>1. db'[n] = db[i]
            BY <1>5, <5>2
          <6>2. Holds(s, n) <=> Holds(bucket[q], i)
            BY <3>5, <5>2
          <6>3. (db[i].live /\ db[i].pred = q) <=> Holds(bucket[q], i)
            BY <3>1
          <6>. QED
            BY ONLY <6>1, <6>2, <6>3
        <5>. QED
          BY <1>6, <5>1, <5>2
      <4>. QED
        BY <3>3, <3>4, <4>1, <4>2
    <3>8. CASE q = p
      <4>1. 1 \in 1 .. Len(db')
        BY <1>6
      <4>2. /\ bucket'[q] \in Seq(1 .. Len(db')) /\ Len(bucket'[q]) = Len(s) + 1
            /\ bucket'[q][1] = 1 /\ \A j \in 1 .. Len(s) : bucket'[q][j + 1] = s[j]
        <5>1. bucket'[q] = <<1>> \o s
          BY <1>8, <3>2, <3>8
        <5>2. PICK T : T = 1 .. Len(db')
          OBVIOUS
        <5>3. s \in Seq(T) /\ 1 \in T
          BY <3>3, <4>1, <5>2
        <5>4. /\ <<1>> \o s \in Seq(T) /\ Len(<<1>> \o s) = Len(s) + 1
              /\ (<<1>> \o s)[1] = 1 /\ \A i \in 1 .. Len(s) : (<<1>> \o s)[i + 1] = s[i]
          BY ONLY <5>3, FrontIs
        <5>. QED
          BY ONLY <5>1, <5>2, <5>4
      <4>3. \A j \in 1 .. Len(bucket'[q]) : j # 1 => j - 1 \in 1 .. Len(s) /\ bucket'[q][j] = s[j - 1]
        <5> TAKE j \in 1 .. Len(bucket'[q])
        <5>1. j # 1 => j - 1 \in 1 .. Len(s) /\ j = j - 1 + 1
          BY <3>3, <4>2
        <5>. QED
          BY ONLY <4>2, <5>1
      <4>4. Ascending(bucket'[q])
        <5> SUFFICES ASSUME NEW i \in 1 .. Len(bucket'[q]), NEW j \in 1 .. Len(bucket'[q]), i < j
                     PROVE  bucket'[q][i] < bucket'[q][j]
          BY DEF Ascending
        <5>1. j - 1 \in 1 .. Len(s) /\ bucket'[q][j] = s[j - 1]
          BY <3>3, <4>2, <4>3
        <5>2. CASE i = 1
          BY <3>6, <4>2, <5>1, <5>2
        <5>3. CASE i # 1
          <6>1. i - 1 \in 1 .. Len(s) /\ bucket'[q][i] = s[i - 1]
            BY <4>3, <5>3
          <6>2. i - 1 < j - 1
            BY <3>3, <4>2
          <6>. QED
            BY ONLY <3>4, <5>1, <6>1, <6>2 DEF Ascending
        <5>. QED
          BY <5>2, <5>3
      <4>5. \A n : Holds(bucket'[q], n) <=> n = 1 \/ Holds(s, n)
        <5> TAKE n
        <5>1. ASSUME NEW j \in 1 .. Len(s), s[j] = n
              PROVE  Holds(bucket'[q], n)
          <6>1. j + 1 \in 1 .. Len(bucket'[q])
            BY <3>3, <4>2
          <6>. QED
            BY <4>2, <5>1, <6>1 DEF Holds
        <5>2. Holds(bucket'[q], 1)
          <6>1. 1 \in 1 .. Len(bucket'[q])
            BY <3>3, <4>2
          <6>. QED
            BY <4>2, <6>1 DEF Holds
        <5>3. ASSUME NEW j \in 1 .. Len(bucket'[q]), bucket'[q][j] = n, n # 1
              PROVE  Holds(s, n)
          BY <4>2, <4>3, <5>3 DEF Holds
        <5>. QED
          BY <5>1, <5>2, <5>3 DEF Holds
      <4>6. ASSUME NEW n \in 1 .. Len(db')
            PROVE  (db'[n].live /\ db'[n].pred = q) <=> Holds(bucket'[q], n)
        <5>1. CASE n = 1
          BY <1>3, <1>5, <3>8, <4>5, <5>1
        <5>2. ASSUME NEW i \in 1 .. Len(db), n = i + 1
              PROVE  (db'[n].live /\ db'[n].pred = q) <=> Holds(bucket'[q], n)
          <6>1. n # 1
            BY <5>2
          <6>2. db'[n] = db[i]
            BY <1>5, <5>2
          <6>3. Holds(bucket'[q], n) <=> Holds(s, n)
            BY <4>5, <6>1
          <6>4. Holds(s, n) <=> Holds(bucket[q], i)
            BY <3>5, <5>2
          <6>5. (db[i].live /\ db[i].pred = q) <=> Holds(bucket[q], i)
            BY <3>1
          <6>. QED
            BY ONLY <6>2, <6>3, <6>4, <6>5
        <5>. QED
          BY <1>6, <5>1, <5>2
      <4>. QED
        BY <4>2, <4>4, <4>6
    <3>. QED
      BY <3>7, <3>8
  <2>2. bucket' = [q \in Preds |-> bucket'[q]]
    BY <1>1
  <2>. QED
    BY ONLY <2>1, <2>2 DEF Indexes
<1>10. PICK pos : pos = [i \in 1 .. Len(db) + 1 |-> i + 1]
  OBVIOUS
<1>11. \A i \in 1 .. Len(db) + 1 : pos[i] = i + 1 /\ pos[i] \in 1 .. Len(db') + 1
  BY <1>4, <1>5, <1>10
<1>12. Follows(pos) /\ FramesIn(db)'
  <2>1. \A n \in 1 .. Len(frames) : frames[n].idx \in 1 .. Len(db) + 1
    <3> TAKE n \in 1 .. Len(frames)
    <3>1. frames[n] \in [goal : Goals, idx : 1 .. Len(db) + 1]
      BY ElementOfSeq DEF FramesIn
    <3>. QED
      BY ONLY <3>1
  <2>2. frames' = [n \in 1 .. Len(frames) |-> [frames[n] EXCEPT !.idx = pos[@]]]
    BY <1>1, <1>11, <2>1
  <2>. QED
    BY ONLY <1>4, <1>11, <2>2, FramesIn(db), FollowsIn
<1>13. Moves(pos, LiveSlots(db), {1})
  <2>1. \A i \in LiveSlots(db) : pos[i] = i + 1 /\ i \in 1 .. Len(db) + 1
    BY <1>4, <1>7, <1>11
  <2>2. \A i \in LiveSlots(db), m \in 1 .. Len(db) + 1 : i < m => pos[i] < pos[m]
    BY <1>11, <2>1
  <2>3. \A i \in LiveSlots(db) : pos[i] \in LiveSlots(db') /\ pos[i] \notin {1} /\ db'[pos[i]] = db[i]
    BY ONLY <1>7, <2>1
  <2>4. \A n \in LiveSlots(db') : n \in {1} \/ \E i \in LiveSlots(db) : n = pos[i]
    BY ONLY <1>7, <2>1
  <2>5. \A i, m \in 1 .. Len(db) + 1 : i <= m => pos[i] <= pos[m]
    BY <1>11
  <2>6. {1} \subseteq LiveSlots(db')
    BY <1>7
  <2>. QED
    BY ONLY <1>11, <2>2, <2>3, <2>4, <2>5, <2>6 DEF Moves
<1>14. Counts(dead', db')
  <2>1. IsFiniteSet(LiveSlots(db)) /\ Cardinality(LiveSlots(db)) \in 0 .. Len(db)
    BY <1>4, LiveFinite
  <2> DEFINE T == LiveSlots(db') \ {1}
             up == [i \in LiveSlots(db) |-> i + 1]
  <2>2. up \in Bijection(LiveSlots(db), T)
    <3>1. up \in [LiveSlots(db) -> T]
      BY <1>7
    <3>2. \A i, m \in LiveSlots(db) : up[i] = up[m] => i = m
      BY <1>7
    <3>3. \A n \in T : \E i \in LiveSlots(db) : up[i] = n
      BY <1>7
    <3>. QED
      BY <3>1, <3>2, <3>3 DEF Bijection, Injection, Surjection, IsInjective
  <2>3. IsFiniteSet(T) /\ Cardinality(T) = Cardinality(LiveSlots(db))
    BY <2>1, <2>2, FS_Bijection DEF ExistsBijection
  <2>4. LiveSlots(db') = T \cup {1} /\ 1 \notin T
    BY <1>7
  <2>5. Cardinality(LiveSlots(db')) = Cardinality(LiveSlots(db)) + 1
    BY <2>3, <2>4, FS_AddElement
  <2>6. dead = Len(db) - Cardinality(LiveSlots(db))
    BY <1>4 DEF Counts
  <2>7. dead' = Len(db') - Cardinality(LiveSlots(db'))
    BY ONLY <1>1, <1>4, <1>5, <2>1, <2>5, <2>6
  <2>. QED
    BY ONLY <2>7 DEF Counts
<1>15. Distinct(db')
  <2>1. \A i \in LiveSlots(db) : db'[i + 1].id # db'[1].id
    BY <1>3, <1>5, <1>7
  <2>2. \A i, m \in LiveSlots(db) : db'[i + 1].id = db'[m + 1].id => i + 1 = m + 1
    BY <1>4, <1>7 DEF Distinct
  <2>. QED
    BY ONLY <1>7, <2>1, <2>2 DEF Distinct
<1>16. db'[1].pred = p /\ Holds(bucket'[p], 1)
  BY <1>3, <1>5, <1>6, <1>9 DEF Indexes
<1>17. \A q \in Preds \ {p} : bucket'[q] = <<>> <=> bucket[q] = <<>>
  <2> TAKE q \in Preds \ {p}
  <2>1. bucket'[q] = Shifted(bucket[q]) /\ Len(bucket'[q]) = Len(bucket[q])
        /\ bucket'[q] \in Seq(1 .. Len(db')) /\ bucket[q] \in Seq(1 .. Len(db))
    BY <1>4, <1>8 DEF Indexes
  <2>. QED
    BY <2>1, EmptySeq
<1>. QED
  BY <1>1, <1>5, <1>9, <1>11, <1>12, <1>13, <1>14, <1>15, <1>16, <1>17 DEF Tables

(***************************************************************************)
(* The actions.                                                            *)
(***************************************************************************)
LEMMA InitHolds == Init => DbInv
<1> SUFFICES ASSUME Init
             PROVE  DbInv
  OBVIOUS
<1>1. PICK order \in [1 .. Cardinality(CorePreds) -> CorePreds], ids \in [1 .. Cardinality(CorePreds) -> Ids] :
        /\ \A i, j \in DOMAIN order : i # j => order[i] # order[j] /\ ids[i] # ids[j]
        /\ db = [i \in DOMAIN order |-> Slot(ids[i], order[i], AnyKey, NoFile)]
  BY DEF Init
<1>2. /\ bucket = [p \in Preds |-> IF p \in CorePreds
                                   THEN <<CHOOSE i \in 1 .. Len(db) : db[i].pred = p>> ELSE <<>>]
      /\ dead = 0 /\ dynamic = {} /\ consulted = CorePreds /\ frames = <<>> /\ loading = <<>>
  BY DEF Init
<1> DEFINE N == Cardinality(CorePreds)
<1>3. CorePreds \subseteq Preds /\ CorePreds # {} /\ IsFiniteSet(CorePreds) /\ N \in Nat /\ AnyKey \in Keys
  BY ConstantsAssumption, FS_CardinalityType
<1>4. 1 .. N # {} /\ IsFiniteSet(1 .. N) /\ Cardinality(1 .. N) = N
  <2>1. N # 0
    BY <1>3, FS_EmptySet
  <2> HIDE DEF N
  <2>2. 1 \in 1 .. N
    BY <1>3, <2>1
  <2>3. IsFiniteSet(1 .. N) /\ Cardinality(1 .. N) = IF 1 > N THEN 0 ELSE N - 1 + 1
    BY <1>3, FS_Interval
  <2>. QED
    BY <1>3, <2>2, <2>3
<1>5. DOMAIN order = 1 .. N /\ DOMAIN db = 1 .. N /\ Len(db) = N
  BY <1>1, <1>3
<1>6. \A i \in 1 .. N : /\ db[i] \in Clause /\ db[i].live /\ db[i].pred = order[i] /\ db[i].id = ids[i]
                        /\ db[i].source = NoFile /\ order[i] \in CorePreds /\ ids[i] \in Ids
  <2> TAKE i \in 1 .. N
  <2>1. db[i] = Slot(ids[i], order[i], AnyKey, NoFile) /\ order[i] \in CorePreds /\ ids[i] \in Ids
    BY <1>1, <1>5
  <2>2. order[i] \in Preds
    BY <1>3, <2>1
  <2>. QED
    BY ONLY <1>3, <2>1, <2>2 DEF Slot, Clause
<1>7. \A p \in CorePreds : \E i \in 1 .. N : order[i] = p
  <2>1. order \in Injection(1 .. N, CorePreds)
    BY <1>1, <1>5 DEF Injection, IsInjective
  <2>2. order \in Surjection(1 .. N, CorePreds)
    BY <1>3, <1>4, <2>1, FS_Injection
  <2>. QED
    BY <2>2 DEF Surjection
<1>8. SlotsOK(db)
  <2>1. \A i \in 1 .. N : db[i] \in {Dead} \cup Clause
    BY <1>6
  <2>2. db = [i \in 1 .. N |-> db[i]]
    BY <1>1, <1>5
  <2>. QED
    BY <1>3, <2>1, <2>2 DEF SlotsOK
<1>9. LiveSlots(db) = 1 .. N
  BY <1>5, <1>6 DEF LiveSlots
<1>10. \A p \in Preds :
         /\ p \in CorePreds => \E i \in 1 .. N : bucket[p] = <<i>> /\ db[i].pred = p
         /\ p \notin CorePreds => bucket[p] = <<>>
  <2> TAKE p \in Preds
  <2>1. ASSUME p \in CorePreds
        PROVE  \E i \in 1 .. N : bucket[p] = <<i>> /\ db[i].pred = p
    <3>1. \E i \in 1 .. Len(db) : db[i].pred = p
      BY <1>5, <1>6, <1>7, <2>1
    <3>2. bucket[p] = <<CHOOSE i \in 1 .. Len(db) : db[i].pred = p>>
      BY <1>2, <2>1
    <3>3. PICK i : i = CHOOSE k \in 1 .. Len(db) : db[k].pred = p
      OBVIOUS
    <3>4. i \in 1 .. Len(db) /\ db[i].pred = p
      BY <3>1, <3>3
    <3>. QED
      BY <1>5, <3>2, <3>3, <3>4
  <2>. QED
    BY <1>2, <2>1
<1>11. Indexes(bucket, db)
  <2>1. ASSUME NEW p \in Preds
        PROVE  /\ bucket[p] \in Seq(1 .. Len(db)) /\ Ascending(bucket[p])
               /\ \A i \in 1 .. Len(db) : (db[i].live /\ db[i].pred = p) <=> Holds(bucket[p], i)
    <3>1. CASE p \in CorePreds
      <4>1. PICK i \in 1 .. N : bucket[p] = <<i>> /\ db[i].pred = p
        BY <1>10, <3>1
      <4>2. bucket[p] \in Seq(1 .. N) /\ Len(bucket[p]) = 1 /\ bucket[p][1] = i
        BY <4>1
      <4>3. \A k \in 1 .. N : db[k].pred = p <=> k = i
        BY <1>1, <1>5, <1>6, <4>1
      <4>4. \A k : Holds(bucket[p], k) <=> k = i
        BY ONLY <4>2 DEF Holds
      <4>5. Ascending(bucket[p])
        BY ONLY <4>2 DEF Ascending
      <4>. QED
        BY <1>5, <1>6, <4>2, <4>3, <4>4, <4>5
    <3>2. CASE p \notin CorePreds
      <4>1. bucket[p] = <<>> /\ bucket[p] \in Seq(1 .. Len(db)) /\ Len(bucket[p]) = 0
        <5>1. bucket[p] = <<>>
          BY <1>10, <3>2
        <5>. QED
          BY ONLY <5>1, EmptySeq
      <4>2. ~\E k \in 1 .. N : db[k].pred = p
        BY <1>6, <3>2
      <4>3. \A k : ~Holds(bucket[p], k)
        BY ONLY <4>1 DEF Holds
      <4>4. Ascending(bucket[p])
        BY ONLY <4>1 DEF Ascending
      <4>. QED
        BY <1>5, <4>1, <4>2, <4>3, <4>4
    <3>. QED
      BY <3>1, <3>2
  <2>2. bucket = [p \in Preds |-> bucket[p]]
    BY <1>2
  <2>. QED
    BY ONLY <2>1, <2>2 DEF Indexes
<1>12. Counts(dead, db)
  BY <1>2, <1>3, <1>4, <1>5, <1>9 DEF Counts
<1>13. Distinct(db)
  BY <1>1, <1>5, <1>6, <1>9 DEF Distinct
<1>14. BehindCore
  <2>1. 1 \in 1 .. N /\ db[1].live /\ db[1].pred \in CorePreds /\ db[1].source = NoFile
    BY <1>3, <1>4, <1>6
  <2>2. \A p \in UserPreds : bucket[p] = <<>>
    BY <1>10 DEF UserPreds
  <2>3. \A p \in UserPreds, i \in 1 .. Len(db) : ~Holds(bucket[p], i)
    BY <2>2 DEF Holds
  <2>. QED
    BY <1>2, <1>5, <2>1, <2>3 DEF BehindCore, CoreBelow
<1>15. StaticXorDynamic
  <2>1. \A p \in CorePreds : bucket[p] # <<>>
    <3> TAKE p \in CorePreds
    <3>1. PICK i \in 1 .. N : bucket[p] = <<i>>
      BY <1>3, <1>10
    <3>. QED
      BY ONLY <3>1
  <2>. QED
    BY <1>2, <1>3, <1>10, <2>1 DEF StaticXorDynamic
<1>16. dead < CompactMin /\ dynamic \subseteq UserPreds /\ consulted \subseteq Preds
  BY <1>2, <1>3, ConstantsAssumption
<1>17. frames \in Seq([goal : Goals, idx : 1 .. Len(db) + 1]) /\ loading \in Seq(Files \cup {NoFile})
  BY <1>2
<1>. QED
  BY <1>8, <1>11, <1>12, <1>13, <1>14, <1>15, <1>16, <1>17, InvParts DEF Tables

\* A procedure has clauses after a step if it keeps some or gets new ones.
LEMMA BucketsThen ==
  ASSUME Tables(db, bucket, dead), Tables(db, bucket, dead)',
         NEW pos, NEW kept, Moves(pos, kept, {}), NEW q \in Preds
  PROVE  bucket'[q] # <<>> <=> \E i \in kept : db[i].pred = q
<1>1. /\ SlotsOK(db') /\ Indexes(bucket', db')
  BY DEF Tables
<1>2. /\ bucket'[q] \in Seq(1 .. Len(db'))
      /\ \A i \in 1 .. Len(db') : (db'[i].live /\ db'[i].pred = q) <=> Holds(bucket'[q], i)
  BY <1>1 DEF Indexes
<1>3. ASSUME bucket'[q] # <<>>
      PROVE  \E i \in kept : db[i].pred = q
  <2>1. Len(bucket'[q]) \in Nat /\ Len(bucket'[q]) # 0
    BY <1>2, <1>3, EmptySeq, LenProperties
  <2>2. bucket'[q][1] \in 1 .. Len(db') /\ 1 \in 1 .. Len(bucket'[q])
    BY <1>2, <2>1, ElementOfSeq
  <2>3. Holds(bucket'[q], bucket'[q][1])
    BY <2>2 DEF Holds
  <2>4. bucket'[q][1] \in LiveSlots(db') /\ db'[bucket'[q][1]].pred = q
    BY <1>2, <2>2, <2>3 DEF LiveSlots
  <2>5. PICK i \in kept : bucket'[q][1] = pos[i]
    BY <2>4 DEF Moves
  <2>. QED
    BY <2>4, <2>5 DEF Moves
<1>4. ASSUME NEW i \in kept, db[i].pred = q
      PROVE  bucket'[q] # <<>>
  <2>1. pos[i] \in LiveSlots(db') /\ db'[pos[i]].pred = q
    BY <1>4 DEF Moves
  <2>2. Holds(bucket'[q], pos[i])
    BY <1>2, <2>1 DEF LiveSlots
  <2>. QED
    BY <2>2 DEF Holds
<1>. QED
  BY <1>3, <1>4

LEMMA BucketsNow ==
  ASSUME Tables(db, bucket, dead), NEW q \in Preds
  PROVE  bucket[q] # <<>> <=> \E i \in LiveSlots(db) : db[i].pred = q
<1>1. /\ bucket[q] \in Seq(1 .. Len(db))
      /\ \A i \in 1 .. Len(db) : (db[i].live /\ db[i].pred = q) <=> Holds(bucket[q], i)
  BY DEF Tables, Indexes
<1>2. ASSUME bucket[q] # <<>>
      PROVE  \E i \in LiveSlots(db) : db[i].pred = q
  <2>1. Len(bucket[q]) \in Nat /\ Len(bucket[q]) # 0
    BY <1>1, <1>2, EmptySeq, LenProperties
  <2>2. bucket[q][1] \in 1 .. Len(db) /\ 1 \in 1 .. Len(bucket[q])
    BY <1>1, <2>1, ElementOfSeq
  <2>3. Holds(bucket[q], bucket[q][1])
    BY <2>2 DEF Holds
  <2>. QED
    BY <1>1, <2>2, <2>3 DEF LiveSlots
<1>3. ASSUME NEW i \in LiveSlots(db), db[i].pred = q
      PROVE  bucket[q] # <<>>
  <2>1. Holds(bucket[q], i)
    BY <1>1, <1>3 DEF LiveSlots
  <2>. QED
    BY <2>1 DEF Holds
<1>. QED
  BY <1>2, <1>3

\* What the invariant gives an action, and what an action has to give back.
LEMMA Have ==
  ASSUME DbInv
  PROVE  /\ Tables(db, bucket, dead) /\ FramesIn(db) /\ SlotsOK(db) /\ Indexes(bucket, db)
         /\ Len(db) \in Nat /\ dead \in 0 .. Len(db)
         /\ dead < CompactMin \/ 2 * dead <= Len(db)
         /\ dynamic \subseteq UserPreds /\ consulted \subseteq Preds
         /\ loading \in Seq(Files \cup {NoFile})
         /\ StaticXorDynamic /\ BehindCore
         /\ CompactMin \in Nat
<1>1. Tables(db, bucket, dead)
  BY InvParts
<1>2. SlotsOK(db) /\ Indexes(bucket, db) /\ Counts(dead, db)
  BY <1>1 DEF Tables
<1>3. Len(db) \in Nat /\ Cardinality(LiveSlots(db)) \in 0 .. Len(db)
  BY <1>2, SlotCases, LiveFinite
<1>4. dead = Len(db) - Cardinality(LiveSlots(db))
  BY <1>2 DEF Counts
<1>5. dead \in 0 .. Len(db)
  BY ONLY <1>3, <1>4
<1>. QED
  BY <1>1, <1>2, <1>3, <1>5, InvParts, ConstantsAssumption DEF FramesIn

Parts ==
  /\ Tables(db, bucket, dead)
  /\ dead < CompactMin \/ 2 * dead <= Len(db)
  /\ dynamic \subseteq UserPreds /\ consulted \subseteq Preds
  /\ FramesIn(db)
  /\ loading \in Seq(Files \cup {NoFile})
  /\ StaticXorDynamic
  /\ BehindCore

LEMMA InvIsParts == DbInv <=> Parts
BY InvParts DEF Parts, FramesIn

LEMMA PartsNext == DbInv' <=> Parts'
BY InvIsParts, PTL

LEMMA Give ==
  ASSUME Tables(db, bucket, dead)', FramesIn(db)', dead' < CompactMin \/ 2 * dead' <= Len(db'),
         dynamic' \subseteq UserPreds, consulted' \subseteq Preds, loading' \in Seq(Files \cup {NoFile}),
         StaticXorDynamic', BehindCore'
  PROVE  DbInv'
BY PartsNext DEF Parts

LEMMA AssertzHolds ==
  ASSUME DbInv, NEW p \in UserPreds, NEW k \in Keys, Assertz(p, k)
  PROVE  DbInv'
<1>1. /\ p \in Preds /\ p \notin consulted /\ dynamic' = dynamic \cup {p} /\ consulted' = consulted \ {p}
      /\ DbAdd(p, k, NoFile) /\ loading' = loading
  BY DEF Assertz, IsStatic, DynamicDeclare, UserPreds
<1>2. NoFile \in Files \cup {NoFile}
  OBVIOUS
<1>3. /\ Tables(db, bucket, dead)' /\ FramesIn(db)'
      /\ Len(db') = Len(db) + 1 /\ dead' = dead
      /\ db'[Len(db) + 1].pred = p /\ Holds(bucket'[p], Len(db) + 1)
      /\ \A q \in Preds \ {p} : bucket'[q] = bucket[q]
      /\ \E pos : /\ Moves(pos, LiveSlots(db), {Len(db) + 1}) /\ Follows(pos)
                  /\ \A i \in 1 .. Len(db) + 1 : pos[i] = i
  BY ONLY <1>1, <1>2, DbInv, k \in Keys, Have, DbAddIs
<1>4. BehindCore'
  <2>1. PICK pos : Moves(pos, LiveSlots(db), {Len(db) + 1}) /\ Follows(pos)
    BY <1>3
  <2>2. PICK c \in 1 .. Len(db) : CoreBelow(c)
    BY Have DEF BehindCore
  <2>3. c \in LiveSlots(db)
    BY <2>2 DEF CoreBelow, LiveSlots
  <2>4. UserPreds \ dynamic' \subseteq UserPreds \ dynamic
    BY <1>1
  <2>5. \A n \in {Len(db) + 1} : db'[n].pred \in UserPreds \ dynamic' => pos[c] < n
    BY <1>1, <1>3
  <2>. QED
    BY ONLY <1>3, <2>1, <2>2, <2>3, <2>4, <2>5, DbInv, Have, CoreMoves
<1>5. StaticXorDynamic'
  <2>1. bucket'[p] # <<>>
    BY <1>3 DEF Holds
  <2>. QED
    BY <1>1, <1>3, <2>1, Have DEF StaticXorDynamic
<1>6. dead' < CompactMin \/ 2 * dead' <= Len(db')
  BY <1>3, Have
<1>. QED
  BY <1>1, <1>3, <1>4, <1>5, <1>6, Have, Give

LEMMA AssertaHolds ==
  ASSUME DbInv, NEW p \in UserPreds, NEW k \in Keys, Asserta(p, k)
  PROVE  DbInv'
<1>1. /\ p \in Preds /\ p \notin consulted /\ dynamic' = dynamic \cup {p} /\ consulted' = consulted \ {p}
      /\ DbAddFront(p, k) /\ loading' = loading
  BY DEF Asserta, IsStatic, DynamicDeclare, UserPreds
<1>2. /\ Tables(db, bucket, dead)' /\ FramesIn(db)'
      /\ Len(db') = Len(db) + 1 /\ dead' = dead
      /\ db'[1].pred = p /\ Holds(bucket'[p], 1)
      /\ \A q \in Preds \ {p} : bucket'[q] = <<>> <=> bucket[q] = <<>>
      /\ \E pos : /\ Moves(pos, LiveSlots(db), {1}) /\ Follows(pos)
                  /\ \A i \in 1 .. Len(db) + 1 : pos[i] = i + 1
  BY ONLY <1>1, DbInv, k \in Keys, Have, DbAddFrontIs
<1>3. BehindCore'
  <2>1. PICK pos : Moves(pos, LiveSlots(db), {1}) /\ Follows(pos)
    BY <1>2
  <2>2. PICK c \in 1 .. Len(db) : CoreBelow(c)
    BY Have DEF BehindCore
  <2>3. c \in LiveSlots(db)
    BY <2>2 DEF CoreBelow, LiveSlots
  <2>4. UserPreds \ dynamic' \subseteq UserPreds \ dynamic
    BY <1>1
  <2>5. \A n \in {1} : db'[n].pred \in UserPreds \ dynamic' => pos[c] < n
    BY <1>1, <1>2
  <2>. QED
    BY ONLY <1>2, <2>1, <2>2, <2>3, <2>4, <2>5, DbInv, Have, CoreMoves
<1>4. StaticXorDynamic'
  <2>1. bucket'[p] # <<>>
    BY <1>2 DEF Holds
  <2>. QED
    BY <1>1, <1>2, <2>1, Have DEF StaticXorDynamic
<1>5. dead' < CompactMin \/ 2 * dead' <= Len(db')
  BY <1>2, Have
<1>. QED
  BY <1>1, <1>2, <1>3, <1>4, <1>5, Have, Give

LEMMA LoadClauseHolds ==
  ASSUME DbInv, NEW p \in UserPreds, NEW k \in Keys, LoadClause(p, k)
  PROVE  DbInv'
<1>1. /\ p \in Preds /\ dynamic' = dynamic /\ loading # <<>> /\ loading' = loading
      /\ consulted' = (IF p \in dynamic THEN consulted ELSE consulted \cup {p})
      /\ DbAdd(p, k, loading[Len(loading)])
  BY DEF LoadClause, UserPreds
<1>2. PICK file \in Files \cup {NoFile} : file = loading[Len(loading)]
  <2>1. Len(loading) \in 1 .. Len(loading)
    BY <1>1, Have, EmptySeq, LenProperties
  <2>2. loading[Len(loading)] \in Files \cup {NoFile}
    BY <2>1, Have, ElementOfSeq
  <2>. QED
    BY <2>2
<1>3. /\ Tables(db, bucket, dead)' /\ FramesIn(db)'
      /\ Len(db') = Len(db) + 1 /\ dead' = dead
      /\ db'[Len(db) + 1].pred = p /\ Holds(bucket'[p], Len(db) + 1)
      /\ \A q \in Preds \ {p} : bucket'[q] = bucket[q]
      /\ \E pos : /\ Moves(pos, LiveSlots(db), {Len(db) + 1}) /\ Follows(pos)
                  /\ \A i \in 1 .. Len(db) + 1 : pos[i] = i
  BY ONLY <1>1, <1>2, DbInv, k \in Keys, Have, DbAddIs
<1>4. BehindCore'
  <2>1. PICK pos : Moves(pos, LiveSlots(db), {Len(db) + 1}) /\ Follows(pos) /\ \A i \in 1 .. Len(db) + 1 : pos[i] = i
    BY <1>3
  <2>2. PICK c \in 1 .. Len(db) : CoreBelow(c)
    BY Have DEF BehindCore
  <2>3. c \in LiveSlots(db)
    BY <2>2 DEF CoreBelow, LiveSlots
  <2>4. UserPreds \ dynamic' \subseteq UserPreds \ dynamic
    BY <1>1
  <2>5. \A n \in {Len(db) + 1} : db'[n].pred \in UserPreds \ dynamic' => pos[c] < n
    BY <2>1, Have
  <2>. QED
    BY ONLY <1>3, <2>1, <2>2, <2>3, <2>4, <2>5, DbInv, Have, CoreMoves
<1>5. StaticXorDynamic'
  <2>1. bucket'[p] # <<>>
    BY <1>3 DEF Holds
  <2>. QED
    BY <1>1, <1>3, <2>1, Have DEF StaticXorDynamic
<1>6. dead' < CompactMin \/ 2 * dead' <= Len(db')
  BY <1>3, Have
<1>7. consulted' \subseteq Preds
  BY <1>1, Have
<1>. QED
  BY <1>1, <1>3, <1>4, <1>5, <1>6, <1>7, Have, Give

\* No removal reaches core.pl.
LEMMA CoreRemoves ==
  ASSUME DbInv, Tables(db, bucket, dead)', NEW gone, NEW pos,
         Moves(pos, LiveSlots(db) \ gone, {}), Follows(pos), dynamic' = dynamic,
         \A i \in gone : ~(db[i].pred \in CorePreds /\ db[i].source = NoFile)
  PROVE  BehindCore'
<1>1. PICK c \in 1 .. Len(db) : CoreBelow(c)
  BY Have DEF BehindCore
<1>2. c \in LiveSlots(db) \ gone
  BY <1>1 DEF CoreBelow, LiveSlots
<1>3. Tables(db, bucket, dead) /\ FramesIn(db)
  BY Have
<1>4. UserPreds \ dynamic' \subseteq UserPreds \ dynamic /\ \A n \in {} : db'[n].pred \in UserPreds \ dynamic' => pos[c] < n
  OBVIOUS
<1>5. PICK kept : kept = LiveSlots(db) \ gone
  OBVIOUS
<1>6. c \in kept /\ Moves(pos, kept, {})
  BY <1>2, <1>5
<1>. QED
  BY ONLY <1>1, <1>3, <1>4, <1>6, Tables(db, bucket, dead)', Follows(pos), CoreMoves

LEMMA RetractHolds ==
  ASSUME DbInv, NEW p \in UserPreds, Retract(p)
  PROVE  DbInv'
<1>1. /\ p \in Preds /\ p \notin CorePreds /\ p \notin consulted
      /\ dynamic' = dynamic /\ consulted' = consulted /\ loading' = loading
  BY DEF Retract, IsStatic, decls, UserPreds
<1>2. PICK j \in 1 .. Len(bucket[p]) : Remove({bucket[p][j]})
  BY DEF Retract
<1>3. PICK x : x = bucket[p][j]
  OBVIOUS
<1>4. x \in LiveSlots(db) /\ db[x].pred = p
  <2>1. bucket[p] \in Seq(1 .. Len(db)) /\ \A i \in 1 .. Len(db) : (db[i].live /\ db[i].pred = p) <=> Holds(bucket[p], i)
    BY <1>1, Have DEF Indexes
  <2>2. x \in 1 .. Len(db) /\ Holds(bucket[p], x)
    BY <1>3, <2>1, ElementOfSeq DEF Holds
  <2>. QED
    BY <2>1, <2>2 DEF LiveSlots
<1>5. Tables(db, bucket, dead) /\ FramesIn(db)
  BY Have
<1>6. PICK gone \in SUBSET LiveSlots(db) : gone = {x} /\ Remove(gone)
  BY <1>2, <1>3, <1>4
<1>7. /\ Tables(db, bucket, dead)' /\ FramesIn(db)'
      /\ dead' < CompactMin \/ 2 * dead' <= Len(db')
      /\ \E pos : Moves(pos, LiveSlots(db) \ gone, {}) /\ Follows(pos)
  BY ONLY <1>5, <1>6, RemoveIs
<1>8. PICK pos : Moves(pos, LiveSlots(db) \ gone, {}) /\ Follows(pos)
  BY <1>7
<1>9. BehindCore'
  <2>1. \A i \in gone : ~(db[i].pred \in CorePreds /\ db[i].source = NoFile)
    BY <1>1, <1>4, <1>6
  <2>. QED
    BY ONLY <1>1, <1>7, <1>8, <2>1, DbInv, CoreRemoves
<1>10. StaticXorDynamic'
  <2>1. \A q \in Preds : bucket'[q] # <<>> <=> \E i \in LiveSlots(db) \ gone : db[i].pred = q
    BY ONLY <1>5, <1>7, <1>8, BucketsThen
  <2>2. \A q \in Preds : bucket[q] # <<>> <=> \E i \in LiveSlots(db) : db[i].pred = q
    BY ONLY <1>5, BucketsNow
  <2>3. \A q \in Preds : bucket'[q] # <<>> => bucket[q] # <<>>
    BY ONLY <2>1, <2>2
  <2>4. \A q \in Preds : q # p /\ bucket[q] # <<>> => bucket'[q] # <<>>
    BY ONLY <1>4, <1>6, <2>1, <2>2
  <2>. QED
    BY <1>1, <2>3, <2>4, Have DEF StaticXorDynamic
<1>. QED
  BY <1>1, <1>7, <1>9, <1>10, Have, Give

LEMMA UnloadHolds ==
  ASSUME DbInv, NEW file \in Files, Unload(file), loading' \in Seq(Files \cup {NoFile})
  PROVE  DbInv'
<1> DEFINE gone == {i \in LiveSlots(db) : db[i].source = file}
           left == {p \in Preds : Without(bucket[p], gone) = <<>>}
           lost == {p \in left : \E i \in gone : db[i].pred = p}
<1>1. Remove(gone) /\ consulted' = consulted \ lost /\ dynamic' = dynamic
  BY DEF Unload
<1>2. Tables(db, bucket, dead) /\ FramesIn(db) /\ gone \in SUBSET LiveSlots(db)
  BY Have
<1>3. /\ Tables(db, bucket, dead)' /\ FramesIn(db)'
      /\ dead' < CompactMin \/ 2 * dead' <= Len(db')
      /\ \E pos : Moves(pos, LiveSlots(db) \ gone, {}) /\ Follows(pos)
  <2> HIDE DEF gone
  <2>. QED
    BY ONLY <1>1, <1>2, RemoveIs
<1>4. PICK pos : Moves(pos, LiveSlots(db) \ gone, {}) /\ Follows(pos)
  BY <1>3
<1>5. BehindCore'
  <2>1. \A i \in gone : ~(db[i].pred \in CorePreds /\ db[i].source = NoFile)
    BY ConstantsAssumption
  <2> HIDE DEF gone
  <2>. QED
    BY ONLY <1>1, <1>3, <1>4, <2>1, DbInv, CoreRemoves
<1>6. \A q \in Preds : bucket'[q] # <<>> <=> \E i \in LiveSlots(db) \ gone : db[i].pred = q
  <2> HIDE DEF gone
  <2>. QED
    BY ONLY <1>2, <1>3, <1>4, BucketsThen
<1>7. \A q \in Preds : bucket[q] # <<>> <=> \E i \in LiveSlots(db) : db[i].pred = q
  BY ONLY <1>2, BucketsNow
<1>8. \A q \in Preds : Without(bucket[q], gone) = <<>> <=> bucket'[q] = <<>>
  <2> TAKE q \in Preds
  <2>1. /\ bucket[q] \in Seq(1 .. Len(db)) /\ Ascending(bucket[q]) /\ Len(db) \in Nat
        /\ \A i \in 1 .. Len(db) : (db[i].live /\ db[i].pred = q) <=> Holds(bucket[q], i)
    BY Have DEF Indexes
  <2>2. PICK w : w = Without(bucket[q], gone)
    OBVIOUS
  <2>3. w \in Seq(1 .. Len(db)) /\ \A i : Holds(w, i) <=> Holds(bucket[q], i) /\ i \notin gone
    <3> HIDE DEF gone
    <3>. QED
      BY ONLY <2>1, <2>2, WithoutIs
  <2>4. w = <<>> <=> \A i \in 1 .. Len(db) : ~Holds(w, i)
    <3>1. w = <<>> => \A i : ~Holds(w, i)
      BY DEF Holds
    <3>2. w # <<>> => Len(w) \in Nat \ {0}
      BY <2>3, EmptySeq, LenProperties
    <3>3. w # <<>> => w[1] \in 1 .. Len(db) /\ Holds(w, w[1])
      BY <2>3, <3>2, ElementOfSeq DEF Holds
    <3>. QED
      BY <3>1, <3>3
  <2>5. (\E i \in LiveSlots(db) \ gone : db[i].pred = q) <=> \E i \in 1 .. Len(db) : Holds(w, i)
    <3> HIDE DEF gone
    <3>. QED
      BY ONLY <2>1, <2>3 DEF LiveSlots
  <2>. QED
    BY <1>6, <2>2, <2>4, <2>5
<1>9. StaticXorDynamic'
  <2>1. \A q \in Preds : q \in lost <=> bucket'[q] = <<>> /\ \E i \in gone : db[i].pred = q
    BY <1>8
  <2>2. \A q \in consulted' : bucket'[q] # <<>>
    <3> SUFFICES ASSUME NEW q \in consulted', bucket'[q] = <<>>
                 PROVE  FALSE
      OBVIOUS
    <3>1. q \in Preds /\ q \in consulted /\ q \notin lost
      BY <1>1, Have
    <3>2. bucket[q] # <<>>
      BY <3>1, Have DEF StaticXorDynamic
    <3>3. PICK i \in LiveSlots(db) : db[i].pred = q
      BY <1>7, <3>1, <3>2
    <3>4. i \in gone
      BY <1>6, <3>1, <3>3
    <3>. QED
      BY <2>1, <3>1, <3>3, <3>4
  <2>3. \A q \in Preds : bucket'[q] # <<>> => q \in consulted' \cup dynamic'
    <3> SUFFICES ASSUME NEW q \in Preds, bucket'[q] # <<>>
                 PROVE  q \in consulted' \cup dynamic'
      OBVIOUS
    <3>1. bucket[q] # <<>>
      BY <1>6, <1>7
    <3>2. q \in consulted \cup dynamic
      BY <3>1, Have DEF StaticXorDynamic
    <3>3. q \notin lost
      BY <2>1
    <3>. QED
      BY <1>1, <3>2, <3>3
  <2>4. consulted' \cap dynamic' = {}
    BY <1>1, Have DEF StaticXorDynamic
  <2>. QED
    BY ONLY <2>2, <2>3, <2>4 DEF StaticXorDynamic
<1>10. dynamic' \subseteq UserPreds /\ consulted' \subseteq Preds
  BY <1>1, Have
<1>. QED
  BY ONLY <1>3, <1>5, <1>9, <1>10, loading' \in Seq(Files \cup {NoFile}), Give

\* LeastOf returns the least of some positions, or 0.
LEMMA LeastIs ==
  ASSUME NEW S, S \subseteq Nat \ {0}
  PROVE  /\ LeastOf(S) = 0 <=> S = {}
         /\ S # {} => LeastOf(S) \in S /\ \A i \in S : LeastOf(S) <= i
<1>1. ASSUME S # {}
      PROVE  LeastOf(S) \in S /\ \A i \in S : LeastOf(S) <= i
  <2>1. S \subseteq Nat
    OBVIOUS
  <2>2. \E m \in S : \A i \in S : m <= i
    BY <1>1, <2>1, NatMin
  <2>3. LeastOf(S) = CHOOSE m \in S : \A i \in S : m <= i
    BY <1>1 DEF LeastOf
  <2>. QED
    BY <2>2, <2>3
<1>2. S = {} => LeastOf(S) = 0
  BY DEF LeastOf
<1>. QED
  BY <1>1, <1>2

\* bucket_seek skips the indices below `from', and no other.
LEMMA SeekIs ==
  ASSUME NEW N \in Nat, NEW b \in Seq(1 .. N), Ascending(b), NEW from \in Nat
  PROVE  /\ BucketSeek(b, from) \in Nat \ {0}
         /\ \A j \in 1 .. Len(b) : BucketSeek(b, from) <= j <=> from <= b[j]
<1> DEFINE S == {j \in 1 .. Len(b) : b[j] < from}
<1>1. Len(b) \in Nat /\ \A j \in 1 .. Len(b) : b[j] \in 1 .. N
  BY ElementOfSeq, LenProperties
<1>2. IsFiniteSet(1 .. Len(b)) /\ S \in SUBSET (1 .. Len(b))
  BY <1>1, FS_Interval
<1>3. IsFiniteSet(S) /\ Cardinality(S) \in Nat /\ BucketSeek(b, from) = Cardinality(S) + 1
  BY <1>2, FS_Subset, FS_CardinalityType DEF BucketSeek
<1>4. ASSUME NEW j \in 1 .. Len(b), b[j] < from
      PROVE  j <= Cardinality(S)
  <2>1. \A i \in 1 .. j : i \in 1 .. Len(b) /\ b[i] < from
    <3> TAKE i \in 1 .. j
    <3>1. i \in 1 .. Len(b) /\ (i = j \/ i < j)
      BY <1>1
    <3>2. i = j \/ b[i] < b[j]
      BY <3>1 DEF Ascending
    <3>3. b[i] \in Int /\ b[j] \in Int
      BY <1>1, <3>1
    <3>. QED
      BY ONLY <1>4, <3>1, <3>2, <3>3, from \in Nat
  <2>2. 1 .. j \in SUBSET S
    BY <2>1
  <2>3. Cardinality(1 .. j) = j
    BY <1>1, FS_Interval
  <2> HIDE DEF S
  <2>4. Cardinality(1 .. j) <= Cardinality(S)
    BY <1>3, <2>2, FS_Subset
  <2>. QED
    BY <2>3, <2>4
<1>5. ASSUME NEW j \in 1 .. Len(b), from <= b[j]
      PROVE  Cardinality(S) < j
  <2>1. \A i \in S : i \in 1 .. j - 1
    <3> TAKE i \in S
    <3>1. i \in 1 .. Len(b) /\ b[i] < from /\ b[i] \in Int /\ b[j] \in Int
      BY <1>1
    <3>2. i # j
      BY ONLY <1>5, <3>1, from \in Nat
    <3>3. j < i => b[j] < b[i]
      BY <3>1 DEF Ascending
    <3>4. ~(j < i)
      BY ONLY <1>5, <3>1, <3>3, from \in Nat
    <3>. QED
      BY <1>1, <3>1, <3>2, <3>4
  <2>2. S \in SUBSET (1 .. j - 1)
    BY <2>1
  <2>3. IsFiniteSet(1 .. j - 1) /\ Cardinality(1 .. j - 1) = j - 1
    <3>1. j - 1 \in Int /\ j >= 1
      BY <1>1
    <3>2. IsFiniteSet(1 .. j - 1) /\ Cardinality(1 .. j - 1) = IF 1 > j - 1 THEN 0 ELSE j - 1 - 1 + 1
      BY <3>1, FS_Interval
    <3>. QED
      BY <3>1, <3>2
  <2> HIDE DEF S
  <2>4. Cardinality(S) <= Cardinality(1 .. j - 1)
    BY <2>2, <2>3, FS_Subset
  <2>. QED
    BY <1>1, <1>3, <2>3, <2>4
<1> HIDE DEF S
<1>6. \A j \in 1 .. Len(b) : BucketSeek(b, from) <= j <=> from <= b[j]
  <2> TAKE j \in 1 .. Len(b)
  <2>1. b[j] \in Int /\ j \in Int
    BY <1>1
  <2>2. b[j] < from => j <= Cardinality(S)
    BY <1>4
  <2>3. from <= b[j] => Cardinality(S) < j
    BY <1>5
  <2>. QED
    BY ONLY <1>3, <2>1, <2>2, <2>3, from \in Nat
<1>. QED
  BY ONLY <1>3, <1>6

(***************************************************************************)
(* Searching.                                                              *)
(***************************************************************************)
LEMMA InBucket ==
  ASSUME DbInv, NEW p \in Preds
  PROVE  /\ bucket[p] \in Seq(1 .. Len(db)) /\ Ascending(bucket[p])
         /\ \A j \in 1 .. Len(bucket[p]) :
              bucket[p][j] \in LiveSlots(db) /\ db[bucket[p][j]].pred = p
         /\ \A i \in LiveSlots(db) : db[i].pred = p => Holds(bucket[p], i)
<1>1. /\ bucket[p] \in Seq(1 .. Len(db)) /\ Ascending(bucket[p])
      /\ \A i \in 1 .. Len(db) : (db[i].live /\ db[i].pred = p) <=> Holds(bucket[p], i)
  BY Have DEF Indexes
<1>2. ASSUME NEW j \in 1 .. Len(bucket[p])
      PROVE  bucket[p][j] \in LiveSlots(db) /\ db[bucket[p][j]].pred = p
  <2>1. bucket[p][j] \in 1 .. Len(db) /\ Holds(bucket[p], bucket[p][j])
    BY <1>1, ElementOfSeq DEF Holds
  <2>. QED
    BY <1>1, <2>1 DEF LiveSlots
<1>3. \A i \in LiveSlots(db) : db[i].pred = p => Holds(bucket[p], i)
  BY <1>1 DEF LiveSlots
<1>. QED
  BY <1>1, <1>2, <1>3

\* What label B leaves when it has entered at `from': a clause that is listed for
\* the goal has resolved, and if more come after it there is a choicepoint for the
\* next of them.
Resolves(goal, from, older) ==
  \E x \in LiveSlots(db) :
    /\ from <= x /\ Listed(goal, db[x])
    /\ \/ /\ frames' = older
          /\ \A y \in LiveSlots(db) : Listed(goal, db[y]) => y <= x
       \/ \E y \in LiveSlots(db) :
            /\ x < y /\ Listed(goal, db[y])
            /\ \A z \in LiveSlots(db) : Listed(goal, db[z]) => z <= x \/ y <= z
            /\ frames' = Append(older, [goal |-> goal, idx |-> y])

LEMMA TryIs ==
  ASSUME DbInv, NEW goal \in Goals, NEW from \in Nat \ {0}, NEW older, Try(goal, from, older)
  PROVE  Resolves(goal, from, older)
<1>1. goal.pred \in Preds
  BY DEF Goals, UserPreds
<1>2. PICK b : b = bucket[goal.pred]
  OBVIOUS
<1>3. /\ b \in Seq(1 .. Len(db)) /\ Ascending(b) /\ Len(db) \in Nat
      /\ \A j \in 1 .. Len(b) : b[j] \in LiveSlots(db) /\ db[b[j]].pred = goal.pred
      /\ \A i \in LiveSlots(db) : db[i].pred = goal.pred => Holds(b, i)
  BY <1>1, <1>2, InBucket, Have
<1>4. Len(b) \in Nat /\ \A j \in 1 .. Len(b) : b[j] \in 1 .. Len(db)
  BY <1>3, ElementOfSeq, LenProperties
<1>5. \A j \in 1 .. Len(b) : Listed(goal, db[b[j]]) <=> ~FirstArgConflicts(goal.key, db[b[j]])
  BY <1>3 DEF Listed
<1>6. /\ BucketSeek(b, from) \in Nat \ {0}
      /\ \A j \in 1 .. Len(b) : BucketSeek(b, from) <= j <=> from <= b[j]
  <2>1. from \in Nat
    OBVIOUS
  <2>. QED
    BY ONLY <1>3, <2>1, SeekIs
<1>7. \A pos \in Nat \ {0} :
        /\ \/ BucketMatch(b, pos, goal.key) = 0
           \/ /\ BucketMatch(b, pos, goal.key) \in pos .. Len(b)
              /\ Listed(goal, db[b[BucketMatch(b, pos, goal.key)]])
        /\ \A j \in pos .. Len(b) : Listed(goal, db[b[j]]) =>
             BucketMatch(b, pos, goal.key) # 0 /\ BucketMatch(b, pos, goal.key) <= j
  <2> TAKE pos \in Nat \ {0}
  <2>1. PICK S : S = {j \in pos .. Len(b) : ~FirstArgConflicts(goal.key, db[b[j]])}
    OBVIOUS
  <2>2. BucketMatch(b, pos, goal.key) = LeastOf(S)
    BY <2>1 DEF BucketMatch
  <2>3. S \subseteq Nat \ {0} /\ S \subseteq pos .. Len(b) /\ pos .. Len(b) \subseteq 1 .. Len(b)
    BY <1>4, <2>1
  <2>4. /\ LeastOf(S) = 0 <=> S = {}
        /\ S # {} => LeastOf(S) \in S /\ \A i \in S : LeastOf(S) <= i
    BY ONLY <2>3, LeastIs
  <2>5. \A j \in pos .. Len(b) : Listed(goal, db[b[j]]) <=> j \in S
    BY <1>5, <2>1, <2>3
  <2>. QED
    BY ONLY <2>2, <2>3, <2>4, <2>5
<1>8. PICK first : first = BucketMatch(b, BucketSeek(b, from), goal.key)
  OBVIOUS
<1>9. PICK j \in 1 .. Len(b) :
        /\ first # 0 /\ j >= first /\ ~FirstArgConflicts(goal.key, db[b[j]])
        /\ frames' = IF BucketMatch(b, j + 1, goal.key) = 0 THEN older
                     ELSE Append(older, [goal |-> goal, idx |-> b[BucketMatch(b, j + 1, goal.key)]])
  BY <1>2, <1>8 DEF Try
<1>10. b[j] \in LiveSlots(db) /\ Listed(goal, db[b[j]]) /\ j + 1 \in Nat \ {0} /\ j \in Nat
  BY <1>3, <1>4, <1>5, <1>9
<1>11. from <= b[j]
  <2>1. first \in BucketSeek(b, from) .. Len(b)
    BY <1>6, <1>7, <1>8, <1>9
  <2>2. BucketSeek(b, from) <= j
    BY ONLY <1>4, <1>6, <1>9, <2>1
  <2>. QED
    BY <1>6, <2>2
<1>12. PICK after : after = BucketMatch(b, j + 1, goal.key)
  OBVIOUS
<1>13. \A z \in LiveSlots(db) : Listed(goal, db[z]) => z <= b[j] \/ \E i \in j + 1 .. Len(b) : b[i] = z
  <2> TAKE z \in LiveSlots(db)
  <2> SUFFICES ASSUME Listed(goal, db[z])
               PROVE  z <= b[j] \/ \E i \in j + 1 .. Len(b) : b[i] = z
    OBVIOUS
  <2>1. PICK i \in 1 .. Len(b) : b[i] = z
    BY <1>3 DEF Holds, Listed
  <2>2. i < j => b[i] < b[j]
    BY <1>3 DEF Ascending
  <2>3. i \in j + 1 .. Len(b) \/ i = j \/ i < j
    BY <1>4, <1>10
  <2>. QED
    BY <1>4, <2>1, <2>2, <2>3
<1>14. CASE after = 0
  <2>1. \A i \in j + 1 .. Len(b) : ~Listed(goal, db[b[i]])
    BY <1>7, <1>10, <1>12, <1>14
  <2>2. \A z \in LiveSlots(db) : Listed(goal, db[z]) => z <= b[j]
    BY <1>13, <2>1
  <2>3. frames' = older
    BY <1>9, <1>12, <1>14
  <2>. QED
    BY ONLY <1>10, <1>11, <2>2, <2>3 DEF Resolves
<1>15. CASE after # 0
  <2>1. after \in j + 1 .. Len(b) /\ Listed(goal, db[b[after]])
    BY <1>7, <1>10, <1>12, <1>15
  <2>2. \A i \in j + 1 .. Len(b) : Listed(goal, db[b[i]]) => after <= i
    BY <1>7, <1>10, <1>12
  <2>3. after \in 1 .. Len(b) /\ j < after
    BY <1>4, <1>10, <2>1
  <2>4. b[after] \in LiveSlots(db) /\ b[j] < b[after]
    BY <1>3, <2>3 DEF Ascending
  <2>5. \A z \in LiveSlots(db) : Listed(goal, db[z]) => z <= b[j] \/ b[after] <= z
    <3> TAKE z \in LiveSlots(db)
    <3> SUFFICES ASSUME NEW i \in j + 1 .. Len(b), b[i] = z, Listed(goal, db[z])
                 PROVE  b[after] <= z
      BY <1>13
    <3>1. after <= i /\ i \in 1 .. Len(b)
      BY <1>4, <1>10, <2>2
    <3>2. after = i \/ after < i
      BY <1>4, <2>3, <3>1
    <3>3. after < i => b[after] < b[i]
      <4>1. Ascending(b)
        BY <1>3
      <4>. QED
        BY ONLY <2>3, <3>1, <4>1 DEF Ascending
    <3>. QED
      BY <1>4, <2>3, <3>1, <3>2, <3>3
  <2>6. frames' = Append(older, [goal |-> goal, idx |-> b[after]])
    BY <1>9, <1>12, <1>15
  <2>. QED
    BY ONLY <1>10, <1>11, <2>1, <2>4, <2>5, <2>6 DEF Resolves
<1>. QED
  BY <1>14, <1>15

LEMMA SearchHolds ==
  ASSUME DbInv, UNCHANGED <<tables, decls, loading>>, FramesIn(db)',
         \A n \in 1 .. Len(frames') : \A c \in 1 .. Len(db) : CoreBelow(c) => c < frames'[n].idx
  PROVE  DbInv'
<1>1. /\ db' = db /\ bucket' = bucket /\ dead' = dead
      /\ dynamic' = dynamic /\ consulted' = consulted /\ loading' = loading
  BY DEF tables, decls
<1>2. Tables(db, bucket, dead)'
  BY <1>1, Have
<1>3. BehindCore'
  <2>1. UserPreds \ dynamic' \subseteq (UserPreds \ dynamic) \cup {p \in Preds : bucket[p] = <<>>}
    BY <1>1
  <2>2. BehindCore
    BY Have
  <2>. QED
    BY <2>1, <2>2, CoreStays
<1>4. StaticXorDynamic'
  BY <1>1, Have DEF StaticXorDynamic
<1>. QED
  BY <1>1, <1>2, <1>3, <1>4, Have, Give

\* The choicepoints f are in range and resume behind core.pl.
FramesOK(f) ==
  /\ f \in Seq([goal : Goals, idx : 1 .. Len(db) + 1])
  /\ \A n \in 1 .. Len(f) : \A c \in 1 .. Len(db) : CoreBelow(c) => c < f[n].idx

LEMMA FramesNow ==
  ASSUME DbInv
  PROVE  FramesOK(frames) /\ \A n \in 1 .. Len(frames) : frames[n].goal \in Goals /\ frames[n].idx \in Nat \ {0}
<1>1. FramesOK(frames)
  BY Have DEF FramesOK, FramesIn, CoreBelow
<1>2. ASSUME NEW n \in 1 .. Len(frames)
      PROVE  frames[n].goal \in Goals /\ frames[n].idx \in Nat \ {0}
  <2>1. frames[n] \in [goal : Goals, idx : 1 .. Len(db) + 1]
    BY <1>1, ElementOfSeq DEF FramesOK
  <2>2. frames[n].goal \in Goals /\ frames[n].idx \in 1 .. Len(db) + 1
    BY ONLY <2>1
  <2>. QED
    BY <2>2, Have
<1>. QED
  BY <1>1, <1>2

\* A cut keeps the first of them.
LEMMA CutIs ==
  ASSUME DbInv, NEW n \in 0 .. Len(frames)
  PROVE  FramesOK(SubSeq(frames, 1, n))
<1>1. /\ frames \in Seq([goal : Goals, idx : 1 .. Len(db) + 1]) /\ Len(frames) \in Nat
      /\ \A m \in 1 .. Len(frames) : \A c \in 1 .. Len(db) : CoreBelow(c) => c < frames[m].idx
  BY FramesNow, LenProperties DEF FramesOK
<1>2. PICK s : s = SubSeq(frames, 1, n)
  OBVIOUS
<1>3. /\ s \in Seq([goal : Goals, idx : 1 .. Len(db) + 1]) /\ Len(s) = n
      /\ \A m \in 1 .. n : s[m] = frames[m]
  BY <1>1, <1>2, PrefixSeq
<1>4. \A m \in 1 .. n : m \in 1 .. Len(frames)
  BY <1>1
<1>5. FramesOK(s)
  BY ONLY <1>1, <1>3, <1>4 DEF FramesOK
<1>. QED
  BY <1>2, <1>5

LEMMA ResolvesHolds ==
  ASSUME DbInv, UNCHANGED <<tables, decls, loading>>,
         NEW goal \in Goals, NEW from, NEW older, FramesOK(older), Resolves(goal, from, older),
         \A c \in 1 .. Len(db) : CoreBelow(c) =>
           \A x \in LiveSlots(db) : from <= x /\ Listed(goal, db[x]) => c < x
  PROVE  DbInv'
<1>1. PICK x \in LiveSlots(db) :
        /\ from <= x /\ Listed(goal, db[x])
        /\ \/ frames' = older
           \/ \E y \in LiveSlots(db) : x < y /\ frames' = Append(older, [goal |-> goal, idx |-> y])
  BY DEF Resolves
<1>2. /\ older \in Seq([goal : Goals, idx : 1 .. Len(db) + 1]) /\ Len(older) \in Nat
      /\ \A n \in 1 .. Len(older) : \A c \in 1 .. Len(db) : CoreBelow(c) => c < older[n].idx
  BY LenProperties DEF FramesOK
<1>3. FramesOK(frames')
  <2>1. ASSUME NEW y \in LiveSlots(db), x < y, frames' = Append(older, [goal |-> goal, idx |-> y])
        PROVE  FramesOK(frames')
    <3>1. PICK f : f = [goal |-> goal, idx |-> y]
      OBVIOUS
    <3>2. /\ x \in 1 .. Len(db) /\ y \in 1 .. Len(db) /\ y \in 1 .. Len(db) + 1 /\ Len(db) \in Nat
      BY Have DEF LiveSlots
    <3>3. f \in [goal : Goals, idx : 1 .. Len(db) + 1] /\ f.idx = y
      BY ONLY <3>1, <3>2, goal \in Goals
    <3>4. frames' = Append(older, f)
      BY <2>1, <3>1
    <3>5. /\ frames' \in Seq([goal : Goals, idx : 1 .. Len(db) + 1]) /\ Len(frames') = Len(older) + 1
          /\ \A n \in 1 .. Len(older) : frames'[n] = older[n]
          /\ frames'[Len(older) + 1] = f
      BY ONLY <1>2, <3>3, <3>4, AppendProperties
    <3>6. ASSUME NEW n \in 1 .. Len(frames'), NEW c \in 1 .. Len(db), CoreBelow(c)
          PROVE  c < frames'[n].idx
      <4>1. CASE n \in 1 .. Len(older)
        BY <1>2, <3>5, <3>6, <4>1
      <4>2. CASE n = Len(older) + 1
        <5>1. c < x
          BY <1>1, <3>6
        <5>2. frames'[n].idx = y
          BY <3>3, <3>5, <4>2
        <5>. QED
          BY ONLY <2>1, <3>2, <5>1, <5>2, c \in 1 .. Len(db)
      <4>. QED
        BY <1>2, <3>5, <4>1, <4>2
    <3>. QED
      BY ONLY <3>5, <3>6 DEF FramesOK
  <2>. QED
    BY <1>1, <2>1
<1>4. FramesIn(db)'
  BY <1>3 DEF FramesOK, FramesIn, tables
<1>5. \A n \in 1 .. Len(frames') : \A c \in 1 .. Len(db) : CoreBelow(c) => c < frames'[n].idx
  BY <1>3 DEF FramesOK
<1>. QED
  BY ONLY <1>4, <1>5, DbInv, UNCHANGED <<tables, decls, loading>>, SearchHolds

\* Core.pl is in front of what a call finds, since its procedure is not dynamic.
LEMMA CallHolds ==
  ASSUME DbInv, NEW p \in UserPreds, NEW k \in Keys, Call(p, k)
  PROVE  DbInv'
<1>1. PICK goal : goal = [pred |-> p, key |-> k]
  OBVIOUS
<1>2. goal \in Goals /\ goal.pred = p /\ p \notin dynamic /\ p \in Preds
  BY <1>1 DEF Call, Goals, UserPreds
<1>3. Resolves(goal, 1, frames)
  <2>1. Try(goal, 1, frames) /\ 1 \in Nat \ {0}
    BY <1>1 DEF Call
  <2>. QED
    BY <1>2, <2>1, TryIs
<1>4. ASSUME NEW c \in 1 .. Len(db), CoreBelow(c), NEW x \in LiveSlots(db), Listed(goal, db[x])
      PROVE  c < x
  <2>1. Holds(bucket[p], x) /\ x \in 1 .. Len(db)
    BY <1>2, <1>4, InBucket DEF Listed, LiveSlots
  <2>. QED
    BY <1>2, <1>4, <2>1 DEF CoreBelow
<1>5. UNCHANGED <<tables, decls, loading>>
  BY DEF Call
<1>. QED
  BY <1>2, <1>3, <1>4, <1>5, FramesNow, ResolvesHolds

LEMMA BacktrackHolds ==
  ASSUME DbInv, Backtrack
  PROVE  DbInv'
<1>1. UNCHANGED <<tables, decls, loading>>
  BY DEF Backtrack
<1>2. frames \in Seq([goal : Goals, idx : 1 .. Len(db) + 1]) /\ frames # <<>>
  BY FramesNow DEF Backtrack, FramesOK
<1>3. Len(frames) \in 1 .. Len(frames) /\ Len(frames) - 1 \in 0 .. Len(frames)
  BY <1>2, EmptySeq, LenProperties
<1>4. PICK f, older : f = frames[Len(frames)] /\ older = SubSeq(frames, 1, Len(frames) - 1)
  OBVIOUS
<1>5. FramesOK(older)
  BY <1>3, <1>4, CutIs
<1>6. f.goal \in Goals /\ f.idx \in Nat \ {0} /\ \A c \in 1 .. Len(db) : CoreBelow(c) => c < f.idx
  BY <1>3, <1>4, FramesNow DEF FramesOK
<1>7. frames' = older \/ Try(f.goal, f.idx, older)
  BY <1>4 DEF Backtrack
<1>8. CASE frames' = older
  <2>1. FramesIn(db)'
    BY <1>1, <1>5, <1>8 DEF FramesOK, FramesIn, tables
  <2>2. \A n \in 1 .. Len(frames') : \A c \in 1 .. Len(db) : CoreBelow(c) => c < frames'[n].idx
    BY <1>5, <1>8 DEF FramesOK
  <2>. QED
    BY ONLY <2>1, <2>2, <1>1, DbInv, SearchHolds
<1>9. CASE Try(f.goal, f.idx, older)
  <2>1. Resolves(f.goal, f.idx, older)
    BY <1>6, <1>9, TryIs
  <2>2. \A c \in 1 .. Len(db) : CoreBelow(c) =>
          \A x \in LiveSlots(db) : f.idx <= x /\ Listed(f.goal, db[x]) => c < x
    <3>1. \A c \in 1 .. Len(db) : CoreBelow(c) => c < f.idx
      BY <1>6
    <3>2. \A x \in LiveSlots(db) : x \in Int
      BY DEF LiveSlots
    <3>3. f.idx \in Int
      BY <1>6
    <3>. QED
      BY ONLY <3>1, <3>2, <3>3
  <2>. QED
    BY <1>1, <1>5, <1>6, <2>1, <2>2, ResolvesHolds
<1>. QED
  BY <1>7, <1>8, <1>9

LEMMA CutToHolds ==
  ASSUME DbInv, NEW n \in 0 .. Len(frames), CutTo(n)
  PROVE  DbInv'
<1>1. UNCHANGED <<tables, decls, loading>> /\ frames' = SubSeq(frames, 1, n)
  BY DEF CutTo
<1>2. FramesOK(frames')
  BY <1>1, CutIs
<1>3. FramesIn(db)'
  BY <1>1, <1>2 DEF FramesOK, FramesIn, tables
<1>4. \A m \in 1 .. Len(frames') : \A c \in 1 .. Len(db) : CoreBelow(c) => c < frames'[m].idx
  BY <1>2 DEF FramesOK
<1>. QED
  BY ONLY <1>1, <1>3, <1>4, DbInv, SearchHolds

(***************************************************************************)
(* Declaring and loading.                                                  *)
(***************************************************************************)
\* A step that leaves clauses and choicepoints as they are, and makes a procedure
\* undynamic only if it has no clauses.
LEMMA DeclareHolds ==
  ASSUME DbInv, UNCHANGED <<tables, frames>>, loading' \in Seq(Files \cup {NoFile}),
         dynamic' \subseteq UserPreds, consulted' \subseteq Preds, StaticXorDynamic',
         \A p \in dynamic \ dynamic' : bucket[p] = <<>>
  PROVE  DbInv'
<1>1. db' = db /\ bucket' = bucket /\ dead' = dead /\ frames' = frames
  BY DEF tables
<1>2. Tables(db, bucket, dead)' /\ FramesIn(db)'
  BY <1>1, Have DEF FramesIn
<1>3. BehindCore'
  <2>1. UserPreds \ dynamic' \subseteq (UserPreds \ dynamic) \cup {p \in Preds : bucket[p] = <<>>}
    BY DEF UserPreds
  <2>2. \A n \in 1 .. Len(frames') : \A c \in 1 .. Len(db) : CoreBelow(c) => c < frames'[n].idx
    BY <1>1 DEF CoreBelow
  <2>3. BehindCore
    BY Have
  <2>. QED
    BY <2>1, <2>2, <2>3, CoreStays
<1>. QED
  BY <1>1, <1>2, <1>3, Have, Give

LEMMA DynamicHolds ==
  ASSUME DbInv, NEW p \in UserPreds, Dynamic(p)
  PROVE  DbInv'
<1>1. /\ UNCHANGED <<tables, frames>> /\ bucket' = bucket /\ loading' = loading
      /\ dynamic' = dynamic \cup {p} /\ consulted' = consulted \ {p}
  BY DEF Dynamic, DynamicDeclare, tables
<1>2. StaticXorDynamic'
  BY <1>1, Have DEF StaticXorDynamic
<1>. QED
  BY <1>1, <1>2, Have, DeclareHolds

LEMMA UndynamicHolds ==
  ASSUME DbInv, NEW p \in UserPreds, Undynamic(p)
  PROVE  DbInv'
<1>1. /\ UNCHANGED <<tables, frames>> /\ bucket' = bucket /\ loading' = loading /\ bucket[p] = <<>>
      /\ dynamic' = dynamic \ {p} /\ consulted' = consulted
  BY DEF Undynamic, tables
<1>2. StaticXorDynamic'
  BY <1>1, Have DEF StaticXorDynamic
<1>. QED
  BY <1>1, <1>2, Have, DeclareHolds

LEMMA ConsultHolds ==
  ASSUME DbInv, NEW file \in Files \cup {NoFile}, Consult(file)
  PROVE  DbInv'
<1>1. loading' \in Seq(Files \cup {NoFile})
  BY Have, AppendProperties DEF Consult
<1>2. CASE file = NoFile
  <2>1. UNCHANGED <<tables, frames, decls>> /\ bucket' = bucket /\ dynamic' = dynamic /\ consulted' = consulted
    BY <1>2 DEF Consult, decls, tables
  <2>2. StaticXorDynamic'
    BY <2>1, Have DEF StaticXorDynamic
  <2>. QED
    BY <1>1, <2>1, <2>2, Have, DeclareHolds
<1>3. CASE file # NoFile
  BY <1>1, <1>3, UnloadHolds DEF Consult
<1>. QED
  BY <1>2, <1>3

LEMMA UnconsultHolds ==
  ASSUME DbInv, NEW file \in Files \cup {NoFile}, Unconsult(file)
  PROVE  DbInv'
<1>1. file \in Files /\ Unload(file) /\ loading' \in Seq(Files \cup {NoFile})
  BY Have DEF Unconsult
<1>. QED
  BY <1>1, UnloadHolds

LEMMA LoadedHolds ==
  ASSUME DbInv, Loaded
  PROVE  DbInv'
<1>1. /\ UNCHANGED <<tables, frames>> /\ bucket' = bucket /\ dynamic' = dynamic /\ consulted' = consulted
      /\ loading' = SubSeq(loading, 1, Len(loading) - 1) /\ loading # <<>>
  BY DEF Loaded, decls, tables
<1>2. loading \in Seq(Files \cup {NoFile}) /\ Len(loading) \in Nat /\ Len(loading) # 0
  BY <1>1, Have, EmptySeq, LenProperties
<1>3. Len(loading) - 1 \in 0 .. Len(loading)
  BY <1>2
<1>4. loading' \in Seq(Files \cup {NoFile})
  BY <1>1, <1>2, <1>3, PrefixSeq
<1>5. StaticXorDynamic'
  BY <1>1, Have DEF StaticXorDynamic
<1>. QED
  BY <1>1, <1>4, <1>5, Have, DeclareHolds

(***************************************************************************)
(* The theorems.                                                           *)
(***************************************************************************)
LEMMA NextHolds == DbInv /\ [Next]_vars => DbInv'
<1> SUFFICES ASSUME DbInv, [Next]_vars
             PROVE  DbInv'
  OBVIOUS
<1>1. ASSUME NEW p \in UserPreds, NEW k \in Keys,
             Assertz(p, k) \/ Asserta(p, k) \/ LoadClause(p, k) \/ Call(p, k)
      PROVE  DbInv'
  BY <1>1, AssertzHolds, AssertaHolds, LoadClauseHolds, CallHolds
<1>2. ASSUME NEW p \in UserPreds, Retract(p) \/ Dynamic(p) \/ Undynamic(p)
      PROVE  DbInv'
  BY <1>2, RetractHolds, DynamicHolds, UndynamicHolds
<1>3. ASSUME NEW file \in Files \cup {NoFile}, Consult(file) \/ Unconsult(file)
      PROVE  DbInv'
  BY <1>3, ConsultHolds, UnconsultHolds
<1>4. CASE Loaded
  BY <1>4, LoadedHolds
<1>5. CASE Backtrack
  BY <1>5, BacktrackHolds
<1>6. ASSUME NEW n \in 0 .. Len(frames), CutTo(n)
      PROVE  DbInv'
  BY <1>6, CutToHolds
<1>7. CASE UNCHANGED vars
  <2>1. UNCHANGED <<tables, decls, loading>> /\ frames' = frames /\ db' = db
    BY <1>7 DEF vars, tables, decls
  <2>2. FramesIn(db)'
    BY <2>1, Have DEF FramesIn
  <2>3. \A n \in 1 .. Len(frames') : \A c \in 1 .. Len(db) : CoreBelow(c) => c < frames'[n].idx
    BY <2>1 DEF CoreBelow
  <2>. QED
    BY ONLY <2>1, <2>2, <2>3, DbInv, SearchHolds
<1>. QED
  BY <1>1, <1>2, <1>3, <1>4, <1>5, <1>6, <1>7 DEF Next

\* DbInv is inductive.
LEMMA SpecHolds == Spec => []DbInv
BY InitHolds, NextHolds, PTL DEF Spec

\* Every index of the tables is in range, in every run of the program.
THEOREM TypeCorrect == Spec => []TypeOK
<1>1. DbInv => TypeOK
  BY DEF DbInv
<1>. QED
  BY <1>1, SpecHolds, PTL

\* A predicate's bucket is sorted and has exactly its live clauses, whatever was
\* added at either end, killed or moved: the binary searches of solve.c miss none.
THEOREM IndexIsExact == Spec => []IndexExact
<1>1. DbInv => IndexExact
  BY DEF DbInv
<1>. QED
  BY <1>1, SpecHolds, PTL

\* db_dead is the number of dead slots, and they outnumber the live ones only
\* while they are fewer than CompactMin: the array is bounded by live data.
THEOREM DeadIsBounded == Spec => []DeadBounded
<1>1. DbInv => DeadBounded
  BY DEF DbInv
<1>. QED
  BY <1>1, SpecHolds, PTL

\* A procedure that has clauses is either static or dynamic, and a static one has
\* clauses, in any order of loads, unloads, declarations and assertions.
THEOREM StaticOrDynamic == Spec => []StaticXorDynamic
<1>1. DbInv => StaticXorDynamic
  BY DEF DbInv
<1>. QED
  BY <1>1, SpecHolds, PTL

\* No choicepoint's index comes down to the first slot, so that label B never
\* takes a resumed call for a new one: there is always a clause of core.pl before it.
THEOREM ResumesBehindCore == Spec => []ResumeIsResume
<1>1. DbInv => ResumeIsResume
  <2> SUFFICES ASSUME DbInv, NEW n \in 1 .. Len(frames)
               PROVE  frames[n].idx > 1
    BY DEF ResumeIsResume
  <2>1. PICK c \in 1 .. Len(db) : c < frames[n].idx
    BY DEF DbInv, BehindCore, CoreBelow
  <2>2. frames[n].idx \in Nat
    BY FramesNow
  <2>. QED
    BY <2>1, <2>2, Have
<1>. QED
  BY <1>1, SpecHolds, PTL

(***************************************************************************)
(* ClauseDb implements ClauseCursors: each step of the program is one of   *)
(* the promise, or none.                                                   *)
(***************************************************************************)

Listing == Selected(db, LiveSlots(db))

\* The clauses of the slots d that a choicepoint at `from' will reach.
Rest(goal, from, d) == {c \in {d[i] : i \in {i \in LiveSlots(d) : i >= from}} : Listed(goal, c)}

Cursors(f, d) ==
  [n \in 1 .. Len(f) |-> [goal |-> f[n].goal, rest |-> Rest(f[n].goal, f[n].idx, d)]]

LEMMA CursorsAre == AbsCursors = Cursors(frames, db)
BY DEF AbsCursors, Cursors, Rest

LEMMA CursorsNext == AbsCursors' = Cursors(frames', db')
BY DEF AbsCursors, Cursors, Rest, LiveSlots

LEMMA ListingNext == Listing' = Selected(db', LiveSlots(db'))
BY DEF Listing, LiveSlots, Selected, NumBelow, Nth

\* Its members are those of d at L.
LEMMA ListingOf ==
  ASSUME NEW L, \A i \in L : i \in Int, IsFiniteSet(L), NEW d
  PROVE  /\ \A n \in 1 .. Len(Selected(d, L)) : \E i \in L : Selected(d, L)[n] = d[i]
         /\ \A i \in L : \E n \in 1 .. Len(Selected(d, L)) : Selected(d, L)[n] = d[i]
<1>1. Len(Selected(d, L)) = Cardinality(L)
  BY SelectedLen
<1>2. \A n \in 1 .. Cardinality(L) : \E i \in L : Selected(d, L)[n] = d[i]
  BY SelectedAt
<1>3. \A i \in L : \E n \in 1 .. Cardinality(L) : Selected(d, L)[n] = d[i]
  BY SelectedOf
<1>. QED
  BY <1>1, <1>2, <1>3

LEMMA MembersAre ==
  ASSUME SlotsOK(db)
  PROVE  Promise!Members = {db[i] : i \in LiveSlots(db)}
<1>1. LiveSlots(db) \subseteq Int /\ IsFiniteSet(LiveSlots(db))
  BY LiveFinite
<1>2. /\ \A n \in 1 .. Len(Listing) : \E i \in LiveSlots(db) : Listing[n] = db[i]
      /\ \A i \in LiveSlots(db) : \E n \in 1 .. Len(Listing) : Listing[n] = db[i]
  BY <1>1, ListingOf DEF Listing
<1>3. Promise!Members = {Listing[i] : i \in 1 .. Len(Listing)}
  BY DEF Promise!Members, Listing
<1>. QED
  BY <1>2, <1>3

LEMMA MembersNext ==
  ASSUME SlotsOK(db')
  PROVE  Promise!Members' = {db'[i] : i \in LiveSlots(db')}
<1>1. LiveSlots(db') \subseteq Int /\ IsFiniteSet(LiveSlots(db'))
  BY LiveFinite
<1>2. Promise!Members' = {Listing'[i] : i \in 1 .. Len(Listing')}
  BY DEF Promise!Members, Listing
<1>3. PICK L, d : L = LiveSlots(db') /\ d = db'
  OBVIOUS
<1>4. (\A i \in L : i \in Int) /\ IsFiniteSet(L)
  BY <1>1, <1>3
<1>5. /\ \A n \in 1 .. Len(Selected(d, L)) : \E i \in L : Selected(d, L)[n] = d[i]
      /\ \A i \in L : \E n \in 1 .. Len(Selected(d, L)) : Selected(d, L)[n] = d[i]
  BY ONLY <1>4, ListingOf
<1>6. Listing' = Selected(d, L)
  BY <1>3, ListingNext
<1>. QED
  BY ONLY <1>2, <1>3, <1>5, <1>6

\* A clause is in the list where its slot is in the array.
LEMMA AtIs ==
  ASSUME SlotsOK(db), Distinct(db), NEW j \in LiveSlots(db)
  PROVE  Promise!At(db[j]) = NumBelow(LiveSlots(db), j) + 1 /\ NumBelow(LiveSlots(db), j) \in Int
<1>1. PICK L : L = LiveSlots(db)
  OBVIOUS
<1>2. L \subseteq Int /\ IsFiniteSet(L) /\ j \in L
  BY <1>1, LiveFinite
<1>3. Len(Listing) = Cardinality(L)
  BY <1>1, <1>2, SelectedLen DEF Listing
<1>4. NumBelow(L, j) + 1 \in 1 .. Len(Listing) /\ Listing[NumBelow(L, j) + 1] = db[j]
  BY <1>1, <1>2, <1>3, SelectedOf DEF Listing
<1>5. \A n \in 1 .. Len(Listing) : Listing[n] = db[j] => n = NumBelow(L, j) + 1
  <2> TAKE n \in 1 .. Len(Listing)
  <2> SUFFICES ASSUME Listing[n] = db[j]
               PROVE  n = NumBelow(L, j) + 1
    OBVIOUS
  <2>1. n \in 1 .. Cardinality(L)
    BY <1>3
  <2>2. Listing[n] = db[Nth(L, n)] /\ Nth(L, n) \in L
    BY <1>1, <1>2, <2>1, SelectedAt DEF Listing
  <2>3. Nth(L, n) = j
    BY <1>1, <1>2, <2>2 DEF Distinct
  <2>4. NumBelow(L, Nth(L, n)) = n - 1
    BY <1>2, <2>1, NthIs
  <2>5. n \in Int
    OBVIOUS
  <2>. QED
    BY ONLY <2>3, <2>4, <2>5
<1>6. Promise!At(db[j]) = CHOOSE n \in 1 .. Len(Listing) : Listing[n] = db[j]
  BY DEF Promise!At, Listing
<1>7. NumBelow(L, j) \in Int
  BY <1>2, BelowType
<1>. QED
  BY ONLY <1>1, <1>4, <1>5, <1>6, <1>7

LEMMA AtOrder ==
  ASSUME SlotsOK(db), Distinct(db), NEW i \in LiveSlots(db), NEW k \in LiveSlots(db)
  PROVE  /\ Promise!At(db[i]) < Promise!At(db[k]) <=> i < k
         /\ Promise!At(db[i]) \in Int /\ Promise!At(db[k]) \in Int
<1>1. PICK L : L = LiveSlots(db)
  OBVIOUS
<1>2. L \subseteq Int /\ IsFiniteSet(L) /\ i \in L /\ k \in L /\ i \in Int /\ k \in Int
  BY <1>1, LiveFinite
<1>3. (i < k => NumBelow(L, i) < NumBelow(L, k)) /\ (k <= i => NumBelow(L, k) <= NumBelow(L, i))
  BY <1>2, BelowStrict, BelowMonotone
<1>4. /\ Promise!At(db[i]) = NumBelow(L, i) + 1 /\ NumBelow(L, i) \in Int
      /\ Promise!At(db[k]) = NumBelow(L, k) + 1 /\ NumBelow(L, k) \in Int
  BY <1>1, AtIs
<1>. QED
  BY ONLY <1>2, <1>3, <1>4

(***************************************************************************)
(* Steps that move clauses.                                                *)
(***************************************************************************)
\* The clause c is one that a choicepoint at idx reaches after such a step.
Reaches(goal, idx, c, pos, kept, new) ==
  /\ Listed(goal, c)
  /\ \/ \E i \in kept : i >= idx /\ c = db[i]
     \/ \E n \in new : n >= pos[idx] /\ c = db'[n]

LEMMA RestMoves ==
  ASSUME NEW pos, NEW kept, NEW new, Moves(pos, kept, new), SlotsOK(db),
         NEW goal, NEW idx \in 1 .. Len(db) + 1, NEW c
  PROVE  c \in Rest(goal, pos[idx], db') <=> Reaches(goal, idx, c, pos, kept, new)
<1>1. \A i \in kept : i \in 1 .. Len(db) + 1 /\ i \in Int
  BY SlotCases DEF Moves, LiveSlots
<1>2. \A i \in 1 .. Len(db) + 1 : pos[i] \in Int
  BY DEF Moves
<1>3. \A i \in kept : pos[i] >= pos[idx] <=> i >= idx
  <2> TAKE i \in kept
  <2>1. (idx <= i => pos[idx] <= pos[i]) /\ (i < idx => pos[i] < pos[idx])
    BY <1>1 DEF Moves
  <2>2. i \in Int /\ idx \in Int /\ pos[i] \in Int /\ pos[idx] \in Int
    BY <1>1, <1>2
  <2>. QED
    BY ONLY <2>1, <2>2
<1>4. \A n : n \in LiveSlots(db') <=> n \in new \/ \E i \in kept : n = pos[i]
  BY DEF Moves
<1>5. \A i \in kept : db'[pos[i]] = db[i]
  BY DEF Moves
<1>. QED
  BY ONLY <1>3, <1>4, <1>5 DEF Rest, Reaches

\* The clauses that are kept keep their order.
LEMMA KeptMoves ==
  ASSUME NEW pos, NEW kept, NEW new, Moves(pos, kept, new), SlotsOK(db),
         NEW moved, moved = {pos[i] : i \in kept}
  PROVE  /\ moved \subseteq Int /\ IsFiniteSet(moved)
         /\ LiveSlots(db') = moved \cup new
         /\ Selected(db', moved) = Selected(db, kept)
<1>1. /\ kept \subseteq Int /\ kept \subseteq LiveSlots(db) /\ IsFiniteSet(kept)
      /\ \A i \in kept : i \in 1 .. Len(db) + 1
  <2>1. kept \subseteq LiveSlots(db)
    BY DEF Moves
  <2>. QED
    BY <2>1, LiveFinite, SlotCases, FS_Subset
<1>2. \A i \in kept : pos[i] \in Int /\ db'[pos[i]] = db[i]
  BY <1>1 DEF Moves
<1>3. \A i, k \in kept : i < k => pos[i] < pos[k]
  BY <1>1 DEF Moves
<1>4. moved \subseteq Int /\ IsFiniteSet(moved) /\ Selected(db', moved) = Selected(db, kept)
  <2>1. (\A i \in kept : i \in Int) /\ IsFiniteSet(kept)
    BY <1>1
  <2>2. Carries(pos, kept, db, moved, db')
    BY <1>2, <1>3 DEF Carries
  <2>3. (\A m \in moved : m \in Int) /\ IsFiniteSet(moved) /\ Selected(db', moved) = Selected(db, kept)
    BY ONLY <2>1, <2>2, SelectedMoved
  <2>. QED
    BY ONLY <2>3
<1>5. LiveSlots(db') = moved \cup new
  BY DEF Moves
<1>. QED
  BY <1>4, <1>5

\* A new clause is another than those there were.
LEMMA NewIsNew ==
  ASSUME NEW pos, NEW m, Moves(pos, LiveSlots(db), {m}), SlotsOK(db), SlotsOK(db'), Distinct(db')
  PROVE  db'[m] \in Promise!Members' \ Promise!Members
<1>1. m \in LiveSlots(db')
  BY DEF Moves
<1>2. \A i \in LiveSlots(db) : db[i] # db'[m]
  <2> TAKE i \in LiveSlots(db)
  <2>1. pos[i] \in LiveSlots(db') /\ pos[i] # m /\ db'[pos[i]] = db[i]
    BY DEF Moves
  <2>. QED
    BY <1>1, <2>1 DEF Distinct
<1>. QED
  BY <1>1, <1>2, MembersAre, MembersNext

\* The choicepoints of a step that moves clauses.
LEMMA CursorsMove ==
  ASSUME FramesIn(db), NEW pos, Follows(pos)
  PROVE  /\ Len(frames) \in Nat
         /\ AbsCursors = [n \in 1 .. Len(frames) |->
              [goal |-> frames[n].goal, rest |-> Rest(frames[n].goal, frames[n].idx, db)]]
         /\ AbsCursors' = [n \in 1 .. Len(frames) |->
              [goal |-> frames[n].goal, rest |-> Rest(frames[n].goal, pos[frames[n].idx], db')]]
         /\ \A n \in 1 .. Len(frames) : frames[n].idx \in 1 .. Len(db) + 1
<1>1. Len(frames) \in Nat
  BY LenProperties DEF FramesIn
<1>2. /\ Len(frames') = Len(frames)
      /\ frames' = [n \in 1 .. Len(frames) |-> [goal |-> frames[n].goal, idx |-> pos[frames[n].idx]]]
  BY DEF Follows
<1>3. \A n \in 1 .. Len(frames) : frames'[n].goal = frames[n].goal /\ frames'[n].idx = pos[frames[n].idx]
  BY ONLY <1>2
<1>4. \A n \in 1 .. Len(frames) : frames[n].idx \in 1 .. Len(db) + 1
  <2> TAKE n \in 1 .. Len(frames)
  <2>1. frames[n] \in [goal : Goals, idx : 1 .. Len(db) + 1]
    BY ElementOfSeq DEF FramesIn
  <2>. QED
    BY ONLY <2>1
<1>5. Cursors(frames', db') = [n \in 1 .. Len(frames) |->
        [goal |-> frames[n].goal, rest |-> Rest(frames[n].goal, pos[frames[n].idx], db')]]
  BY ONLY <1>2, <1>3 DEF Cursors
<1>. QED
  BY <1>1, <1>4, <1>5, CursorsAre, CursorsNext DEF Cursors
LEMMA RestSet ==
  ASSUME NEW G, NEW T, NEW r \in [goal : G, rest : T], NEW S
  PROVE  [r EXCEPT !.rest = S] = [goal |-> r.goal, rest |-> S]
OBVIOUS

\* A clause added last is seen by the choicepoints whose goal it can match.
LEMMA AddsLast ==
  ASSUME DbInv, DbInv', NEW pos, Moves(pos, LiveSlots(db), {Len(db) + 1}), Follows(pos),
         \A i \in 1 .. Len(db) + 1 : pos[i] = i
  PROVE  \E c \in Promise!Members' \ Promise!Members : Promise!AddLast(c)
<1>1. SlotsOK(db) /\ FramesIn(db) /\ Len(db) \in Nat
  BY Have
<1>2. SlotsOK(db') /\ Distinct(db')
  BY DEF DbInv, TypeOK, SlotsOK, Clause
<1>3. PICK c, m, L : c = db'[m] /\ m = Len(db) + 1 /\ L = LiveSlots(db)
  OBVIOUS
<1>4. c \in Promise!Members' \ Promise!Members
  BY <1>1, <1>2, <1>3, NewIsNew
<1>5. Listing' = Append(Listing, c)
  <2>1. PICK moved : moved = {pos[i] : i \in L}
    OBVIOUS
  <2>2. Moves(pos, L, {m})
    BY <1>3
  <2>3. /\ moved \subseteq Int /\ IsFiniteSet(moved) /\ LiveSlots(db') = moved \cup {m}
        /\ Selected(db', moved) = Selected(db, L)
    BY ONLY <1>1, <2>1, <2>2, KeptMoves
  <2>4. m \in Int /\ \A i \in moved : i < m
    <3>1. \A i \in L : pos[i] = i /\ i < m
      BY <1>1, <1>3 DEF LiveSlots
    <3>. QED
      BY <1>1, <1>3, <2>1, <3>1
  <2>5. Selected(db', moved \cup {m}) = Append(Selected(db', moved), db'[m])
    BY ONLY <2>3, <2>4, SelectedLast
  <2>. QED
    BY <1>3, <2>3, <2>5, ListingNext DEF Listing
<1>6. /\ Len(frames) \in Nat
      /\ AbsCursors = [n \in 1 .. Len(frames) |->
           [goal |-> frames[n].goal, rest |-> Rest(frames[n].goal, frames[n].idx, db)]]
      /\ AbsCursors' = [n \in 1 .. Len(frames) |->
           [goal |-> frames[n].goal, rest |-> Rest(frames[n].goal, pos[frames[n].idx], db')]]
      /\ \A n \in 1 .. Len(frames) : frames[n].idx \in 1 .. Len(db) + 1
  BY <1>1, CursorsMove
<1>7. ASSUME NEW goal, NEW idx \in 1 .. Len(db) + 1
      PROVE  Rest(goal, pos[idx], db') =
               IF Listed(goal, c) THEN Rest(goal, idx, db) \cup {c} ELSE Rest(goal, idx, db)
  <2>1. \A x : x \in Rest(goal, pos[idx], db') <=>
          /\ Listed(goal, x)
          /\ \/ \E i \in L : i >= idx /\ x = db[i]
             \/ \E n \in {m} : n >= pos[idx] /\ x = db'[n]
    <3> TAKE x
    <3>1. PICK new : new = {m} /\ Moves(pos, L, new)
      BY <1>3
    <3>2. x \in Rest(goal, pos[idx], db') <=> Reaches(goal, idx, x, pos, L, new)
      BY ONLY <1>1, <3>1, idx \in 1 .. Len(db) + 1, RestMoves
    <3>. QED
      BY ONLY <3>1, <3>2 DEF Reaches
  <2>2. m >= pos[idx]
    BY <1>1, <1>3
  <2>3. \A x : x \in Rest(goal, idx, db) <=> Listed(goal, x) /\ \E i \in L : i >= idx /\ x = db[i]
    BY <1>3 DEF Rest
  <2>4. \A x : x \in Rest(goal, pos[idx], db') <=>
                 x \in Rest(goal, idx, db) \/ (x = c /\ Listed(goal, x))
    BY ONLY <1>3, <2>1, <2>2, <2>3
  <2>. QED
    BY <2>4
<1>8. AbsCursors' = [n \in 1 .. Len(AbsCursors) |->
        IF Listed(AbsCursors[n].goal, c) THEN [AbsCursors[n] EXCEPT !.rest = @ \cup {c}]
        ELSE AbsCursors[n]]
  <2>1. Len(AbsCursors) = Len(frames)
    BY ONLY <1>6
  <2>2. ASSUME NEW n \in 1 .. Len(frames)
        PROVE  [goal |-> frames[n].goal, rest |-> Rest(frames[n].goal, pos[frames[n].idx], db')] =
                 IF Listed(AbsCursors[n].goal, c) THEN [AbsCursors[n] EXCEPT !.rest = @ \cup {c}]
                 ELSE AbsCursors[n]
    <3>1. PICK g, R, S : g = frames[n].goal /\ R = Rest(g, frames[n].idx, db)
                         /\ S = Rest(g, pos[frames[n].idx], db')
      OBVIOUS
    <3>2. AbsCursors[n] = [goal |-> g, rest |-> R]
      BY ONLY <1>6, <3>1, n \in 1 .. Len(frames)
    <3>3. S = IF Listed(g, c) THEN R \cup {c} ELSE R
      BY <1>6, <1>7, <3>1
    <3>4. [goal |-> g, rest |-> S] = IF Listed(AbsCursors[n].goal, c)
             THEN [AbsCursors[n] EXCEPT !.rest = @ \cup {c}] ELSE AbsCursors[n]
      <4>1. PICK r : r = AbsCursors[n]
        OBVIOUS
      <4>2. r.goal = g /\ r.rest = R
        BY ONLY <3>2, <4>1
      <4>3. [r EXCEPT !.rest = R \cup {c}] = [goal |-> g, rest |-> R \cup {c}]
        <5>1. PICK G, T : G = {g} /\ T = {R}
          OBVIOUS
        <5>2. r \in [goal : G, rest : T]
          BY ONLY <3>2, <4>1, <5>1
        <5>. QED
          BY ONLY <4>2, <5>2, RestSet
      <4>. QED
        BY ONLY <3>2, <3>3, <4>1, <4>2, <4>3
    <3>. QED
      BY ONLY <3>1, <3>4
  <2>. QED
    BY ONLY <1>6, <2>1, <2>2
<1>9. Promise!AddLast(c)
  BY ONLY <1>5, <1>8 DEF Promise!AddLast, Listing
<1>. QED
  BY <1>4, <1>9

\* One added first is seen by none.
LEMMA AddsFirst ==
  ASSUME DbInv, DbInv', NEW pos, Moves(pos, LiveSlots(db), {1}), Follows(pos),
         \A i \in 1 .. Len(db) + 1 : pos[i] = i + 1
  PROVE  \E c \in Promise!Members' \ Promise!Members : Promise!AddFirst(c)
<1>1. SlotsOK(db) /\ FramesIn(db) /\ Len(db) \in Nat
  BY Have
<1>2. SlotsOK(db') /\ Distinct(db')
  BY DEF DbInv, TypeOK, SlotsOK, Clause
<1>3. PICK c, m, L : c = db'[m] /\ m = 1 /\ L = LiveSlots(db)
  OBVIOUS
<1>4. c \in Promise!Members' \ Promise!Members
  BY <1>1, <1>2, <1>3, NewIsNew
<1>5. Listing' = <<c>> \o Listing
  <2>1. PICK moved : moved = {pos[i] : i \in L}
    OBVIOUS
  <2>2. Moves(pos, L, {m})
    BY <1>3
  <2>3. /\ moved \subseteq Int /\ IsFiniteSet(moved) /\ LiveSlots(db') = moved \cup {m}
        /\ Selected(db', moved) = Selected(db, L)
    BY ONLY <1>1, <2>1, <2>2, KeptMoves
  <2>4. m \in Int /\ \A i \in moved : m < i
    <3>1. \A i \in L : pos[i] = i + 1 /\ m < i + 1
      BY <1>1, <1>3 DEF LiveSlots
    <3>. QED
      BY <1>1, <1>3, <2>1, <3>1
  <2>5. Selected(db', {m} \cup moved) = <<db'[m]>> \o Selected(db', moved)
    BY ONLY <2>3, <2>4, SelectedFirst
  <2>6. moved \cup {m} = {m} \cup moved
    OBVIOUS
  <2>. QED
    BY <1>3, <2>3, <2>5, <2>6, ListingNext DEF Listing
<1>6. /\ Len(frames) \in Nat
      /\ AbsCursors = [n \in 1 .. Len(frames) |->
           [goal |-> frames[n].goal, rest |-> Rest(frames[n].goal, frames[n].idx, db)]]
      /\ AbsCursors' = [n \in 1 .. Len(frames) |->
           [goal |-> frames[n].goal, rest |-> Rest(frames[n].goal, pos[frames[n].idx], db')]]
      /\ \A n \in 1 .. Len(frames) : frames[n].idx \in 1 .. Len(db) + 1
  BY <1>1, CursorsMove
<1>7. ASSUME NEW goal, NEW idx \in 1 .. Len(db) + 1
      PROVE  Rest(goal, pos[idx], db') = Rest(goal, idx, db)
  <2>1. \A x : x \in Rest(goal, pos[idx], db') <=>
          /\ Listed(goal, x)
          /\ \/ \E i \in L : i >= idx /\ x = db[i]
             \/ \E n \in {m} : n >= pos[idx] /\ x = db'[n]
    <3> TAKE x
    <3>1. PICK new : new = {m} /\ Moves(pos, L, new)
      BY <1>3
    <3>2. x \in Rest(goal, pos[idx], db') <=> Reaches(goal, idx, x, pos, L, new)
      BY ONLY <1>1, <3>1, idx \in 1 .. Len(db) + 1, RestMoves
    <3>. QED
      BY ONLY <3>1, <3>2 DEF Reaches
  <2>2. ~(m >= pos[idx])
    BY <1>1, <1>3
  <2>3. \A x : x \in Rest(goal, idx, db) <=> Listed(goal, x) /\ \E i \in L : i >= idx /\ x = db[i]
    BY <1>3 DEF Rest
  <2>4. \A x : x \in Rest(goal, pos[idx], db') <=> x \in Rest(goal, idx, db)
    BY ONLY <2>1, <2>2, <2>3
  <2>. QED
    BY <2>4
<1>8. AbsCursors' = AbsCursors
  <2>1. \A n \in 1 .. Len(frames) :
          Rest(frames[n].goal, pos[frames[n].idx], db') = Rest(frames[n].goal, frames[n].idx, db)
    BY <1>6, <1>7
  <2>. QED
    BY ONLY <1>6, <2>1
<1>9. Promise!AddFirst(c)
  BY ONLY <1>5, <1>8 DEF Promise!AddFirst, Listing
<1>. QED
  BY <1>4, <1>9
\* Those that are not kept leave the list and every choicepoint.
LEMMA Removes ==
  ASSUME DbInv, DbInv', NEW pos, NEW kept, Moves(pos, kept, {}), Follows(pos)
  PROVE  Promise!Remove(Promise!Members \ Promise!Members')
<1>1. SlotsOK(db) /\ FramesIn(db) /\ Len(db) \in Nat /\ Distinct(db)
  BY Have DEF DbInv
<1>2. SlotsOK(db')
  BY DEF DbInv, TypeOK, SlotsOK, Clause
<1>3. PICK L, gone : L = LiveSlots(db) /\ gone = Promise!Members \ Promise!Members'
  OBVIOUS
<1>4. PICK moved, none : moved = {pos[i] : i \in kept} /\ none = {}
  OBVIOUS
<1>5. Moves(pos, kept, none)
  BY <1>4
<1>6. /\ LiveSlots(db') = moved \cup none /\ Selected(db', moved) = Selected(db, kept)
  BY ONLY <1>1, <1>4, <1>5, KeptMoves
<1>7. /\ kept \subseteq L /\ L \subseteq Int /\ IsFiniteSet(L) /\ IsFiniteSet(kept)
      /\ \A i \in kept : db'[pos[i]] = db[i]
  <2>1. kept \subseteq L /\ \A i \in kept : db'[pos[i]] = db[i]
    BY <1>3 DEF Moves
  <2>2. L \subseteq Int /\ IsFiniteSet(L)
    BY <1>1, <1>3, LiveFinite
  <2>. QED
    BY <2>1, <2>2, FS_Subset
<1>8. \A x : x \in Promise!Members <=> \E i \in L : x = db[i]
  BY <1>1, <1>3, MembersAre
<1>9. \A x : x \in Promise!Members' <=> \E i \in kept : x = db[i]
  <2>1. Promise!Members' = {db'[i] : i \in moved}
    BY <1>2, <1>4, <1>6, MembersNext
  <2>2. \A x : x \in Promise!Members' <=> \E i \in moved : x = db'[i]
    BY ONLY <2>1
  <2>3. \A m \in moved : \E i \in kept : m = pos[i]
    BY <1>4
  <2>4. \A i \in kept : pos[i] \in moved
    BY <1>4
  <2>5. \A i \in kept : db'[pos[i]] = db[i]
    BY ONLY <1>7
  <2>6. ASSUME NEW x, x \in Promise!Members'
        PROVE  \E i \in kept : x = db[i]
    BY ONLY <2>2, <2>3, <2>5, <2>6
  <2>7. ASSUME NEW i \in kept
        PROVE  db[i] \in Promise!Members'
    BY ONLY <2>2, <2>4, <2>5, <2>7
  <2>. QED
    BY ONLY <2>6, <2>7
<1>10. \A i \in L : db[i] \in gone <=> i \notin kept
  <2> TAKE i \in L
  <2>1. \A k \in kept : db[k] = db[i] => k = i
    BY <1>1, <1>3, <1>7 DEF Distinct
  <2>. QED
    BY ONLY <1>3, <1>8, <1>9, <2>1, i \in L
<1>11. \A m, n \in 1 .. Len(Listing') : m < n => Promise!At(Listing'[m]) < Promise!At(Listing'[n])
  <2> TAKE m, n \in 1 .. Len(Listing')
  <2> SUFFICES ASSUME m < n
               PROVE  Promise!At(Listing'[m]) < Promise!At(Listing'[n])
    OBVIOUS
  <2>1. Listing' = Selected(db, kept) /\ kept \subseteq Int
    BY <1>4, <1>6, <1>7, ListingNext
  <2>2. Len(Listing') = Cardinality(kept)
    BY <1>7, <2>1, SelectedLen
  <2>3. PICK i, k : i = Nth(kept, m) /\ k = Nth(kept, n)
    OBVIOUS
  <2>4. Listing'[m] = db[i] /\ i \in kept /\ Listing'[n] = db[k] /\ k \in kept
    <3>1. /\ m \in 1 .. Cardinality(kept) /\ n \in 1 .. Cardinality(kept)
          /\ kept \subseteq Int /\ IsFiniteSet(kept)
      BY <1>7, <2>1, <2>2
    <3>2. Selected(db, kept)[m] = db[Nth(kept, m)] /\ Nth(kept, m) \in kept
      BY ONLY <3>1, SelectedAt
    <3>3. Selected(db, kept)[n] = db[Nth(kept, n)] /\ Nth(kept, n) \in kept
      BY ONLY <3>1, SelectedAt
    <3>. QED
      BY ONLY <2>1, <2>3, <3>2, <3>3
  <2>5. i < k
    BY <1>7, <2>1, <2>2, <2>3, NthIncreases
  <2>6. i \in L /\ k \in L
    BY <1>7, <2>4
  <2>7. Promise!At(db[i]) < Promise!At(db[k])
    BY <1>1, <1>3, <2>5, <2>6, AtOrder
  <2>. QED
    BY ONLY <2>4, <2>7
<1>12. /\ Len(frames) \in Nat
       /\ AbsCursors = [n \in 1 .. Len(frames) |->
            [goal |-> frames[n].goal, rest |-> Rest(frames[n].goal, frames[n].idx, db)]]
       /\ AbsCursors' = [n \in 1 .. Len(frames) |->
            [goal |-> frames[n].goal, rest |-> Rest(frames[n].goal, pos[frames[n].idx], db')]]
       /\ \A n \in 1 .. Len(frames) : frames[n].idx \in 1 .. Len(db) + 1
  BY <1>1, CursorsMove
<1>13. ASSUME NEW goal, NEW idx \in 1 .. Len(db) + 1
       PROVE  Rest(goal, pos[idx], db') = Rest(goal, idx, db) \ gone
  <2>1. \A x : x \in Rest(goal, pos[idx], db') <=> Listed(goal, x) /\ \E i \in kept : i >= idx /\ x = db[i]
    <3> TAKE x
    <3>1. x \in Rest(goal, pos[idx], db') <=> Reaches(goal, idx, x, pos, kept, none)
      BY ONLY <1>1, <1>5, idx \in 1 .. Len(db) + 1, RestMoves
    <3>. QED
      BY ONLY <1>4, <3>1 DEF Reaches
  <2>2. \A x : x \in Rest(goal, idx, db) <=> Listed(goal, x) /\ \E i \in L : i >= idx /\ x = db[i]
    BY <1>3 DEF Rest
  <2>3. \A x : x \in Rest(goal, pos[idx], db') <=> x \in Rest(goal, idx, db) /\ x \notin gone
    BY ONLY <1>7, <1>10, <2>1, <2>2
  <2>. QED
    BY <2>3
<1>14. AbsCursors' = [n \in 1 .. Len(AbsCursors) |-> [AbsCursors[n] EXCEPT !.rest = @ \ gone]]
  <2>1. Len(AbsCursors) = Len(frames)
    BY ONLY <1>12
  <2>2. ASSUME NEW n \in 1 .. Len(frames)
        PROVE  [goal |-> frames[n].goal, rest |-> Rest(frames[n].goal, pos[frames[n].idx], db')] =
                 [AbsCursors[n] EXCEPT !.rest = @ \ gone]
    <3>1. PICK g, R, S : g = frames[n].goal /\ R = Rest(g, frames[n].idx, db)
                         /\ S = Rest(g, pos[frames[n].idx], db')
      OBVIOUS
    <3>2. AbsCursors[n] = [goal |-> g, rest |-> R]
      BY ONLY <1>12, <3>1, n \in 1 .. Len(frames)
    <3>3. S = R \ gone
      BY <1>12, <1>13, <3>1
    <3>4. PICK r, G, T : r = AbsCursors[n] /\ G = {g} /\ T = {R}
      OBVIOUS
    <3>5. r \in [goal : G, rest : T] /\ r.goal = g /\ r.rest = R
      BY ONLY <3>2, <3>4
    <3>6. [r EXCEPT !.rest = S] = [goal |-> r.goal, rest |-> S]
      BY ONLY <3>5, RestSet
    <3>. QED
      BY ONLY <3>1, <3>3, <3>4, <3>5, <3>6
  <2>. QED
    BY ONLY <1>12, <2>1, <2>2
<1>15. Promise!Members' = Promise!Members \ gone
  BY <1>3, <1>7, <1>8, <1>9
<1>16. Promise!Remove(gone)
  BY ONLY <1>11, <1>14, <1>15 DEF Promise!Remove, Listing
<1>. QED
  BY <1>3, <1>16

(***************************************************************************)
(* Searching.                                                              *)
(***************************************************************************)
LEMMA CursorsAppend ==
  ASSUME NEW T, NEW older \in Seq(T), NEW f, NEW d
  PROVE  Cursors(Append(older, f), d) =
           Append(Cursors(older, d), [goal |-> f.goal, rest |-> Rest(f.goal, f.idx, d)])
<1>1. PICK s, n : s = Append(older, f) /\ n = Len(older)
  OBVIOUS
<1>2. n \in Nat /\ Len(s) = n + 1 /\ s[n + 1] = f /\ \A m \in 1 .. n : s[m] = older[m]
  BY <1>1, LenProperties
<1>3. Cursors(s, d) = [m \in 1 .. n + 1 |-> [goal |-> s[m].goal, rest |-> Rest(s[m].goal, s[m].idx, d)]]
  BY <1>2 DEF Cursors
<1>4. PICK C, r : C = Cursors(older, d) /\ r = [goal |-> f.goal, rest |-> Rest(f.goal, f.idx, d)]
  OBVIOUS
<1>5. C = [m \in 1 .. n |-> [goal |-> older[m].goal, rest |-> Rest(older[m].goal, older[m].idx, d)]]
  BY <1>1, <1>4 DEF Cursors
<1>6. Len(C) = n
  BY ONLY <1>2, <1>5
<1>7. Append(C, r) = [m \in 1 .. n + 1 |-> IF m <= n THEN C[m] ELSE r]
  BY ONLY <1>2, <1>5, <1>6
<1>8. \A m \in 1 .. n + 1 :
        [goal |-> s[m].goal, rest |-> Rest(s[m].goal, s[m].idx, d)] = IF m <= n THEN C[m] ELSE r
  BY ONLY <1>2, <1>4, <1>5
<1>. QED
  BY ONLY <1>1, <1>3, <1>4, <1>7, <1>8

LEMMA CursorsPrefix ==
  ASSUME NEW T, NEW f \in Seq(T), NEW n \in 0 .. Len(f), NEW d
  PROVE  Cursors(SubSeq(f, 1, n), d) = SubSeq(Cursors(f, d), 1, n)
<1>1. PICK s : s = SubSeq(f, 1, n)
  OBVIOUS
<1>2. Len(f) \in Nat /\ n \in Nat /\ Len(s) = n /\ \A m \in 1 .. n : s[m] = f[m] /\ m \in 1 .. Len(f)
  BY <1>1, LenProperties, PrefixSeq
<1>3. Cursors(s, d) = [m \in 1 .. n |-> [goal |-> s[m].goal, rest |-> Rest(s[m].goal, s[m].idx, d)]]
  BY <1>2 DEF Cursors
<1>4. PICK C : C = Cursors(f, d)
  OBVIOUS
<1>5. C = [m \in 1 .. Len(f) |-> [goal |-> f[m].goal, rest |-> Rest(f[m].goal, f[m].idx, d)]]
  BY <1>4 DEF Cursors
<1>6. SubSeq(C, 1, n) = [m \in 1 .. n |-> C[m]]
  BY ONLY <1>2, <1>5
<1>. QED
  BY ONLY <1>1, <1>2, <1>3, <1>4, <1>5, <1>6

\* Label B finds the clause and the choicepoint that the promise allows.
LEMMA ResolvesKeep ==
  ASSUME DbInv, db' = db, NEW goal \in Goals, NEW from \in Int, NEW older, FramesOK(older),
         Resolves(goal, from, older)
  PROVE  Promise!Resolve(goal, Rest(goal, from, db), Cursors(older, db))
<1>1. PICK x \in LiveSlots(db) :
        /\ from <= x /\ Listed(goal, db[x])
        /\ \/ /\ frames' = older
              /\ \A y \in LiveSlots(db) : Listed(goal, db[y]) => y <= x
           \/ \E y \in LiveSlots(db) :
                /\ x < y /\ Listed(goal, db[y])
                /\ \A z \in LiveSlots(db) : Listed(goal, db[z]) => z <= x \/ y <= z
                /\ frames' = Append(older, [goal |-> goal, idx |-> y])
  BY DEF Resolves
<1>2. PICK L, R, c, more : /\ L = LiveSlots(db) /\ R = Rest(goal, from, db) /\ c = db[x]
                           /\ more = Promise!After(c, R)
  OBVIOUS
<1>3. SlotsOK(db) /\ Distinct(db) /\ \A i \in L : i \in Int
  BY <1>2, Have, LiveFinite DEF DbInv
<1>4. \A d : d \in R <=> Listed(goal, d) /\ \E z \in L : z >= from /\ d = db[z]
  BY <1>2 DEF Rest
<1>5. c \in R
  BY ONLY <1>1, <1>2, <1>3, <1>4, from \in Int
<1>6. \A z \in L : Promise!At(db[x]) < Promise!At(db[z]) <=> x < z
  BY <1>1, <1>2, <1>3, AtOrder
<1>7. \A d : d \in more <=> d \in R /\ Promise!At(d) > Promise!At(c)
  BY <1>2 DEF Promise!After
<1>8. \A d : d \in more <=> Listed(goal, d) /\ \E z \in L : x < z /\ d = db[z]
  <2>1. \A z \in L : Promise!At(db[z]) > Promise!At(c) <=> x < z
    <3>1. \A z \in L : Promise!At(db[z]) \in Int /\ Promise!At(c) \in Int
      BY <1>1, <1>2, <1>3, AtOrder
    <3>. QED
      BY ONLY <1>2, <1>6, <3>1
  <2>. QED
    BY ONLY <1>1, <1>2, <1>3, <1>4, <1>7, <2>1, from \in Int
<1>9. AbsCursors' = Cursors(frames', db)
  BY CursorsNext
<1>10. CASE frames' = older /\ \A y \in L : Listed(goal, db[y]) => y <= x
  <2>1. more = {}
    <3>1. \A d : d \notin more
      BY ONLY <1>1, <1>2, <1>3, <1>8, <1>10
    <3>. QED
      BY <3>1
  <2>. QED
    BY <1>2, <1>5, <1>9, <1>10, <2>1 DEF Promise!Resolve
<1>11. CASE \E y \in L : /\ x < y /\ Listed(goal, db[y])
                         /\ \A z \in L : Listed(goal, db[z]) => z <= x \/ y <= z
                         /\ frames' = Append(older, [goal |-> goal, idx |-> y])
  <2>1. PICK y \in L : /\ x < y /\ Listed(goal, db[y])
                       /\ \A z \in L : Listed(goal, db[z]) => z <= x \/ y <= z
                       /\ frames' = Append(older, [goal |-> goal, idx |-> y])
    BY <1>11
  <2>2. more = Rest(goal, y, db)
    <3>1. \A d : d \in Rest(goal, y, db) <=> Listed(goal, d) /\ \E z \in L : z >= y /\ d = db[z]
      BY <1>2 DEF Rest
    <3>2. \A d : d \in more <=> d \in Rest(goal, y, db)
      BY ONLY <1>1, <1>2, <1>3, <1>8, <2>1, <3>1
    <3>. QED
      BY <3>2
  <2>3. more # {}
    <3>1. db[y] \in more
      BY ONLY <1>8, <2>1
    <3>. QED
      BY <3>1
  <2>4. PICK f : f = [goal |-> goal, idx |-> y]
    OBVIOUS
  <2>5. frames' = Append(older, f) /\ f.goal = goal /\ f.idx = y
    BY ONLY <2>1, <2>4
  <2>6. PICK T : older \in Seq(T)
    BY DEF FramesOK
  <2>7. Cursors(Append(older, f), db) =
          Append(Cursors(older, db), [goal |-> f.goal, rest |-> Rest(f.goal, f.idx, db)])
    BY ONLY <2>6, CursorsAppend
  <2>8. AbsCursors' = Append(Cursors(older, db), [goal |-> goal, rest |-> more])
    BY ONLY <1>9, <2>2, <2>5, <2>7
  <2>. QED
    BY ONLY <1>2, <1>5, <2>3, <2>8 DEF Promise!Resolve
<1>. QED
  BY <1>1, <1>2, <1>10, <1>11

LEMMA CallKeeps ==
  ASSUME DbInv, NEW p \in UserPreds, NEW k \in Keys, Call(p, k)
  PROVE  Promise!Next \/ UNCHANGED Promise!vars
<1>1. PICK goal : goal = [pred |-> p, key |-> k]
  OBVIOUS
<1>2. goal \in Goals /\ db' = db /\ Try(goal, 1, frames)
  BY <1>1 DEF Call, Goals, tables
<1>3. 1 \in Nat \ {0} /\ 1 \in Int
  OBVIOUS
<1>4. Resolves(goal, 1, frames)
  BY ONLY <1>2, <1>3, DbInv, TryIs
<1>5. FramesOK(frames) /\ SlotsOK(db)
  BY FramesNow, Have
<1>6. Listing' = Listing
  BY <1>2, ListingNext DEF Listing
<1>7. CASE frames' = frames
  <2>1. AbsCursors' = AbsCursors
    BY <1>2, <1>7, CursorsAre, CursorsNext
  <2>. QED
    BY <1>6, <2>1 DEF Promise!vars, Listing
<1>8. CASE \E y : frames' = Append(frames, [goal |-> goal, idx |-> y])
  <2>1. PICK y, f : f = [goal |-> goal, idx |-> y] /\ frames' = Append(frames, f)
    BY <1>8
  <2>2. PICK T : frames \in Seq(T)
    BY <1>5 DEF FramesOK
  <2>3. PICK n : n = Len(frames) + 1
    OBVIOUS
  <2>4. Len(frames') = n /\ n \in 1 .. n /\ frames'[n] = f /\ f.goal = goal
    BY ONLY <2>1, <2>2, <2>3, LenProperties, AppendProperties
  <2>5. Len(AbsCursors') = n /\ AbsCursors'[n].goal = goal
    BY ONLY <2>4, CursorsNext DEF Cursors
  <2>6. Rest(goal, 1, db) = {c \in Promise!Members : Listed(goal, c)}
    <3>1. \A i \in LiveSlots(db) : i >= 1
      BY DEF LiveSlots
    <3>2. Promise!Members = {db[i] : i \in LiveSlots(db)}
      BY ONLY <1>5, MembersAre
    <3>. QED
      BY ONLY <3>1, <3>2 DEF Rest
  <2>7. Promise!Resolve(goal, Rest(goal, 1, db), Cursors(frames, db))
    BY ONLY <1>2, <1>3, <1>4, <1>5, DbInv, ResolvesKeep
  <2>8. Promise!Start(AbsCursors'[n].goal)
    BY ONLY <2>5, <2>6, <2>7, CursorsAre DEF Promise!Start
  <2>9. Promise!Search
    BY ONLY <1>6, <2>4, <2>5, <2>8 DEF Promise!Search, Listing
  <2>. QED
    BY ONLY <2>9 DEF Promise!Next
<1>. QED
  BY <1>4, <1>7, <1>8 DEF Resolves

\* The choicepoints that a search leaves alone.
LEMMA OlderCursors ==
  ASSUME DbInv, NEW n \in 0 .. Len(frames)
  PROVE  Cursors(SubSeq(frames, 1, n), db) = SubSeq(AbsCursors, 1, n) /\ Len(AbsCursors) = Len(frames)
<1>1. FramesOK(frames)
  BY FramesNow
<1>2. PICK T : frames \in Seq(T)
  BY <1>1 DEF FramesOK
<1>3. Cursors(SubSeq(frames, 1, n), db) = SubSeq(Cursors(frames, db), 1, n)
  BY ONLY <1>2, n \in 0 .. Len(frames), CursorsPrefix
<1>4. Len(frames) \in Nat
  BY ONLY <1>2, LenProperties
<1>5. Len(Cursors(frames, db)) = Len(frames)
  BY ONLY <1>4 DEF Cursors
<1>. QED
  BY ONLY <1>3, <1>5, CursorsAre

LEMMA BacktrackKeeps ==
  ASSUME DbInv, Backtrack
  PROVE  Promise!Next
<1>1. db' = db /\ frames # <<>>
  BY DEF Backtrack, tables
<1>2. FramesOK(frames) /\ \A n \in 1 .. Len(frames) : frames[n].goal \in Goals /\ frames[n].idx \in Nat \ {0}
  BY FramesNow
<1>3. PICK n : n = Len(frames)
  OBVIOUS
<1>4. n \in 1 .. n /\ n - 1 \in 0 .. Len(frames)
  BY <1>1, <1>2, <1>3, EmptySeq, LenProperties DEF FramesOK
<1>5. PICK f, older : f = frames[n] /\ older = SubSeq(frames, 1, n - 1)
  OBVIOUS
<1>6. frames' = older \/ Try(f.goal, f.idx, older)
  BY <1>3, <1>5 DEF Backtrack
<1>7. FramesOK(older) /\ f.goal \in Goals /\ f.idx \in Nat \ {0} /\ f.idx \in Int
  BY <1>2, <1>3, <1>4, <1>5, CutIs
<1>8. PICK olderC : olderC = SubSeq(AbsCursors, 1, n - 1)
  OBVIOUS
<1>9. Cursors(older, db) = olderC /\ Len(AbsCursors) = n
  BY ONLY <1>3, <1>4, <1>5, <1>8, DbInv, OlderCursors
<1>10. AbsCursors[n].goal = f.goal /\ AbsCursors[n].rest = Rest(f.goal, f.idx, db)
  BY ONLY <1>3, <1>4, <1>5, CursorsAre DEF Cursors
<1>11. Listing' = Listing
  BY <1>1, ListingNext DEF Listing
<1>12. AbsCursors # <<>>
  BY <1>4, <1>9
<1>13. AbsCursors' = olderC \/ Promise!Resolve(AbsCursors[n].goal, AbsCursors[n].rest, olderC)
  <2>1. CASE frames' = older
    BY <1>1, <1>9, <2>1, CursorsNext
  <2>2. CASE Try(f.goal, f.idx, older)
    <3>1. Resolves(f.goal, f.idx, older)
      BY ONLY <1>7, <2>2, DbInv, TryIs
    <3>2. Promise!Resolve(f.goal, Rest(f.goal, f.idx, db), Cursors(older, db))
      BY ONLY <1>1, <1>7, <3>1, DbInv, ResolvesKeep
    <3>. QED
      BY ONLY <1>9, <1>10, <3>2
  <2>. QED
    BY <1>6, <2>1, <2>2
<1>14. Promise!Continue
  BY ONLY <1>8, <1>9, <1>12, <1>13 DEF Promise!Continue
<1>. QED
  BY ONLY <1>11, <1>14 DEF Promise!Next, Promise!Search, Listing

LEMMA CutKeeps ==
  ASSUME DbInv, NEW n \in 0 .. Len(frames), CutTo(n)
  PROVE  Promise!Next
<1>1. db' = db /\ frames' = SubSeq(frames, 1, n)
  BY DEF CutTo, tables
<1>2. Listing' = Listing
  BY <1>1, ListingNext DEF Listing
<1>3. n \in 0 .. Len(AbsCursors) /\ AbsCursors' = SubSeq(AbsCursors, 1, n)
  BY <1>1, OlderCursors, CursorsNext
<1>. QED
  BY ONLY <1>2, <1>3 DEF Promise!Next, Promise!Search, Promise!Cut, Listing

(***************************************************************************)
(* Changing the clauses.                                                   *)
(***************************************************************************)
LEMMA AddsKeep ==
  ASSUME DbInv, DbInv', NEW p \in Preds, NEW k \in Keys, NEW file \in Files \cup {NoFile},
         DbAdd(p, k, file) \/ DbAddFront(p, k)
  PROVE  Promise!Next
<1>1. Tables(db, bucket, dead) /\ FramesIn(db)
  BY Have
<1>2. CASE DbAdd(p, k, file)
  <2>1. PICK pos : /\ Moves(pos, LiveSlots(db), {Len(db) + 1}) /\ Follows(pos)
                   /\ \A i \in 1 .. Len(db) + 1 : pos[i] = i
    BY <1>1, <1>2, DbAddIs
  <2>2. \E c \in Promise!Members' \ Promise!Members : Promise!AddLast(c)
    BY ONLY <2>1, DbInv, DbInv', AddsLast
  <2>. QED
    BY ONLY <2>2 DEF Promise!Next
<1>3. CASE DbAddFront(p, k)
  <2>1. PICK pos : /\ Moves(pos, LiveSlots(db), {1}) /\ Follows(pos)
                   /\ \A i \in 1 .. Len(db) + 1 : pos[i] = i + 1
    BY <1>1, <1>3, DbAddFrontIs
  <2>2. \E c \in Promise!Members' \ Promise!Members : Promise!AddFirst(c)
    BY ONLY <2>1, DbInv, DbInv', AddsFirst
  <2>. QED
    BY ONLY <2>2 DEF Promise!Next
<1>. QED
  BY <1>2, <1>3

LEMMA RemoveKeeps ==
  ASSUME DbInv, DbInv', NEW gone \in SUBSET LiveSlots(db), Remove(gone)
  PROVE  Promise!Next
<1>1. Tables(db, bucket, dead) /\ FramesIn(db)
  BY Have
<1>2. PICK pos : Moves(pos, LiveSlots(db) \ gone, {}) /\ Follows(pos)
  BY <1>1, RemoveIs
<1>3. PICK kept : kept = LiveSlots(db) \ gone
  OBVIOUS
<1>4. Moves(pos, kept, {})
  BY <1>2, <1>3
<1>5. Promise!Remove(Promise!Members \ Promise!Members')
  BY ONLY <1>2, <1>4, DbInv, DbInv', Removes
<1>. QED
  BY ONLY <1>5 DEF Promise!Next

LEMMA SameKeeps ==
  ASSUME db' = db, frames' = frames
  PROVE  UNCHANGED Promise!vars
<1>1. Listing' = Listing /\ AbsCursors' = AbsCursors
  BY ListingNext, CursorsAre, CursorsNext DEF Listing
<1>. QED
  BY ONLY <1>1 DEF Promise!vars, Listing

LEMMA UnloadKeeps ==
  ASSUME DbInv, DbInv', NEW file, Unload(file)
  PROVE  Promise!Next
<1>1. PICK gone \in SUBSET LiveSlots(db) : Remove(gone)
  BY DEF Unload
<1>. QED
  BY ONLY <1>1, DbInv, DbInv', RemoveKeeps

LEMMA RetractKeeps ==
  ASSUME DbInv, DbInv', NEW p \in UserPreds, Retract(p)
  PROVE  Promise!Next
<1>1. PICK j \in 1 .. Len(bucket[p]) : Remove({bucket[p][j]})
  BY DEF Retract
<1>2. p \in Preds
  BY DEF UserPreds
<1>3. bucket[p][j] \in LiveSlots(db)
  BY <1>2, InBucket
<1>4. PICK gone \in SUBSET LiveSlots(db) : Remove(gone)
  BY <1>1, <1>3
<1>. QED
  BY ONLY <1>4, DbInv, DbInv', RemoveKeeps

(***************************************************************************)
(* The refinement.                                                         *)
(***************************************************************************)
LEMMA InitKeeps == Init => Promise!Init
BY DEF Promise!Init, Init, AbsCursors

LEMMA NextKeeps == DbInv /\ DbInv' /\ [Next]_vars => [Promise!Next]_(Promise!vars)
<1> SUFFICES ASSUME DbInv, DbInv', [Next]_vars
             PROVE  Promise!Next \/ UNCHANGED Promise!vars
  OBVIOUS
<1>1. ASSUME NEW p \in UserPreds, NEW k \in Keys, Assertz(p, k) \/ Asserta(p, k)
      PROVE  Promise!Next
  <2>1. p \in Preds /\ NoFile \in Files \cup {NoFile}
    BY DEF UserPreds
  <2>2. DbAdd(p, k, NoFile) \/ DbAddFront(p, k)
    BY <1>1 DEF Assertz, Asserta
  <2>. QED
    BY <2>1, <2>2, AddsKeep
<1>2. ASSUME NEW p \in UserPreds, Retract(p)
      PROVE  Promise!Next
  BY <1>2, RetractKeeps
<1>3. ASSUME NEW p \in UserPreds, NEW k \in Keys, LoadClause(p, k)
      PROVE  Promise!Next
  <2>1. p \in Preds /\ loading # <<>> /\ DbAdd(p, k, loading[Len(loading)])
    BY <1>3 DEF UserPreds, LoadClause
  <2>2. loading[Len(loading)] \in Files \cup {NoFile}
    BY <2>1, Have, EmptySeq, LenProperties, ElementOfSeq
  <2>. QED
    BY <2>1, <2>2, AddsKeep
<1>4. ASSUME NEW p \in UserPreds, NEW k \in Keys, Call(p, k)
      PROVE  Promise!Next \/ UNCHANGED Promise!vars
  BY <1>4, CallKeeps
<1>5. ASSUME NEW p \in UserPreds, Dynamic(p) \/ Undynamic(p)
      PROVE  UNCHANGED Promise!vars
  BY <1>5, SameKeeps DEF Dynamic, Undynamic, tables
<1>6. ASSUME NEW file \in Files \cup {NoFile}, Consult(file) \/ Unconsult(file)
      PROVE  Promise!Next \/ UNCHANGED Promise!vars
  <2>1. CASE Unload(file)
    BY <2>1, UnloadKeeps
  <2>2. CASE UNCHANGED <<tables, frames>>
    BY <2>2, SameKeeps DEF tables
  <2>. QED
    BY <1>6, <2>1, <2>2 DEF Consult, Unconsult
<1>7. CASE Loaded
  BY <1>7, SameKeeps DEF Loaded, tables
<1>8. CASE Backtrack
  BY <1>8, BacktrackKeeps
<1>9. ASSUME NEW n \in 0 .. Len(frames), CutTo(n)
      PROVE  Promise!Next
  BY <1>9, CutKeeps
<1>10. CASE UNCHANGED vars
  BY <1>10, SameKeeps DEF vars
<1>. QED
  BY <1>1, <1>2, <1>3, <1>4, <1>5, <1>6, <1>7, <1>8, <1>9, <1>10 DEF Next

\* Whatever is added at either end, killed, moved by a compaction or shifted by
\* asserta, the choicepoints of solve.c try each clause they owe and none twice:
\* the clause database implements the ordered list with cursors.
THEOREM Implements == Spec => KeepsPromise
BY InitKeeps, NextKeeps, SpecHolds, PTL DEF Spec, KeepsPromise, Promise!Spec
=============================================================================
