-------------------------------- MODULE Facts --------------------------------
(***************************************************************************)
(* Facts about numbers, finite sets and sequences that the theorems about  *)
(* several components need.                                                *)
(***************************************************************************)
EXTENDS Integers, FiniteSetsExt, Selection, SequenceTheorems, FiniteSetTheorems, TLAPS

\* A non-empty set of numbers has a least one.
LEMMA NatMin ==
  ASSUME NEW S, S \subseteq Nat, S # {}
  PROVE  \E m \in S : \A k \in S : m <= k
<1> DEFINE Below == {0 .. k : k \in S}
           R == StrictSubsetOrdering(Nat)
<1>1. IsWellFoundedOn(R, FiniteSubsetsOf(Nat))
  BY FS_StrictSubsetOrderingWellFounded
<1>2. Below \subseteq FiniteSubsetsOf(Nat) /\ Below # {}
  <2>1. ASSUME NEW k \in S
        PROVE  0 .. k \in FiniteSubsetsOf(Nat)
    <3>1. k \in Int /\ 0 .. k \subseteq Nat
      OBVIOUS
    <3>2. IsFiniteSet(0 .. k)
      BY <3>1, FS_Interval
    <3>. QED
      BY <3>1, <3>2 DEF FiniteSubsetsOf
  <2>. QED
    BY <2>1
<1>3. PICK B \in Below : \A C \in Below : ~(<<C, B>> \in R)
  <2> HIDE DEF Below, R
  <2>. QED
    BY <1>1, <1>2, WFMin
<1>4. PICK m \in S : B = 0 .. m
  OBVIOUS
<1>5. ASSUME NEW k \in S, k < m
      PROVE  FALSE
  <2>1. 0 .. k \in SUBSET Nat /\ 0 .. m \in SUBSET Nat /\ 0 .. k \subseteq 0 .. m
    BY <1>5
  <2>2. m \in 0 .. m /\ m \notin 0 .. k
    BY <1>5
  <2>3. <<0 .. k, 0 .. m>> \in R
    BY <2>1, <2>2 DEF StrictSubsetOrdering
  <2>. QED
    BY <1>3, <1>4, <2>3
<1>. QED
  BY <1>5

\* Min finds it.
LEMMA MinOfNats ==
  ASSUME NEW S, S \subseteq Nat, S # {}
  PROVE  Min(S) \in S /\ \A k \in S : Min(S) <= k
BY NatMin DEF Min

LEMMA TailSeq ==
  ASSUME NEW S, NEW s \in Seq(S), s # <<>>
  PROVE  Head(s) \in S /\ Tail(s) \in Seq(S)
BY HeadTailProperties

LEMMA ConcatSeq ==
  ASSUME NEW S, NEW s \in Seq(S), NEW t \in Seq(S)
  PROVE  s \o t \in Seq(S)
BY ConcatProperties

LEMMA PrefixSeq ==
  ASSUME NEW S, NEW s \in Seq(S), NEW n \in 0 .. Len(s)
  PROVE  /\ SubSeq(s, 1, n) \in Seq(S) /\ Len(SubSeq(s, 1, n)) = n
         /\ \A i \in 1 .. n : SubSeq(s, 1, n)[i] = s[i]
<1>1. Len(s) \in Nat /\ n \in Int /\ n \in Nat /\ 1 \in Int
  BY LenProperties
<1>2. \A i \in 1 .. n : s[i] \in S
  <2> TAKE i \in 1 .. n
  <2>1. i \in 1 .. Len(s)
    BY <1>1
  <2>. QED
    BY <2>1, ElementOfSeq
<1>3. /\ SubSeq(s, 1, n) \in Seq(S)
      /\ Len(SubSeq(s, 1, n)) = IF 1 <= n THEN n - 1 + 1 ELSE 0
      /\ \A i \in 1 .. n - 1 + 1 : SubSeq(s, 1, n)[i] = s[1 + i - 1]
  BY ONLY <1>1, <1>2, SubSeqProperties
<1>4. \A i \in 1 .. n : i \in 1 .. n - 1 + 1 /\ 1 + i - 1 = i
  BY <1>1
<1>. QED
  BY <1>1, <1>3, <1>4

LEMMA FrontIs ==
  ASSUME NEW T, NEW s \in Seq(T), NEW c \in T
  PROVE  /\ <<c>> \o s \in Seq(T) /\ Len(<<c>> \o s) = Len(s) + 1
         /\ (<<c>> \o s)[1] = c /\ \A i \in 1 .. Len(s) : (<<c>> \o s)[i + 1] = s[i]
<1>1. <<c>> \in Seq(T) /\ Len(<<c>>) = 1 /\ <<c>>[1] = c
  OBVIOUS
<1>2. /\ <<c>> \o s \in Seq(T) /\ Len(<<c>> \o s) = Len(<<c>>) + Len(s)
      /\ \A i \in 1 .. Len(<<c>>) + Len(s) : (<<c>> \o s)[i] =
           IF i <= Len(<<c>>) THEN <<c>>[i] ELSE s[i - Len(<<c>>)]
  BY <1>1, ConcatProperties
<1>3. Len(s) \in Nat
  BY LenProperties
<1>. QED
  BY <1>1, <1>2, <1>3

LEMMA SeqSubset ==
  ASSUME NEW S, NEW T, S \subseteq T, NEW s \in Seq(S)
  PROVE  s \in Seq(T)
BY SeqMonotonic

(***************************************************************************)
(* Numbers put in order, as Selection does it.                             *)
(***************************************************************************)
LEMMA UpTo ==
  ASSUME NEW n \in Nat
  PROVE  IsFiniteSet(1 .. n) /\ Cardinality(1 .. n) = n
<1>1. IsFiniteSet(1 .. n) /\ Cardinality(1 .. n) = IF 1 > n THEN 0 ELSE n - 1 + 1
  BY FS_Interval
<1>. QED
  BY ONLY <1>1, n \in Nat

LEMMA BelowType ==
  ASSUME NEW S, IsFiniteSet(S), NEW i
  PROVE  NumBelow(S, i) \in 0 .. Cardinality(S)
<1>1. {j \in S : j < i} \in SUBSET S
  OBVIOUS
<1>. QED
  BY <1>1, FS_Subset, FS_CardinalityType DEF NumBelow

LEMMA BelowMonotone ==
  ASSUME NEW S, S \subseteq Int, IsFiniteSet(S), NEW i \in Int, NEW k \in Int, i <= k
  PROVE  NumBelow(S, i) <= NumBelow(S, k)
<1>1. {j \in S : j < i} \in SUBSET {j \in S : j < k}
  <2>1. \A j \in S : j \in Int /\ (j < i => j < k)
    OBVIOUS
  <2>. QED
    BY ONLY <2>1
<1>2. {j \in S : j < k} \in SUBSET S
  OBVIOUS
<1>3. IsFiniteSet({j \in S : j < k})
  BY <1>2, FS_Subset
<1>. QED
  BY <1>1, <1>3, FS_Subset DEF NumBelow

\* A number counts for those above it.
LEMMA BelowStrict ==
  ASSUME NEW S, S \subseteq Int, IsFiniteSet(S), NEW i \in S, NEW k \in Int, i < k
  PROVE  NumBelow(S, i) < NumBelow(S, k)
<1>1. {j \in S : j < i} \cup {i} \in SUBSET {j \in S : j < k} /\ i \notin {j \in S : j < i}
  <2>1. \A j \in S : j \in Int /\ (j < i => j < k)
    OBVIOUS
  <2>2. i \in S /\ i < k /\ ~(i < i)
    BY <2>1
  <2>. QED
    BY ONLY <2>1, <2>2
<1>2. {j \in S : j < k} \in SUBSET S /\ {j \in S : j < i} \in SUBSET S
  OBVIOUS
<1>3. IsFiniteSet({j \in S : j < k}) /\ IsFiniteSet({j \in S : j < i})
  BY <1>2, FS_Subset
<1>4. Cardinality({j \in S : j < i}) \in Nat /\ Cardinality({j \in S : j < k}) \in Nat
  BY <1>3, FS_CardinalityType
<1>5. Cardinality({j \in S : j < i} \cup {i}) = Cardinality({j \in S : j < i}) + 1
  BY <1>1, <1>3, FS_AddElement
<1>6. Cardinality({j \in S : j < i} \cup {i}) <= Cardinality({j \in S : j < k})
  BY <1>1, <1>3, FS_Subset
<1>. QED
  BY <1>4, <1>5, <1>6 DEF NumBelow

LEMMA BelowInside ==
  ASSUME NEW S, S \subseteq Int, IsFiniteSet(S), NEW i \in S
  PROVE  NumBelow(S, i) \in 0 .. Cardinality(S) - 1
<1>1. {j \in S : j < i} \in SUBSET S /\ {j \in S : j < i} # S
  OBVIOUS
<1>2. NumBelow(S, i) <= Cardinality(S) /\ NumBelow(S, i) # Cardinality(S)
  BY <1>1, FS_Subset DEF NumBelow
<1>. QED
  BY <1>2, BelowType, FS_CardinalityType

\* Every place is taken.
LEMMA PlaceTaken ==
  ASSUME NEW S, S \subseteq Int, IsFiniteSet(S), NEW n \in 1 .. Cardinality(S)
  PROVE  \E i \in S : NumBelow(S, i) = n - 1
<1> DEFINE T == 0 .. Cardinality(S) - 1
           place == [i \in S |-> NumBelow(S, i)]
<1>1. Cardinality(S) \in Nat
  BY FS_CardinalityType
<1>2. IsFiniteSet(T) /\ Cardinality(T) = Cardinality(S)
  <2>1. 0 \in Int /\ Cardinality(S) - 1 \in Int
    BY <1>1
  <2>2. IsFiniteSet(T) /\ Cardinality(T) = IF 0 > Cardinality(S) - 1 THEN 0 ELSE Cardinality(S) - 1 - 0 + 1
    BY <2>1, FS_Interval
  <2>. QED
    BY <1>1, <2>2
<1>3. place \in [S -> T]
  BY BelowInside
<1>4. \A i, k \in S : place[i] = place[k] => i = k
  <2> TAKE i, k \in S
  <2>1. i < k => NumBelow(S, i) < NumBelow(S, k)
    BY BelowStrict
  <2>2. k < i => NumBelow(S, k) < NumBelow(S, i)
    BY BelowStrict
  <2>3. NumBelow(S, i) \in Int /\ NumBelow(S, k) \in Int
    BY BelowType
  <2>. QED
    BY <2>1, <2>2, <2>3
<1>5. place \in Injection(S, T)
  BY ONLY <1>3, <1>4 DEF Injection, IsInjective
<1>6. place \in Surjection(S, T)
  BY ONLY <1>2, <1>5, FS_Injection
<1>7. n - 1 \in T
  BY <1>1
<1>. QED
  BY <1>6, <1>7 DEF Surjection

LEMMA NthIs ==
  ASSUME NEW S, S \subseteq Int, IsFiniteSet(S), NEW n \in 1 .. Cardinality(S)
  PROVE  Nth(S, n) \in S /\ NumBelow(S, Nth(S, n)) = n - 1
BY PlaceTaken DEF Nth

LEMMA NthOf ==
  ASSUME NEW S, S \subseteq Int, IsFiniteSet(S), NEW i \in S
  PROVE  NumBelow(S, i) + 1 \in 1 .. Cardinality(S) /\ Nth(S, NumBelow(S, i) + 1) = i
<1>1. NumBelow(S, i) \in 0 .. Cardinality(S) - 1 /\ Cardinality(S) \in Nat
  BY BelowInside, FS_CardinalityType
<1>2. NumBelow(S, i) + 1 \in 1 .. Cardinality(S)
  BY <1>1
<1>3. PICK n, k : n \in 1 .. Cardinality(S) /\ n = NumBelow(S, i) + 1 /\ k = Nth(S, n)
  BY <1>2
<1>4. k \in S /\ NumBelow(S, k) = n - 1
  BY <1>3, NthIs
<1>5. k \in Int /\ i \in Int /\ NumBelow(S, k) = NumBelow(S, i)
  BY <1>1, <1>3, <1>4
<1>6. (k < i => NumBelow(S, k) < NumBelow(S, i)) /\ (i < k => NumBelow(S, i) < NumBelow(S, k))
  BY <1>4, <1>5, BelowStrict
<1>7. k = i
  BY ONLY <1>1, <1>5, <1>6
<1>. QED
  BY ONLY <1>2, <1>3, <1>7

LEMMA NthIncreases ==
  ASSUME NEW S, S \subseteq Int, IsFiniteSet(S), NEW m \in 1 .. Cardinality(S), NEW n \in 1 .. Cardinality(S)
  PROVE  m < n <=> Nth(S, m) < Nth(S, n)
<1>1. /\ Nth(S, m) \in S /\ NumBelow(S, Nth(S, m)) = m - 1
      /\ Nth(S, n) \in S /\ NumBelow(S, Nth(S, n)) = n - 1
  BY NthIs
<1>2. Nth(S, n) <= Nth(S, m) => NumBelow(S, Nth(S, n)) <= NumBelow(S, Nth(S, m))
  BY <1>1, BelowMonotone
<1>3. Nth(S, m) < Nth(S, n) => NumBelow(S, Nth(S, m)) < NumBelow(S, Nth(S, n))
  BY <1>1, BelowStrict
<1>4. Nth(S, m) \in Int /\ Nth(S, n) \in Int /\ m \in Int /\ n \in Int
  <2>1. Nth(S, m) \in Int /\ Nth(S, n) \in Int
    BY ONLY <1>1, S \subseteq Int
  <2>. QED
    BY <2>1
<1>. QED
  BY ONLY <1>1, <1>2, <1>3, <1>4

\* What is selected of a sequence.
LEMMA SelectedLen ==
  ASSUME NEW S, IsFiniteSet(S), NEW s
  PROVE  Cardinality(S) \in Nat /\ Len(Selected(s, S)) = Cardinality(S)
<1>1. Cardinality(S) \in Nat
  BY FS_CardinalityType
<1>. QED
  BY <1>1 DEF Selected

LEMMA SelectedAt ==
  ASSUME NEW S, S \subseteq Int, IsFiniteSet(S), NEW s, NEW n \in 1 .. Cardinality(S)
  PROVE  Selected(s, S)[n] = s[Nth(S, n)] /\ Nth(S, n) \in S
BY NthIs DEF Selected

LEMMA SelectedOf ==
  ASSUME NEW S, S \subseteq Int, IsFiniteSet(S), NEW s, NEW i \in S
  PROVE  NumBelow(S, i) + 1 \in 1 .. Cardinality(S) /\ Selected(s, S)[NumBelow(S, i) + 1] = s[i]
<1>1. NumBelow(S, i) + 1 \in 1 .. Cardinality(S) /\ Nth(S, NumBelow(S, i) + 1) = i
  BY NthOf
<1>2. Selected(s, S)[NumBelow(S, i) + 1] = s[Nth(S, NumBelow(S, i) + 1)]
  BY <1>1, SelectedAt
<1>. QED
  BY ONLY <1>1, <1>2

LEMMA SelectedSeq ==
  ASSUME NEW S, S \subseteq Int, IsFiniteSet(S), NEW T, NEW s, \A i \in S : s[i] \in T
  PROVE  Selected(s, S) \in Seq(T)
<1>1. Cardinality(S) \in Nat /\ \A n \in 1 .. Cardinality(S) : s[Nth(S, n)] \in T
  BY NthIs, FS_CardinalityType
<1>. QED
  BY <1>1 DEF Selected
(***************************************************************************)
(* What becomes of a selection when the sequence changes.                  *)
(***************************************************************************)
LEMMA ImageSize ==
  ASSUME NEW S, IsFiniteSet(S), NEW pos, \A i, k \in S : pos[i] = pos[k] => i = k,
         NEW M, M = {pos[i] : i \in S}
  PROVE  IsFiniteSet(M) /\ Cardinality(M) = Cardinality(S)
<1>1. PICK f : f = [i \in S |-> pos[i]]
  OBVIOUS
<1>2. f \in [S -> M] /\ \A i \in S : f[i] = pos[i]
  BY <1>1
<1>3. f \in Injection(S, M)
  BY <1>2 DEF Injection, IsInjective
<1>4. f \in Surjection(S, M)
  BY <1>2 DEF Surjection
<1>5. ExistsBijection(S, M)
  BY <1>3, <1>4 DEF ExistsBijection, Bijection
<1>. QED
  BY <1>5, FS_Bijection

\* pos takes the numbers S to the numbers M, and keeps their order.
Orders(pos, S, M) ==
  /\ \A i \in S : pos[i] \in Int /\ pos[i] \in M
  /\ \A i, k \in S : i < k => pos[i] < pos[k]
  /\ \A m \in M : \E i \in S : m = pos[i]

LEMMA OrdersBelow ==
  ASSUME NEW S, \A i \in S : i \in Int, IsFiniteSet(S), NEW pos, NEW M, Orders(pos, S, M)
  PROVE  /\ \A i, k \in S : pos[i] = pos[k] => i = k
         /\ M \subseteq Int /\ IsFiniteSet(M) /\ Cardinality(M) = Cardinality(S)
         /\ \A i \in S : NumBelow(M, pos[i]) = NumBelow(S, i)
<1> USE DEF Orders
<1>1. \A i, k \in S : i < k <=> pos[i] < pos[k]
  <2> TAKE i, k \in S
  <2>1. i \in Int /\ k \in Int /\ pos[i] \in Int /\ pos[k] \in Int
    OBVIOUS
  <2>2. (i < k => pos[i] < pos[k]) /\ (k < i => pos[k] < pos[i]) /\ (i = k => pos[i] = pos[k])
    OBVIOUS
  <2>. QED
    BY ONLY <2>1, <2>2
<1>2. \A i, k \in S : pos[i] = pos[k] => i = k
  <2> TAKE i, k \in S
  <2>1. i \in Int /\ k \in Int /\ pos[i] \in Int /\ pos[k] \in Int
    OBVIOUS
  <2>2. (i < k => pos[i] < pos[k]) /\ (k < i => pos[k] < pos[i])
    OBVIOUS
  <2>. QED
    BY ONLY <2>1, <2>2
<1>3. M \subseteq Int
  OBVIOUS
<1>4. IsFiniteSet(M) /\ Cardinality(M) = Cardinality(S)
  <2>1. M = {pos[i] : i \in S}
    OBVIOUS
  <2>. QED
    BY ONLY <1>2, <2>1, IsFiniteSet(S), ImageSize
<1>5. \A i \in S : NumBelow(M, pos[i]) = NumBelow(S, i)
  <2> TAKE i \in S
  <2>1. PICK A : A = {k \in S : k < i}
    OBVIOUS
  <2>2. {m \in M : m < pos[i]} = {pos[k] : k \in A}
    BY <1>1, <2>1
  <2>3. A \in SUBSET S /\ IsFiniteSet(A)
    BY <2>1, FS_Subset
  <2>4. \A j, k \in A : pos[j] = pos[k] => j = k
    BY <1>2, <2>3
  <2>5. Cardinality({m \in M : m < pos[i]}) = Cardinality(A)
    BY ONLY <2>2, <2>3, <2>4, ImageSize
  <2>. QED
    BY <2>1, <2>5 DEF NumBelow
<1>. QED
  BY ONLY <1>2, <1>3, <1>4, <1>5

\* pos takes the members of s at S to those of d at M, and keeps their order.
Carries(pos, S, s, M, d) ==
  /\ \A i \in S : pos[i] \in Int /\ pos[i] \in M /\ d[pos[i]] = s[i]
  /\ \A i, k \in S : i < k => pos[i] < pos[k]
  /\ \A m \in M : \E i \in S : m = pos[i]

LEMMA SelectedMoved ==
  ASSUME NEW S, \A i \in S : i \in Int, IsFiniteSet(S),
         NEW pos, NEW s, NEW M, NEW d, Carries(pos, S, s, M, d)
  PROVE  (\A m \in M : m \in Int) /\ IsFiniteSet(M) /\ Selected(d, M) = Selected(s, S)
<1>1. Orders(pos, S, M)
  BY DEF Carries, Orders
<1>3. M \subseteq Int /\ IsFiniteSet(M) /\ Cardinality(M) = Cardinality(S)
  BY <1>1, OrdersBelow
<1>5. \A i \in S : NumBelow(M, pos[i]) = NumBelow(S, i)
  BY <1>1, OrdersBelow
<1> USE DEF Carries
<1>6. \A n \in 1 .. Cardinality(S) : d[Nth(M, n)] = s[Nth(S, n)]
  <2> TAKE n \in 1 .. Cardinality(S)
  <2>1. PICK i : i = Nth(S, n)
    OBVIOUS
  <2>2. i \in S /\ NumBelow(S, i) = n - 1 /\ n \in Int
    <3>1. Nth(S, n) \in S /\ NumBelow(S, Nth(S, n)) = n - 1
      BY NthIs
    <3>. QED
      BY ONLY <2>1, <3>1, n \in 1 .. Cardinality(S)
  <2>3. pos[i] \in M /\ NumBelow(M, pos[i]) + 1 = n
    <3>1. pos[i] \in M /\ NumBelow(M, pos[i]) = n - 1
      BY <1>5, <2>2
    <3>. QED
      BY ONLY <2>2, <3>1
  <2>4. Nth(M, n) = pos[i]
    BY ONLY <1>3, <2>3, NthOf
  <2>. QED
    BY <2>1, <2>2, <2>4
<1>. QED
  BY <1>3, <1>6 DEF Selected

\* Members that are not selected do not matter.
LEMMA SelectedSame ==
  ASSUME NEW S, S \subseteq Int, IsFiniteSet(S), NEW s, NEW t, \A i \in S : s[i] = t[i]
  PROVE  Selected(s, S) = Selected(t, S)
<1>1. \A n \in 1 .. Cardinality(S) : s[Nth(S, n)] = t[Nth(S, n)]
  BY NthIs
<1>. QED
  BY <1>1 DEF Selected

\* It gets a last member.
LEMMA SelectedLast ==
  ASSUME NEW S, S \subseteq Int, IsFiniteSet(S), NEW m \in Int, \A i \in S : i < m, NEW s
  PROVE  Selected(s, S \cup {m}) = Append(Selected(s, S), s[m])
<1>1. PICK M : M = S \cup {m}
  OBVIOUS
<1>2. m \notin S /\ M \subseteq Int
  BY <1>1
<1>3. IsFiniteSet(M) /\ Cardinality(M) = Cardinality(S) + 1 /\ Cardinality(S) \in Nat
  BY <1>1, <1>2, FS_AddElement, FS_CardinalityType
<1>4. \A i \in S : NumBelow(M, i) = NumBelow(S, i)
  <2> TAKE i \in S
  <2>1. {j \in M : j < i} = {j \in S : j < i}
    BY <1>1
  <2>. QED
    BY <2>1 DEF NumBelow
<1>5. NumBelow(M, m) = Cardinality(S)
  <2>1. \A j \in M : j < m <=> j \in S
    BY ONLY <1>1, <1>2, m \in Int, \A i \in S : i < m
  <2>2. {j \in M : j < m} = S
    BY ONLY <1>1, <2>1
  <2>. QED
    BY <2>2 DEF NumBelow
<1>6. Nth(M, Cardinality(M)) = m
  <2>1. NumBelow(M, m) + 1 = Cardinality(M) /\ m \in M
    BY <1>1, <1>3, <1>5
  <2>. QED
    BY ONLY <1>2, <1>3, <2>1, NthOf
<1>7. \A n \in 1 .. Cardinality(S) : Nth(M, n) = Nth(S, n)
  <2> TAKE n \in 1 .. Cardinality(S)
  <2>1. PICK i : i = Nth(S, n)
    OBVIOUS
  <2>2. i \in S /\ NumBelow(S, i) = n - 1 /\ n \in Int
    <3>1. Nth(S, n) \in S /\ NumBelow(S, Nth(S, n)) = n - 1
      BY ONLY S \subseteq Int, IsFiniteSet(S), n \in 1 .. Cardinality(S), NthIs
    <3>. QED
      BY ONLY <2>1, <3>1, n \in 1 .. Cardinality(S)
  <2>3. i \in M /\ NumBelow(M, i) + 1 = n
    <3>1. i \in M /\ NumBelow(M, i) = n - 1
      BY <1>1, <1>4, <2>2
    <3>. QED
      BY ONLY <2>2, <3>1
  <2>4. Nth(M, n) = i
    BY ONLY <1>2, <1>3, <2>3, NthOf
  <2>. QED
    BY <2>1, <2>4
<1>8. PICK w : w = Selected(s, S)
  OBVIOUS
<1>9. w = [n \in 1 .. Cardinality(S) |-> s[Nth(S, n)]] /\ Len(w) = Cardinality(S)
  BY <1>8, SelectedLen DEF Selected
<1>10. Append(w, s[m]) = [n \in 1 .. Cardinality(M) |-> IF n = Cardinality(M) THEN s[m] ELSE s[Nth(S, n)]]
  BY ONLY <1>3, <1>9
<1>11. Selected(s, M) = [n \in 1 .. Cardinality(M) |-> s[Nth(M, n)]]
  BY DEF Selected
<1>12. \A n \in 1 .. Cardinality(M) : n = Cardinality(M) \/ n \in 1 .. Cardinality(S)
  BY <1>3
<1>13. \A n \in 1 .. Cardinality(M) : s[Nth(M, n)] = IF n = Cardinality(M) THEN s[m] ELSE s[Nth(S, n)]
  BY <1>6, <1>7, <1>12
<1>14. Selected(s, M) = Append(w, s[m])
  BY ONLY <1>10, <1>11, <1>13
<1>. QED
  BY <1>1, <1>8, <1>14

\* It gets a first one.
LEMMA SelectedFirst ==
  ASSUME NEW S, S \subseteq Int, IsFiniteSet(S), NEW m \in Int, \A i \in S : m < i, NEW s
  PROVE  Selected(s, {m} \cup S) = <<s[m]>> \o Selected(s, S)
<1>1. PICK M : M = {m} \cup S
  OBVIOUS
<1>2. m \notin S /\ M \subseteq Int
  BY <1>1
<1>3. IsFiniteSet(M) /\ Cardinality(M) = Cardinality(S) + 1 /\ Cardinality(S) \in Nat
  <2>1. M = S \cup {m}
    BY <1>1
  <2>. QED
    BY <1>2, <2>1, FS_AddElement, FS_CardinalityType
<1>4. \A i \in S : NumBelow(M, i) = NumBelow(S, i) + 1
  <2> TAKE i \in S
  <2>1. PICK A : A = {j \in S : j < i}
    OBVIOUS
  <2>2. {j \in M : j < i} = A \cup {m} /\ m \notin A /\ A \in SUBSET S
    BY <1>1, <1>2, <2>1
  <2>3. IsFiniteSet(A)
    BY <2>2, FS_Subset
  <2>4. Cardinality({j \in M : j < i}) = Cardinality(A) + 1
    BY <2>2, <2>3, FS_AddElement
  <2>. QED
    BY <2>1, <2>4 DEF NumBelow
<1>5. NumBelow(M, m) = 0
  <2>1. \A j \in M : ~(j < m)
    BY ONLY <1>1, <1>2, m \in Int, \A i \in S : m < i
  <2>2. {j \in M : j < m} = {}
    BY ONLY <2>1
  <2>. QED
    BY <2>2, FS_EmptySet DEF NumBelow
<1>6. Nth(M, 1) = m
  <2>1. NumBelow(M, m) + 1 = 1 /\ m \in M
    BY <1>1, <1>5
  <2>. QED
    BY ONLY <1>2, <1>3, <2>1, NthOf
<1>7. \A n \in 1 .. Cardinality(S) : Nth(M, n + 1) = Nth(S, n)
  <2> TAKE n \in 1 .. Cardinality(S)
  <2>1. PICK i : i = Nth(S, n)
    OBVIOUS
  <2>2. i \in S /\ NumBelow(S, i) = n - 1 /\ n \in Int
    <3>1. Nth(S, n) \in S /\ NumBelow(S, Nth(S, n)) = n - 1
      BY ONLY S \subseteq Int, IsFiniteSet(S), n \in 1 .. Cardinality(S), NthIs
    <3>. QED
      BY ONLY <2>1, <3>1, n \in 1 .. Cardinality(S)
  <2>3. i \in M /\ NumBelow(M, i) + 1 = n + 1
    BY <1>1, <1>4, <2>2
  <2>4. Nth(M, n + 1) = i
    BY ONLY <1>2, <1>3, <2>3, NthOf
  <2>. QED
    BY <2>1, <2>4
<1>8. PICK w : w = Selected(s, S)
  OBVIOUS
<1>9. PICK T : T = {s[i] : i \in M}
  OBVIOUS
<1>10. w \in Seq(T) /\ s[m] \in T /\ Len(w) = Cardinality(S)
  <2>1. \A i \in S : s[i] \in T
    BY <1>1, <1>9
  <2>2. w \in Seq(T)
    BY ONLY <1>8, <2>1, S \subseteq Int, IsFiniteSet(S), SelectedSeq
  <2>. QED
    BY <1>1, <1>8, <1>9, <2>2, SelectedLen
<1>11. /\ <<s[m]>> \o w \in Seq(T) /\ Len(<<s[m]>> \o w) = Cardinality(M)
       /\ (<<s[m]>> \o w)[1] = s[m]
       /\ \A n \in 1 .. Cardinality(S) : (<<s[m]>> \o w)[n + 1] = s[Nth(S, n)]
  <2>1. /\ <<s[m]>> \o w \in Seq(T) /\ Len(<<s[m]>> \o w) = Len(w) + 1
        /\ (<<s[m]>> \o w)[1] = s[m] /\ \A i \in 1 .. Len(w) : (<<s[m]>> \o w)[i + 1] = w[i]
    BY ONLY <1>10, FrontIs
  <2>2. \A n \in 1 .. Cardinality(S) : w[n] = s[Nth(S, n)]
    BY <1>8 DEF Selected
  <2>. QED
    BY ONLY <1>3, <1>10, <2>1, <2>2
<1>12. \A n \in 1 .. Cardinality(M) : s[Nth(M, n)] = (<<s[m]>> \o w)[n]
  <2> TAKE n \in 1 .. Cardinality(M)
  <2>1. CASE n = 1
    BY <1>6, <1>11, <2>1
  <2>2. CASE n # 1
    <3>1. PICK k \in 1 .. Cardinality(S) : n = k + 1
      <4>1. n - 1 \in 1 .. Cardinality(S) /\ n = n - 1 + 1
        BY <1>3, <2>2
      <4>. QED
        BY <4>1
    <3>. QED
      BY <1>7, <1>11, <3>1
  <2>. QED
    BY <2>1, <2>2
<1>13. Selected(s, M) = <<s[m]>> \o w
  <2>1. PICK u : u = <<s[m]>> \o w
    OBVIOUS
  <2>2. u = [n \in 1 .. Cardinality(M) |-> u[n]]
    BY ONLY <1>11, <2>1
  <2>3. Selected(s, M) = [n \in 1 .. Cardinality(M) |-> s[Nth(M, n)]]
    BY DEF Selected
  <2>. QED
    BY ONLY <1>12, <2>1, <2>2, <2>3
<1>. QED
  BY <1>1, <1>8, <1>13
=============================================================================
