------------------------- MODULE CatalogRows_proofs -------------------------
(***************************************************************************)
(* What is proved about CatalogRows, for every tree of paths, pinned base  *)
(* and writes, and every length of a log.  Three facts carry the argument. *)
(* Whatever is applied to a catalog does to the index it shows what the    *)
(* change means (ApplyShows).  Rewriting the resolved tables into it gives *)
(* the index of the log from any catalog that agrees with the base off     *)
(* these tables (ResolvedExact), and a part of the rewriting leaves it so, *)
(* which is why a replay may be cut anywhere.  The joined intervals of a   *)
(* reader hold the ids the intervals held (TombstonesExact).               *)
(***************************************************************************)
EXTENDS CatalogRows, Index_proofs
-----------------------------------------------------------------------------
(* Sequences in the order of a key. *)

\* Elements a key tells apart, and those that come before one of them.
KeyedApart(S, key) ==
  /\ IsFiniteSet(S) /\ \A x \in S : key[x] \in Int
  /\ \A x, y \in S : key[x] = key[y] => x = y
Earlier(S, key, x) == {y \in S : key[y] < key[x]}

\* A later element has all the earlier ones before it, and the other one too.
LEMMA EarlierCounts ==
  ASSUME NEW S, NEW key, KeyedApart(S, key), NEW x \in S
  PROVE  /\ Cardinality(Earlier(S, key, x)) \in 0 .. Cardinality(S) - 1
         /\ \A y \in S : key[y] < key[x] =>
              Cardinality(Earlier(S, key, y)) < Cardinality(Earlier(S, key, x))
<1>1. IsFiniteSet(S) /\ Cardinality(S) \in Nat /\ \A y \in S : key[y] \in Int
  BY FS_CardinalityType DEF KeyedApart
<1>2. ASSUME NEW y \in S
      PROVE  IsFiniteSet(Earlier(S, key, y)) /\ Cardinality(Earlier(S, key, y)) \in Nat
  <2>1. Earlier(S, key, y) \in SUBSET S
    BY DEF Earlier
  <2> QED BY <1>1, <2>1, FS_Subset, FS_CardinalityType
<1>3. Cardinality(Earlier(S, key, x)) <= Cardinality(S) - 1
  <2>1. Earlier(S, key, x) \in SUBSET (S \ {x})
    BY <1>1 DEF Earlier
  <2>2. IsFiniteSet(S \ {x}) /\ Cardinality(S \ {x}) = Cardinality(S) - 1
    BY <1>1, FS_RemoveElement
  <2>3. Cardinality(Earlier(S, key, x)) <= Cardinality(S \ {x})
    BY <2>1, <2>2, FS_Subset
  <2> QED BY <2>2, <2>3
<1>4. ASSUME NEW y \in S, key[y] < key[x]
      PROVE  Cardinality(Earlier(S, key, y)) < Cardinality(Earlier(S, key, x))
  <2>1. y \notin Earlier(S, key, y) /\ Earlier(S, key, y) \cup {y} \in SUBSET Earlier(S, key, x)
    BY <1>1, <1>4 DEF Earlier
  <2>2. Cardinality(Earlier(S, key, y) \cup {y}) = Cardinality(Earlier(S, key, y)) + 1
    BY <1>2, <2>1, FS_AddElement
  <2>3. Cardinality(Earlier(S, key, y) \cup {y}) <= Cardinality(Earlier(S, key, x))
    BY <1>2, <2>1, FS_Subset
  <2> QED BY <1>2, <2>2, <2>3
<1> QED BY <1>1, <1>2, <1>3, <1>4

LEMMA EarlierCountsApart ==
  ASSUME NEW S, NEW key, KeyedApart(S, key), NEW x \in S, NEW y \in S,
         Cardinality(Earlier(S, key, x)) = Cardinality(Earlier(S, key, y))
  PROVE  x = y
<1>1. key[x] \in Int /\ key[y] \in Int
  BY DEF KeyedApart
<1>2. ~(key[x] < key[y]) /\ ~(key[y] < key[x])
  BY EarlierCounts
<1>3. key[x] = key[y]
  BY <1>1, <1>2
<1> QED BY <1>3 DEF KeyedApart

\* Every place up to the number of elements is one element's.
LEMMA EveryPlaceKeyed ==
  ASSUME NEW S, NEW key, KeyedApart(S, key), NEW i \in 1 .. Cardinality(S)
  PROVE  \E x \in S : Cardinality(Earlier(S, key, x)) = i - 1
<1>1. IsFiniteSet(S) /\ Cardinality(S) \in Nat
  BY FS_CardinalityType DEF KeyedApart
<1> DEFINE T == 0 .. Cardinality(S) - 1
           f == [x \in S |-> Cardinality(Earlier(S, key, x))]
<1>2. IsFiniteSet(T) /\ Cardinality(T) = Cardinality(S)
  <2> DEFINE c == Cardinality(S)
  <2> HIDE DEF c
  <2>1. c \in Nat
    BY <1>1 DEF c
  <2>2. \A a, b \in Int : IsFiniteSet(a .. b) /\ Cardinality(a .. b) = IF a > b THEN 0 ELSE b - a + 1
    BY FS_Interval
  <2>3. 0 \in Int /\ c - 1 \in Int /\ (0 > c - 1 => c = 0) /\ (c - 1) - 0 + 1 = c
    BY <2>1
  <2>4. IsFiniteSet(0 .. c - 1) /\ Cardinality(0 .. c - 1) = IF 0 > c - 1 THEN 0 ELSE (c - 1) - 0 + 1
    BY <2>2, <2>3
  <2>5. IsFiniteSet(0 .. c - 1) /\ Cardinality(0 .. c - 1) = c
    BY <2>3, <2>4
  <2> QED BY <2>5 DEF c
<1>3. f \in [S -> T]
  BY EarlierCounts
<1>4. \A x, y \in S : f[x] = f[y] => x = y
  BY EarlierCountsApart
<1>5. f \in Injection(S, T)
  BY <1>3, <1>4 DEF Injection, IsInjective
<1>6. f \in Surjection(S, T)
  BY <1>1, <1>2, <1>5, FS_Injection
<1>7. i - 1 \in T
  BY <1>1
<1>8. PICK x \in S : f[x] = i - 1
  BY <1>6, <1>7 DEF Surjection
<1> QED BY <1>8

\* The elements one after the other, each once, in strict order.
LEMMA KeyedExact ==
  ASSUME NEW S, NEW key, KeyedApart(S, key)
  PROVE  /\ Keyed(S, key) \in Seq(S)
         /\ \A x \in S : \E i \in DOMAIN Keyed(S, key) : Keyed(S, key)[i] = x
         /\ \A i, j \in DOMAIN Keyed(S, key) :
              i < j => key[Keyed(S, key)[i]] < key[Keyed(S, key)[j]]
<1> DEFINE n == Cardinality(S)
           C(i) == CHOOSE x \in S : Cardinality(Earlier(S, key, x)) = i - 1
           s == [i \in 1 .. n |-> C(i)]
<1>1. n \in Nat
  BY FS_CardinalityType DEF KeyedApart
<1>2. Keyed(S, key) = s
  BY DEF Keyed, Earlier
<1>3. ASSUME NEW i \in 1 .. n PROVE C(i) \in S /\ Cardinality(Earlier(S, key, C(i))) = i - 1
  <2>1. \E x \in S : Cardinality(Earlier(S, key, x)) = i - 1
    BY EveryPlaceKeyed
  <2> QED BY <2>1
<1> HIDE DEF C, n
<1>4. \A i \in 1 .. n : s[i] \in S /\ Cardinality(Earlier(S, key, s[i])) = i - 1
  BY <1>3
<1>5. s \in Seq(S) /\ DOMAIN s = 1 .. n
  BY <1>1, <1>3
<1> HIDE DEF s
<1>6. ASSUME NEW x \in S PROVE \E i \in DOMAIN s : s[i] = x
  <2> DEFINE i == Cardinality(Earlier(S, key, x)) + 1
  <2>1. Cardinality(Earlier(S, key, x)) \in 0 .. n - 1
    BY EarlierCounts DEF n
  <2>2. i \in 1 .. n /\ i - 1 = Cardinality(Earlier(S, key, x))
    BY <1>1, <2>1
  <2> HIDE DEF i
  <2>3. s[i] = x
    BY <1>4, <2>2, EarlierCountsApart
  <2> QED BY <1>5, <2>2, <2>3
<1>7. ASSUME NEW i \in DOMAIN s, NEW j \in DOMAIN s, i < j PROVE key[s[i]] < key[s[j]]
  <2>1. /\ s[i] \in S /\ Cardinality(Earlier(S, key, s[i])) = i - 1
        /\ s[j] \in S /\ Cardinality(Earlier(S, key, s[j])) = j - 1
    BY <1>4, <1>5
  <2>2. i \in Nat /\ j \in Nat
    BY <1>1, <1>5
  <2>3. ~(key[s[j]] < key[s[i]])
    <3> SUFFICES ASSUME key[s[j]] < key[s[i]] PROVE FALSE
      OBVIOUS
    <3>1. Cardinality(Earlier(S, key, s[j])) < Cardinality(Earlier(S, key, s[i]))
      BY <2>1, EarlierCounts
    <3> QED BY <1>7, <2>1, <2>2, <3>1
  <2>4. key[s[i]] # key[s[j]]
    BY <1>7, <2>1, <2>2 DEF KeyedApart
  <2>5. key[s[i]] \in Int /\ key[s[j]] \in Int
    BY <2>1 DEF KeyedApart
  <2> QED BY <2>3, <2>4, <2>5
<1> QED BY <1>2, <1>5, <1>6, <1>7

\* A set of numbers has a least one.
LEMMA MinOfNat ==
  ASSUME NEW S, S \subseteq Nat, S # {}
  PROVE  Min(S) \in S /\ \A x \in S : Min(S) <= x
<1>1. \E n \in S : \A m \in S : n <= m
  BY Corrected!LeastNumber
<1> QED BY <1>1, Zenon DEF Min
-----------------------------------------------------------------------------
(* Intervals of ids. *)

LEMMA RowsPinned ==
  /\ Len(PinnedRows) \in Nat /\ Ids = 1 .. Len(PinnedRows) /\ Ids \subseteq Nat
  /\ \A i \in Ids : PinnedRows[i].path \in Paths /\ PinnedRows[i].record \in Records
<1>1. PinnedRows \in Seq([path : Paths, record : Records])
  BY CatalogAssumption
<1>2. /\ Len(PinnedRows) \in Nat /\ Ids = 1 .. Len(PinnedRows)
      /\ \A i \in 1 .. Len(PinnedRows) : PinnedRows[i] \in [path : Paths, record : Records]
  BY <1>1, LenProperties, ElementOfSeq, Zenon DEF Ids
<1>3. \A r \in [path : Paths, record : Records] : r.path \in Paths /\ r.record \in Records
  OBVIOUS
<1> QED BY <1>2, <1>3

Covers(ranges, i) == \E r \in ranges : r[1] <= i /\ i < r[2]

\* Intervals that hold something, no two of which begin at one id.
RangesForm(ranges) ==
  /\ ranges \subseteq Nat \X Nat /\ IsFiniteSet(ranges)
  /\ \A r \in ranges : r[1] < r[2]
  /\ \A r, s \in ranges : r[1] = s[1] => r = s

\* One more interval covers what it covers and what was covered.
LEMMA AddRangeExact ==
  ASSUME NEW ranges, RangesForm(ranges), NEW low \in Nat, NEW high \in Nat, low < high
  PROVE  /\ RangesForm(AddRange(ranges, <<low, high>>))
         /\ \A i \in Nat : Covers(AddRange(ranges, <<low, high>>), i)
                             <=> Covers(ranges, i) \/ (low <= i /\ i < high)
<1> DEFINE ends == {high} \cup {s[2] : s \in {s \in ranges : s[1] = low}}
           others == {s \in ranges : s[1] # low}
           top == Max(ends)
           after == AddRange(ranges, <<low, high>>)
<1>1. after = others \cup {<<low, top>>}
  BY DEF AddRange
<1>2. /\ \A s \in ranges : s \in Nat \X Nat /\ s[1] \in Nat /\ s[2] \in Nat /\ s = <<s[1], s[2]>> /\ s[1] < s[2]
      /\ \A r, s \in ranges : r[1] = s[1] => r = s
      /\ IsFiniteSet(ranges)
  BY DEF RangesForm
<1>3. top \in ends /\ \A e \in ends : e <= top
  <2>1. ends \subseteq Nat /\ ends # {}
    BY <1>2
  <2>2. \E b \in Nat : \A e \in ends : e <= b
    <3>1. CASE \E s \in ranges : s[1] = low
      <4>1. PICK s \in ranges : s[1] = low
        BY <3>1
      <4>2. \A e \in ends : e = high \/ e = s[2]
        BY <1>2, <4>1
      <4>3. s[2] \in Nat
        BY <1>2
      <4>4. CASE high <= s[2]
        BY <4>2, <4>3, <4>4
      <4>5. CASE ~(high <= s[2])
        BY <4>2, <4>3, <4>5
      <4> QED BY <4>4, <4>5
    <3>2. CASE ~\E s \in ranges : s[1] = low
      BY <3>2
    <3> QED BY <3>1, <3>2
  <2> HIDE DEF ends
  <2> QED BY <2>1, <2>2, GreatestNumber
<1>4. /\ top \in Nat /\ high <= top /\ low < top
      /\ top = high \/ \E s \in ranges : s[1] = low /\ s[2] = top
      /\ \A s \in ranges : s[1] = low => s[2] <= top
  <2>1. high \in ends /\ \A s \in ranges : s[1] = low => s[2] \in ends
    OBVIOUS
  <2>2. \A e \in ends : e = high \/ \E s \in ranges : s[1] = low /\ s[2] = e
    OBVIOUS
  <2> HIDE DEF ends
  <2>3. high <= top /\ \A s \in ranges : s[1] = low => s[2] <= top
    BY <1>3, <2>1
  <2>4. top = high \/ \E s \in ranges : s[1] = low /\ s[2] = top
    BY <1>3, <2>2
  <2>5. top \in Nat
    BY <1>2, <2>4
  <2> HIDE DEF top
  <2> QED BY <2>3, <2>4, <2>5
<1> HIDE DEF top, after
<1>5. RangesForm(after)
  <2>1. IsFiniteSet(after)
    <3>1. others \in SUBSET ranges
      OBVIOUS
    <3>2. IsFiniteSet(others)
      BY <1>2, <3>1, FS_Subset
    <3> QED BY <1>1, <3>2, FS_AddElement
  <2>2. after \subseteq Nat \X Nat /\ \A r \in after : r[1] < r[2]
    BY <1>1, <1>2, <1>4
  <2>3. \A r, s \in after : r[1] = s[1] => r = s
    BY <1>1, <1>2
  <2> QED BY <2>1, <2>2, <2>3 DEF RangesForm
<1>6. ASSUME NEW i \in Nat
      PROVE  Covers(after, i) <=> Covers(ranges, i) \/ (low <= i /\ i < high)
  <2>1. Covers(after, i) <=> Covers(others, i) \/ (low <= i /\ i < top)
    <3> DEFINE new == <<low, top>>
    <3>1. new[1] = low /\ new[2] = top /\ after = others \cup {new}
      BY <1>1
    <3> HIDE DEF new, others
    <3> QED BY <3>1, Zenon DEF Covers
  <2>2. Covers(ranges, i) <=> Covers(others, i) \/ \E s \in ranges : s[1] = low /\ low <= i /\ i < s[2]
    BY DEF Covers
  <2>3. (low <= i /\ i < top)
          <=> (low <= i /\ i < high) \/ \E s \in ranges : s[1] = low /\ low <= i /\ i < s[2]
    <3>1. ASSUME low <= i, i < top
          PROVE  (low <= i /\ i < high) \/ \E s \in ranges : s[1] = low /\ low <= i /\ i < s[2]
      BY <1>4, <3>1
    <3>2. ASSUME low <= i, i < high PROVE i < top
      BY <1>4, <3>2
    <3>3. ASSUME NEW s \in ranges, s[1] = low, i < s[2] PROVE i < top
      BY <1>2, <1>4, <3>3
    <3> QED BY <3>1, <3>2, <3>3
  <2> QED BY <2>1, <2>2, <2>3
<1> QED BY <1>5, <1>6 DEF after

\* The interval from the first to the last of ids that come in one piece holds
\* these ids and no other row's.
LEMMA AddSpanExact ==
  ASSUME NEW ranges, RangesForm(ranges), NEW ids \in SUBSET Ids,
         \A i, j \in ids : \A m \in Ids : i <= m /\ m <= j => m \in ids
  PROVE  /\ RangesForm(AddSpan(ranges, ids))
         /\ \A i \in Ids : Covers(AddSpan(ranges, ids), i) <=> Covers(ranges, i) \/ i \in ids
<1>1. Len(PinnedRows) \in Nat /\ Ids = 1 .. Len(PinnedRows) /\ Ids \subseteq Nat
  BY RowsPinned
<1>2. CASE ids = {}
  BY <1>2 DEF AddSpan
<1>3. CASE ids # {}
  <2> DEFINE low == Min(ids)
             last == Max(ids)
             high == last + 1
  <2>1. ids \subseteq Nat /\ \A i \in ids : i <= Len(PinnedRows)
    BY <1>1
  <2>2. low \in ids /\ \A i \in ids : low <= i
    BY <1>3, <2>1, MinOfNat
  <2>3. last \in ids /\ \A i \in ids : i <= last
    BY <1>1, <1>3, <2>1, GreatestNumber
  <2>4. AddSpan(ranges, ids) = AddRange(ranges, <<low, high>>)
    BY <1>3 DEF AddSpan
  <2> HIDE DEF low, last
  <2>5. low \in Nat /\ high \in Nat /\ low < high
    BY <2>1, <2>2, <2>3
  <2>6. \A i \in Ids : i \in ids <=> low <= i /\ i < high
    <3>1. ASSUME NEW i \in ids PROVE low <= i /\ i < high
      BY <2>1, <2>2, <2>3
    <3>2. ASSUME NEW i \in Ids, low <= i, i < high PROVE i \in ids
      <4>1. i <= last
        BY <1>1, <2>1, <2>3, <3>2
      <4> QED BY <2>2, <2>3, <3>2, <4>1
    <3> QED BY <3>1, <3>2
  <2> HIDE DEF high
  <2> QED BY <1>1, <2>5, <2>6, <2>4, AddRangeExact
<1> QED BY <1>2, <1>3

\* The rows of a folder and of what is below it.
LEMMA AddSubtreeExact ==
  ASSUME NEW ranges, RangesForm(ranges), NEW root \in Paths
  PROVE  /\ RangesForm(AddSubtree(ranges, root))
         /\ \A i \in Ids : Covers(AddSubtree(ranges, root), i)
                             <=> Covers(ranges, i) \/ i \in IdsOf(AtOrBelow(root))
         /\ IdsOf(AtOrBelow(root)) = {} => AddSubtree(ranges, root) = ranges
<1>1. /\ PinnedRows \in Seq([path : Paths, record : Records])
      /\ \A p, q \in Paths : Rank[p] \in Int /\ (Rank[p] = Rank[q] => p = q)
      /\ \A i, j \in Ids : i < j => ~Sorts(PinnedRows[j].path, PinnedRows[i].path)
      /\ \A p, r \in Below(root) : \A m \in Paths :
           Rank[p] <= Rank[m] /\ Rank[m] <= Rank[r] => m \in Below(root)
  BY CatalogAssumption DEF Ids
<1>2. /\ Ids = 1 .. Len(PinnedRows) /\ Len(PinnedRows) \in Nat
      /\ \A i \in Ids : PinnedRows[i].path \in Paths
  BY RowsPinned
<1>3. ASSUME NEW i \in Ids, NEW m \in Ids, i <= m
      PROVE  Rank[PinnedRows[i].path] <= Rank[PinnedRows[m].path]
  <2>1. Rank[PinnedRows[i].path] \in Int /\ Rank[PinnedRows[m].path] \in Int
    BY <1>1, <1>2
  <2>2. CASE i = m
    BY <2>1, <2>2
  <2>3. CASE i # m
    <3>1. i < m
      BY <1>2, <1>3, <2>3
    <3>2. ~(Rank[PinnedRows[m].path] < Rank[PinnedRows[i].path])
      BY <1>1, <3>1 DEF Sorts
    <3> QED BY <2>1, <3>2
  <2> QED BY <2>2, <2>3
<1>4. ASSUME NEW S \in {{root}, Below(root)}, NEW i \in IdsOf(S), NEW j \in IdsOf(S), NEW m \in Ids,
             i <= m, m <= j
      PROVE  m \in IdsOf(S)
  <2>1. /\ i \in Ids /\ j \in Ids /\ PinnedRows[i].path \in S /\ PinnedRows[j].path \in S
        /\ PinnedRows[m].path \in Paths
    BY <1>2 DEF IdsOf
  <2>2. /\ Rank[PinnedRows[i].path] <= Rank[PinnedRows[m].path]
        /\ Rank[PinnedRows[m].path] <= Rank[PinnedRows[j].path]
    BY <1>3, <1>4, <2>1
  <2>3. PinnedRows[m].path \in S
    <3>1. CASE S = {root}
      <4>1. PinnedRows[i].path = root /\ PinnedRows[j].path = root
        BY <2>1, <3>1
      <4>2. Rank[root] \in Int /\ Rank[PinnedRows[m].path] \in Int
        BY <1>1, <2>1
      <4>3. Rank[PinnedRows[m].path] = Rank[root]
        BY <2>2, <4>1, <4>2
      <4> QED BY <1>1, <2>1, <3>1, <4>3
    <3>2. CASE S = Below(root)
      BY <1>1, <2>1, <2>2, <3>2
    <3> QED BY <3>1, <3>2
  <2> QED BY <2>3 DEF IdsOf
<1> DEFINE own == IdsOf({root})
           under == IdsOf(Below(root))
<1>5. own \in SUBSET Ids /\ under \in SUBSET Ids /\ IdsOf(AtOrBelow(root)) = own \cup under
  BY DEF IdsOf, AtOrBelow, Below, Ancestors
<1>6. /\ RangesForm(AddSpan(ranges, own))
      /\ \A i \in Ids : Covers(AddSpan(ranges, own), i) <=> Covers(ranges, i) \/ i \in own
  BY <1>4, <1>5, AddSpanExact
<1>7. /\ RangesForm(AddSubtree(ranges, root))
      /\ \A i \in Ids : Covers(AddSubtree(ranges, root), i)
                          <=> Covers(AddSpan(ranges, own), i) \/ i \in under
  BY <1>4, <1>5, <1>6, AddSpanExact DEF AddSubtree
<1>8. own = {} /\ under = {} => AddSubtree(ranges, root) = ranges
  BY DEF AddSubtree, AddSpan
<1> HIDE DEF own, under
<1> QED BY <1>5, <1>6, <1>7, <1>8

Joins == INSTANCE FoldTheory WITH Op <- Joined
LEMMA JoinsAgree == \A first, seq : Joins!FoldLeft(Joined, first, seq) = FoldLeft(Joined, first, seq)
  BY Zenon DEF FoldLeft, MapThenFoldSet, Joins!FoldLeft, Joins!MapThenFoldSet, Max, Joins!Max
-----------------------------------------------------------------------------
(* The intervals of a reader. *)

LEMMA MaxOfPair ==
  ASSUME NEW a \in Nat, NEW b \in Nat
  PROVE  Max({a, b}) = IF a <= b THEN b ELSE a
<1>1. {a, b} \subseteq Nat /\ {a, b} # {} /\ \A x \in {a, b} : x <= a + b
  OBVIOUS
<1>2. Max({a, b}) \in {a, b} /\ \A x \in {a, b} : x <= Max({a, b})
  BY <1>1, GreatestNumber
<1> DEFINE m == Max({a, b})
<1> HIDE DEF m
<1>3. (m = a \/ m = b) /\ a <= m /\ b <= m
  BY <1>2 DEF m
<1>4. m = IF a <= b THEN b ELSE a
  BY <1>3
<1> QED BY <1>4 DEF m

Starts(r) == r[1]
Ends(r) == r[2]
Holds(r, i) == Starts(r) <= i /\ i < Ends(r)

LEMMA PairEnds ==
  ASSUME NEW r \in Nat \X Nat
  PROVE  Starts(r) \in Nat /\ Ends(r) \in Nat /\ r = <<Starts(r), Ends(r)>>
BY DEF Starts, Ends

LEMMA EndsOfPair ==
  ASSUME NEW a \in Nat, NEW b \in Nat
  PROVE  Starts(<<a, b>>) = a /\ Ends(<<a, b>>) = b
BY DEF Starts, Ends

\* A sequence with another last element.
LEMMA LastReplaced ==
  ASSUME NEW X, NEW seq \in Seq(X), seq # <<>>, NEW e \in X
  PROVE  /\ Front(seq) \o <<e>> \in Seq(X) /\ Len(Front(seq) \o <<e>>) = Len(seq)
         /\ \A j \in 1 .. Len(seq) : (Front(seq) \o <<e>>)[j] = IF j = Len(seq) THEN e ELSE seq[j]
<1> DEFINE n == Len(seq)
           front == Front(seq)
           one == <<e>>
<1>1. n \in Nat /\ n # 0 /\ \A j \in 1 .. n : seq[j] \in X
  BY EmptySeq, ElementOfSeq, LenProperties
<1>2. one \in Seq(X) /\ Len(one) = 1 /\ one[1] = e
  OBVIOUS
<1>3. front \in Seq(X) /\ Len(front) = n - 1 /\ \A j \in 1 .. n - 1 : front[j] = seq[j]
  <2>1. front = SubSeq(seq, 1, n - 1)
    BY DEF Front
  <2> HIDE DEF n, front
  <2>2. \A j \in 1 .. n - 1 : seq[j] \in X
    BY <1>1
  <2>3. /\ SubSeq(seq, 1, n - 1) \in Seq(X)
        /\ Len(SubSeq(seq, 1, n - 1)) = IF 1 <= n - 1 THEN n - 1 - 1 + 1 ELSE 0
        /\ \A j \in 1 .. n - 1 - 1 + 1 : SubSeq(seq, 1, n - 1)[j] = seq[1 + j - 1]
    BY <1>1, <2>2, SubSeqProperties
  <2> QED BY <1>1, <2>1, <2>3
<1> HIDE DEF n, front, one
<1>4. /\ front \o one \in Seq(X) /\ Len(front \o one) = Len(front) + Len(one)
      /\ \A j \in 1 .. Len(front) + Len(one) :
           (front \o one)[j] = IF j <= Len(front) THEN front[j] ELSE one[j - Len(front)]
  BY <1>2, <1>3, ConcatProperties, Zenon
<1>5. Len(front \o one) = n
  BY <1>1, <1>2, <1>3, <1>4
<1>6. \A j \in 1 .. n : (front \o one)[j] = IF j = n THEN e ELSE seq[j]
  BY <1>1, <1>2, <1>3, <1>4
<1> QED BY <1>4, <1>5, <1>6 DEF front, one, n

\* The first k intervals of a sequence, joined: in order with gaps between them.
JoinedUp(out, seq, k) ==
  /\ out \in Seq(Nat \X Nat)
  /\ \A j \in DOMAIN out : Starts(out[j]) < Ends(out[j])
  /\ \A j, m \in DOMAIN out : j < m => Ends(out[j]) < Starts(out[m])
  /\ \A i \in Nat : (\E j \in DOMAIN out : Holds(out[j], i)) <=> \E j \in 1 .. k : Holds(seq[j], i)
  /\ \A j \in DOMAIN out : k # 0 /\ Starts(out[j]) <= Starts(seq[k])

\* One more interval, which begins after all that came before.
LEMMA JoinedOn ==
  ASSUME NEW seq \in Seq(Nat \X Nat), NEW k \in 1 .. Len(seq), Starts(seq[k]) < Ends(seq[k]),
         k # 1 => Starts(seq[k - 1]) < Starts(seq[k]),
         NEW out, JoinedUp(out, seq, k - 1)
  PROVE  JoinedUp(Joined(out, seq[k]), seq, k)
<1> DEFINE r == seq[k]
           n == Len(out)
<1>1. Len(seq) \in Nat /\ k \in Nat /\ \A i \in 1 .. k : seq[i] \in Nat \X Nat
  OBVIOUS
<1>2. r \in Nat \X Nat /\ Starts(r) \in Nat /\ Ends(r) \in Nat /\ Starts(r) < Ends(r)
  <2>1. r \in Nat \X Nat /\ Starts(r) < Ends(r)
    BY <1>1
  <2> HIDE DEF r
  <2> QED BY <2>1, PairEnds
<1>3. out \in Seq(Nat \X Nat) /\ n \in Nat /\ DOMAIN out = 1 .. n
      /\ \A j \in 1 .. n : out[j] \in Nat \X Nat /\ Starts(out[j]) \in Nat /\ Ends(out[j]) \in Nat
  <2>1. out \in Seq(Nat \X Nat)
    BY DEF JoinedUp
  <2>2. n \in Nat /\ DOMAIN out = 1 .. n /\ \A j \in 1 .. n : out[j] \in Nat \X Nat
    BY <2>1
  <2> QED BY <2>1, <2>2, PairEnds
<1> HIDE DEF r, n
<1>4. /\ \A j \in 1 .. n : Starts(out[j]) < Ends(out[j]) /\ Starts(out[j]) <= Starts(r)
      /\ \A j, m \in 1 .. n : j < m => Ends(out[j]) < Starts(out[m])
      /\ \A i \in Nat : (\E j \in 1 .. n : Holds(out[j], i)) <=> \E j \in 1 .. k - 1 : Holds(seq[j], i)
  <2>1. ASSUME NEW j \in 1 .. n PROVE Starts(out[j]) <= Starts(r)
    <3>1. k - 1 # 0 /\ Starts(out[j]) <= Starts(seq[k - 1])
      BY <1>3 DEF JoinedUp
    <3>2. k \in Nat /\ k # 1
      BY <1>1, <3>1
    <3>3. k - 1 \in 1 .. k
      BY <3>2
    <3>4. Starts(seq[k - 1]) < Starts(r)
      BY <3>2 DEF r
    <3>5. Starts(seq[k - 1]) \in Nat
      BY <1>1, <3>3, PairEnds
    <3>6. Starts(out[j]) \in Nat /\ Starts(r) \in Nat
      BY <1>2, <1>3
    <3> HIDE DEF Starts
    <3> QED BY <3>1, <3>4, <3>5, <3>6
  <2> QED BY <1>3, <2>1 DEF JoinedUp
<1>5. \A i \in Nat : (\E j \in 1 .. k : Holds(seq[j], i)) <=> (\E j \in 1 .. n : Holds(out[j], i)) \/ Holds(r, i)
  <2>1. 1 .. k = (1 .. k - 1) \cup {k}
    BY <1>1
  <2> QED BY <1>4, <2>1 DEF r
<1>6. CASE n # 0 /\ Starts(r) <= Ends(out[n])
  <2> DEFINE top == Max({Ends(out[n]), Ends(r)})
             last == <<Starts(out[n]), top>>
             after == Front(out) \o <<last>>
  <2>1. n \in 1 .. n /\ Starts(out[n]) \in Nat /\ Ends(out[n]) \in Nat
    BY <1>3, <1>6
  <2>2. Joined(out, r) = after
    <3>1. out # <<>>
      BY <1>6 DEF n
    <3> QED BY <1>6, <3>1 DEF Joined, Last, n, Starts, Ends
  <2>3. top \in Nat /\ top = IF Ends(out[n]) <= Ends(r) THEN Ends(r) ELSE Ends(out[n])
    BY <1>2, <2>1, MaxOfPair
  <2> HIDE DEF top
  <2>4. last \in Nat \X Nat /\ Starts(last) = Starts(out[n]) /\ Ends(last) = top
    BY <2>1, <2>3, EndsOfPair
  <2> HIDE DEF last
  <2>5. /\ after \in Seq(Nat \X Nat) /\ DOMAIN after = 1 .. n
        /\ \A j \in 1 .. n : after[j] = IF j = n THEN last ELSE out[j]
    <3>1. out # <<>> /\ Len(out) = n
      BY <1>6 DEF n
    <3>2. /\ after \in Seq(Nat \X Nat) /\ Len(after) = n
          /\ \A j \in 1 .. n : after[j] = IF j = n THEN last ELSE out[j]
      <4>1. /\ after \in Seq(Nat \X Nat) /\ Len(after) = Len(out)
            /\ \A j \in 1 .. Len(out) : after[j] = IF j = Len(out) THEN last ELSE out[j]
        <5> DEFINE X == Nat \X Nat
        <5>1. out \in Seq(X) /\ last \in X /\ out # <<>>
          BY <1>3, <2>4, <3>1
        <5>2. after \in Seq(X) /\ Len(after) = Len(out)
              /\ \A j \in 1 .. Len(out) : after[j] = IF j = Len(out) THEN last ELSE out[j]
          <6> HIDE DEF X
          <6> QED BY <5>1, LastReplaced
        <5> QED BY <5>2
      <4> HIDE DEF after
      <4> QED BY <3>1, <4>1
    <3> HIDE DEF after
    <3> QED BY <3>2
  <2> HIDE DEF after
  <2>6. \A j \in 1 .. n : after[j] = IF j = n THEN last ELSE out[j]
    BY <2>5
  <2>7. Starts(last) < Ends(last) /\ Starts(last) <= Starts(r)
    <3> DEFINE a == Starts(out[n])
               b == Ends(out[n])
    <3>1. a \in Nat /\ b \in Nat /\ a < b /\ a <= Starts(r)
      BY <1>4, <2>1
    <3>2. top = IF b <= Ends(r) THEN Ends(r) ELSE b
      BY <2>3
    <3>3. Starts(last) = a /\ Ends(last) = top
      BY <2>4
    <3> HIDE DEF a, b
    <3> QED BY <1>2, <3>1, <3>2, <3>3
  <2>8. \A i \in Nat : Holds(last, i) <=> Holds(out[n], i) \/ Holds(r, i)
    <3> DEFINE a == Starts(out[n])
               b == Ends(out[n])
    <3>1. a \in Nat /\ b \in Nat /\ a < b /\ a <= Starts(r) /\ Starts(r) <= b
      BY <1>4, <1>6, <2>1
    <3>2. top = IF b <= Ends(r) THEN Ends(r) ELSE b
      BY <2>3
    <3>3. Starts(last) = a /\ Ends(last) = top
      BY <2>4
    <3>4. \A i \in Nat : /\ Holds(out[n], i) <=> a <= i /\ i < b
                         /\ Holds(last, i) <=> a <= i /\ i < top
                         /\ Holds(r, i) <=> Starts(r) <= i /\ i < Ends(r)
      BY <3>3 DEF Holds
    <3> DEFINE s == Starts(r)
               e == Ends(r)
    <3>5. s \in Nat /\ e \in Nat /\ s < e
      BY <1>2
    <3> HIDE DEF a, b, s, e
    <3>6. ASSUME NEW i \in Nat PROVE (a <= i /\ i < top) <=> (a <= i /\ i < b) \/ (s <= i /\ i < e)
      <4>1. a <= s /\ s <= b
        BY <3>1 DEF s
      <4>2. top = IF b <= e THEN e ELSE b
        BY <3>2 DEF e
      <4> QED BY <3>1, <3>5, <4>1, <4>2
    <3> QED BY <3>4, <3>6 DEF s, e
  <2>9. \A i \in Nat : (\E j \in 1 .. n : Holds(after[j], i)) <=> \E j \in 1 .. k : Holds(seq[j], i)
    <3>1. ASSUME NEW i \in Nat
          PROVE  (\E j \in 1 .. n : Holds(after[j], i)) <=> (\E j \in 1 .. n : Holds(out[j], i)) \/ Holds(r, i)
      BY <2>1, <2>6, <2>8
    <3> QED BY <1>5, <3>1
  <2>10. \A j \in 1 .. n : Starts(after[j]) < Ends(after[j]) /\ Starts(after[j]) <= Starts(r) /\ Starts(after[j]) = Starts(out[j])
    BY <1>4, <2>4, <2>6, <2>7
  <2>11. ASSUME NEW j \in 1 .. n, NEW m \in 1 .. n, j < m PROVE Ends(after[j]) < Starts(after[m])
    <3>1. j # n
      BY <1>3, <2>11
    <3>2. Ends(after[j]) = Ends(out[j]) /\ Starts(after[m]) = Starts(out[m])
      BY <2>6, <2>10, <3>1
    <3> QED BY <1>4, <2>11, <3>2
  <2>12. seq[k] = r /\ k # 0
    BY <1>1 DEF r
  <2>13. JoinedUp(after, seq, k)
    BY <2>2, <2>5, <2>9, <2>10, <2>11, <2>12 DEF JoinedUp
  <2> QED BY <2>2, <2>12, <2>13
<1>7. CASE ~(n # 0 /\ Starts(r) <= Ends(out[n]))
  <2> DEFINE after == Append(out, r)
  <2>1. Joined(out, r) = after
    <3>1. out = <<>> <=> n = 0
      BY <1>3 DEF n
    <3> QED BY <1>7, <3>1 DEF Joined, Last, n, Starts, Ends
  <2>2. after \in Seq(Nat \X Nat) /\ DOMAIN after = 1 .. n + 1 /\ after[n + 1] = r
        /\ \A j \in 1 .. n : after[j] = out[j]
    BY <1>2, <1>3 DEF n
  <2> HIDE DEF after
  <2>3. \A j \in 1 .. n : Ends(out[j]) < Starts(r)
    <3>1. ASSUME NEW j \in 1 .. n PROVE Ends(out[j]) < Starts(r)
      <4>1. n \in 1 .. n /\ Ends(out[n]) < Starts(r) /\ Starts(out[n]) < Ends(out[n]) /\ Ends(out[j]) \in Nat
            /\ Starts(out[n]) \in Nat /\ Ends(out[n]) \in Nat
        <5>1. n \in Nat
          BY <1>3
        <5>2. n # 0 /\ n \in 1 .. n
          BY <5>1
        <5>3. n \in 1 .. n /\ ~(Starts(r) <= Ends(out[n]))
          BY <1>7, <5>2
        <5>4. Starts(out[n]) \in Nat /\ Ends(out[n]) \in Nat /\ Ends(out[j]) \in Nat
          BY <1>3, <5>3
        <5>5. Starts(out[n]) < Ends(out[n])
          BY <1>4, <5>3
        <5> QED BY <1>2, <5>3, <5>4, <5>5
      <4>2. CASE j = n
        BY <4>1, <4>2
      <4>3. CASE j # n
        <5>1. j < n
          BY <1>3, <4>3
        <5>2. Ends(out[j]) < Starts(out[n])
          BY <1>4, <4>1, <5>1
        <5> QED BY <1>2, <4>1, <5>2
      <4> QED BY <4>2, <4>3
    <3> QED BY <3>1
  <2>4. \A j \in 1 .. n + 1 : j # n + 1 => j \in 1 .. n
    BY <1>3
  <2>5. \A j \in 1 .. n + 1 : Starts(after[j]) < Ends(after[j]) /\ Starts(after[j]) <= Starts(r)
    <3>1. ASSUME NEW j \in 1 .. n + 1 PROVE Starts(after[j]) < Ends(after[j]) /\ Starts(after[j]) <= Starts(r)
      <4>1. CASE j = n + 1
        BY <1>2, <2>2, <4>1
      <4>2. CASE j # n + 1
        <5>1. j \in 1 .. n /\ after[j] = out[j]
          BY <2>2, <2>4, <4>2
        <5> QED BY <1>4, <5>1
      <4> QED BY <4>1, <4>2
    <3> QED BY <3>1
  <2>6. ASSUME NEW j \in 1 .. n + 1, NEW m \in 1 .. n + 1, j < m PROVE Ends(after[j]) < Starts(after[m])
    <3>1. j \in 1 .. n
      BY <1>3, <2>6
    <3> QED BY <1>4, <2>2, <2>3, <2>4, <2>6, <3>1
  <2>7. \A i \in Nat : (\E j \in 1 .. n + 1 : Holds(after[j], i)) <=> \E j \in 1 .. k : Holds(seq[j], i)
    <3>1. ASSUME NEW i \in Nat
          PROVE  (\E j \in 1 .. n + 1 : Holds(after[j], i)) <=> (\E j \in 1 .. n : Holds(out[j], i)) \/ Holds(r, i)
      <4>1. 1 .. n + 1 = (1 .. n) \cup {n + 1}
        BY <1>3
      <4> QED BY <2>2, <4>1
    <3> QED BY <1>5, <3>1
  <2>8. seq[k] = r /\ k # 0
    BY <1>1 DEF r
  <2>9. JoinedUp(after, seq, k)
    BY <2>2, <2>5, <2>6, <2>7, <2>8 DEF JoinedUp
  <2> QED BY <2>1, <2>8, <2>9
<1> QED BY <1>6, <1>7

\* What a reader takes for dead is dead, and nothing else.
LEMMA TombstonesExact ==
  ASSUME NEW c, RangesForm(c.ranges), NEW i \in Ids
  PROVE  ContainsId(LoadTombstones(c), i) <=> IsDead(c, i)
<1> DEFINE key == [r \in c.ranges |-> r[1]]
           seq == Keyed(c.ranges, key)
           out == FoldLeft(Joined, <<>>, seq)
           t == LoadTombstones(c)
<1>1. i \in Nat
  BY RowsPinned
<1>2. /\ \A r \in c.ranges : /\ r \in Nat \X Nat /\ Starts(r) \in Nat /\ Ends(r) \in Nat
                               /\ Starts(r) < Ends(r) /\ key[r] = Starts(r)
      /\ c.ranges \subseteq Nat \X Nat
  BY DEF RangesForm, Starts, Ends
<1>3. KeyedApart(c.ranges, key)
  BY DEF RangesForm, KeyedApart
<1> HIDE DEF key
<1>4. /\ seq \in Seq(c.ranges)
      /\ \A r \in c.ranges : \E j \in DOMAIN seq : seq[j] = r
      /\ \A j, m \in DOMAIN seq : j < m => key[seq[j]] < key[seq[m]]
  BY <1>3, KeyedExact
<1> HIDE DEF seq
<1> DEFINE n == Len(seq)
<1>5. /\ n \in Nat /\ DOMAIN seq = 1 .. n /\ seq \in Seq(Nat \X Nat)
      /\ \A j \in 1 .. n : seq[j] \in c.ranges
      /\ \A j, m \in 1 .. n : j < m => Starts(seq[j]) < Starts(seq[m])
  <2>1. n \in Nat /\ DOMAIN seq = 1 .. n /\ \A j \in 1 .. n : seq[j] \in c.ranges
    BY <1>4
  <2>2. seq \in Seq(Nat \X Nat)
    BY <1>2, <1>4
  <2>3. \A j \in 1 .. n : key[seq[j]] = Starts(seq[j])
    BY <1>2, <2>1
  <2> HIDE DEF n
  <2>4. \A j, m \in 1 .. n : j < m => Starts(seq[j]) < Starts(seq[m])
    BY <1>4, <2>1, <2>3
  <2> QED BY <2>1, <2>2, <2>4
<1> HIDE DEF n
<1>6. JoinedUp(out, seq, n)
  <2> DEFINE Good == [k \in 0 .. n |-> {o \in Seq(Nat \X Nat) : JoinedUp(o, seq, k)}]
  <2>1. <<>> \in Good[0]
    <3>1. JoinedUp(<<>>, seq, 0)
      BY DEF JoinedUp
    <3> QED BY <1>5, <3>1
  <2>2. ASSUME NEW k \in 1 .. n, NEW o \in Good[k - 1] PROVE Joined(o, seq[k]) \in Good[k]
    <3>1. k \in 0 .. n /\ k - 1 \in 0 .. n
      BY <1>5
    <3>2. JoinedUp(o, seq, k - 1)
      BY <2>2, <3>1
    <3>3. k # 1 => Starts(seq[k - 1]) < Starts(seq[k])
      <4>1. k # 1 => k - 1 \in 1 .. n /\ k - 1 < k
        BY <1>5
      <4> HIDE DEF out
      <4> QED BY <1>5, <4>1
    <3>4. Starts(seq[k]) < Ends(seq[k])
      BY <1>2, <1>5
    <3>5. JoinedUp(Joined(o, seq[k]), seq, k)
      BY <1>5, <3>2, <3>3, <3>4, JoinedOn DEF n
    <3> QED BY <3>1, <3>5 DEF JoinedUp
  <2>3. out \in Good[n]
    <3> HIDE DEF Good
    <3>1. Joins!FoldLeft(Joined, <<>>, seq) \in Good[n]
      BY <1>5, <2>1, <2>2, Joins!FoldLeftInvariant
    <3> QED BY <3>1, JoinsAgree
  <2> QED BY <1>5, <2>3
<1>7. t.ranges = out /\ t.singles = c.singles
  BY DEF LoadTombstones, seq, key
<1> HIDE DEF out, t
<1> DEFINE m == Len(out)
<1>8. /\ m \in Nat /\ DOMAIN out = 1 .. m
      /\ \A j \in 1 .. m : Starts(out[j]) \in Nat /\ Ends(out[j]) \in Nat /\ Starts(out[j]) < Ends(out[j])
      /\ \A j, l \in 1 .. m : j < l => Ends(out[j]) < Starts(out[l])
      /\ (\E j \in 1 .. m : Holds(out[j], i)) <=> \E j \in 1 .. n : Holds(seq[j], i)
  <2>1. out \in Seq(Nat \X Nat)
    BY <1>6 DEF JoinedUp
  <2>2. m \in Nat /\ DOMAIN out = 1 .. m /\ \A j \in 1 .. m : out[j] \in Nat \X Nat
    BY <2>1
  <2> HIDE DEF m
  <2>3. \A j \in 1 .. m : Starts(out[j]) \in Nat /\ Ends(out[j]) \in Nat
    BY <2>2, PairEnds
  <2> QED BY <1>1, <1>6, <2>2, <2>3 DEF JoinedUp
<1> HIDE DEF m
<1>9. (\E r \in c.ranges : r[1] <= i /\ i < r[2]) <=> \E j \in 1 .. n : Holds(seq[j], i)
  BY <1>4, <1>5 DEF Holds, Starts, Ends
<1> DEFINE begun == {k \in 1 .. m : Starts(out[k]) <= i}
           last == Max(begun)
<1>10. begun # {} => last \in begun /\ \A k \in begun : k <= last
  <2>1. begun \subseteq Nat /\ \A k \in begun : k <= m
    BY <1>8
  <2> QED BY <1>8, <2>1, GreatestNumber
<1> HIDE DEF last
<1>11. (\E j \in 1 .. m : Holds(out[j], i)) <=> begun # {} /\ i < Ends(out[last])
  <2>1. ASSUME NEW j \in 1 .. m, Holds(out[j], i) PROVE begun # {} /\ i < Ends(out[last])
    <3>1. j \in begun
      BY <2>1 DEF Holds
    <3>2. last \in 1 .. m /\ Starts(out[last]) <= i /\ j <= last
      BY <1>10, <3>1
    <3>3. ~(j < last)
      <4> SUFFICES ASSUME j < last PROVE FALSE
        OBVIOUS
      <4>1. Ends(out[j]) < Starts(out[last])
        BY <1>8, <3>2
      <4> QED BY <1>1, <1>8, <2>1, <3>2, <4>1 DEF Holds
    <3>4. j = last
      BY <1>8, <3>2, <3>3
    <3> QED BY <2>1, <3>1, <3>4 DEF Holds
  <2>2. ASSUME begun # {}, i < Ends(out[last]) PROVE \E j \in 1 .. m : Holds(out[j], i)
    BY <1>10, <2>2 DEF Holds
  <2> QED BY <2>1, <2>2
<1>12. ContainsId(t, i) <=> i \in c.singles \/ (begun # {} /\ i < Ends(out[last]))
  <2>1. {k \in DOMAIN t.ranges : t.ranges[k][1] <= i} = begun
    BY <1>7, <1>8 DEF Starts
  <2> HIDE DEF begun
  <2> QED BY <1>7, <2>1 DEF ContainsId, last, Ends
<1> QED BY <1>8, <1>9, <1>11, <1>12 DEF IsDead, t

LEMMA MeantAgrees == \A first, seq : Meant!FoldLeft(Effect, first, seq) = FoldLeft(Effect, first, seq)
  BY PageFoldsAgree
-----------------------------------------------------------------------------
(* What changes say of a path. *)

Touches(c, p) == IF c.kind = "prefix" THEN p \in AtOrBelow(c.path) ELSE p = c.path
NewValue(c) == IF c.kind = "upsert" THEN c.record ELSE Nothing

LEMMA EffectTouches ==
  ASSUME NEW index \in Indexes, NEW c \in Changes
  PROVE  /\ Effect(index, c) \in Indexes
         /\ \A p \in Paths : Effect(index, c)[p] = IF Touches(c, p) THEN NewValue(c) ELSE index[p]
<1>1. /\ c.kind \in {"upsert", "remove", "prefix"} /\ c.path \in Paths
      /\ c.kind = "upsert" => c.record \in Records
  BY DEF Changes
<1>2. index \in [Paths -> Records \cup {Nothing}]
  BY DEF Indexes
<1>3. Effect(index, c) \in [Paths -> Records \cup {Nothing}]
  BY <1>1, <1>2 DEF Effect
<1>4. ASSUME NEW p \in Paths
      PROVE  Effect(index, c)[p] = IF Touches(c, p) THEN NewValue(c) ELSE index[p]
  BY <1>1 DEF Effect, Touches, NewValue
<1> QED BY <1>3, <1>4 DEF Indexes

LEMMA MeantType ==
  ASSUME NEW index \in Indexes, NEW seq \in Seq(Changes)
  PROVE  FoldLeft(Effect, index, seq) \in Indexes
<1> DEFINE n == Len(seq)
<1>1. n \in Nat /\ DOMAIN seq = 1 .. n
  BY LenProperties
<1>2. \A k \in 1 .. n : \A x \in Indexes : Effect(x, seq[k]) \in Indexes
  BY EffectTouches, ElementOfSeq
<1> HIDE DEF n
<1>3. Meant!FoldLeft(Effect, index, seq) \in Indexes
  BY <1>1, <1>2, Meant!FoldLeftPreserves
<1> QED BY <1>3, MeantAgrees

\* When all that is said of a path is one thing, that is what it comes to.
LEMMA SaidAlike ==
  ASSUME NEW index \in Indexes, NEW seq \in Seq(Changes), NEW p \in Paths, NEW v,
         \A i \in DOMAIN seq : Touches(seq[i], p) => NewValue(seq[i]) = v
  PROVE  FoldLeft(Effect, index, seq)[p]
           = IF \E i \in DOMAIN seq : Touches(seq[i], p) THEN v ELSE index[p]
<1> DEFINE n == Len(seq)
           After(k) == IF \E i \in 1 .. k : Touches(seq[i], p) THEN v ELSE index[p]
           Good == [k \in 0 .. n |-> {x \in Indexes : x[p] = After(k)}]
<1>1. n \in Nat /\ DOMAIN seq = 1 .. n /\ \A i \in 1 .. n : seq[i] \in Changes
  BY LenProperties, ElementOfSeq
<1> HIDE DEF n
<1>2. index \in Good[0]
  BY <1>1
<1>3. ASSUME NEW k \in 1 .. n, NEW x \in Good[k - 1] PROVE Effect(x, seq[k]) \in Good[k]
  <2>1. k - 1 \in 0 .. n /\ k \in 0 .. n /\ 1 .. k = (1 .. k - 1) \cup {k}
    BY <1>1
  <2>2. x \in Indexes /\ x[p] = After(k - 1)
    BY <2>1
  <2>3. /\ Effect(x, seq[k]) \in Indexes
        /\ Effect(x, seq[k])[p] = IF Touches(seq[k], p) THEN NewValue(seq[k]) ELSE x[p]
    BY <1>1, <2>2, EffectTouches
  <2>4. Touches(seq[k], p) => NewValue(seq[k]) = v
    BY <1>1
  <2>5. After(k) = IF Touches(seq[k], p) THEN v ELSE After(k - 1)
    BY <2>1
  <2> HIDE DEF After
  <2> QED BY <2>1, <2>2, <2>3, <2>4, <2>5
<1>4. FoldLeft(Effect, index, seq) \in Good[n]
  <2> HIDE DEF Good
  <2> QED BY <1>1, <1>2, <1>3, Meant!FoldLeftInvariant, MeantAgrees
<1> QED BY <1>1, <1>4

\* Changes, one for each path at most, that give v[p] to each of the paths they touch.
Gives(S, touched, v) ==
  /\ S \subseteq Changes /\ \E f \in [Paths -> Changes] : \A c \in S : c = f[c.path]
  /\ \A p \in Paths : /\ (\E c \in S : Touches(c, p)) <=> p \in touched
                      /\ \A c \in S : Touches(c, p) => NewValue(c) = v[p]

LEMMA GroupEffect ==
  ASSUME NEW S, NEW touched, NEW v, Gives(S, touched, v), NEW index \in Indexes
  PROVE  /\ InPathOrder(S) \in Seq(Changes)
         /\ \A i \in DOMAIN InPathOrder(S) : InPathOrder(S)[i] \in S
         /\ FoldLeft(Effect, index, InPathOrder(S)) \in Indexes
         /\ \A p \in Paths :
              FoldLeft(Effect, index, InPathOrder(S))[p] = IF p \in touched THEN v[p] ELSE index[p]
<1>1. PICK f \in [Paths -> Changes] : \A c \in S : c = f[c.path]
  BY DEF Gives
<1> DEFINE key == [c \in S |-> Rank[c.path]]
           seq == InPathOrder(S)
<1>2. \A c \in S : c.path \in Paths
  BY DEF Changes, Gives
<1>3. IsFiniteSet(Paths) /\ \A q, r \in Paths : Rank[q] \in Int /\ (Rank[q] = Rank[r] => q = r)
  BY CatalogAssumption
<1>4. KeyedApart(S, key)
  <2>1. IsFiniteSet(S)
    <3> DEFINE T == {f[q] : q \in Paths}
    <3>1. f \in Surjection(Paths, T)
      BY DEF Surjection
    <3>2. S \in SUBSET T
      BY <1>1, <1>2
    <3> HIDE DEF T
    <3> QED BY <1>3, <3>1, <3>2, FS_Surjection, FS_Subset
  <2>2. \A c \in S : key[c] \in Int
    BY <1>2, <1>3
  <2>3. ASSUME NEW c \in S, NEW d \in S, key[c] = key[d] PROVE c = d
    <3>1. c.path = d.path
      BY <1>2, <1>3, <2>3
    <3> QED BY <1>1, <3>1
  <2> HIDE DEF key
  <2> QED BY <2>1, <2>2, <2>3 DEF KeyedApart
<1>5. /\ seq \in Seq(S) /\ \A c \in S : \E i \in DOMAIN seq : seq[i] = c
  <2>1. seq = Keyed(S, key)
    BY DEF InPathOrder
  <2> HIDE DEF key, seq
  <2> QED BY <1>4, <2>1, KeyedExact
<1> HIDE DEF seq
<1>6. seq \in Seq(Changes) /\ \A i \in DOMAIN seq : seq[i] \in S
  <2>1. \A i \in DOMAIN seq : seq[i] \in S
    BY <1>5, LenProperties, ElementOfSeq
  <2> QED BY <1>5, <2>1, SeqMonotonic DEF Gives
<1>7. ASSUME NEW p \in Paths
      PROVE  FoldLeft(Effect, index, seq)[p] = IF p \in touched THEN v[p] ELSE index[p]
  <2> DEFINE w == v[p]
  <2>1. \A i \in DOMAIN seq : Touches(seq[i], p) => NewValue(seq[i]) = w
    BY <1>6 DEF Gives
  <2>2. (\E i \in DOMAIN seq : Touches(seq[i], p)) <=> p \in touched
    BY <1>5, <1>6 DEF Gives
  <2>3. seq \in Seq(Changes)
    BY <1>6
  <2> HIDE DEF w, key
  <2>4. FoldLeft(Effect, index, seq)[p]
          = IF \E i \in DOMAIN seq : Touches(seq[i], p) THEN w ELSE index[p]
    BY <2>1, <2>3, SaidAlike
  <2> QED BY <2>2, <2>4 DEF w
<1>8. FoldLeft(Effect, index, seq) \in Indexes
  BY <1>6, MeantType
<1> QED BY <1>6, <1>7, <1>8 DEF seq
-----------------------------------------------------------------------------
(* Logs written anew. *)

\* One log after another means one effect after another.
LEMMA MeantConcat ==
  ASSUME NEW index, NEW s \in Seq(Changes), NEW t \in Seq(Changes)
  PROVE  /\ s \o t \in Seq(Changes)
         /\ FoldLeft(Effect, index, s \o t) = FoldLeft(Effect, FoldLeft(Effect, index, s), t)
         /\ \A i \in DOMAIN (s \o t) : (\E j \in DOMAIN s : (s \o t)[i] = s[j])
                                       \/ \E j \in DOMAIN t : (s \o t)[i] = t[j]
<1>1. FoldLeft(Effect, index, s \o t) = FoldLeft(Effect, FoldLeft(Effect, index, s), t)
  BY Meant!FoldLeftConcat, MeantAgrees
<1>2. /\ s \o t \in Seq(Changes) /\ Len(s \o t) = Len(s) + Len(t)
      /\ \A i \in 1 .. Len(s) + Len(t) : (s \o t)[i] = IF i <= Len(s) THEN s[i] ELSE t[i - Len(s)]
  BY ConcatProperties
<1>3. /\ Len(s) \in Nat /\ DOMAIN s = 1 .. Len(s) /\ Len(t) \in Nat /\ DOMAIN t = 1 .. Len(t)
      /\ DOMAIN (s \o t) = 1 .. Len(s \o t)
  BY <1>2, LenProperties
<1>4. ASSUME NEW i \in DOMAIN (s \o t)
      PROVE  (\E j \in DOMAIN s : (s \o t)[i] = s[j]) \/ \E j \in DOMAIN t : (s \o t)[i] = t[j]
  <2>1. i \in 1 .. Len(s) + Len(t)
    BY <1>2, <1>3, <1>4
  <2>2. CASE i <= Len(s)
    BY <1>2, <1>3, <2>1, <2>2
  <2>3. CASE ~(i <= Len(s))
    <3>1. i - Len(s) \in DOMAIN t
      BY <1>3, <2>1, <2>3
    <3> QED BY <1>2, <2>1, <2>3, <3>1
  <2> QED BY <2>2, <2>3
<1> QED BY <1>1, <1>2, <1>4

OverlayTables(o) == o.rows \in [Paths -> Records \cup {Nothing, Unsaid}] /\ o.prefixes \in SUBSET Paths

\* The resolved tables, as changes, turn any index that is right about what they do
\* not speak of into the one that is seen through them.
LEMMA ResolvedExact ==
  ASSUME NEW o, OverlayTables(o), NEW b \in Indexes, NEW index \in Indexes,
         \A p \in Paths : ~Shadows(o, p) => index[p] = b[p]
  PROVE  /\ ResolvedChanges(o) \in Seq(Changes)
         /\ FoldLeft(Effect, index, ResolvedChanges(o)) = Seen(b, o)
         /\ \A i \in DOMAIN ResolvedChanges(o) : \A p \in Paths :
              Touches(ResolvedChanges(o)[i], p) => Shadows(o, p)
<1> DEFINE A == {[kind |-> "prefix", path |-> p] : p \in o.prefixes}
           B == {[kind |-> "remove", path |-> p] : p \in {p \in Paths : o.rows[p] = Nothing}}
           C == {[kind |-> "upsert", path |-> p, record |-> o.rows[p]] :
                   p \in {p \in Paths : o.rows[p] \in Records}}
           covered == {p \in Paths : Covered(o, p)}
           removed == {p \in Paths : o.rows[p] = Nothing}
           put == {p \in Paths : o.rows[p] \in Records}
           none == [p \in Paths |-> Nothing]
<1>1. /\ \A p \in Paths : o.rows[p] \in Records \cup {Nothing, Unsaid}
      /\ o.prefixes \subseteq Paths
      /\ Nothing \notin Records /\ Unsaid \notin Records /\ Nothing # Unsaid
  BY RecordsAssumption DEF OverlayTables, Nothing, Unsaid
<1>2. \A p \in Paths : /\ (\E c \in A : Touches(c, p)) <=> p \in covered
                       /\ \A c \in A : NewValue(c) = none[p]
  <2>1. ASSUME NEW p \in Paths PROVE (\E c \in A : Touches(c, p)) <=> p \in covered
    <3>1. \A q : Touches([kind |-> "prefix", path |-> q], p) <=> p \in AtOrBelow(q)
      BY DEF Touches
    <3>2. (\E c \in A : Touches(c, p)) <=> \E q \in o.prefixes : p \in AtOrBelow(q)
      BY <3>1
    <3>3. (\E q \in o.prefixes : p \in AtOrBelow(q)) <=> Covered(o, p)
      BY <1>1 DEF Covered, AtOrBelow
    <3> QED BY <3>2, <3>3
  <2>2. \A c \in A : NewValue(c) = Nothing
    BY DEF NewValue
  <2> QED BY <2>1, <2>2
<1>3. \A p \in Paths : /\ (\E c \in B : Touches(c, p)) <=> p \in removed
                       /\ \A c \in B : NewValue(c) = none[p]
  <2>1. ASSUME NEW p \in Paths PROVE (\E c \in B : Touches(c, p)) <=> p \in removed
    <3>1. \A q : Touches([kind |-> "remove", path |-> q], p) <=> p = q
      BY DEF Touches
    <3> QED BY <3>1
  <2>2. \A c \in B : NewValue(c) = Nothing
    BY DEF NewValue
  <2> QED BY <2>1, <2>2
<1>4. \A p \in Paths : /\ (\E c \in C : Touches(c, p)) <=> p \in put
                       /\ \A c \in C : Touches(c, p) => NewValue(c) = o.rows[p]
  <2>1. ASSUME NEW p \in Paths PROVE (\E c \in C : Touches(c, p)) <=> p \in put
    <3>1. \A q : Touches([kind |-> "upsert", path |-> q, record |-> o.rows[q]], p) <=> p = q
      BY DEF Touches
    <3> QED BY <3>1
  <2>2. ASSUME NEW p \in Paths, NEW c \in C, Touches(c, p) PROVE NewValue(c) = o.rows[p]
    BY <2>2 DEF Touches, NewValue
  <2> QED BY <2>1, <2>2
<1>5. A \subseteq Changes /\ B \subseteq Changes /\ C \subseteq Changes
  BY <1>1 DEF Changes
<1>6. \E f \in [Paths -> Changes] : \A c \in A : c = f[c.path]
  <2> DEFINE f == [p \in Paths |-> [kind |-> "prefix", path |-> p]]
  <2>1. f \in [Paths -> Changes] /\ \A c \in A : c = f[c.path]
    BY <1>1 DEF Changes
  <2> QED BY <2>1
<1>7. \E f \in [Paths -> Changes] : \A c \in B : c = f[c.path]
  <2> DEFINE f == [p \in Paths |-> [kind |-> "remove", path |-> p]]
  <2>1. f \in [Paths -> Changes] /\ \A c \in B : c = f[c.path]
    BY DEF Changes
  <2> QED BY <2>1
<1>8. \E f \in [Paths -> Changes] : \A c \in C : c = f[c.path]
  <2> DEFINE f == [p \in Paths |-> IF o.rows[p] \in Records
                                   THEN [kind |-> "upsert", path |-> p, record |-> o.rows[p]]
                                   ELSE [kind |-> "remove", path |-> p]]
  <2>1. f \in [Paths -> Changes] /\ \A c \in C : c = f[c.path]
    BY DEF Changes
  <2> QED BY <2>1
<1> DEFINE x == FoldLeft(Effect, index, InPathOrder(A))
           y == FoldLeft(Effect, x, InPathOrder(B))
           z == FoldLeft(Effect, y, InPathOrder(C))
           all == ResolvedChanges(o)
<1>9. all = (InPathOrder(A) \o InPathOrder(B)) \o InPathOrder(C)
  BY DEF ResolvedChanges
<1>10. none \in [Paths -> {Nothing}] /\ \A p \in Paths : none[p] = Nothing
  OBVIOUS
<1> HIDE DEF A, B, C, none, covered, removed, put, all
<1>11. Gives(A, covered, none) /\ Gives(B, removed, none) /\ Gives(C, put, o.rows)
  BY <1>2, <1>3, <1>4, <1>5, <1>6, <1>7, <1>8 DEF Gives
<1>12. /\ InPathOrder(A) \in Seq(Changes) /\ x \in Indexes
       /\ \A i \in DOMAIN InPathOrder(A) : InPathOrder(A)[i] \in A
       /\ \A p \in Paths : x[p] = IF p \in covered THEN none[p] ELSE index[p]
  BY <1>11, GroupEffect
<1> HIDE DEF x
<1>13. /\ InPathOrder(B) \in Seq(Changes) /\ y \in Indexes
       /\ \A i \in DOMAIN InPathOrder(B) : InPathOrder(B)[i] \in B
       /\ \A p \in Paths : y[p] = IF p \in removed THEN none[p] ELSE x[p]
  <2>1. x \in Indexes /\ Gives(B, removed, none)
    BY <1>11, <1>12
  <2> QED BY <2>1, GroupEffect
<1> HIDE DEF y
<1>14. /\ InPathOrder(C) \in Seq(Changes) /\ z \in Indexes
       /\ \A i \in DOMAIN InPathOrder(C) : InPathOrder(C)[i] \in C
       /\ \A p \in Paths : z[p] = IF p \in put THEN o.rows[p] ELSE y[p]
  <2>1. y \in Indexes /\ Gives(C, put, o.rows)
    BY <1>11, <1>13
  <2> QED BY <2>1, GroupEffect, SMTT(30)
<1>15. /\ all \in Seq(Changes) /\ FoldLeft(Effect, index, all) = z
       /\ \A i \in DOMAIN all : all[i] \in A \cup B \cup C
  <2> DEFINE a == InPathOrder(A)
             r == InPathOrder(B)
             u == InPathOrder(C)
  <2>1. /\ a \in Seq(Changes) /\ r \in Seq(Changes) /\ u \in Seq(Changes)
        /\ \A i \in DOMAIN a : a[i] \in A
        /\ \A i \in DOMAIN r : r[i] \in B
        /\ \A i \in DOMAIN u : u[i] \in C
    BY <1>12, <1>13, <1>14
  <2>2. all = (a \o r) \o u /\ y = FoldLeft(Effect, FoldLeft(Effect, index, a), r)
        /\ z = FoldLeft(Effect, y, u)
    BY <1>9 DEF x, y
  <2> HIDE DEF a, r, u, x, y, z
  <2>3. a \o r \in Seq(Changes) /\ FoldLeft(Effect, index, a \o r) = y
    BY <2>1, <2>2, MeantConcat
  <2>4. \A i \in DOMAIN (a \o r) : (a \o r)[i] \in A \cup B
    BY <2>1, MeantConcat
  <2> DEFINE s == a \o r
  <2>5. all = s \o u /\ s \in Seq(Changes) /\ FoldLeft(Effect, index, s) = y /\ \A i \in DOMAIN s : s[i] \in A \cup B
    BY <2>2, <2>3, <2>4
  <2> HIDE DEF s
  <2>6. s \o u \in Seq(Changes) /\ FoldLeft(Effect, index, s \o u) = z
    BY <2>1, <2>2, <2>5, MeantConcat
  <2>7. \A i \in DOMAIN (s \o u) : (s \o u)[i] \in A \cup B \cup C
    BY <2>1, <2>5, MeantConcat
  <2> QED BY <2>5, <2>6, <2>7
<1> HIDE DEF x, y, z
<1>16. ASSUME NEW p \in Paths PROVE z[p] = Seen(b, o)[p]
  <2>1. Seen(b, o)[p] = IF Shadows(o, p) THEN IF IsRemoved(o, p) THEN Nothing ELSE o.rows[p] ELSE b[p]
    BY DEF Seen
  <2>2. /\ p \in covered <=> Covered(o, p)
        /\ p \in removed <=> o.rows[p] = Nothing
        /\ p \in put <=> o.rows[p] \in Records
    BY DEF covered, removed, put
  <2>3. /\ x[p] = IF Covered(o, p) THEN Nothing ELSE index[p]
        /\ y[p] = IF o.rows[p] = Nothing THEN Nothing ELSE x[p]
        /\ z[p] = IF o.rows[p] \in Records THEN o.rows[p] ELSE y[p]
    BY <1>10, <1>12, <1>13, <1>14, <2>2
  <2>4. CASE o.rows[p] \in Records
    BY <1>1, <2>1, <2>3, <2>4 DEF Shadows, IsRemoved
  <2>5. CASE o.rows[p] = Nothing
    BY <1>1, <2>1, <2>3, <2>5 DEF Shadows, IsRemoved
  <2>6. CASE o.rows[p] = Unsaid
    BY <1>1, <2>1, <2>3, <2>6 DEF Shadows, IsRemoved
  <2> QED BY <1>1, <2>4, <2>5, <2>6
<1>17. z = Seen(b, o)
  <2>1. DOMAIN z = Paths /\ z = [p \in Paths |-> z[p]]
    BY <1>14 DEF Indexes
  <2>2. Seen(b, o) = [p \in Paths |-> Seen(b, o)[p]]
    BY DEF Seen
  <2> QED BY <1>16, <2>1, <2>2
<1>18. ASSUME NEW i \in DOMAIN all, NEW p \in Paths, Touches(all[i], p) PROVE Shadows(o, p)
  <2>1. all[i] \in A \cup B \cup C
    BY <1>15
  <2>2. p \in covered \/ p \in removed \/ p \in put
    BY <1>2, <1>3, <1>4, <1>18, <2>1
  <2>3. Covered(o, p) \/ o.rows[p] # Unsaid
    BY <1>1, <2>2 DEF covered, removed, put
  <2> QED BY <2>3 DEF Shadows
<1> QED BY <1>15, <1>17, <1>18 DEF all
-----------------------------------------------------------------------------
(* What a catalog shows. *)

CatalogStates ==
  [entries : [Paths -> Records \cup {Nothing}], singles : SUBSET Ids, ranges : SUBSET (Nat \X Nat),
   revision : Nat, tombstoned : BOOLEAN]

Gone(c, p) == \A i \in IdsOf({p}) : IsDead(c, i)
Shown(c) == [p \in Paths |-> FindRecord(c, p)]

\* The rows of a path die together, and a live entry only stands over dead rows.
CatalogForm(c) ==
  /\ c \in CatalogStates /\ RangesForm(c.ranges)
  /\ \A i, j \in Ids : PinnedRows[i].path = PinnedRows[j].path /\ IsDead(c, i) => IsDead(c, j)
  /\ \A p \in Paths : c.entries[p] # Nothing => Gone(c, p)

LEMMA PinnedType == PinnedIndex \in Indexes
<1>1. ASSUME NEW p \in Paths, IdsOf({p}) # {} PROVE PinnedRows[Min(IdsOf({p}))].record \in Records
  <2>1. IdsOf({p}) \subseteq Nat /\ IdsOf({p}) \subseteq Ids
    BY RowsPinned DEF IdsOf
  <2>2. Min(IdsOf({p})) \in Ids
    BY <1>1, <2>1, MinOfNat
  <2> QED BY <2>2, RowsPinned
<1> QED BY <1>1 DEF PinnedIndex, Indexes

LEMMA ShownIs ==
  ASSUME NEW c, CatalogForm(c), NEW p \in Paths
  PROVE  /\ FindRecord(c, p) = IF c.entries[p] # Nothing THEN c.entries[p]
                               ELSE IF Gone(c, p) THEN Nothing ELSE PinnedIndex[p]
         /\ ~Gone(c, p) => \A i \in IdsOf({p}) : ~IsDead(c, i)
<1>1. \A i, j \in IdsOf({p}) : IsDead(c, i) => IsDead(c, j)
  BY DEF CatalogForm, IdsOf
<1>2. ~Gone(c, p) => \A i \in IdsOf({p}) : ~IsDead(c, i)
  BY <1>1 DEF Gone
<1>3. CASE Gone(c, p)
  <2>1. LiveBase(c, p) = {}
    BY <1>3 DEF Gone, LiveBase
  <2> QED BY <1>2, <1>3, <2>1 DEF FindRecord
<1>4. CASE ~Gone(c, p)
  <2>1. LiveBase(c, p) = IdsOf({p}) /\ IdsOf({p}) # {}
    BY <1>2, <1>4 DEF LiveBase, Gone
  <2>2. PinnedIndex[p] = PinnedRows[Min(IdsOf({p}))].record
    BY <2>1 DEF PinnedIndex
  <2> QED BY <1>2, <1>4, <2>1, <2>2 DEF FindRecord
<1> QED BY <1>3, <1>4

LEMMA ShownType ==
  ASSUME NEW c, CatalogForm(c)
  PROVE  Shown(c) \in Indexes /\ \A p \in Paths : Shown(c)[p] = FindRecord(c, p)
<1>1. c.entries \in [Paths -> Records \cup {Nothing}]
  BY DEF CatalogForm, CatalogStates
<1>2. \A p \in Paths : PinnedIndex[p] \in Records \cup {Nothing}
  BY PinnedType DEF Indexes
<1>3. \A p \in Paths : FindRecord(c, p) \in Records \cup {Nothing}
  BY <1>1, <1>2, ShownIs
<1> QED BY <1>3 DEF Shown, Indexes

\* The paths of a set are given one value: their rows are dead, their entries new.
LEMMA Replaced ==
  ASSUME NEW c, CatalogForm(c), NEW d \in CatalogStates, RangesForm(d.ranges),
         NEW T \in SUBSET Paths, NEW new \in Records \cup {Nothing},
         \A i \in Ids : IsDead(d, i) <=> IsDead(c, i) \/ i \in IdsOf(T),
         \A p \in Paths : d.entries[p] = IF p \in T THEN new ELSE c.entries[p]
  PROVE  CatalogForm(d) /\ \A p \in Paths : Shown(d)[p] = IF p \in T THEN new ELSE Shown(c)[p]
<1>1. ASSUME NEW i \in Ids, NEW j \in Ids, PinnedRows[i].path = PinnedRows[j].path, IsDead(d, i)
      PROVE  IsDead(d, j)
  <2>1. i \in IdsOf(T) => j \in IdsOf(T)
    BY <1>1 DEF IdsOf
  <2>2. IsDead(c, i) => IsDead(c, j)
    BY <1>1 DEF CatalogForm
  <2> QED BY <1>1, <2>1, <2>2
<1>2. ASSUME NEW p \in Paths PROVE Gone(d, p) <=> Gone(c, p) \/ p \in T
  <2>1. \A i \in IdsOf({p}) : i \in Ids /\ PinnedRows[i].path = p
    BY DEF IdsOf
  <2>2. CASE p \in T
    <3>1. \A i \in IdsOf({p}) : i \in IdsOf(T)
      BY <2>2 DEF IdsOf
    <3> QED BY <2>1, <2>2, <3>1 DEF Gone
  <2>3. CASE p \notin T
    <3>1. \A i \in IdsOf({p}) : i \notin IdsOf(T)
      BY <2>3 DEF IdsOf
    <3> QED BY <2>1, <2>3, <3>1 DEF Gone
  <2> QED BY <2>2, <2>3
<1>3. \A p \in Paths : c.entries[p] # Nothing => Gone(c, p)
  BY DEF CatalogForm
<1>4. CatalogForm(d)
  BY <1>1, <1>2, <1>3 DEF CatalogForm
<1>5. ASSUME NEW p \in Paths PROVE Shown(d)[p] = IF p \in T THEN new ELSE Shown(c)[p]
  <2>1. FindRecord(d, p) = IF d.entries[p] # Nothing THEN d.entries[p]
                           ELSE IF Gone(d, p) THEN Nothing ELSE PinnedIndex[p]
    BY <1>4, ShownIs
  <2>2. FindRecord(c, p) = IF c.entries[p] # Nothing THEN c.entries[p]
                           ELSE IF Gone(c, p) THEN Nothing ELSE PinnedIndex[p]
    BY ShownIs
  <2>3. FindRecord(d, p) = IF p \in T THEN new ELSE FindRecord(c, p)
    BY <1>2, <2>1, <2>2
  <2> QED BY <2>3 DEF Shown
<1> QED BY <1>4, <1>5

\* A change told to the catalog does to what it shows what the change means.
LEMMA ApplyShows ==
  ASSUME NEW w, CatalogForm(w), NEW c \in Changes
  PROVE  LET d == ApplyToCatalog(w, c)
         IN /\ CatalogForm(d) /\ Shown(d) = Effect(Shown(w), c)
            /\ d.revision = w.revision
            /\ ~d.tombstoned => ~w.tombstoned /\ d.singles = w.singles /\ d.ranges = w.ranges
<1> DEFINE d == ApplyToCatalog(w, c)
           new == NewValue(c)
<1>1. /\ c.kind \in {"upsert", "remove", "prefix"} /\ c.path \in Paths
      /\ c.kind = "upsert" => c.record \in Records
  BY DEF Changes
<1>2. w \in CatalogStates /\ RangesForm(w.ranges)
  BY DEF CatalogForm
<1>3. new \in Records \cup {Nothing}
  BY <1>1 DEF NewValue
<1>4. ASSUME NEW T \in SUBSET Paths, d \in CatalogStates, RangesForm(d.ranges),
             \A p \in Paths : p \in T <=> Touches(c, p),
             \A i \in Ids : IsDead(d, i) <=> IsDead(w, i) \/ i \in IdsOf(T),
             \A p \in Paths : d.entries[p] = IF p \in T THEN new ELSE w.entries[p]
      PROVE  CatalogForm(d) /\ Shown(d) = Effect(Shown(w), c)
  <2> HIDE DEF d, new
  <2>1. CatalogForm(d) /\ \A p \in Paths : Shown(d)[p] = IF p \in T THEN new ELSE Shown(w)[p]
    BY <1>3, <1>4, Replaced
  <2>2. \A p \in Paths : Effect(Shown(w), c)[p] = IF Touches(c, p) THEN new ELSE Shown(w)[p]
    BY ShownType, EffectTouches DEF new
  <2>3. \A p \in Paths : Shown(d)[p] = Effect(Shown(w), c)[p]
    BY <1>4, <2>1, <2>2
  <2>4. Shown(d) = [p \in Paths |-> Shown(d)[p]]
    BY DEF Shown
  <2>5. Effect(Shown(w), c) = [p \in Paths |-> Effect(Shown(w), c)[p]]
    BY DEF Effect
  <2> QED BY <2>1, <2>3, <2>4, <2>5
<1>5. CASE c.kind = "prefix"
  <2> DEFINE root == c.path
             T == AtOrBelow(root)
             ranges == AddSubtree(w.ranges, root)
             entries == [p \in Paths |-> IF p \in T THEN Nothing ELSE w.entries[p]]
  <2>1. d = [w EXCEPT !.ranges = ranges, !.entries = entries, !.tombstoned = @ \/ IdsOf(T) # {}]
    BY <1>5 DEF ApplyToCatalog, DropFolder
  <2>2. /\ RangesForm(ranges)
        /\ \A i \in Ids : Covers(ranges, i) <=> Covers(w.ranges, i) \/ i \in IdsOf(T)
        /\ IdsOf(T) = {} => ranges = w.ranges
    BY <1>1, <1>2, AddSubtreeExact
  <2>3. entries \in [Paths -> Records \cup {Nothing}] /\ T \in SUBSET Paths
    BY <1>2 DEF CatalogStates, AtOrBelow
  <2>4. new = Nothing /\ \A p \in Paths : p \in T <=> Touches(c, p)
    BY <1>5 DEF NewValue, Touches
  <2> HIDE DEF ranges, entries, d, T
  <2>5. /\ d.ranges = ranges /\ d.entries = entries /\ d.singles = w.singles /\ d.revision = w.revision
        /\ d.tombstoned = (w.tombstoned \/ IdsOf(T) # {})
    BY <1>2, <2>1 DEF CatalogStates
  <2>6. d \in CatalogStates
    <3>1. ranges \in SUBSET (Nat \X Nat)
      BY <2>2 DEF RangesForm
    <3> QED BY <1>2, <2>1, <2>3, <3>1 DEF CatalogStates
  <2>7. \A i \in Ids : IsDead(d, i) <=> IsDead(w, i) \/ i \in IdsOf(T)
    BY <2>2, <2>5 DEF IsDead, Covers
  <2>8. \A p \in Paths : d.entries[p] = IF p \in T THEN new ELSE w.entries[p]
    BY <2>4, <2>5 DEF entries
  <2>9. CatalogForm(d) /\ Shown(d) = Effect(Shown(w), c)
    BY <1>4, <2>2, <2>3, <2>4, <2>5, <2>6, <2>7, <2>8
  <2> QED BY <2>2, <2>5, <2>9 DEF d
<1>6. CASE c.kind # "prefix" /\ c.kind = "upsert" /\ FindRecord(w, c.path) = new
  <2>1. d = w
    BY <1>6 DEF ApplyToCatalog, PutRecord, NewValue
  <2>2. \A p \in Paths : Effect(Shown(w), c)[p] = Shown(w)[p]
    <3>1. ASSUME NEW p \in Paths PROVE Effect(Shown(w), c)[p] = Shown(w)[p]
      <4>1. Touches(c, p) <=> p = c.path
        BY <1>6 DEF Touches
      <4> QED BY <1>6, <4>1, ShownType, EffectTouches
    <3> QED BY <3>1
  <2>3. Effect(Shown(w), c) = Shown(w)
    <3>1. Shown(w) = [p \in Paths |-> Shown(w)[p]]
      BY DEF Shown
    <3>2. Effect(Shown(w), c) = [p \in Paths |-> Effect(Shown(w), c)[p]]
      BY DEF Effect
    <3> QED BY <2>2, <3>1, <3>2
  <2> QED BY <2>1, <2>3
<1>7. CASE c.kind # "prefix" /\ ~(c.kind = "upsert" /\ FindRecord(w, c.path) = new)
  <2> DEFINE T == {c.path}
  <2>1. d = [w EXCEPT !.singles = @ \cup IdsOf(T), !.entries[c.path] = new,
                      !.tombstoned = @ \/ ~(IdsOf(T) \subseteq w.singles)]
    BY <1>7 DEF ApplyToCatalog, PutRecord, NewValue
  <2>2. T \in SUBSET Paths /\ \A p \in Paths : p \in T <=> Touches(c, p)
    BY <1>1, <1>7 DEF Touches
  <2>3. IdsOf(T) \subseteq Ids
    BY DEF IdsOf
  <2> HIDE DEF d, new
  <2>4. /\ d.ranges = w.ranges /\ d.singles = w.singles \cup IdsOf(T) /\ d.revision = w.revision
        /\ d.entries = [w.entries EXCEPT ![c.path] = new]
        /\ d.tombstoned = (w.tombstoned \/ ~(IdsOf(T) \subseteq w.singles))
    BY <1>2, <2>1 DEF CatalogStates
  <2>5. \A p \in Paths : d.entries[p] = IF p \in T THEN new ELSE w.entries[p]
    <3>1. w.entries \in [Paths -> Records \cup {Nothing}]
      BY <1>2 DEF CatalogStates
    <3> QED BY <2>4, <3>1
  <2>6. d \in CatalogStates
    BY <1>2, <1>3, <2>1, <2>3 DEF CatalogStates
  <2>7. \A i \in Ids : IsDead(d, i) <=> IsDead(w, i) \/ i \in IdsOf(T)
    BY <2>4 DEF IsDead
  <2>8. RangesForm(d.ranges)
    BY <1>2, <2>4
  <2>9. CatalogForm(d) /\ Shown(d) = Effect(Shown(w), c)
    BY <1>4, <2>2, <2>5, <2>6, <2>7, <2>8
  <2> QED BY <2>4, <2>9 DEF d
<1> QED BY <1>5, <1>6, <1>7

Told == INSTANCE FoldTheory WITH Op <- ApplyToCatalog
LEMMA ToldAgrees == \A first, seq : Told!FoldLeft(ApplyToCatalog, first, seq) = FoldLeft(ApplyToCatalog, first, seq)
  BY Zenon DEF FoldLeft, MapThenFoldSet, Told!FoldLeft, Told!MapThenFoldSet, Max, Told!Max
-----------------------------------------------------------------------------
\* A transaction does what its changes mean, and keeps the revision only when no
\* row died in it.
LEMMA ChangesShow ==
  ASSUME NEW c, CatalogForm(c), NEW changes \in Seq(Changes)
  PROVE  LET d == ApplyChanges(c, changes)
         IN /\ CatalogForm(d) /\ Shown(d) = FoldLeft(Effect, Shown(c), changes)
            /\ d.revision \in Nat /\ c.revision <= d.revision
            /\ d.revision = c.revision => d.singles = c.singles /\ d.ranges = c.ranges
<1> DEFINE n == Len(changes)
           w == [c EXCEPT !.tombstoned = FALSE]
           e == FoldLeft(ApplyToCatalog, w, changes)
           d == ApplyChanges(c, changes)
<1>1. n \in Nat /\ DOMAIN changes = 1 .. n /\ \A i \in 1 .. n : changes[i] \in Changes
  BY LenProperties, ElementOfSeq
<1> HIDE DEF n
<1>2. PICK f : Told!RunsLeft(f, w, changes, n) /\ Told!FoldLeft(ApplyToCatalog, w, changes) = f[n]
  BY <1>1, Told!LeftSteps
<1>3. PICK g : Meant!RunsLeft(g, Shown(c), changes, n) /\ Meant!FoldLeft(Effect, Shown(c), changes) = g[n]
  BY <1>1, Meant!LeftSteps
<1>4. c \in CatalogStates
  BY DEF CatalogForm
<1>5. /\ w.singles = c.singles /\ w.ranges = c.ranges /\ w.entries = c.entries
      /\ w.revision = c.revision /\ w.tombstoned = FALSE /\ w \in CatalogStates
  BY <1>4 DEF CatalogStates
<1> HIDE DEF w
<1>6. CatalogForm(w) /\ Shown(w) = Shown(c)
  <2>1. \A i \in Ids : IsDead(w, i) <=> IsDead(c, i)
    BY <1>5 DEF IsDead
  <2>2. \A p \in Paths : LiveBase(w, p) = LiveBase(c, p) /\ (Gone(w, p) <=> Gone(c, p))
    BY <2>1 DEF LiveBase, Gone, IdsOf
  <2>3. \A p \in Paths : FindRecord(w, p) = FindRecord(c, p)
    BY <1>5, <2>2 DEF FindRecord
  <2> QED BY <1>5, <2>1, <2>2, <2>3 DEF CatalogForm, Shown
<1> DEFINE Right(k) == /\ CatalogForm(f[k]) /\ Shown(f[k]) = g[k] /\ f[k].revision = c.revision
                       /\ ~f[k].tombstoned => f[k].singles = c.singles /\ f[k].ranges = c.ranges
           Good == {k \in Nat : k <= n => Right(k)}
<1>7. 0 \in Good
  BY <1>1, <1>2, <1>3, <1>5, <1>6 DEF Told!RunsLeft, Meant!RunsLeft
<1>8. ASSUME NEW k \in Nat, k \in Good PROVE k + 1 \in Good
  <2> SUFFICES ASSUME k + 1 <= n PROVE Right(k + 1)
    OBVIOUS
  <2>1. k + 1 \in 1 .. n /\ (k + 1) - 1 = k /\ k <= n
    BY <1>1
  <2>2. f[k + 1] = ApplyToCatalog(f[k], changes[k + 1]) /\ g[k + 1] = Effect(g[k], changes[k + 1])
    BY <1>2, <1>3, <2>1 DEF Told!RunsLeft, Meant!RunsLeft
  <2>3. Right(k) /\ changes[k + 1] \in Changes
    BY <1>1, <1>8, <2>1
  <2>4. CatalogForm(f[k])
    BY <2>3
  <2>5. /\ CatalogForm(f[k + 1]) /\ Shown(f[k + 1]) = Effect(Shown(f[k]), changes[k + 1])
        /\ f[k + 1].revision = f[k].revision
        /\ ~f[k + 1].tombstoned => /\ ~f[k].tombstoned /\ f[k + 1].singles = f[k].singles
                                   /\ f[k + 1].ranges = f[k].ranges
    BY <2>2, <2>3, <2>4, ApplyShows, SMTT(30)
  <2> QED BY <2>2, <2>3, <2>5
<1>9. Right(n)
  <2>1. n \in Good
    <3> HIDE DEF Good
    <3> QED BY <1>1, <1>7, <1>8, Told!Induction
  <2> QED BY <1>1, <2>1
<1>10. e = f[n] /\ FoldLeft(Effect, Shown(c), changes) = g[n]
  BY <1>2, <1>3, ToldAgrees, MeantAgrees
<1>11. d = [e EXCEPT !.revision = IF e.tombstoned THEN @ + 1 ELSE @, !.tombstoned = FALSE]
  BY DEF ApplyChanges, w
<1> HIDE DEF e, d
<1>12. CatalogForm(e) /\ Shown(e) = FoldLeft(Effect, Shown(c), changes) /\ e.revision = c.revision
       /\ (~e.tombstoned => e.singles = c.singles /\ e.ranges = c.ranges)
  BY <1>9, <1>10
<1>13. e \in CatalogStates /\ e.tombstoned \in BOOLEAN /\ c.revision \in Nat
  BY <1>4, <1>12 DEF CatalogForm, CatalogStates
<1>14. /\ d.singles = e.singles /\ d.ranges = e.ranges /\ d.entries = e.entries /\ d \in CatalogStates
       /\ d.revision = IF e.tombstoned THEN e.revision + 1 ELSE e.revision
  <2> DEFINE revision == IF e.tombstoned THEN e.revision + 1 ELSE e.revision
  <2>1. revision \in Nat /\ d = [e EXCEPT !.revision = revision, !.tombstoned = FALSE]
    BY <1>11, <1>13 DEF CatalogStates
  <2> HIDE DEF revision
  <2>2. d \in CatalogStates
    BY <1>13, <2>1 DEF CatalogStates
  <2>3. /\ d.singles = e.singles /\ d.ranges = e.ranges /\ d.entries = e.entries /\ d.revision = revision
    BY <1>13, <2>1 DEF CatalogStates
  <2> QED BY <2>2, <2>3 DEF revision
<1>15. CatalogForm(d) /\ Shown(d) = Shown(e)
  <2>1. \A i \in Ids : IsDead(d, i) <=> IsDead(e, i)
    BY <1>14 DEF IsDead
  <2>2. \A p \in Paths : LiveBase(d, p) = LiveBase(e, p) /\ (Gone(d, p) <=> Gone(e, p))
    BY <2>1 DEF LiveBase, Gone, IdsOf
  <2>3. \A p \in Paths : FindRecord(d, p) = FindRecord(e, p)
    BY <1>14, <2>2 DEF FindRecord
  <2> QED BY <1>12, <1>14, <2>1, <2>2, <2>3 DEF CatalogForm, Shown
<1>16. d.revision \in Nat /\ c.revision <= d.revision /\ (d.revision = c.revision => ~e.tombstoned)
  BY <1>12, <1>13, <1>14
<1> QED BY <1>12, <1>14, <1>15, <1>16 DEF d

\* The log that is made from the catalog means what the catalog shows.
LEMMA RecoveredExact ==
  ASSUME NEW c, CatalogForm(c)
  PROVE  FoldLeft(Effect, PinnedIndex, RecoveredChanges(c)) = Shown(c)
<1> DEFINE A == {[kind |-> "remove", path |-> PinnedRows[i].path] : i \in {i \in Ids : IsDead(c, i)}}
           B == {[kind |-> "upsert", path |-> p, record |-> c.entries[p]] :
                   p \in {p \in Paths : c.entries[p] # Nothing}}
           died == {p \in Paths : \E i \in IdsOf({p}) : IsDead(c, i)}
           put == {p \in Paths : c.entries[p] # Nothing}
           none == [p \in Paths |-> Nothing]
<1>1. /\ c.entries \in [Paths -> Records \cup {Nothing}]
      /\ \A i \in Ids : PinnedRows[i].path \in Paths
  BY RowsPinned DEF CatalogForm, CatalogStates
<1>2. Gives(A, died, none)
  <2>1. A \subseteq Changes
    BY <1>1 DEF Changes
  <2>2. \E f \in [Paths -> Changes] : \A x \in A : x = f[x.path]
    <3> DEFINE f == [p \in Paths |-> [kind |-> "remove", path |-> p]]
    <3>1. f \in [Paths -> Changes] /\ \A x \in A : x = f[x.path]
      BY <1>1 DEF Changes
    <3> QED BY <3>1
  <2>3. \A p \in Paths : (\E x \in A : Touches(x, p)) <=> p \in died
    <3>1. ASSUME NEW p \in Paths PROVE (\E x \in A : Touches(x, p)) <=> p \in died
      <4>1. \A q : Touches([kind |-> "remove", path |-> q], p) <=> p = q
        BY DEF Touches
      <4>2. (\E x \in A : Touches(x, p))
              <=> \E i \in {i \in Ids : IsDead(c, i)} :
                    Touches([kind |-> "remove", path |-> PinnedRows[i].path], p)
        OBVIOUS
      <4> HIDE DEF A
      <4> QED BY <4>1, <4>2 DEF IdsOf
    <3> QED BY <3>1
  <2>4. \A p \in Paths : \A x \in A : NewValue(x) = none[p]
    BY DEF NewValue
  <2> HIDE DEF A, died, none
  <2> QED BY <2>1, <2>2, <2>3, <2>4 DEF Gives
<1>3. Gives(B, put, c.entries)
  <2>1. B \subseteq Changes
    BY <1>1 DEF Changes
  <2>2. \E f \in [Paths -> Changes] : \A x \in B : x = f[x.path]
    <3> DEFINE f == [p \in Paths |-> IF c.entries[p] # Nothing
                                     THEN [kind |-> "upsert", path |-> p, record |-> c.entries[p]]
                                     ELSE [kind |-> "remove", path |-> p]]
    <3>1. f \in [Paths -> Changes] /\ \A x \in B : x = f[x.path]
      BY <1>1 DEF Changes
    <3> QED BY <3>1
  <2>3. \A p \in Paths : (\E x \in B : Touches(x, p)) <=> p \in put
    <3>1. ASSUME NEW p \in Paths PROVE (\E x \in B : Touches(x, p)) <=> p \in put
      <4>1. \A q : Touches([kind |-> "upsert", path |-> q, record |-> c.entries[q]], p) <=> p = q
        BY DEF Touches
      <4>2. (\E x \in B : Touches(x, p))
              <=> \E q \in put : Touches([kind |-> "upsert", path |-> q, record |-> c.entries[q]], p)
        OBVIOUS
      <4> HIDE DEF B, put
      <4> QED BY <4>1, <4>2 DEF put
    <3> QED BY <3>1
  <2>4. ASSUME NEW p \in Paths, NEW x \in B, Touches(x, p) PROVE NewValue(x) = c.entries[p]
    BY <2>4 DEF NewValue, Touches
  <2> HIDE DEF B, put
  <2> QED BY <2>1, <2>2, <2>3, <2>4 DEF Gives
<1> DEFINE a == InPathOrder(A)
           b == InPathOrder(B)
           x == FoldLeft(Effect, PinnedIndex, a)
           y == FoldLeft(Effect, x, b)
<1>4. RecoveredChanges(c) = a \o b
  BY DEF RecoveredChanges
<1>5. \A p \in Paths : none[p] = Nothing
  OBVIOUS
<1> HIDE DEF A, B, none
<1>6. a \in Seq(Changes) /\ x \in Indexes /\ \A p \in Paths : x[p] = IF p \in died THEN none[p] ELSE PinnedIndex[p]
  <2> HIDE DEF died
  <2> QED BY <1>2, PinnedType, GroupEffect
<1> HIDE DEF x
<1>7. b \in Seq(Changes) /\ y \in Indexes /\ \A p \in Paths : y[p] = IF p \in put THEN c.entries[p] ELSE x[p]
  <2>1. x \in Indexes
    BY <1>6
  <2> HIDE DEF died, put
  <2> QED BY <1>3, <2>1, GroupEffect
<1>8. FoldLeft(Effect, PinnedIndex, a \o b) = y
  <2> HIDE DEF a, b
  <2> QED BY <1>6, <1>7, MeantConcat DEF x
<1> HIDE DEF a, b, y
<1>9. ASSUME NEW p \in Paths PROVE y[p] = Shown(c)[p]
  <2>1. y[p] = IF c.entries[p] # Nothing THEN c.entries[p] ELSE IF p \in died THEN Nothing ELSE PinnedIndex[p]
    BY <1>5, <1>6, <1>7
  <2>2. CASE p \in died
    <3>1. Gone(c, p)
      BY <2>2, ShownIs
    <3> QED BY <2>1, <2>2, <3>1, ShownIs, ShownType
  <2>3. CASE p \notin died
    <3>1. Gone(c, p) => PinnedIndex[p] = Nothing
      <4>1. Gone(c, p) => IdsOf({p}) = {}
        BY <2>3 DEF Gone
      <4> QED BY <4>1 DEF PinnedIndex
    <3> QED BY <2>1, <2>3, <3>1, ShownIs, ShownType
  <2> QED BY <2>2, <2>3
<1>10. y = [p \in Paths |-> y[p]]
  BY <1>7 DEF Indexes
<1>11. Shown(c) = [p \in Paths |-> Shown(c)[p]]
  BY DEF Shown
<1>12. y = Shown(c)
  BY <1>9, <1>10, <1>11
<1> QED BY <1>4, <1>8, <1>12
-----------------------------------------------------------------------------
(* The catalog and the log. *)

LEMMA NextTables ==
  ASSUME NEW o \in TablePart, NEW c \in Changes
  PROVE  /\ ApplyOne(o, c) \in TablePart
         /\ \A b \in Indexes : Seen(b, ApplyOne(o, c)) = Effect(Seen(b, o), c)
         /\ \A p \in Paths : Shadows(o, p) \/ Touches(c, p) => Shadows(ApplyOne(o, c), p)
<1> DEFINE n == ApplyOne(o, c)
           t == [rows |-> o.rows, prefixes |-> o.prefixes, at |-> 0]
           m == ApplyOne(t, c)
<1>1. /\ c.kind \in {"upsert", "remove", "prefix"} /\ c.path \in Paths
      /\ c.kind = "upsert" => c.record \in Records
  BY DEF Changes
<1>2. t \in Tables /\ t.rows = o.rows /\ t.prefixes = o.prefixes
  BY DEF TablePart, Tables
<1>3. n \in TablePart /\ n.rows = m.rows /\ n.prefixes = m.prefixes
  <2>1. CASE c.kind = "prefix"
    <3>1. RemoveFolder(o, c.path) \in TablePart
      BY <1>1 DEF RemoveFolder, TablePart
    <3>2. /\ RemoveFolder(o, c.path).rows = RemoveFolder(t, c.path).rows
          /\ RemoveFolder(o, c.path).prefixes = RemoveFolder(t, c.path).prefixes
      BY DEF RemoveFolder, TablePart
    <3> QED BY <2>1, <3>1, <3>2 DEF ApplyOne
  <2>2. CASE c.kind # "prefix"
    BY <1>1, <2>2 DEF ApplyOne, TablePart
  <2> QED BY <2>1, <2>2
<1>4. ASSUME NEW b \in Indexes PROVE Seen(b, n) = Effect(Seen(b, o), c)
  <2>1. Seen(b, m) = Effect(Seen(b, t), c)
    BY <1>2, ApplyCorrect
  <2> HIDE DEF n, m, t
  <2>2. Seen(b, m) = Seen(b, n) /\ Seen(b, t) = Seen(b, o)
    BY <1>2, <1>3 DEF Seen, Shadows, IsRemoved, Covered
  <2> QED BY <2>1, <2>2
<1>5. ASSUME NEW p \in Paths, Shadows(o, p) \/ Touches(c, p) PROVE Shadows(n, p)
  <2>1. CASE c.kind = "prefix"
    <3> DEFINE root == c.path
               kept == o.prefixes \ AtOrBelow(root)
    <3>1. /\ n.rows = [q \in Paths |-> IF q \in AtOrBelow(root) THEN Unsaid ELSE o.rows[q]]
          /\ n.prefixes = IF Ancestors(root) \cap kept # {} THEN kept ELSE kept \cup {root}
      BY <2>1 DEF ApplyOne, RemoveFolder, TablePart
    <3>2. root \in Paths /\ o.prefixes \subseteq Paths
      BY <1>1 DEF TablePart
    <3>3. CASE p \in AtOrBelow(root)
      <4>1. Ancestors(root) \subseteq Ancestors(p) /\ root \in Ancestors(p)
        BY <3>2, <3>3, PathsAssumption DEF PathsAreATree, Ancestors, AtOrBelow
      <4>2. Ancestors(p) \cap n.prefixes # {}
        BY <3>1, <4>1
      <4> QED BY <4>2 DEF Shadows, Covered
    <3>4. CASE p \notin AtOrBelow(root)
      <4>1. Shadows(o, p)
        BY <1>5, <2>1, <3>4 DEF Touches
      <4>2. CASE o.rows[p] # Unsaid
        BY <3>1, <3>4, <4>2 DEF Shadows
      <4>3. CASE Covered(o, p)
        <5>1. PICK q \in o.prefixes : q \in Ancestors(p)
          BY <4>3 DEF Covered
        <5>2. q \notin AtOrBelow(root)
          BY <3>2, <3>4, <5>1, PathsAssumption DEF PathsAreATree, Ancestors, AtOrBelow
        <5>3. q \in n.prefixes
          BY <3>1, <5>1, <5>2
        <5> QED BY <5>1, <5>3 DEF Shadows, Covered
      <4> QED BY <4>1, <4>2, <4>3 DEF Shadows
    <3> QED BY <3>3, <3>4
  <2>2. CASE c.kind # "prefix"
    <3>1. /\ n.prefixes = o.prefixes
          /\ n.rows = [o.rows EXCEPT ![c.path] = IF c.kind = "upsert" THEN c.record ELSE Nothing]
      BY <2>2 DEF ApplyOne, TablePart
    <3>2. o.rows \in [Paths -> Records \cup {Nothing, Unsaid}]
      BY DEF TablePart
    <3>3. Unsaid \notin Records /\ Unsaid # Nothing
      BY RecordsAssumption DEF Nothing, Unsaid
    <3>4. CASE p = c.path
      <4>1. n.rows[p] # Unsaid
        BY <1>1, <3>1, <3>2, <3>3, <3>4
      <4> QED BY <4>1 DEF Shadows
    <3>5. CASE p # c.path
      <4>1. Shadows(o, p)
        BY <1>5, <2>2, <3>5 DEF Touches
      <4>2. n.rows[p] = o.rows[p]
        BY <3>1, <3>2, <3>5
      <4> QED BY <3>1, <4>1, <4>2 DEF Shadows, Covered
    <3> QED BY <3>4, <3>5
  <2> QED BY <2>1, <2>2
<1> QED BY <1>3, <1>4, <1>5

\* What changes do not touch stays.
LEMMA UntouchedStays ==
  ASSUME NEW index \in Indexes, NEW seq \in Seq(Changes), NEW p \in Paths,
         \A i \in DOMAIN seq : ~Touches(seq[i], p)
  PROVE  FoldLeft(Effect, index, seq)[p] = index[p]
<1>1. \A i \in DOMAIN seq : Touches(seq[i], p) => NewValue(seq[i]) = Nothing
  OBVIOUS
<1>2. FoldLeft(Effect, index, seq)[p] = IF \E i \in DOMAIN seq : Touches(seq[i], p) THEN Nothing ELSE index[p]
  BY <1>1, SaidAlike
<1> QED BY <1>2

\* The changes the catalog has yet to take in.
Owed == IF session = "open" THEN pending ELSE replay

RowsTypes ==
  /\ stored \in Indexes /\ told \in Seq(Changes) /\ resolved \in TablePart
  /\ pending \in Seq(Changes) /\ replay \in Seq(Changes)
  /\ session \in {"open", "replaying", "stopped"}
  /\ session # "open" => pending = <<>>
  /\ session # "replaying" => replay = <<>>

\* t is what a catalog's reader loaded, if the revision did not move since.
LoadedFrom(t, c) ==
  t.revision \in Nat /\ t.revision <= c.revision /\ (t.revision = c.revision => t = LoadTombstones(c))

RowsInv ==
  /\ RowsTypes /\ CatalogForm(catalog)
  /\ FoldLeft(Effect, stored, told) = Seen(stored, resolved)
  /\ \A p \in Paths : ~Shadows(resolved, p) => Shown(catalog)[p] = stored[p]
  /\ \A i \in DOMAIN Owed : \A p \in Paths : Touches(Owed[i], p) => Shadows(resolved, p)
  /\ session # "stopped" => FoldLeft(Effect, Shown(catalog), Owed) = Seen(stored, resolved)
  /\ LoadedFrom(heldDead, catalog)

LEMMA SeenThrough ==
  /\ NoTables \in TablePart /\ \A p \in Paths : ~Shadows(NoTables, p)
  /\ \A b \in Indexes : Seen(b, NoTables) = b
<1>1. NoTables \in TablePart
  BY DEF NoTables, NoRows, TablePart
<1>2. \A p \in Paths : ~Shadows(NoTables, p)
  BY DEF NoTables, NoRows, Shadows, Covered
<1>3. ASSUME NEW b \in Indexes PROVE Seen(b, NoTables) = b
  <2>1. Seen(b, NoTables) = [p \in Paths |-> b[p]]
    BY <1>2 DEF Seen
  <2> QED BY <2>1 DEF Indexes
<1> QED BY <1>1, <1>2, <1>3

LEMMA SeenType ==
  ASSUME NEW b \in Indexes, NEW o \in TablePart
  PROVE  Seen(b, o) \in Indexes
<1>1. \A p \in Paths : o.rows[p] \in Records \cup {Nothing, Unsaid} /\ b[p] \in Records \cup {Nothing}
  BY DEF TablePart, Indexes
<1>2. \A p \in Paths : Shadows(o, p) /\ ~IsRemoved(o, p) => o.rows[p] \in Records
  BY <1>1, RecordsAssumption DEF Shadows, IsRemoved
<1>3. \A p \in Paths : (IF Shadows(o, p) THEN IF IsRemoved(o, p) THEN Nothing ELSE o.rows[p] ELSE b[p]) \in Records \cup {Nothing}
  BY <1>1, <1>2
<1> QED BY <1>3 DEF Seen, Indexes

LEMMA RowsInitInv == CatalogInit => RowsInv
<1> SUFFICES ASSUME CatalogInit PROVE RowsInv
  OBVIOUS
<1>1. /\ stored = PinnedIndex /\ told = <<>> /\ resolved = NoTables
      /\ pending = <<>> /\ replay = <<>> /\ session = "open" /\ heldDead = LoadTombstones(catalog)
  BY DEF CatalogInit
<1>2. /\ catalog \in CatalogStates /\ catalog.singles = {} /\ catalog.ranges = {} /\ catalog.revision = 0
      /\ \A p \in Paths : catalog.entries[p] = Nothing
  BY DEF CatalogInit, CatalogStates
<1>3. \A i \in Ids : ~IsDead(catalog, i)
  BY <1>2 DEF IsDead
<1>4. CatalogForm(catalog)
  <2>1. RangesForm({})
    BY FS_EmptySet DEF RangesForm
  <2> QED BY <1>2, <1>3, <2>1 DEF CatalogForm
<1>5. Shown(catalog) = PinnedIndex
  <2>1. \A p \in Paths : Gone(catalog, p) => IdsOf({p}) = {}
    BY <1>3 DEF Gone, IdsOf
  <2>2. \A p \in Paths : IdsOf({p}) = {} => PinnedIndex[p] = Nothing
    BY DEF PinnedIndex
  <2>3. \A p \in Paths : FindRecord(catalog, p) = PinnedIndex[p]
    BY <1>2, <1>4, <2>1, <2>2, ShownIs
  <2>4. PinnedIndex = [p \in Paths |-> PinnedIndex[p]]
    BY PinnedType DEF Indexes
  <2> QED BY <2>3, <2>4 DEF Shown
<1>6. RowsTypes
  BY <1>1, PinnedType, SeenThrough DEF RowsTypes
<1>7. LoadedFrom(heldDead, catalog)
  BY <1>1, <1>2 DEF LoadedFrom, LoadTombstones
<1>8. Owed = <<>>
  BY <1>1 DEF Owed
<1>9. FoldLeft(Effect, stored, told) = Seen(stored, resolved) /\ FoldLeft(Effect, Shown(catalog), Owed) = Seen(stored, resolved)
  BY <1>1, <1>5, <1>8, PinnedType, SeenThrough, NothingMeant
<1> QED BY <1>1, <1>4, <1>5, <1>6, <1>7, <1>8, <1>9 DEF RowsInv

LEMMA TellKeepsRows ==
  ASSUME RowsInv, NEW c \in CatalogWrites, Tell(c)
  PROVE  RowsInv'
<1>1. /\ session = "open" /\ told' = Append(told, c) /\ pending' = Append(pending, c)
      /\ resolved' = ApplyOne(resolved, c)
      /\ UNCHANGED <<stored, catalog, replay, session, heldDead>>
  BY DEF Tell
<1>2. c \in Changes
  BY CatalogAssumption
<1>3. RowsTypes /\ CatalogForm(catalog) /\ LoadedFrom(heldDead, catalog)
  BY DEF RowsInv
<1>4. stored \in Indexes /\ told \in Seq(Changes) /\ pending \in Seq(Changes) /\ resolved \in TablePart
  BY <1>3 DEF RowsTypes
<1>5. /\ resolved' \in TablePart /\ Seen(stored, resolved') = Effect(Seen(stored, resolved), c)
      /\ \A p \in Paths : Shadows(resolved, p) \/ Touches(c, p) => Shadows(resolved', p)
  BY <1>1, <1>2, <1>4, NextTables
<1>6. RowsTypes'
  BY <1>1, <1>2, <1>3, <1>5 DEF RowsTypes
<1>7. ASSUME NEW index
      PROVE  /\ FoldLeft(Effect, index, told') = Effect(FoldLeft(Effect, index, told), c)
             /\ FoldLeft(Effect, index, pending') = Effect(FoldLeft(Effect, index, pending), c)
  <2>1. Meant!FoldLeft(Effect, index, Append(told, c)) = Effect(Meant!FoldLeft(Effect, index, told), c)
    BY <1>4, Meant!FoldLeftAppend, Zenon
  <2>2. Meant!FoldLeft(Effect, index, Append(pending, c)) = Effect(Meant!FoldLeft(Effect, index, pending), c)
    BY <1>4, Meant!FoldLeftAppend, Zenon
  <2> QED BY <1>1, <2>1, <2>2, MeantAgrees
<1>8. Owed = pending /\ Owed' = pending'
  BY <1>1 DEF Owed
<1>9. /\ FoldLeft(Effect, stored, told) = Seen(stored, resolved)
      /\ FoldLeft(Effect, Shown(catalog), pending) = Seen(stored, resolved)
      /\ \A p \in Paths : ~Shadows(resolved, p) => Shown(catalog)[p] = stored[p]
      /\ \A i \in DOMAIN pending : \A p \in Paths : Touches(pending[i], p) => Shadows(resolved, p)
  BY <1>1, <1>8 DEF RowsInv
<1>10. \A i \in DOMAIN pending' : (i \in DOMAIN pending /\ pending'[i] = pending[i]) \/ pending'[i] = c
  BY <1>1, <1>4
<1>11. \A i \in DOMAIN Owed' : \A p \in Paths : Touches(Owed'[i], p) => Shadows(resolved', p)
  BY <1>5, <1>8, <1>9, <1>10
<1>12. /\ FoldLeft(Effect, stored', told') = Seen(stored', resolved')
       /\ FoldLeft(Effect, Shown(catalog'), Owed') = Seen(stored', resolved')
  BY <1>1, <1>5, <1>7, <1>8, <1>9
<1>13. \A p \in Paths : ~Shadows(resolved', p) => Shown(catalog')[p] = stored'[p]
  BY <1>1, <1>5, <1>9
<1> QED BY <1>1, <1>3, <1>6, <1>11, <1>12, <1>13 DEF RowsInv

\* A reader's tombstones survive what moves the revision with every change.
LEMMA StillLoaded ==
  ASSUME NEW t, NEW c, NEW d, LoadedFrom(t, c), c.revision \in Nat, d.revision \in Nat,
         c.revision <= d.revision,
         d.revision = c.revision => d.singles = c.singles /\ d.ranges = c.ranges
  PROVE  LoadedFrom(t, d)
<1>1. t.revision \in Nat /\ t.revision <= d.revision
  BY DEF LoadedFrom
<1>2. ASSUME t.revision = d.revision PROVE t = LoadTombstones(d)
  <2>1. d.revision = c.revision /\ t = LoadTombstones(c)
    BY <1>2 DEF LoadedFrom
  <2> QED BY <2>1 DEF LoadTombstones
<1> QED BY <1>1, <1>2 DEF LoadedFrom

LEMMA ReflectKeepsRows ==
  ASSUME RowsInv, Reflect
  PROVE  RowsInv'
<1>1. /\ session = "open" /\ catalog' = ApplyChanges(catalog, pending) /\ pending' = <<>>
      /\ UNCHANGED <<stored, told, resolved, replay, session, heldDead>>
  BY DEF Reflect
<1>2. RowsTypes /\ CatalogForm(catalog) /\ LoadedFrom(heldDead, catalog)
  BY DEF RowsInv
<1>3. stored \in Indexes /\ pending \in Seq(Changes) /\ resolved \in TablePart
  BY <1>2 DEF RowsTypes
<1>4. /\ CatalogForm(catalog') /\ Shown(catalog') = FoldLeft(Effect, Shown(catalog), pending)
      /\ catalog'.revision \in Nat /\ catalog.revision <= catalog'.revision
      /\ catalog'.revision = catalog.revision =>
           catalog'.singles = catalog.singles /\ catalog'.ranges = catalog.ranges
  BY <1>1, <1>2, <1>3, ChangesShow
<1>5. catalog.revision \in Nat
  BY <1>2 DEF CatalogForm, CatalogStates
<1>6. LoadedFrom(heldDead', catalog')
  <2>1. LoadedFrom(heldDead, catalog')
    BY <1>2, <1>4, <1>5, StillLoaded
  <2> QED BY <1>1, <2>1
<1>7. Owed = pending /\ Owed' = <<>>
  BY <1>1 DEF Owed
<1>8. /\ FoldLeft(Effect, stored, told) = Seen(stored, resolved)
      /\ FoldLeft(Effect, Shown(catalog), pending) = Seen(stored, resolved)
  BY <1>1, <1>7 DEF RowsInv
<1>9. Shown(catalog') = Seen(stored, resolved)
  BY <1>4, <1>8
<1>10. \A p \in Paths : ~Shadows(resolved', p) => Shown(catalog')[p] = stored'[p]
  BY <1>1, <1>9 DEF Seen
<1>11. FoldLeft(Effect, Shown(catalog'), Owed') = Seen(stored', resolved')
  BY <1>1, <1>7, <1>9, NothingMeant
<1>12. RowsTypes'
  BY <1>1, <1>2 DEF RowsTypes
<1> QED BY <1>1, <1>4, <1>6, <1>7, <1>8, <1>10, <1>11, <1>12 DEF RowsInv

LEMMA StopKeepsRows ==
  ASSUME RowsInv, StopCatalog
  PROVE  RowsInv'
<1>1. /\ session' = "stopped" /\ pending' = <<>> /\ replay' = <<>>
      /\ UNCHANGED <<stored, told, resolved, catalog, heldDead>>
  BY DEF StopCatalog
<1>2. Owed' = <<>>
  BY <1>1 DEF Owed
<1>3. RowsTypes'
  BY <1>1 DEF RowsInv, RowsTypes
<1> QED BY <1>1, <1>2, <1>3 DEF RowsInv

LEMMA ReopenKeepsRows ==
  ASSUME RowsInv, ReopenCatalog
  PROVE  RowsInv'
<1>1. /\ session = "stopped" /\ session' = "replaying" /\ replay' = ResolvedChanges(resolved)
      /\ UNCHANGED <<stored, told, resolved, catalog, pending, heldDead>>
  BY DEF ReopenCatalog
<1>2. RowsTypes /\ CatalogForm(catalog)
  BY DEF RowsInv
<1>3. stored \in Indexes /\ resolved \in TablePart /\ Shown(catalog) \in Indexes
  BY <1>2, ShownType DEF RowsTypes
<1>4. OverlayTables(resolved)
  BY <1>3 DEF TablePart, OverlayTables
<1>5. \A p \in Paths : ~Shadows(resolved, p) => Shown(catalog)[p] = stored[p]
  BY DEF RowsInv
<1>6. /\ replay' \in Seq(Changes)
      /\ FoldLeft(Effect, Shown(catalog), replay') = Seen(stored, resolved)
      /\ \A i \in DOMAIN replay' : \A p \in Paths : Touches(replay'[i], p) => Shadows(resolved, p)
  BY <1>1, <1>3, <1>4, <1>5, ResolvedExact
<1>7. Owed' = replay'
  BY <1>1 DEF Owed
<1>8. RowsTypes'
  BY <1>1, <1>2, <1>6 DEF RowsTypes
<1>9. FoldLeft(Effect, stored, told) = Seen(stored, resolved) /\ LoadedFrom(heldDead, catalog)
  BY DEF RowsInv
<1> QED BY <1>1, <1>2, <1>5, <1>6, <1>7, <1>8, <1>9 DEF RowsInv

\* A sequence in two pieces.
LEMMA CutInTwo ==
  ASSUME NEW X, NEW seq \in Seq(X), NEW n \in 1 .. Len(seq), NEW head, NEW tail,
         head = SubSeq(seq, 1, n), tail = SubSeq(seq, n + 1, Len(seq))
  PROVE  /\ head \in Seq(X) /\ tail \in Seq(X) /\ head \o tail = seq
         /\ DOMAIN head = 1 .. n /\ \A i \in 1 .. n : head[i] = seq[i] /\ i \in DOMAIN seq
         /\ DOMAIN tail = 1 .. Len(seq) - n
         /\ \A i \in 1 .. Len(seq) - n : tail[i] = seq[i + n] /\ i + n \in DOMAIN seq
<1> DEFINE m == Len(seq)
<1>1. m \in Nat /\ n \in Nat /\ n <= m /\ DOMAIN seq = 1 .. m /\ \A i \in 1 .. m : seq[i] \in X
  BY LenProperties, ElementOfSeq
<1> HIDE DEF m
<1>2. head \in Seq(X) /\ Len(head) = n /\ \A i \in 1 .. n : head[i] = seq[i]
  <2>1. 1 \in Int /\ n \in Int /\ 1 <= n /\ (n - 1) + 1 = n /\ \A i \in 1 .. n : seq[i] \in X /\ (1 + i) - 1 = i
    BY <1>1
  <2> QED BY <2>1, SubSeqProperties
<1>3. tail \in Seq(X) /\ Len(tail) = m - n /\ \A i \in 1 .. m - n : tail[i] = seq[i + n]
  <2>1. n + 1 \in Int /\ m \in Int /\ (m - (n + 1)) + 1 = m - n /\ \A i \in n + 1 .. m : seq[i] \in X
    BY <1>1
  <2>2. /\ tail \in Seq(X) /\ Len(tail) = (IF n + 1 <= m THEN (m - (n + 1)) + 1 ELSE 0)
        /\ \A i \in 1 .. (m - (n + 1)) + 1 : tail[i] = seq[((n + 1) + i) - 1]
    BY <2>1, SubSeqProperties DEF m
  <2>3. Len(tail) = m - n
    BY <1>1, <2>1, <2>2
  <2>4. \A i \in 1 .. m - n : ((n + 1) + i) - 1 = i + n
    BY <1>1
  <2> QED BY <2>1, <2>2, <2>3, <2>4
<1>4. DOMAIN head = 1 .. n /\ DOMAIN tail = 1 .. m - n
  BY <1>2, <1>3, LenProperties
<1>5. head \o tail = seq
  <2>1. /\ head \o tail \in Seq(X) /\ Len(head \o tail) = n + (m - n)
        /\ \A i \in 1 .. n + (m - n) : (head \o tail)[i] = IF i <= n THEN head[i] ELSE tail[i - n]
    <3>1. head \in Seq(X) /\ tail \in Seq(X)
      BY <1>2, <1>3
    <3>2. /\ head \o tail \in Seq(X) /\ Len(head \o tail) = Len(head) + Len(tail)
          /\ \A i \in 1 .. Len(head) + Len(tail) :
               (head \o tail)[i] = IF i <= Len(head) THEN head[i] ELSE tail[i - Len(head)]
      BY <3>1, ConcatProperties, ZenonT(60)
    <3>3. Len(head) = n /\ Len(tail) = m - n
      BY <1>2, <1>3
    <3> QED BY <3>2, <3>3, Zenon
  <2>2. n + (m - n) = m
    BY <1>1
  <2>3. ASSUME NEW i \in 1 .. m PROVE (head \o tail)[i] = seq[i]
    <3>1. CASE i <= n
      BY <1>1, <1>2, <2>1, <2>2, <3>1
    <3>2. CASE ~(i <= n)
      <4>1. i - n \in 1 .. m - n /\ (i - n) + n = i
        BY <1>1, <3>2
      <4>2. tail[i - n] = seq[i]
        BY <1>3, <4>1
      <4> QED BY <2>1, <2>2, <3>2, <4>2
    <3> QED BY <3>1, <3>2
  <2>4. Len(head \o tail) = Len(seq) /\ \A i \in 1 .. Len(head \o tail) : (head \o tail)[i] = seq[i]
    BY <2>1, <2>2, <2>3, Zenon DEF m
  <2> QED BY <2>1, <2>4, SeqEqual
<1>6. \A i \in 1 .. n : i \in DOMAIN seq
  BY <1>1
<1>7. \A i \in 1 .. m - n : i + n \in DOMAIN seq
  BY <1>1
<1> QED BY <1>2, <1>3, <1>4, <1>5, <1>6, <1>7 DEF m

LEMMA ReplayKeepsRows ==
  ASSUME RowsInv, NEW n \in 1 .. Len(replay), ReplayChunk(n)
  PROVE  RowsInv'
<1> DEFINE head == SubSeq(replay, 1, n)
           tail == SubSeq(replay, n + 1, Len(replay))
<1>1. /\ session = "replaying" /\ catalog' = ApplyChanges(catalog, head) /\ replay' = tail
      /\ UNCHANGED <<stored, told, resolved, pending, session, heldDead>>
  BY DEF ReplayChunk
<1>2. RowsTypes /\ CatalogForm(catalog) /\ LoadedFrom(heldDead, catalog)
  BY DEF RowsInv
<1>3. replay \in Seq(Changes) /\ resolved \in TablePart
  BY <1>2 DEF RowsTypes
<1>4. /\ head \in Seq(Changes) /\ tail \in Seq(Changes) /\ head \o tail = replay
      /\ DOMAIN head = 1 .. n /\ \A i \in 1 .. n : head[i] = replay[i] /\ i \in DOMAIN replay
      /\ DOMAIN tail = 1 .. Len(replay) - n
      /\ \A i \in 1 .. Len(replay) - n : tail[i] = replay[i + n] /\ i + n \in DOMAIN replay
  BY <1>3, CutInTwo
<1>5. Owed = replay /\ Owed' = tail
  BY <1>1 DEF Owed
<1> HIDE DEF head, tail
<1>6. /\ CatalogForm(catalog') /\ Shown(catalog') = FoldLeft(Effect, Shown(catalog), head)
      /\ catalog'.revision \in Nat /\ catalog.revision <= catalog'.revision
      /\ catalog'.revision = catalog.revision =>
           catalog'.singles = catalog.singles /\ catalog'.ranges = catalog.ranges
  BY <1>1, <1>2, <1>4, ChangesShow
<1>7. LoadedFrom(heldDead', catalog')
  <2>1. catalog.revision \in Nat
    BY <1>2 DEF CatalogForm, CatalogStates
  <2>2. LoadedFrom(heldDead, catalog')
    BY <1>2, <1>6, <2>1, StillLoaded
  <2> QED BY <1>1, <2>2
<1>8. /\ FoldLeft(Effect, stored, told) = Seen(stored, resolved)
      /\ FoldLeft(Effect, Shown(catalog), replay) = Seen(stored, resolved)
      /\ \A p \in Paths : ~Shadows(resolved, p) => Shown(catalog)[p] = stored[p]
      /\ \A i \in DOMAIN replay : \A p \in Paths : Touches(replay[i], p) => Shadows(resolved, p)
  BY <1>1, <1>5 DEF RowsInv
<1>9. FoldLeft(Effect, Shown(catalog'), Owed') = Seen(stored', resolved')
  <2>1. FoldLeft(Effect, Shown(catalog), head \o tail)
          = FoldLeft(Effect, FoldLeft(Effect, Shown(catalog), head), tail)
    <3>1. head \in Seq(Changes) /\ tail \in Seq(Changes)
      BY <1>4
    <3> QED BY <3>1, MeantConcat
  <2> QED BY <1>1, <1>4, <1>5, <1>6, <1>8, <2>1
<1>10. ASSUME NEW p \in Paths, ~Shadows(resolved, p) PROVE Shown(catalog')[p] = stored[p]
  <2>1. \A i \in DOMAIN head : ~Touches(head[i], p)
    BY <1>4, <1>8, <1>10
  <2>2. Shown(catalog) \in Indexes
    BY <1>2, ShownType
  <2>3. FoldLeft(Effect, Shown(catalog), head)[p] = Shown(catalog)[p]
    BY <1>4, <2>1, <2>2, UntouchedStays
  <2> QED BY <1>6, <1>8, <1>10, <2>3
<1>11. \A i \in DOMAIN Owed' : \A p \in Paths : Touches(Owed'[i], p) => Shadows(resolved', p)
  BY <1>1, <1>4, <1>5, <1>8
<1>12. RowsTypes'
  BY <1>1, <1>2, <1>4 DEF RowsTypes
<1> QED BY <1>1, <1>6, <1>7, <1>8, <1>9, <1>10, <1>11, <1>12 DEF RowsInv

LEMMA ReplayEndKeepsRows ==
  ASSUME RowsInv, ReplayEnds
  PROVE  RowsInv'
<1>1. /\ session = "replaying" /\ replay = <<>> /\ session' = "open"
      /\ UNCHANGED <<stored, told, resolved, catalog, pending, replay, heldDead>>
  BY DEF ReplayEnds
<1>2. pending = <<>>
  BY <1>1 DEF RowsInv, RowsTypes
<1>3. Owed' = Owed
  BY <1>1, <1>2 DEF Owed
<1>4. RowsTypes'
  BY <1>1 DEF RowsInv, RowsTypes
<1> QED BY <1>1, <1>3, <1>4 DEF RowsInv

LEMMA CompactKeepsRows ==
  ASSUME RowsInv, CompactUnder
  PROVE  RowsInv'
<1>1. /\ session = "open" /\ pending = <<>>
      /\ stored' = Seen(stored, resolved) /\ told' = <<>> /\ resolved' = NoTables
      /\ UNCHANGED <<catalog, pending, replay, session, heldDead>>
  BY DEF CompactUnder
<1>2. RowsTypes /\ CatalogForm(catalog) /\ LoadedFrom(heldDead, catalog)
  BY DEF RowsInv
<1>3. stored' \in Indexes
  BY <1>1, <1>2, SeenType DEF RowsTypes
<1>4. Owed = <<>> /\ Owed' = <<>>
  BY <1>1 DEF Owed
<1>5. FoldLeft(Effect, Shown(catalog), <<>>) = Seen(stored, resolved)
  BY <1>1, <1>4 DEF RowsInv
<1>6. Shown(catalog) = stored'
  BY <1>1, <1>5, NothingMeant
<1>7. Seen(stored', resolved') = stored' /\ \A p \in Paths : ~Shadows(resolved', p)
  BY <1>1, <1>3, SeenThrough
<1>8. RowsTypes'
  BY <1>1, <1>2, <1>3, SeenThrough DEF RowsTypes
<1>9. FoldLeft(Effect, stored', told') = Seen(stored', resolved')
  BY <1>1, <1>7, NothingMeant
<1>10. FoldLeft(Effect, Shown(catalog'), Owed') = Seen(stored', resolved')
  BY <1>1, <1>4, <1>6, <1>7, NothingMeant
<1> QED BY <1>1, <1>2, <1>4, <1>6, <1>7, <1>8, <1>9, <1>10 DEF RowsInv

LEMMA ReaderKeepsRows ==
  ASSUME RowsInv, ReaderLoads
  PROVE  RowsInv'
<1>1. /\ heldDead' = LoadTombstones(catalog)
      /\ UNCHANGED <<stored, told, resolved, catalog, pending, replay, session>>
  BY DEF ReaderLoads
<1>2. catalog.revision \in Nat
  BY DEF RowsInv, CatalogForm, CatalogStates
<1>3. LoadedFrom(heldDead', catalog')
  BY <1>1, <1>2 DEF LoadedFrom, LoadTombstones
<1>4. Owed' = Owed
  BY <1>1 DEF Owed
<1>5. RowsTypes'
  BY <1>1 DEF RowsInv, RowsTypes
<1> QED BY <1>1, <1>3, <1>4, <1>5 DEF RowsInv

LEMMA RowsNextInv == RowsInv /\ [CatalogNext]_catalogVars => RowsInv'
<1> SUFFICES ASSUME RowsInv, [CatalogNext]_catalogVars PROVE RowsInv'
  OBVIOUS
<1>1. CASE \E c \in CatalogWrites : Tell(c)
  BY <1>1, TellKeepsRows
<1>2. CASE Reflect
  BY <1>2, ReflectKeepsRows
<1>3. CASE StopCatalog
  BY <1>3, StopKeepsRows
<1>4. CASE ReopenCatalog
  BY <1>4, ReopenKeepsRows
<1>5. CASE ReplayEnds
  BY <1>5, ReplayEndKeepsRows
<1>6. CASE \E n \in 1 .. Len(replay) : ReplayChunk(n)
  BY <1>6, ReplayKeepsRows
<1>7. CASE CompactUnder
  BY <1>7, CompactKeepsRows
<1>8. CASE ReaderLoads
  BY <1>8, ReaderKeepsRows
<1>9. CASE UNCHANGED catalogVars
  <2>1. /\ stored' = stored /\ told' = told /\ resolved' = resolved /\ catalog' = catalog
        /\ pending' = pending /\ replay' = replay /\ session' = session /\ heldDead' = heldDead
    BY <1>9 DEF catalogVars
  <2>2. Owed' = Owed
    BY <2>1 DEF Owed
  <2>3. RowsTypes'
    BY <2>1 DEF RowsInv, RowsTypes
  <2> QED BY <2>1, <2>2, <2>3 DEF RowsInv
<1> QED BY <1>1, <1>2, <1>3, <1>4, <1>5, <1>6, <1>7, <1>8, <1>9 DEF CatalogNext

LEMMA RowsInvSays == RowsInv => CatalogSound
<1> SUFFICES ASSUME RowsInv PROVE CatalogSound
  OBVIOUS
<1>1. CatalogForm(catalog) /\ RangesForm(catalog.ranges) /\ LoadedFrom(heldDead, catalog)
  BY DEF RowsInv, CatalogForm
<1>2. CatalogMeansIndex(Shown(catalog))
  <2>1. ASSUME session = "open", pending = <<>> PROVE Shown(catalog) = FoldLeft(Effect, stored, told)
    <3>1. FoldLeft(Effect, Shown(catalog), <<>>) = FoldLeft(Effect, stored, told)
      BY <2>1 DEF RowsInv, Owed
    <3> QED BY <3>1, NothingMeant
  <2>2. ASSUME NEW p \in Paths, catalog.entries[p] # Nothing
        PROVE  LiveBase(catalog, p) = {}
    BY <1>1, <2>2 DEF CatalogForm, Gone, LiveBase
  <2> QED BY <2>1, <2>2 DEF CatalogMeansIndex
<1>3. TombstonesCurrent
  <2>1. TombstonesFor(catalog) = LoadTombstones(catalog)
    BY <1>1 DEF TombstonesFor, LoadedFrom
  <2> QED BY <1>1, <2>1, TombstonesExact DEF TombstonesCurrent
<1>4. RecoveredLogMeans(Shown(catalog))
  BY <1>1, RecoveredExact DEF RecoveredLogMeans
<1> QED BY <1>2, <1>3, <1>4 DEF CatalogSound, Shown

(* The catalog stands for one index: what an open catalog shows is what the *)
(* base and the log mean, however often a replay was cut short; kept        *)
(* tombstones are the current ones; and a log recovered from it means what  *)
(* it shows (browse/updates.rs, browse/catalog.rs,                          *)
(* browse/cursor/recovery.rs).                                              *)
THEOREM CatalogSoundHolds == CatalogSpec => []CatalogSound
<1>1. CatalogInit => RowsInv
  BY RowsInitInv
<1>2. RowsInv /\ [CatalogNext]_catalogVars => RowsInv'
  BY RowsNextInv
<1>3. RowsInv => CatalogSound
  BY RowsInvSays
<1> QED BY <1>1, <1>2, <1>3, PTL DEF CatalogSpec
=============================================================================
