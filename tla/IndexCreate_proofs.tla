------------------------- MODULE IndexCreate_proofs -------------------------
(***************************************************************************)
(* What CREATE INDEX promises, for every table, every set of NULLs, every   *)
(* number of threads and every order in which they take the row groups.     *)
(* The proof follows each embedding from the table scan through the staging *)
(* buffer of one thread into the index of its row group.                    *)
(***************************************************************************)
EXTENDS IndexCreate, AnswerLemmas, FiniteSetTheorems, FunctionTheorems, SequenceTheorems, TLAPS

-----------------------------------------------------------------------------
(* Finite sets of numbers and their ascending sequences.                    *)

HasLargest(S) == \E m \in S : \A s \in S : s <= m

\* A finite set of numbers that has any has a largest: a smallest set without one would have
\* one when an element is taken out.
LEMMA Largest ==
  ASSUME NEW S \in SUBSET Nat, IsFiniteSet(S), S # {}
  PROVE  HasLargest(S)
<1> DEFINE Bad == {T \in FiniteSubsetsOf(Nat) : T # {} /\ ~HasLargest(T)}
<1>1. SUFFICES ASSUME Bad # {} PROVE FALSE
  BY DEF FiniteSubsetsOf
<1>2. PICK T \in Bad : \A U \in Bad : <<U, T>> \notin StrictSubsetOrdering(Nat)
  <2>1. IsWellFoundedOn(StrictSubsetOrdering(Nat), FiniteSubsetsOf(Nat))
    BY FS_StrictSubsetOrderingWellFounded
  <2>2. Bad \subseteq FiniteSubsetsOf(Nat)
    OBVIOUS
  <2> HIDE DEF Bad
  <2> QED BY <1>1, <2>1, <2>2, WFMin
<1>3. PICK x \in T : TRUE
  OBVIOUS
<1>4. T \in SUBSET Nat /\ IsFiniteSet(T) /\ ~HasLargest(T)
  BY DEF FiniteSubsetsOf
<1>5. T \ {x} \in FiniteSubsetsOf(Nat) /\ <<T \ {x}, T>> \in StrictSubsetOrdering(Nat)
  BY <1>3, <1>4, FS_RemoveElement DEF FiniteSubsetsOf, StrictSubsetOrdering
<1>6. T \ {x} = {} \/ HasLargest(T \ {x})
  BY <1>2, <1>5
<1>7. HasLargest(T)
  <2>1. CASE T \ {x} = {}
    BY <1>3, <1>4, <2>1 DEF HasLargest
  <2>2. CASE HasLargest(T \ {x})
    BY <1>3, <1>4, <2>2 DEF HasLargest
  <2> QED BY <1>6, <2>1, <2>2
<1> QED BY <1>4, <1>7

IsAscending(s) == \A i, j \in DOMAIN s : i < j => s[i] < s[j]
CanAscend(S) == \E s \in [1 .. Cardinality(S) -> S] : IsAscending(s)

\* The ascending sequence of a set goes on with a number that is larger than all of it.
LEMMA AscendingGoesOn ==
  ASSUME NEW S \in SUBSET Nat, IsFiniteSet(S), NEW m \in S, \A s \in S : s <= m,
         CanAscend(S \ {m})
  PROVE  CanAscend(S)
<1> DEFINE n == Cardinality(S)
<1>1. n \in Nat /\ Cardinality(S \ {m}) = n - 1 /\ n - 1 \in Nat
  BY FS_CardinalityType, FS_RemoveElement
<1>2. PICK s \in [1 .. n - 1 -> S \ {m}] : IsAscending(s)
  BY <1>1 DEF CanAscend
<1> DEFINE e == [i \in 1 .. n |-> IF i = n THEN m ELSE s[i]]
<1>3. e \in [1 .. n -> S]
  BY <1>1, <1>2
<1>4. ASSUME NEW i \in 1 .. n, NEW j \in 1 .. n, i < j PROVE e[i] < e[j]
  <2>1. i \in 1 .. n - 1 /\ e[i] = s[i] /\ s[i] \in S \ {m}
    BY <1>1, <1>4
  <2>2. CASE j = n
    <3>1. e[j] = m /\ s[i] <= m /\ s[i] # m /\ s[i] \in Nat /\ m \in Nat
      BY <2>1, <2>2
    <3> HIDE DEF e
    <3> QED BY <2>1, <3>1
  <2>3. CASE j # n
    <3>1. j \in 1 .. n - 1 /\ e[j] = s[j]
      BY <1>1, <2>3
    <3> QED BY <1>2, <1>4, <2>1, <3>1 DEF IsAscending
  <2> QED BY <2>2, <2>3
<1> HIDE DEF e
<1>5. DOMAIN e = 1 .. n
  BY <1>3
<1> QED BY <1>3, <1>4, <1>5 DEF CanAscend, IsAscending

\* A finite set of numbers can be put in ascending order: a smallest one that cannot would
\* lose its largest number.
LEMMA AscendingExists ==
  ASSUME NEW S \in SUBSET Nat, IsFiniteSet(S)
  PROVE  CanAscend(S)
<1> DEFINE Bad == {T \in FiniteSubsetsOf(Nat) : ~CanAscend(T)}
<1>1. SUFFICES ASSUME Bad # {} PROVE FALSE
  BY DEF FiniteSubsetsOf
<1>2. PICK T \in Bad : \A U \in Bad : <<U, T>> \notin StrictSubsetOrdering(Nat)
  <2>1. IsWellFoundedOn(StrictSubsetOrdering(Nat), FiniteSubsetsOf(Nat))
    BY FS_StrictSubsetOrderingWellFounded
  <2>2. Bad \subseteq FiniteSubsetsOf(Nat)
    OBVIOUS
  <2> HIDE DEF Bad
  <2> QED BY <1>1, <2>1, <2>2, WFMin
<1>3. T \in SUBSET Nat /\ IsFiniteSet(T) /\ ~CanAscend(T)
  BY DEF FiniteSubsetsOf
<1>4. T # {}
  <2>1. SUFFICES ASSUME T = {} PROVE FALSE
    OBVIOUS
  <2>2. Cardinality(T) = 0
    BY <2>1, FS_EmptySet
  <2>3. [i \in 1 .. 0 |-> i] \in [1 .. Cardinality(T) -> T] /\ IsAscending([i \in 1 .. 0 |-> i])
    BY <2>2 DEF IsAscending
  <2> QED BY <1>3, <2>3 DEF CanAscend
<1>5. PICK m \in T : \A s \in T : s <= m
  BY <1>3, <1>4, Largest DEF HasLargest
<1>6. T \ {m} \in FiniteSubsetsOf(Nat) /\ <<T \ {m}, T>> \in StrictSubsetOrdering(Nat)
  BY <1>3, <1>5, FS_RemoveElement DEF FiniteSubsetsOf, StrictSubsetOrdering
<1>7. CanAscend(T \ {m})
  BY <1>2, <1>6
<1> QED BY <1>3, <1>5, <1>7, AscendingGoesOn

\* Ascending(S) has the numbers of S, each once, in their order.
LEMMA AscendingIs ==
  ASSUME NEW S \in SUBSET Nat, IsFiniteSet(S)
  PROVE  /\ Ascending(S) \in Seq(S) /\ Len(Ascending(S)) = Cardinality(S)
         /\ IsAscending(Ascending(S)) /\ IsInjective(Ascending(S))
         /\ Range(Ascending(S)) = S
<1> DEFINE s == Ascending(S)
<1>1. s \in [1 .. Cardinality(S) -> S] /\ IsAscending(s)
  BY AscendingExists DEF CanAscend, Ascending, IsAscending
<1>2. Cardinality(S) \in Nat
  BY FS_CardinalityType
<1>3. \A i, j \in DOMAIN s : i < j => s[i] # s[j]
  <2>1. \A i \in DOMAIN s : s[i] \in Nat
    BY <1>1
  <2> QED BY <1>1, <2>1 DEF IsAscending
<1>4. s \in Seq(S) /\ Len(s) = Cardinality(S) /\ {s[i] : i \in DOMAIN s} = S
  <2> HIDE DEF s
  <2> QED BY <1>1, <1>3, SequenceOfSet
<1>5. IsInjective(s)
  <2>1. ASSUME NEW i \in DOMAIN s, NEW j \in DOMAIN s, s[i] = s[j] PROVE i = j
    <3>1. i \in Nat /\ j \in Nat
      BY <1>1, <1>2
    <3> QED BY <1>3, <2>1, <3>1
  <2> QED BY <2>1 DEF IsInjective
<1> QED BY <1>1, <1>4, <1>5 DEF Range

-----------------------------------------------------------------------------
(* The table, its row groups and the slots of the metadata.                 *)

TableInv ==
    /\ global \in BOOLEAN
    /\ numRows \in TableSizes /\ nulls \in SUBSET (0 .. numRows - 1)

\* A table has rows, and a row group holds some.
LEMMA Sizes ==
  ASSUME TableInv
  PROVE  /\ numRows \in Nat \ {0} /\ RowGroupSize \in Nat \ {0} /\ VectorSize \in Nat \ {0}
         /\ global \in BOOLEAN /\ nulls \in SUBSET (0 .. numRows - 1)
BY SizeAssumption DEF TableInv

\* The table does not change while its index is created, nor what is computed of it.
LEMMA SameTable ==
  ASSUME UNCHANGED table
  PROVE  /\ global' = global /\ numRows' = numRows /\ nulls' = nulls
         /\ RowGroups' = RowGroups /\ Slots' = Slots /\ Clusters' = Clusters
         /\ TableRowGroups' = TableRowGroups
         /\ \A r : PartOf(r)' = PartOf(r) /\ SlotOf(r)' = SlotOf(r)
         /\ \A g : RowsOf(g)' = RowsOf(g)
<1>1. global' = global /\ numRows' = numRows /\ nulls' = nulls
  BY DEF table
<1> QED BY <1>1 DEF RowGroups, Slots, Clusters, TableRowGroups, PartOf, SlotOf, RowsOf

\* Multiplication keeps an order.
LEMMA TimesMonotone ==
  ASSUME NEW a \in Nat, NEW b \in Nat, NEW n \in Nat, a <= b
  PROVE  a * n <= b * n
<1>1. PICK d \in Nat : b = a + d
  <2>1. b - a \in Nat /\ b = a + (b - a)
    OBVIOUS
  <2> QED BY <2>1
<1>2. b * n = a * n + d * n /\ d * n \in Nat /\ a * n \in Nat
  BY <1>1
<1> QED BY <1>2

\* A quotient and its remainder.
LEMMA Quotient ==
  ASSUME NEW a \in Nat, NEW n \in Nat \ {0}
  PROVE  /\ a \div n \in Nat /\ a % n \in 0 .. n - 1
         /\ a = (a \div n) * n + (a % n)
OBVIOUS

\* A number between two multiples has the lower one's factor for its quotient.
LEMMA QuotientIs ==
  ASSUME NEW a \in Nat, NEW n \in Nat \ {0}, NEW q \in Nat, q * n <= a, a < q * n + n
  PROVE  a \div n = q
<1> DEFINE d == a \div n
<1>1. d \in Nat /\ d * n <= a /\ a < d * n + n
  BY Quotient
<1> HIDE DEF d
<1>2. d * n \in Nat /\ q * n \in Nat /\ (d + 1) * n = d * n + n /\ (q + 1) * n = q * n + n
  BY <1>1
<1>3. CASE d < q
  <2>1. (d + 1) * n <= q * n
    BY <1>1, <1>3, TimesMonotone
  <2> QED BY <1>1, <1>2, <2>1
<1>4. CASE q < d
  <2>1. (q + 1) * n <= d * n
    BY <1>1, <1>4, TimesMonotone
  <2> QED BY <1>1, <1>2, <2>1
<1> QED BY <1>1, <1>3, <1>4 DEF d

\* The rows of a row group follow each other (GetRowGroupId).
LEMMA RowGroupOfRow ==
  ASSUME TableInv, NEW r \in Nat
  PROVE  /\ GetRowGroupId(r) \in Nat
         /\ GetRowGroupId(r) * RowGroupSize <= r
         /\ r < GetRowGroupId(r) * RowGroupSize + RowGroupSize
<1>1. RowGroupSize \in Nat \ {0}
  BY Sizes
<1> QED BY <1>1, Quotient DEF GetRowGroupId

LEMMA RowGroupIs ==
  ASSUME TableInv, NEW r \in Nat, NEW g \in Nat,
         g * RowGroupSize <= r, r < g * RowGroupSize + RowGroupSize
  PROVE  GetRowGroupId(r) = g
<1>1. RowGroupSize \in Nat \ {0}
  BY Sizes
<1> QED BY <1>1, QuotientIs DEF GetRowGroupId

\* Later rows are in the same row group or a later one.
LEMMA RowGroupMonotone ==
  ASSUME TableInv, NEW r \in Nat, NEW s \in Nat, r <= s
  PROVE  GetRowGroupId(r) <= GetRowGroupId(s)
<1> DEFINE g == GetRowGroupId(r)
           h == GetRowGroupId(s)
           S == RowGroupSize
<1>1. S \in Nat \ {0} /\ g \in Nat /\ h \in Nat /\ g * S <= r /\ s < h * S + S
  BY Sizes, RowGroupOfRow
<1> HIDE DEF g, h, S
<1>2. SUFFICES ASSUME h + 1 <= g PROVE FALSE
  BY <1>1 DEF g, h
<1>3. (h + 1) * S <= g * S
  BY <1>1, <1>2, TimesMonotone
<1>4. (h + 1) * S = h * S + S /\ h * S \in Nat /\ g * S \in Nat
  BY <1>1
<1> QED BY <1>1, <1>3, <1>4

\* Every row of the table is in a part that has an index, without the global variant its row group.
LEMMA Parts ==
  ASSUME TableInv
  PROVE  /\ RowGroups \subseteq Nat /\ 0 \in RowGroups
         /\ TableRowGroups \subseteq Nat /\ 0 \in TableRowGroups
         /\ TableRowGroups = 0 .. GetRowGroupId(numRows - 1) /\ GetRowGroupId(numRows - 1) \in Nat
         /\ global => RowGroups = {0}
         /\ ~global => RowGroups = TableRowGroups
         /\ \A r \in 0 .. numRows - 1 : GetRowGroupId(r) \in TableRowGroups /\ PartOf(r) \in RowGroups
<1> DEFINE l == GetRowGroupId(numRows - 1)
           S == RowGroupSize
<1>1. numRows \in Nat \ {0} /\ S \in Nat \ {0} /\ global \in BOOLEAN
  BY Sizes
<1>2. numRows - 1 \in Nat
  BY <1>1
<1>3. l \in Nat /\ l * S <= numRows - 1 /\ numRows - 1 < l * S + S
  BY <1>2, RowGroupOfRow
<1>4. (numRows + S - 1) \div S - 1 = l
  <2> HIDE DEF l, S
  <2>1. (l + 1) * S = l * S + S /\ l * S \in Nat
    BY <1>1, <1>3
  <2>2. (numRows + S - 1) \div S = l + 1
    BY <1>1, <1>3, <2>1, QuotientIs
  <2> QED BY <1>3, <2>2
<1>5. \A r \in 0 .. numRows - 1 : GetRowGroupId(r) \in 0 .. l
  <2>1. ASSUME NEW r \in 0 .. numRows - 1 PROVE GetRowGroupId(r) \in 0 .. l
    <3>1. r \in Nat /\ r <= numRows - 1
      BY <1>1
    <3>2. GetRowGroupId(r) \in Nat /\ GetRowGroupId(r) <= l
      BY <1>2, <3>1, RowGroupOfRow, RowGroupMonotone
    <3> QED BY <1>3, <3>2
  <2> QED BY <2>1
<1>6. TableRowGroups = 0 .. l
  BY DEF TableRowGroups
<1>7. global => RowGroups = {0}
  BY DEF RowGroups
<1>8. ~global => RowGroups = 0 .. l
  BY <1>4 DEF RowGroups
<1>9. \A r \in 0 .. numRows - 1 : PartOf(r) \in RowGroups
  <2> HIDE DEF l
  <2> QED BY <1>1, <1>5, <1>7, <1>8 DEF PartOf
<1> HIDE DEF l
<1> QED BY <1>1, <1>3, <1>5, <1>6, <1>7, <1>8, <1>9 DEF l

\* A row group's rows.
LEMMA RowsOfPart ==
  ASSUME TableInv, NEW g, NEW r
  PROVE  r \in RowsOf(g) <=> r \in 0 .. numRows - 1 /\ PartOf(r) = g
BY DEF RowsOf

\* The rows of a part have slots of their own.
LEMMA SlotsOfPart ==
  ASSUME TableInv
  PROVE  /\ Slots \subseteq Nat /\ IsFiniteSet(Slots) /\ Cardinality(Slots) \in Nat \ {0}
         /\ Slots = 0 .. Cardinality(Slots) - 1
         /\ \A r \in 0 .. numRows - 1 : SlotOf(r) \in Slots
         /\ \A g : \A r, s \in RowsOf(g) : SlotOf(r) = SlotOf(s) => r = s
<1> DEFINE n == IF global THEN numRows ELSE RowGroupSize
<1>1. numRows \in Nat \ {0} /\ RowGroupSize \in Nat \ {0} /\ global \in BOOLEAN /\ n \in Nat \ {0}
  BY Sizes
<1>2. Slots = 0 .. n - 1
  BY DEF Slots
<1>3. IsFiniteSet(Slots) /\ Cardinality(Slots) = n
  <2> HIDE DEF n
  <2>1. n - 1 \in Int /\ 0 <= n - 1
    BY <1>1
  <2> QED BY <1>1, <1>2, <2>1, FS_Interval
<1>4. \A r \in 0 .. numRows - 1 : SlotOf(r) \in Slots
  <2>1. ASSUME NEW r \in 0 .. numRows - 1 PROVE SlotOf(r) \in Slots
    <3>1. r \in Nat /\ r % RowGroupSize \in 0 .. RowGroupSize - 1
      BY <1>1, Quotient
    <3> QED BY <1>1, <1>2, <3>1 DEF SlotOf
  <2> QED BY <2>1
<1>5. ASSUME NEW g, NEW r \in RowsOf(g), NEW s \in RowsOf(g), SlotOf(r) = SlotOf(s) PROVE r = s
  <2>1. r \in Nat /\ s \in Nat /\ PartOf(r) = PartOf(s)
    BY <1>1 DEF RowsOf
  <2>2. CASE global
    BY <1>5, <2>2 DEF SlotOf
  <2>3. CASE ~global
    <3>1. r \div RowGroupSize = s \div RowGroupSize /\ r % RowGroupSize = s % RowGroupSize
      BY <1>5, <2>1, <2>3 DEF PartOf, SlotOf, GetRowGroupId
    <3>2. /\ r = (r \div RowGroupSize) * RowGroupSize + (r % RowGroupSize)
          /\ s = (s \div RowGroupSize) * RowGroupSize + (s % RowGroupSize)
      BY <1>1, <2>1, Quotient
    <3> QED BY <3>1, <3>2
  <2> QED BY <1>1, <2>2, <2>3
<1> HIDE DEF n
<1> QED BY <1>1, <1>2, <1>3, <1>4, <1>5

-----------------------------------------------------------------------------
(* The number of clusters.                                                  *)

\* Twice the root of a number, rounded up, exists: the numbers whose square is below four times
\* the number have a largest (ComputeNumberOfClusters).
LEMMA RootRoundedUp ==
  ASSUME NEW n \in Nat \ {0}
  PROVE  ComputeNumberOfClusters(n) \in Nat \ {0}
<1> DEFINE Below == {k \in 0 .. 2 * n : k * k < 4 * n}
           Root(k) == k * k >= 4 * n /\ (k - 1) * (k - 1) < 4 * n
<1>1. Below \in SUBSET Nat /\ 0 \in Below
  OBVIOUS
<1>2. IsFiniteSet(Below)
  <2>1. Below \in SUBSET (0 .. 2 * n) /\ IsFiniteSet(0 .. 2 * n)
    BY FS_Interval
  <2> HIDE DEF Below
  <2> QED BY <2>1, FS_Subset
<1>3. PICK m \in Below : \A k \in Below : k <= m
  <2> HIDE DEF Below
  <2> QED BY <1>1, <1>2, Largest DEF HasLargest
<1>4. m # 2 * n
  <2>1. (2 * n) * (2 * n) = 4 * (n * n) /\ n * n >= n /\ n * n \in Nat
    <3>1. 1 * n <= n * n
      BY TimesMonotone
    <3> QED BY <3>1
  <2> QED BY <2>1
<1>5. m + 1 \in 0 .. 2 * n /\ m \in Nat /\ m + 1 \notin Below /\ (m + 1) - 1 = m /\ m * m < 4 * n
  BY <1>3, <1>4
<1>6. (m + 1) * (m + 1) >= 4 * n
  <2>1. (m + 1) * (m + 1) \in Nat /\ 4 * n \in Nat
    BY <1>5
  <2> QED BY <1>5, <2>1
<1>7. \E k \in 0 .. 2 * n : Root(k)
  BY <1>5, <1>6
<1>8. ComputeNumberOfClusters(n) = CHOOSE k \in 0 .. 2 * n : Root(k)
  BY DEF ComputeNumberOfClusters
<1>9. /\ ComputeNumberOfClusters(n) \in 0 .. 2 * n
      /\ ComputeNumberOfClusters(n) * ComputeNumberOfClusters(n) >= 4 * n
  BY <1>7, <1>8
<1> QED BY <1>9

\* A row group has at least one cluster, and no more than the table has rows if it is alone.
LEMMA ClustersOfPart ==
  ASSUME TableInv
  PROVE  \E k \in Nat \ {0} :
            /\ Clusters = 0 .. k - 1
            /\ ~global => k <= numRows /\ k <= RowGroupSize
<1>1. numRows \in Nat \ {0} /\ RowGroupSize \in Nat \ {0} /\ global \in BOOLEAN
  BY Sizes
<1>2. CASE global
  <2>1. ComputeNumberOfClusters(numRows) \in Nat \ {0}
    BY <1>1, RootRoundedUp
  <2>2. Clusters = 0 .. ComputeNumberOfClusters(numRows) - 1
    BY <1>2 DEF Clusters
  <2> QED BY <1>2, <2>1, <2>2
<1>3. CASE ~global
  <2>1. Clusters = 0 .. ComputeNumClustersForRowGroup(numRows) - 1
    BY <1>3 DEF Clusters
  <2>2. /\ ComputeNumClustersForRowGroup(numRows) \in Nat \ {0}
        /\ ComputeNumClustersForRowGroup(numRows) <= numRows
        /\ ComputeNumClustersForRowGroup(numRows) <= RowGroupSize
    BY <1>1, SizeAssumption DEF ComputeNumClustersForRowGroup
  <2> QED BY <2>1, <2>2
<1> QED BY <1>1, <1>2, <1>3

\* The clusters are a finite set of numbers with 0 among them.
LEMMA ClustersType ==
  ASSUME TableInv
  PROVE  /\ Clusters \subseteq Nat /\ 0 \in Clusters /\ IsFiniteSet(Clusters)
         /\ Cardinality(Clusters) \in Nat
         /\ ~global => Cardinality(Clusters) <= numRows /\ Cardinality(Clusters) <= RowGroupSize
<1>1. PICK k \in Nat \ {0} :
         Clusters = 0 .. k - 1 /\ (~global => k <= numRows /\ k <= RowGroupSize)
  BY ClustersOfPart
<1>2. IsFiniteSet(Clusters) /\ Cardinality(Clusters) = k
  <2>1. k - 1 \in Int /\ 0 <= k - 1
    OBVIOUS
  <2> QED BY <1>1, <2>1, FS_Interval
<1> QED BY <1>1, <1>2

-----------------------------------------------------------------------------
(* Setting an index up.                                                     *)

\* The clusters have every embedding of a part of the table, once, and the metadata its place.
Completes(g, clusters, metadata) ==
    /\ DOMAIN clusters = Clusters
    /\ \A c \in Clusters :
          /\ clusters[c].indices \in Seq(RowsOf(g) \ nulls)
          /\ clusters[c].data \in Seq(0 .. numRows - 1)
          /\ Len(clusters[c].data) = Len(clusters[c].indices)
          /\ RowsOf(g) \cap nulls = {} => clusters[c].data = clusters[c].indices
          /\ \A p \in DOMAIN clusters[c].indices :
                metadata[SlotOf(clusters[c].indices[p])]
                    = [cluster_id |-> c, index_in_cluster |-> p - 1]
    /\ \A r \in RowsOf(g) \ nulls :
          \E c \in Clusters : \E p \in DOMAIN clusters[c].indices : clusters[c].indices[p] = r

\* The numbers from 1 to n are n.
LEMMA FirstNumbers ==
  ASSUME NEW n \in Nat
  PROVE  IsFiniteSet(1 .. n) /\ Cardinality(1 .. n) = n
BY FS_Interval

\* Rows of one part, each once, fit the buffer of a row group.
LEMMA RowsFit ==
  ASSUME TableInv, NEW g, NEW S \in SUBSET RowsOf(g), NEW ids \in Seq(S), IsInjective(ids)
  PROVE  Len(ids) <= Cardinality(Slots)
<1> DEFINE slots == [i \in 1 .. Len(ids) |-> SlotOf(ids[i])]
<1>1. Len(ids) \in Nat /\ DOMAIN ids = 1 .. Len(ids) /\ \A i \in 1 .. Len(ids) : ids[i] \in S
  BY LenProperties, ElementOfSeq
<1>2. \A i \in 1 .. Len(ids) : ids[i] \in RowsOf(g) /\ ids[i] \in 0 .. numRows - 1
  BY <1>1 DEF RowsOf
<1>3. slots \in [1 .. Len(ids) -> Slots]
  BY <1>2, SlotsOfPart
<1>4. ASSUME NEW i \in 1 .. Len(ids), NEW j \in 1 .. Len(ids), slots[i] = slots[j] PROVE i = j
  <2>1. ids[i] = ids[j]
    BY <1>2, <1>4, SlotsOfPart
  <2> QED BY <1>1, <2>1 DEF IsInjective
<1> HIDE DEF slots
<1>5. slots \in Injection(1 .. Len(ids), Slots)
  BY <1>3, <1>4 DEF Injection, IsInjective
<1>6. Cardinality(1 .. Len(ids)) <= Cardinality(Slots)
  BY <1>5, SlotsOfPart, FS_Injection
<1>7. Cardinality(1 .. Len(ids)) = Len(ids)
  BY <1>1, FirstNumbers
<1> QED BY <1>6, <1>7

\* The members of a cluster: places of the staging buffer, each once (assignments of K-means).
LEMMA MembersAre ==
  ASSUME NEW n \in Nat, NEW assignment \in [1 .. n -> Clusters], NEW c
  PROVE  /\ Members(assignment, c) \in Seq(1 .. n) /\ Len(Members(assignment, c)) \in 0 .. n
         /\ IsInjective(Members(assignment, c))
         /\ \A p \in DOMAIN Members(assignment, c) : assignment[Members(assignment, c)[p]] = c
         /\ \A i \in 1 .. n : assignment[i] = c =>
               \E p \in DOMAIN Members(assignment, c) : Members(assignment, c)[p] = i
<1> DEFINE M == {i \in 1 .. n : assignment[i] = c}
           s == Ascending(M)
<1>1. Members(assignment, c) = s
  BY DEF Members
<1>2. IsFiniteSet(1 .. n) /\ Cardinality(1 .. n) = n
  BY FirstNumbers
<1>3. M \in SUBSET Nat /\ M \in SUBSET (1 .. n)
  OBVIOUS
<1>4. IsFiniteSet(M) /\ Cardinality(M) <= n /\ Cardinality(M) \in Nat
  <2> HIDE DEF M
  <2>1. IsFiniteSet(M) /\ Cardinality(M) <= Cardinality(1 .. n)
    BY <1>2, <1>3, FS_Subset
  <2> QED BY <1>2, <2>1, FS_CardinalityType
<1>5. s \in Seq(M) /\ Len(s) = Cardinality(M) /\ IsInjective(s) /\ Range(s) = M
  <2> HIDE DEF M
  <2> QED BY <1>3, <1>4, AscendingIs
<1>6. s \in Seq(1 .. n)
  <2> HIDE DEF s, M
  <2> QED BY <1>3, <1>5, SeqMonotonic
<1>7. \A p \in DOMAIN s : assignment[s[p]] = c
  <2> HIDE DEF s
  <2>1. \A p \in DOMAIN s : s[p] \in Range(s)
    BY DEF Range
  <2> QED BY <1>5, <2>1
<1>8. \A i \in 1 .. n : assignment[i] = c => \E p \in DOMAIN s : s[p] = i
  <2> HIDE DEF s
  <2>1. \A i \in Range(s) : \E p \in DOMAIN s : s[p] = i
    BY DEF Range
  <2> QED BY <1>5, <2>1
<1> HIDE DEF s, M
<1> QED BY <1>1, <1>4, <1>5, <1>6, <1>7, <1>8

\* What is gathered from a staging buffer for a cluster has its members' entries, in order.
LEMMA GatheredAre ==
  ASSUME NEW S, NEW n \in Nat, NEW staging \in Seq(S), Len(staging) = n, NEW members \in Seq(1 .. n)
  PROVE  /\ Gathered(staging, members) \in Seq(S)
         /\ DOMAIN Gathered(staging, members) = DOMAIN members
         /\ Len(Gathered(staging, members)) = Len(members)
         /\ \A p \in DOMAIN members : Gathered(staging, members)[p] = staging[members[p]]
<1>1. Len(members) \in Nat /\ DOMAIN members = 1 .. Len(members)
  BY LenProperties
<1>2. \A p \in DOMAIN members : members[p] \in 1 .. n
  BY <1>1, ElementOfSeq
<1>3. \A i \in 1 .. n : staging[i] \in S
  BY ElementOfSeq
<1>4. Gathered(staging, members) = [p \in 1 .. Len(members) |-> staging[members[p]]]
  BY <1>1 DEF Gathered
<1>5. Gathered(staging, members) \in Seq(S)
  <2>1. \A p \in 1 .. Len(members) : staging[members[p]] \in S
    BY <1>1, <1>2, <1>3
  <2>2. [p \in 1 .. Len(members) |-> staging[members[p]]] \in Seq(S)
    BY <1>1, <2>1, IsASeq
  <2> QED BY <1>4, <2>2
<1>6. DOMAIN Gathered(staging, members) = 1 .. Len(members)
  BY <1>4
<1>7. Len(Gathered(staging, members)) = Len(members)
  <2>1. 1 .. Len(members) = 1 .. Len(Gathered(staging, members)) /\ Len(Gathered(staging, members)) \in Nat
    BY <1>5, <1>6, LenProperties
  <2> QED BY <1>1, <2>1
<1> QED BY <1>1, <1>4, <1>5, <1>6, <1>7

\* What a thread has staged of a part: rows that have an embedding, each once, with as many
\* embeddings, and their own where the part has no NULLs.
Stages(g, ids, data) ==
    /\ ids \in Seq(0 .. numRows - 1) /\ data \in Seq(0 .. numRows - 1)
    /\ IsInjective(ids) /\ Range(ids) \subseteq RowsOf(g) \ nulls
    /\ Len(data) = Len(ids)
    /\ RowsOf(g) \cap nulls = {} => data = ids

\* It has staged all of them when it sets the index up.
ReadyToSetUp(g, ids, data) == Stages(g, ids, data) /\ RowsOf(g) \ nulls \subseteq Range(ids)

\* Metadata finds, for each row of the clusters, its cluster and its position, if the clusters
\* have different rows of one part.
LEMMA MetadataIs ==
  ASSUME TableInv, NEW g, NEW clusters,
         \A c \in Clusters : /\ clusters[c].indices \in Seq(RowsOf(g))
                             /\ Len(clusters[c].indices) <= Cardinality(Slots),
         \A c, d \in Clusters :
            \A p \in DOMAIN clusters[c].indices, q \in DOMAIN clusters[d].indices :
                clusters[c].indices[p] = clusters[d].indices[q] => c = d /\ p = q
  PROVE  /\ Metadata(clusters) \in [Slots -> Place]
         /\ \A c \in Clusters : \A p \in DOMAIN clusters[c].indices :
                Metadata(clusters)[SlotOf(clusters[c].indices[p])]
                    = [cluster_id |-> c, index_in_cluster |-> p - 1]
<1> DEFINE PlaceOf(s) == CHOOSE x \in PlacesOfSlot(clusters, s) : TRUE
           Entry(s) == IF PlacesOfSlot(clusters, s) = {} THEN [cluster_id |-> 0, index_in_cluster |-> 0]
                       ELSE [cluster_id |-> PlaceOf(s).cluster, index_in_cluster |-> PlaceOf(s).position - 1]
<1>1. Metadata(clusters) = [s \in Slots |-> Entry(s)]
  BY DEF Metadata
<1>2. Cardinality(Slots) \in Nat \ {0} /\ Slots = 0 .. Cardinality(Slots) - 1 /\ 0 \in Clusters
  BY SlotsOfPart, ClustersType
<1>3. ASSUME NEW s \in Slots PROVE Entry(s) \in Place
  <2>1. CASE PlacesOfSlot(clusters, s) = {}
    <3>1. Entry(s) = [cluster_id |-> 0, index_in_cluster |-> 0]
      BY <2>1
    <3>2. 0 \in Slots
      BY <1>2
    <3> QED BY <1>2, <3>1, <3>2 DEF Place
  <2>2. CASE PlacesOfSlot(clusters, s) # {}
    <3>1. PlaceOf(s) \in PlacesOfSlot(clusters, s)
      BY <2>2
    <3>2. PlaceOf(s).cluster \in Clusters /\ PlaceOf(s).position \in 1 .. Cardinality(Slots)
      BY <3>1 DEF PlacesOfSlot
    <3>3. PlaceOf(s).position - 1 \in Slots
      BY <1>2, <3>2
    <3>4. Entry(s) = [cluster_id |-> PlaceOf(s).cluster, index_in_cluster |-> PlaceOf(s).position - 1]
      BY <2>2
    <3> HIDE DEF PlaceOf
    <3> QED BY <3>2, <3>3, <3>4 DEF Place
  <2> QED BY <2>1, <2>2
<1>4. ASSUME NEW c \in Clusters, NEW p \in DOMAIN clusters[c].indices
      PROVE  /\ SlotOf(clusters[c].indices[p]) \in Slots
             /\ Entry(SlotOf(clusters[c].indices[p])) = [cluster_id |-> c, index_in_cluster |-> p - 1]
  <2> DEFINE r == clusters[c].indices[p]
             x == [cluster |-> c, position |-> p]
  <2>1. p \in 1 .. Len(clusters[c].indices) /\ Len(clusters[c].indices) \in Nat
    BY <1>4, LenProperties
  <2>2. r \in RowsOf(g)
    BY <2>1, ElementOfSeq
  <2>3. SlotOf(r) \in Slots
    BY <2>2, SlotsOfPart DEF RowsOf
  <2>4. x \in PlacesOfSlot(clusters, SlotOf(r))
    <3>1. x \in [cluster : Clusters, position : 1 .. Cardinality(Slots)]
      BY <1>2, <2>1
    <3> QED BY <1>4, <3>1 DEF PlacesOfSlot
  <2>5. ASSUME NEW y \in PlacesOfSlot(clusters, SlotOf(r)) PROVE y = x
    <3>1. /\ y \in [cluster : Clusters, position : 1 .. Cardinality(Slots)]
          /\ y.position \in DOMAIN clusters[y.cluster].indices
          /\ SlotOf(clusters[y.cluster].indices[y.position]) = SlotOf(r)
      BY DEF PlacesOfSlot
    <3>2. y.cluster \in Clusters /\ y.position \in 1 .. Len(clusters[y.cluster].indices)
      BY <3>1, LenProperties
    <3>3. clusters[y.cluster].indices[y.position] \in RowsOf(g)
      BY <3>2, ElementOfSeq
    <3>4. clusters[y.cluster].indices[y.position] = r
      BY <2>2, <3>1, <3>3, SlotsOfPart
    <3>5. y.cluster = c /\ y.position = p
      BY <3>1, <3>2, <3>4, <1>4
    <3> QED BY <3>1, <3>5
  <2>6. PlaceOf(SlotOf(r)) = x
    <3>1. PlaceOf(SlotOf(r)) \in PlacesOfSlot(clusters, SlotOf(r))
      BY <2>4
    <3> HIDE DEF PlaceOf, x
    <3> QED BY <2>5, <3>1
  <2>7. Entry(SlotOf(r)) = [cluster_id |-> PlaceOf(SlotOf(r)).cluster,
                            index_in_cluster |-> PlaceOf(SlotOf(r)).position - 1]
    BY <2>4
  <2> HIDE DEF PlaceOf, Entry
  <2> QED BY <2>3, <2>6, <2>7
<1> HIDE DEF Entry
<1> QED BY <1>1, <1>3, <1>4

\* Clusters made of all staged embeddings of a part complete it, whatever K-means assigns.
LEMMA SetUpCompletes ==
  ASSUME TableInv, NEW g, NEW ids, NEW data, ReadyToSetUp(g, ids, data),
         NEW assignment \in [DOMAIN ids -> Clusters]
  PROVE  /\ Completes(g, ClustersOf(ids, data, assignment), Metadata(ClustersOf(ids, data, assignment)))
         /\ Metadata(ClustersOf(ids, data, assignment)) \in [Slots -> Place]
         /\ ClustersOf(ids, data, assignment) # NoIndex
<1> DEFINE n == Len(ids)
           clusters == ClustersOf(ids, data, assignment)
           mem(c) == Members(assignment, c)
           rows(c) == clusters[c].indices
<1>1. /\ ids \in Seq(0 .. numRows - 1) /\ data \in Seq(0 .. numRows - 1)
      /\ IsInjective(ids) /\ Range(ids) = RowsOf(g) \ nulls /\ Len(data) = n
      /\ RowsOf(g) \cap nulls = {} => data = ids
  BY DEF ReadyToSetUp, Stages
<1>2. n \in Nat /\ DOMAIN ids = 1 .. n
  BY <1>1, LenProperties
<1>3. ids \in Seq(RowsOf(g) \ nulls) /\ \A i \in 1 .. n : ids[i] \in RowsOf(g) \ nulls
  <2>1. ids \in Seq(Range(ids))
    BY <1>1, SeqOfRange
  <2> QED BY <1>1, <2>1, ElementOfSeq
<1>4. Len(ids) <= Cardinality(Slots) /\ Cardinality(Slots) \in Nat
  <2>1. RowsOf(g) \ nulls \in SUBSET RowsOf(g)
    OBVIOUS
  <2> QED BY <1>1, <1>3, <2>1, RowsFit, SlotsOfPart
<1>5. /\ DOMAIN clusters = Clusters
      /\ \A c \in Clusters : /\ rows(c) = Gathered(ids, mem(c))
                             /\ clusters[c].data = Gathered(data, mem(c))
  BY DEF ClustersOf
<1>6. \A c \in Clusters :
         /\ mem(c) \in Seq(1 .. n) /\ Len(mem(c)) \in 0 .. n /\ IsInjective(mem(c))
         /\ \A p \in DOMAIN mem(c) : mem(c)[p] \in 1 .. n /\ assignment[mem(c)[p]] = c
         /\ \A i \in 1 .. n : assignment[i] = c => \E p \in DOMAIN mem(c) : mem(c)[p] = i
  <2> TAKE c \in Clusters
  <2>1. assignment \in [1 .. n -> Clusters]
    BY <1>2
  <2>2. /\ mem(c) \in Seq(1 .. n) /\ Len(mem(c)) \in 0 .. n /\ IsInjective(mem(c))
        /\ \A p \in DOMAIN mem(c) : assignment[mem(c)[p]] = c
        /\ \A i \in 1 .. n : assignment[i] = c => \E p \in DOMAIN mem(c) : mem(c)[p] = i
    BY <1>2, <2>1, MembersAre
  <2> HIDE DEF mem
  <2>3. \A p \in DOMAIN mem(c) : mem(c)[p] \in 1 .. n
    BY <2>2, LenProperties, ElementOfSeq
  <2> QED BY <2>2, <2>3
<1> HIDE DEF mem, clusters
<1>7. \A c \in Clusters :
         /\ rows(c) \in Seq(RowsOf(g) \ nulls) /\ DOMAIN rows(c) = DOMAIN mem(c)
         /\ Len(rows(c)) = Len(mem(c))
         /\ \A p \in DOMAIN rows(c) : rows(c)[p] = ids[mem(c)[p]]
         /\ clusters[c].data \in Seq(0 .. numRows - 1) /\ Len(clusters[c].data) = Len(mem(c))
  BY <1>1, <1>2, <1>3, <1>5, <1>6, GatheredAre
<1>8. ASSUME NEW c \in Clusters, NEW d \in Clusters,
             NEW p \in DOMAIN rows(c), NEW q \in DOMAIN rows(d), rows(c)[p] = rows(d)[q]
      PROVE  c = d /\ p = q
  <2>1. ids[mem(c)[p]] = ids[mem(d)[q]] /\ mem(c)[p] \in 1 .. n /\ mem(d)[q] \in 1 .. n
    BY <1>6, <1>7, <1>8
  <2>2. mem(c)[p] = mem(d)[q]
    BY <1>1, <1>2, <2>1 DEF IsInjective
  <2>3. c = d
    BY <1>6, <1>7, <2>2
  <2> QED BY <1>6, <1>7, <2>2, <2>3 DEF IsInjective
<1>9. \A c \in Clusters : rows(c) \in Seq(RowsOf(g)) /\ Len(rows(c)) <= Cardinality(Slots)
  <2> TAKE c \in Clusters
  <2>1. rows(c) \in Seq(RowsOf(g))
    <3>1. rows(c) \in Seq(RowsOf(g) \ nulls) /\ RowsOf(g) \ nulls \subseteq RowsOf(g)
      BY <1>7
    <3> QED BY <3>1, SeqMonotonic
  <2>2. Len(rows(c)) \in 0 .. n
    BY <1>6, <1>7
  <2> QED BY <1>2, <1>4, <2>1, <2>2
<1>10. /\ Metadata(clusters) \in [Slots -> Place]
       /\ \A c \in Clusters : \A p \in DOMAIN rows(c) :
             Metadata(clusters)[SlotOf(rows(c)[p])] = [cluster_id |-> c, index_in_cluster |-> p - 1]
  BY <1>8, <1>9, MetadataIs
<1>11. ASSUME NEW r \in RowsOf(g) \ nulls
       PROVE  \E c \in Clusters : \E p \in DOMAIN rows(c) : rows(c)[p] = r
  <2>1. PICK i \in 1 .. n : ids[i] = r
    BY <1>1, <1>2 DEF Range
  <2>2. assignment[i] \in Clusters
    BY <1>2
  <2>3. PICK p \in DOMAIN mem(assignment[i]) : mem(assignment[i])[p] = i
    BY <1>6, <2>2
  <2> QED BY <1>7, <2>1, <2>2, <2>3
<1>12. ASSUME RowsOf(g) \cap nulls = {}, NEW c \in Clusters PROVE clusters[c].data = rows(c)
  BY <1>1, <1>5, <1>12
<1>13. clusters # NoIndex
  <2>1. DOMAIN clusters # {} /\ DOMAIN NoIndex = {}
    BY <1>5, ClustersType DEF NoIndex
  <2> QED BY <2>1
<1>14. Completes(g, clusters, Metadata(clusters))
  <2>1. \A c \in Clusters :
          /\ clusters[c].indices \in Seq(RowsOf(g) \ nulls)
          /\ clusters[c].data \in Seq(0 .. numRows - 1)
          /\ Len(clusters[c].data) = Len(clusters[c].indices)
          /\ RowsOf(g) \cap nulls = {} => clusters[c].data = clusters[c].indices
    BY <1>7, <1>12
  <2> QED BY <1>5, <1>10, <1>11, <2>1 DEF Completes
<1> QED BY <1>10, <1>13, <1>14 DEF clusters

\* Staging the rows of a chunk keeps this, if they are of the part and not staged yet.
LEMMA ChunkStaged ==
  ASSUME TableInv, NEW g, NEW ids, NEW data, Stages(g, ids, data),
         NEW chunk \in SUBSET RowsOf(g), Range(ids) \cap chunk = {}
  PROVE  /\ Stages(g, ids \o Ascending(NotNull(chunk)),
                   data \o SubSeq(Ascending(chunk), 1, Cardinality(NotNull(chunk))))
         /\ Range(ids \o Ascending(NotNull(chunk))) = Range(ids) \cup NotNull(chunk)
<1> DEFINE T == 0 .. numRows - 1
           a == Ascending(NotNull(chunk))
           b == Ascending(chunk)
           k == Cardinality(NotNull(chunk))
           d == SubSeq(b, 1, k)
<1>1. /\ ids \in Seq(T) /\ data \in Seq(T)
      /\ IsInjective(ids) /\ Range(ids) \subseteq RowsOf(g) \ nulls /\ Len(data) = Len(ids)
      /\ RowsOf(g) \cap nulls = {} => data = ids
  BY DEF Stages
<1>2. chunk \subseteq T /\ T \in SUBSET Nat /\ IsFiniteSet(T) /\ NotNull(chunk) \subseteq chunk
  <2>1. numRows \in Nat \ {0} /\ 0 \in Int /\ numRows - 1 \in Int
    BY Sizes
  <2>2. IsFiniteSet(T)
    BY <2>1, FS_Interval
  <2> QED BY <2>1, <2>2 DEF RowsOf, NotNull
<1> HIDE DEF T
<1>3. IsFiniteSet(chunk) /\ IsFiniteSet(NotNull(chunk)) /\ k <= Cardinality(chunk)
  BY <1>2, FS_Subset
<1>4. a \in Seq(NotNull(chunk)) /\ Len(a) = k /\ IsInjective(a) /\ Range(a) = NotNull(chunk)
  BY <1>2, <1>3, AscendingIs
<1>5. b \in Seq(chunk) /\ Len(b) = Cardinality(chunk)
  BY <1>2, <1>3, AscendingIs
<1>6. k \in Nat /\ Cardinality(chunk) \in Nat
  BY <1>3, FS_CardinalityType
<1>7. a \in Seq(T) /\ b \in Seq(T)
  BY <1>2, <1>4, <1>5, SeqMonotonic
<1>8. NotNull(chunk) = chunk => a = b /\ k = Len(b)
  BY <1>5
<1> HIDE DEF a, b, k
<1>9. d \in Seq(T) /\ Len(d) = k
  <2>1. \A i \in 1 .. k : b[i] \in T
    BY <1>3, <1>5, <1>6, <1>7, ElementOfSeq
  <2>2. 1 \in Int /\ k \in Int
    BY <1>6
  <2>3. d \in Seq(T) /\ Len(d) = IF 1 <= k THEN k - 1 + 1 ELSE 0
    BY <2>1, <2>2, SubSeqProperties
  <2> QED BY <1>6, <2>3
<1>10. /\ ids \o a \in Seq(T) /\ Len(ids \o a) = Len(ids) + k
       /\ data \o d \in Seq(T) /\ Len(data \o d) = Len(data) + k
  <2>1. ids \o a \in Seq(T) /\ Len(ids \o a) = Len(ids) + Len(a)
    BY <1>1, <1>7, ConcatProperties
  <2>2. data \o d \in Seq(T) /\ Len(data \o d) = Len(data) + Len(d)
    BY <1>1, <1>9, ConcatProperties
  <2> QED BY <1>4, <1>9, <2>1, <2>2
<1>11. Range(ids \o a) = Range(ids) \cup NotNull(chunk)
  BY <1>1, <1>4, <1>7, RangeConcatenation
<1>12. IsInjective(ids \o a)
  <2>1. /\ Len(ids) \in Nat /\ DOMAIN ids = 1 .. Len(ids) /\ DOMAIN a = 1 .. k
        /\ DOMAIN (ids \o a) = 1 .. Len(ids) + k
    BY <1>1, <1>4, <1>7, <1>10, LenProperties
  <2>2. \A i \in 1 .. Len(ids) + k :
           (ids \o a)[i] = IF i <= Len(ids) THEN ids[i] ELSE a[i - Len(ids)]
    BY <1>1, <1>4, <1>7, ConcatProperties
  <2>3. ASSUME NEW i \in 1 .. Len(ids) + k
        PROVE  \/ i \in DOMAIN ids /\ (ids \o a)[i] = ids[i] /\ ids[i] \in Range(ids)
               \/ /\ i - Len(ids) \in DOMAIN a /\ (ids \o a)[i] = a[i - Len(ids)]
                  /\ a[i - Len(ids)] \in NotNull(chunk)
    <3>1. CASE i <= Len(ids)
      <4>1. i \in DOMAIN ids
        BY <1>6, <2>1, <3>1
      <4> QED BY <2>2, <3>1, <4>1 DEF Range
    <3>2. CASE ~(i <= Len(ids))
      <4>1. i - Len(ids) \in DOMAIN a
        BY <1>6, <2>1, <3>2
      <4>2. a[i - Len(ids)] \in Range(a)
        BY <4>1 DEF Range
      <4> QED BY <1>4, <2>2, <3>2, <4>1, <4>2
    <3> QED BY <3>1, <3>2
  <2>4. ASSUME NEW i \in 1 .. Len(ids) + k, NEW j \in 1 .. Len(ids) + k, (ids \o a)[i] = (ids \o a)[j]
        PROVE  i = j
    <3>1. \/ i \in DOMAIN ids /\ j \in DOMAIN ids /\ ids[i] = ids[j]
          \/ /\ i - Len(ids) \in DOMAIN a /\ j - Len(ids) \in DOMAIN a
             /\ a[i - Len(ids)] = a[j - Len(ids)]
      BY <1>2, <2>3, <2>4
    <3>2. i = j \/ i - Len(ids) = j - Len(ids)
      BY <1>1, <1>4, <3>1 DEF IsInjective
    <3> QED BY <1>6, <2>1, <3>2
  <2> QED BY <2>1, <2>4 DEF IsInjective
<1>13. RowsOf(g) \cap nulls = {} => data \o d = ids \o a
  <2>1. SUFFICES ASSUME RowsOf(g) \cap nulls = {} PROVE data \o d = ids \o a
    OBVIOUS
  <2>2. NotNull(chunk) = chunk
    BY <2>1 DEF NotNull
  <2>3. d = b
    BY <1>5, <1>8, <2>2, SubSeqFull
  <2> QED BY <1>1, <1>8, <2>1, <2>2, <2>3
<1>14. Range(ids \o a) \subseteq RowsOf(g) \ nulls
  BY <1>1, <1>11 DEF NotNull
<1>15. Len(data \o d) = Len(ids \o a)
  BY <1>1, <1>10
<1> QED BY <1>10, <1>11, <1>12, <1>13, <1>14, <1>15 DEF Stages, T, a, b, k

-----------------------------------------------------------------------------
(* The inductive invariant.                                                 *)

TypeInv ==
    /\ TableInv
    /\ nextRowGroup \in 0 .. GetRowGroupId(numRows - 1) + 1
    /\ scan \in [Threads -> [next : 0 .. numRows, end : 0 .. numRows]]
    /\ row_group_id \in [Threads -> RowGroups]
    /\ row_ids \in [Threads -> Seq(0 .. numRows - 1)]
    /\ embeddings \in [Threads -> Seq(0 .. numRows - 1)]
    /\ combined \in [Threads -> BOOLEAN]
    /\ DOMAIN index = RowGroups
    /\ row_id_metadata \in [RowGroups -> [Slots -> Place]]
    /\ phase \in {"sink", "exception", "not added", "added", "crashed"}

\* What a thread has yet to scan, and its row group.
Remaining(t) == scan[t].next .. scan[t].end - 1
ScanGroup(t) == GetRowGroupId(scan[t].next)

\* What a thread has staged and not handed on, and all the rows that it works on.
Buffered(t) == IF combined[t] /\ ~global THEN {} ELSE Range(row_ids[t])
Busy(t) == Remaining(t) \cup Buffered(t)

\* A thread scans rows of one row group, none before the row group that it has staged, and does
\* so before it combines.
ScanInv(t) ==
    /\ \A r \in Remaining(t) : GetRowGroupId(r) = ScanGroup(t)
    /\ HasRows(t) =>
        /\ row_group_id[t] <= ScanGroup(t) /\ ScanGroup(t) < nextRowGroup
        /\ ~combined[t]
    /\ row_group_id[t] <= nextRowGroup

\* It has staged rows of one part that the scan has handed out, and that it does not scan again.
StagedInv(t) ==
    /\ Stages(row_group_id[t], row_ids[t], embeddings[t])
    /\ Range(row_ids[t]) \cap Remaining(t) = {}
    /\ \A r \in Range(row_ids[t]) : GetRowGroupId(r) < nextRowGroup

ThreadInv(t) == ScanInv(t) /\ StagedInv(t)

\* No embedding is lost between the scan and the index.
Covered ==
    \A r \in (0 .. numRows - 1) \ nulls :
        GetRowGroupId(r) < nextRowGroup =>
            index[PartOf(r)] # NoIndex \/ \E t \in Threads : r \in Busy(t)

\* No part of the table is worked on by two threads, or when it has its index.
Separated ==
    /\ \A t \in Threads : \A r \in Busy(t) : index[PartOf(r)] = NoIndex
    /\ \A t, u \in Threads : t # u =>
          \A r \in Busy(t), s \in Busy(u) : PartOf(r) # PartOf(s)
    /\ \A g \in RowGroups : index[g] # NoIndex => ~global /\ g < nextRowGroup

\* In the global variant one thread does everything.
OneThread ==
    global => \E t \in Threads : \A u \in Threads \ {t} : combined[u] /\ row_ids[u] = <<>>

\* Every index that is there is complete.
IndexInv == \A g \in RowGroups : index[g] # NoIndex => Completes(g, index[g], row_id_metadata[g])

\* The scan is over when threads combine, and they have all combined when the index is finalized.
PhaseInv ==
    /\ phase # "sink" => \A t \in Threads : combined[t]
    /\ (\E t \in Threads : combined[t] /\ ~global) => nextRowGroup \notin TableRowGroups
    /\ (\A t \in Threads : combined[t]) => nextRowGroup \notin TableRowGroups
    /\ phase = "added" => \A g \in RowGroups : index[g] # NoIndex
    /\ CrashesOnlyOnNulls

IInv ==
    /\ TypeInv
    /\ \A t \in Threads : ThreadInv(t)
    /\ phase = "sink" => Covered /\ Separated
    /\ OneThread
    /\ IndexInv
    /\ PhaseInv

-----------------------------------------------------------------------------
(* What a step leaves as it was.                                            *)

\* Where the scan is: in the row groups of the table, or past them.
LEMMA ScanPosition ==
  ASSUME TypeInv
  PROVE  /\ nextRowGroup \in Nat
         /\ nextRowGroup \notin TableRowGroups =>
               \A r \in 0 .. numRows - 1 : GetRowGroupId(r) < nextRowGroup
<1> DEFINE l == GetRowGroupId(numRows - 1)
<1>1. TableRowGroups = 0 .. l /\ l \in Nat /\ \A r \in 0 .. numRows - 1 : GetRowGroupId(r) \in TableRowGroups
  BY Parts DEF TypeInv
<1>2. nextRowGroup \in 0 .. l + 1
  BY DEF TypeInv
<1> HIDE DEF l
<1>3. nextRowGroup \in Nat
  BY <1>1, <1>2
<1>4. nextRowGroup \notin TableRowGroups => nextRowGroup = l + 1
  BY <1>1, <1>2
<1> QED BY <1>1, <1>3, <1>4

\* The types of what a thread works on.
LEMMA ThreadTypes ==
  ASSUME TypeInv, NEW t \in Threads
  PROVE  /\ scan[t] \in [next : 0 .. numRows, end : 0 .. numRows]
         /\ scan[t].next \in 0 .. numRows /\ scan[t].end \in 0 .. numRows /\ numRows \in Nat
         /\ Remaining(t) \subseteq 0 .. numRows - 1
         /\ HasRows(t) <=> Remaining(t) # {}
         /\ row_group_id[t] \in RowGroups /\ row_group_id[t] \in Nat
         /\ combined[t] \in BOOLEAN
         /\ row_ids[t] \in Seq(0 .. numRows - 1) /\ embeddings[t] \in Seq(0 .. numRows - 1)
<1>1. numRows \in Nat /\ RowGroups \subseteq Nat
  BY Sizes, Parts DEF TypeInv
<1>2. scan[t] \in [next : 0 .. numRows, end : 0 .. numRows]
  BY DEF TypeInv
<1>3. scan[t].next \in 0 .. numRows /\ scan[t].end \in 0 .. numRows
  BY <1>2
<1>4. Remaining(t) \subseteq 0 .. numRows - 1 /\ (HasRows(t) <=> Remaining(t) # {})
  <2>1. scan[t].next < scan[t].end => scan[t].next \in Remaining(t)
    BY <1>1, <1>3 DEF Remaining
  <2> QED BY <1>1, <1>3, <2>1 DEF Remaining, HasRows
<1> QED BY <1>1, <1>2, <1>3, <1>4 DEF TypeInv

\* A scan that does not move does not move back.
LEMMA Standstill ==
  ASSUME NEW n \in Nat
  PROVE  n <= n
OBVIOUS

\* A step that only moves the scan on keeps what holds of a thread that takes no part in it.
LEMMA Bystander ==
  ASSUME TypeInv, NEW t \in Threads, ThreadInv(t), UNCHANGED table,
         scan'[t] = scan[t], row_group_id'[t] = row_group_id[t],
         row_ids'[t] = row_ids[t], embeddings'[t] = embeddings[t], combined'[t] = combined[t],
         nextRowGroup' \in Nat, nextRowGroup <= nextRowGroup'
  PROVE  ThreadInv(t)' /\ Busy(t)' = Busy(t)
<1>1. Remaining(t)' = Remaining(t) /\ ScanGroup(t)' = ScanGroup(t) /\ (HasRows(t)' <=> HasRows(t))
  BY DEF Remaining, ScanGroup, HasRows, GetRowGroupId
<1>2. \A r : GetRowGroupId(r)' = GetRowGroupId(r)
  BY DEF GetRowGroupId
<1>3. Busy(t)' = Busy(t)
  BY <1>1, SameTable DEF Busy, Buffered
<1>4. nextRowGroup \in Nat /\ row_group_id[t] \in Nat /\ scan[t].next \in Nat
  BY ScanPosition, ThreadTypes
<1>5. ScanGroup(t) \in Nat
  BY <1>4, RowGroupOfRow DEF ScanGroup, TypeInv
<1>6. ScanInv(t)'
  BY <1>1, <1>2, <1>4, <1>5 DEF ThreadInv, ScanInv
<1>7. StagedInv(t)'
  <2>1. \A r \in Range(row_ids[t]) : GetRowGroupId(r) \in Nat
    <3>1. Range(row_ids[t]) \subseteq Nat
      BY ThreadTypes, RangeOfSeq
    <3> QED BY <3>1, RowGroupOfRow DEF TypeInv
  <2>2. Stages(row_group_id[t], row_ids[t], embeddings[t])'
    BY SameTable DEF ThreadInv, StagedInv, Stages
  <2> QED BY <1>1, <1>2, <1>4, <2>1, <2>2 DEF ThreadInv, StagedInv
<1> QED BY <1>3, <1>6, <1>7 DEF ThreadInv

\* The indexes that a step leaves alone stay complete.
LEMMA SameIndex ==
  ASSUME TypeInv, IndexInv, UNCHANGED table, NEW g \in RowGroups,
         index'[g] = index[g], row_id_metadata'[g] = row_id_metadata[g], index'[g] # NoIndex
  PROVE  Completes(g, index[g], row_id_metadata[g])'
<1>1. Completes(g, index[g], row_id_metadata[g])
  BY DEF IndexInv
<1> QED BY <1>1, SameTable DEF Completes

\* No embedding is lost, and no part shared, by a step in which threads keep or hand on the rows
\* they work on, and set up parts that no thread works on any more.
LEMMA WorkGoesOn ==
  ASSUME TypeInv, Covered, Separated, UNCHANGED table, UNCHANGED nextRowGroup,
         \A t \in Threads : Busy(t)' \subseteq Busy(t),
         \A t \in Threads : \A r \in Busy(t) \ nulls : r \in Busy(t)' \/ index'[PartOf(r)] # NoIndex,
         \A g \in RowGroups : index[g] # NoIndex => index'[g] # NoIndex,
         \A g \in RowGroups : index'[g] # NoIndex =>
            index[g] # NoIndex \/ (~global /\ g < nextRowGroup),
         \A t \in Threads : \A r \in Busy(t)' : index'[PartOf(r)] = NoIndex
  PROVE  Covered' /\ Separated'
<1>1. \A r : GetRowGroupId(r)' = GetRowGroupId(r)
  BY DEF GetRowGroupId
<1>2. ASSUME NEW r \in (0 .. numRows - 1) \ nulls, GetRowGroupId(r) < nextRowGroup
      PROVE  index'[PartOf(r)] # NoIndex \/ \E t \in Threads : r \in Busy(t)'
  <2>1. PartOf(r) \in RowGroups
    BY Parts DEF TypeInv
  <2>2. CASE index[PartOf(r)] # NoIndex
    BY <2>1, <2>2
  <2>3. CASE \E t \in Threads : r \in Busy(t)
    <3>1. PICK t \in Threads : r \in Busy(t)
      BY <2>3
    <3> QED BY <1>2, <3>1
  <2> QED BY <1>2, <2>2, <2>3 DEF Covered
<1>3. Covered'
  BY <1>1, <1>2, SameTable DEF Covered
<1>4. \A t, u \in Threads : t # u =>
         \A r \in Busy(t)', s \in Busy(u)' : PartOf(r) # PartOf(s)
  BY DEF Separated
<1>5. \A g \in RowGroups : index'[g] # NoIndex => ~global /\ g < nextRowGroup
  BY DEF Separated
<1>6. Separated'
  BY <1>4, <1>5, SameTable DEF Separated
<1> QED BY <1>3, <1>6

\* A thread keeps to its part in the global variant.
LEMMA StillOneThread ==
  ASSUME OneThread, UNCHANGED table,
         \A u \in Threads : combined[u] => combined'[u] /\ row_ids'[u] = row_ids[u]
  PROVE  OneThread'
BY SameTable DEF OneThread

\* Nothing is lost or shared, and nothing indexed, before the scan.
LEMMA InitInv ==
  ASSUME Init
  PROVE  IInv
<1>1. TableInv
  <2>1. numRows \in Nat /\ global \in BOOLEAN /\ numRows \in TableSizes
    BY SizeAssumption DEF Init
  <2>2. PICK n \in NullSets : nulls = {r \in n : r < numRows}
    BY DEF Init
  <2>3. n \subseteq Nat
    BY SizeAssumption
  <2>4. nulls \in SUBSET (0 .. numRows - 1)
    <3>1. \A r \in nulls : r \in Nat /\ r < numRows
      BY <2>2, <2>3
    <3>2. \A r \in nulls : r \in 0 .. numRows - 1
      BY <2>1, <3>1
    <3> QED BY <3>2
  <2> QED BY <2>1, <2>4 DEF TableInv
<1>2. /\ numRows \in Nat \ {0} /\ RowGroups \subseteq Nat /\ 0 \in RowGroups
      /\ GetRowGroupId(numRows - 1) \in Nat /\ 0 \in TableRowGroups
  BY <1>1, Sizes, Parts
<1>3. 0 \in Slots /\ 0 \in Clusters
  <2>1. Cardinality(Slots) \in Nat \ {0} /\ Slots = 0 .. Cardinality(Slots) - 1
    BY <1>1, SlotsOfPart
  <2>2. 0 \in 0 .. Cardinality(Slots) - 1
    BY <2>1
  <2> QED BY <1>1, <2>1, <2>2, ClustersType
<1>4. TypeInv
  <2>1. row_id_metadata \in [RowGroups -> [Slots -> Place]]
    <3>1. [cluster_id |-> 0, index_in_cluster |-> 0] \in Place
      BY <1>3 DEF Place
    <3> QED BY <3>1 DEF Init
  <2>2. combined \in [Threads -> BOOLEAN]
    BY DEF Init
  <2>3. /\ row_ids \in [Threads -> Seq(0 .. numRows - 1)]
        /\ embeddings \in [Threads -> Seq(0 .. numRows - 1)]
    BY EmptySeq DEF Init
  <2>4. nextRowGroup \in 0 .. GetRowGroupId(numRows - 1) + 1
    <3> DEFINE l == GetRowGroupId(numRows - 1)
    <3> HIDE DEF l
    <3>1. l \in Nat => 0 \in 0 .. l + 1
      OBVIOUS
    <3>2. 0 \in 0 .. l + 1
      BY <1>2, <3>1 DEF l
    <3> QED BY <3>2 DEF Init, l
  <2>5. scan \in [Threads -> [next : 0 .. numRows, end : 0 .. numRows]]
    <3>1. 0 \in 0 .. numRows
      BY <1>2
    <3> QED BY <3>1 DEF Init
  <2>6. row_group_id \in [Threads -> RowGroups] /\ DOMAIN index = RowGroups /\ phase = "sink"
    BY <1>2 DEF Init
  <2> QED BY <1>1, <2>1, <2>2, <2>3, <2>4, <2>5, <2>6 DEF TypeInv
<1>5. \A t \in Threads : Remaining(t) = {} /\ row_ids[t] = <<>> /\ embeddings[t] = <<>>
  BY DEF Init, Remaining
<1>6. Range(<<>>) = {} /\ IsInjective(<<>>) /\ <<>> \in Seq(0 .. numRows - 1) /\ Len(<<>>) = 0
  BY DEF Range, IsInjective
<1>7. \A t \in Threads : Busy(t) = {}
  BY <1>5, <1>6 DEF Busy, Buffered
<1>8. ASSUME NEW t \in Threads PROVE ThreadInv(t)
  <2>1. row_group_id[t] = 0 /\ nextRowGroup = 0 /\ ~HasRows(t)
    BY DEF Init, HasRows
  <2>2. ScanInv(t)
    BY <1>5, <2>1 DEF ScanInv
  <2>3. StagedInv(t)
    BY <1>5, <1>6 DEF StagedInv, Stages
  <2> QED BY <2>2, <2>3 DEF ThreadInv
<1>9. \A g \in RowGroups : index[g] = NoIndex
  BY DEF Init
<1>10. Covered
  <2>1. \A r \in 0 .. numRows - 1 : ~(GetRowGroupId(r) < nextRowGroup)
    <3>1. nextRowGroup = 0
      BY DEF Init
    <3>2. \A r \in 0 .. numRows - 1 : GetRowGroupId(r) \in Nat
      BY <1>1, RowGroupOfRow
    <3> QED BY <3>1, <3>2
  <2> QED BY <2>1 DEF Covered
<1>11. Separated
  BY <1>7, <1>9 DEF Separated
<1>12. OneThread
  BY <1>5 DEF OneThread, Init
<1>13. IndexInv
  BY <1>9 DEF IndexInv
<1>14. PhaseInv
  <2>1. phase = "sink" /\ \E t \in Threads : ~combined[t]
    BY SizeAssumption DEF Init
  <2>2. (\E t \in Threads : combined[t] /\ ~global) => FALSE
    BY DEF Init
  <2> QED BY <2>1, <2>2 DEF PhaseInv, CrashesOnlyOnNulls
<1> QED BY <1>4, <1>8, <1>10, <1>11, <1>12, <1>13, <1>14 DEF IInv

\* What a chunk is: the next rows that a thread has to scan, of the row group that it scans.
LEMMA ChunkIs ==
  ASSUME TypeInv, NEW t \in Threads, ThreadInv(t), HasRows(t)
  PROVE  /\ NextChunk(t) \subseteq Remaining(t) /\ scan[t].next \in NextChunk(t)
         /\ ChunkEnd(t) \in 0 .. numRows
         /\ Remaining(t) \ NextChunk(t) = ChunkEnd(t) .. scan[t].end - 1
         /\ \A r \in NextChunk(t) : GetRowGroupId(r) = ScanGroup(t)
         /\ ScanGroup(t) \in Nat
         /\ ~global => ScanGroup(t) \in RowGroups
         /\ NotNull(NextChunk(t)) # {} => RowGroupOfChunk(t) = ScanGroup(t)
<1>1. /\ scan[t].next \in Nat /\ scan[t].end \in 0 .. numRows /\ numRows \in Nat
      /\ VectorSize \in Nat \ {0} /\ scan[t].next < scan[t].end
  <2>1. scan[t].next \in 0 .. numRows /\ scan[t].end \in 0 .. numRows /\ numRows \in Nat
    BY ThreadTypes
  <2>2. VectorSize \in Nat \ {0} /\ scan[t].next < scan[t].end
    BY SizeAssumption DEF HasRows
  <2> QED BY <2>1, <2>2
<1>2. ChunkEnd(t) \in Nat /\ scan[t].next < ChunkEnd(t) /\ ChunkEnd(t) <= scan[t].end
  BY <1>1 DEF ChunkEnd, Least
<1>3. /\ NextChunk(t) \subseteq Remaining(t) /\ scan[t].next \in NextChunk(t)
      /\ ChunkEnd(t) \in 0 .. numRows
      /\ Remaining(t) \ NextChunk(t) = ChunkEnd(t) .. scan[t].end - 1
  BY <1>1, <1>2 DEF NextChunk, Remaining
<1>4. \A r \in NextChunk(t) : GetRowGroupId(r) = ScanGroup(t)
  BY <1>3 DEF ThreadInv, ScanInv
<1>5. ScanGroup(t) \in Nat /\ (~global => ScanGroup(t) \in RowGroups)
  <2>1. scan[t].next \in 0 .. numRows - 1
    BY <1>1
  <2>2. GetRowGroupId(scan[t].next) \in TableRowGroups /\ TableRowGroups \subseteq Nat
    BY <2>1, Parts DEF TypeInv
  <2> QED BY <2>2, Parts DEF ScanGroup, TypeInv
<1>6. ASSUME NotNull(NextChunk(t)) # {} PROVE RowGroupOfChunk(t) = ScanGroup(t)
  <2> DEFINE N == NotNull(NextChunk(t))
  <2>1. N \subseteq NextChunk(t) /\ N \in SUBSET Nat
    BY <1>1, <1>2 DEF NotNull, NextChunk
  <2>2. IsFiniteSet(NextChunk(t))
    <3>1. scan[t].next \in Int /\ ChunkEnd(t) - 1 \in Int
      BY <1>1, <1>2
    <3> QED BY <3>1, FS_Interval DEF NextChunk
  <2> HIDE DEF N
  <2>3. IsFiniteSet(N)
    BY <2>1, <2>2, FS_Subset
  <2>4. Ascending(N) \in Seq(N) /\ Range(Ascending(N)) = N
    BY <2>1, <2>3, AscendingIs
  <2>5. Ascending(N) # <<>>
    <3>1. Range(<<>>) = {}
      BY DEF Range
    <3> QED BY <1>6, <2>4, <3>1 DEF N
  <2>6. Head(Ascending(N)) \in NextChunk(t)
    BY <2>1, <2>4, <2>5, HeadTailProperties
  <2> QED BY <1>4, <2>6 DEF RowGroupOfChunk, N
<1> QED BY <1>3, <1>4, <1>5, <1>6

\* When a thread leaves a chunk it has the rest of its row group to scan.
LEMMA ChunkLeft ==
  ASSUME TypeInv, NEW t \in Threads, ThreadInv(t), HasRows(t), LeaveChunk(t),
         UNCHANGED <<table, nextRowGroup, combined>>,
         row_group_id'[t] \in {row_group_id[t], ScanGroup(t)}
  PROVE  /\ scan' \in [Threads -> [next : 0 .. numRows, end : 0 .. numRows]]
         /\ \A u \in Threads \ {t} : scan'[u] = scan[u]
         /\ Remaining(t)' = Remaining(t) \ NextChunk(t)
         /\ ScanInv(t)'
<1>1. /\ NextChunk(t) \subseteq Remaining(t) /\ ChunkEnd(t) \in 0 .. numRows
      /\ Remaining(t) \ NextChunk(t) = ChunkEnd(t) .. scan[t].end - 1
      /\ ScanGroup(t) \in Nat
  BY ChunkIs
<1>2. /\ scan \in [Threads -> [next : 0 .. numRows, end : 0 .. numRows]]
      /\ scan' = [scan EXCEPT ![t] = [scan[t] EXCEPT !.next = ChunkEnd(t)]]
  BY DEF TypeInv, LeaveChunk
<1>3. /\ scan'[t].next = ChunkEnd(t) /\ scan'[t].end = scan[t].end
      /\ scan' \in [Threads -> [next : 0 .. numRows, end : 0 .. numRows]]
      /\ \A u \in Threads \ {t} : scan'[u] = scan[u]
  BY <1>1, <1>2
<1>4. Remaining(t)' = Remaining(t) \ NextChunk(t)
  BY <1>1, <1>3 DEF Remaining
<1>5. \A r : GetRowGroupId(r)' = GetRowGroupId(r)
  BY DEF GetRowGroupId
<1>6. \A r \in Remaining(t)' : GetRowGroupId(r) = ScanGroup(t)
  BY <1>4 DEF ThreadInv, ScanInv
<1>7. Remaining(t)' # {} => GetRowGroupId(scan'[t].next) = ScanGroup(t)
  <2>1. ChunkEnd(t) \in Nat /\ scan[t].end \in Nat
    <3>1. scan[t].end \in 0 .. numRows /\ numRows \in Nat
      BY ThreadTypes
    <3> QED BY <1>1, <3>1
  <2>2. Remaining(t)' # {} => ChunkEnd(t) \in Remaining(t)'
    BY <1>1, <1>4, <2>1
  <2> QED BY <1>3, <1>6, <2>2
<1>8. HasRows(t)' => Remaining(t)' # {}
  <2>1. ChunkEnd(t) \in Nat /\ scan[t].end \in Nat
    <3>1. scan[t].end \in 0 .. numRows /\ numRows \in Nat
      BY ThreadTypes
    <3> QED BY <1>1, <3>1
  <2>2. HasRows(t)' => ChunkEnd(t) < scan[t].end
    BY <1>3 DEF HasRows
  <2>3. ChunkEnd(t) < scan[t].end => ChunkEnd(t) \in Remaining(t)'
    BY <1>1, <1>4, <2>1
  <2> QED BY <2>2, <2>3
<1>9. /\ row_group_id[t] \in Nat /\ row_group_id[t] <= ScanGroup(t) /\ ScanGroup(t) < nextRowGroup
      /\ nextRowGroup \in Nat /\ ~combined[t]
  BY ThreadTypes, ScanPosition DEF ThreadInv, ScanInv
<1>10. row_group_id'[t] <= ScanGroup(t) /\ row_group_id'[t] <= nextRowGroup
  BY <1>1, <1>9
<1>11. ScanInv(t)'
  <2>1. \A r \in Remaining(t)' : GetRowGroupId(r)' = ScanGroup(t)'
    BY <1>5, <1>6, <1>7 DEF ScanGroup
  <2>2. HasRows(t)' => ScanGroup(t)' = ScanGroup(t)
    BY <1>5, <1>7, <1>8 DEF ScanGroup
  <2> QED BY <1>9, <1>10, <2>1, <2>2 DEF ScanInv
<1> QED BY <1>3, <1>4, <1>11

\* Nothing staged is in order for every part.
LEMMA StagesNothing ==
  ASSUME NEW g
  PROVE  Stages(g, <<>>, <<>>) /\ Range(<<>>) = {}
BY EmptySeq DEF Stages, Range, IsInjective

\* Embeddings are staged with the row ids, so that there are none without.
LEMMA NothingStaged ==
  ASSUME NEW g, NEW data, Stages(g, <<>>, data)
  PROVE  data = <<>>
<1>1. data \in Seq(0 .. numRows - 1) /\ Len(data) = 0
  BY EmptySeq DEF Stages
<1> QED BY <1>1, EmptySeq

\* What becomes of the threads when one of them stages a chunk for part g.
LEMMA StageKeeps ==
  ASSUME IInv, NEW t \in Threads, HasRows(t), NEW g \in RowGroups, NEW ids, NEW data,
         Stages(g, ids, data), Range(ids) \subseteq Range(row_ids[t]),
         \A r \in NextChunk(t) : PartOf(r) = g,
         g \in {row_group_id[t], ScanGroup(t)},
         Stage(t, ids, data), row_group_id' = [row_group_id EXCEPT ![t] = g],
         UNCHANGED <<table, nextRowGroup, combined, phase>>
  PROVE  /\ scan' \in [Threads -> [next : 0 .. numRows, end : 0 .. numRows]]
         /\ row_group_id' \in [Threads -> RowGroups]
         /\ row_ids' \in [Threads -> Seq(0 .. numRows - 1)]
         /\ embeddings' \in [Threads -> Seq(0 .. numRows - 1)]
         /\ \A u \in Threads : ThreadInv(u)'
         /\ \A u \in Threads \ {t} : Busy(u)' = Busy(u)
         /\ Busy(t)' = (Remaining(t) \ NextChunk(t)) \cup Range(ids) \cup NotNull(NextChunk(t))
         /\ phase = "sink" /\ OneThread' /\ PhaseInv'
<1> DEFINE chunk == NextChunk(t)
           ids1 == ids \o Ascending(NotNull(chunk))
           data1 == data \o SubSeq(Ascending(chunk), 1, Cardinality(NotNull(chunk)))
<1>1. TypeInv /\ TableInv /\ ThreadInv(t) /\ OneThread /\ PhaseInv
  BY DEF IInv, TypeInv
<1>2. /\ row_ids' = [row_ids EXCEPT ![t] = ids1] /\ embeddings' = [embeddings EXCEPT ![t] = data1]
      /\ LeaveChunk(t)
  BY DEF Stage
<1>3. /\ row_ids \in [Threads -> Seq(0 .. numRows - 1)]
      /\ embeddings \in [Threads -> Seq(0 .. numRows - 1)]
      /\ row_group_id \in [Threads -> RowGroups]
  BY <1>1 DEF TypeInv
<1>4. chunk \subseteq RowsOf(g) /\ chunk \subseteq Remaining(t) /\ Range(ids) \cap Remaining(t) = {}
  <2>1. chunk \subseteq Remaining(t) /\ Remaining(t) \subseteq 0 .. numRows - 1
    BY <1>1, ChunkIs, ThreadTypes
  <2>2. Range(row_ids[t]) \cap Remaining(t) = {}
    BY <1>1 DEF ThreadInv, StagedInv
  <2> QED BY <2>1, <2>2 DEF RowsOf
<1>5. Stages(g, ids1, data1) /\ Range(ids1) = Range(ids) \cup NotNull(chunk)
  <2>1. Range(ids) \cap chunk = {}
    BY <1>4
  <2> HIDE DEF chunk
  <2> QED BY <1>1, <1>4, <2>1, ChunkStaged
<1>6. ids1 \in Seq(0 .. numRows - 1) /\ data1 \in Seq(0 .. numRows - 1)
  BY <1>5 DEF Stages
<1> HIDE DEF ids1, data1
<1>7. row_ids'[t] = ids1 /\ embeddings'[t] = data1 /\ row_group_id'[t] = g
  BY <1>2, <1>3
<1>8. /\ scan' \in [Threads -> [next : 0 .. numRows, end : 0 .. numRows]]
      /\ \A u \in Threads \ {t} : scan'[u] = scan[u]
      /\ Remaining(t)' = Remaining(t) \ chunk
      /\ ScanInv(t)'
  BY <1>1, <1>2, <1>7, ChunkLeft
<1>9. \A u \in Threads \ {t} : ThreadInv(u)' /\ Busy(u)' = Busy(u)
  <2> TAKE u \in Threads \ {t}
  <2>1. /\ row_ids'[u] = row_ids[u] /\ embeddings'[u] = embeddings[u]
        /\ row_group_id'[u] = row_group_id[u] /\ combined'[u] = combined[u]
    BY <1>2, <1>3
  <2>2. nextRowGroup' \in Nat /\ nextRowGroup <= nextRowGroup' /\ u \in Threads /\ ThreadInv(u)
    BY <1>1, ScanPosition DEF IInv
  <2> QED BY <1>1, <1>8, <2>1, <2>2, Bystander
<1>10. ~combined[t] /\ ScanGroup(t) < nextRowGroup
  BY <1>1 DEF ThreadInv, ScanInv
<1>11. Busy(t)' = (Remaining(t) \ chunk) \cup Range(ids) \cup NotNull(chunk)
  <2>1. Buffered(t)' = Range(ids1)
    BY <1>7, <1>10 DEF Buffered
  <2> QED BY <1>5, <1>8, <2>1 DEF Busy
<1>12. StagedInv(t)'
  <2>2. Stages(row_group_id[t], row_ids[t], embeddings[t])'
    BY <1>5, <1>7, SameTable DEF Stages
  <2>3. Range(ids1) \cap Remaining(t)' = {}
    BY <1>4, <1>5, <1>8 DEF NotNull
  <2>4. \A r \in Range(ids1) : GetRowGroupId(r) < nextRowGroup
    <3>1. \A r \in Range(ids) : GetRowGroupId(r) < nextRowGroup
      BY <1>1 DEF ThreadInv, StagedInv
    <3>2. \A r \in chunk : GetRowGroupId(r) < nextRowGroup
      BY <1>1, <1>10, ChunkIs
    <3> QED BY <1>5, <3>1, <3>2 DEF NotNull
  <2>5. \A r : GetRowGroupId(r)' = GetRowGroupId(r)
    BY DEF GetRowGroupId
  <2> QED BY <1>7, <2>2, <2>3, <2>4, <2>5 DEF StagedInv
<1>13. ThreadInv(t)'
  BY <1>8, <1>12 DEF ThreadInv
<1>14. phase = "sink" /\ PhaseInv'
  <2>1. phase = "sink"
    BY <1>1, <1>10 DEF PhaseInv
  <2> QED BY <1>1, <2>1, SameTable DEF PhaseInv, CrashesOnlyOnNulls
<1>15. OneThread'
  <2>1. \A u \in Threads : combined[u] => combined'[u] /\ row_ids'[u] = row_ids[u]
    BY <1>2, <1>3, <1>10
  <2> QED BY <1>1, <2>1, StillOneThread
<1>16. /\ row_group_id' \in [Threads -> RowGroups]
       /\ row_ids' \in [Threads -> Seq(0 .. numRows - 1)]
       /\ embeddings' \in [Threads -> Seq(0 .. numRows - 1)]
  BY <1>2, <1>3, <1>6
<1> QED BY <1>8, <1>9, <1>11, <1>13, <1>14, <1>15, <1>16

\* A thread that has staged rows, of a part that has been scanned and that it scans no more, has
\* staged all of its embeddings, and the part has no index yet.
LEMMA Ready ==
  ASSUME IInv, phase = "sink", NEW t \in Threads, row_ids[t] # <<>>,
         Buffered(t) = Range(row_ids[t]), RowsOf(row_group_id[t]) \cap Remaining(t) = {},
         \A r \in RowsOf(row_group_id[t]) : GetRowGroupId(r) < nextRowGroup
  PROVE  /\ ReadyToSetUp(row_group_id[t], row_ids[t], embeddings[t])
         /\ index[row_group_id[t]] = NoIndex
         /\ \E s \in Buffered(t) : s \in RowsOf(row_group_id[t])
         /\ row_group_id[t] \in RowGroups
<1> DEFINE g == row_group_id[t]
<1>1. TypeInv /\ Covered /\ Separated /\ ThreadInv(t)
  BY DEF IInv
<1>2. /\ Stages(g, row_ids[t], embeddings[t]) /\ Range(row_ids[t]) \subseteq RowsOf(g) \ nulls
      /\ row_ids[t] \in Seq(0 .. numRows - 1)
  BY <1>1 DEF ThreadInv, StagedInv, Stages
<1>3. g \in RowGroups
  BY <1>1, ThreadTypes
<1>4. PICK s \in Range(row_ids[t]) : TRUE
  <2>1. Len(row_ids[t]) \in Nat \ {0} /\ DOMAIN row_ids[t] = 1 .. Len(row_ids[t])
    BY <1>2, EmptySeq, LenProperties
  <2>2. 1 \in DOMAIN row_ids[t]
    BY <2>1
  <2> QED BY <2>2 DEF Range
<1>5. s \in Busy(t) /\ s \in Buffered(t) /\ s \in RowsOf(g) /\ PartOf(s) = g
  BY <1>2, <1>4 DEF Busy, RowsOf
<1>6. index[g] = NoIndex
  BY <1>1, <1>5 DEF Separated
<1>7. ASSUME NEW r \in RowsOf(g) \ nulls PROVE r \in Range(row_ids[t])
  <2>1. r \in (0 .. numRows - 1) \ nulls /\ PartOf(r) = g /\ GetRowGroupId(r) < nextRowGroup
    BY <1>7 DEF RowsOf
  <2>2. PICK u \in Threads : r \in Busy(u)
    BY <1>1, <1>6, <2>1 DEF Covered
  <2>3. u = t
    BY <1>1, <1>5, <2>1, <2>2 DEF Separated
  <2> QED BY <1>7, <2>2, <2>3 DEF Busy
<1> QED BY <1>2, <1>3, <1>5, <1>6, <1>7 DEF ReadyToSetUp

\* The table does not change, so that clusters stay complete when they are stored.
LEMMA StoredComplete ==
  ASSUME UNCHANGED table, NEW g, NEW clusters, NEW metadata, Completes(g, clusters, metadata),
         index'[g] = clusters, row_id_metadata'[g] = metadata
  PROVE  Completes(g, index[g], row_id_metadata[g])'
<1>1. /\ Clusters' = Clusters /\ RowsOf(g)' = RowsOf(g) /\ nulls' = nulls /\ numRows' = numRows
      /\ \A r : SlotOf(r)' = SlotOf(r)
  BY SameTable
<1> QED BY <1>1 DEF Completes

\* Setting a part up gives it a complete index, and changes no other.
LEMMA SetsUp ==
  ASSUME TypeInv, IndexInv, UNCHANGED table, NEW g \in RowGroups, NEW ids, NEW data,
         ReadyToSetUp(g, ids, data), SetUpIndexForRowGroup(g, ids, data)
  PROVE  /\ DOMAIN index' = RowGroups
         /\ row_id_metadata' \in [RowGroups -> [Slots -> Place]]
         /\ index'[g] # NoIndex /\ \A h \in RowGroups \ {g} : index'[h] = index[h]
         /\ IndexInv'
<1>1. PICK assignment \in [DOMAIN ids -> Clusters] :
         /\ index' = [index EXCEPT ![g] = ClustersOf(ids, data, assignment)]
         /\ row_id_metadata' = [row_id_metadata EXCEPT ![g] = Metadata(ClustersOf(ids, data, assignment))]
  BY DEF SetUpIndexForRowGroup
<1> DEFINE clusters == ClustersOf(ids, data, assignment)
<1>2. /\ Completes(g, clusters, Metadata(clusters)) /\ Metadata(clusters) \in [Slots -> Place]
      /\ clusters # NoIndex
  BY SetUpCompletes DEF TypeInv
<1> DEFINE metadata == Metadata(clusters)
<1>3. index' = [index EXCEPT ![g] = clusters] /\ row_id_metadata' = [row_id_metadata EXCEPT ![g] = metadata]
  BY <1>1
<1>4. Completes(g, clusters, metadata) /\ metadata \in [Slots -> Place] /\ clusters # NoIndex
  BY <1>2
<1> HIDE DEF clusters, metadata
<1>5. DOMAIN index = RowGroups /\ row_id_metadata \in [RowGroups -> [Slots -> Place]]
  BY DEF TypeInv
<1>6. DOMAIN index' = RowGroups /\ row_id_metadata' \in [RowGroups -> [Slots -> Place]]
  BY <1>3, <1>4, <1>5
<1>7. index'[g] = clusters /\ row_id_metadata'[g] = metadata
  BY <1>3, <1>5
<1>8. \A h \in RowGroups \ {g} : index'[h] = index[h] /\ row_id_metadata'[h] = row_id_metadata[h]
  BY <1>3, <1>5
<1>9. ASSUME NEW h \in RowGroups, index'[h] # NoIndex
      PROVE  Completes(h, index[h], row_id_metadata[h])'
  <2>1. CASE h = g
    BY <1>4, <1>7, <2>1, StoredComplete
  <2>2. CASE h # g
    BY <1>8, <1>9, <2>2, SameIndex
  <2> QED BY <2>1, <2>2
<1>10. IndexInv'
  BY <1>9, SameTable DEF IndexInv
<1> QED BY <1>4, <1>6, <1>7, <1>8, <1>10

\* A step that leaves the indexes alone leaves them complete.
LEMMA IndexesKept ==
  ASSUME TypeInv, IndexInv, UNCHANGED table, UNCHANGED indexes
  PROVE  IndexInv' /\ index' = index /\ row_id_metadata' = row_id_metadata
<1>1. index' = index /\ row_id_metadata' = row_id_metadata
  BY DEF indexes
<1>2. ASSUME NEW h \in RowGroups, index'[h] # NoIndex
      PROVE  Completes(h, index[h], row_id_metadata[h])'
  BY <1>1, <1>2, SameIndex
<1> QED BY <1>1, <1>2, SameTable DEF IndexInv

\* The types of what has changed make the type invariant.
LEMMA TypeKept ==
  ASSUME TypeInv, UNCHANGED table,
         nextRowGroup' \in 0 .. GetRowGroupId(numRows - 1) + 1,
         scan' \in [Threads -> [next : 0 .. numRows, end : 0 .. numRows]],
         row_group_id' \in [Threads -> RowGroups],
         row_ids' \in [Threads -> Seq(0 .. numRows - 1)],
         embeddings' \in [Threads -> Seq(0 .. numRows - 1)],
         combined' \in [Threads -> BOOLEAN],
         DOMAIN index' = RowGroups,
         row_id_metadata' \in [RowGroups -> [Slots -> Place]],
         phase' \in {"sink", "exception", "not added", "added", "crashed"}
  PROVE  TypeInv'
<1>1. GetRowGroupId(numRows - 1)' = GetRowGroupId(numRows - 1) /\ Place' = Place
  BY SameTable DEF GetRowGroupId, Place
<1>2. TableInv'
  BY SameTable DEF TypeInv, TableInv
<1> QED BY <1>1, <1>2, SameTable DEF TypeInv

-----------------------------------------------------------------------------
(* Every step keeps the invariant.                                          *)

\* Of a thread that scans, what it has staged is of the row group it scans, or is nothing.
LEMMA Scanning ==
  ASSUME IInv, NEW t \in Threads, HasRows(t)
  PROVE  /\ TypeInv /\ ThreadInv(t) /\ ~combined[t] /\ phase = "sink" /\ Covered /\ Separated
         /\ Buffered(t) = Range(row_ids[t])
         /\ row_group_id[t] \in Nat /\ ScanGroup(t) \in Nat
         /\ row_group_id[t] <= ScanGroup(t) /\ ScanGroup(t) < nextRowGroup
         /\ nextRowGroup \in Nat
<1>1. TypeInv /\ ThreadInv(t) /\ PhaseInv
  BY DEF IInv
<1>2. ~combined[t] /\ row_group_id[t] <= ScanGroup(t) /\ ScanGroup(t) < nextRowGroup
  BY <1>1 DEF ThreadInv, ScanInv
<1>3. phase = "sink"
  BY <1>1, <1>2 DEF PhaseInv
<1>4. Covered /\ Separated
  BY <1>3 DEF IInv
<1>5. Buffered(t) = Range(row_ids[t])
  BY <1>2 DEF Buffered
<1> QED BY <1>1, <1>2, <1>3, <1>4, <1>5, ThreadTypes, ChunkIs, ScanPosition

\* SkipChunk
LEMMA SkipChunkKeeps ==
  ASSUME IInv, NEW t \in Threads, SkipChunk(t)
  PROVE  IInv'
<1>1. /\ HasRows(t) /\ NotNull(NextChunk(t)) = {} /\ LeaveChunk(t)
      /\ UNCHANGED table /\ UNCHANGED nextRowGroup /\ UNCHANGED staged /\ UNCHANGED combined
      /\ UNCHANGED indexes /\ UNCHANGED phase
  BY DEF SkipChunk
<1>2. row_group_id' = row_group_id /\ row_ids' = row_ids /\ embeddings' = embeddings
  BY <1>1 DEF staged
<1>3. TypeInv /\ ThreadInv(t) /\ ~combined[t] /\ phase = "sink" /\ Covered /\ Separated
  BY <1>1, Scanning
<1>4. /\ scan' \in [Threads -> [next : 0 .. numRows, end : 0 .. numRows]]
      /\ \A u \in Threads \ {t} : scan'[u] = scan[u]
      /\ Remaining(t)' = Remaining(t) \ NextChunk(t)
      /\ ScanInv(t)'
  BY <1>1, <1>2, <1>3, ChunkLeft
<1>5. IndexInv' /\ index' = index /\ row_id_metadata' = row_id_metadata
  BY <1>1, <1>3, IndexesKept DEF IInv
<1>6. TypeInv'
  BY <1>1, <1>2, <1>3, <1>4, <1>5, TypeKept DEF TypeInv
<1>7. \A u \in Threads \ {t} : ThreadInv(u)' /\ Busy(u)' = Busy(u)
  <2> TAKE u \in Threads \ {t}
  <2>1. nextRowGroup' \in Nat /\ nextRowGroup <= nextRowGroup' /\ u \in Threads /\ ThreadInv(u)
    BY <1>1, <1>3, ScanPosition DEF IInv
  <2> QED BY <1>1, <1>2, <1>3, <1>4, <2>1, Bystander
<1>8. StagedInv(t)'
  <2>1. Stages(row_group_id[t], row_ids[t], embeddings[t])'
    BY <1>1, <1>2, <1>3, SameTable DEF ThreadInv, StagedInv, Stages
  <2>2. \A r : GetRowGroupId(r)' = GetRowGroupId(r)
    BY DEF GetRowGroupId
  <2> QED BY <1>1, <1>2, <1>3, <1>4, <2>1, <2>2 DEF ThreadInv, StagedInv
<1>9. \A u \in Threads : ThreadInv(u)'
  BY <1>4, <1>7, <1>8 DEF ThreadInv
<1>10. Busy(t)' = Busy(t) \ NextChunk(t) /\ NextChunk(t) \subseteq nulls
  <2>1. Buffered(t)' = Buffered(t)
    BY <1>1, <1>2, SameTable DEF Buffered
  <2>2. NextChunk(t) \subseteq Remaining(t) /\ Range(row_ids[t]) \cap Remaining(t) = {}
    BY <1>1, <1>3, ChunkIs DEF ThreadInv, StagedInv
  <2>3. Buffered(t) \cap NextChunk(t) = {}
    BY <2>2 DEF Buffered
  <2> QED BY <1>1, <1>4, <2>1, <2>3 DEF Busy, NotNull
<1>11. Covered' /\ Separated'
  <2>1. \A u \in Threads : Busy(u)' \subseteq Busy(u)
    BY <1>7, <1>10
  <2>2. \A u \in Threads : \A r \in Busy(u) \ nulls : r \in Busy(u)'
    BY <1>7, <1>10
  <2>3. \A u \in Threads : \A r \in Busy(u)' : index'[PartOf(r)] = NoIndex
    BY <1>3, <1>5, <2>1 DEF Separated
  <2> QED BY <1>1, <1>3, <1>5, <2>1, <2>2, <2>3, WorkGoesOn
<1>12. OneThread'
  BY <1>1, <1>2, StillOneThread DEF IInv
<1>13. PhaseInv'
  BY <1>1, <1>3, SameTable DEF IInv, PhaseInv, CrashesOnlyOnNulls
<1> QED BY <1>5, <1>6, <1>9, <1>11, <1>12, <1>13 DEF IInv

\* What a thread works on when it has staged a chunk without handing on any of its rows: as much.
LEMMA StagedWork ==
  ASSUME IInv, NEW t \in Threads, HasRows(t),
         \A u \in Threads \ {t} : Busy(u)' = Busy(u),
         Busy(t)' = (Remaining(t) \ NextChunk(t)) \cup Range(row_ids[t]) \cup NotNull(NextChunk(t))
  PROVE  /\ \A u \in Threads : Busy(u)' \subseteq Busy(u)
         /\ \A u \in Threads : \A r \in Busy(u) \ nulls : r \in Busy(u)'
<1>1. TypeInv /\ ThreadInv(t) /\ Buffered(t) = Range(row_ids[t])
  BY Scanning
<1>2. NextChunk(t) \subseteq Remaining(t) /\ Busy(t) = Remaining(t) \cup Range(row_ids[t])
  BY <1>1, ChunkIs DEF Busy
<1>3. Busy(t)' \subseteq Busy(t) /\ \A r \in Busy(t) \ nulls : r \in Busy(t)'
  BY <1>2 DEF NotNull
<1> QED BY <1>3

\* SinkChunk: without a new row group, or as the first of the thread.
LEMMA SinkChunkKeeps ==
  ASSUME IInv, NEW t \in Threads, SinkChunk(t)
  PROVE  IInv'
<1> DEFINE g == ScanGroup(t)
<1>1. /\ ~global /\ HasRows(t) /\ NotNull(NextChunk(t)) # {} /\ ~BeginsRowGroup(t)
      /\ SetRowGroupId(t) /\ Stage(t, row_ids[t], embeddings[t])
      /\ UNCHANGED table /\ UNCHANGED nextRowGroup /\ UNCHANGED combined
      /\ UNCHANGED indexes /\ UNCHANGED phase
  BY DEF SinkChunk
<1>2. /\ TypeInv /\ ThreadInv(t) /\ ~combined[t] /\ phase = "sink" /\ Covered /\ Separated
      /\ row_group_id[t] \in Nat /\ g \in Nat /\ row_group_id[t] <= g
  BY <1>1, Scanning
<1>3. /\ RowGroupOfChunk(t) = g /\ g \in RowGroups
      /\ \A r \in NextChunk(t) : GetRowGroupId(r) = g
  BY <1>1, <1>2, ChunkIs
<1>4. row_group_id[t] = g \/ row_ids[t] = <<>>
  BY <1>1, <1>2, <1>3 DEF BeginsRowGroup
<1>5. Stages(g, row_ids[t], embeddings[t])
  <2>1. Stages(row_group_id[t], row_ids[t], embeddings[t])
    BY <1>2 DEF ThreadInv, StagedInv
  <2>2. CASE row_ids[t] = <<>>
    <3>1. embeddings[t] = <<>>
      BY <2>1, <2>2, NothingStaged
    <3> QED BY <2>2, <3>1, StagesNothing
  <2> QED BY <1>4, <2>1, <2>2
<1>6. row_group_id' = [row_group_id EXCEPT ![t] = g]
  BY <1>1, <1>3 DEF SetRowGroupId
<1>7. \A r \in NextChunk(t) : PartOf(r) = g
  BY <1>1, <1>3 DEF PartOf
<1> HIDE DEF g
<1>8. /\ scan' \in [Threads -> [next : 0 .. numRows, end : 0 .. numRows]]
      /\ row_group_id' \in [Threads -> RowGroups]
      /\ row_ids' \in [Threads -> Seq(0 .. numRows - 1)]
      /\ embeddings' \in [Threads -> Seq(0 .. numRows - 1)]
      /\ \A u \in Threads : ThreadInv(u)'
      /\ \A u \in Threads \ {t} : Busy(u)' = Busy(u)
      /\ Busy(t)' = (Remaining(t) \ NextChunk(t)) \cup Range(row_ids[t]) \cup NotNull(NextChunk(t))
      /\ OneThread' /\ PhaseInv'
  BY <1>1, <1>3, <1>5, <1>6, <1>7, StageKeeps DEF g
<1>9. IndexInv' /\ index' = index /\ row_id_metadata' = row_id_metadata
  BY <1>1, <1>2, IndexesKept DEF IInv
<1>10. TypeInv'
  BY <1>1, <1>2, <1>8, <1>9, TypeKept DEF TypeInv
<1>11. Covered' /\ Separated'
  <2>1. /\ \A u \in Threads : Busy(u)' \subseteq Busy(u)
        /\ \A u \in Threads : \A r \in Busy(u) \ nulls : r \in Busy(u)'
    BY <1>1, <1>8, StagedWork
  <2>2. \A u \in Threads : \A r \in Busy(u)' : index'[PartOf(r)] = NoIndex
    BY <1>2, <1>9, <2>1 DEF Separated
  <2> QED BY <1>1, <1>2, <1>9, <2>1, <2>2, WorkGoesOn
<1> QED BY <1>8, <1>9, <1>10, <1>11 DEF IInv

\* SinkGlobalChunk: there is one part, and no row group to keep.
LEMMA SinkGlobalChunkKeeps ==
  ASSUME IInv, NEW t \in Threads, SinkGlobalChunk(t)
  PROVE  IInv'
<1>1. /\ global /\ HasRows(t) /\ NotNull(NextChunk(t)) # {}
      /\ Stage(t, row_ids[t], embeddings[t])
      /\ UNCHANGED table /\ UNCHANGED nextRowGroup /\ UNCHANGED row_group_id
      /\ UNCHANGED combined /\ UNCHANGED indexes /\ UNCHANGED phase
  BY DEF SinkGlobalChunk
<1>2. TypeInv /\ ThreadInv(t) /\ ~combined[t] /\ phase = "sink" /\ Covered /\ Separated
  BY <1>1, Scanning
<1>3. row_group_id[t] = 0 /\ 0 \in RowGroups /\ row_group_id \in [Threads -> RowGroups]
  <2>1. row_group_id \in [Threads -> RowGroups]
    BY <1>2 DEF TypeInv
  <2>2. RowGroups = {0}
    BY <1>1, <1>2, Parts DEF TypeInv
  <2> QED BY <2>1, <2>2
<1>4. Stages(0, row_ids[t], embeddings[t])
  BY <1>2, <1>3 DEF ThreadInv, StagedInv
<1>5. row_group_id' = [row_group_id EXCEPT ![t] = 0]
  BY <1>1, <1>3
<1>6. \A r \in NextChunk(t) : PartOf(r) = 0
  BY <1>1 DEF PartOf
<1>7. /\ scan' \in [Threads -> [next : 0 .. numRows, end : 0 .. numRows]]
      /\ row_group_id' \in [Threads -> RowGroups]
      /\ row_ids' \in [Threads -> Seq(0 .. numRows - 1)]
      /\ embeddings' \in [Threads -> Seq(0 .. numRows - 1)]
      /\ \A u \in Threads : ThreadInv(u)'
      /\ \A u \in Threads \ {t} : Busy(u)' = Busy(u)
      /\ Busy(t)' = (Remaining(t) \ NextChunk(t)) \cup Range(row_ids[t]) \cup NotNull(NextChunk(t))
      /\ OneThread' /\ PhaseInv'
  BY <1>1, <1>3, <1>4, <1>5, <1>6, StageKeeps
<1>8. IndexInv' /\ index' = index /\ row_id_metadata' = row_id_metadata
  BY <1>1, <1>2, IndexesKept DEF IInv
<1>9. TypeInv'
  BY <1>1, <1>2, <1>7, <1>8, TypeKept DEF TypeInv
<1>10. Covered' /\ Separated'
  <2>1. /\ \A u \in Threads : Busy(u)' \subseteq Busy(u)
        /\ \A u \in Threads : \A r \in Busy(u) \ nulls : r \in Busy(u)'
    BY <1>1, <1>7, StagedWork
  <2>2. \A u \in Threads : \A r \in Busy(u)' : index'[PartOf(r)] = NoIndex
    BY <1>2, <1>8, <2>1 DEF Separated
  <2> QED BY <1>1, <1>2, <1>8, <2>1, <2>2, WorkGoesOn
<1> QED BY <1>7, <1>8, <1>9, <1>10 DEF IInv

\* A thread that sinks a later row group has staged all of the one that it sets up.
LEMMA ReadyAtNewRowGroup ==
  ASSUME IInv, NEW t \in Threads, ~global, HasRows(t), NotNull(NextChunk(t)) # {}, BeginsRowGroup(t)
  PROVE  /\ ReadyToSetUp(row_group_id[t], row_ids[t], embeddings[t])
         /\ index[row_group_id[t]] = NoIndex
         /\ \E s \in Buffered(t) : s \in RowsOf(row_group_id[t])
         /\ row_group_id[t] \in RowGroups
         /\ row_group_id[t] < ScanGroup(t)
<1> DEFINE g == row_group_id[t]
           h == ScanGroup(t)
<1>1. /\ TypeInv /\ ThreadInv(t) /\ phase = "sink" /\ Buffered(t) = Range(row_ids[t])
      /\ g \in Nat /\ h \in Nat /\ h < nextRowGroup /\ nextRowGroup \in Nat
  BY Scanning
<1>2. g < h /\ row_ids[t] # <<>>
  <2>1. RowGroupOfChunk(t) = h
    BY <1>1, ChunkIs
  <2> QED BY <1>1, <2>1 DEF BeginsRowGroup
<1>3. \A r \in RowsOf(g) : GetRowGroupId(r) = g
  BY DEF RowsOf, PartOf
<1>4. RowsOf(g) \cap Remaining(t) = {}
  <2>1. \A r \in Remaining(t) : GetRowGroupId(r) = h
    BY <1>1 DEF ThreadInv, ScanInv
  <2> QED BY <1>1, <1>2, <1>3, <2>1
<1>5. \A r \in RowsOf(g) : GetRowGroupId(r) < nextRowGroup
  BY <1>1, <1>2, <1>3
<1> QED BY <1>1, <1>2, <1>4, <1>5, Ready

\* SinkNewRowGroup
LEMMA SinkNewRowGroupKeeps ==
  ASSUME IInv, NEW t \in Threads, SinkNewRowGroup(t)
  PROVE  IInv'
<1> DEFINE g == row_group_id[t]
           h == ScanGroup(t)
<1>1. /\ ~global /\ HasRows(t) /\ NotNull(NextChunk(t)) # {} /\ BeginsRowGroup(t)
      /\ SetUpIndexForRowGroup(g, row_ids[t], embeddings[t])
      /\ SetRowGroupId(t) /\ Stage(t, <<>>, <<>>)
      /\ UNCHANGED table /\ UNCHANGED nextRowGroup /\ UNCHANGED combined /\ UNCHANGED phase
  BY DEF SinkNewRowGroup
<1>2. /\ TypeInv /\ ThreadInv(t) /\ phase = "sink" /\ Covered /\ Separated
      /\ Buffered(t) = Range(row_ids[t])
      /\ g \in Nat /\ h \in Nat /\ h < nextRowGroup /\ nextRowGroup \in Nat
  BY <1>1, Scanning
<1>3. /\ ReadyToSetUp(g, row_ids[t], embeddings[t]) /\ index[g] = NoIndex
      /\ g \in RowGroups /\ g < h
  BY <1>1, ReadyAtNewRowGroup
<1>4. PICK s \in Buffered(t) : s \in RowsOf(g)
  BY <1>1, ReadyAtNewRowGroup
<1>5. /\ DOMAIN index' = RowGroups
      /\ row_id_metadata' \in [RowGroups -> [Slots -> Place]]
      /\ index'[g] # NoIndex /\ \A k \in RowGroups \ {g} : index'[k] = index[k]
      /\ IndexInv'
  BY <1>1, <1>2, <1>3, SetsUp DEF IInv
<1>6. /\ RowGroupOfChunk(t) = h /\ h \in RowGroups /\ NextChunk(t) \subseteq Remaining(t)
      /\ \A r \in NextChunk(t) : GetRowGroupId(r) = h
  BY <1>1, <1>2, ChunkIs
<1>7. row_group_id' = [row_group_id EXCEPT ![t] = h] /\ \A r \in NextChunk(t) : PartOf(r) = h
  BY <1>1, <1>6 DEF SetRowGroupId, PartOf
<1>8. Stages(h, <<>>, <<>>) /\ Range(<<>>) = {}
  BY StagesNothing
<1>9. /\ scan' \in [Threads -> [next : 0 .. numRows, end : 0 .. numRows]]
      /\ row_group_id' \in [Threads -> RowGroups]
      /\ row_ids' \in [Threads -> Seq(0 .. numRows - 1)]
      /\ embeddings' \in [Threads -> Seq(0 .. numRows - 1)]
      /\ \A u \in Threads : ThreadInv(u)'
      /\ \A u \in Threads \ {t} : Busy(u)' = Busy(u)
      /\ Busy(t)' = (Remaining(t) \ NextChunk(t)) \cup NotNull(NextChunk(t))
      /\ OneThread' /\ PhaseInv'
  <2> HIDE DEF h
  <2>1. /\ scan' \in [Threads -> [next : 0 .. numRows, end : 0 .. numRows]]
        /\ row_group_id' \in [Threads -> RowGroups]
        /\ row_ids' \in [Threads -> Seq(0 .. numRows - 1)]
        /\ embeddings' \in [Threads -> Seq(0 .. numRows - 1)]
        /\ \A u \in Threads : ThreadInv(u)'
        /\ \A u \in Threads \ {t} : Busy(u)' = Busy(u)
        /\ Busy(t)' = (Remaining(t) \ NextChunk(t)) \cup Range(<<>>) \cup NotNull(NextChunk(t))
        /\ OneThread' /\ PhaseInv'
    BY <1>1, <1>6, <1>7, <1>8, StageKeeps DEF h
  <2> QED BY <1>8, <2>1
<1>10. TypeInv'
  BY <1>1, <1>2, <1>5, <1>9, TypeKept DEF TypeInv
<1>11. Covered' /\ Separated'
  <2>1. Busy(t) = Remaining(t) \cup Range(row_ids[t]) /\ s \in Busy(t) /\ PartOf(s) = g
    BY <1>2, <1>4 DEF Busy, RowsOf
  <2>2. \A u \in Threads : Busy(u)' \subseteq Busy(u)
    BY <1>6, <1>9, <2>1 DEF NotNull
  <2>3. \A r \in Range(row_ids[t]) : PartOf(r) = g
    BY <1>2 DEF ThreadInv, StagedInv, Stages, RowsOf
  <2>4. \A u \in Threads : \A r \in Busy(u) \ nulls : r \in Busy(u)' \/ index'[PartOf(r)] # NoIndex
    BY <1>5, <1>6, <1>9, <2>1, <2>3 DEF NotNull
  <2>5. \A u \in Threads : \A r \in Busy(u)' : PartOf(r) # g
    <3>1. \A u \in Threads \ {t} : \A r \in Busy(u)' : PartOf(r) # g
      BY <1>2, <1>9, <2>1 DEF Separated
    <3>2. \A r \in Remaining(t) : PartOf(r) = h
      BY <1>1, <1>2 DEF ThreadInv, ScanInv, PartOf
    <3>3. \A r \in Busy(t)' : PartOf(r) # g
      BY <1>2, <1>3, <1>6, <1>9, <3>2 DEF NotNull
    <3> QED BY <3>1, <3>3
  <2>6. \A u \in Threads : \A r \in Busy(u) : PartOf(r) \in RowGroups /\ index[PartOf(r)] = NoIndex
    <3>1. \A u \in Threads : Busy(u) \subseteq 0 .. numRows - 1
      <4> TAKE u \in Threads
      <4>1. Remaining(u) \subseteq 0 .. numRows - 1 /\ Range(row_ids[u]) \subseteq 0 .. numRows - 1
        BY <1>2, ThreadTypes, RangeOfSeq
      <4> QED BY <4>1 DEF Busy, Buffered
    <3> QED BY <1>2, <3>1, Parts DEF TypeInv, Separated
  <2>7. \A u \in Threads : \A r \in Busy(u)' : index'[PartOf(r)] = NoIndex
    BY <1>5, <2>2, <2>5, <2>6
  <2>8. \A k \in RowGroups : index[k] # NoIndex => index'[k] # NoIndex
    BY <1>3, <1>5
  <2>9. \A k \in RowGroups : index'[k] # NoIndex =>
           index[k] # NoIndex \/ (~global /\ k < nextRowGroup)
    BY <1>1, <1>2, <1>3, <1>5
  <2> QED BY <1>1, <1>2, <2>2, <2>4, <2>7, <2>8, <2>9, WorkGoesOn
<1> QED BY <1>5, <1>9, <1>10, <1>11 DEF IInv

\* What a thread works on has been handed out by the scan.
LEMMA BusyScanned ==
  ASSUME IInv, NEW t \in Threads, NEW r \in Busy(t)
  PROVE  r \in 0 .. numRows - 1 /\ GetRowGroupId(r) \in Nat /\ GetRowGroupId(r) < nextRowGroup
<1>1. TypeInv /\ ThreadInv(t)
  BY DEF IInv
<1>2. CASE r \in Remaining(t)
  <2>1. r \in 0 .. numRows - 1 /\ HasRows(t)
    BY <1>1, <1>2, ThreadTypes
  <2>2. GetRowGroupId(r) = ScanGroup(t) /\ ScanGroup(t) < nextRowGroup
    BY <1>1, <1>2, <2>1 DEF ThreadInv, ScanInv
  <2>3. ScanGroup(t) \in Nat
    BY <2>1, Scanning
  <2> QED BY <2>1, <2>2, <2>3
<1>3. CASE r \in Buffered(t)
  <2>1. r \in Range(row_ids[t])
    BY <1>3 DEF Buffered
  <2>2. Range(row_ids[t]) \subseteq 0 .. numRows - 1 /\ numRows \in Nat
    BY <1>1, ThreadTypes, RangeOfSeq
  <2>3. r \in Nat
    BY <2>1, <2>2
  <2> QED BY <1>1, <2>1, <2>2, <2>3, RowGroupOfRow DEF ThreadInv, StagedInv, TypeInv
<1> QED BY <1>2, <1>3 DEF Busy

\* A thread that has combined scans no more.
LEMMA CombinedScansNoMore ==
  ASSUME IInv, NEW t \in Threads, combined[t]
  PROVE  Remaining(t) = {}
<1>1. ~HasRows(t)
  BY DEF IInv, ThreadInv, ScanInv
<1> QED BY <1>1, ThreadTypes DEF IInv

\* In the global variant, while one thread has work the others have none.
LEMMA OthersIdle ==
  ASSUME IInv, global, NEW t \in Threads, ~combined[t] \/ row_ids[t] # <<>>
  PROVE  \A u \in Threads \ {t} : Busy(u) = {}
<1>1. \A u \in Threads \ {t} : combined[u] /\ row_ids[u] = <<>>
  BY DEF IInv, OneThread
<1>2. \A u \in Threads \ {t} : Remaining(u) = {}
  BY <1>1, CombinedScansNoMore
<1>3. Range(<<>>) = {}
  BY StagesNothing
<1> QED BY <1>1, <1>2, <1>3 DEF Busy, Buffered

\* The rows that the scan hands out: those of the next row group.
LEMMA HandedOut ==
  ASSUME TypeInv, nextRowGroup \in TableRowGroups,
         NEW end, end = Least((nextRowGroup + 1) * RowGroupSize, numRows)
  PROVE  /\ nextRowGroup * RowGroupSize \in 0 .. numRows /\ end \in 0 .. numRows
         /\ GetRowGroupId(nextRowGroup * RowGroupSize) = nextRowGroup
         /\ \A r \in nextRowGroup * RowGroupSize .. end - 1 : GetRowGroupId(r) = nextRowGroup
         /\ \A r \in 0 .. numRows - 1 :
               GetRowGroupId(r) = nextRowGroup => r \in nextRowGroup * RowGroupSize .. end - 1
<1> DEFINE g == nextRowGroup
           S == RowGroupSize
           a == g * S
           l == GetRowGroupId(numRows - 1)
<1>1. numRows \in Nat \ {0} /\ S \in Nat \ {0} /\ g \in Nat
  BY Sizes, ScanPosition DEF TypeInv
<1>2. numRows - 1 \in Nat /\ g <= l /\ l \in Nat /\ l * S <= numRows - 1
  <2>1. TableRowGroups = 0 .. l /\ l \in Nat
    BY Parts DEF TypeInv
  <2>2. numRows - 1 \in Nat
    BY <1>1
  <2>3. l * S <= numRows - 1
    BY <2>2, RowGroupOfRow DEF TypeInv
  <2> HIDE DEF l
  <2> QED BY <2>1, <2>2, <2>3
<1> HIDE DEF l
<1>3. a \in Nat /\ a <= numRows - 1 /\ (g + 1) * S = a + S
  <2>1. g * S <= l * S
    BY <1>1, <1>2, TimesMonotone
  <2>2. g * S \in Nat /\ l * S \in Nat /\ (g + 1) * S = g * S + S
    BY <1>1, <1>2
  <2> QED BY <1>1, <1>2, <2>1, <2>2
<1>4. end = Least(a + S, numRows)
  BY <1>3
<1>5. \A r \in Nat : a <= r /\ r < a + S => GetRowGroupId(r) = g
  BY <1>1, RowGroupIs DEF TypeInv
<1>6. \A r \in Nat : GetRowGroupId(r) = g => a <= r /\ r < a + S
  BY RowGroupOfRow DEF TypeInv
<1>7. a \in 0 .. numRows /\ end \in 0 .. numRows /\ end <= a + S
  <2> HIDE DEF a
  <2> QED BY <1>1, <1>3, <1>4 DEF Least
<1>8. GetRowGroupId(a) = g
  <2> HIDE DEF a
  <2> QED BY <1>1, <1>3, <1>5
<1>9. \A r \in a .. end - 1 : GetRowGroupId(r) = g
  <2> HIDE DEF a
  <2> QED BY <1>1, <1>3, <1>5, <1>7
<1>10. \A r \in 0 .. numRows - 1 : GetRowGroupId(r) = g => r \in a .. end - 1
  <2> HIDE DEF a
  <2>1. \A r \in 0 .. numRows - 1 : a <= r /\ r < a + S => r < end
    BY <1>1, <1>3, <1>4 DEF Least
  <2> QED BY <1>1, <1>3, <1>6, <1>7, <2>1
<1> QED BY <1>7, <1>8, <1>9, <1>10

\* TakeRowGroup
LEMMA TakeRowGroupKeeps ==
  ASSUME IInv, NEW t \in Threads, TakeRowGroup(t)
  PROVE  IInv'
<1> DEFINE g == nextRowGroup
           a == g * RowGroupSize
           e == Least((g + 1) * RowGroupSize, numRows)
<1>1. /\ phase = "sink" /\ ~HasRows(t) /\ ~combined[t] /\ g \in TableRowGroups
      /\ scan' = [scan EXCEPT ![t] = [next |-> a, end |-> e]] /\ nextRowGroup' = g + 1
      /\ UNCHANGED table /\ UNCHANGED staged /\ UNCHANGED combined
      /\ UNCHANGED indexes /\ UNCHANGED phase
  BY DEF TakeRowGroup
<1>2. TypeInv /\ TableInv /\ Covered /\ Separated /\ ThreadInv(t) /\ g \in Nat /\ Remaining(t) = {}
  BY <1>1, ScanPosition, ThreadTypes DEF IInv, TypeInv
<1>3. /\ a \in 0 .. numRows /\ e \in 0 .. numRows /\ GetRowGroupId(a) = g
      /\ \A r \in a .. e - 1 : GetRowGroupId(r) = g
      /\ \A r \in 0 .. numRows - 1 : GetRowGroupId(r) = g => r \in a .. e - 1
  BY <1>1, <1>2, HandedOut
<1> HIDE DEF a, e
<1>4. row_group_id' = row_group_id /\ row_ids' = row_ids /\ embeddings' = embeddings
  BY <1>1 DEF staged
<1>5. /\ scan' \in [Threads -> [next : 0 .. numRows, end : 0 .. numRows]]
      /\ scan'[t].next = a /\ scan'[t].end = e /\ \A u \in Threads \ {t} : scan'[u] = scan[u]
  <2>1. scan \in [Threads -> [next : 0 .. numRows, end : 0 .. numRows]]
    BY <1>2 DEF TypeInv
  <2> QED BY <1>1, <1>3, <2>1
<1>6. IndexInv' /\ index' = index /\ row_id_metadata' = row_id_metadata
  BY <1>1, <1>2, IndexesKept DEF IInv
<1>7. nextRowGroup' \in 0 .. GetRowGroupId(numRows - 1) + 1
  <2> DEFINE l == GetRowGroupId(numRows - 1)
  <2>1. g \in 0 .. l /\ l \in Nat
    BY <1>1, <1>2, Parts
  <2> HIDE DEF l
  <2>2. g + 1 \in 0 .. l + 1
    BY <2>1
  <2> QED BY <1>1, <2>2 DEF l
<1>8. TypeInv'
  BY <1>1, <1>2, <1>4, <1>5, <1>6, <1>7, TypeKept DEF TypeInv
<1>9. \A r : GetRowGroupId(r)' = GetRowGroupId(r)
  BY DEF GetRowGroupId
<1>10. \A u \in Threads \ {t} : ThreadInv(u)' /\ Busy(u)' = Busy(u)
  <2> TAKE u \in Threads \ {t}
  <2>1. nextRowGroup' \in Nat /\ nextRowGroup <= nextRowGroup' /\ u \in Threads /\ ThreadInv(u)
    BY <1>1, <1>2 DEF IInv
  <2> QED BY <1>1, <1>2, <1>4, <1>5, <2>1, Bystander
<1>11. Remaining(t)' = a .. e - 1 /\ Buffered(t)' = Buffered(t) /\ Busy(t) = Buffered(t)
  BY <1>1, <1>2, <1>4, <1>5, SameTable DEF Remaining, Buffered, Busy
<1>12. ThreadInv(t)'
  <2>1. row_group_id[t] \in Nat /\ row_group_id[t] <= g
    BY <1>2, ThreadTypes DEF ThreadInv, ScanInv
  <2>2. ScanGroup(t)' = g
    BY <1>3, <1>5, <1>9 DEF ScanGroup
  <2>3. ScanInv(t)'
    BY <1>1, <1>2, <1>3, <1>4, <1>9, <1>11, <2>1, <2>2 DEF ScanInv
  <2>4. \A r \in Range(row_ids[t]) : GetRowGroupId(r) \in Nat /\ GetRowGroupId(r) < g
    <3>1. Buffered(t) = Range(row_ids[t])
      BY <1>1 DEF Buffered
    <3> QED BY <3>1, BusyScanned DEF Busy
  <2>5. Range(row_ids[t]) \cap Remaining(t)' = {}
    BY <1>2, <1>3, <1>11, <2>4
  <2>6. Stages(row_group_id[t], row_ids[t], embeddings[t])'
    BY <1>1, <1>2, <1>4, SameTable DEF ThreadInv, StagedInv, Stages
  <2>7. StagedInv(t)'
    BY <1>1, <1>2, <1>4, <1>9, <2>4, <2>5, <2>6 DEF StagedInv
  <2> QED BY <2>3, <2>7 DEF ThreadInv
<1>13. Covered'
  <2>1. ASSUME NEW r \in (0 .. numRows - 1) \ nulls, GetRowGroupId(r) < g + 1
        PROVE  index[PartOf(r)] # NoIndex \/ \E u \in Threads : r \in Busy(u)'
    <3>1. GetRowGroupId(r) \in Nat
      BY <1>2, Sizes, RowGroupOfRow
    <3>2. CASE GetRowGroupId(r) < g
      <4>1. index[PartOf(r)] # NoIndex \/ \E u \in Threads : r \in Busy(u)
        BY <1>2, <3>2 DEF Covered
      <4>2. \A u \in Threads : Busy(u) \subseteq Busy(u)'
        BY <1>10, <1>11 DEF Busy
      <4> QED BY <4>1, <4>2
    <3>3. CASE GetRowGroupId(r) = g
      <4>1. r \in Busy(t)'
        BY <1>3, <1>11, <3>3 DEF Busy
      <4> QED BY <4>1
    <3> QED BY <1>2, <2>1, <3>1, <3>2, <3>3
  <2> QED BY <1>1, <1>6, <1>9, <2>1, SameTable DEF Covered
<1>14. Separated'
  <2>1. Busy(t)' = (a .. e - 1) \cup Busy(t)
    BY <1>11 DEF Busy
  <2>2. \A r \in a .. e - 1 : r \in 0 .. numRows - 1
    BY <1>2, <1>3, Sizes
  <2>3. \A r \in a .. e - 1 : index[PartOf(r)] = NoIndex
    <3>1. \A k \in RowGroups : index[k] # NoIndex => ~global /\ k < g
      BY <1>2 DEF Separated
    <3>2. \A r \in a .. e - 1 : PartOf(r) \in RowGroups /\ (~global => PartOf(r) = g)
      BY <1>2, <1>3, <2>2, Parts DEF PartOf
    <3> QED BY <1>2, <3>1, <3>2
  <2>4. \A u \in Threads : \A r \in Busy(u)' : index[PartOf(r)] = NoIndex
    BY <1>2, <1>10, <2>1, <2>3 DEF Separated
  <2>5. \A u \in Threads \ {t} : \A r \in a .. e - 1, s \in Busy(u) : PartOf(r) # PartOf(s)
    <3>1. CASE global
      BY <1>1, <3>1, OthersIdle
    <3>2. CASE ~global
      <4>1. \A u \in Threads \ {t} : \A s \in Busy(u) : GetRowGroupId(s) \in Nat /\ GetRowGroupId(s) < g
        BY BusyScanned
      <4> QED BY <1>2, <1>3, <3>2, <4>1 DEF PartOf
    <3> QED BY <3>1, <3>2
  <2>6. \A u, v \in Threads : u # v => \A r \in Busy(u)', s \in Busy(v)' : PartOf(r) # PartOf(s)
    <3>1. \A u, v \in Threads : u # v => \A r \in Busy(u), s \in Busy(v) : PartOf(r) # PartOf(s)
      BY <1>2 DEF Separated
    <3> QED BY <1>10, <2>1, <2>5, <3>1
  <2>7. \A k \in RowGroups : index[k] # NoIndex => ~global /\ k < g + 1
    <3>1. RowGroups \subseteq Nat
      BY <1>2, Parts
    <3> QED BY <1>2, <3>1 DEF Separated
  <2> QED BY <1>1, <1>6, <2>4, <2>6, <2>7, SameTable DEF Separated
<1>15. OneThread'
  BY <1>1, <1>4, StillOneThread DEF IInv
<1>16. PhaseInv'
  <2>1. \A u \in Threads : ~(combined[u] /\ ~global)
    BY <1>1 DEF IInv, PhaseInv
  <2> QED BY <1>1, <2>1, SameTable DEF PhaseInv, CrashesOnlyOnNulls
<1> QED BY <1>6, <1>8, <1>10, <1>12, <1>13, <1>14, <1>15, <1>16 DEF IInv

\* When the scan is over and a thread has none left, it has staged all of its last part.
LEMMA ReadyAtTheEnd ==
  ASSUME IInv, phase = "sink", NEW t \in Threads, row_ids[t] # <<>>,
         Buffered(t) = Range(row_ids[t]), ~HasRows(t), nextRowGroup \notin TableRowGroups
  PROVE  /\ ReadyToSetUp(row_group_id[t], row_ids[t], embeddings[t])
         /\ index[row_group_id[t]] = NoIndex
         /\ \E s \in Buffered(t) : s \in RowsOf(row_group_id[t])
         /\ row_group_id[t] \in RowGroups
<1>1. Remaining(t) = {}
  BY ThreadTypes DEF IInv
<1>2. \A r \in RowsOf(row_group_id[t]) : GetRowGroupId(r) < nextRowGroup
  BY ScanPosition DEF IInv, RowsOf
<1> QED BY <1>1, <1>2, Ready

\* What a thread keeps when it combines: nothing, or all it had in the global variant.
LEMMA Combined ==
  ASSUME IInv, NEW t \in Threads, UNCHANGED <<table, nextRowGroup, scan, staged>>,
         phase = "sink", ~combined[t], ~HasRows(t), nextRowGroup \notin TableRowGroups,
         combined' = [combined EXCEPT ![t] = TRUE]
  PROVE  /\ combined' \in [Threads -> BOOLEAN]
         /\ \A u \in Threads : ThreadInv(u)'
         /\ \A u \in Threads \ {t} : Busy(u)' = Busy(u)
         /\ Buffered(t) = Range(row_ids[t]) /\ Busy(t) = Range(row_ids[t])
         /\ Busy(t)' = IF global THEN Busy(t) ELSE {}
         /\ OneThread'
<1>1. TypeInv /\ ThreadInv(t) /\ Remaining(t) = {} /\ combined \in [Threads -> BOOLEAN]
  BY ThreadTypes DEF IInv, TypeInv
<1>2. /\ combined' \in [Threads -> BOOLEAN] /\ combined'[t]
      /\ \A u \in Threads \ {t} : combined'[u] = combined[u]
  BY <1>1
<1>3. /\ scan' = scan /\ row_group_id' = row_group_id /\ row_ids' = row_ids
      /\ embeddings' = embeddings /\ nextRowGroup' = nextRowGroup /\ UNCHANGED table
  BY DEF staged
<1>4. \A u \in Threads \ {t} : ThreadInv(u)' /\ Busy(u)' = Busy(u)
  <2> TAKE u \in Threads \ {t}
  <2>1. nextRowGroup' \in Nat /\ nextRowGroup <= nextRowGroup' /\ u \in Threads /\ ThreadInv(u)
    BY <1>1, <1>3, ScanPosition DEF IInv
  <2> QED BY <1>1, <1>2, <1>3, <2>1, Bystander
<1>5. Buffered(t) = Range(row_ids[t]) /\ Busy(t) = Range(row_ids[t])
  BY <1>1 DEF Buffered, Busy
<1>6. Busy(t)' = IF global THEN Busy(t) ELSE {}
  <2>1. Remaining(t)' = {}
    BY <1>1, <1>3 DEF Remaining
  <2>2. Buffered(t)' = IF global THEN Range(row_ids[t]) ELSE {}
    BY <1>2, <1>3, SameTable DEF Buffered
  <2> QED BY <1>5, <2>1, <2>2 DEF Busy
<1>7. ThreadInv(t)'
  <2>1. \A r : GetRowGroupId(r)' = GetRowGroupId(r)
    BY DEF GetRowGroupId
  <2>2. Remaining(t)' = Remaining(t) /\ ~HasRows(t)'
    BY <1>3 DEF Remaining, HasRows
  <2>3. ScanInv(t)'
    BY <1>1, <1>3, <2>1, <2>2 DEF ThreadInv, ScanInv
  <2>4. Stages(row_group_id[t], row_ids[t], embeddings[t])'
    BY <1>1, <1>3, SameTable DEF ThreadInv, StagedInv, Stages
  <2>5. StagedInv(t)'
    BY <1>1, <1>3, <2>1, <2>2, <2>4 DEF ThreadInv, StagedInv
  <2> QED BY <2>3, <2>5 DEF ThreadInv
<1>8. OneThread'
  <2>1. \A u \in Threads : combined[u] => combined'[u] /\ row_ids'[u] = row_ids[u]
    BY <1>2, <1>3
  <2> QED BY <1>3, <2>1, StillOneThread DEF IInv
<1> QED BY <1>2, <1>4, <1>5, <1>6, <1>7, <1>8

\* Combine
LEMMA CombineKeeps ==
  ASSUME IInv, NEW t \in Threads, Combine(t)
  PROVE  IInv'
<1> DEFINE g == row_group_id[t]
<1>1. /\ phase = "sink" /\ ~combined[t] /\ ~HasRows(t) /\ nextRowGroup \notin TableRowGroups
      /\ combined' = [combined EXCEPT ![t] = TRUE]
      /\ UNCHANGED table /\ UNCHANGED nextRowGroup /\ UNCHANGED scan /\ UNCHANGED staged
      /\ UNCHANGED phase
  BY DEF Combine
<1>2. TypeInv /\ Covered /\ Separated /\ ThreadInv(t) /\ IndexInv /\ PhaseInv /\ nextRowGroup \in Nat
  BY <1>1, ScanPosition DEF IInv
<1>3. /\ combined' \in [Threads -> BOOLEAN]
      /\ \A u \in Threads : ThreadInv(u)'
      /\ \A u \in Threads \ {t} : Busy(u)' = Busy(u)
      /\ Buffered(t) = Range(row_ids[t]) /\ Busy(t) = Range(row_ids[t])
      /\ Busy(t)' = IF global THEN Busy(t) ELSE {}
      /\ OneThread'
  BY <1>1, Combined
<1>4. row_group_id' = row_group_id /\ row_ids' = row_ids /\ embeddings' = embeddings
  BY <1>1 DEF staged
<1>5. PhaseInv'
  BY <1>1, <1>2, SameTable DEF PhaseInv, CrashesOnlyOnNulls
<1>6. \A u \in Threads : Busy(u)' \subseteq Busy(u)
  BY <1>3
<1>7. CASE ~global /\ row_ids[t] # <<>>
  <2>1. /\ ReadyToSetUp(g, row_ids[t], embeddings[t]) /\ index[g] = NoIndex /\ g \in RowGroups
        /\ \E s \in Buffered(t) : s \in RowsOf(g)
    BY <1>1, <1>3, <1>7, ReadyAtTheEnd
  <2>2. SetUpIndexForRowGroup(g, row_ids[t], embeddings[t])
    BY <1>7 DEF Combine
  <2>3. /\ DOMAIN index' = RowGroups
        /\ row_id_metadata' \in [RowGroups -> [Slots -> Place]]
        /\ index'[g] # NoIndex /\ \A k \in RowGroups \ {g} : index'[k] = index[k]
        /\ IndexInv'
    BY <1>1, <1>2, <2>1, <2>2, SetsUp
  <2>4. TypeInv'
    BY <1>1, <1>2, <1>3, <1>4, <2>3, TypeKept DEF TypeInv
  <2>5. PICK s \in Buffered(t) : s \in RowsOf(g)
    BY <2>1
  <2>6. s \in Busy(t) /\ s \in 0 .. numRows - 1 /\ PartOf(s) = g
    BY <2>5 DEF Busy, RowsOf
  <2>7. \A r \in Busy(t) : PartOf(r) = g
    BY <1>2, <1>3 DEF ThreadInv, StagedInv, Stages, RowsOf
  <2>8. \A u \in Threads : \A r \in Busy(u) \ nulls : r \in Busy(u)' \/ index'[PartOf(r)] # NoIndex
    BY <1>3, <2>3, <2>7
  <2>9. \A k \in RowGroups : index[k] # NoIndex => index'[k] # NoIndex
    BY <2>1, <2>3
  <2>10. \A k \in RowGroups : index'[k] # NoIndex =>
            index[k] # NoIndex \/ (~global /\ k < nextRowGroup)
    <3>1. g < nextRowGroup
      <4>1. GetRowGroupId(s) < nextRowGroup
        BY <2>6, BusyScanned
      <4> QED BY <1>7, <2>6, <4>1 DEF PartOf
    <3> QED BY <1>7, <2>3, <3>1
  <2>11. \A u \in Threads : \A r \in Busy(u)' : index'[PartOf(r)] = NoIndex
    <3>1. Busy(t)' = {}
      BY <1>3, <1>7
    <3>2. \A u \in Threads \ {t} : \A r \in Busy(u) : PartOf(r) # g /\ index[PartOf(r)] = NoIndex
      BY <1>2, <2>6 DEF Separated
    <3>3. \A u \in Threads : \A r \in Busy(u) : PartOf(r) \in RowGroups
      BY <1>2, BusyScanned, Parts DEF TypeInv
    <3> QED BY <1>3, <2>3, <3>1, <3>2, <3>3
  <2>12. Covered' /\ Separated'
    BY <1>1, <1>2, <1>6, <2>8, <2>9, <2>10, <2>11, WorkGoesOn
  <2> QED BY <1>3, <1>5, <2>3, <2>4, <2>12 DEF IInv
<1>8. CASE ~(~global /\ row_ids[t] # <<>>)
  <2>1. UNCHANGED indexes
    BY <1>8 DEF Combine
  <2>2. IndexInv' /\ index' = index /\ row_id_metadata' = row_id_metadata
    BY <1>1, <1>2, <2>1, IndexesKept
  <2>3. TypeInv'
    BY <1>1, <1>2, <1>3, <1>4, <2>2, TypeKept DEF TypeInv
  <2>4. Busy(t)' = Busy(t)
    BY <1>3, <1>8, StagesNothing
  <2>5. \A u \in Threads : \A r \in Busy(u) \ nulls : r \in Busy(u)'
    BY <1>3, <2>4
  <2>6. \A u \in Threads : \A r \in Busy(u)' : index'[PartOf(r)] = NoIndex
    BY <1>2, <1>3, <2>2, <2>4 DEF Separated
  <2>7. Covered' /\ Separated'
    BY <1>1, <1>2, <1>6, <2>2, <2>5, <2>6, WorkGoesOn
  <2> QED BY <1>3, <1>5, <2>2, <2>3, <2>7 DEF IInv
<1> QED BY <1>7, <1>8

\* When all threads have combined, all embeddings are in an index or, in the global variant,
\* staged by one thread.
LEMMA AllHandedOn ==
  ASSUME IInv, CanFinalize, NEW g \in RowGroups, index[g] = NoIndex, NEW r \in RowsOf(g) \ nulls
  PROVE  global /\ \E t \in Threads : row_ids[t] # <<>>
<1>1. TypeInv /\ Covered /\ phase = "sink" /\ \A t \in Threads : combined[t]
  BY DEF IInv, CanFinalize
<1>2. nextRowGroup \notin TableRowGroups
  BY <1>1 DEF IInv, PhaseInv
<1>3. r \in (0 .. numRows - 1) \ nulls /\ PartOf(r) = g /\ GetRowGroupId(r) < nextRowGroup
  BY <1>1, <1>2, ScanPosition DEF RowsOf
<1>4. PICK t \in Threads : r \in Busy(t)
  BY <1>1, <1>3 DEF Covered
<1>5. r \in Buffered(t)
  BY <1>1, <1>4, CombinedScansNoMore DEF Busy
<1>6. global /\ r \in Range(row_ids[t])
  BY <1>1, <1>5 DEF Buffered
<1> QED BY <1>6, StagesNothing

\* A step that ends the creation keeps what the threads have.
LEMMA FinalKeeps ==
  ASSUME IInv, CanFinalize, UNCHANGED <<table, nextRowGroup, scan, staged, combined>>,
         phase' \in {"exception", "not added", "added", "crashed"},
         DOMAIN index' = RowGroups, row_id_metadata' \in [RowGroups -> [Slots -> Place]],
         IndexInv',
         phase' = "added" => \A g \in RowGroups : index'[g] # NoIndex,
         phase' = "crashed" => \E g \in RowGroups : RowsOf(g) \subseteq nulls
  PROVE  IInv'
<1>1. /\ TypeInv /\ OneThread /\ PhaseInv /\ nextRowGroup \in Nat
      /\ phase = "sink" /\ \A t \in Threads : combined[t]
  BY ScanPosition DEF IInv, CanFinalize
<1>2. /\ scan' = scan /\ row_group_id' = row_group_id /\ row_ids' = row_ids
      /\ embeddings' = embeddings /\ nextRowGroup' = nextRowGroup /\ combined' = combined
      /\ UNCHANGED table
  BY DEF staged
<1>3. TypeInv'
  BY <1>1, <1>2, TypeKept DEF TypeInv
<1>4. ASSUME NEW u \in Threads PROVE ThreadInv(u)'
  <2>1. nextRowGroup' \in Nat /\ nextRowGroup <= nextRowGroup'
    <3>1. nextRowGroup' = nextRowGroup /\ nextRowGroup \in Nat
      BY <1>1, <1>2
    <3> QED BY <3>1, Standstill
  <2>2. ThreadInv(u)
    BY DEF IInv
  <2> QED BY <1>1, <1>2, <2>1, <2>2, Bystander
<1>5. OneThread'
  BY <1>1, <1>2, StillOneThread
<1>6. PhaseInv'
  <2>1. nextRowGroup \notin TableRowGroups
    BY <1>1 DEF PhaseInv
  <2> QED BY <1>1, <1>2, <2>1, SameTable DEF PhaseInv, CrashesOnlyOnNulls
<1> QED BY <1>3, <1>4, <1>5, <1>6 DEF IInv

\* FinalizeWithoutIndex
LEMMA FinalizeWithoutIndexKeeps ==
  ASSUME IInv, FinalizeWithoutIndex
  PROVE  IInv'
<1>1. /\ CanFinalize /\ UNCHANGED <<table, nextRowGroup, scan, staged, combined>>
      /\ UNCHANGED table /\ UNCHANGED indexes /\ phase' \in {"exception", "not added"}
  BY DEF FinalizeWithoutIndex
<1>2. IndexInv' /\ index' = index /\ row_id_metadata' = row_id_metadata
  BY <1>1, IndexesKept DEF IInv
<1>3. DOMAIN index' = RowGroups /\ row_id_metadata' \in [RowGroups -> [Slots -> Place]]
  BY <1>2 DEF IInv, TypeInv
<1> QED BY <1>1, <1>2, <1>3, FinalKeeps

\* Finalize
LEMMA FinalizeKeeps ==
  ASSUME IInv, Finalize
  PROVE  IInv'
<1>1. /\ CanFinalize /\ ~global /\ UNCHANGED <<table, nextRowGroup, scan, staged, combined>>
      /\ UNCHANGED table /\ UNCHANGED indexes
      /\ phase' = IF \E g \in RowGroups : index[g] = NoIndex THEN "crashed" ELSE "added"
  BY DEF Finalize
<1>2. IndexInv' /\ index' = index /\ row_id_metadata' = row_id_metadata
  BY <1>1, IndexesKept DEF IInv
<1>3. DOMAIN index' = RowGroups /\ row_id_metadata' \in [RowGroups -> [Slots -> Place]]
  BY <1>2 DEF IInv, TypeInv
<1>4. \A g \in RowGroups : index[g] = NoIndex => RowsOf(g) \subseteq nulls
  BY <1>1, AllHandedOn
<1>5. /\ phase' = "added" => \A g \in RowGroups : index'[g] # NoIndex
      /\ phase' = "crashed" => \E g \in RowGroups : RowsOf(g) \subseteq nulls
  BY <1>1, <1>2, <1>4
<1> QED BY <1>1, <1>2, <1>3, <1>5, FinalKeeps

\* FinalizeGlobal
LEMMA FinalizeGlobalKeeps ==
  ASSUME IInv, FinalizeGlobal
  PROVE  IInv' /\ \A g \in RowGroups : index[g] = NoIndex
<1>1. /\ CanFinalize /\ global /\ UNCHANGED <<table, nextRowGroup, scan, staged, combined>>
      /\ UNCHANGED table /\ phase' = "added"
  BY DEF FinalizeGlobal
<1>2. PICK t \in Threads : row_ids[t] # <<>> /\ SetUpIndexForRowGroup(0, row_ids[t], embeddings[t])
  BY DEF FinalizeGlobal, SetUpGlobalIndex
<1>3. TypeInv /\ PhaseInv /\ IndexInv /\ phase = "sink" /\ combined[t] /\ \A u \in Threads : combined[u]
  BY <1>1 DEF IInv, CanFinalize
<1>4. nextRowGroup \notin TableRowGroups /\ ~HasRows(t)
  BY <1>3 DEF PhaseInv, IInv, ThreadInv, ScanInv
<1>5. RowGroups = {0} /\ row_group_id[t] = 0
  BY <1>1, <1>3, Parts, ThreadTypes DEF TypeInv
<1>6. Buffered(t) = Range(row_ids[t])
  BY <1>1 DEF Buffered
<1>7. ReadyToSetUp(0, row_ids[t], embeddings[t]) /\ index[0] = NoIndex
  BY <1>2, <1>3, <1>4, <1>5, <1>6, ReadyAtTheEnd
<1>8. /\ DOMAIN index' = RowGroups
      /\ row_id_metadata' \in [RowGroups -> [Slots -> Place]]
      /\ index'[0] # NoIndex /\ IndexInv'
  BY <1>1, <1>2, <1>3, <1>5, <1>7, SetsUp
<1>9. IInv'
  BY <1>1, <1>5, <1>8, FinalKeeps
<1> QED BY <1>5, <1>7, <1>9

\* FinalizeGlobalWithoutEmbeddings
LEMMA FinalizeGlobalWithoutEmbeddingsKeeps ==
  ASSUME IInv, FinalizeGlobalWithoutEmbeddings
  PROVE  IInv'
<1>1. /\ CanFinalize /\ global /\ \A t \in Threads : row_ids[t] = <<>>
      /\ UNCHANGED <<table, nextRowGroup, scan, staged, combined>>
      /\ UNCHANGED table /\ UNCHANGED indexes /\ phase' = "crashed"
  BY DEF FinalizeGlobalWithoutEmbeddings
<1>2. IndexInv' /\ index' = index /\ row_id_metadata' = row_id_metadata
  BY <1>1, IndexesKept DEF IInv
<1>3. DOMAIN index' = RowGroups /\ row_id_metadata' \in [RowGroups -> [Slots -> Place]]
  BY <1>2 DEF IInv, TypeInv
<1>4. 0 \in RowGroups /\ index[0] = NoIndex
  <2>1. 0 \in RowGroups
    BY Parts DEF IInv, TypeInv
  <2>2. Separated
    BY <1>1 DEF IInv, CanFinalize
  <2> QED BY <1>1, <2>1, <2>2 DEF Separated
<1>5. RowsOf(0) \subseteq nulls
  BY <1>1, <1>4, AllHandedOn
<1> QED BY <1>1, <1>2, <1>3, <1>4, <1>5, FinalKeeps

\* Every step of every thread, and every way to finalize, keeps the invariant.
LEMMA StepKeeps ==
  ASSUME IInv, [Next]_vars
  PROVE  IInv'
<1>1. ASSUME NEW t \in Threads,
             \/ TakeRowGroup(t) \/ SkipChunk(t) \/ Combine(t)
             \/ SinkChunk(t) \/ SinkNewRowGroup(t) \/ SinkGlobalChunk(t)
      PROVE  IInv'
  BY <1>1, TakeRowGroupKeeps, SkipChunkKeeps, CombineKeeps,
     SinkChunkKeeps, SinkNewRowGroupKeeps, SinkGlobalChunkKeeps
<1>2. CASE UNCHANGED vars
  <2>1. /\ UNCHANGED table /\ UNCHANGED staged /\ UNCHANGED indexes
        /\ nextRowGroup' = nextRowGroup /\ scan' = scan /\ combined' = combined /\ phase' = phase
    BY <1>2 DEF vars
  <2>2. /\ global' = global /\ numRows' = numRows /\ nulls' = nulls
        /\ row_group_id' = row_group_id /\ row_ids' = row_ids /\ embeddings' = embeddings
        /\ index' = index /\ row_id_metadata' = row_id_metadata
    BY <2>1 DEF table, staged, indexes
  <2>3. TypeInv /\ nextRowGroup \in Nat
    BY ScanPosition DEF IInv
  <2>4. TypeInv'
    BY <2>1, <2>2, <2>3, TypeKept DEF TypeInv
  <2>5. \A t \in Threads : ThreadInv(t)' /\ Busy(t)' = Busy(t)
    <3> TAKE t \in Threads
    <3> QED BY <2>1, <2>2, <2>3, Bystander DEF IInv
  <2>6. IndexInv' /\ OneThread'
    BY <2>1, <2>2, <2>3, IndexesKept, StillOneThread DEF IInv
  <2>7. phase = "sink" => Covered' /\ Separated'
    BY <2>1, <2>2, <2>3, <2>5, WorkGoesOn DEF IInv, Separated
  <2>8. PhaseInv'
    BY <2>1, <2>2, SameTable DEF IInv, PhaseInv, CrashesOnlyOnNulls
  <2> QED BY <2>1, <2>4, <2>5, <2>6, <2>7, <2>8 DEF IInv
<1>3. CASE Next
  BY <1>1, <1>3, FinalizeWithoutIndexKeeps, FinalizeKeeps, FinalizeGlobalKeeps,
     FinalizeGlobalWithoutEmbeddingsKeeps DEF Next
<1> QED BY <1>2, <1>3

\* The creation of an index keeps to the inductive invariant: every embedding that has been
\* scanned is staged by exactly one thread or is in the one index of its part, with its place.
THEOREM Invariance == Spec => []IInv
<1>1. Init => IInv
  BY InitInv
<1>2. IInv /\ [Next]_vars => IInv'
  BY StepKeeps
<1> QED BY <1>1, <1>2, PTL DEF Spec

-----------------------------------------------------------------------------
(* What an index has.                                                       *)

\* The rows of every cluster of an index: rows of its part that have an embedding, none twice.
LEMMA IndexedRows ==
  ASSUME IInv, NEW g \in RowGroups, index[g] # NoIndex
  PROVE  /\ \A c \in Clusters :
              /\ index[g][c].indices \in Seq(RowsOf(g) \ nulls)
              /\ Len(index[g][c].indices) \in 0 .. Cardinality(Slots)
              /\ DOMAIN index[g][c].indices = 1 .. Len(index[g][c].indices)
              /\ \A p \in DOMAIN index[g][c].indices :
                    /\ index[g][c].indices[p] \in RowsOf(g) \ nulls
                    /\ row_id_metadata[g][SlotOf(index[g][c].indices[p])]
                           = [cluster_id |-> c, index_in_cluster |-> p - 1]
         /\ \A c, d \in Clusters :
              \A p \in DOMAIN index[g][c].indices, q \in DOMAIN index[g][d].indices :
                 index[g][c].indices[p] = index[g][d].indices[q] => c = d /\ p = q
         /\ \A r \in RowsOf(g) \ nulls :
              \E c \in Clusters : \E p \in DOMAIN index[g][c].indices : index[g][c].indices[p] = r
<1> DEFINE rows(c) == index[g][c].indices
           metadata == row_id_metadata[g]
<1>1. TableInv /\ Completes(g, index[g], metadata)
  BY DEF IInv, TypeInv, IndexInv
<1>2. /\ \A c \in Clusters :
            /\ rows(c) \in Seq(RowsOf(g) \ nulls)
            /\ \A p \in DOMAIN rows(c) :
                  metadata[SlotOf(rows(c)[p])] = [cluster_id |-> c, index_in_cluster |-> p - 1]
      /\ \A r \in RowsOf(g) \ nulls : \E c \in Clusters : \E p \in DOMAIN rows(c) : rows(c)[p] = r
  BY <1>1 DEF Completes
<1> HIDE DEF rows, metadata
<1>3. \A c \in Clusters :
         /\ Len(rows(c)) \in Nat /\ DOMAIN rows(c) = 1 .. Len(rows(c))
         /\ \A p \in DOMAIN rows(c) : rows(c)[p] \in RowsOf(g) \ nulls
  BY <1>2, LenProperties, ElementOfSeq
<1>4. ASSUME NEW c \in Clusters, NEW d \in Clusters, NEW p \in DOMAIN rows(c), NEW q \in DOMAIN rows(d),
             rows(c)[p] = rows(d)[q]
      PROVE  c = d /\ p = q
  <2>1. [cluster_id |-> c, index_in_cluster |-> p - 1] = [cluster_id |-> d, index_in_cluster |-> q - 1]
    BY <1>2, <1>4
  <2>2. c = d /\ p - 1 = q - 1
    BY <2>1
  <2>3. p \in Nat /\ q \in Nat
    BY <1>3
  <2> QED BY <2>2, <2>3
<1>5. ASSUME NEW c \in Clusters PROVE Len(rows(c)) <= Cardinality(Slots)
  <2>1. IsInjective(rows(c))
    BY <1>4 DEF IsInjective
  <2>2. RowsOf(g) \ nulls \in SUBSET RowsOf(g)
    OBVIOUS
  <2> QED BY <1>1, <1>2, <2>1, <2>2, RowsFit
<1>6. \A c \in Clusters : Len(rows(c)) \in 0 .. Cardinality(Slots)
  BY <1>1, <1>3, <1>5, SlotsOfPart
<1> QED BY <1>2, <1>3, <1>4, <1>6 DEF rows, metadata

\* The variables keep their ranges, and what a thread stages never outgrows its buffer of a row
\* group, whatever chunks it sinks (TypeOK).
THEOREM TypeCorrect == Spec => []TypeOK
<1>1. ASSUME IInv PROVE TypeOK
  <2>1. TypeInv /\ TableInv
    BY <1>1 DEF IInv, TypeInv
  <2>2. numRows \in TableSizes /\ nulls \subseteq 0 .. numRows - 1
    BY <2>1 DEF TableInv
  <2>3. nextRowGroup <= Cardinality(TableRowGroups)
    <3> DEFINE l == GetRowGroupId(numRows - 1)
    <3>1. TableRowGroups = 0 .. l /\ l \in Nat /\ nextRowGroup \in 0 .. l + 1
      BY <2>1, Parts DEF TypeInv
    <3> HIDE DEF l
    <3>2. Cardinality(0 .. l) = l + 1
      BY <3>1, FS_Interval
    <3> QED BY <3>1, <3>2
  <2>4. ASSUME NEW t \in Threads
        PROVE  /\ scan[t] \in [next : 0 .. numRows, end : 0 .. numRows]
               /\ row_group_id[t] \in RowGroups
               /\ IsStaged(row_ids[t]) /\ IsStaged(embeddings[t])
    <3>1. Stages(row_group_id[t], row_ids[t], embeddings[t])
      BY <1>1 DEF IInv, ThreadInv, StagedInv
    <3>2. row_ids[t] \in Seq(RowsOf(row_group_id[t]))
      <4>1. row_ids[t] \in Seq(Range(row_ids[t])) /\ Range(row_ids[t]) \subseteq RowsOf(row_group_id[t])
        BY <3>1, SeqOfRange DEF Stages
      <4> QED BY <4>1, SeqMonotonic
    <3>3. Len(row_ids[t]) <= Cardinality(Slots)
      BY <2>1, <3>1, <3>2, RowsFit DEF Stages
    <3> QED BY <2>1, <3>1, <3>3, ThreadTypes DEF IsStaged, Stages
  <2>5. ASSUME NEW g \in RowGroups, index[g] # NoIndex, NEW c \in Clusters
        PROVE  /\ DOMAIN index[g] = Clusters
               /\ IsStaged(index[g][c].indices) /\ IsStaged(index[g][c].data)
    <3>1. Completes(g, index[g], row_id_metadata[g])
      BY <1>1, <2>5 DEF IInv, IndexInv
    <3>2. /\ index[g][c].indices \in Seq(RowsOf(g) \ nulls)
          /\ Len(index[g][c].indices) <= Cardinality(Slots)
      BY <1>1, <2>1, <2>5, IndexedRows, SlotsOfPart
    <3>3. index[g][c].indices \in Seq(0 .. numRows - 1)
      <4>1. RowsOf(g) \ nulls \subseteq 0 .. numRows - 1
        BY DEF RowsOf
      <4> QED BY <3>2, <4>1, SeqMonotonic
    <3>4. /\ DOMAIN index[g] = Clusters
          /\ index[g][c].data \in Seq(0 .. numRows - 1)
          /\ Len(index[g][c].data) = Len(index[g][c].indices)
      BY <3>1 DEF Completes
    <3> QED BY <3>2, <3>3, <3>4 DEF IsStaged
  <2>6. \A g \in RowGroups : index[g] # NoIndex => DOMAIN index[g] = Clusters
    BY <1>1 DEF IInv, IndexInv, Completes
  <2> QED BY <2>1, <2>2, <2>3, <2>4, <2>5, <2>6 DEF TypeOK, TypeInv
<1> QED BY <1>1, Invariance, PTL

\* An index that is added has every row that has an embedding in exactly one place, in its part,
\* and no other row, whichever threads took which row groups (AddedComplete).
THEOREM AddedCompleteAlways == Spec => []AddedComplete
<1>1. ASSUME IInv, phase = "added", NEW r \in 0 .. numRows - 1
      PROVE  IF r \in nulls
             THEN Places(r) = {}
             ELSE \E c \in Clusters, p \in 1 .. Cardinality(Slots) :
                     Places(r) = {[part |-> PartOf(r), cluster |-> c, position |-> p]}
  <2> DEFINE g == PartOf(r)
  <2>1. TableInv /\ \A h \in RowGroups : index[h] # NoIndex
    BY <1>1 DEF IInv, TypeInv, PhaseInv
  <2>2. g \in RowGroups /\ index[g] # NoIndex /\ r \in RowsOf(g)
    BY <2>1, Parts DEF RowsOf
  <2>3. ASSUME NEW x \in Places(r)
        PROVE  /\ x \in [part : RowGroups, cluster : Clusters, position : 1 .. Cardinality(Slots)]
               /\ x.part = g /\ x.cluster \in Clusters
               /\ x.position \in DOMAIN index[g][x.cluster].indices
               /\ index[g][x.cluster].indices[x.position] = r /\ r \notin nulls
    <3>1. /\ x \in [part : RowGroups, cluster : Clusters, position : 1 .. Cardinality(Slots)]
          /\ index[x.part] # NoIndex
          /\ x.position \in DOMAIN index[x.part][x.cluster].indices
          /\ index[x.part][x.cluster].indices[x.position] = r
      BY DEF Places
    <3>2. x.part \in RowGroups /\ x.cluster \in Clusters
      BY <3>1
    <3>3. r \in RowsOf(x.part) \ nulls
      BY <1>1, <3>1, <3>2, IndexedRows
    <3> QED BY <3>1, <3>2, <3>3 DEF RowsOf
  <2>4. CASE r \in nulls
    BY <2>3, <2>4
  <2>5. CASE r \notin nulls
    <3>1. PICK c \in Clusters : \E p \in DOMAIN index[g][c].indices : index[g][c].indices[p] = r
      BY <1>1, <2>2, <2>5, IndexedRows
    <3>2. PICK p \in DOMAIN index[g][c].indices : index[g][c].indices[p] = r
      BY <3>1
    <3>3. p \in 1 .. Cardinality(Slots)
      <4>1. /\ DOMAIN index[g][c].indices = 1 .. Len(index[g][c].indices)
            /\ Len(index[g][c].indices) \in 0 .. Cardinality(Slots)
        BY <1>1, <2>2, IndexedRows
      <4>2. Cardinality(Slots) \in Nat
        BY <2>1, SlotsOfPart
      <4> QED BY <3>2, <4>1, <4>2
    <3> DEFINE y == [part |-> g, cluster |-> c, position |-> p]
    <3>4. y \in Places(r)
      BY <2>2, <3>2, <3>3 DEF Places
    <3>5. ASSUME NEW x \in Places(r) PROVE x = y
      <4>1. /\ x.cluster \in Clusters /\ x.position \in DOMAIN index[g][x.cluster].indices
            /\ index[g][x.cluster].indices[x.position] = index[g][c].indices[p]
        BY <2>3, <3>2
      <4>2. \A d, e \in Clusters :
               \A i \in DOMAIN index[g][d].indices, j \in DOMAIN index[g][e].indices :
                  index[g][d].indices[i] = index[g][e].indices[j] => d = e /\ i = j
        BY <1>1, <2>2, IndexedRows
      <4>3. x.cluster = c /\ x.position = p
        BY <3>2, <4>1, <4>2
      <4> QED BY <2>3, <4>3
    <3>6. Places(r) = {y}
      BY <3>4, <3>5
    <3> QED BY <2>5, <3>3, <3>6
  <2> QED BY <2>4, <2>5
<1>2. IInv => AddedComplete
  BY <1>1 DEF AddedComplete
<1> QED BY <1>2, Invariance, PTL

\* In a row group without NULLs each row id is stored with its own embedding, although the
\* embeddings of a chunk are read as if none had been filtered (AlignedWithoutNulls).
THEOREM AlignedWithoutNullsAlways == Spec => []AlignedWithoutNulls
<1>1. IInv => AlignedWithoutNulls
  BY DEF IInv, IndexInv, Completes, AlignedWithoutNulls, Aligned
<1> QED BY <1>1, Invariance, PTL

\* Finalize meets a row group without an index only where all of its embeddings are NULL
\* (CrashesOnlyOnNulls).
THEOREM CrashesOnlyOnNullsAlways == Spec => []CrashesOnlyOnNulls
<1>1. IInv => CrashesOnlyOnNulls
  BY DEF IInv, PhaseInv
<1> QED BY <1>1, Invariance, PTL

\* No thread sets up a row group that has an index, its own or another thread's (SetUpOnce).
THEOREM SetUpOnceAlways == Spec => SetUpOnce
<1> DEFINE Kept == \A g \in RowGroups : index[g] # NoIndex => index'[g] = index[g]
<1>1. ASSUME IInv, NEW g \in RowGroups, NEW ids, NEW data, index[g] = NoIndex,
             SetUpIndexForRowGroup(g, ids, data)
      PROVE  Kept
  <2>1. \A h \in RowGroups \ {g} : index'[h] = index[h]
    BY <1>1 DEF SetUpIndexForRowGroup, IInv, TypeInv
  <2> QED BY <1>1, <2>1
<1>2. ASSUME IInv, UNCHANGED indexes PROVE Kept
  BY <1>2 DEF indexes
<1>3. ASSUME IInv, NEW t \in Threads, SinkNewRowGroup(t) PROVE Kept
  <2>1. /\ ~global /\ HasRows(t) /\ NotNull(NextChunk(t)) # {} /\ BeginsRowGroup(t)
        /\ SetUpIndexForRowGroup(row_group_id[t], row_ids[t], embeddings[t])
    BY <1>3 DEF SinkNewRowGroup
  <2>2. row_group_id[t] \in RowGroups /\ index[row_group_id[t]] = NoIndex
    BY <1>3, <2>1, ReadyAtNewRowGroup
  <2> QED BY <1>1, <1>3, <2>1, <2>2
<1>4. ASSUME IInv, NEW t \in Threads, Combine(t) PROVE Kept
  <2>1. CASE ~global /\ row_ids[t] # <<>>
    <3>1. /\ phase = "sink" /\ ~HasRows(t) /\ nextRowGroup \notin TableRowGroups /\ ~combined[t]
          /\ SetUpIndexForRowGroup(row_group_id[t], row_ids[t], embeddings[t])
      BY <1>4, <2>1 DEF Combine
    <3>2. Buffered(t) = Range(row_ids[t])
      BY <3>1 DEF Buffered
    <3>3. row_group_id[t] \in RowGroups /\ index[row_group_id[t]] = NoIndex
      BY <1>4, <2>1, <3>1, <3>2, ReadyAtTheEnd
    <3> QED BY <1>1, <1>4, <3>1, <3>3
  <2>2. CASE ~(~global /\ row_ids[t] # <<>>)
    BY <1>2, <1>4, <2>2 DEF Combine
  <2> QED BY <2>1, <2>2
<1>5. ASSUME IInv, FinalizeGlobal PROVE Kept
  BY <1>5, FinalizeGlobalKeeps
<1>6. ASSUME IInv, Next PROVE Kept
  <2>1. ASSUME NEW t \in Threads,
               TakeRowGroup(t) \/ SkipChunk(t) \/ SinkChunk(t) \/ SinkGlobalChunk(t)
        PROVE  Kept
    BY <1>2, <1>6, <2>1 DEF TakeRowGroup, SkipChunk, SinkChunk, SinkGlobalChunk
  <2>2. CASE FinalizeWithoutIndex \/ Finalize \/ FinalizeGlobalWithoutEmbeddings
    BY <1>2, <1>6, <2>2 DEF FinalizeWithoutIndex, Finalize, FinalizeGlobalWithoutEmbeddings
  <2> HIDE DEF Kept
  <2> QED BY <1>3, <1>4, <1>5, <1>6, <2>1, <2>2 DEF Next
<1>7. IInv /\ [Next]_vars => [Kept]_vars
  BY <1>6
<1> QED BY <1>7, Invariance, PTL DEF Spec, SetUpOnce

-----------------------------------------------------------------------------
(* Counting the places of an index.                                         *)

\* The places in the clusters of an index that satisfy a condition on the cluster.
PlacesIn(g, clusters) == UNION {{d} \X DOMAIN index[g][d].indices : d \in clusters}

\* There are finitely many.
LEMMA PlacesInFinite ==
  ASSUME IInv, NEW g \in RowGroups, index[g] # NoIndex, NEW some \in SUBSET Clusters
  PROVE  IsFiniteSet(PlacesIn(g, some)) /\ Cardinality(PlacesIn(g, some)) \in Nat
<1>1. TableInv
  BY DEF IInv, TypeInv
<1>2. IsFiniteSet(Clusters) /\ Cardinality(Slots) \in Nat
  BY <1>1, ClustersType, SlotsOfPart
<1>3. IsFiniteSet(Clusters \X (1 .. Cardinality(Slots)))
  BY <1>2, FirstNumbers, FS_Product
<1>4. \A d \in Clusters : DOMAIN index[g][d].indices \subseteq 1 .. Cardinality(Slots)
  <2> TAKE d \in Clusters
  <2>1. /\ DOMAIN index[g][d].indices = 1 .. Len(index[g][d].indices)
        /\ Len(index[g][d].indices) \in 0 .. Cardinality(Slots)
    BY IndexedRows
  <2> QED BY <1>2, <2>1
<1>5. PlacesIn(g, some) \in SUBSET (Clusters \X (1 .. Cardinality(Slots)))
  BY <1>4 DEF PlacesIn
<1>6. IsFiniteSet(PlacesIn(g, some))
  BY <1>3, <1>5, FS_Subset
<1> QED BY <1>6, FS_CardinalityType

\* The selection vector of a cluster ends before that of a later cluster begins (cluster_offsets).
LEMMA OffsetsApart ==
  ASSUME IInv, NEW g \in RowGroups, index[g] # NoIndex, NEW c \in Clusters, NEW d \in Clusters
  PROVE  /\ Offset(g, c) \in Nat
         /\ c < d => Offset(g, c) + Len(index[g][c].indices) <= Offset(g, d)
<1> DEFINE Before(e) == {k \in Clusters : k < e}
           rows == index[g][c].indices
<1>1. \A e : Offset(g, e) = Cardinality(PlacesIn(g, Before(e)))
  BY DEF Offset, PlacesIn
<1>2. Before(c) \in SUBSET Clusters /\ Before(d) \in SUBSET Clusters /\ {c} \in SUBSET Clusters
  OBVIOUS
<1>3. Clusters \subseteq Nat
  BY ClustersType DEF IInv, TypeInv
<1>4. DOMAIN rows = 1 .. Len(rows) /\ Len(rows) \in Nat
  <2>1. DOMAIN rows = 1 .. Len(rows) /\ rows \in Seq(RowsOf(g) \ nulls)
    BY IndexedRows
  <2> QED BY <2>1, LenProperties
<1>5. PlacesIn(g, {c}) = {c} \X DOMAIN rows
  BY DEF PlacesIn
<1>6. Cardinality(PlacesIn(g, {c})) = Len(rows)
  <2>1. IsFiniteSet({c}) /\ Cardinality({c}) = 1
    BY FS_Singleton
  <2>2. IsFiniteSet(DOMAIN rows) /\ Cardinality(DOMAIN rows) = Len(rows)
    BY <1>4, FirstNumbers
  <2>3. Cardinality({c} \X DOMAIN rows) = 1 * Len(rows)
    BY <2>1, <2>2, FS_Product
  <2>4. 1 * Len(rows) = Len(rows)
    BY <1>4
  <2> QED BY <1>5, <2>3, <2>4
<1>7. /\ IsFiniteSet(PlacesIn(g, Before(c))) /\ Cardinality(PlacesIn(g, Before(c))) \in Nat
      /\ IsFiniteSet(PlacesIn(g, Before(d))) /\ Cardinality(PlacesIn(g, Before(d))) \in Nat
      /\ IsFiniteSet(PlacesIn(g, {c}))
  BY <1>2, PlacesInFinite
<1>8. ASSUME c < d PROVE Cardinality(PlacesIn(g, Before(c))) + Len(rows) <= Cardinality(PlacesIn(g, Before(d)))
  <2>1. Before(c) \subseteq Before(d) /\ c \in Before(d) /\ c \notin Before(c)
    <3>1. c \in Nat /\ d \in Nat
      BY <1>3
    <3>2. \A k \in Clusters : k < c => k < d
      BY <1>3, <1>8, <3>1
    <3>3. ~(c < c)
      BY <3>1
    <3>4. Before(c) \subseteq Before(d)
      BY <3>2
    <3> QED BY <1>8, <3>3, <3>4
  <2>2. PlacesIn(g, Before(c)) \cup PlacesIn(g, {c}) \in SUBSET PlacesIn(g, Before(d))
    BY <2>1 DEF PlacesIn
  <2>3. PlacesIn(g, Before(c)) \cap PlacesIn(g, {c}) = {}
    BY <2>1 DEF PlacesIn
  <2> HIDE DEF Before
  <2>4. Cardinality(PlacesIn(g, Before(c)) \cup PlacesIn(g, {c}))
           = Cardinality(PlacesIn(g, Before(c))) + Len(rows) - 0
    <3>1. Cardinality(PlacesIn(g, Before(c)) \cap PlacesIn(g, {c})) = 0
      BY <2>3, FS_EmptySet
    <3>2. Cardinality(PlacesIn(g, Before(c)) \cup PlacesIn(g, {c}))
             = Cardinality(PlacesIn(g, Before(c))) + Cardinality(PlacesIn(g, {c}))
               - Cardinality(PlacesIn(g, Before(c)) \cap PlacesIn(g, {c}))
      BY <1>7, FS_Union
    <3> QED BY <1>6, <3>1, <3>2
  <2>5. Cardinality(PlacesIn(g, Before(c)) \cup PlacesIn(g, {c})) <= Cardinality(PlacesIn(g, Before(d)))
    BY <1>7, <2>2, FS_Subset
  <2> QED BY <1>4, <1>7, <2>4, <2>5
<1> HIDE DEF Before
<1> QED BY <1>1, <1>7, <1>8

\* The metadata leads from rows that have an embedding to their own places in the selection
\* vector of their part, across clusters, and to no others.
LEMMA MarksIndexed ==
  ASSUME IInv, NEW g \in RowGroups, NEW passing \in SUBSET (RowsOf(g) \ nulls)
  PROVE  MarksExactly(g, passing)
<1> SUFFICES ASSUME index[g] # NoIndex, NEW c \in Clusters
             PROVE  LET rows == index[g][c].indices
                    IN  /\ \A p \in DOMAIN rows :
                            Offset(g, c) + p - 1 \in SelectionVector(g, passing) <=> rows[p] \in passing
                        /\ NumPassingTuples(g, passing)[c]
                               = Cardinality({p \in DOMAIN rows : rows[p] \in passing})
  BY DEF MarksExactly
<1> DEFINE rows(d) == index[g][d].indices
           meta(r) == row_id_metadata[g][SlotOf(r)]
<1>1. /\ \A d \in Clusters :
            /\ Len(rows(d)) \in 0 .. Cardinality(Slots) /\ DOMAIN rows(d) = 1 .. Len(rows(d))
            /\ \A p \in DOMAIN rows(d) :
                  /\ rows(d)[p] \in RowsOf(g) \ nulls
                  /\ meta(rows(d)[p]) = [cluster_id |-> d, index_in_cluster |-> p - 1]
      /\ \A d, e \in Clusters : \A p \in DOMAIN rows(d), q \in DOMAIN rows(e) :
            rows(d)[p] = rows(e)[q] => d = e /\ p = q
      /\ \A r \in RowsOf(g) \ nulls : \E d \in Clusters : \E p \in DOMAIN rows(d) : rows(d)[p] = r
  BY IndexedRows
<1>2. \A d, e \in Clusters : /\ Offset(g, d) \in Nat
                             /\ d < e => Offset(g, d) + Len(rows(d)) <= Offset(g, e)
  BY OffsetsApart
<1>3. Clusters \subseteq Nat /\ \A d \in Clusters : Len(rows(d)) \in Nat
  <2>1. TableInv
    BY DEF IInv, TypeInv
  <2>2. Clusters \subseteq Nat /\ Cardinality(Slots) \in Nat
    BY <2>1, ClustersType, SlotsOfPart
  <2> HIDE DEF rows
  <2> QED BY <1>1, <2>2
<1>4. SelectionVector(g, passing) =
         {Offset(g, meta(r).cluster_id) + meta(r).index_in_cluster : r \in passing}
  BY DEF SelectionVector
<1>5. NumPassingTuples(g, passing)[c] = Cardinality({r \in passing : meta(r).cluster_id = c})
  BY DEF NumPassingTuples
<1> HIDE DEF rows, meta
<1>6. ASSUME NEW d \in Clusters, NEW p \in DOMAIN rows(d)
      PROVE  /\ meta(rows(d)[p]).cluster_id = d /\ meta(rows(d)[p]).index_in_cluster = p - 1
             /\ p \in Nat /\ 1 <= p /\ p <= Len(rows(d))
             /\ Offset(g, d) + (p - 1) = Offset(g, d) + p - 1
  <2>1. meta(rows(d)[p]) = [cluster_id |-> d, index_in_cluster |-> p - 1]
    BY <1>1, <1>6
  <2>2. p \in Nat /\ 1 <= p /\ p <= Len(rows(d)) /\ Offset(g, d) \in Nat
    BY <1>1, <1>2, <1>3, <1>6
  <2> QED BY <2>1, <2>2
<1>7. ASSUME NEW p \in DOMAIN rows(c), rows(c)[p] \in passing
      PROVE  Offset(g, c) + p - 1 \in SelectionVector(g, passing)
  BY <1>4, <1>6, <1>7
<1>8. ASSUME NEW p \in DOMAIN rows(c), Offset(g, c) + p - 1 \in SelectionVector(g, passing)
      PROVE  rows(c)[p] \in passing
  <2>1. PICK r \in passing :
           Offset(g, c) + p - 1 = Offset(g, meta(r).cluster_id) + meta(r).index_in_cluster
    BY <1>4, <1>8
  <2>2. PICK d \in Clusters : \E q \in DOMAIN rows(d) : rows(d)[q] = r
    BY <1>1
  <2>3. PICK q \in DOMAIN rows(d) : rows(d)[q] = r
    BY <2>2
  <2>4. Offset(g, c) + p - 1 = Offset(g, d) + q - 1
    BY <1>6, <2>1, <2>3
  <2>5. /\ p \in Nat /\ 1 <= p /\ p <= Len(rows(c)) /\ q \in Nat /\ 1 <= q /\ q <= Len(rows(d))
        /\ Offset(g, c) \in Nat /\ Offset(g, d) \in Nat /\ c \in Nat /\ d \in Nat
        /\ Len(rows(c)) \in Nat /\ Len(rows(d)) \in Nat
    BY <1>2, <1>3, <1>6
  <2>6. ~(c < d) /\ ~(d < c)
    BY <1>2, <2>4, <2>5
  <2>7. c = d /\ p = q
    BY <2>4, <2>5, <2>6
  <2> QED BY <2>3, <2>7
<1>9. Cardinality({r \in passing : meta(r).cluster_id = c})
         = Cardinality({p \in DOMAIN rows(c) : rows(c)[p] \in passing})
  <2> DEFINE P == {p \in DOMAIN rows(c) : rows(c)[p] \in passing}
             R == {r \in passing : meta(r).cluster_id = c}
             f == [p \in P |-> rows(c)[p]]
  <2>1. f \in [P -> R]
    BY <1>6
  <2>2. \A p, q \in P : f[p] = f[q] => p = q
    BY <1>1
  <2>3. \A r \in R : \E p \in P : f[p] = r
    <3> TAKE r \in R
    <3>1. PICK d \in Clusters : \E q \in DOMAIN rows(d) : rows(d)[q] = r
      BY <1>1
    <3>2. PICK q \in DOMAIN rows(d) : rows(d)[q] = r
      BY <3>1
    <3>3. d = c
      BY <1>6, <3>2
    <3>4. q \in P /\ f[q] = r
      BY <3>2, <3>3
    <3> QED BY <3>4
  <2>4. IsFiniteSet(P)
    <3>1. P \in SUBSET (1 .. Len(rows(c))) /\ Len(rows(c)) \in Nat
      BY <1>1, <1>3
    <3> HIDE DEF P
    <3> QED BY <3>1, FirstNumbers, FS_Subset
  <2> HIDE DEF P, R, f
  <2>5. f \in Bijection(P, R)
    BY <2>1, <2>2, <2>3 DEF Bijection, Injection, Surjection, IsInjective
  <2>6. ExistsBijection(P, R)
    BY <2>5 DEF ExistsBijection
  <2>7. Cardinality(R) = Cardinality(P)
    BY <2>4, <2>6, FS_Bijection
  <2> QED BY <2>7 DEF P, R
<1> QED BY <1>5, <1>7, <1>8, <1>9 DEF rows

\* Filtered queries find the rows that pass through the metadata, whatever the clusters
\* and whichever rows were left out for their NULLs (EvaluatorFindsIndexedRows).
THEOREM EvaluatorFindsIndexedRowsAlways == Spec => []EvaluatorFindsIndexedRows
<1>1. IInv => EvaluatorFindsIndexedRows
  BY MarksIndexed DEF EvaluatorFindsIndexedRows
<1> QED BY <1>1, Invariance, PTL

\* A row group has as many rows as fit, if another follows, or all rows of the table.
LEMMA RowsInRowGroup ==
  ASSUME TableInv, ~global, NEW g \in RowGroups
  PROVE  /\ IsFiniteSet(RowsOf(g))
         /\ g + 1 \in RowGroups => Cardinality(RowsOf(g)) = RowGroupSize
         /\ RowGroups = {g} => Cardinality(RowsOf(g)) = numRows
<1> DEFINE S == RowGroupSize
           l == GetRowGroupId(numRows - 1)
           a == g * S
<1>1. numRows \in Nat \ {0} /\ S \in Nat \ {0} /\ g \in Nat
  BY Sizes, Parts
<1>2. l \in Nat /\ l * S <= numRows - 1 /\ RowGroups = 0 .. l
  <2>1. numRows - 1 \in Nat
    BY <1>1
  <2> QED BY <2>1, RowGroupOfRow, Parts
<1>3. RowsOf(g) = {r \in 0 .. numRows - 1 : GetRowGroupId(r) = g}
  BY DEF RowsOf, PartOf
<1>4. IsFiniteSet(0 .. numRows - 1) /\ Cardinality(0 .. numRows - 1) = numRows
  <2>1. 0 \in Int /\ numRows - 1 \in Int /\ ~(0 > numRows - 1)
    BY <1>1
  <2> QED BY <1>1, <2>1, FS_Interval
<1>5. IsFiniteSet(RowsOf(g))
  BY <1>3, <1>4, FS_Subset
<1>6. ASSUME g + 1 \in RowGroups PROVE Cardinality(RowsOf(g)) = RowGroupSize
  <2>1. a \in Nat /\ a + S <= numRows - 1
    <3> HIDE DEF l
    <3>1. g + 1 <= l
      BY <1>2, <1>6
    <3>2. (g + 1) * S <= l * S
      BY <1>1, <1>2, <3>1, TimesMonotone
    <3>3. (g + 1) * S = a + S /\ a \in Nat /\ l * S \in Nat
      BY <1>1, <1>2
    <3> HIDE DEF a
    <3> QED BY <1>1, <1>2, <3>2, <3>3
  <2>2. \A r \in 0 .. numRows - 1 : GetRowGroupId(r) = g <=> a <= r /\ r < a + S
    <3> TAKE r \in 0 .. numRows - 1
    <3>1. r \in Nat
      BY <1>1
    <3> QED BY <1>1, <3>1, RowGroupOfRow, RowGroupIs
  <2> HIDE DEF a
  <2>3. RowsOf(g) = a .. a + S - 1
    BY <1>1, <1>3, <2>1, <2>2
  <2>4. Cardinality(a .. a + S - 1) = (a + S - 1) - a + 1
    <3>1. a \in Int /\ a + S - 1 \in Int /\ ~(a > a + S - 1)
      BY <1>1, <2>1
    <3> QED BY <3>1, FS_Interval
  <2> QED BY <1>1, <2>1, <2>3, <2>4
<1>7. ASSUME RowGroups = {g} PROVE Cardinality(RowsOf(g)) = numRows
  <2>1. \A r \in 0 .. numRows - 1 : PartOf(r) = g
    BY <1>7, Parts
  <2>2. RowsOf(g) = 0 .. numRows - 1
    BY <2>1 DEF RowsOf
  <2> QED BY <1>4, <2>2
<1> QED BY <1>5, <1>6, <1>7

\* A row group without NULLs, that is full or the only one, has as many embeddings as clusters:
\* the assertion before K-means holds there (EnoughEmbeddingsToCluster).
THEOREM EnoughEmbeddingsToClusterAlways == Spec => []EnoughEmbeddingsToCluster
<1>1. ASSUME IInv, NEW g \in RowGroups, index[g] # NoIndex
      PROVE  \A c \in Clusters :
                /\ DOMAIN index[g][c].indices = 1 .. Len(index[g][c].indices)
                /\ \A p \in DOMAIN index[g][c].indices :
                      row_id_metadata[g][SlotOf(index[g][c].indices[p])]
                          = [cluster_id |-> c, index_in_cluster |-> p - 1]
  <2> TAKE c \in Clusters
  <2>1. DOMAIN index[g][c].indices = 1 .. Len(index[g][c].indices)
    BY <1>1, IndexedRows
  <2>2. Completes(g, index[g], row_id_metadata[g])
    BY <1>1 DEF IInv, IndexInv
  <2> QED BY <2>1, <2>2 DEF Completes
<1>2. ASSUME IInv, NEW g \in RowGroups, ~global, index[g] # NoIndex, RowsOf(g) \cap nulls = {},
             g + 1 \in RowGroups \/ RowGroups = {g}
      PROVE  Cardinality(UNION {{c} \X DOMAIN index[g][c].indices : c \in Clusters})
                >= Cardinality(Clusters)
  <2> DEFINE All == PlacesIn(g, Clusters)
             meta(r) == row_id_metadata[g][SlotOf(r)]
             f == [r \in RowsOf(g) |-> <<meta(r).cluster_id, meta(r).index_in_cluster + 1>>]
  <2>1. TableInv /\ numRows \in Nat /\ RowGroupSize \in Nat
    BY <1>2, Sizes DEF IInv, TypeInv
  <2>2. IsFiniteSet(All) /\ Cardinality(All) \in Nat
    BY <1>2, PlacesInFinite
  <2>3. /\ Cardinality(RowsOf(g)) = RowGroupSize \/ Cardinality(RowsOf(g)) = numRows
        /\ Cardinality(Clusters) <= RowGroupSize /\ Cardinality(Clusters) <= numRows
        /\ Cardinality(Clusters) \in Nat
    BY <1>2, <2>1, RowsInRowGroup, ClustersType
  <2>4. ASSUME NEW r \in RowsOf(g)
        PROVE  \E c \in Clusters : \E p \in DOMAIN index[g][c].indices :
                  f[r] = <<c, p>> /\ index[g][c].indices[p] = r
    <3>1. r \in RowsOf(g) \ nulls
      BY <1>2, <2>4
    <3>2. PICK c \in Clusters : \E p \in DOMAIN index[g][c].indices : index[g][c].indices[p] = r
      BY <1>2, <3>1, IndexedRows
    <3>3. PICK p \in DOMAIN index[g][c].indices : index[g][c].indices[p] = r
      BY <3>2
    <3>4. meta(r) = [cluster_id |-> c, index_in_cluster |-> p - 1] /\ p \in Nat
      <4>1. /\ DOMAIN index[g][c].indices = 1 .. Len(index[g][c].indices)
            /\ row_id_metadata[g][SlotOf(index[g][c].indices[p])]
                   = [cluster_id |-> c, index_in_cluster |-> p - 1]
        BY <1>2, <1>1, <3>3
      <4> QED BY <3>3, <4>1
    <3>5. f[r] = <<meta(r).cluster_id, meta(r).index_in_cluster + 1>>
      BY <2>4
    <3>6. meta(r).cluster_id = c /\ meta(r).index_in_cluster + 1 = p
      BY <3>4
    <3> QED BY <3>3, <3>5, <3>6
  <2> HIDE DEF f
  <2>5. f \in [RowsOf(g) -> All]
    <3>1. DOMAIN f = RowsOf(g) /\ f = [r \in RowsOf(g) |-> f[r]]
      BY DEF f
    <3>2. ASSUME NEW r \in RowsOf(g) PROVE f[r] \in All
      <4>1. PICK c \in Clusters : \E p \in DOMAIN index[g][c].indices : f[r] = <<c, p>>
        BY <2>4
      <4>2. f[r] \in {c} \X DOMAIN index[g][c].indices
        BY <4>1
      <4> QED BY <4>2 DEF PlacesIn
    <3> QED BY <3>1, <3>2
  <2>6. \A r, s \in RowsOf(g) : f[r] = f[s] => r = s
    BY <2>4
  <2>7. f \in Injection(RowsOf(g), All)
    BY <2>5, <2>6 DEF Injection, IsInjective
  <2>8. Cardinality(RowsOf(g)) <= Cardinality(All)
    BY <2>2, <2>7, FS_Injection
  <2> QED BY <2>1, <2>2, <2>3, <2>8 DEF PlacesIn
<1>3. IInv => EnoughEmbeddingsToCluster
  BY <1>2 DEF EnoughEmbeddingsToCluster
<1> QED BY <1>3, Invariance, PTL

\* No thread meets a chunk of a row group before the one that it has staged, as asserted when
\* a chunk is sunk (pdxearch_index_create.cpp:90).
RowGroupsInOrder ==
    \A t \in Threads :
        HasRows(t) /\ NotNull(NextChunk(t)) # {} => row_group_id[t] <= RowGroupOfChunk(t)

\* That assertion holds in every state, whichever row groups a thread is given, because the scan
\* hands them out in order.
THEOREM RowGroupsInOrderAlways == Spec => []RowGroupsInOrder
<1>1. ASSUME IInv, NEW t \in Threads, HasRows(t), NotNull(NextChunk(t)) # {}
      PROVE  row_group_id[t] <= RowGroupOfChunk(t)
  <2>1. row_group_id[t] <= ScanGroup(t) /\ TypeInv /\ ThreadInv(t)
    BY <1>1, Scanning
  <2>2. RowGroupOfChunk(t) = ScanGroup(t)
    BY <1>1, <2>1, ChunkIs
  <2> QED BY <2>1, <2>2
<1>2. IInv => RowGroupsInOrder
  BY <1>1 DEF RowGroupsInOrder
<1> QED BY <1>2, Invariance, PTL

=============================================================================
