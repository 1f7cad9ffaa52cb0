---------------------------- MODULE AnswerLemmas ----------------------------
(***************************************************************************)
(* What the proofs about the search operators share: a heap popped into a   *)
(* sequence, a sequence emitted in chunks, and the K nearest of a growing   *)
(* set of rows.                                                             *)
(***************************************************************************)
EXTENDS Naturals, Sequences, FiniteSets, FiniteSetTheorems, SequenceTheorems, TLAPS

\* A sequence as long as a set is large, without repetitions, has all of the set
\* (BuildResultSetFromHeap).
LEMMA SequenceOfSet ==
  ASSUME NEW S, IsFiniteSet(S), NEW s \in [1..Cardinality(S) -> S],
         \A i, j \in DOMAIN s : i < j => s[i] # s[j]
  PROVE  /\ s \in Seq(S) /\ Len(s) = Cardinality(S)
         /\ {s[i] : i \in DOMAIN s} = S
<1> DEFINE n == Cardinality(S)
<1>1. n \in Nat
  BY FS_CardinalityType
<1>2. s \in Seq(S) /\ Len(s) = n /\ DOMAIN s = 1..n
  BY <1>1
<1>3. s \in Injection(1..n, S)
  <2>1. ASSUME NEW i \in 1..n, NEW j \in 1..n, s[i] = s[j] PROVE i = j
    BY <1>1, <1>2, <2>1
  <2> QED BY <2>1 DEF Injection, IsInjective
<1>4. Cardinality(1..n) = n
  BY <1>1, FS_Interval
<1>5. s \in Surjection(1..n, S)
  BY <1>1, <1>3, <1>4, FS_Injection
<1>6. {s[i] : i \in DOMAIN s} = S
  BY <1>5, Zenon DEF Surjection
<1> QED BY <1>2, <1>6

\* The next n rows of a sequence continue what has been emitted of it.
LEMMA NextRows ==
  ASSUME NEW S, NEW s \in Seq(S), NEW i \in 0 .. Len(s), NEW n \in 0 .. Len(s) - i
  PROVE  SubSeq(s, 1, i) \o SubSeq(s, i + 1, i + n) = SubSeq(s, 1, i + n)
<1>1. Len(s) \in Nat
  BY LenProperties
<1>2. 1 \in 1 .. Len(s) + 1 /\ i \in 1 - 1 .. Len(s) /\ i + n \in i .. Len(s)
  BY <1>1
<1> QED BY <1>1, <1>2, ConcatAdjacentSubSeq

LEMMA EmittedRows ==
  ASSUME NEW S, NEW s \in Seq(S), NEW i \in 0 .. Len(s)
  PROVE  /\ SubSeq(s, 1, i) \in Seq(S) /\ Len(SubSeq(s, 1, i)) = i
         /\ i = Len(s) => SubSeq(s, 1, i) = s
<1>1. \A j \in 1 .. i : s[j] \in S
  BY ElementOfSeq, LenProperties
<1>2. SubSeq(s, 1, i) \in Seq(S) /\ Len(SubSeq(s, 1, i)) = i
  BY <1>1, SubSeqProperties, LenProperties
<1> QED BY <1>2, SubSeqFull

\* What a subset with K rows, or with all rows where there are not so many, has for cardinality.
LEMMA LeastOfCardinality ==
  ASSUME NEW S, IsFiniteSet(S), NEW T \in SUBSET S, NEW k \in Nat,
         T = S \/ Cardinality(T) = k, Cardinality(T) <= k
  PROVE  Cardinality(T) = IF k <= Cardinality(S) THEN k ELSE Cardinality(S)
  BY FS_Subset, FS_CardinalityType

\* No row of `of` that is not kept is nearer than one that is, but by its tolerance.
IsNearest(dist, tolerance, kept, of) ==
    \A b \in kept, s \in of \ kept : dist[b] <= dist[s] + tolerance[s]

\* A merge into a heap of at most k rows, before which a pruner has discarded all but the
\* survivors of the next cluster, and none while the heap was not full.
IsMerge(all, k, dist, seen, heap, next, survivors, merged) ==
    /\ IsFiniteSet(all) /\ k \in Nat /\ dist \in [all -> Nat]
    /\ seen \in SUBSET all /\ next \in SUBSET all
    /\ heap \in SUBSET seen /\ survivors \in SUBSET next
    /\ heap = seen \/ Cardinality(heap) = k
    /\ Cardinality(heap) <= k
    /\ Cardinality(heap) < k => survivors = next
    /\ merged \in SUBSET (heap \cup survivors)
    /\ merged = heap \cup survivors \/ Cardinality(merged) = k
    /\ Cardinality(merged) <= k
    /\ \A b \in merged, s \in (heap \cup survivors) \ merged : dist[b] <= dist[s]

LEMMA MergeTypes ==
  ASSUME NEW all, NEW k, NEW dist, NEW seen, NEW heap, NEW next, NEW survivors, NEW merged,
         IsMerge(all, k, dist, seen, heap, next, survivors, merged)
  PROVE  /\ IsFiniteSet(merged) /\ Cardinality(merged) \in Nat /\ Cardinality(heap) \in Nat
         /\ heap \subseteq merged => Cardinality(heap) <= Cardinality(merged)
         /\ heap \subseteq merged /\ Cardinality(heap) = Cardinality(merged) => heap = merged
<1>1. IsFiniteSet(all) /\ heap \in SUBSET all /\ merged \in SUBSET all
  BY DEF IsMerge
<1>2. IsFiniteSet(merged) /\ IsFiniteSet(heap)
  BY <1>1, FS_Subset
<1>3. Cardinality(merged) \in Nat /\ Cardinality(heap) \in Nat
  BY <1>2, FS_CardinalityType
<1>4. ASSUME heap \subseteq merged
      PROVE  /\ Cardinality(heap) <= Cardinality(merged)
             /\ (Cardinality(heap) = Cardinality(merged) => heap = merged)
  BY <1>2, <1>4, FS_Subset
<1> QED BY <1>2, <1>3, <1>4, Zenon

\* The heap goes on holding k rows, or all that it was offered (MergeIntoHeap), ...
LEMMA MergeFills ==
  ASSUME NEW all, NEW k, NEW dist, NEW seen, NEW heap, NEW next, NEW survivors, NEW merged,
         IsMerge(all, k, dist, seen, heap, next, survivors, merged)
  PROVE  /\ merged \in SUBSET (seen \cup next) /\ Cardinality(merged) <= k
         /\ merged = seen \cup next \/ Cardinality(merged) = k
<1>1. /\ IsFiniteSet(merged) /\ Cardinality(merged) \in Nat /\ Cardinality(heap) \in Nat
      /\ heap \subseteq merged => Cardinality(heap) <= Cardinality(merged)
  BY MergeTypes
<1>2. ASSUME Cardinality(merged) # k PROVE merged = seen \cup next
  BY <1>1, <1>2 DEF IsMerge
<1> QED BY <1>2 DEF IsMerge

\* ... and if what the pruner discards is no nearer than the heap, but by its tolerance, neither
\* is anything that the heap has been without before.
LEMMA MergeKeepsNearest ==
  ASSUME NEW all, NEW k, NEW dist, NEW seen, NEW heap, NEW next, NEW survivors, NEW merged,
         NEW tolerance \in [all -> Nat],
         IsMerge(all, k, dist, seen, heap, next, survivors, merged),
         IsNearest(dist, tolerance, heap, seen),
         \A s \in next \ survivors, b \in heap : dist[b] <= dist[s] + tolerance[s]
  PROVE  IsNearest(dist, tolerance, merged, seen \cup next)
<1> SUFFICES ASSUME NEW b \in merged, NEW s \in (seen \cup next) \ merged
             PROVE  dist[b] <= dist[s] + tolerance[s]
  BY DEF IsNearest
<1>1. /\ \A r \in all : dist[r] \in Nat /\ tolerance[r] \in Nat
      /\ s \in all /\ b \in all /\ heap \in SUBSET all /\ k \in Nat
  BY DEF IsMerge
<1>2. CASE s \in heap \cup survivors
  BY <1>1, <1>2 DEF IsMerge
<1>3. CASE s \notin heap \cup survivors
  <2>1. \A x \in heap : dist[x] <= dist[s] + tolerance[s]
    BY <1>3 DEF IsNearest
  <2>2. Cardinality(heap) = k
    <3>1. Cardinality(heap) \in Nat
      BY MergeTypes, Zenon
    <3> QED BY <1>1, <1>3, <3>1 DEF IsMerge
  <2>3. CASE b \notin heap
    <3>1. PICK x \in heap : x \notin merged
      <4>1. SUFFICES ASSUME heap \subseteq merged PROVE FALSE
        OBVIOUS
      <4>2. /\ Cardinality(merged) \in Nat /\ Cardinality(heap) <= Cardinality(merged)
            /\ (Cardinality(heap) = Cardinality(merged) => heap = merged)
        BY <4>1, MergeTypes
      <4> QED BY <1>1, <2>2, <2>3, <4>2 DEF IsMerge
    <3>2. dist[b] <= dist[x]
      BY <3>1 DEF IsMerge
    <3> QED BY <1>1, <2>1, <3>1, <3>2
  <2> QED BY <2>1, <2>3
<1> QED BY <1>2, <1>3

=============================================================================
