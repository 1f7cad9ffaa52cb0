--------------------------- MODULE PDXearch_proofs ---------------------------
(***************************************************************************)
(* Proofs about the search kernel, for any rows, row groups, clusters,      *)
(* distances and pruner ratios that satisfy the assumptions of PDXearch.    *)
(***************************************************************************)
EXTENDS PDXearch, FiniteSetTheorems, TLAPS

-----------------------------------------------------------------------------
(* Constants.                                                               *)

LEMMA NumClustersType == NumClusters \in Nat
  BY FS_CardinalityType, DataAssumption DEF NumClusters

LEMMA NoProductGrows ==
  ASSUME NEW a \in Nat, NEW b \in Nat, NEW c \in Nat, a >= b
  PROVE  c * a >= c * b
  OBVIOUS

LEMMA PartialDistType ==
  ASSUME NEW r \in Rows, NEW v \in 0..NumVertical, NEW h \in 0..NumHorizontal
  PROVE  PartialDist(r, v, h) \in Nat
<1>1. VerticalDist[r] \in [0..NumVertical -> Nat]
  BY DistanceAssumption, Zenon
<1>2. HorizontalDist[r] \in [0..NumHorizontal -> Nat]
  BY DistanceAssumption, Zenon
<1>3. VerticalDist[r][v] \in Nat /\ HorizontalDist[r][h] \in Nat
  BY <1>1, <1>2, Zenon
<1>4. QED
  BY <1>3 DEF PartialDist

LEMMA Quotient ==
  ASSUME NEW a \in Nat, NEW b \in Nat \ {0}
  PROVE  /\ a \div b \in Nat /\ (a \div b) * b <= a
         /\ a < (a \div b) * b + b
  OBVIOUS

\* A threshold at all dimensions, where the ratio is one, in units of u.
LEMMA CancelRatio ==
  ASSUME NEW c \in Nat \ {0}, NEW d \in Nat, NEW u \in Nat \ {0}
  PROVE  /\ (c * d) \div (c * u) \in Nat
         /\ \A p \in Nat : p < (c * d) \div (c * u) => (p + 1) * u <= d
         /\ \A p \in Nat : p >= (c * d) \div (c * u) => d <= p * u + (u - 1)
<1> DEFINE q == (c * d) \div (c * u)
<1>1. c * d \in Nat /\ c * u \in Nat \ {0}
  OBVIOUS
<1>2. q \in Nat /\ q * (c * u) <= c * d /\ c * d < q * (c * u) + c * u
  BY <1>1, Quotient
<1> HIDE DEF q
<1>3. q * u \in Nat /\ q * (c * u) = c * (q * u) /\ q * (c * u) + c * u = c * (q * u + u)
  BY <1>2
<1>4. q * u <= d
  <2>1. SUFFICES ASSUME d < q * u PROVE FALSE
    BY <1>3
  <2>2. c * (q * u) >= c * (d + 1)
    BY <1>3, <2>1, NoProductGrows
  <2>3. c * (d + 1) = c * d + c
    OBVIOUS
  <2>4. QED
    BY <1>1, <1>2, <1>3, <2>2, <2>3
<1>5. d < q * u + u
  <2>1. SUFFICES ASSUME d >= q * u + u PROVE FALSE
    BY <1>3
  <2>2. c * d >= c * (q * u + u)
    BY <1>3, <2>1, NoProductGrows
  <2>3. QED
    BY <1>1, <1>2, <1>3, <2>2
<1>6. ASSUME NEW p \in Nat, p < q PROVE (p + 1) * u <= d
  <2>1. u * q >= u * (p + 1)
    BY <1>2, <1>6, NoProductGrows
  <2>2. QED
    BY <1>2, <1>3, <1>4, <2>1
<1>7. ASSUME NEW p \in Nat, p >= q PROVE d <= p * u + (u - 1)
  <2>1. u * p >= u * q /\ u * p = p * u /\ u * q = q * u
    BY <1>2, <1>7, NoProductGrows
  <2>2. p * u \in Nat
    OBVIOUS
  <2>3. QED
    BY <1>3, <1>5, <2>1, <2>2
<1>8. QED
  BY <1>2, <1>6, <1>7 DEF q

LEMMA ToleranceType == ASSUME NEW r \in Rows PROVE Tolerance[r] \in Nat
<1>1. Unit[RowGroupOf[r]] \in Nat \ {0}
  BY DataAssumption, DistanceAssumption
<1>2. QED
  BY <1>1 DEF Tolerance

LEMMA DistBelowMax ==
  ASSUME NEW r \in Rows
  PROVE  Dist[r] \in Nat /\ Dist[r] < MaxDist
<1>1. /\ NumVertical \in 0..NumVertical /\ NumHorizontal \in 0..NumHorizontal
      /\ NumVertical + NumHorizontal = NumDimensions
  BY ParameterAssumption DEF NumDimensions
<1> DEFINE g == RowGroupOf[r]
           p == PartialDist(r, NumVertical, NumHorizontal)
<1>2. p \in Nat /\ g \in RowGroups /\ Unit[g] \in Nat \ {0}
  BY <1>1, PartialDistType, DataAssumption, DistanceAssumption
<1>3. RatioUnit \in Nat \ {0} /\ MaxDist \in Nat /\ MaxPartialDist \in Nat
  BY DistanceAssumption
<1>4. ~ReachesThreshold(g, p, MaxDist, NumDimensions)
  BY <1>1, DistanceAssumption
<1>5. Dist[r] = p * Unit[g]
  BY DEF Dist
<1>6. Ratio[NumDimensions] = RatioUnit
  BY DistanceAssumption
<1> HIDE DEF p, g
<1>7. CASE Quantization = "F32"
  <2>1. Unit[g] = 1
    BY <1>2, <1>7, DistanceAssumption
  <2>2. ~(RatioUnit * p >= RatioUnit * MaxDist)
    BY <1>4, <1>6, <1>7 DEF ReachesThreshold
  <2>3. p < MaxDist
    BY <1>2, <1>3, <2>2, NoProductGrows
  <2>4. QED
    BY <1>2, <1>5, <2>1, <2>3
<1>8. CASE Quantization # "F32"
  <2>1. p < (RatioUnit * MaxDist) \div (RatioUnit * Unit[g])
    <3> DEFINE t == (RatioUnit * MaxDist) \div (RatioUnit * Unit[g])
    <3>1. ~(p >= Least(MaxPartialDist, t))
      BY <1>4, <1>6, <1>8 DEF ReachesThreshold, QuantizedThreshold
    <3>2. t \in Int
      BY <1>2, <1>3, CancelRatio
    <3> HIDE DEF t
    <3>3. p < t
      BY <1>2, <1>3, <3>1, <3>2 DEF Least
    <3>4. QED
      BY <3>3 DEF t
  <2>2. (p + 1) * Unit[g] <= MaxDist
    BY <1>2, <1>3, <2>1, CancelRatio
  <2>3. p * Unit[g] \in Nat /\ (p + 1) * Unit[g] = p * Unit[g] + Unit[g]
    BY <1>2
  <2>4. QED
    BY <1>2, <1>3, <1>5, <2>2, <2>3
<1>9. QED
  BY <1>7, <1>8

LEMMA BlocksFit ==
  ASSUME NEW h \in Nat, NEW n \in Nat, h = n * HDimSize, h < NumHorizontal
  PROVE  h + HDimSize <= NumHorizontal /\ h + HDimSize = (n + 1) * HDimSize
<1>1. PICK m \in 0..NumHorizontal : NumHorizontal = m * HDimSize
  BY ParameterAssumption
<1>2. HDimSize \in Nat /\ m \in Nat /\ NumHorizontal \in Nat
  BY ParameterAssumption
<1>3. n < m
  <2>1. SUFFICES ASSUME n >= m PROVE FALSE
    BY <1>2
  <2>2. HDimSize * n >= HDimSize * m
    BY <2>1, <1>2, NoProductGrows
  <2>3. QED
    BY <2>2, <1>1, <1>2
<1>4. HDimSize * m >= HDimSize * (n + 1)
  BY <1>2, <1>3, NoProductGrows
<1>5. QED
  BY <1>1, <1>2, <1>4

-----------------------------------------------------------------------------
(* Types, and where a searcher stands in its cluster.                       *)

\* A searcher inside a cluster is at a cluster of the loop and holds back passing rows of it
\* only; before Prune starts it still holds all of them; its dimension counters agree.
Scanning(g) ==
    /\ InCluster(g) =>
          /\ offset[g] < NumClusters
          /\ positions[g] \subseteq Passing(g)
          /\ \E n \in Nat : horizontal[g] = n * HDimSize
          /\ dimension[g] = vertical[g] + horizontal[g]
    /\ pc[g] \in {"warmup", "init"} => positions[g] = Passing(g) /\ horizontal[g] = 0
    /\ pc[g] \in {"lock", "merge"} =>
          vertical[g] = NumVertical /\ horizontal[g] = NumHorizontal
    /\ ~InCluster(g) => positions[g] = {}

\* A row group that has no part in the query stays idle.
Outsiders == \A g \in RowGroups \ Participants : pc[g] = "idle"

ScanInv == TypeOK /\ Outsiders /\ \A g \in RowGroups : Scanning(g)

LEMMA ScanInvInit == Init => ScanInv
<1> SUFFICES ASSUME Init PROVE ScanInv
  OBVIOUS
<1>1. NumVertical \in Nat /\ NumHorizontal \in Nat /\ NumDimensions \in Nat
  BY ParameterAssumption DEF NumDimensions
<1>2. PICK o \in AccessOrders : order = [g \in RowGroups |-> o]
  BY DEF Init
<1>3. order \in [RowGroups -> AccessOrders]
  BY <1>2
<1>4. filtered \in BOOLEAN /\ selected \in SUBSET Rows
  BY DataAssumption DEF Init
<1>5. TypeOK
  BY <1>1, <1>3, <1>4, NumClustersType DEF Init, TypeOK, PCs
<1>6. \A g \in RowGroups : ~InCluster(g) /\ positions[g] = {}
  BY DEF Init, InCluster
<1>7. QED
  BY <1>5, <1>6 DEF Init, ScanInv, Scanning, InCluster, Outsiders

\* A step of one searcher says nothing about the others.
LEMMA OthersKeepScanning ==
  ASSUME NEW h \in RowGroups, Scanning(h), UNCHANGED query,
         pc'[h] = pc[h], order'[h] = order[h], offset'[h] = offset[h],
         vertical'[h] = vertical[h], horizontal'[h] = horizontal[h],
         dimension'[h] = dimension[h], positions'[h] = positions[h]
  PROVE  Scanning(h)'
  BY DEF Scanning, InCluster, Passing, CurrentCluster, query

\* A step of searcher g changes the entries of g only.
LEMMA StepIsLocal ==
  ASSUME ScanInv, NEW g \in RowGroups, Step(g), NEW h \in RowGroups \ {g}
  PROVE  /\ UNCHANGED query
         /\ pc'[h] = pc[h] /\ order'[h] = order[h] /\ offset'[h] = offset[h]
         /\ vertical'[h] = vertical[h] /\ horizontal'[h] = horizontal[h]
         /\ dimension'[h] = dimension[h] /\ positions'[h] = positions[h]
<1> USE DEF ScanInv, TypeOK, query, access, scan, NextCluster, Proceed
<1>1. CASE InitializeSearch(g) BY <1>1 DEF InitializeSearch
<1>2. CASE LeaveLoop(g) BY <1>2 DEF LeaveLoop
<1>3. CASE SkipCluster(g) BY <1>3 DEF SkipCluster
<1>4. CASE EnterCluster(g) BY <1>4 DEF EnterCluster
<1>5. CASE Warmup(g) BY <1>5 DEF Warmup
<1>6. CASE InitPositionsArray(g) BY <1>6 DEF InitPositionsArray
<1>7. CASE PruneHorizontal(g) BY <1>7 DEF PruneHorizontal
<1>8. CASE PruneVertical(g) BY <1>8 DEF PruneVertical
<1>9. CASE LockHeap(g) BY <1>9 DEF LockHeap
<1>10. CASE MergeIntoHeap(g) BY <1>10 DEF MergeIntoHeap
<1>11. QED
  BY <1>1, <1>2, <1>3, <1>4, <1>5, <1>6, <1>7, <1>8, <1>9, <1>10 DEF Step

LEMMA InitializeSearchScan ==
  ASSUME ScanInv, NEW g \in RowGroups, InitializeSearch(g)
  PROVE  TypeOK' /\ Scanning(g)'
<1>1. NProbe \in Nat /\ NumClusters \in Nat /\ Least(NProbe, NumClusters) \in 0..NumClusters
  BY NumClustersType, ParameterAssumption DEF Least
<1>2. TypeOK'
  BY <1>1 DEF InitializeSearch, ScanInv, TypeOK, query, scan, PCs
<1>3. Scanning(g)'
  BY DEF InitializeSearch, ScanInv, TypeOK, Scanning, InCluster, scan
<1>4. QED
  BY <1>2, <1>3

LEMMA LoopScan ==
  ASSUME ScanInv, NEW g \in RowGroups, LeaveLoop(g) \/ SkipCluster(g)
  PROVE  TypeOK' /\ Scanning(g)'
<1> USE NumClustersType DEF ScanInv, TypeOK, Scanning, InCluster, query, access, scan
<1>1. CASE LeaveLoop(g)
  BY <1>1 DEF LeaveLoop, PCs
<1>2. CASE SkipCluster(g)
  BY <1>2 DEF SkipCluster, NextCluster, PCs
<1>3. QED
  BY <1>1, <1>2

LEMMA EnterClusterScan ==
  ASSUME ScanInv, NEW g \in RowGroups, EnterCluster(g)
  PROVE  TypeOK' /\ Scanning(g)'
<1>1. /\ NumClusters \in Nat /\ NumVertical \in Nat /\ NumHorizontal \in Nat
      /\ NumDimensions \in Nat /\ HDimSize \in Nat
  BY NumClustersType, ParameterAssumption DEF NumDimensions
<1>2. Passing(g) \in SUBSET Rows /\ Passing(g)' = Passing(g)
  BY DEF Passing, RowsOf, CurrentCluster, EnterCluster, query, access
<1>3. /\ pc' = [pc EXCEPT ![g] = "init"] \/ pc' = [pc EXCEPT ![g] = "warmup"]
      /\ offset[g] < endIdx[g] /\ UNCHANGED <<heap, mutex, query, access>>
      /\ vertical' = [vertical EXCEPT ![g] = 0]
      /\ horizontal' = [horizontal EXCEPT ![g] = 0]
      /\ dimension' = [dimension EXCEPT ![g] = 0]
      /\ positions' = [positions EXCEPT ![g] = Passing(g)]
  BY DEF EnterCluster
<1>4. TypeOK'
  BY <1>1, <1>2, <1>3 DEF ScanInv, TypeOK, query, access, PCs
<1>5. /\ offset'[g] < NumClusters /\ positions'[g] = Passing(g)'
      /\ horizontal'[g] = 0 /\ vertical'[g] = 0 /\ dimension'[g] = 0
      /\ pc'[g] \in {"init", "warmup"}
  BY <1>1, <1>2, <1>3 DEF ScanInv, TypeOK, query, access
<1>6. 0 = 0 * HDimSize
  BY <1>1
<1>7. Scanning(g)'
  BY <1>1, <1>5, <1>6 DEF Scanning, InCluster
<1>8. QED
  BY <1>4, <1>7

LEMMA WarmupScan ==
  ASSUME ScanInv, NEW g \in RowGroups, Warmup(g)
  PROVE  TypeOK' /\ Scanning(g)'
<1>1. /\ NumClusters \in Nat /\ NumVertical \in Nat /\ NumHorizontal \in Nat
      /\ NumDimensions = NumVertical + NumHorizontal
  BY NumClustersType, ParameterAssumption DEF NumDimensions
<1>2. PICK v \in 1..NumVertical :
         /\ vertical' = [vertical EXCEPT ![g] = v]
         /\ dimension' = [dimension EXCEPT ![g] = v]
         /\ pc' = [pc EXCEPT ![g] = "init"] \/ pc' = [pc EXCEPT ![g] = "warmup"]
  BY DEF Warmup
<1>3. pc[g] = "warmup" /\ UNCHANGED <<heap, mutex, query, access, horizontal, positions>>
  BY DEF Warmup
<1>4. TypeOK'
  BY <1>1, <1>2, <1>3 DEF ScanInv, TypeOK, query, access, PCs
<1>5. Passing(g)' = Passing(g)
  BY <1>3 DEF Passing, RowsOf, CurrentCluster, query, access
<1>6. /\ pc'[g] \in {"init", "warmup"} /\ vertical'[g] = v /\ dimension'[g] = v
      /\ positions'[g] = positions[g] /\ horizontal'[g] = horizontal[g]
      /\ offset'[g] = offset[g]
  BY <1>2, <1>3 DEF ScanInv, TypeOK, access
<1>7. Scanning(g)'
  BY <1>1, <1>3, <1>5, <1>6 DEF ScanInv, Scanning, InCluster
<1>8. QED
  BY <1>4, <1>7

\* The three actions of Prune move to scan position v, h and proceed with what is left there.
LEMMA ProceedScan ==
  ASSUME ScanInv, NEW g \in RowGroups, InCluster(g),
         NEW left \in SUBSET positions[g],
         NEW v \in 0..NumVertical, NEW h \in 0..NumHorizontal, Proceed(g, left, v, h),
         vertical' = [vertical EXCEPT ![g] = v],
         horizontal' = [horizontal EXCEPT ![g] = h],
         dimension' = [dimension EXCEPT ![g] = v + h],
         NEW n \in Nat, h = n * HDimSize,
         UNCHANGED <<heap, mutex, query>>
  PROVE  TypeOK' /\ Scanning(g)'
<1>1. /\ NumClusters \in Nat /\ NumVertical \in Nat /\ NumHorizontal \in Nat
      /\ NumDimensions = NumVertical + NumHorizontal
  BY NumClustersType, ParameterAssumption DEF NumDimensions
<1>2. /\ positions' = [positions EXCEPT ![g] = left]
      /\ order' = order /\ endIdx' = endIdx
  BY DEF Proceed, NextCluster, access
<1>3. positions[g] \subseteq Rows /\ offset[g] < NumClusters /\ positions[g] \subseteq Passing(g)
  BY DEF ScanInv, TypeOK, Scanning
<1>4. /\ positions'[g] = left /\ vertical'[g] = v /\ horizontal'[g] = h
      /\ dimension'[g] = v + h
  BY <1>2 DEF ScanInv, TypeOK
<1>5. /\ vertical' \in [RowGroups -> 0..NumVertical]
      /\ horizontal' \in [RowGroups -> 0..NumHorizontal]
      /\ dimension' \in [RowGroups -> 0..NumDimensions]
      /\ positions' \in [RowGroups -> SUBSET Rows]
  BY <1>1, <1>2, <1>3 DEF ScanInv, TypeOK
<1>6. CASE /\ left = {}
           /\ pc' = [pc EXCEPT ![g] = "loop"]
           /\ offset' = [offset EXCEPT ![g] = @ + 1]
  <2>1. pc' \in [RowGroups -> PCs] /\ offset' \in [RowGroups -> 0..NumClusters]
    BY <1>1, <1>3, <1>6 DEF ScanInv, TypeOK, PCs
  <2>2. TypeOK'
    BY <2>1, <1>2, <1>5 DEF ScanInv, TypeOK, query
  <2>3. pc'[g] = "loop" /\ positions'[g] = {}
    BY <1>4, <1>6 DEF ScanInv, TypeOK
  <2>4. QED
    BY <2>2, <2>3 DEF Scanning, InCluster
<1>7. CASE /\ offset' = offset
           /\ \/ pc' = [pc EXCEPT ![g] = "prune"]
              \/ /\ pc' = [pc EXCEPT ![g] = "lock"]
                 /\ v = NumVertical /\ h = NumHorizontal
  <2>1. pc' \in [RowGroups -> PCs]
    BY <1>7 DEF ScanInv, TypeOK, PCs
  <2>2. TypeOK'
    BY <2>1, <1>2, <1>5, <1>7 DEF ScanInv, TypeOK, query
  <2>3. Passing(g)' = Passing(g)
    BY <1>2, <1>7 DEF Passing, RowsOf, CurrentCluster, query
  <2>4. pc'[g] = "prune" \/ (pc'[g] = "lock" /\ v = NumVertical /\ h = NumHorizontal)
    BY <1>7 DEF ScanInv, TypeOK
  <2>5. Scanning(g)'
    BY <2>3, <2>4, <1>3, <1>4, <1>7 DEF Scanning, InCluster
  <2>6. QED
    BY <2>2, <2>5
<1>8. CASE left = {}
  BY <1>6, <1>8 DEF Proceed, NextCluster
<1>9. CASE left # {} /\ (h < NumHorizontal \/ v < NumVertical)
  BY <1>7, <1>9 DEF Proceed, access
<1>10. CASE left # {} /\ ~(h < NumHorizontal \/ v < NumVertical)
  BY <1>1, <1>7, <1>10 DEF Proceed, access
<1>11. QED
  BY <1>8, <1>9, <1>10

\* What the pruner may discard: at some point of the scan the row reached the threshold.
Discardable(r) ==
    \E v \in 0..NumVertical, h \in 0..NumHorizontal :
        Prunable(RowGroupOf[r], PartialDist(r, v, h), v + h)

\* Each action of Prune is such a step, and what it drops is discardable.
PruneStep(g) ==
    \E v \in 0..NumVertical, h \in 0..NumHorizontal, n \in Nat :
        /\ Proceed(g, NotPruned(g, positions[g], v, h, v + h), v, h)
        /\ vertical' = [vertical EXCEPT ![g] = v]
        /\ horizontal' = [horizontal EXCEPT ![g] = h]
        /\ dimension' = [dimension EXCEPT ![g] = v + h]
        /\ h = n * HDimSize
        /\ UNCHANGED <<heap, mutex, query>>

LEMMA PruneIsPruneStep ==
  ASSUME ScanInv, NEW g \in RowGroups,
         InitPositionsArray(g) \/ PruneHorizontal(g) \/ PruneVertical(g)
  PROVE  InCluster(g) /\ PruneStep(g)
<1>1. /\ NumVertical \in Nat /\ NumHorizontal \in Nat /\ HDimSize \in Nat \ {0}
      /\ NumDimensions = NumVertical + NumHorizontal
  BY ParameterAssumption DEF NumDimensions
<1>2. /\ vertical[g] \in 0..NumVertical /\ horizontal[g] \in 0..NumHorizontal
      /\ dimension[g] \in 0..NumDimensions
      /\ vertical = [vertical EXCEPT ![g] = vertical[g]]
      /\ horizontal = [horizontal EXCEPT ![g] = horizontal[g]]
      /\ dimension = [dimension EXCEPT ![g] = dimension[g]]
  BY DEF ScanInv, TypeOK
<1>3. CASE InitPositionsArray(g)
  <2>1. pc[g] = "init" /\ InCluster(g)
    BY <1>3 DEF InitPositionsArray, InCluster
  <2>2. /\ positions[g] = Passing(g) /\ horizontal[g] = 0
        /\ dimension[g] = vertical[g] + 0
    BY <2>1, <1>2 DEF ScanInv, Scanning
  <2>3. /\ Proceed(g, NotPruned(g, positions[g], vertical[g], 0, vertical[g] + 0), vertical[g], 0)
        /\ UNCHANGED <<heap, mutex, query, vertical, horizontal, dimension>>
    BY <2>2, <1>3 DEF InitPositionsArray
  <2>4. 0 = 0 * HDimSize /\ 0 \in Nat /\ 0 \in 0..NumHorizontal
    BY <1>1
  <2>5. /\ vertical' = [vertical EXCEPT ![g] = vertical[g]]
        /\ horizontal' = [horizontal EXCEPT ![g] = 0]
        /\ dimension' = [dimension EXCEPT ![g] = vertical[g] + 0]
    BY <2>2, <2>3, <1>2
  <2>6. PruneStep(g)
    BY <2>3, <2>4, <2>5, <1>2 DEF PruneStep
  <2>7. QED
    BY <2>1, <2>6
<1>4. CASE PruneHorizontal(g)
  <2> DEFINE h == horizontal[g] + HDimSize
  <2>1. pc[g] = "prune" /\ InCluster(g)
    BY <1>4 DEF PruneHorizontal, InCluster
  <2>2. PICK n \in Nat : horizontal[g] = n * HDimSize
    BY <2>1 DEF ScanInv, Scanning
  <2>3. h \in 0..NumHorizontal /\ h = (n + 1) * HDimSize /\ n + 1 \in Nat
    BY <2>2, <1>1, <1>2, <1>4, BlocksFit DEF PruneHorizontal
  <2>4. dimension[g] + HDimSize = vertical[g] + h
    BY <2>1, <1>1, <1>2 DEF ScanInv, Scanning
  <2>5. /\ horizontal' = [horizontal EXCEPT ![g] = h]
        /\ dimension' = [dimension EXCEPT ![g] = vertical[g] + h]
        /\ Proceed(g, NotPruned(g, positions[g], vertical[g], h, vertical[g] + h), vertical[g], h)
        /\ UNCHANGED <<heap, mutex, query, vertical>>
    BY <2>4, <1>4 DEF PruneHorizontal
  <2> HIDE DEF h
  <2>6. PruneStep(g)
    BY <2>3, <2>5, <1>2 DEF PruneStep
  <2>7. QED
    BY <2>1, <2>6
<1>5. CASE PruneVertical(g)
  <2> DEFINE v == Least(vertical[g] + HDimSize, NumVertical)
  <2>1. pc[g] = "prune" /\ InCluster(g) /\ horizontal[g] = NumHorizontal
    BY <1>1, <1>2, <1>5 DEF PruneVertical, InCluster
  <2>2. PICK n \in Nat : horizontal[g] = n * HDimSize
    BY <2>1 DEF ScanInv, Scanning
  <2>3. dimension[g] = vertical[g] + horizontal[g]
    BY <2>1 DEF ScanInv, Scanning
  <2>4. v \in 0..NumVertical
    BY <1>1, <1>2 DEF Least
  <2>5. Least(dimension[g] + HDimSize, NumDimensions) = v + horizontal[g]
    BY <2>1, <2>3, <1>1, <1>2 DEF Least
  <2>6. /\ vertical' = [vertical EXCEPT ![g] = v]
        /\ dimension' = [dimension EXCEPT ![g] = v + horizontal[g]]
        /\ Proceed(g, NotPruned(g, positions[g], v, horizontal[g], v + horizontal[g]),
                   v, horizontal[g])
        /\ UNCHANGED <<heap, mutex, query, horizontal>>
    BY <2>5, <1>5 DEF PruneVertical
  <2> HIDE DEF v
  <2>7. PruneStep(g)
    BY <2>2, <2>4, <2>6, <1>2 DEF PruneStep
  <2>8. QED
    BY <2>1, <2>7
<1>6. QED
  BY <1>3, <1>4, <1>5

LEMMA PruneScan ==
  ASSUME ScanInv, NEW g \in RowGroups, InCluster(g), PruneStep(g)
  PROVE  TypeOK' /\ Scanning(g)'
<1>1. PICK v \in 0..NumVertical, h \in 0..NumHorizontal, n \in Nat :
         /\ Proceed(g, NotPruned(g, positions[g], v, h, v + h), v, h)
         /\ vertical' = [vertical EXCEPT ![g] = v]
         /\ horizontal' = [horizontal EXCEPT ![g] = h]
         /\ dimension' = [dimension EXCEPT ![g] = v + h]
         /\ h = n * HDimSize
         /\ UNCHANGED <<heap, mutex, query>>
  BY DEF PruneStep
<1>2. NotPruned(g, positions[g], v, h, v + h) \in SUBSET positions[g]
  BY DEF NotPruned
<1>3. QED
  BY <1>1, <1>2, ProceedScan

LEMMA LockHeapScan ==
  ASSUME ScanInv, NEW g \in RowGroups, LockHeap(g)
  PROVE  TypeOK' /\ Scanning(g)'
<1>1. TypeOK'
  BY DEF LockHeap, ScanInv, TypeOK, query, access, scan, PCs
<1>2. Passing(g)' = Passing(g)
  BY DEF LockHeap, Passing, RowsOf, CurrentCluster, query, access
<1>3. Scanning(g)'
  BY <1>2 DEF LockHeap, ScanInv, TypeOK, Scanning, InCluster, access, scan
<1>4. QED
  BY <1>1, <1>3

LEMMA InsertType ==
  ASSUME TypeOK, NEW r \in Rows, Insert(r)
  PROVE  heap' \in SUBSET (Rows \cup {InitElement})
  BY DEF TypeOK, Insert

LEMMA MergeIntoHeapScan ==
  ASSUME ScanInv, NEW g \in RowGroups, MergeIntoHeap(g)
  PROVE  TypeOK' /\ Scanning(g)'
<1>1. NumClusters \in Nat /\ pc[g] = "merge" /\ offset[g] < NumClusters
  BY NumClustersType DEF MergeIntoHeap, ScanInv, Scanning, InCluster
<1>2. PICK r \in positions[g] :
         Insert(r) /\ positions' = [positions EXCEPT ![g] = positions[g] \ {r}]
  BY DEF MergeIntoHeap
<1>3. r \in Rows
  BY DEF ScanInv, TypeOK
<1>4. heap' \in SUBSET (Rows \cup {InitElement}) /\ positions' \in [RowGroups -> SUBSET Rows]
  BY <1>2, <1>3, InsertType DEF ScanInv, TypeOK
<1>5. positions'[g] \subseteq positions[g]
  BY <1>2 DEF ScanInv, TypeOK
<1>6. UNCHANGED <<query, vertical, horizontal, dimension>>
  BY DEF MergeIntoHeap
<1>7. CASE positions'[g] = {}
  <2>1. mutex' = NoSearcher /\ pc' = [pc EXCEPT ![g] = "loop"] /\ NextCluster(g)
    BY <1>7 DEF MergeIntoHeap
  <2>2. pc' \in [RowGroups -> PCs] /\ offset' \in [RowGroups -> 0..NumClusters]
    BY <2>1, <1>1 DEF ScanInv, TypeOK, NextCluster, PCs
  <2>3. TypeOK'
    BY <2>1, <2>2, <1>4, <1>6 DEF ScanInv, TypeOK, query, NextCluster
  <2>4. QED
    BY <2>1, <2>3, <1>7 DEF ScanInv, TypeOK, Scanning, InCluster
<1>8. CASE positions'[g] # {}
  <2>1. UNCHANGED <<mutex, pc, access>>
    BY <1>8 DEF MergeIntoHeap
  <2>2. TypeOK'
    BY <2>1, <1>4, <1>6 DEF ScanInv, TypeOK, query, access
  <2>3. Passing(g)' = Passing(g)
    BY <2>1, <1>6 DEF Passing, RowsOf, CurrentCluster, query, access
  <2>4. Scanning(g)'
    BY <2>1, <2>3, <1>1, <1>5, <1>6 DEF ScanInv, Scanning, InCluster, access
  <2>5. QED
    BY <2>2, <2>4
<1>9. QED
  BY <1>7, <1>8

LEMMA StepScan ==
  ASSUME ScanInv, NEW g \in RowGroups, Step(g)
  PROVE  ScanInv'
<1>1. TypeOK' /\ Scanning(g)'
  BY InitializeSearchScan, LoopScan, EnterClusterScan, WarmupScan, PruneIsPruneStep, PruneScan,
     LockHeapScan, MergeIntoHeapScan DEF Step
<1>2. \A h \in RowGroups \ {g} : Scanning(h)'
  BY StepIsLocal, OthersKeepScanning DEF ScanInv
<1>3. Participants' = Participants /\ g \in Participants
  BY DEF Participants, query, Outsiders, ScanInv, Step, InitializeSearch, LeaveLoop, SkipCluster,
         EnterCluster, Warmup, InitPositionsArray, PruneHorizontal, PruneVertical, LockHeap,
         MergeIntoHeap
<1>4. Outsiders'
  BY <1>3, StepIsLocal DEF Outsiders, ScanInv
<1>5. QED
  BY <1>1, <1>2, <1>4 DEF ScanInv

LEMMA QueryScan ==
  ASSUME ScanInv,
         \/ ResumeFilteredSearch
         \/ \E s \in Filters : StartQuery(TRUE, s)
         \/ StartQuery(FALSE, Rows)
  PROVE  ScanInv'
<1>1. CASE ResumeFilteredSearch
  <2>1. /\ UNCHANGED <<heap, mutex, query, order, offset, scan>>
        /\ pc' = [g \in RowGroups |-> IF g \in Participants THEN "loop" ELSE pc[g]]
        /\ IterationDone
    BY <1>1 DEF ResumeFilteredSearch
  <2>2. \A g \in RowGroups : Least(offset[g] + FollowUpProbes, NumClusters) \in 0..NumClusters
    BY NumClustersType, ParameterAssumption DEF ScanInv, TypeOK, Least
  <2>3. endIdx' \in [RowGroups -> 0..NumClusters]
    BY <2>2, <1>1 DEF ResumeFilteredSearch, ScanInv, TypeOK
  <2>4. pc' \in [RowGroups -> PCs]
    BY <2>1 DEF ScanInv, TypeOK, PCs
  <2>5. TypeOK'
    BY <2>1, <2>3, <2>4 DEF ScanInv, TypeOK, query, scan
  <2>6. ASSUME NEW g \in RowGroups PROVE Scanning(g)'
    <3>1. CASE g \in Participants
      BY <3>1, <2>1 DEF IterationDone, ScanInv, Scanning, InCluster, scan
    <3>2. CASE g \notin Participants
      BY <3>2, <2>1, OthersKeepScanning DEF ScanInv, scan, query
    <3>3. QED
      BY <3>1, <3>2
  <2>7. Outsiders'
    BY <2>1 DEF Outsiders, ScanInv, Participants, query
  <2>8. QED
    BY <2>5, <2>6, <2>7 DEF ScanInv
<1>2. ASSUME NEW f \in BOOLEAN, NEW s \in SUBSET Rows, StartQuery(f, s)
      PROVE  ScanInv'
  <2>1. TypeOK'
    BY <1>2 DEF StartQuery, ScanInv, TypeOK, access, scan, PCs
  <2>2. ASSUME NEW g \in RowGroups PROVE positions[g] = {}
    <3>1. pc[g] \in {"idle", "done"}
      BY <1>2 DEF StartQuery, IterationDone, ScanInv, Outsiders
    <3>2. QED
      BY <3>1 DEF ScanInv, Scanning, InCluster
  <2>3. QED
    BY <2>1, <2>2, <1>2 DEF StartQuery, ScanInv, Scanning, InCluster, Outsiders, scan
<1>3. QED
  BY <1>1, <1>2, DataAssumption

LEMMA NextCases ==
  ASSUME Next
  PROVE  \/ \E g \in RowGroups : Step(g)
         \/ ResumeFilteredSearch
         \/ \E s \in Filters : StartQuery(TRUE, s)
         \/ StartQuery(FALSE, Rows)
  BY DEF Next

LEMMA ScanInvStep == ScanInv /\ [Next]_vars => ScanInv'
<1> SUFFICES ASSUME ScanInv, [Next]_vars PROVE ScanInv'
  OBVIOUS
<1>1. CASE Next
  BY <1>1, NextCases, StepScan, QueryScan
<1>2. CASE UNCHANGED vars
  <2>1. TypeOK' /\ Outsiders'
    BY <1>2 DEF ScanInv, TypeOK, Outsiders, Participants, vars, query, access, scan
  <2>2. \A g \in RowGroups : Scanning(g)'
    BY <1>2, OthersKeepScanning DEF ScanInv, vars, query, access, scan
  <2>3. QED
    BY <2>1, <2>2 DEF ScanInv
<1>3. QED
  BY <1>1, <1>2

LEMMA ScanInvariant == Spec => []ScanInv
  BY ScanInvInit, ScanInvStep, PTL DEF Spec

\* The variables keep their types: no searcher runs past the last cluster or the last
\* dimension, whatever the block sizes and the numbers of clusters to probe.
THEOREM TypeCorrect == Spec => []TypeOK
<1>1. ScanInv => TypeOK
  BY DEF ScanInv
<1>2. QED
  BY <1>1, ScanInvariant, PTL

\* Prune's assertions hold, and a vector is merged with its full distance.
THEOREM DimensionsAgreeAlways == Spec => []DimensionsAgree
<1>1. ScanInv => DimensionsAgree
  BY DEF ScanInv, Scanning, DimensionsAgree
<1>2. QED
  BY <1>1, ScanInvariant, PTL

-----------------------------------------------------------------------------
(* The heap.                                                                *)

\* What a step of a searcher does to the rows it holds back and to the heap: nothing is
\* dropped but what the pruner may discard, or one row is merged.
Drops(g) ==
    /\ heap' = heap
    /\ \A r \in positions[g] \ positions'[g] : Discardable(r)

Merges(g) ==
    \E r \in positions[g] :
        Insert(r) /\ positions' = [positions EXCEPT ![g] = positions[g] \ {r}]

\* The moves of a searcher, as far as the rows it is done with are concerned.
Stands(g) == order'[g] = order[g] /\ offset'[g] = offset[g]

Stays(g) ==       \* starts over, or leaves the loop, or takes up a cluster
    /\ ~InCluster(g)
    /\ \/ pc[g] = "idle" /\ pc'[g] = "loop" /\ offset'[g] = 0 /\ positions'[g] = {}
       \/ pc[g] = "loop" /\ pc'[g] = "done" /\ positions'[g] = {} /\ Stands(g)
       \/ pc[g] = "loop" /\ InCluster(g)' /\ positions'[g] = Passing(g) /\ Stands(g)

Advances(g) ==    \* leaves a cluster behind
    /\ pc[g] # "idle" /\ pc'[g] = "loop" /\ positions'[g] = {}
    /\ order'[g] = order[g] /\ offset'[g] = offset[g] + 1
    /\ InCluster(g) \/ Passing(g) = {}

Works(g) ==       \* goes on in its cluster
    InCluster(g) /\ InCluster(g)' /\ positions'[g] \subseteq positions[g] /\ Stands(g)

LEMMA StepMoves ==
  ASSUME ScanInv, NEW g \in RowGroups, Step(g)
  PROVE  Stays(g) \/ Advances(g) \/ Works(g)
<1> USE DEF InCluster, Stands
<1>1. CASE InitializeSearch(g)
  BY <1>1 DEF InitializeSearch, ScanInv, TypeOK, Scanning, Stays, scan
<1>2. CASE LeaveLoop(g)
  BY <1>2 DEF LeaveLoop, ScanInv, TypeOK, Scanning, Stays, access, scan
<1>3. CASE SkipCluster(g)
  BY <1>3 DEF SkipCluster, NextCluster, ScanInv, TypeOK, Scanning, Advances, scan
<1>4. CASE EnterCluster(g)
  BY <1>4 DEF EnterCluster, ScanInv, TypeOK, Stays, access
<1>5. CASE Warmup(g)
  BY <1>5 DEF Warmup, ScanInv, TypeOK, Works, access
<1>6. CASE InitPositionsArray(g) \/ PruneHorizontal(g) \/ PruneVertical(g)
  <2>1. PICK left \in SUBSET positions[g], v \in 0..NumVertical, h \in 0..NumHorizontal :
           Proceed(g, left, v, h)
    BY <1>6, PruneIsPruneStep DEF PruneStep, NotPruned
  <2>2. InCluster(g) /\ positions'[g] = left
    BY <2>1, <1>6, PruneIsPruneStep DEF Proceed, ScanInv, TypeOK
  <2>3. CASE left = {}
    BY <2>1, <2>2, <2>3 DEF Proceed, NextCluster, ScanInv, TypeOK, Advances
  <2>4. CASE left # {}
    BY <2>1, <2>2, <2>4 DEF Proceed, access, ScanInv, TypeOK, Works
  <2>5. QED
    BY <2>3, <2>4
<1>7. CASE LockHeap(g)
  BY <1>7 DEF LockHeap, ScanInv, TypeOK, Works, access, scan
<1>8. CASE MergeIntoHeap(g)
  <2>1. positions'[g] \subseteq positions[g]
    BY <1>8 DEF MergeIntoHeap, ScanInv, TypeOK
  <2>2. CASE positions'[g] = {}
    BY <2>2, <1>8 DEF MergeIntoHeap, NextCluster, ScanInv, TypeOK, Advances
  <2>3. CASE positions'[g] # {}
    BY <2>1, <2>3, <1>8 DEF MergeIntoHeap, access, ScanInv, TypeOK, Works
  <2>4. QED
    BY <2>2, <2>3
<1>9. QED
  BY <1>1, <1>2, <1>3, <1>4, <1>5, <1>6, <1>7, <1>8 DEF Step

\* What a searcher holds back is not done with: its cluster is not one of those behind it.
LEMMA HeldBack ==
  ASSUME ScanInv, NEW g \in RowGroups, NEW r \in positions[g]
  PROVE  /\ r \in selected /\ RowGroupOf[r] = g /\ ClusterOf[r] = CurrentCluster(g)
         /\ InCluster(g) /\ ClusterOf[r] \notin Probed(g) /\ ~IsConsidered(r)
<1>1. InCluster(g) /\ r \in Passing(g) /\ offset[g] \in Nat /\ offset[g] < NumClusters
  BY DEF ScanInv, Scanning, TypeOK
<1>2. r \in selected /\ RowGroupOf[r] = g /\ ClusterOf[r] = CurrentCluster(g)
  BY <1>1 DEF Passing, RowsOf
<1>3. order[g] \in AccessOrders /\ NumClusters \in Nat
  BY NumClustersType DEF ScanInv, TypeOK
<1>4. \A i \in 1..offset[g] : order[g][i] # order[g][offset[g] + 1]
  BY <1>1, <1>3 DEF AccessOrders
<1>5. ClusterOf[r] \notin Probed(g)
  BY <1>2, <1>4 DEF Probed, CurrentCluster
<1>6. QED
  BY <1>1, <1>2, <1>5 DEF IsConsidered

\* The rows that are done with grow by those the searcher no longer holds back.
LEMMA StepConsiders ==
  ASSUME ScanInv, NEW g \in RowGroups, Step(g)
  PROVE  Considered' = Considered \cup (positions[g] \ positions'[g])
<1>1. selected' = selected /\ selected \subseteq Rows
  BY DEF ScanInv, TypeOK, query, Step, InitializeSearch, LeaveLoop, SkipCluster, EnterCluster,
         Warmup, InitPositionsArray, PruneHorizontal, PruneVertical, LockHeap, MergeIntoHeap
<1>2. offset[g] \in Nat
  BY DEF ScanInv, TypeOK
<1>3. ASSUME NEW r \in selected, RowGroupOf[r] # g
      PROVE  IsConsidered(r)' <=> IsConsidered(r)
  <2>1. RowGroupOf[r] \in RowGroups \ {g}
    BY <1>1, <1>3, DataAssumption
  <2>2. QED
    BY <2>1, StepIsLocal DEF IsConsidered, Probed, InCluster, CurrentCluster
<1>4. ASSUME NEW r \in selected, RowGroupOf[r] = g
      PROVE  IsConsidered(r)' <=> IsConsidered(r) \/ r \in positions[g] \ positions'[g]
  <2>1. r \in Passing(g) <=> ClusterOf[r] = CurrentCluster(g)
    BY <1>1, <1>4 DEF Passing, RowsOf
  <2>2. CASE Stays(g)
    <3>1. positions[g] = {}
      BY <2>2 DEF Stays, ScanInv, Scanning
    <3>2. CASE pc[g] = "idle" /\ pc'[g] = "loop" /\ offset'[g] = 0
      BY <3>1, <3>2, <1>4 DEF IsConsidered, Probed, InCluster
    <3>3. CASE pc[g] = "loop" /\ pc'[g] = "done" /\ Stands(g)
      BY <3>1, <3>3, <1>4 DEF IsConsidered, Probed, InCluster, Stands
    <3>4. CASE /\ pc[g] = "loop" /\ InCluster(g)' /\ Stands(g)
               /\ positions'[g] = Passing(g)
      BY <3>1, <3>4, <2>1, <1>4
      DEF IsConsidered, Probed, InCluster, Stands, CurrentCluster
    <3>5. QED
      BY <3>2, <3>3, <3>4, <2>2 DEF Stays
  <2>3. CASE Advances(g)
    <3>1. Probed(g)' = Probed(g) \cup {CurrentCluster(g)}
      BY <2>3, <1>2 DEF Advances, Probed, CurrentCluster
    <3>2. IsConsidered(r)' <=> ClusterOf[r] \in Probed(g) \/ ClusterOf[r] = CurrentCluster(g)
      BY <3>1, <2>3, <1>4 DEF IsConsidered, InCluster, Advances
    <3>3. QED
      BY <3>2, <2>1, <2>3, <1>4, HeldBack DEF IsConsidered, Advances
  <2>4. CASE Works(g)
    BY <2>4, <1>4, HeldBack DEF Works, Stands, IsConsidered, Probed, CurrentCluster, InCluster
  <2>5. QED
    BY <2>2, <2>3, <2>4, StepMoves
<1>5. \A r \in positions[g] : r \in selected /\ RowGroupOf[r] = g
  BY HeldBack
<1>6. QED
  BY <1>1, <1>3, <1>4, <1>5 DEF Considered

LEMMA StepEffect ==
  ASSUME ScanInv, NEW g \in RowGroups, Step(g)
  PROVE  Drops(g) \/ Merges(g)
<1>1. CASE \/ InitializeSearch(g) \/ LeaveLoop(g) \/ SkipCluster(g) \/ EnterCluster(g)
           \/ Warmup(g) \/ LockHeap(g)
  <2>1. heap' = heap
    BY <1>1 DEF InitializeSearch, LeaveLoop, SkipCluster, EnterCluster, Warmup, LockHeap
  <2>2. CASE EnterCluster(g)
    <3>1. positions[g] = {}
      BY <2>2 DEF EnterCluster, ScanInv, Scanning, InCluster
    <3>2. QED
      BY <2>1, <3>1 DEF Drops
  <2>3. CASE ~EnterCluster(g)
    <3>1. positions' = positions
      BY <1>1, <2>3 DEF InitializeSearch, LeaveLoop, SkipCluster, Warmup, LockHeap, scan
    <3>2. QED
      BY <2>1, <3>1 DEF Drops
  <2>4. QED
    BY <2>2, <2>3
<1>2. CASE InitPositionsArray(g) \/ PruneHorizontal(g) \/ PruneVertical(g)
  <2>1. PICK v \in 0..NumVertical, h \in 0..NumHorizontal :
           /\ Proceed(g, NotPruned(g, positions[g], v, h, v + h), v, h)
           /\ heap' = heap
    BY <1>2, PruneIsPruneStep DEF PruneStep
  <2>2. positions'[g] = NotPruned(g, positions[g], v, h, v + h)
    BY <2>1 DEF Proceed, ScanInv, TypeOK
  <2>3. \A r \in positions[g] \ positions'[g] : Prunable(g, PartialDist(r, v, h), v + h)
    BY <2>2 DEF NotPruned
  <2>4. \A r \in positions[g] : RowGroupOf[r] = g
    BY HeldBack
  <2>5. QED
    BY <2>1, <2>3, <2>4 DEF Drops, Discardable
<1>3. CASE MergeIntoHeap(g)
  BY <1>3 DEF MergeIntoHeap, Merges
<1>4. QED
  BY <1>1, <1>2, <1>3 DEF Step

\* Once the initialization element has left, the heap holds the nearest, up to the tolerance, of
\* the rows that are done with; as long as it is there, those rows are all in the heap.
NearestKept ==
    ExactPruning /\ InitElement \notin heap =>
        \A b \in heap, s \in Considered \ heap : Dist[b] <= Dist[s] + Tolerance[s]

HeapInv == OnlyConsidered /\ NothingLostBeforeFull /\ NearestKept

LEMMA HeapIsFinite ==
  ASSUME TypeOK
  PROVE  /\ IsFiniteSet(heap) /\ Cardinality(heap) \in Nat
         /\ \A x \in heap : HeapDist(x) \in Nat
<1>1. IsFiniteSet(Rows \cup {InitElement})
  BY FS_AddElement, DataAssumption
<1>2. IsFiniteSet(heap) /\ Cardinality(heap) \in Nat
  BY <1>1, FS_Subset, FS_CardinalityType DEF TypeOK
<1>3. QED
  BY <1>2, DistBelowMax, DistanceAssumption DEF TypeOK, HeapDist

\* While the initialization element is in the heap the pruner discards nothing.
LEMMA NothingDiscardableBeforeFull ==
  ASSUME InitElement \in heap, NEW r \in Rows
  PROVE  ~Discardable(r)
<1>1. \A v \in 0..NumVertical, h \in 0..NumHorizontal :
         ~ReachesThreshold(RowGroupOf[r], PartialDist(r, v, h), MaxDist, v + h)
  BY DistanceAssumption
<1>2. HeapDist(InitElement) = MaxDist
  BY DEF HeapDist
<1>3. QED
  BY <1>1, <1>2 DEF Discardable, Prunable

\* The ways Insert ends for a row that is not in the heap.
Grows(r) ==
    InitElement \in heap /\ Cardinality(heap) < K /\ heap' = heap \cup {r}

Fills(r) ==
    /\ InitElement \in heap /\ Cardinality(heap) = K
    /\ heap' = (heap \ {InitElement}) \cup {r}

Replaces(r, x) ==
    /\ InitElement \notin heap
    /\ x \in heap /\ IsTop(x) /\ Dist[r] < HeapDist(x)
    /\ heap' = (heap \ {x}) \cup {r}

Rejects(r) ==
    /\ InitElement \notin heap /\ heap' = heap
    /\ \A x \in heap : ~(Dist[r] < HeapDist(x))

LEMMA InsertCases ==
  ASSUME TypeOK, NothingLostBeforeFull, NEW r \in Rows, Insert(r)
  PROVE  Grows(r) \/ Fills(r) \/ (\E x \in heap : Replaces(r, x)) \/ Rejects(r)
<1>1. /\ Cardinality(heap) \in Nat /\ K \in Nat \ {0} /\ Dist[r] \in Nat /\ Dist[r] < MaxDist
      /\ \A x \in heap : HeapDist(x) \in Nat
      /\ HeapDist(InitElement) = MaxDist
  BY HeapIsFinite, DistBelowMax, ParameterAssumption DEF HeapDist
<1>2. CASE InitElement \in heap
  <2>1. \E x \in heap : Dist[r] < HeapDist(x)
    BY <1>1, <1>2
  <2>2. Cardinality(heap) <= K
    BY <1>2 DEF NothingLostBeforeFull
  <2>3. CASE Cardinality(heap) < K
    BY <2>1, <2>3, <1>1, <1>2 DEF Insert, Grows
  <2>4. CASE Cardinality(heap) = K
    <3>1. PICK x \in heap : IsTop(x) /\ heap' = (heap \ {x}) \cup {r}
      BY <2>1, <2>4, <1>1 DEF Insert, IsTop
    <3>2. HeapDist(InitElement) <= HeapDist(x)
      BY <3>1, <1>2 DEF IsTop
    <3>3. x = InitElement
      <4>1. SUFFICES ASSUME x # InitElement PROVE FALSE
        OBVIOUS
      <4>2. x \in Rows /\ HeapDist(x) = Dist[x]
        BY <4>1 DEF TypeOK, HeapDist
      <4>3. Dist[x] \in Nat /\ Dist[x] < MaxDist /\ MaxDist \in Nat
        BY <4>2, DistBelowMax, DistanceAssumption
      <4>4. QED
        BY <3>2, <4>2, <4>3, <1>1
    <3>4. QED
      BY <3>1, <3>3, <2>4, <1>2 DEF Fills
  <2>5. QED
    BY <2>2, <2>3, <2>4, <1>1
<1>3. CASE InitElement \notin heap
  <2>1. Cardinality(heap) = K
    BY <1>3 DEF NothingLostBeforeFull
  <2>2. CASE \E x \in heap : Dist[r] < HeapDist(x)
    <3>1. PICK x \in heap : IsTop(x) /\ heap' = (heap \ {x}) \cup {r}
      BY <2>1, <2>2, <1>1 DEF Insert, IsTop
    <3>2. PICK z \in heap : Dist[r] < HeapDist(z)
      BY <2>2
    <3>3. HeapDist(z) <= HeapDist(x)
      BY <3>1, <3>2 DEF IsTop
    <3>4. Dist[r] < HeapDist(x)
      BY <3>2, <3>3, <1>1
    <3>5. QED
      BY <3>1, <3>4, <1>3 DEF Replaces
  <2>3. CASE ~\E x \in heap : Dist[r] < HeapDist(x)
    BY <2>1, <2>3, <1>1, <1>3 DEF Insert, Rejects
  <2>4. QED
    BY <2>2, <2>3
<1>4. QED
  BY <1>2, <1>3

LEMMA HeapInvInit == Init => HeapInv
<1> SUFFICES ASSUME Init PROVE HeapInv
  OBVIOUS
<1>1. heap = {InitElement} /\ \A g \in RowGroups : pc[g] = "idle"
  BY DEF Init
<1>2. selected \subseteq Rows
  BY DataAssumption DEF Init
<1>3. Considered = {}
  BY <1>1, <1>2, DataAssumption DEF Considered, IsConsidered
<1>4. Cardinality(heap) = 1 /\ 1 <= K
  BY <1>1, FS_Singleton, ParameterAssumption
<1>5. QED
  BY <1>1, <1>3, <1>4
  DEF HeapInv, OnlyConsidered, NothingLostBeforeFull, NearestKept, ValidCandidates

LEMMA DropsHeap ==
  ASSUME ScanInv, HeapInv, NEW g \in RowGroups, Drops(g),
         Considered' = Considered \cup (positions[g] \ positions'[g])
  PROVE  HeapInv'
<1>1. heap' = heap /\ \A r \in positions[g] \ positions'[g] : r \in Rows /\ Discardable(r)
  BY DEF Drops, ScanInv, TypeOK
<1>2. OnlyConsidered'
  BY <1>1 DEF HeapInv, OnlyConsidered, ValidCandidates
<1>3. CASE InitElement \in heap
  <2>1. Considered' = Considered
    BY <1>1, <1>3, NothingDiscardableBeforeFull
  <2>2. QED
    BY <2>1, <1>1, <1>2, <1>3
    DEF HeapInv, NothingLostBeforeFull, NearestKept, ValidCandidates
<1>4. CASE InitElement \notin heap
  <2>1. NothingLostBeforeFull'
    BY <1>1, <1>4 DEF HeapInv, NothingLostBeforeFull
  <2>2. ASSUME ExactPruning, NEW b \in heap, NEW s \in Considered' \ heap
        PROVE  Dist[b] <= Dist[s] + Tolerance[s]
    <3>1. CASE s \in Considered
      BY <3>1, <2>2, <1>4 DEF HeapInv, NearestKept
    <3>2. CASE s \notin Considered
      <4>1. s \in Rows /\ Discardable(s) /\ b \in Rows /\ HeapDist(b) = Dist[b]
        BY <3>2, <1>1, <1>4 DEF ScanInv, TypeOK, HeapDist
      <4>2. PICK v \in 0..NumVertical, h \in 0..NumHorizontal :
               ReachesThreshold(RowGroupOf[s], PartialDist(s, v, h), Dist[b], v + h)
        BY <4>1 DEF Discardable, Prunable
      <4>3. Dist[b] <= Dist[s] + Tolerance[s]
        BY <4>1, <4>2, <2>2 DEF ExactPruning
      <4>4. QED
          BY <4>3
    <3>3. QED
      BY <3>1, <3>2
  <2>3. NearestKept'
    BY <2>2, <1>1, <1>4 DEF NearestKept
  <2>4. QED
    BY <1>2, <2>1, <2>3 DEF HeapInv
<1>5. QED
  BY <1>3, <1>4

\* None of the rows that a searcher holds back is in the heap.
LEMMA NotYetMerged ==
  ASSUME ScanInv, OnlyConsidered, NEW g \in RowGroups, NEW r \in positions[g]
  PROVE  r \in Rows /\ r # InitElement /\ r \notin heap /\ r \notin Considered
<1>1. r \in Rows /\ r # InitElement
  BY DataAssumption DEF ScanInv, TypeOK
<1>2. r \notin Considered
  BY HeldBack DEF Considered
<1>3. QED
  BY <1>1, <1>2 DEF OnlyConsidered, ValidCandidates

LEMMA MergesHeap ==
  ASSUME ScanInv, HeapInv, NEW g \in RowGroups, Merges(g),
         Considered' = Considered \cup (positions[g] \ positions'[g])
  PROVE  HeapInv'
<1>1. PICK r \in positions[g] :
         Insert(r) /\ positions' = [positions EXCEPT ![g] = positions[g] \ {r}]
  BY DEF Merges
<1>2. Considered' = Considered \cup {r}
  BY <1>1 DEF ScanInv, TypeOK
<1>3. r \in Rows /\ r # InitElement /\ r \notin heap /\ r \notin Considered
  BY NotYetMerged DEF HeapInv
<1>4. /\ IsFiniteSet(heap) /\ Cardinality(heap) \in Nat /\ K \in Nat \ {0}
      /\ ValidCandidates \subseteq Considered
      /\ Considered \subseteq Rows
  BY HeapIsFinite, ParameterAssumption
  DEF ScanInv, TypeOK, HeapInv, OnlyConsidered, Considered
<1>5. CASE Grows(r)
  <2>1. Cardinality(heap') = Cardinality(heap) + 1
    BY <1>3, <1>4, <1>5, FS_AddElement DEF Grows
  <2>2. QED
    BY <2>1, <1>2, <1>3, <1>4, <1>5
    DEF Grows, HeapInv, OnlyConsidered, NothingLostBeforeFull, NearestKept, ValidCandidates
<1>6. CASE Fills(r)
  <2>1. /\ IsFiniteSet(heap \ {InitElement})
        /\ Cardinality(heap \ {InitElement}) = Cardinality(heap) - 1
    BY <1>4, <1>6, FS_RemoveElement DEF Fills
  <2>2. Cardinality(heap') = Cardinality(heap \ {InitElement}) + 1
    BY <2>1, <1>3, <1>6, FS_AddElement DEF Fills
  <2>3. Cardinality(heap') = K
    BY <2>1, <2>2, <1>4, <1>6 DEF Fills
  <2>4. InitElement \notin heap' /\ heap' = Considered'
    BY <1>2, <1>3, <1>6 DEF Fills, HeapInv, NothingLostBeforeFull, ValidCandidates
  <2>5. QED
    BY <2>3, <2>4
    DEF HeapInv, OnlyConsidered, NothingLostBeforeFull, NearestKept, ValidCandidates
<1>7. CASE \E x \in heap : Replaces(r, x)
  <2>1. PICK x \in heap : Replaces(r, x)
    BY <1>7
  <2>2. Cardinality(heap) = K /\ InitElement \notin heap
    BY <2>1 DEF Replaces, HeapInv, NothingLostBeforeFull
  <2>3. IsFiniteSet(heap \ {x}) /\ Cardinality(heap \ {x}) = Cardinality(heap) - 1
    BY <1>4, FS_RemoveElement
  <2>4. Cardinality(heap') = Cardinality(heap \ {x}) + 1
    BY <2>1, <2>3, <1>3, FS_AddElement DEF Replaces
  <2>5. Cardinality(heap') = K /\ InitElement \notin heap'
    BY <2>1, <2>2, <2>3, <2>4, <1>3, <1>4 DEF Replaces
  <2>6. OnlyConsidered'
    BY <2>1, <1>2, <1>4 DEF Replaces, OnlyConsidered, ValidCandidates
  <2>7. ASSUME ExactPruning, NEW b \in heap', NEW s \in Considered' \ heap'
        PROVE  Dist[b] <= Dist[s] + Tolerance[s]
    <3>1. /\ \A y \in heap : y \in Rows /\ HeapDist(y) = Dist[y] /\ Dist[y] <= Dist[x]
          /\ Dist[r] < Dist[x]
      BY <2>1, <2>2 DEF Replaces, IsTop, HeapDist, ScanInv, TypeOK
    <3>2. Dist[b] <= Dist[x]
      BY <3>1, <2>1, <1>3, DistBelowMax DEF Replaces
    <3>3. s = x \/ s \in Considered \ heap
      BY <2>1, <1>2 DEF Replaces
    <3>4. s \in Considered \ heap => Dist[x] <= Dist[s] + Tolerance[s]
      BY <2>2, <2>7 DEF HeapInv, NearestKept
    <3>5. b \in Rows /\ s \in Rows /\ x \in Rows
      BY <3>1, <3>3, <2>1, <1>3, <1>4 DEF Replaces
    <3>6. QED
      BY <3>2, <3>3, <3>4, <3>5, DistBelowMax, ToleranceType
  <2>8. QED
    BY <2>5, <2>6, <2>7 DEF HeapInv, NothingLostBeforeFull, NearestKept
<1>8. CASE Rejects(r)
  <2>1. Cardinality(heap) = K /\ InitElement \notin heap /\ heap' = heap
    BY <1>8 DEF Rejects, HeapInv, NothingLostBeforeFull
  <2>2. ASSUME ExactPruning, NEW b \in heap, NEW s \in Considered' \ heap
        PROVE  Dist[b] <= Dist[s] + Tolerance[s]
    <3>1. s \in Considered => Dist[b] <= Dist[s] + Tolerance[s]
      BY <2>1, <2>2 DEF HeapInv, NearestKept
    <3>2. b \in Rows /\ HeapDist(b) = Dist[b] /\ ~(Dist[r] < HeapDist(b))
      BY <2>1, <1>8 DEF Rejects, HeapDist, ScanInv, TypeOK
    <3>3. QED
      BY <3>1, <3>2, <1>2, <1>3, DistBelowMax, ToleranceType
  <2>3. QED
    BY <2>1, <2>2, <1>2, <1>4
    DEF HeapInv, OnlyConsidered, NothingLostBeforeFull, NearestKept, ValidCandidates
<1>9. QED
  BY <1>1, <1>3, <1>5, <1>6, <1>7, <1>8, InsertCases DEF HeapInv, ScanInv

\* Resuming a filtered search takes no row back.
LEMMA ResumeKeepsConsidered ==
  ASSUME ScanInv, ResumeFilteredSearch
  PROVE  Considered' = Considered
<1>1. /\ filtered /\ IterationDone /\ UNCHANGED <<query, order, offset, scan>>
      /\ pc' = [g \in RowGroups |-> IF g \in Participants THEN "loop" ELSE pc[g]]
  BY DEF ResumeFilteredSearch
<1>2. ASSUME NEW r \in selected PROVE IsConsidered(r)' <=> IsConsidered(r)
  <2>1. RowGroupOf[r] \in RowGroups /\ pc[RowGroupOf[r]] = "done" /\ pc'[RowGroupOf[r]] = "loop"
    BY <1>1, DataAssumption DEF IterationDone, Participants, ScanInv, TypeOK
  <2>2. QED
    BY <1>1, <2>1 DEF IsConsidered, Probed, InCluster, scan
<1>3. QED
  BY <1>1, <1>2 DEF Considered, query

LEMMA StartForgetsConsidered ==
  ASSUME NEW f \in BOOLEAN, NEW s \in SUBSET Rows, StartQuery(f, s)
  PROVE  Considered' = {} /\ heap' = {InitElement} /\ queries' = queries + 1
<1>1. selected' = s /\ \A g \in RowGroups : pc'[g] = "idle"
  BY DEF StartQuery
<1>2. QED
  BY <1>1, DataAssumption DEF StartQuery, Considered, IsConsidered

LEMMA HeapInvStep == ScanInv /\ HeapInv /\ [Next]_vars => HeapInv'
<1> SUFFICES ASSUME ScanInv, HeapInv, [Next]_vars PROVE HeapInv'
  OBVIOUS
<1> USE DEF HeapInv, OnlyConsidered, NothingLostBeforeFull, NearestKept, ValidCandidates
<1>1. ASSUME NEW g \in RowGroups, Step(g) PROVE HeapInv'
  BY <1>1, StepConsiders, StepEffect, DropsHeap, MergesHeap
<1>2. CASE ResumeFilteredSearch
  BY <1>2, ResumeKeepsConsidered DEF ResumeFilteredSearch
<1>3. ASSUME NEW f \in BOOLEAN, NEW s \in SUBSET Rows, StartQuery(f, s) PROVE HeapInv'
  <2>1. Considered' = {} /\ heap' = {InitElement}
    BY <1>3, StartForgetsConsidered
  <2>2. Cardinality(heap') = 1 /\ 1 <= K
    <3>1. Cardinality({InitElement}) = 1
      BY FS_Singleton
    <3>2. K \in Nat \ {0}
      BY ParameterAssumption
    <3>3. QED
      BY ONLY <2>1, <3>1, <3>2
  <2>3. QED
    BY <2>1, <2>2
<1>4. CASE UNCHANGED vars
  BY <1>4 DEF vars, query, access, scan, Considered, IsConsidered, Probed, InCluster,
              CurrentCluster
<1>5. QED
  BY <1>1, <1>2, <1>3, <1>4, DataAssumption DEF Next

LEMMA HeapInvariant == Spec => []HeapInv
  BY ScanInvInit, HeapInvInit, ScanInvStep, HeapInvStep, PTL DEF Spec

\* Rows the predicate excludes, and rows of clusters this query has not probed, never get
\* into the heap, although the searchers of an index are reused by every query.
THEOREM OnlyConsideredAlways == Spec => []OnlyConsidered
<1>1. HeapInv => OnlyConsidered
  BY DEF HeapInv
<1>2. QED
  BY <1>1, HeapInvariant, PTL

\* No vector gets into the heap twice, whatever iterations a filtered search takes.
THEOREM NoDuplicatesAlways == Spec => []NoDuplicates
<1>1. ScanInv /\ HeapInv => NoDuplicates
  BY NotYetMerged DEF HeapInv, NoDuplicates
<1>2. QED
  BY <1>1, ScanInvariant, HeapInvariant, PTL

\* Up to K candidates nothing is lost, and then K are kept, for every pruner whose ratios
\* reach no farther than the largest distance: stale thresholds and lossy ratios included.
THEOREM NothingLostBeforeFullAlways == Spec => []NothingLostBeforeFull
<1>1. HeapInv => NothingLostBeforeFull
  BY DEF HeapInv
<1>2. QED
  BY <1>1, HeapInvariant, PTL

\* A searcher at the end of its access order has been in every cluster.
LEMMA AllProbed ==
  ASSUME ScanInv, NEW g \in RowGroups, offset[g] = NumClusters
  PROVE  Probed(g) = Clusters
<1> DEFINE o == order[g]
<1>1. /\ o \in [1..NumClusters -> Clusters]
      /\ \A i, j \in 1..NumClusters : o[i] = o[j] => i = j
  BY Zenon DEF ScanInv, TypeOK, AccessOrders
<1>2. o \in Injection(1..NumClusters, Clusters)
  BY <1>1 DEF Injection, IsInjective
<1>3. Cardinality(1..NumClusters) = Cardinality(Clusters)
  BY FS_Interval, NumClustersType DEF NumClusters
<1>4. o \in Surjection(1..NumClusters, Clusters)
  BY <1>2, <1>3, FS_Injection, DataAssumption
<1>5. Clusters = {o[i] : i \in 1..NumClusters}
  BY <1>4, Zenon DEF Surjection
<1>6. QED
  BY <1>5 DEF Probed

\* Once every cluster is probed there are K results, or all the rows that pass, whatever the
\* pruner discards and however the searchers interleave (FilteredSearch, MergeIntoHeap).
THEOREM ResultCountAlways == Spec => []ResultCount
<1>1. ScanInv /\ HeapInv => ResultCount
  <2> SUFFICES ASSUME ScanInv, HeapInv, IterationDone,
                      \A g \in Participants : offset[g] = NumClusters
               PROVE  Cardinality(ValidCandidates) = Least(K, Cardinality(selected))
    BY DEF ResultCount
  <2>1. ASSUME NEW r \in selected PROVE IsConsidered(r)
    <3>1. RowGroupOf[r] \in RowGroups /\ ClusterOf[r] \in Clusters
      BY DataAssumption DEF ScanInv, TypeOK
    <3>2. RowGroupOf[r] \in Participants
      BY <3>1 DEF Participants
    <3>3. pc[RowGroupOf[r]] = "done" /\ ClusterOf[r] \in Probed(RowGroupOf[r])
      BY <3>1, <3>2, AllProbed DEF IterationDone
    <3>4. QED
      BY <3>3 DEF IsConsidered
  <2>2. Considered = selected
    BY <2>1 DEF Considered
  <2>3. IsFiniteSet(heap) /\ Cardinality(heap) \in Nat /\ K \in Nat
    BY HeapIsFinite, ParameterAssumption DEF ScanInv
  <2>4. IsFiniteSet(selected) /\ Cardinality(selected) \in Nat
    BY FS_Subset, FS_CardinalityType, DataAssumption DEF ScanInv, TypeOK
  <2>5. CASE InitElement \in heap
    <3>1. ValidCandidates = selected /\ Cardinality(heap) <= K
      BY <2>2, <2>5 DEF HeapInv, NothingLostBeforeFull
    <3>2. Cardinality(ValidCandidates) <= Cardinality(heap)
      BY <2>3, FS_Subset DEF ValidCandidates
    <3>3. Cardinality(selected) <= K
      BY <2>3, <2>4, <3>1, <3>2
    <3>4. QED
      BY <2>3, <2>4, <3>1, <3>3 DEF Least
  <2>6. CASE InitElement \notin heap
    <3>1. ValidCandidates = heap /\ Cardinality(heap) = K
      BY <2>6 DEF ValidCandidates, HeapInv, NothingLostBeforeFull
    <3>2. heap \subseteq selected
      BY <2>2, <3>1 DEF HeapInv, OnlyConsidered
    <3>3. K <= Cardinality(selected)
      BY <2>4, <3>1, <3>2, FS_Subset
    <3>4. QED
      BY <3>1, <3>3 DEF Least
  <2>7. QED
    BY <2>5, <2>6
<1>2. QED
  BY <1>1, ScanInvariant, HeapInvariant, PTL

LEMMA StepTightens ==
  ASSUME ScanInv, HeapInv, NEW g \in RowGroups, Step(g), NEW y \in heap'
  PROVE  \E x \in heap : HeapDist(y) <= HeapDist(x)
<1>1. \A x \in heap : HeapDist(x) \in Nat
  BY HeapIsFinite DEF ScanInv
<1>2. CASE y \in heap
  BY <1>1, <1>2
<1>3. CASE y \notin heap
  <2>1. PICK r \in positions[g] : Insert(r)
    BY <1>3, StepEffect DEF Drops, Merges
  <2>2. r \in Rows /\ HeapDist(r) = Dist[r] /\ Dist[r] \in Nat /\ Dist[r] < MaxDist
    BY NotYetMerged, DistBelowMax DEF HeapInv, HeapDist
  <2>3. /\ y = r
        /\ InitElement \in heap \/ \E x \in heap : Dist[r] < HeapDist(x)
    BY <2>1, <2>2, <1>3, InsertCases
    DEF Grows, Fills, Replaces, Rejects, HeapInv, ScanInv
  <2>4. HeapDist(InitElement) = MaxDist /\ MaxDist \in Nat
    BY DistanceAssumption DEF HeapDist
  <2>5. CASE InitElement \in heap
    BY <2>2, <2>3, <2>4, <2>5
  <2>6. CASE \E x \in heap : Dist[r] < HeapDist(x)
    BY <2>2, <2>3, <2>6, <1>1
  <2>7. QED
    BY <2>3, <2>5, <2>6
<1>4. QED
  BY <1>2, <1>3

\* A threshold that a searcher has read stays on the safe side while others go on merging.
THEOREM ThresholdTightensAlways == Spec => ThresholdTightens
<1> DEFINE Tightens == queries' = queries =>
             \A y \in heap' : \E x \in heap : HeapDist(y) <= HeapDist(x)
<1>1. ScanInv /\ HeapInv /\ [Next]_vars => [Tightens]_vars
  <2> SUFFICES ASSUME ScanInv, HeapInv, Next PROVE Tightens
    OBVIOUS
  <2>1. CASE \E g \in RowGroups : Step(g)
    BY <2>1, StepTightens
  <2>2. CASE ResumeFilteredSearch
    <3>1. heap' = heap
      BY <2>2 DEF ResumeFilteredSearch
    <3>2. QED
      BY <3>1, HeapIsFinite DEF ScanInv
  <2>3. ASSUME NEW f \in BOOLEAN, NEW s \in SUBSET Rows, StartQuery(f, s) PROVE Tightens
    BY <2>3 DEF StartQuery, ScanInv, TypeOK
  <2>4. QED
    BY <2>1, <2>2, <2>3, NextCases, DataAssumption
<1>2. QED
  BY <1>1, ScanInvariant, HeapInvariant, PTL DEF Spec, ThresholdTightens

-----------------------------------------------------------------------------
(* The heap implements BestK.                                               *)

\* What BestK assumes of its parameters holds of the rows, the limit and the distances here.
LEMMA BestKParameters ==
  IsFiniteSet(Rows) /\ K \in Nat \ {0} /\ Dist \in [Rows -> Nat]
<1>1. \A r \in Rows : Dist[r] \in Nat
  BY DistBelowMax
<1>2. QED
  BY <1>1, DataAssumption, ParameterAssumption DEF Dist

LEMMA SameCardinality == \A S : B!Cardinality(S) = Cardinality(S)
  BY Zenon DEF B!Cardinality, Cardinality

\* The heap's candidates are a K-best subset of the rows that are done with.
LEMMA HeapIsKBest == ExactPruning /\ ScanInv /\ HeapInv => B!KBest
<1> SUFFICES ASSUME ExactPruning, ScanInv, HeapInv PROVE B!KBest
  OBVIOUS
<1>1. IsFiniteSet(heap) /\ K \in Nat /\ Cardinality(heap) \in Nat
  BY HeapIsFinite, ParameterAssumption DEF ScanInv
<1>2. IsFiniteSet(ValidCandidates) /\ Cardinality(ValidCandidates) \in Nat
  BY <1>1, FS_Subset, FS_CardinalityType DEF ValidCandidates
<1>3. Cardinality(ValidCandidates) <= Cardinality(heap)
  BY <1>1, FS_Subset DEF ValidCandidates
<1>4. CASE InitElement \in heap
  <2>1. ValidCandidates = Considered /\ Cardinality(ValidCandidates) <= K
    BY <1>1, <1>2, <1>3, <1>4 DEF HeapInv, NothingLostBeforeFull
  <2>2. QED
    BY <2>1, SameCardinality DEF B!KBest, B!IsNearlyKBest
<1>5. CASE InitElement \notin heap
  <2>1. ValidCandidates = heap /\ Cardinality(heap) = K
    BY <1>5 DEF ValidCandidates, HeapInv, NothingLostBeforeFull
  <2>2. \A b \in heap, s \in Considered \ heap : Dist[b] <= Dist[s] + Tolerance[s]
    BY <1>5 DEF HeapInv, NearestKept
  <2>3. QED
    BY <2>1, <2>2, <1>1, SameCardinality
    DEF HeapInv, OnlyConsidered, B!KBest, B!IsNearlyKBest
<1>6. QED
  BY <1>4, <1>5

LEMMA StepOffers ==
  ASSUME ScanInv, HeapInv, ScanInv', B!KBest', NEW g \in RowGroups, Step(g)
  PROVE  B!Offer
<1>1. Considered' = Considered \cup (positions[g] \ positions'[g])
  BY StepConsiders
<1>2. Considered' \in SUBSET Rows
  BY DEF ScanInv, TypeOK, Considered
<1>3. ValidCandidates' \subseteq ValidCandidates \cup (Considered' \ Considered)
  <2>1. CASE Drops(g)
    BY <2>1 DEF Drops, ValidCandidates
  <2>2. CASE Merges(g)
    <3>1. PICK r \in positions[g] :
             Insert(r) /\ positions' = [positions EXCEPT ![g] = positions[g] \ {r}]
      BY <2>2 DEF Merges
    <3>2. heap' \subseteq heap \cup {r}
      BY <3>1 DEF Insert
    <3>3. r \in Considered' \ Considered
      BY <3>1, <1>1, NotYetMerged DEF HeapInv, ScanInv, TypeOK
    <3>4. QED
      BY <3>2, <3>3 DEF ValidCandidates
  <2>3. QED
    BY <2>1, <2>2, StepEffect
<1>4. QED
  BY <1>1, <1>2, <1>3 DEF B!Offer, B!KBest

\* Under a pruner that discards no vector closer than the top of the heap by more than the
\* truncation of a quantized threshold, what the searchers leave in the heap is a set of K nearest
\* rows, up to that tolerance, among those they are done with: their interleaving and their stale
\* thresholds cost no neighbour.
THEOREM HeapImplementsBestK == ASSUME ExactPruning PROVE Spec => ImplementsBestK
<1>1. Init => B!Init
  <2> SUFFICES ASSUME Init PROVE B!Init
    OBVIOUS
  <2>1. heap = {InitElement} /\ \A g \in RowGroups : pc[g] = "idle"
    BY DEF Init
  <2>2. selected \subseteq Rows
    BY DataAssumption DEF Init
  <2>3. Considered = {}
    BY <2>1, <2>2, DataAssumption DEF Considered, IsConsidered
  <2>4. QED
    BY <2>1, <2>3 DEF B!Init, ValidCandidates
<1>2. ScanInv /\ HeapInv => B!KBest
  BY HeapIsKBest
<1>3. ScanInv /\ HeapInv /\ ScanInv' /\ B!KBest' /\ [Next]_vars => [B!Next]_B!vars
  <2> SUFFICES ASSUME ScanInv, HeapInv, ScanInv', B!KBest', [Next]_vars
               PROVE  [B!Next]_B!vars
    OBVIOUS
  <2>1. ASSUME NEW g \in RowGroups, Step(g) PROVE B!Next
    BY <2>1, StepOffers DEF B!Next
  <2>2. CASE ResumeFilteredSearch
    BY <2>2, ResumeKeepsConsidered DEF ResumeFilteredSearch, ValidCandidates, B!vars
  <2>3. ASSUME NEW f \in BOOLEAN, NEW s \in SUBSET Rows, StartQuery(f, s) PROVE B!Next
    BY <2>3, StartForgetsConsidered DEF ValidCandidates, B!Next, B!Reset
  <2>4. CASE UNCHANGED vars
    BY <2>4 DEF vars, query, access, scan, ValidCandidates, Considered, IsConsidered, Probed,
                InCluster, CurrentCluster, B!vars
  <2>5. QED
    BY <2>1, <2>2, <2>3, <2>4, DataAssumption DEF Next
<1>4. QED
  BY <1>1, <1>2, <1>3, ScanInvariant, HeapInvariant, PTL DEF Spec, ImplementsBestK, B!Spec

-----------------------------------------------------------------------------
(* When pruning is exact.                                                   *)

DistancesGrow ==
    \A r \in Rows, v \in 0..NumVertical, h \in 0..NumHorizontal :
        PartialDist(r, v, h) <= PartialDist(r, NumVertical, NumHorizontal)

\* A pruner whose ratios are one discards no vector that is nearer than the top by a unit or more,
\* quantized or not: a threshold is truncated by less than a unit of the row group, and the partial
\* distances of vectors only grow.
THEOREM RatiosOfOneAreExact ==
  ASSUME \A n \in 0..NumDimensions : Ratio[n] = RatioUnit, DistancesGrow
  PROVE  ExactPruning
<1> SUFFICES ASSUME NEW r \in Rows, NEW x \in Rows, NEW v \in 0..NumVertical, NEW h \in 0..NumHorizontal,
                    ReachesThreshold(RowGroupOf[r], PartialDist(r, v, h), Dist[x], v + h)
             PROVE  Dist[x] <= Dist[r] + Tolerance[r]
  BY DEF ExactPruning
<1> DEFINE g == RowGroupOf[r]
           p == PartialDist(r, v, h)
           all == PartialDist(r, NumVertical, NumHorizontal)
           u == Unit[g]
<1>1. /\ NumVertical \in 0..NumVertical /\ NumHorizontal \in 0..NumHorizontal
      /\ v + h \in 0..NumDimensions
  BY ParameterAssumption DEF NumDimensions
<1>2. /\ p \in Nat /\ all \in Nat /\ p <= all /\ u \in Nat \ {0} /\ g \in RowGroups
      /\ RatioUnit \in Nat \ {0} /\ MaxDist \in Nat /\ MaxPartialDist \in Nat
  BY <1>1, PartialDistType, DataAssumption, DistanceAssumption DEF DistancesGrow
<1>3. Ratio[v + h] = RatioUnit
  BY <1>1
<1>4. Dist[r] = all * u /\ Tolerance[r] = u - 1 /\ Dist[x] \in Nat
  BY DistBelowMax DEF Dist, Tolerance
<1>5. ReachesThreshold(g, p, Dist[x], v + h) /\ ~ReachesThreshold(g, p, MaxDist, v + h)
  BY DistanceAssumption
<1> HIDE DEF g, p, all, u
<1>6. CASE Quantization = "F32"
  <2>1. RatioUnit * p >= RatioUnit * Dist[x]
    BY <1>3, <1>5, <1>6 DEF ReachesThreshold
  <2>2. p >= Dist[x]
    <3>1. SUFFICES ASSUME Dist[x] >= p + 1 PROVE FALSE
      BY <1>2, <1>4
    <3>2. RatioUnit * Dist[x] >= RatioUnit * (p + 1) /\ RatioUnit * (p + 1) = RatioUnit * p + RatioUnit
      BY <1>2, <1>4, <3>1, NoProductGrows
    <3>3. RatioUnit * p \in Nat /\ RatioUnit * Dist[x] \in Nat
      BY <1>2, <1>4
    <3>4. QED
      BY <1>2, <2>1, <3>2, <3>3
  <2>3. u = 1
    BY <1>2, <1>6, DistanceAssumption DEF u
  <2>4. QED
    BY <1>2, <1>4, <2>2, <2>3
<1>7. CASE Quantization # "F32"
  <2> DEFINE t == (RatioUnit * Dist[x]) \div (RatioUnit * u)
             m == (RatioUnit * MaxDist) \div (RatioUnit * u)
  <2>1. p >= Least(MaxPartialDist, t) /\ ~(p >= Least(MaxPartialDist, m))
    BY <1>3, <1>5, <1>7 DEF ReachesThreshold, QuantizedThreshold, u
  <2>2. t \in Nat /\ m \in Nat /\ (\A q \in Nat : q >= t => Dist[x] <= q * u + (u - 1))
    BY <1>2, <1>4, CancelRatio
  <2>3. p >= t
    <3> HIDE DEF t, m
    <3>1. QED
      BY <1>2, <2>1, <2>2 DEF Least
  <2>4. all >= t
    <3> HIDE DEF t
    <3>1. QED
      BY <1>2, <2>2, <2>3
  <2>5. QED
    BY <1>2, <1>4, <2>2, <2>4
<1>8. QED
  BY <1>6, <1>7

\* Without quantization an exact pruner costs no neighbour at all: this is what the models of the
\* operators take the heap for.
THEOREM ExactWithoutQuantization ==
  ASSUME ExactPruning, Quantization = "F32"
  PROVE  Spec => []B!IsKBest(ValidCandidates, Considered)
<1>1. \A r \in Rows : Tolerance[r] = 0
  BY DataAssumption, DistanceAssumption DEF Tolerance
<1>2. ASSUME ScanInv, HeapInv PROVE B!IsKBest(ValidCandidates, Considered)
  <2>1. B!KBest
    BY <1>2, HeapIsKBest
  <2>2. Considered \subseteq Rows /\ \A r \in Rows : Dist[r] + Tolerance[r] = Dist[r]
    BY <1>1, <1>2, DistBelowMax DEF ScanInv, TypeOK, Considered
  <2>3. QED
    BY <2>1, <2>2 DEF B!KBest, B!IsNearlyKBest, B!IsKBest
<1>3. QED
  BY <1>2, ScanInvariant, HeapInvariant, PTL DEF Spec

=============================================================================
