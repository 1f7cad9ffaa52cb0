------------------------------ MODULE PDXearch ------------------------------
(***************************************************************************)
(* The search kernel (pdxearch.hpp): one searcher per row group, all of    *)
(* them merging into one heap `best_k` under `best_k_mutex`.  A searcher    *)
(* visits its clusters in access order.  In a cluster it scans dimensions,  *)
(* re-reads the pruning threshold (the top of the heap, under the mutex)    *)
(* after every block of them, and merges the vectors that were never pruned *)
(* when all dimensions have been scanned.                                   *)
(*                                                                          *)
(* Steps are cut where the code touches what it shares: every action reads  *)
(* or writes the heap at most once, and what a thread does on its own       *)
(* until its next lock belongs to the same action.                          *)
(***************************************************************************)
EXTENDS Naturals, FiniteSets

CONSTANTS
    Rows, RowGroups, Clusters,
    RowGroupOf, ClusterOf,      \* where index creation put each row
    K,                          \* limit of the query
    NumVertical, NumHorizontal, \* num_vertical_dimensions, num_horizontal_dimensions
    HDimSize,                   \* H_DIM_SIZE
    WarmupStops,                \* partial sums of DIMENSIONS_FETCHING_SIZES
    Quantization,               \* "F32" or "U8"
    Unit,                       \* [g]: inverse_quantization_scale_squared, 1 without quantization
    VerticalDist,               \* [r][n]: distance of r over its first n vertical dimensions, ...
    HorizontalDist,             \* ... over horizontal ones, in units of its row group
    MaxPartialDist,             \* numeric_limits<distance_t>::max(), of distances in units
    Ratio, RatioUnit,           \* the pruner's ratios, in units of 1 / RatioUnit
    SelectivityNum, SelectivityDen, \* selectivity_threshold
    InitElement, MaxDist,       \* HEAP_INITIALIZATION_ELEMENT and its distance
    NoSearcher,                 \* holder of the mutex when it is free
    NProbe,                     \* clusters per row group in the first iteration
    FollowUpProbes,             \* clusters per row group in the other iterations
    Filters,                    \* sets of rows the predicates of queries select
    MaxQueries                  \* bound: queries run one after the other

NumClusters == Cardinality(Clusters)
NumDimensions == NumVertical + NumHorizontal

Least(a, b) == IF a <= b THEN a ELSE b

\* The accumulated pruning_distance of a row after v vertical, h horizontal dimensions.
PartialDist(r, v, h) == VerticalDist[r][v] + HorizontalDist[r][h]

\* The distance that a row has in the heap, whatever the units of its row group.
Dist == [r \in Rows |-> PartialDist(r, NumVertical, NumHorizontal) * Unit[RowGroupOf[r]]]

\* KNNCandidate.distance of what the heap holds.
HeapDist(x) == IF x = InitElement THEN MaxDist ELSE Dist[x]

\* GetPruningThreshold of a quantized row group: top.distance * ratio in its units, truncated.
QuantizedThreshold(g, topDist, n) ==
    Least(MaxPartialDist, (Ratio[n] * topDist) \div (RatioUnit * Unit[g]))

\* pruning_distance >= top.distance * ratio; not quantized, without division.
ReachesThreshold(g, dist, topDist, n) ==
    IF Quantization = "F32" THEN RatioUnit * dist >= Ratio[n] * topDist
                            ELSE dist >= QuantizedThreshold(g, topDist, n)

VARIABLES
    heap,           \* best_k: rows and, at first, the initialization element
    mutex,          \* holder of best_k_mutex while it merges
    queries,        \* number of queries started
    filtered,       \* the query has a predicate (FilteredSearch) or not (Search)
    selected,       \* the rows the predicate selects, every row without one
    pc,             \* where each searcher is
    order,          \* cluster_indices_in_access_order
    offset,         \* index in order: the loop variable of (Filtered)Search
    endIdx,         \* end_idx
    vertical,       \* current_vertical_dimension
    horizontal,     \* current_horizontal_dimension
    dimension,      \* current_dimension_idx
    positions       \* pruning_positions[0 .. n_vectors_not_pruned)

query == <<queries, filtered, selected>>
access == <<order, offset, endIdx>>
scan == <<vertical, horizontal, dimension, positions>>
vars == <<heap, mutex, query, pc, access, scan>>

-----------------------------------------------------------------------------
AccessOrders ==
    {o \in [1..NumClusters -> Clusters] : \A i, j \in 1..NumClusters : o[i] = o[j] => i = j}

RowsOf(g, c) == {r \in Rows : RowGroupOf[r] = g /\ ClusterOf[r] = c}

CurrentCluster(g) == order[g][offset[g] + 1]

\* The rows of the current cluster that the selection vector marks.
Passing(g) == RowsOf(g, CurrentCluster(g)) \cap selected

\* Row groups whose searcher takes part in the query: a filtered query leaves those
\* without a passing row alone.
Participants ==
    IF filtered THEN {RowGroupOf[r] : r \in selected} ELSE RowGroups

IterationDone == \A g \in Participants : pc[g] = "done"

\* GetPruningThreshold waits for the mutex, so it never runs during a merge; the heap
\* holds its largest distance at the top.
Prunable(g, dist, n) == \A x \in heap : ReachesThreshold(g, dist, HeapDist(x), n)

\* Mutant: the comparator of the heap is reversed.
IsTopReversed(x) == x \in heap /\ \A y \in heap : HeapDist(x) <= HeapDist(y)

IsTop(x) == x \in heap /\ \A y \in heap : HeapDist(y) <= HeapDist(x)

-----------------------------------------------------------------------------
Init ==
    /\ heap = {InitElement}
    /\ mutex = NoSearcher
    /\ queries = 1
    /\ \/ filtered = TRUE  /\ selected \in Filters
       \/ filtered = FALSE /\ selected = Rows
    /\ pc = [g \in RowGroups |-> "idle"]
    /\ order \in {[g \in RowGroups |-> o] : o \in AccessOrders}
    /\ offset = [g \in RowGroups |-> 0]
    /\ endIdx = [g \in RowGroups |-> 0]
    /\ vertical = [g \in RowGroups |-> 0]
    /\ horizontal = [g \in RowGroups |-> 0]
    /\ dimension = [g \in RowGroups |-> 0]
    /\ positions = [g \in RowGroups |-> {}]

\* The searchers live as long as the index: the next query finds them as the previous
\* one left them, and brings a heap of its own.
StartQuery(f, s) ==
    /\ queries < MaxQueries
    /\ IterationDone
    /\ queries' = queries + 1
    /\ filtered' = f
    /\ selected' = s
    /\ heap' = {InitElement}
    /\ pc' = [g \in RowGroups |-> "idle"]
    /\ UNCHANGED <<mutex, access, scan>>

\* Mutant: the offset of the previous query is kept.
InitializeSearchKeepsOffset(g) ==
    /\ pc[g] = "idle"
    /\ g \in Participants
    /\ \E o \in AccessOrders : order' = [order EXCEPT ![g] = o]
    /\ endIdx' = [endIdx EXCEPT ![g] = Least(NProbe, NumClusters)]
    /\ pc' = [pc EXCEPT ![g] = "loop"]
    /\ UNCHANGED <<heap, mutex, query, offset, scan>>

\* InitializeSearch, then the entry of Search or of the first FilteredSearch.
InitializeSearch(g) ==
    /\ pc[g] = "idle"
    /\ g \in Participants
    /\ \E o \in AccessOrders : order' = [order EXCEPT ![g] = o]
    /\ offset' = [offset EXCEPT ![g] = 0]
    /\ endIdx' = [endIdx EXCEPT ![g] = Least(NProbe, NumClusters)]
    /\ pc' = [pc EXCEPT ![g] = "loop"]
    /\ UNCHANGED <<heap, mutex, query, scan>>

\* Mutant: the end is not cut off at the number of clusters.
ResumeBeyondLastCluster ==
    /\ filtered
    /\ IterationDone
    /\ InitElement \in heap
    /\ endIdx' = [g \in RowGroups |-> IF g \in Participants
                                      THEN offset[g] + FollowUpProbes ELSE endIdx[g]]
    /\ pc' = [g \in RowGroups |-> IF g \in Participants THEN "loop" ELSE pc[g]]
    /\ UNCHANGED <<heap, mutex, query, order, offset, scan>>

\* Mutant: an iteration starts over at the first cluster.
ResumeFromFirstCluster ==
    /\ filtered
    /\ IterationDone
    /\ InitElement \in heap
    /\ offset' = [g \in RowGroups |-> IF g \in Participants THEN 0 ELSE offset[g]]
    /\ endIdx' = [g \in RowGroups |-> IF g \in Participants
                                      THEN Least(offset[g] + FollowUpProbes, NumClusters)
                                      ELSE endIdx[g]]
    /\ pc' = [g \in RowGroups |-> IF g \in Participants THEN "loop" ELSE pc[g]]
    /\ UNCHANGED <<heap, mutex, query, order, scan>>

\* The next iteration of a filtered search, while the heap lacks K valid candidates: every
\* participating searcher resumes behind the clusters it has probed.
ResumeFilteredSearch ==
    /\ filtered
    /\ IterationDone
    /\ InitElement \in heap
    /\ endIdx' = [g \in RowGroups |-> IF g \in Participants
                                      THEN Least(offset[g] + FollowUpProbes, NumClusters)
                                      ELSE endIdx[g]]
    /\ pc' = [g \in RowGroups |-> IF g \in Participants THEN "loop" ELSE pc[g]]
    /\ UNCHANGED <<heap, mutex, query, order, offset, scan>>

-----------------------------------------------------------------------------
(* The loop over clusters.                                                  *)

NextCluster(g) ==
    /\ offset' = [offset EXCEPT ![g] = @ + 1]
    /\ UNCHANGED <<order, endIdx>>

LeaveLoop(g) ==
    /\ pc[g] = "loop"
    /\ offset[g] >= endIdx[g]
    /\ pc' = [pc EXCEPT ![g] = "done"]
    /\ UNCHANGED <<heap, mutex, query, access, scan>>

\* A cluster that is empty, or without a passing row.
SkipCluster(g) ==
    /\ pc[g] = "loop"
    /\ offset[g] < endIdx[g]
    /\ Passing(g) = {}
    /\ NextCluster(g)
    /\ UNCHANGED <<heap, mutex, query, pc, scan>>

\* With few passing rows the warmup returns at once, before any dimension is scanned.
FewPass(g) ==
    LET n == Cardinality(RowsOf(g, CurrentCluster(g)))
    IN  Cardinality(Passing(g)) * SelectivityDen < n * (SelectivityDen - SelectivityNum)

\* Mutant: the horizontal position of the previous cluster is kept.
EnterClusterKeepsHorizontal(g) ==
    /\ pc[g] = "loop"
    /\ offset[g] < endIdx[g]
    /\ Passing(g) # {}
    /\ vertical' = [vertical EXCEPT ![g] = 0]
    /\ dimension' = [dimension EXCEPT ![g] = 0]
    /\ positions' = [positions EXCEPT ![g] = Passing(g)]
    /\ pc' = [pc EXCEPT ![g] = IF filtered /\ FewPass(g) THEN "init" ELSE "warmup"]
    /\ UNCHANGED <<heap, mutex, query, access, horizontal>>

EnterCluster(g) ==
    /\ pc[g] = "loop"
    /\ offset[g] < endIdx[g]
    /\ Passing(g) # {}
    /\ vertical' = [vertical EXCEPT ![g] = 0]
    /\ horizontal' = [horizontal EXCEPT ![g] = 0]
    /\ dimension' = [dimension EXCEPT ![g] = 0]
    /\ positions' = [positions EXCEPT ![g] = Passing(g)]
    /\ pc' = [pc EXCEPT ![g] = IF filtered /\ FewPass(g) THEN "init" ELSE "warmup"]
    /\ UNCHANGED <<heap, mutex, query, access>>

-----------------------------------------------------------------------------
(* Inside a cluster.                                                        *)

\* The vectors of the current cluster whose distance over v vertical dimensions has reached
\* the threshold.  Rows that do not pass carry a masked distance, half the largest one.
PrunableInWarmup(g, v) ==
    {r \in RowsOf(g, CurrentCluster(g)) :
        Prunable(g, IF r \in selected THEN PartialDist(r, v, 0) ELSE MaxPartialDist \div 2, v)}

\* The warmup stops when ceil(selectivity_threshold * n) vectors could be pruned.
EnoughPrunable(g, v) ==
    Cardinality(PrunableInWarmup(g, v)) * SelectivityDen
        >= Cardinality(RowsOf(g, CurrentCluster(g))) * SelectivityNum

IsNextStop(g, v) ==
    /\ v \in WarmupStops \cup {NumVertical}
    /\ v > vertical[g]
    /\ \A s \in WarmupStops \cup {NumVertical} : s > vertical[g] => s >= v

\* The warmup scans the next block of vertical dimensions of every vector of the cluster.
Warmup(g) ==
    /\ pc[g] = "warmup"
    /\ mutex = NoSearcher
    /\ \E v \in 1..NumVertical :
        /\ IsNextStop(g, v)
        /\ vertical' = [vertical EXCEPT ![g] = v]
        /\ dimension' = [dimension EXCEPT ![g] = v]
        /\ pc' = [pc EXCEPT ![g] =
                      IF EnoughPrunable(g, v) \/ v = NumVertical THEN "init" ELSE "warmup"]
    /\ UNCHANGED <<heap, mutex, query, access, horizontal, positions>>

\* Where a searcher goes once `left` vectors remain after v, h dimensions: a cluster with no
\* vector left is behind it.
Proceed(g, left, v, h) ==
    /\ positions' = [positions EXCEPT ![g] = left]
    /\ IF left = {}
       THEN pc' = [pc EXCEPT ![g] = "loop"] /\ NextCluster(g)
       ELSE /\ pc' = [pc EXCEPT ![g] = IF h < NumHorizontal \/ v < NumVertical
                                       THEN "prune" ELSE "lock"]
            /\ UNCHANGED access

\* Those of `rows` that stay after v vertical, h horizontal, n dimensions in total.
NotPruned(g, rows, v, h, n) == {r \in rows : ~Prunable(g, PartialDist(r, v, h), n)}

\* Mutant: the selection vector is not consulted.
InitPositionsArrayUnselected(g) ==
    /\ pc[g] = "init"
    /\ mutex = NoSearcher
    /\ Proceed(g, NotPruned(g, RowsOf(g, CurrentCluster(g)), vertical[g], 0, dimension[g]),
               vertical[g], 0)
    /\ UNCHANGED <<heap, mutex, query, vertical, horizontal, dimension>>

\* Prune reads the threshold again and turns what is left into the positions array.
InitPositionsArray(g) ==
    /\ pc[g] = "init"
    /\ mutex = NoSearcher
    /\ Proceed(g, NotPruned(g, Passing(g), vertical[g], 0, dimension[g]), vertical[g], 0)
    /\ UNCHANGED <<heap, mutex, query, vertical, horizontal, dimension>>

\* The horizontal blocks come first, ...
PruneHorizontal(g) ==
    /\ pc[g] = "prune"
    /\ mutex = NoSearcher
    /\ horizontal[g] < NumHorizontal
    /\ LET h == horizontal[g] + HDimSize
           n == dimension[g] + HDimSize
       IN  /\ horizontal' = [horizontal EXCEPT ![g] = h]
           /\ dimension' = [dimension EXCEPT ![g] = n]
           /\ Proceed(g, NotPruned(g, positions[g], vertical[g], h, n), vertical[g], h)
    /\ UNCHANGED <<heap, mutex, query, vertical>>

\* ... then the vertical dimensions that the warmup left.
PruneVertical(g) ==
    /\ pc[g] = "prune"
    /\ mutex = NoSearcher
    /\ horizontal[g] >= NumHorizontal
    /\ LET v == Least(vertical[g] + HDimSize, NumVertical)
           n == Least(dimension[g] + HDimSize, NumDimensions)
       IN  /\ vertical' = [vertical EXCEPT ![g] = v]
           /\ dimension' = [dimension EXCEPT ![g] = n]
           /\ Proceed(g, NotPruned(g, positions[g], v, horizontal[g], n), v, horizontal[g])
    /\ UNCHANGED <<heap, mutex, query, horizontal>>

-----------------------------------------------------------------------------
(* MergeIntoHeap: under the mutex, one vector after the other.              *)

LockHeap(g) ==
    /\ pc[g] = "lock"
    /\ mutex = NoSearcher
    /\ mutex' = g
    /\ pc' = [pc EXCEPT ![g] = "merge"]
    /\ UNCHANGED <<heap, query, access, scan>>

\* Mutant: nothing leaves a full heap.
InsertWithoutPop(r) ==
    IF Cardinality(heap) < K \/ \E x \in heap : Dist[r] < HeapDist(x)
    THEN heap' = heap \cup {r}
    ELSE UNCHANGED heap

\* Mutant: the vector replaces the top whatever its distance.
InsertAlways(r) ==
    IF Cardinality(heap) >= K
    THEN \E x \in heap : IsTop(x) /\ heap' = (heap \ {x}) \cup {r}
    ELSE heap' = heap \cup {r}

\* The vector goes in if the heap has room or it is closer than the top, which then leaves.
Insert(r) ==
    IF Cardinality(heap) < K \/ \E x \in heap : Dist[r] < HeapDist(x)
    THEN IF Cardinality(heap) >= K
         THEN \E x \in heap : IsTop(x) /\ heap' = (heap \ {x}) \cup {r}
         ELSE heap' = heap \cup {r}
    ELSE UNCHANGED heap

\* Mutant: the mutex is not released.
MergeIntoHeapKeepsMutex(g) ==
    /\ pc[g] = "merge"
    /\ \E r \in positions[g] :
        /\ Insert(r)
        /\ positions' = [positions EXCEPT ![g] = @ \ {r}]
    /\ IF positions'[g] = {}
       THEN pc' = [pc EXCEPT ![g] = "loop"] /\ NextCluster(g)
       ELSE UNCHANGED <<pc, access>>
    /\ UNCHANGED <<mutex, query, vertical, horizontal, dimension>>

\* The order of the vectors in a cluster is index creation's choice.
MergeIntoHeap(g) ==
    /\ pc[g] = "merge"
    /\ \E r \in positions[g] :
        /\ Insert(r)
        /\ positions' = [positions EXCEPT ![g] = @ \ {r}]
    /\ IF positions'[g] = {}
       THEN mutex' = NoSearcher /\ pc' = [pc EXCEPT ![g] = "loop"] /\ NextCluster(g)
       ELSE UNCHANGED <<mutex, pc, access>>
    /\ UNCHANGED <<query, vertical, horizontal, dimension>>

Step(g) ==
    \/ InitializeSearch(g)
    \/ LeaveLoop(g)
    \/ SkipCluster(g)
    \/ EnterCluster(g)
    \/ Warmup(g)
    \/ InitPositionsArray(g)
    \/ PruneHorizontal(g)
    \/ PruneVertical(g)
    \/ LockHeap(g)
    \/ MergeIntoHeap(g)

Next ==
    \/ \E g \in RowGroups : Step(g)
    \/ ResumeFilteredSearch
    \/ \E s \in Filters : StartQuery(TRUE, s)
    \/ StartQuery(FALSE, Rows)

Spec == Init /\ [][Next]_vars

\* A scheduled task runs until it ends; nothing forces a query to be issued.
FairSpec == Spec /\ \A g \in RowGroups : WF_vars(Step(g))

-----------------------------------------------------------------------------
(* Properties.                                                              *)

PCs == {"idle", "loop", "warmup", "init", "prune", "lock", "merge", "done"}

InCluster(g) == pc[g] \in {"warmup", "init", "prune", "lock", "merge"}

\* The variables range over what the comments at their declarations say.
TypeOK ==
    /\ heap \in SUBSET (Rows \cup {InitElement})
    /\ mutex \in RowGroups \cup {NoSearcher}
    /\ queries \in Nat
    /\ filtered \in BOOLEAN
    /\ selected \in SUBSET Rows
    /\ pc \in [RowGroups -> PCs]
    /\ order \in [RowGroups -> AccessOrders]
    /\ offset \in [RowGroups -> 0..NumClusters]
    /\ endIdx \in [RowGroups -> 0..NumClusters]
    /\ vertical \in [RowGroups -> 0..NumVertical]
    /\ horizontal \in [RowGroups -> 0..NumHorizontal]
    /\ dimension \in [RowGroups -> 0..NumDimensions]
    /\ positions \in [RowGroups -> SUBSET Rows]

ValidCandidates == heap \ {InitElement}

Probed(g) == {order[g][i] : i \in 1..offset[g]}

\* A selected row the searchers of this query are done with: its cluster is behind its
\* searcher, or is the current one and the row was pruned or merged.
IsConsidered(r) ==
    LET g == RowGroupOf[r]
    IN  /\ pc[g] # "idle"
        /\ \/ ClusterOf[r] \in Probed(g)
           \/ InCluster(g) /\ ClusterOf[r] = CurrentCluster(g) /\ r \notin positions[g]

Considered == {r \in selected : IsConsidered(r)}

\* Only rows that pass the predicate and lie in a cluster probed for this query get into the
\* heap, although searchers keep their state from one query to the next.
OnlyConsidered == ValidCandidates \subseteq Considered

\* No vector is offered to the heap twice: none that is still to be merged is in it.
NoDuplicates == \A g \in RowGroups : InCluster(g) => positions[g] \cap heap = {}

\* However stale the threshold a searcher prunes with, and however lossy the pruner: while
\* the initialization element is in the heap nothing has been discarded, and when it has left
\* the heap holds K candidates.
NothingLostBeforeFull ==
    IF InitElement \in heap
    THEN ValidCandidates = Considered /\ Cardinality(heap) <= K
    ELSE Cardinality(heap) = K

\* The count of results is right even where pruning is approximate: once every cluster is
\* probed there are K of them, or all the rows that pass.
ResultCount ==
    (IterationDone /\ \A g \in Participants : offset[g] = NumClusters)
        => Cardinality(ValidCandidates) = Least(K, Cardinality(selected))

\* A vector that reaches the merge has had every dimension counted, and the three dimension
\* counters of Prune agree (its two assertions), so its distance is its full distance.
DimensionsAgree ==
    \A g \in RowGroups : InCluster(g) =>
        /\ dimension[g] = vertical[g] + horizontal[g]
        /\ pc[g] \in {"lock", "merge"} =>
               vertical[g] = NumVertical /\ horizontal[g] = NumHorizontal

\* During a query the top of the heap never gets farther away: a searcher that prunes with a
\* threshold read earlier prunes too little, never too much.
ThresholdTightens ==
    [][queries' = queries => \A y \in heap' : \E x \in heap : HeapDist(y) <= HeapDist(x)]_vars

\* Truncation prunes vectors that are nearer than the top by less than a unit of their row group.
Tolerance == [r \in Rows |-> Unit[RowGroupOf[r]] - 1]

\* The heap promises what BestK says, if a vector is pruned only when it is no closer than
\* the top, up to the truncation of its threshold: searchers, their interleaving and their stale
\* thresholds lose no other neighbour, and none at all without quantization.
B == INSTANCE BestK WITH best <- ValidCandidates, offered <- Considered

ImplementsBestK == B!Spec

\* Every searcher that is called returns: no searcher waits for the mutex for ever.
SearchReturns == \A g \in RowGroups : (pc[g] = "loop") ~> (pc[g] = "done")

-----------------------------------------------------------------------------
(* Assumptions.                                                             *)

ASSUME DataAssumption ==
    /\ IsFiniteSet(Rows) /\ IsFiniteSet(Clusters)
    /\ RowGroupOf \in [Rows -> RowGroups]
    /\ ClusterOf \in [Rows -> Clusters]
    /\ Filters \subseteq SUBSET Rows
    /\ InitElement \notin Rows
    /\ NoSearcher \notin RowGroups

ASSUME ParameterAssumption ==
    /\ K \in Nat \ {0}
    /\ NumVertical \in Nat \ {0} /\ NumHorizontal \in Nat
    /\ HDimSize \in Nat \ {0}
    /\ \E n \in 0..NumHorizontal : NumHorizontal = n * HDimSize
    /\ WarmupStops \subseteq 0..NumVertical
    /\ NProbe \in Nat \ {0} /\ FollowUpProbes \in Nat \ {0}
    /\ MaxQueries \in Nat
    /\ SelectivityDen \in Nat \ {0} /\ SelectivityNum \in 1..SelectivityDen

\* Distances accumulate: they never shrink as dimensions are added, and none reaches the
\* distance of the initialization element.
ASSUME DistanceAssumption ==
    /\ VerticalDist \in [Rows -> [0..NumVertical -> Nat]]
    /\ HorizontalDist \in [Rows -> [0..NumHorizontal -> Nat]]
    /\ Quantization \in {"F32", "U8"}
    /\ Unit \in [RowGroups -> Nat \ {0}]
    /\ Quantization = "F32" => \A g \in RowGroups : Unit[g] = 1
    /\ Ratio \in [0..NumDimensions -> Nat]
    /\ RatioUnit \in Nat \ {0}
    /\ Ratio[NumDimensions] = RatioUnit
    /\ MaxDist \in Nat /\ MaxPartialDist \in Nat
    /\ \A r \in Rows, v \in 0..NumVertical, h \in 0..NumHorizontal :
          ~ReachesThreshold(RowGroupOf[r], PartialDist(r, v, h), MaxDist, v + h)

\* The pruner discards no vector closer than the top, up to the truncation of a threshold: true
\* of ratios of one, and what ADSampling's smaller ratios promise with high probability only.
ExactPruning ==
    \A r, x \in Rows, v \in 0..NumVertical, h \in 0..NumHorizontal :
        ReachesThreshold(RowGroupOf[r], PartialDist(r, v, h), Dist[x], v + h)
            => Dist[x] <= Dist[r] + Tolerance[r]

=============================================================================
