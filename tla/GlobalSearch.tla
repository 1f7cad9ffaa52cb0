---------------------------- MODULE GlobalSearch ----------------------------
(***************************************************************************)
(* The global variant: one index over the whole table, one searcher, and    *)
(* a heap of its own for every query.  A filtered query first collects the  *)
(* ids of the passing rows from the threads that scan the table             *)
(* (PhysicalGlobalPDXearchIndexFilteredScan); one without a predicate is a  *)
(* table function.  Then SearchGlobal or FilteredSearchGlobal visits        *)
(* clusters: while the heap has room a cluster is scanned in full, later    *)
(* ones are pruned.  One thread searches, so a cluster is one step.         *)
(***************************************************************************)
EXTENDS Naturals, Sequences, FiniteSets

CONSTANTS
    Rows, NumClusters,
    ClusterOf,      \* where its cluster comes in the access order: 1 .. NumClusters
    Dist,
    K,              \* limit
    Exact,          \* whether the pruner discards no vector closer than the top
    VectorSize,     \* STANDARD_VECTOR_SIZE
    Threads,        \* threads that run the sink pipeline
    Filters,        \* sets of rows that predicates select
    NProbes         \* settings of n_probe

VARIABLES
    filtered,       \* the query has a predicate
    selected,       \* the rows it selects, every row without one
    nProbe,         \* GetEffectiveNProbe
    remaining,      \* passing rows that the child scan has yet to emit
    local,          \* local_vectors of each thread, and ...
    combined,       \* ... whether they have been moved to
    collected,      \* collected_vectors
    ivfNProbe,      \* ivf_nprobe of the searcher, which outlives the query
    evaluator,      \* the rows that the predicate evaluator marks
    visited,        \* clusters visited
    heap,           \* local_heap
    phase,
    result, idx,    \* pdxearch_row_ids, current_result_idx
    output          \* rows emitted so far

query == <<filtered, selected, nProbe>>
sink == <<remaining, local, combined, collected>>
searcher == <<ivfNProbe, evaluator, visited, heap>>
source == <<result, idx, output>>
vars == <<query, sink, searcher, phase, source>>

B == INSTANCE BestK WITH best <- heap, offered <- evaluator, Tolerance <- [r \in Rows |-> 0]

-----------------------------------------------------------------------------
Least(a, b) == IF a <= b THEN a ELSE b

ClustersToVisit == IF ivfNProbe = 0 \/ ivfNProbe > NumClusters THEN NumClusters ELSE ivfNProbe

\* The rows of the cluster to visit next that the selection vector marks.
Passing == {r \in evaluator : ClusterOf[r] = visited + 1}

Init ==
    /\ \/ filtered = TRUE  /\ selected \in Filters /\ phase = "sink"
       \/ filtered = FALSE /\ selected = Rows      /\ phase = "start"
    /\ nProbe \in NProbes
    /\ remaining = selected
    /\ local = [t \in Threads |-> {}]
    /\ combined = [t \in Threads |-> FALSE]
    /\ collected = {}
    /\ ivfNProbe \in NProbes
    /\ evaluator = {} /\ visited = 0 /\ heap = {}
    /\ result = <<>> /\ idx = 0 /\ output = <<>>

-----------------------------------------------------------------------------
(* The sink of a filtered query.                                            *)

\* The child emits a chunk to a thread, which keeps it.
Sink(t) ==
    /\ phase = "sink" /\ ~combined[t]
    /\ \E c \in SUBSET remaining \ {{}} :
        /\ remaining' = remaining \ c
        /\ local' = [local EXCEPT ![t] = @ \cup c]
    /\ UNCHANGED <<query, combined, collected, searcher, phase, source>>

Combine(t) ==
    /\ phase = "sink" /\ ~combined[t]
    /\ remaining = {}
    /\ collected' = collected \cup local[t]
    /\ combined' = [combined EXCEPT ![t] = TRUE]
    /\ UNCHANGED <<query, remaining, local, searcher, phase, source>>

\* Finalize with nothing collected: the source is never asked.
FinalizeWithoutRows ==
    /\ phase = "sink" /\ \A t \in Threads : combined[t]
    /\ collected = {}
    /\ phase' = "no output"
    /\ UNCHANGED <<query, sink, searcher, source>>

\* Mutant: the searcher keeps the n_probe of an earlier query.
SetNProbeKeepsOld == UNCHANGED ivfNProbe

SetNProbe == ivfNProbe' = nProbe

\* Finalize, or InitGlobal of the table function: the search begins, with the predicate
\* evaluator that the collected rows make.
BeginSearch ==
    /\ \/ /\ phase = "sink" /\ \A t \in Threads : combined[t]
          /\ collected # {}
          /\ evaluator' = collected
       \/ /\ phase = "start"
          /\ evaluator' = Rows
    /\ SetNProbe
    /\ visited' = 0 /\ heap' = {}
    /\ phase' = "search"
    /\ UNCHANGED <<query, sink, source>>

-----------------------------------------------------------------------------
(* SearchGlobal and FilteredSearchGlobal.                                   *)

VisitNext ==
    /\ phase = "search"
    /\ visited < ClustersToVisit
    /\ visited' = visited + 1
    /\ UNCHANGED <<query, sink, ivfNProbe, evaluator, phase, source>>

SkipCluster ==
    /\ VisitNext
    /\ Passing = {}
    /\ UNCHANGED heap

\* Mutant: as many vectors as the query asks for go in, whatever the heap holds.
StartIgnoresHeap ==
    /\ VisitNext
    /\ Passing # {}
    /\ Cardinality(heap) < K
    /\ \E first \in SUBSET Passing :
        /\ Cardinality(first) = Least(K, Cardinality(Passing))
        /\ \A r \in first, s \in Passing \ first : Dist[r] <= Dist[s]
        /\ heap' = heap \cup first

\* Start, FilteredStart: of a cluster's vectors, as many of the closest as the heap has room for.
Start ==
    /\ VisitNext
    /\ Passing # {}
    /\ Cardinality(heap) < K
    /\ \E first \in SUBSET Passing :
        /\ Cardinality(first) = Least(K - Cardinality(heap), Cardinality(Passing))
        /\ \A r \in first, s \in Passing \ first : Dist[r] <= Dist[s]
        /\ heap' = heap \cup first

\* The vectors whose whole distance is below the threshold, the top of the heap.
Closer == {r \in Passing : \E x \in heap : Dist[r] < Dist[x]}

\* Mutant: survivors do not displace what is in a full heap.
MergeKeepsHeap(survivors) == heap' = heap /\ survivors \subseteq Closer

\* MergeIntoHeap: the farthest make room.
Merge(survivors) ==
    /\ heap' \in SUBSET (heap \cup survivors)
    /\ B!IsKBest(heap', heap \cup survivors)

\* Warmup, Prune and MergeIntoHeap, with the heap full.
PruneAndMerge ==
    /\ VisitNext
    /\ Passing # {}
    /\ Cardinality(heap) >= K
    /\ \E survivors \in SUBSET Closer :
        /\ Exact => survivors = Closer
        /\ Merge(survivors)

\* BuildResultSetFromHeap: the farthest is popped first.
BuildResultSet ==
    /\ phase = "search"
    /\ visited >= ClustersToVisit
    /\ result' \in B!Ascending(heap)
    /\ phase' = "source"
    /\ UNCHANGED <<query, sink, searcher, idx, output>>

-----------------------------------------------------------------------------
(* The source: GetData, or GlobalScan of the table function.                *)

Emit ==
    /\ phase = "source"
    /\ LET n == Least(VectorSize, Len(result) - idx)
       IN  IF n = 0
           THEN phase' = "finished" /\ UNCHANGED <<idx, output>>
           ELSE /\ output' = output \o SubSeq(result, idx + 1, idx + n)
                /\ idx' = idx + n
                /\ UNCHANGED phase
    /\ UNCHANGED <<query, sink, searcher, result>>

EndWithoutOutput ==
    /\ phase = "no output"
    /\ phase' = "finished"
    /\ UNCHANGED <<query, sink, searcher, source>>

ThreadStep(t) == Sink(t) \/ Combine(t)

SearchStep ==
    \/ FinalizeWithoutRows
    \/ BeginSearch
    \/ SkipCluster
    \/ Start
    \/ PruneAndMerge
    \/ BuildResultSet
    \/ Emit
    \/ EndWithoutOutput

Next ==
    \/ \E t \in Threads : ThreadStep(t)
    \/ SearchStep

Spec == Init /\ [][Next]_vars

\* Scheduled threads run, and the plan above pulls until the operator is through.
FairSpec ==
    /\ Spec
    /\ \A t \in Threads : WF_vars(ThreadStep(t))
    /\ WF_vars(SearchStep)

-----------------------------------------------------------------------------
(* Properties.                                                              *)

\* The variables range over what the comments at their declarations say.
TypeOK ==
    /\ filtered \in BOOLEAN /\ selected \in SUBSET Rows /\ nProbe \in NProbes
    /\ remaining \in SUBSET Rows
    /\ local \in [Threads -> SUBSET Rows]
    /\ combined \in [Threads -> BOOLEAN]
    /\ collected \in SUBSET Rows /\ evaluator \in SUBSET Rows
    /\ ivfNProbe \in NProbes
    /\ visited \in 0..NumClusters
    /\ heap \in SUBSET Rows /\ Cardinality(heap) <= K
    /\ phase \in {"sink", "start", "search", "source", "no output", "finished"}
    /\ result \in Seq(Rows) /\ idx \in Nat /\ output \in Seq(Rows)

\* The rows of the clusters that this query's n_probe selects.
RowsToVisit ==
    {r \in selected : ClusterOf[r] <= NumClusters
                      /\ (nProbe = 0 \/ nProbe > NumClusters \/ ClusterOf[r] <= nProbe)}

PhasesWithAnswer == {"source", "no output", "finished"}

\* Whichever threads collect, whatever an earlier query left in the searcher and however often
\* the heap fills across clusters: the answer has K rows or all those to be visited, nearest
\* first; each row of it is emitted exactly once, and the query ends.
Promise == INSTANCE KNNQuery WITH
    asked <- RowsToVisit, answered <- (phase \in PhasesWithAnswer),
    answer <- result, delivered <- output, finished <- (phase = "finished")

ImplementsKNNQuery == Promise!FairSpec

Visited == {r \in RowsToVisit : ClusterOf[r] <= visited}

\* The first cluster with passing rows.
FirstCluster ==
    {r \in RowsToVisit : \A s \in RowsToVisit : ClusterOf[r] <= ClusterOf[s]}

\* With an exact pruner the heap is a K-best subset of what has been visited, provided that the
\* first cluster with passing rows filled it, so that no later one was cut off to fit.
NearestIfFilledAtOnce ==
    phase \in {"search", "source", "finished"} /\ Exact /\ Cardinality(FirstCluster) >= K
        => B!IsKBest(heap, Visited)

\* What the comments at Start and FilteredSearchGlobal say, "we do not prune vectors" and "we
\* cannot prune until we fill the heap": until then no vector is discarded that is closer than
\* one the heap keeps.
NotPrunedUntilFull ==
    [][Cardinality(heap) < K /\ visited' = visited + 1
           => \A r \in Passing \ heap', x \in heap' : Dist[x] <= Dist[r]]_vars

-----------------------------------------------------------------------------
ASSUME ThreadAssumption == Threads # {}

ASSUME RowAssumption ==
    /\ IsFiniteSet(Rows)
    /\ ClusterOf \in [Rows -> 1..NumClusters]
    /\ Dist \in [Rows -> Nat]
    /\ Filters \subseteq SUBSET Rows

ASSUME SizeAssumption ==
    /\ NumClusters \in Nat \ {0}
    /\ K \in Nat \ {0} /\ VectorSize \in Nat \ {0}
    /\ NProbes \subseteq Nat
    /\ Exact \in BOOLEAN

=============================================================================
