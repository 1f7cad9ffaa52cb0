---------------------------- MODULE FilteredScan ----------------------------
(***************************************************************************)
(* The operator of a filtered query (PhysicalPDXearchIndexFilteredScan).    *)
(* Its child emits the ids of the rows that pass the predicate.  In the     *)
(* sink phase each thread collects the ids of one row group at a time and   *)
(* probes that row group's nearest clusters with them.  When all threads    *)
(* are through, events probe further clusters, until the heap holds K valid *)
(* candidates or the iterations are used up.  The source phase emits.       *)
(*                                                                          *)
(* A cluster is probed in one step, with what PDXearch.tla shows of         *)
(* searchers that share a heap: the initialization element is in it, and    *)
(* nothing is pruned, as long as it holds fewer than K rows.  Afterwards a  *)
(* lossy pruner may discard any row, and one that is exact only rows that   *)
(* are no nearer than the top, up to the truncation of a threshold.         *)
(***************************************************************************)
EXTENDS Naturals, Sequences, FiniteSets

CONSTANTS
    Rows, NumRowGroups, NumClusters,
    RowGroupOf,     \* row group id of a row: 0 .. NumRowGroups - 1
    ClusterOf,      \* where its cluster comes in the access order: 1 .. NumClusters
    Dist,
    Tolerance,      \* by how much a row that is pruned may be nearer than the top, as in PDXearch
    K,              \* limit
    FollowUp,       \* PARTITIONS_TO_PROBE_PER_ROW_GROUP_PER_FOLLOW_UP_ITERATION
    VectorSize,     \* STANDARD_VECTOR_SIZE
    Threads,        \* threads that run the sink pipeline
    Filters,        \* sets of rows that predicates select
    NProbes         \* settings of n_probe

RowGroups == 0 .. NumRowGroups - 1

VARIABLES
    selected,       \* the rows that pass the predicate
    nProbe,
    exact,          \* whether the kernel's ExactPruning holds of this query; the code cannot tell
    nextRowGroup,   \* the child scan: the next row group to hand to a thread
    scanning,       \* rows the child has yet to emit of each thread's row group
    pc,             \* where each thread is
    chunk,          \* chunk a thread works on while it searches the previous row group
    currentId,      \* current_row_group_id
    passing,        \* current_row_group_passing_rowids
    searched,       \* the local list of row groups with passing tuples
    searchedAll,    \* the global list of them
    evaluator,      \* rows that each row group's predicate evaluator marks
    offset, endIdx, \* as in PDXearch
    best, offered,  \* valid candidates of the global heap, rows offered to it so far
    iterations,     \* num_probe_iterations_performed_thus_far
    phase,          \* of the operator
    tasks,          \* tasks of the running search iteration event
    result, idx,    \* pdxearch_row_ids, pdxearch_row_ids_idx
    output          \* rows emitted so far

query == <<selected, nProbe, exact>>
child == <<nextRowGroup, scanning>>
local == <<pc, chunk, currentId, passing, searched>>
searchers == <<evaluator, offset, endIdx>>
heap == <<best, offered>>
source == <<result, idx, output>>
vars == <<query, child, local, searchedAll, searchers, heap, iterations, phase, tasks, source>>

B == INSTANCE BestK

-----------------------------------------------------------------------------
Least(a, b) == IF a <= b THEN a ELSE b
CeilDiv(a, b) == (a + b - 1) \div b
RangeOf(s) == {s[i] : i \in DOMAIN s}
RowsOf(g) == {r \in Rows : RowGroupOf[r] = g}

\* Mutant: no probing at all where n_probe is zero, which stands for all clusters.
PartitionsOnFirstIterationZeroIsNone == Least(nProbe, NumClusters)

\* partitions_to_probe_per_row_group_on_first_iteration
PartitionsOnFirstIteration ==
    IF nProbe = 0 \/ nProbe > NumClusters THEN NumClusters ELSE nProbe

MaximumNumberOfProbeIterations(partitionsOnFirst) ==
    IF partitionsOnFirst >= NumClusters
    THEN 1
    ELSE 1 + CeilDiv(NumClusters - partitionsOnFirst, FollowUp)

\* max_num_probe_iterations is initialized with its declaration, when the number of partitions
\* on the first iteration is still 0: the constructor's body sets that number later.
MaxNumProbeIterations == MaximumNumberOfProbeIterations(0)

-----------------------------------------------------------------------------
(* Searchers.                                                               *)

\* Mutant: the searcher keeps the predicate evaluator of the query before.
InitializeKeepsEvaluator(g, rows) ==
    /\ UNCHANGED evaluator
    /\ offset' = [offset EXCEPT ![g] = 0]
    /\ endIdx' = [endIdx EXCEPT ![g] = Least(PartitionsOnFirstIteration, NumClusters)]

\* InitializeFilteredSearchForRowGroup with these rows, then FilteredSearchRowGroup starts.
InitializeAndSearch(g, rows) ==
    /\ evaluator' = [evaluator EXCEPT ![g] = rows]
    /\ offset' = [offset EXCEPT ![g] = 0]
    /\ endIdx' = [endIdx EXCEPT ![g] = Least(PartitionsOnFirstIteration, NumClusters)]

\* Mutant: the end is not cut off at the number of clusters.
ResumeSearchBeyondLastCluster(g) ==
    /\ endIdx' = [endIdx EXCEPT ![g] = offset[g] + FollowUp]
    /\ UNCHANGED <<evaluator, offset>>

\* FilteredSearchRowGroup of a follow-up iteration starts.
ResumeSearch(g) ==
    /\ endIdx' = [endIdx EXCEPT ![g] = Least(offset[g] + FollowUp, NumClusters)]
    /\ UNCHANGED <<evaluator, offset>>

HasReturned(g) == offset[g] >= endIdx[g]

\* The passing rows of the cluster that the searcher comes to next.
NextCluster(g) == {r \in evaluator[g] : ClusterOf[r] = offset[g] + 1}

\* The rows of a cluster that reach the merge.  Nothing is pruned as long as the heap is not
\* full; later a pruner that is exact spares what is nearer than the top by its tolerance.
MaySurvive(survivors, rows) ==
    /\ survivors \subseteq rows
    /\ Cardinality(best) < K => survivors = rows
    /\ exact => \A r \in rows \ survivors, x \in best : Dist[x] <= Dist[r] + Tolerance[r]

\* The merge, one step under the mutex of the heap.
ProbeCluster(g) ==
    /\ ~HasReturned(g)
    /\ offset' = [offset EXCEPT ![g] = @ + 1]
    /\ offered' = offered \cup NextCluster(g)
    /\ \E survivors \in SUBSET NextCluster(g) :
        /\ MaySurvive(survivors, NextCluster(g))
        /\ best' \in SUBSET (best \cup survivors)
        /\ B!IsKBest(best', best \cup survivors)
    /\ UNCHANGED <<query, child, local, searchedAll, evaluator, endIdx, iterations, phase,
                   tasks, source>>

-----------------------------------------------------------------------------
(* The sink.                                                                *)

Init ==
    /\ selected \in Filters /\ nProbe \in NProbes /\ exact \in BOOLEAN
    /\ nextRowGroup = 0
    /\ scanning = [t \in Threads |-> {}]
    /\ pc = [t \in Threads |-> "scan"]
    /\ chunk = [t \in Threads |-> {}]
    /\ currentId = [t \in Threads |-> 0]
    /\ passing = [t \in Threads |-> {}]
    /\ searched = [t \in Threads |-> <<>>]
    /\ searchedAll = <<>>
    \* The searchers are as an earlier query left them: one that all rows passed and that
    \* probed one cluster per row group.
    /\ evaluator = [g \in RowGroups |-> RowsOf(g)]
    /\ offset = [g \in RowGroups |-> 1]
    /\ endIdx = [g \in RowGroups |-> 1]
    /\ best = {} /\ offered = {}
    /\ iterations = 0
    /\ phase = "sink"
    /\ tasks = <<>>
    /\ result = <<>> /\ idx = 0 /\ output = <<>>

\* A thread scans one row group at a time, in the order of their ids.
TakeRowGroup(t) ==
    /\ pc[t] = "scan" /\ scanning[t] = {}
    /\ nextRowGroup < NumRowGroups
    /\ scanning' = [scanning EXCEPT ![t] = RowsOf(nextRowGroup) \cap selected]
    /\ nextRowGroup' = nextRowGroup + 1
    /\ UNCHANGED <<query, local, searchedAll, searchers, heap, iterations, phase, tasks, source>>

\* The child emits a chunk: rows of one row group.
Emits(t, c, g) ==
    /\ pc[t] = "scan"
    /\ c # {} /\ c \subseteq scanning[t]
    /\ \A r \in c : RowGroupOf[r] = g
    /\ scanning' = [scanning EXCEPT ![t] = @ \ c]
    /\ UNCHANGED nextRowGroup

\* Sink, as long as the row group stays the same or nothing has been collected.
SinkCollect(t, c, g) ==
    /\ Emits(t, c, g)
    /\ ~(g > currentId[t] /\ passing[t] # {})
    /\ currentId' = [currentId EXCEPT ![t] = g]
    /\ passing' = [passing EXCEPT ![t] = @ \cup c]
    /\ UNCHANGED <<query, pc, chunk, searched, searchedAll, searchers, heap, iterations, phase,
                   tasks, source>>

\* Sink, when a new row group begins: the previous one is searched first, ...
SinkSearch(t, c, g) ==
    /\ Emits(t, c, g)
    /\ g > currentId[t] /\ passing[t] # {}
    /\ InitializeAndSearch(currentId[t], passing[t])
    /\ chunk' = [chunk EXCEPT ![t] = c]
    /\ pc' = [pc EXCEPT ![t] = "sink"]
    /\ UNCHANGED <<query, currentId, passing, searched, searchedAll, heap, iterations, phase,
                   tasks, source>>

\* Mutant: the rows of the previous row group are not cleared.
SinkSearchedKeepsRows(t) ==
    /\ pc[t] = "sink"
    /\ HasReturned(currentId[t])
    /\ searched' = [searched EXCEPT ![t] = Append(@, currentId[t])]
    /\ passing' = [passing EXCEPT ![t] = @ \cup chunk[t]]
    /\ \E r \in chunk[t] : currentId' = [currentId EXCEPT ![t] = RowGroupOf[r]]
    /\ chunk' = [chunk EXCEPT ![t] = {}]
    /\ pc' = [pc EXCEPT ![t] = "scan"]
    /\ UNCHANGED <<query, child, searchedAll, searchers, heap, iterations, phase, tasks, source>>

\* ... and then the chunk is collected.
SinkSearched(t) ==
    /\ pc[t] = "sink"
    /\ HasReturned(currentId[t])
    /\ searched' = [searched EXCEPT ![t] = Append(@, currentId[t])]
    /\ passing' = [passing EXCEPT ![t] = chunk[t]]
    /\ \E r \in chunk[t] : currentId' = [currentId EXCEPT ![t] = RowGroupOf[r]]
    /\ chunk' = [chunk EXCEPT ![t] = {}]
    /\ pc' = [pc EXCEPT ![t] = "scan"]
    /\ UNCHANGED <<query, child, searchedAll, searchers, heap, iterations, phase, tasks, source>>

\* Combine: the last row group of the thread is searched, ...
CombineSearch(t) ==
    /\ pc[t] = "scan" /\ scanning[t] = {} /\ nextRowGroup = NumRowGroups
    /\ passing[t] # {}
    /\ InitializeAndSearch(currentId[t], passing[t])
    /\ pc' = [pc EXCEPT ![t] = "combine"]
    /\ UNCHANGED <<query, child, chunk, currentId, passing, searched, searchedAll, heap,
                   iterations, phase, tasks, source>>

CombineSearched(t) ==
    /\ pc[t] = "combine"
    /\ HasReturned(currentId[t])
    /\ searched' = [searched EXCEPT ![t] = Append(@, currentId[t])]
    /\ searchedAll' = searchedAll \o searched'[t]
    /\ pc' = [pc EXCEPT ![t] = "combined"]
    /\ UNCHANGED <<query, child, chunk, currentId, passing, searchers, heap, iterations, phase,
                   tasks, source>>

\* ... if there is one: a thread may have seen no passing row.
CombineNothing(t) ==
    /\ pc[t] = "scan" /\ scanning[t] = {} /\ nextRowGroup = NumRowGroups
    /\ passing[t] = {}
    /\ searchedAll' = searchedAll \o searched[t]
    /\ pc' = [pc EXCEPT ![t] = "combined"]
    /\ UNCHANGED <<query, child, chunk, currentId, passing, searched, searchers, heap,
                   iterations, phase, tasks, source>>

-----------------------------------------------------------------------------
(* Search iterations.                                                       *)

InitializationElementAtTop == Cardinality(best) < K

\* Size of the heap, the initialization element included.
HeapSize == IF InitializationElementAtTop THEN Cardinality(best) + 1 ELSE Cardinality(best)

\* BuildResultSetFromHeap: the valid candidates, the farthest popped first.
ResultSets == B!Ascending(best)

\* Mutant: the initialization element counts as a result.
HeapFilledCountsInitialization == HeapSize = K

HeapFilledWithKValidResults == HeapSize = K /\ ~InitializationElementAtTop

\* Mutant: the event probes every row group.
ScheduleAll == tasks' = [i \in 1..NumRowGroups |-> [rowGroup |-> i - 1, state |-> "ready"]]

\* PhysicalFilteredScanSearchIterationEvent::Schedule: one task per row group with passing tuples.
Schedule ==
    tasks' = [i \in DOMAIN searchedAll |-> [rowGroup |-> searchedAll[i], state |-> "ready"]]

\* The sink phase ends with the result, or goes on with another search iteration.
TryFinalizeSinkPhase ==
    IF HeapFilledWithKValidResults \/ iterations' = MaxNumProbeIterations
    THEN /\ phase' = "source"
         /\ result' \in ResultSets
         /\ UNCHANGED tasks
    ELSE /\ phase' = "iterate"
         /\ Schedule
         /\ UNCHANGED result

Finalize ==
    /\ phase = "sink"
    /\ \A t \in Threads : pc[t] = "combined"
    /\ iterations' = iterations + 1
    /\ TryFinalizeSinkPhase
    /\ UNCHANGED <<query, child, local, searchedAll, searchers, heap, idx, output>>

ExecuteTask(i) ==
    /\ phase = "iterate"
    /\ tasks[i].state = "ready"
    /\ ResumeSearch(tasks[i].rowGroup)
    /\ tasks' = [tasks EXCEPT ![i].state = "running"]
    /\ UNCHANGED <<query, child, local, searchedAll, heap, iterations, phase, source>>

FinishTask(i) ==
    /\ phase = "iterate"
    /\ tasks[i].state = "running"
    /\ HasReturned(tasks[i].rowGroup)
    /\ tasks' = [tasks EXCEPT ![i].state = "finished"]
    /\ UNCHANGED <<query, child, local, searchedAll, searchers, heap, iterations, phase, source>>

\* Runs once the last task has finished, or at once if there is none.
FinishEvent ==
    /\ phase = "iterate"
    /\ \A i \in DOMAIN tasks : tasks[i].state = "finished"
    /\ iterations' = iterations + 1
    /\ TryFinalizeSinkPhase
    /\ UNCHANGED <<query, child, local, searchedAll, searchers, heap, idx, output>>

-----------------------------------------------------------------------------
(* The source.                                                              *)

GetData ==
    /\ phase = "source"
    /\ LET n == Least(VectorSize, Len(result) - idx)
       IN  IF n = 0
           THEN phase' = "finished" /\ UNCHANGED <<idx, output>>
           ELSE /\ output' = output \o SubSeq(result, idx + 1, idx + n)
                /\ idx' = idx + n
                /\ UNCHANGED phase
    /\ UNCHANGED <<query, child, local, searchedAll, searchers, heap, iterations, tasks, result>>

ThreadStep(t) ==
    \/ TakeRowGroup(t)
    \/ \E c \in SUBSET scanning[t], g \in RowGroups : SinkCollect(t, c, g)
    \/ \E c \in SUBSET scanning[t], g \in RowGroups : SinkSearch(t, c, g)
    \/ SinkSearched(t)
    \/ CombineSearch(t)
    \/ CombineSearched(t)
    \/ CombineNothing(t)

TaskStep(i) == ExecuteTask(i) \/ FinishTask(i)

Next ==
    \/ \E t \in Threads : ThreadStep(t)
    \/ \E g \in RowGroups : ProbeCluster(g)
    \/ Finalize
    \/ \E i \in DOMAIN tasks : TaskStep(i)
    \/ FinishEvent
    \/ GetData

Spec == Init /\ [][Next]_vars

\* Scheduled threads, tasks and events run; the plan above pulls until the operator is through.
FairSpec ==
    /\ Spec
    /\ \A t \in Threads : WF_vars(ThreadStep(t))
    /\ \A g \in RowGroups : WF_vars(ProbeCluster(g))
    /\ \A i \in 1..NumRowGroups : WF_vars(i \in DOMAIN tasks /\ TaskStep(i))
    /\ WF_vars(Finalize) /\ WF_vars(FinishEvent) /\ WF_vars(GetData)

-----------------------------------------------------------------------------
(* Properties.                                                              *)

\* The variables range over what the comments at their declarations say.
TypeOK ==
    /\ selected \in SUBSET Rows /\ nProbe \in Nat /\ exact \in BOOLEAN
    /\ nextRowGroup \in 0..NumRowGroups
    /\ scanning \in [Threads -> SUBSET Rows]
    /\ pc \in [Threads -> {"scan", "sink", "combine", "combined"}]
    /\ chunk \in [Threads -> SUBSET Rows]
    /\ currentId \in [Threads -> RowGroups]
    /\ passing \in [Threads -> SUBSET Rows]
    /\ searched \in [Threads -> Seq(RowGroups)]
    /\ searchedAll \in Seq(RowGroups)
    /\ evaluator \in [RowGroups -> SUBSET Rows]
    /\ offset \in [RowGroups -> 0..NumClusters]
    /\ endIdx \in [RowGroups -> 0..NumClusters]
    /\ best \in SUBSET Rows /\ offered \in SUBSET Rows
    /\ iterations \in 0..MaxNumProbeIterations
    /\ phase \in {"sink", "iterate", "source", "finished"}
    /\ tasks \in Seq([rowGroup : RowGroups, state : {"ready", "running", "finished"}])
    /\ result \in Seq(Rows) /\ idx \in Nat /\ output \in Seq(Rows)

\* What the code asserts: a thread meets row groups in order and stages the rows of one of
\* them at a time, the heap never outgrows the limit, and the iterations end in time.
AssertionsHold ==
    /\ \A t \in Threads :
          /\ \A r \in scanning[t] : currentId[t] <= RowGroupOf[r]
          /\ passing[t] \subseteq RowsOf(currentId[t])
    /\ phase \in {"sink", "iterate"} => HeapSize <= K
    /\ iterations <= MaxNumProbeIterations

\* Whatever the chunks and the threads: when the sink is through, each row group with passing
\* rows has been initialized with all of them and is on the list of the follow-up iterations
\* exactly once.  A row group missing there is never probed again, and one listed twice is
\* probed by two tasks at a time.
EveryRowGroupListedOnce ==
    phase # "sink" =>
        /\ RangeOf(searchedAll) = {RowGroupOf[r] : r \in selected}
        /\ Len(searchedAll) = Cardinality(RangeOf(searchedAll))
        /\ \A g \in RangeOf(searchedAll) : evaluator[g] = RowsOf(g) \cap selected

\* Rows that fail the predicate never get into the heap, although row groups without passing
\* rows still have the predicate evaluator of an earlier query.
OnlySelected == offered \subseteq selected

\* With n_probe 0, or as high as the number of clusters, and an exact pruner the answer holds the
\* nearest passing rows, up to the truncation of quantized thresholds: the first iteration has
\* been through every cluster of every row group with passing rows.
ExactWhenAllClustersProbed ==
    phase \in {"source", "finished"} /\ exact /\ (nProbe = 0 \/ nProbe >= NumClusters)
        => B!IsNearlyKBest(RangeOf(result), selected)

\* Whatever the pruner loses, the answer has K rows or all those that pass, nearest first; each
\* row of it is emitted exactly once, and the query ends.
Promise == INSTANCE KNNQuery WITH
    asked <- selected, answered <- (phase \in {"source", "finished"}), answer <- result,
    delivered <- output, finished <- (phase = "finished")

ImplementsKNNQuery == Promise!FairSpec

-----------------------------------------------------------------------------
ASSUME ThreadAssumption == Threads # {}

ASSUME RowAssumption ==
    /\ IsFiniteSet(Rows)
    /\ RowGroupOf \in [Rows -> RowGroups]
    /\ ClusterOf \in [Rows -> 1..NumClusters]
    /\ Dist \in [Rows -> Nat] /\ Tolerance \in [Rows -> Nat]
    /\ Filters \subseteq SUBSET Rows

ASSUME SizeAssumption ==
    /\ NumRowGroups \in Nat \ {0} /\ NumClusters \in Nat \ {0}
    /\ K \in Nat \ {0}
    /\ FollowUp \in Nat \ {0} /\ VectorSize \in Nat \ {0}
    /\ NProbes \subseteq Nat

=============================================================================
