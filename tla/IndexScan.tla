----------------------------- MODULE IndexScan -----------------------------
(***************************************************************************)
(* The operator of a query without a predicate (PhysicalPDXearchIndexScan). *)
(* It is a source: the first call of GetData schedules one search task per  *)
(* row group and the caller blocks; the event that the last task finishes   *)
(* stores the result and unblocks it; later calls emit the result.          *)
(*                                                                          *)
(* A cluster is probed in one step, as in FilteredScan.tla, by a pruner that *)
(* may lose neighbours.  GetData holds the lock of the source state from its *)
(* check of search_completed on, but the event sets search_completed without *)
(* that lock: the steps of the two are cut there.                           *)
(***************************************************************************)
EXTENDS Naturals, Sequences, FiniteSets

CONSTANTS
    Rows, RowGroups, NumClusters,
    RowGroupOf,
    ClusterOf,      \* where its cluster comes in the access order: 1 .. NumClusters
    Dist,
    Tolerance,      \* by how much a row that is pruned may be nearer than the top, as in PDXearch
    K,              \* limit
    VectorSize,     \* STANDARD_VECTOR_SIZE
    NProbes         \* settings of n_probe

VARIABLES
    nProbe,
    exact,          \* whether the kernel's ExactPruning holds of this query; the code cannot tell
    searchStarted, searchCompleted,
    lock,           \* whether GetData holds the lock of the source state
    pc,             \* where the pipeline task is that calls GetData
    blocked,        \* the source state holds an interrupt state to call back
    event,          \* where the search event is
    tasks,          \* where each row group's search task is
    offset, endIdx, \* as in PDXearch
    best, offered,  \* valid candidates of the global heap, rows offered to it so far
    stored, result, \* whether pdxearch_row_ids is set, and to what
    idx,            \* pdxearch_row_ids_idx
    output          \* rows emitted so far

query == <<nProbe, exact>>
search == <<event, tasks, offset, endIdx, best, offered>>
call == <<searchStarted, lock, pc, blocked>>
source == <<idx, output>>
vars == <<query, searchCompleted, call, search, stored, result, source>>

B == INSTANCE BestK

-----------------------------------------------------------------------------
Least(a, b) == IF a <= b THEN a ELSE b

ClustersToProbe == IF nProbe = 0 \/ nProbe > NumClusters THEN NumClusters ELSE nProbe

Init ==
    /\ nProbe \in NProbes /\ exact \in BOOLEAN
    /\ searchStarted = FALSE /\ searchCompleted = FALSE
    /\ lock = FALSE
    /\ pc = "call"
    /\ blocked = FALSE
    /\ event = "none"
    /\ tasks = [g \in RowGroups |-> "none"]
    \* The loop variable of Search is its own, whatever the searcher did before.
    /\ offset = [g \in RowGroups |-> 0]
    /\ endIdx = [g \in RowGroups |-> 0]
    /\ best = {} /\ offered = {}
    /\ stored = FALSE /\ result = <<>>
    /\ idx = 0 /\ output = <<>>

-----------------------------------------------------------------------------
(* The search event.                                                        *)

\* Mutant: a row group gets no task.
ScheduleAllButOne ==
    /\ event' = "running"
    /\ \E g \in RowGroups :
          tasks' = [h \in RowGroups |-> IF h = g THEN "finished" ELSE "ready"]

Schedule ==
    /\ event' = "running"
    /\ tasks' = [g \in RowGroups |-> "ready"]

\* Mutant: the number of clusters is not cut off.
ExecuteTaskBeyondLastCluster(g) ==
    /\ tasks[g] = "ready"
    /\ tasks' = [tasks EXCEPT ![g] = "running"]
    /\ offset' = [offset EXCEPT ![g] = 0]
    /\ endIdx' = [endIdx EXCEPT ![g] = nProbe]
    /\ UNCHANGED <<query, searchCompleted, call, event, best, offered, stored, result, source>>

\* InitializeSearchForRowGroup, then SearchRowGroup starts.
ExecuteTask(g) ==
    /\ tasks[g] = "ready"
    /\ tasks' = [tasks EXCEPT ![g] = "running"]
    /\ offset' = [offset EXCEPT ![g] = 0]
    /\ endIdx' = [endIdx EXCEPT ![g] = Least(ClustersToProbe, NumClusters)]
    /\ UNCHANGED <<query, searchCompleted, call, event, best, offered, stored, result, source>>

\* The rows of the cluster that the searcher comes to next.
NextCluster(g) == {r \in Rows : RowGroupOf[r] = g /\ ClusterOf[r] = offset[g] + 1}

\* The rows of a cluster that reach the merge.  Nothing is pruned as long as the heap is not
\* full; later a pruner that is exact spares what is nearer than the top by its tolerance.
MaySurvive(survivors, rows) ==
    /\ survivors \subseteq rows
    /\ Cardinality(best) < K => survivors = rows
    /\ exact => \A r \in rows \ survivors, x \in best : Dist[x] <= Dist[r] + Tolerance[r]

\* The merge, one step under the mutex of the heap.
ProbeCluster(g) ==
    /\ tasks[g] = "running"
    /\ offset[g] < endIdx[g]
    /\ offset' = [offset EXCEPT ![g] = @ + 1]
    /\ offered' = offered \cup NextCluster(g)
    /\ \E survivors \in SUBSET NextCluster(g) :
        /\ MaySurvive(survivors, NextCluster(g))
        /\ best' \in SUBSET (best \cup survivors)
        /\ B!IsKBest(best', best \cup survivors)
    /\ UNCHANGED <<query, searchCompleted, call, event, tasks, endIdx, stored, result, source>>

FinishTask(g) ==
    /\ tasks[g] = "running"
    /\ offset[g] >= endIdx[g]
    /\ tasks' = [tasks EXCEPT ![g] = "finished"]
    /\ UNCHANGED <<query, searchCompleted, call, event, offset, endIdx, best, offered, stored,
                   result, source>>

\* BuildResultSetFromHeap: the valid candidates, the farthest popped first.
ResultSets == B!Ascending(best)

\* FinishEvent, once the last task has finished: the result is stored, ...
StoreResult ==
    /\ event = "running"
    /\ \A g \in RowGroups : tasks[g] = "finished"
    /\ event' = "stored"
    /\ result' \in ResultSets
    /\ stored' = TRUE
    /\ UNCHANGED <<query, searchCompleted, call, tasks, offset, endIdx, best, offered, source>>

\* Mutant: the search counts as completed before its result is stored.
SetCompletedBeforeResult ==
    /\ event = "running"
    /\ \A g \in RowGroups : tasks[g] = "finished"
    /\ searchCompleted' = TRUE
    /\ UNCHANGED <<query, call, search, stored, result, source>>

\* ... then the flag is set, ...
SetCompleted ==
    /\ event = "stored"
    /\ event' = "completed"
    /\ searchCompleted' = TRUE
    /\ UNCHANGED <<query, call, tasks, offset, endIdx, best, offered, stored, result, source>>

\* ... and then, under the lock, the blocked task is called back.
UnblockTasks ==
    /\ event = "completed"
    /\ ~lock
    /\ event' = "finished"
    /\ blocked' = FALSE
    /\ pc' = IF blocked THEN "call" ELSE pc
    /\ UNCHANGED <<query, searchStarted, searchCompleted, lock, tasks, offset, endIdx, best,
                   offered, stored, result, source>>

-----------------------------------------------------------------------------
(* GetData.                                                                 *)

\* Mutant: every call starts a search.
CallGetDataStartsAgain ==
    /\ pc = "call"
    /\ searchStarted' = TRUE
    /\ Schedule
    /\ pc' = "lock"
    /\ UNCHANGED <<query, searchCompleted, lock, blocked, offset, endIdx, best, offered, stored,
                   result, source>>

CallGetData ==
    /\ pc = "call"
    /\ searchStarted' = TRUE
    /\ IF searchStarted THEN UNCHANGED <<event, tasks>> ELSE Schedule
    /\ pc' = "lock"
    /\ UNCHANGED <<query, searchCompleted, lock, blocked, offset, endIdx, best, offered, stored,
                   result, source>>

\* Mutant: the lock does not cover what follows the check.
LockAndCheckUnlocks ==
    /\ pc = "lock"
    /\ ~lock
    /\ lock' = FALSE
    /\ pc' = IF searchCompleted THEN "emit" ELSE "block"
    /\ UNCHANGED <<query, searchStarted, searchCompleted, blocked, search, stored, result, source>>

LockAndCheck ==
    /\ pc = "lock"
    /\ ~lock
    /\ lock' = TRUE
    /\ pc' = IF searchCompleted THEN "emit" ELSE "block"
    /\ UNCHANGED <<query, searchStarted, searchCompleted, blocked, search, stored, result, source>>

BlockSource ==
    /\ pc = "block"
    /\ blocked' = TRUE
    /\ lock' = FALSE
    /\ pc' = "blocked"
    /\ UNCHANGED <<query, searchStarted, searchCompleted, search, stored, result, source>>

\* The next chunk, or the end.
Emit ==
    /\ pc = "emit"
    /\ lock' = FALSE
    /\ LET n == Least(VectorSize, Len(result) - idx)
       IN  IF n = 0
           THEN pc' = "finished" /\ UNCHANGED source
           ELSE /\ output' = output \o SubSeq(result, idx + 1, idx + n)
                /\ idx' = idx + n
                /\ pc' = "call"
    /\ UNCHANGED <<query, searchStarted, searchCompleted, blocked, search, stored, result>>

TaskStep(g) == ExecuteTask(g) \/ ProbeCluster(g) \/ FinishTask(g)

FinishEvent == StoreResult \/ SetCompleted \/ UnblockTasks

GetData == CallGetData \/ LockAndCheck \/ BlockSource \/ Emit

Next ==
    \/ \E g \in RowGroups : TaskStep(g)
    \/ FinishEvent
    \/ GetData

Spec == Init /\ [][Next]_vars

\* Scheduled tasks and events run, blocked or not the source holds up no thread, and the plan
\* above pulls until the operator is through.
FairSpec ==
    /\ Spec
    /\ \A g \in RowGroups : WF_vars(TaskStep(g))
    /\ WF_vars(FinishEvent)
    /\ WF_vars(GetData)

-----------------------------------------------------------------------------
(* Properties.                                                              *)

\* The variables range over what the comments at their declarations say.
TypeOK ==
    /\ nProbe \in Nat /\ exact \in BOOLEAN
    /\ searchStarted \in BOOLEAN /\ searchCompleted \in BOOLEAN
    /\ lock \in BOOLEAN /\ blocked \in BOOLEAN
    /\ pc \in {"call", "lock", "block", "blocked", "emit", "finished"}
    /\ event \in {"none", "running", "stored", "completed", "finished"}
    /\ tasks \in [RowGroups -> {"none", "ready", "running", "finished"}]
    /\ offset \in [RowGroups -> 0..NumClusters]
    /\ endIdx \in [RowGroups -> 0..NumClusters]
    /\ best \in SUBSET Rows /\ offered \in SUBSET Rows
    /\ stored \in BOOLEAN /\ result \in Seq(Rows)
    /\ idx \in 0..Cardinality(Rows) /\ output \in Seq(Rows)

\* No wakeup is lost: the task never blocks once the event is past waking it, however the check
\* of search_completed falls between the event's two last steps.
NoLostWakeup == pc \in {"block", "blocked"} => event # "finished"

\* GetData's assertions: when it emits, the result is there and the position within it.
ResultIsThere == pc = "emit" => stored /\ idx <= Len(result)

\* The rows of the clusters that n_probe selects in every row group.
RowsToProbe == {r \in Rows : ClusterOf[r] <= ClustersToProbe}

\* With an exact pruner the answer holds the nearest rows of the clusters that n_probe selects,
\* up to the truncation of quantized thresholds: no row group, and no last cluster, is left out.
NearestOfProbed ==
    stored /\ exact => B!IsNearlyKBest({result[i] : i \in DOMAIN result}, RowsToProbe)

\* Whatever the pruner loses, the operator answers once, with K rows or all those of the clusters
\* to probe, nearest first; each row of the answer is emitted exactly once, and the query ends.
Promise == INSTANCE KNNQuery WITH
    asked <- RowsToProbe, answered <- stored, answer <- result,
    delivered <- output, finished <- (pc = "finished")

ImplementsKNNQuery == Promise!FairSpec

-----------------------------------------------------------------------------
ASSUME RowAssumption ==
    /\ IsFiniteSet(Rows) /\ IsFiniteSet(RowGroups)
    /\ RowGroupOf \in [Rows -> RowGroups]
    /\ ClusterOf \in [Rows -> 1..NumClusters]
    /\ Dist \in [Rows -> Nat] /\ Tolerance \in [Rows -> Nat]

ASSUME SizeAssumption ==
    /\ NumClusters \in Nat \ {0}
    /\ K \in Nat \ {0} /\ VectorSize \in Nat \ {0}
    /\ NProbes \subseteq Nat

=============================================================================
