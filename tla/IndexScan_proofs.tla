-------------------------- MODULE IndexScan_proofs --------------------------
(***************************************************************************)
(* Theorems about the unfiltered operator, for any rows, row groups and     *)
(* clusters, any limit and any size of a chunk.                             *)
(***************************************************************************)
EXTENDS IndexScan, AnswerLemmas

-----------------------------------------------------------------------------
(* The answer in the heap.                                                  *)

LEMMA SameCardinality == \A S : B!Cardinality(S) = Cardinality(S)
  BY Zenon DEF B!Cardinality, Cardinality

LEMMA SubsetsOfRows ==
  ASSUME NEW S \in SUBSET Rows
  PROVE  /\ IsFiniteSet(S) /\ Cardinality(S) \in Nat
         /\ Cardinality(Rows) \in Nat /\ Cardinality(S) <= Cardinality(Rows)
  BY RowAssumption, FS_Subset, FS_CardinalityType

\* What is popped from a heap is a sequence of its rows, each of them once.
LEMMA AscendingIsResult ==
  ASSUME NEW S \in SUBSET Rows, NEW s \in B!Ascending(S)
  PROVE  /\ s \in Seq(Rows) /\ Len(s) = Cardinality(S)
         /\ {s[i] : i \in DOMAIN s} = S
         /\ \A i, j \in DOMAIN s : i < j => s[i] # s[j] /\ Dist[s[i]] <= Dist[s[j]]
<1>1. IsFiniteSet(S)
  BY SubsetsOfRows
<1>2. /\ s \in [1..Cardinality(S) -> S]
      /\ \A i, j \in DOMAIN s : i < j => s[i] # s[j] /\ Dist[s[i]] <= Dist[s[j]]
  BY SameCardinality, Zenon DEF B!Ascending
<1>3. s \in Seq(S) /\ Len(s) = Cardinality(S) /\ {s[i] : i \in DOMAIN s} = S
  <2>1. \A i, j \in DOMAIN s : i < j => s[i] # s[j]
    BY <1>2
  <2> QED BY <1>1, <1>2, <2>1, SequenceOfSet, Zenon
<1>4. s \in Seq(Rows)
  BY <1>3
<1> QED BY <1>2, <1>3, <1>4

LEMMA ClustersToProbeType == nProbe \in Nat => ClustersToProbe \in 0 .. NumClusters
  BY SizeAssumption DEF ClustersToProbe

-----------------------------------------------------------------------------
(* Who is where: the flags, the lock and the program counters.              *)

ControlTypes ==
    /\ nProbe \in Nat /\ exact \in BOOLEAN
    /\ searchStarted \in BOOLEAN /\ searchCompleted \in BOOLEAN
    /\ lock \in BOOLEAN /\ blocked \in BOOLEAN /\ stored \in BOOLEAN
    /\ pc \in {"call", "lock", "block", "blocked", "emit", "finished"}
    /\ event \in {"none", "running", "stored", "completed", "finished"}

ControlInv ==
    /\ ControlTypes
    /\ searchStarted <=> event # "none"
    /\ stored <=> event \in {"stored", "completed", "finished"}
    /\ searchCompleted <=> event \in {"completed", "finished"}
    /\ lock <=> pc \in {"block", "emit"}
    /\ blocked <=> pc = "blocked"
    /\ event = "none" => pc = "call"
    /\ pc \in {"block", "blocked"} => event # "finished"
    /\ pc \in {"emit", "finished"} => searchCompleted

LEMMA ControlInit == Init => ControlInv
  BY SizeAssumption DEF Init, ControlInv, ControlTypes

LEMMA ControlStep == ControlInv /\ [Next]_vars => ControlInv'
<1> SUFFICES ASSUME ControlInv, [Next]_vars PROVE ControlInv'
  OBVIOUS
<1> USE DEF ControlInv, ControlTypes, query
<1>1. ASSUME NEW g \in RowGroups, TaskStep(g) PROVE ControlInv'
  BY <1>1 DEF TaskStep, ExecuteTask, ProbeCluster, FinishTask, call, source
<1>2. CASE StoreResult
  BY <1>2 DEF StoreResult, call, source
<1>3. CASE SetCompleted
  BY <1>3 DEF SetCompleted, call, source
<1>4. CASE UnblockTasks
  BY <1>4 DEF UnblockTasks, source
<1>5. CASE CallGetData
  BY <1>5 DEF CallGetData, Schedule, source
<1>6. CASE LockAndCheck
  BY <1>6 DEF LockAndCheck, search, source
<1>7. CASE BlockSource
  BY <1>7 DEF BlockSource, search, source
<1>8. CASE Emit
  BY <1>8 DEF Emit, search, source
<1>9. CASE UNCHANGED vars
  BY <1>9 DEF vars, call, search
<1> QED
  BY <1>1, <1>2, <1>3, <1>4, <1>5, <1>6, <1>7, <1>8, <1>9 DEF Next, FinishEvent, GetData

-----------------------------------------------------------------------------
(* What has been searched.                                                  *)

TasksInv ==
    /\ tasks \in [RowGroups -> {"none", "ready", "running", "finished"}]
    /\ offset \in [RowGroups -> 0..NumClusters]
    /\ endIdx \in [RowGroups -> 0..NumClusters]
    /\ event = "none" => \A g \in RowGroups : tasks[g] = "none"
    /\ event \in {"stored", "completed", "finished"} => \A g \in RowGroups : tasks[g] = "finished"
    /\ \A g \in RowGroups :
        /\ tasks[g] \in {"none", "ready"} => offset[g] = 0
        /\ tasks[g] = "running" => endIdx[g] = ClustersToProbe /\ offset[g] <= endIdx[g]
        /\ tasks[g] = "finished" => offset[g] = ClustersToProbe

\* The rows offered are those of the clusters that each searcher has passed.  The heap has K of
\* them or all of them whatever is pruned, and the nearest ones if the pruner is exact.
HeapInv ==
    /\ offered = {r \in Rows : ClusterOf[r] <= offset[RowGroupOf[r]]}
    /\ best \in SUBSET offered
    /\ best = offered \/ Cardinality(best) = K
    /\ Cardinality(best) <= K
    /\ exact => IsNearest(Dist, Tolerance, best, offered)

LEMMA SearchInit == Init => TasksInv /\ HeapInv
<1> SUFFICES ASSUME Init PROVE TasksInv /\ HeapInv
  OBVIOUS
<1>1. TasksInv
  BY SizeAssumption DEF Init, TasksInv
<1>2. offered = {r \in Rows : ClusterOf[r] <= offset[RowGroupOf[r]]}
  BY RowAssumption, SizeAssumption DEF Init
<1>3. Cardinality({}) = 0 /\ K \in Nat
  BY FS_EmptySet, SizeAssumption
<1> QED BY <1>1, <1>2, <1>3 DEF Init, HeapInv, IsNearest

LEMMA TasksStep == ControlInv /\ TasksInv /\ [Next]_vars => TasksInv'
<1> SUFFICES ASSUME ControlInv, TasksInv, [Next]_vars PROVE TasksInv'
  OBVIOUS
<1>0. ClustersToProbe \in 0 .. NumClusters /\ NumClusters \in Nat
  BY ClustersToProbeType, SizeAssumption DEF ControlInv, ControlTypes
<1> USE DEF TasksInv
<1>1. ASSUME NEW g \in RowGroups, ExecuteTask(g) PROVE TasksInv'
  <2>1. ClustersToProbe' = ClustersToProbe
    BY <1>1 DEF ExecuteTask, ClustersToProbe, query
  <2> HIDE DEF ClustersToProbe, query
  <2>2. Least(ClustersToProbe, NumClusters) = ClustersToProbe
    BY <1>0 DEF Least
  <2> QED BY <1>0, <1>1, <2>1, <2>2 DEF ExecuteTask
<1>2. ASSUME NEW g \in RowGroups, ProbeCluster(g) PROVE TasksInv'
  <2>1. ClustersToProbe' = ClustersToProbe
    BY <1>2 DEF ProbeCluster, ClustersToProbe, query
  <2> QED BY <1>0, <1>2, <2>1 DEF ProbeCluster
<1>3. ASSUME NEW g \in RowGroups, FinishTask(g) PROVE TasksInv'
  <2>1. ClustersToProbe' = ClustersToProbe
    BY <1>3 DEF FinishTask, ClustersToProbe, query
  <2> QED BY <1>0, <1>3, <2>1 DEF FinishTask
<1>4. CASE StoreResult
  <2>1. ClustersToProbe' = ClustersToProbe
    BY <1>4 DEF StoreResult, ClustersToProbe, query
  <2> QED BY <1>4, <2>1 DEF StoreResult
<1>5. CASE CallGetData
  <2>1. ClustersToProbe' = ClustersToProbe
    BY <1>5 DEF CallGetData, ClustersToProbe, query
  <2> QED BY <1>5, <2>1 DEF CallGetData, Schedule, ControlInv
<1>6. CASE SetCompleted \/ UnblockTasks
  <2>1. /\ ClustersToProbe' = ClustersToProbe
        /\ UNCHANGED <<tasks, offset, endIdx>>
    BY <1>6 DEF SetCompleted, UnblockTasks, ClustersToProbe, query
  <2>2. event' \in {"completed", "finished"} /\ event \in {"stored", "completed"}
    BY <1>6 DEF SetCompleted, UnblockTasks
  <2> QED BY <2>1, <2>2
<1>7. CASE LockAndCheck \/ BlockSource \/ Emit \/ UNCHANGED vars
  <2>1. ClustersToProbe' = ClustersToProbe /\ UNCHANGED <<event, tasks, offset, endIdx>>
    BY <1>7 DEF LockAndCheck, BlockSource, Emit, vars, search, ClustersToProbe, query
  <2> QED BY <2>1
<1> QED
  BY <1>1, <1>2, <1>3, <1>4, <1>5, <1>6, <1>7 DEF Next, TaskStep, FinishEvent, GetData

LEMMA NextClusterType == ASSUME NEW g PROVE NextCluster(g) \in SUBSET Rows
  BY DEF NextCluster

\* Whatever reaches the merge, the heap goes on holding K of the rows offered or all of them, and
\* the nearest ones if the pruner is exact.
LEMMA ProbeMerges ==
  ASSUME HeapInv, NEW g \in RowGroups, ProbeCluster(g)
  PROVE  /\ best' \in SUBSET offered'
         /\ best' = offered' \/ Cardinality(best') = K
         /\ Cardinality(best') <= K
         /\ exact' => IsNearest(Dist, Tolerance, best', offered')
<1>1. offered' = offered \cup NextCluster(g) /\ exact' = exact
  BY DEF ProbeCluster, query
<1>2. PICK survivors \in SUBSET NextCluster(g) :
        /\ MaySurvive(survivors, NextCluster(g))
        /\ best' \in SUBSET (best \cup survivors)
        /\ B!IsKBest(best', best \cup survivors)
  BY DEF ProbeCluster
<1>3. IsMerge(Rows, K, Dist, offered, best, NextCluster(g), survivors, best')
  <2>1. /\ best' = best \cup survivors \/ Cardinality(best') = K
        /\ Cardinality(best') <= K
        /\ \A b \in best', s \in (best \cup survivors) \ best' : Dist[b] <= Dist[s]
    BY <1>2, SameCardinality DEF B!IsKBest
  <2>2. Cardinality(best) < K => survivors = NextCluster(g)
    BY <1>2 DEF MaySurvive
  <2>3. IsFiniteSet(Rows) /\ K \in Nat /\ Dist \in [Rows -> Nat]
    BY RowAssumption, SizeAssumption
  <2> QED BY <1>2, <2>1, <2>2, <2>3, NextClusterType DEF HeapInv, IsMerge
<1>4. ASSUME exact PROVE IsNearest(Dist, Tolerance, best', offered \cup NextCluster(g))
  <2>1. \A s \in NextCluster(g) \ survivors, b \in best : Dist[b] <= Dist[s] + Tolerance[s]
    BY <1>2, <1>4 DEF MaySurvive
  <2>2. IsNearest(Dist, Tolerance, best, offered)
    BY <1>4 DEF HeapInv
  <2>3. Tolerance \in [Rows -> Nat]
    BY RowAssumption
  <2> HIDE DEF NextCluster
  <2> QED BY <1>3, <2>1, <2>2, <2>3, MergeKeepsNearest
<1> HIDE DEF NextCluster
<1>5. /\ best' \in SUBSET (offered \cup NextCluster(g)) /\ Cardinality(best') <= K
      /\ best' = offered \cup NextCluster(g) \/ Cardinality(best') = K
  BY <1>3, MergeFills
<1> QED BY <1>1, <1>4, <1>5

LEMMA HeapStep == TasksInv /\ HeapInv /\ [Next]_vars => HeapInv'
<1> SUFFICES ASSUME TasksInv, HeapInv, [Next]_vars PROVE HeapInv'
  OBVIOUS
<1>1. ASSUME NEW g \in RowGroups, ProbeCluster(g) PROVE HeapInv'
  <2>1. /\ offset' = [offset EXCEPT ![g] = @ + 1]
        /\ offered' = offered \cup NextCluster(g)
    BY <1>1 DEF ProbeCluster
  <2>2. \A r \in Rows : RowGroupOf[r] \in RowGroups /\ ClusterOf[r] \in Nat
    BY RowAssumption, SizeAssumption
  <2>3. offset \in [RowGroups -> Nat]
    BY SizeAssumption DEF TasksInv
  <2>4. offered' = {r \in Rows : ClusterOf[r] <= offset'[RowGroupOf[r]]}
    <3>1. ASSUME NEW r \in Rows
          PROVE  ClusterOf[r] <= offset'[RowGroupOf[r]]
                   <=> ClusterOf[r] <= offset[RowGroupOf[r]] \/ r \in NextCluster(g)
      <4>1. RowGroupOf[r] \in RowGroups /\ ClusterOf[r] \in Nat /\ offset[RowGroupOf[r]] \in Nat
        BY <2>2, <2>3
      <4>2. CASE RowGroupOf[r] = g
        <5>1. offset'[g] = offset[g] + 1
          BY <2>1, <2>3
        <5> QED BY <4>1, <4>2, <5>1 DEF NextCluster
      <4>3. CASE RowGroupOf[r] # g
        <5>1. offset'[RowGroupOf[r]] = offset[RowGroupOf[r]]
          BY <2>1, <2>3, <4>1, <4>3
        <5> QED BY <4>3, <5>1 DEF NextCluster
      <4> QED BY <4>2, <4>3
    <3>2. offered = {r \in Rows : ClusterOf[r] <= offset[RowGroupOf[r]]}
      BY DEF HeapInv
    <3>3. \A r : r \in offered' <=> r \in {q \in Rows : ClusterOf[q] <= offset'[RowGroupOf[q]]}
      BY <2>1, <3>1, <3>2, NextClusterType, Zenon
    <3> QED BY <3>3, Zenon
  <2> QED BY <1>1, <2>4, ProbeMerges DEF HeapInv
<1>2. ASSUME UNCHANGED <<exact, offset, best, offered>> PROVE HeapInv'
  BY <1>2 DEF HeapInv
<1>3. ASSUME NEW g \in RowGroups, ExecuteTask(g) PROVE UNCHANGED <<exact, offset, best, offered>>
  BY <1>3 DEF ExecuteTask, TasksInv, query
<1>4. ASSUME NEW g \in RowGroups, FinishTask(g) PROVE UNCHANGED <<exact, offset, best, offered>>
  BY <1>4 DEF FinishTask, query
<1>5. FinishEvent \/ GetData \/ UNCHANGED vars => UNCHANGED <<exact, offset, best, offered>>
  BY DEF FinishEvent, StoreResult, SetCompleted, UnblockTasks, GetData, CallGetData, LockAndCheck,
         BlockSource, Emit, vars, query, search
<1> QED BY <1>1, <1>2, <1>3, <1>4, <1>5 DEF Next, TaskStep

-----------------------------------------------------------------------------
(* The result and how far it has been emitted.                              *)

ResultInv ==
    /\ ~stored => result = <<>>
    /\ stored => result \in B!Ascending(best)
    /\ result \in Seq(Rows)
    /\ idx \in 0 .. Len(result)
    /\ output = SubSeq(result, 1, idx)
    /\ pc = "finished" => idx = Len(result)

LEMMA ResultInit == Init => ResultInv
  BY EmptySeq, SubSeqEmpty DEF Init, ResultInv

\* A call of GetData emits the next rows of the result.
LEMMA EmitProgress ==
  ASSUME ResultInv, Emit
  PROVE  LET n == Least(VectorSize, Len(result) - idx)
         IN  /\ n \in 0 .. VectorSize /\ idx + n \in 0 .. Len(result)
             /\ n = 0 => idx = Len(result)
             /\ output \o SubSeq(result, idx + 1, idx + n) = SubSeq(result, 1, idx + n)
<1> DEFINE n == Least(VectorSize, Len(result) - idx)
<1>1. result \in Seq(Rows) /\ idx \in 0 .. Len(result) /\ output = SubSeq(result, 1, idx)
  BY DEF ResultInv
<1>2. /\ n \in 0 .. VectorSize /\ idx + n \in 0 .. Len(result) /\ n \in 0 .. Len(result) - idx
      /\ n = 0 => idx = Len(result)
  BY <1>1, SizeAssumption, LenProperties DEF Least
<1> HIDE DEF n
<1>3. SubSeq(result, 1, idx) \o SubSeq(result, idx + 1, idx + n) = SubSeq(result, 1, idx + n)
  BY <1>1, <1>2, NextRows
<1> QED BY <1>1, <1>2, <1>3 DEF n

LEMMA ResultStep == ControlInv /\ TasksInv /\ HeapInv /\ ResultInv /\ [Next]_vars => ResultInv'
<1> SUFFICES ASSUME ControlInv, TasksInv, HeapInv, ResultInv, [Next]_vars PROVE ResultInv'
  OBVIOUS
<1>1. CASE StoreResult
  <2>1. /\ result' \in B!Ascending(best) /\ stored' /\ UNCHANGED <<best, pc, idx, output>>
        /\ ~stored /\ pc # "finished"
    BY <1>1 DEF StoreResult, ResultSets, ControlInv, call, source
  <2>2. best \in SUBSET Rows
    BY DEF HeapInv
  <2>3. result' \in Seq(Rows) /\ Len(result') \in Nat
    BY <2>1, <2>2, AscendingIsResult, LenProperties
  <2>4. idx = 0 /\ output = <<>>
    BY <2>1, SubSeqEmpty DEF ResultInv
  <2>5. result' \in B!Ascending(best)'
    BY <2>1, SameCardinality DEF B!Ascending
  <2>6. SubSeq(result', 1, 0) = <<>>
    BY SubSeqEmpty
  <2> QED BY <2>1, <2>3, <2>4, <2>5, <2>6 DEF ResultInv
<1>2. CASE Emit
  <2> DEFINE n == Least(VectorSize, Len(result) - idx)
  <2>1. /\ idx' = idx + n /\ output' = SubSeq(result, 1, idx + n)
        /\ idx' \in 0 .. Len(result) /\ (pc' = "finished" => idx' = Len(result))
        /\ UNCHANGED <<best, stored, result>>
    <3>1. n \in 0 .. VectorSize /\ idx + n \in 0 .. Len(result) /\ (n = 0 => idx = Len(result))
          /\ output \o SubSeq(result, idx + 1, idx + n) = SubSeq(result, 1, idx + n)
      BY <1>2, EmitProgress, Zenon
    <3>2. idx \in Int
      BY DEF ResultInv
    <3>3. CASE n = 0
      BY <1>2, <3>1, <3>2, <3>3 DEF Emit, ResultInv, source, search
    <3>4. CASE n # 0
      BY <1>2, <3>1, <3>2, <3>4 DEF Emit, search
    <3> QED BY <3>3, <3>4
  <2>2. result' \in B!Ascending(best)' <=> result \in B!Ascending(best)
    BY <2>1, SameCardinality DEF B!Ascending
  <2> HIDE DEF n
  <2> QED BY <2>1, <2>2 DEF ResultInv
<1>3. ASSUME UNCHANGED <<best, stored, result, idx, output>>, pc' = "finished" => pc = "finished"
      PROVE  ResultInv'
  <2>1. result' \in B!Ascending(best)' <=> result \in B!Ascending(best)
    BY <1>3, SameCardinality DEF B!Ascending
  <2> QED BY <1>3, <2>1 DEF ResultInv
<1>4. ASSUME NEW g \in RowGroups, ProbeCluster(g) PROVE ResultInv'
  <2>1. ~stored /\ UNCHANGED <<stored, result, idx, output, pc>>
    BY <1>4 DEF ProbeCluster, ControlInv, TasksInv, call, source
  <2> QED BY <2>1 DEF ResultInv
<1>5. ASSUME NEW g \in RowGroups, ExecuteTask(g) \/ FinishTask(g) PROVE ResultInv'
  BY <1>3, <1>5 DEF ExecuteTask, FinishTask, call, source
<1>6. CASE SetCompleted \/ UnblockTasks \/ UNCHANGED vars
  BY <1>3, <1>6 DEF SetCompleted, UnblockTasks, vars, call, search, source
<1>7. CASE CallGetData \/ LockAndCheck \/ BlockSource
  BY <1>3, <1>7 DEF CallGetData, LockAndCheck, BlockSource, search, source
<1> QED
  BY <1>1, <1>2, <1>4, <1>5, <1>6, <1>7 DEF Next, TaskStep, FinishEvent, GetData

-----------------------------------------------------------------------------
(* Theorems.                                                                *)

IInv == ControlInv /\ TasksInv /\ HeapInv /\ ResultInv

LEMMA Invariance == Spec => []IInv
<1>1. Init => IInv
  BY ControlInit, SearchInit, ResultInit DEF IInv
<1>2. IInv /\ [Next]_vars => IInv'
  BY ControlStep, TasksStep, HeapStep, ResultStep DEF IInv
<1> QED BY <1>1, <1>2, PTL DEF Spec

\* The operator's variables keep their ranges, for every size of a table and every limit
\* (PDXearchScanGlobalSourceState).
THEOREM TypeCorrect == Spec => []TypeOK
<1>1. IInv => TypeOK
  <2> SUFFICES ASSUME IInv PROVE TypeOK
    OBVIOUS
  <2>1. offered \in SUBSET Rows /\ best \in SUBSET Rows
    BY DEF IInv, HeapInv
  <2>2. result \in Seq(Rows) /\ Len(result) \in Nat /\ idx \in 0 .. Len(result)
    BY LenProperties DEF IInv, ResultInv
  <2>3. Len(result) <= Cardinality(Rows) /\ Cardinality(Rows) \in Nat
    <3>1. CASE stored
      BY <3>1, <2>1, AscendingIsResult, SubsetsOfRows DEF IInv, ResultInv
    <3>2. CASE ~stored
      BY <3>2, SubsetsOfRows DEF IInv, ResultInv
    <3> QED BY <3>1, <3>2
  <2>4. output \in Seq(Rows)
    <3>1. \A i \in 1 .. idx : result[i] \in Rows
      BY <2>2, ElementOfSeq
    <3>2. SubSeq(result, 1, idx) \in Seq(Rows)
      BY <2>2, <3>1, SubSeqProperties
    <3> QED BY <3>2 DEF IInv, ResultInv
  <2>5. idx \in 0 .. Cardinality(Rows)
    BY <2>2, <2>3
  <2> QED
    BY <2>1, <2>2, <2>4, <2>5 DEF IInv, ControlInv, ControlTypes, TasksInv, TypeOK
<1> QED BY <1>1, Invariance, PTL

\* The task that asks for rows never blocks after the event's last chance to wake it: the flag
\* is set before the event takes the lock, and the task holds the lock from its check of the
\* flag until it is blocked (pdxearch_index_scan_physical.cpp:156-190).
THEOREM NoLostWakeupAlways == Spec => []NoLostWakeup
<1>1. IInv => NoLostWakeup
  BY DEF IInv, ControlInv, NoLostWakeup
<1> QED BY <1>1, Invariance, PTL

\* GetData's assertions hold whenever it emits (pdxearch_index_scan_physical.cpp:192-219).
THEOREM ResultIsThereAlways == Spec => []ResultIsThere
<1>1. IInv => ResultIsThere
  BY LenProperties DEF IInv, ControlInv, ResultInv, ResultIsThere
<1> QED BY <1>1, Invariance, PTL

\* Once the last task has finished, every cluster to probe of every row group has been probed.
LEMMA AllOffered ==
  ASSUME TasksInv, HeapInv, \A g \in RowGroups : tasks[g] = "finished"
  PROVE  offered = RowsToProbe
<1>1. \A g \in RowGroups : offset[g] = ClustersToProbe
  BY DEF TasksInv
<1>2. \A r \in Rows : RowGroupOf[r] \in RowGroups
  BY RowAssumption
<1> QED BY <1>1, <1>2 DEF HeapInv, RowsToProbe

\* Whatever the interleaving of the search tasks: if the pruner is exact, the answer holds the
\* nearest rows of the clusters that n_probe selects, up to the truncation of quantized
\* thresholds (PDXearchScanSearchEvent).
THEOREM NearestOfProbedAlways == Spec => []NearestOfProbed
<1>1. IInv => NearestOfProbed
  <2> SUFFICES ASSUME IInv, stored, exact
               PROVE  B!IsNearlyKBest({result[i] : i \in DOMAIN result}, RowsToProbe)
    BY DEF NearestOfProbed
  <2>1. best \in SUBSET Rows
    BY DEF IInv, HeapInv
  <2>2. {result[i] : i \in DOMAIN result} = best
    BY <2>1, AscendingIsResult DEF IInv, ResultInv
  <2>3. \A g \in RowGroups : tasks[g] = "finished"
    BY DEF IInv, ControlInv, TasksInv
  <2>4. offered = RowsToProbe
    BY <2>3, AllOffered DEF IInv
  <2> HIDE DEF RowsToProbe
  <2> QED BY <2>2, <2>4, SameCardinality DEF IInv, HeapInv, IsNearest, B!IsNearlyKBest
<1> QED BY <1>1, Invariance, PTL

\* Without quantization (F32: no row has a tolerance) and with an exact pruner the answer holds the
\* nearest rows of the clusters that n_probe selects, without any leeway.
THEOREM NearestOfProbedF32 ==
  ASSUME \A r \in Rows : Tolerance[r] = 0
  PROVE  Spec => [](stored /\ exact => B!IsKBest({result[i] : i \in DOMAIN result}, RowsToProbe))
<1>1. NearestOfProbed => (stored /\ exact => B!IsKBest({result[i] : i \in DOMAIN result}, RowsToProbe))
  <2> DEFINE answer == {result[i] : i \in DOMAIN result}
  <2> SUFFICES ASSUME B!IsNearlyKBest(answer, RowsToProbe) PROVE B!IsKBest(answer, RowsToProbe)
    BY DEF NearestOfProbed
  <2>1. RowsToProbe \subseteq Rows
    BY DEF RowsToProbe
  <2> HIDE DEF answer, RowsToProbe
  <2>2. answer \subseteq Rows
    BY <2>1 DEF B!IsNearlyKBest
  <2>3. \A b \in answer, r \in RowsToProbe \ answer : Dist[b] <= Dist[r]
    <3> TAKE b \in answer, r \in RowsToProbe \ answer
    <3>1. Dist[b] <= Dist[r] + Tolerance[r]
      BY DEF B!IsNearlyKBest
    <3>2. Tolerance[r] = 0 /\ Dist[r] \in Nat
      BY <2>1, RowAssumption
    <3> QED BY <3>1, <3>2
  <2> QED BY <2>3 DEF B!IsNearlyKBest, B!IsKBest
<1> QED BY <1>1, NearestOfProbedAlways, PTL

-----------------------------------------------------------------------------
(* The promise to the plan above.                                           *)

LEMMA SameCardinalityInPromise == \A S : Promise!Cardinality(S) = Cardinality(S)
  BY Zenon DEF Promise!Cardinality, Cardinality

LEMMA StoreIsAnswer == ASSUME IInv, StoreResult PROVE Promise!Answer
<1>1. /\ ~stored /\ stored' /\ result' \in B!Ascending(best)
      /\ UNCHANGED <<nProbe, pc, output>> /\ pc # "finished"
  BY DEF StoreResult, ResultSets, IInv, ControlInv, ControlTypes, query, call, source
<1>2. best \in SUBSET Rows /\ offered = RowsToProbe
  BY AllOffered DEF StoreResult, IInv, HeapInv
<1>3. /\ Len(result') = Cardinality(best) /\ {result'[i] : i \in DOMAIN result'} = best
      /\ \A i, j \in DOMAIN result' :
            i < j => result'[i] # result'[j] /\ Dist[result'[i]] <= Dist[result'[j]]
  BY <1>1, <1>2, AscendingIsResult
<1>4. /\ best \subseteq RowsToProbe /\ (best = RowsToProbe \/ Cardinality(best) = K)
      /\ Cardinality(best) <= K
  BY <1>2 DEF IInv, HeapInv
<1>5. IsFiniteSet(RowsToProbe)
  BY SubsetsOfRows DEF RowsToProbe
<1>6. Cardinality(best) = Promise!Least(K, Promise!Cardinality(RowsToProbe))
  <2> HIDE DEF RowsToProbe
  <2> QED
    BY <1>4, <1>5, LeastOfCardinality, SizeAssumption, SameCardinalityInPromise
       DEF Promise!Least
<1>7. \A i \in DOMAIN result' : result'[i] \in RowsToProbe
  BY <1>3, <1>4
<1>8. RowsToProbe' = RowsToProbe
  BY <1>1 DEF RowsToProbe, ClustersToProbe
<1> HIDE DEF RowsToProbe
<1> QED BY <1>1, <1>3, <1>6, <1>7, <1>8 DEF Promise!Answer, Promise!IsAnswer

LEMMA EmitIsDeliverOrFinish == ASSUME IInv, Emit PROVE Promise!Deliver \/ Promise!Finish
<1> DEFINE n == Least(VectorSize, Len(result) - idx)
<1>1. /\ n \in 0 .. VectorSize /\ idx + n \in 0 .. Len(result) /\ (n = 0 => idx = Len(result))
      /\ output \o SubSeq(result, idx + 1, idx + n) = SubSeq(result, 1, idx + n)
  BY EmitProgress, Zenon DEF IInv
<1>2. /\ result \in Seq(Rows) /\ Len(result) \in Nat /\ idx \in 0 .. Len(result)
      /\ output = SubSeq(result, 1, idx)
  BY LenProperties DEF IInv, ResultInv
<1>3. Len(output) = idx
  BY <1>2, SubSeqProperties
<1>4. stored /\ pc = "emit" /\ UNCHANGED <<nProbe, stored, result>>
  BY DEF Emit, IInv, ControlInv, ControlTypes, query
<1>5. RowsToProbe' = RowsToProbe
  BY <1>4 DEF RowsToProbe, ClustersToProbe
<1>6. CASE n = 0
  <2>1. pc' = "finished" /\ UNCHANGED output
    BY <1>6 DEF Emit, source
  <2>2. output = result
    BY <1>1, <1>2, <1>6, SubSeqFull
  <2> QED BY <1>4, <1>5, <2>1, <2>2 DEF Promise!Finish
<1>7. CASE n # 0
  <2>1. pc' = "call" /\ output' = SubSeq(result, 1, idx + n)
    BY <1>1, <1>7 DEF Emit
  <2>2. n \in 1 .. VectorSize /\ idx + n <= Len(result)
    BY <1>1, <1>7, SizeAssumption
  <2> HIDE DEF n, RowsToProbe
  <2> QED BY <1>3, <1>4, <1>5, <2>1, <2>2 DEF Promise!Deliver
<1> QED BY <1>6, <1>7

\* Every step of the operator is one of the promise or leaves what it promises alone: one answer,
\* of K rows or all of the clusters to probe, nearest first, each row of it emitted once.  That
\* the query ends is left to the run.
THEOREM KeepsPromise == Spec => Promise!Spec
<1>1. Init => Promise!Init
  BY DEF Init, Promise!Init
<1>2. ASSUME IInv, [Next]_vars PROVE [Promise!Next]_(Promise!vars)
  <2>1. ASSUME UNCHANGED <<nProbe, stored, result, output>>, pc' = "finished" <=> pc = "finished"
        PROVE  UNCHANGED Promise!vars
    <3>1. RowsToProbe' = RowsToProbe
      BY <2>1 DEF RowsToProbe, ClustersToProbe
    <3> HIDE DEF RowsToProbe
    <3> QED BY <2>1, <3>1 DEF Promise!vars
  <2>2. ASSUME NEW g \in RowGroups, TaskStep(g) PROVE UNCHANGED Promise!vars
    BY <2>1, <2>2 DEF TaskStep, ExecuteTask, ProbeCluster, FinishTask, query, call, source
  <2>3. CASE SetCompleted \/ UnblockTasks \/ UNCHANGED vars
    BY <1>2, <2>1, <2>3 DEF SetCompleted, UnblockTasks, vars, query, call, source, IInv, ControlInv
  <2>4. CASE CallGetData \/ LockAndCheck \/ BlockSource
    BY <2>1, <2>4 DEF CallGetData, LockAndCheck, BlockSource, query, source
  <2> QED
    BY <1>2, <2>2, <2>3, <2>4, StoreIsAnswer, EmitIsDeliverOrFinish
       DEF Next, FinishEvent, GetData, Promise!Next
<1> QED BY <1>1, <1>2, Invariance, PTL DEF Spec, Promise!Spec

=============================================================================
