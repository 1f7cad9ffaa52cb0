------------------------ MODULE GlobalSearch_proofs ------------------------
(***************************************************************************)
(* Theorems about the global variant, for any table and any limit, whatever *)
(* the pruner discards unless a theorem says that it is exact.              *)
(***************************************************************************)
EXTENDS GlobalSearch, AnswerLemmas

-----------------------------------------------------------------------------
(* What is collected, and what the searcher is left with.                   *)

LEMMA SameCardinality == \A S : B!Cardinality(S) = Cardinality(S)
  BY Zenon DEF B!Cardinality, Cardinality

LEMMA SubsetsOfRows ==
  ASSUME NEW S \in SUBSET Rows
  PROVE  IsFiniteSet(S) /\ Cardinality(S) \in Nat
  BY RowAssumption, FS_Subset, FS_CardinalityType

SinkTypes ==
    /\ filtered \in BOOLEAN /\ selected \in SUBSET Rows /\ nProbe \in NProbes
    /\ remaining \in SUBSET Rows
    /\ local \in [Threads -> SUBSET Rows]
    /\ combined \in [Threads -> BOOLEAN]
    /\ collected \in SUBSET Rows /\ evaluator \in SUBSET Rows
    /\ ivfNProbe \in NProbes
    /\ phase \in {"sink", "start", "search", "source", "no output", "finished"}

\* A row that passes is with the child, with a thread, or collected; the search begins with all
\* of them and with the query's own n_probe.
SinkInv ==
    /\ SinkTypes
    /\ phase = "start" => selected = Rows
    /\ phase = "sink" =>
        /\ \A r \in selected : r \in remaining \/ \E t \in Threads : r \in local[t]
        /\ remaining \subseteq selected /\ collected \subseteq selected
        /\ \A t \in Threads :
            /\ local[t] \subseteq selected
            /\ combined[t] => remaining = {} /\ local[t] \subseteq collected
    /\ phase \in {"search", "source"} => evaluator = selected /\ ivfNProbe = nProbe
    /\ phase = "no output" => selected = {}
    /\ phase = "finished" => selected = {} \/ (evaluator = selected /\ ivfNProbe = nProbe)

LEMMA SinkInit == Init => SinkInv
  BY RowAssumption DEF Init, SinkInv, SinkTypes

\* When all threads have combined, everything that passes has been collected.
LEMMA AllCollected ==
  ASSUME SinkInv, phase = "sink", \A t \in Threads : combined[t]
  PROVE  collected = selected
  BY ThreadAssumption DEF SinkInv

LEMMA SinkStep == SinkInv /\ [Next]_vars => SinkInv'
<1> SUFFICES ASSUME SinkInv, [Next]_vars PROVE SinkInv'
  OBVIOUS
<1> USE DEF SinkInv, SinkTypes
<1>1. ASSUME NEW t \in Threads, Sink(t) PROVE SinkInv'
  <2>1. PICK c \in SUBSET remaining \ {{}} :
           /\ remaining' = remaining \ c
           /\ local' = [local EXCEPT ![t] = @ \cup c]
    BY <1>1 DEF Sink
  <2>2. /\ phase = "sink" /\ ~combined[t]
        /\ UNCHANGED <<filtered, selected, nProbe, combined, collected, ivfNProbe, evaluator, phase>>
    BY <1>1 DEF Sink, query, searcher
  <2>3. local' \in [Threads -> SUBSET Rows] /\ remaining' \in SUBSET Rows
    BY <2>1
  <2>4. \A u \in Threads : local'[u] = IF u = t THEN local[u] \cup c ELSE local[u]
    BY <2>1
  <2>5. \A r \in selected : r \in remaining' \/ \E u \in Threads : r \in local'[u]
    BY <2>1, <2>2, <2>4
  <2>6. \A u \in Threads :
          /\ local'[u] \subseteq selected
          /\ combined[u] => remaining' = {} /\ local'[u] \subseteq collected
    BY <2>1, <2>2, <2>4
  <2> QED BY <2>1, <2>2, <2>3, <2>5, <2>6
<1>2. ASSUME NEW t \in Threads, Combine(t) PROVE SinkInv'
  BY <1>2 DEF Combine, query, searcher
<1>3. CASE FinalizeWithoutRows
  BY <1>3, AllCollected DEF FinalizeWithoutRows, query, sink, searcher
<1>4. CASE BeginSearch
  BY <1>4, AllCollected DEF BeginSearch, SetNProbe, query, sink
<1>5. CASE VisitNext
  BY <1>5 DEF VisitNext, query, sink
<1>6. CASE BuildResultSet \/ Emit \/ EndWithoutOutput
  BY <1>6 DEF BuildResultSet, Emit, EndWithoutOutput, query, sink, searcher
<1>7. CASE UNCHANGED vars
  BY <1>7 DEF vars, query, sink, searcher
<1> QED
  BY <1>1, <1>2, <1>3, <1>4, <1>5, <1>6, <1>7
     DEF Next, ThreadStep, SearchStep, SkipCluster, Start, PruneAndMerge

-----------------------------------------------------------------------------
(* The heap, cluster by cluster.                                            *)

\* As full as what has been visited allows, and the nearest of it if it was filled at once.
HeapInv ==
    /\ visited \in 0 .. NumClusters
    /\ phase \in {"sink", "start", "no output"} => visited = 0
    /\ heap \subseteq Visited
    /\ Cardinality(heap) = Least(K, Cardinality(Visited))
    /\ Exact /\ Cardinality(FirstCluster) >= K => B!IsKBest(heap, Visited)

LEMMA VisitedType == HeapInv => visited \in 0 .. NumClusters /\ visited \in Nat
<1>1. HeapInv => visited \in 0 .. NumClusters
  BY Zenon DEF HeapInv
<1> QED BY <1>1, SizeAssumption

LEMMA RowsKnown == SinkInv => RowsToVisit \in SUBSET Rows /\ Visited \in SUBSET Rows
  BY DEF SinkInv, SinkTypes, RowsToVisit, Visited

LEMMA NothingVisited == ASSUME SinkInv, visited = 0 PROVE Visited = {}
<1>1. \A r \in RowsToVisit : ClusterOf[r] \in Nat /\ ClusterOf[r] > 0
  BY RowsKnown, RowAssumption, SizeAssumption
<1> QED BY <1>1 DEF Visited

LEMMA HeapInit == Init => HeapInv
<1> SUFFICES ASSUME Init PROVE HeapInv
  OBVIOUS
<1>1. visited = 0 /\ heap = {} /\ Visited = {}
  BY SinkInit, NothingVisited DEF Init
<1>2. B!IsKBest({}, {})
  BY FS_EmptySet, SameCardinality, SizeAssumption DEF B!IsKBest
<1>3. Cardinality({}) = Least(K, Cardinality({}))
  BY FS_EmptySet, SizeAssumption DEF Least
<1> QED BY <1>1, <1>2, <1>3, SizeAssumption DEF HeapInv

LEMMA ToVisit ==
  ASSUME SinkInv, phase \in {"search", "source"}
  PROVE  /\ ClustersToVisit \in 0 .. NumClusters
         /\ RowsToVisit = {r \in evaluator : ClusterOf[r] <= ClustersToVisit}
<1>1. evaluator = selected /\ ivfNProbe = nProbe /\ nProbe \in Nat /\ selected \in SUBSET Rows
  BY SizeAssumption DEF SinkInv, SinkTypes
<1>2. ClustersToVisit \in 0 .. NumClusters
  BY <1>1, SizeAssumption DEF ClustersToVisit
<1>3. ASSUME NEW r \in Rows
      PROVE  ClusterOf[r] <= ClustersToVisit
               <=> /\ ClusterOf[r] <= NumClusters
                   /\ nProbe = 0 \/ nProbe > NumClusters \/ ClusterOf[r] <= nProbe
  <2>1. ClusterOf[r] \in Nat /\ ClusterOf[r] <= NumClusters
    BY RowAssumption, SizeAssumption
  <2> QED BY <1>1, <2>1, SizeAssumption DEF ClustersToVisit
<1>4. RowsToVisit = {r \in selected : ClusterOf[r] <= ClustersToVisit}
  BY <1>1, <1>3 DEF RowsToVisit
<1> QED BY <1>1, <1>2, <1>4

\* Another cluster's passing rows join those visited.
LEMMA VisitedGrows ==
  ASSUME SinkInv, HeapInv, VisitNext
  PROVE  /\ Visited' = Visited \cup Passing /\ Visited \cap Passing = {}
         /\ Passing \subseteq RowsToVisit /\ RowsToVisit \in SUBSET Rows
         /\ FirstCluster' = FirstCluster
         /\ visited' = visited + 1 /\ visited' \in 0 .. NumClusters /\ phase' = "search"
<1>1. /\ phase = "search" /\ phase' = "search" /\ visited < ClustersToVisit
      /\ visited' = visited + 1
      /\ UNCHANGED <<selected, nProbe, ivfNProbe, evaluator>>
  BY DEF VisitNext, query
<1>2. /\ ClustersToVisit \in 0 .. NumClusters /\ NumClusters \in Nat
      /\ RowsToVisit = {r \in evaluator : ClusterOf[r] <= ClustersToVisit}
  BY <1>1, ToVisit, SizeAssumption
<1>3. visited \in Nat
  BY VisitedType
<1>4. RowsToVisit \in SUBSET Rows /\ evaluator \in SUBSET Rows
  BY DEF RowsToVisit, SinkInv, SinkTypes
<1>5. \A r \in Rows : ClusterOf[r] \in Nat
  BY RowAssumption, SizeAssumption
<1>6. RowsToVisit' = RowsToVisit
  BY <1>1 DEF RowsToVisit
<1>7. FirstCluster' = FirstCluster
  BY <1>6 DEF FirstCluster
<1>8. Passing \subseteq RowsToVisit
  <2> HIDE DEF ClustersToVisit
  <2> QED BY <1>1, <1>2, <1>3, <1>4, <1>5 DEF Passing
<1>9. \A r \in RowsToVisit : r \in Passing <=> ClusterOf[r] = visited + 1
  BY <1>2 DEF Passing
<1>10. Visited' = {r \in RowsToVisit : ClusterOf[r] <= visited + 1}
  BY <1>1, <1>6 DEF Visited
<1>11. \A r \in RowsToVisit : ClusterOf[r] <= visited + 1 <=> r \in Passing \/ ClusterOf[r] <= visited
  BY <1>3, <1>4, <1>5, <1>9
<1>12. Visited' = Visited \cup Passing
  BY <1>8, <1>10, <1>11 DEF Visited
<1>13. Visited \cap Passing = {}
  BY <1>3, <1>4, <1>5, <1>9 DEF Visited
<1>14. visited' \in 0 .. NumClusters
  BY <1>1, <1>2, <1>3
<1> QED BY <1>1, <1>4, <1>7, <1>8, <1>12, <1>13, <1>14

LEMMA SkipStep == SinkInv /\ HeapInv /\ SkipCluster => HeapInv'
<1> SUFFICES ASSUME SinkInv, HeapInv, SkipCluster PROVE HeapInv'
  OBVIOUS
<1>1. VisitNext /\ Passing = {} /\ heap' = heap
  BY DEF SkipCluster
<1>2. /\ Visited' = Visited /\ FirstCluster' = FirstCluster
      /\ visited' \in 0 .. NumClusters /\ phase' = "search"
  BY <1>1, VisitedGrows
<1>3. B!IsKBest(heap, Visited)' <=> B!IsKBest(heap, Visited)
  BY <1>1, <1>2, SameCardinality DEF B!IsKBest
<1> HIDE DEF Visited, FirstCluster
<1> QED BY <1>1, <1>2, <1>3 DEF HeapInv

\* The first cluster with passing rows fills the heap at once, or not at all.
LEMMA FirstToFill ==
  ASSUME SinkInv, HeapInv, VisitNext, Passing # {}, Cardinality(heap) < K,
         Cardinality(FirstCluster) >= K, heap = Visited
  PROVE  Visited = {} /\ Passing = FirstCluster
<1>1. /\ Visited \in SUBSET Rows /\ RowsToVisit \in SUBSET Rows /\ FirstCluster \in SUBSET Rows
      /\ \A r \in Rows : ClusterOf[r] \in Nat
  BY RowsKnown, RowAssumption, SizeAssumption DEF FirstCluster
<1>2. visited \in Nat
  BY VisitedType
<1>3. Visited = {}
  <2>1. SUFFICES ASSUME Visited # {} PROVE FALSE
    OBVIOUS
  <2>2. FirstCluster \subseteq Visited
    BY <1>1, <1>2, <2>1 DEF FirstCluster, Visited
  <2>3. Cardinality(FirstCluster) <= Cardinality(Visited) /\ Cardinality(Visited) \in Nat
        /\ Cardinality(FirstCluster) \in Nat
    BY <1>1, <2>2, SubsetsOfRows, FS_Subset
  <2> QED BY <2>3, SizeAssumption
<1>4. Passing \subseteq RowsToVisit
  BY VisitedGrows
<1>5. \A r \in RowsToVisit : ClusterOf[r] > visited
  BY <1>1, <1>2, <1>3 DEF Visited
<1>6. \A r \in Passing : ClusterOf[r] = visited + 1
  BY DEF Passing
<1>7. Passing \subseteq FirstCluster
  BY <1>1, <1>2, <1>4, <1>5, <1>6 DEF FirstCluster
<1>8. ASSUME NEW r \in FirstCluster PROVE r \in Passing
  <2>1. PICK s \in Passing : TRUE
    OBVIOUS
  <2>2. ClusterOf[r] <= visited + 1 /\ ClusterOf[r] > visited /\ r \in RowsToVisit
    BY <1>4, <1>5, <1>6, <2>1 DEF FirstCluster
  <2>3. ClusterOf[r] = visited + 1
    BY <1>1, <1>2, <2>2
  <2> QED BY <2>2, <2>3, ToVisit DEF VisitNext, Passing
<1> QED BY <1>3, <1>7, <1>8

LEMMA StartStep == SinkInv /\ HeapInv /\ Start => HeapInv'
<1> SUFFICES ASSUME SinkInv, HeapInv, Start PROVE HeapInv'
  OBVIOUS
<1>1. PICK first \in SUBSET Passing :
         /\ Cardinality(first) = Least(K - Cardinality(heap), Cardinality(Passing))
         /\ \A r \in first, s \in Passing \ first : Dist[r] <= Dist[s]
         /\ heap' = heap \cup first
  BY DEF Start
<1>2. VisitNext /\ Passing # {} /\ Cardinality(heap) < K
  BY DEF Start
<1>3. /\ Visited' = Visited \cup Passing /\ Visited \cap Passing = {}
      /\ FirstCluster' = FirstCluster /\ Passing \in SUBSET Rows
      /\ visited' \in 0 .. NumClusters /\ phase' = "search"
  BY <1>2, VisitedGrows
<1>4. heap \subseteq Visited /\ Cardinality(heap) = Least(K, Cardinality(Visited)) /\ Visited \in SUBSET Rows
  BY RowsKnown, Zenon DEF HeapInv
<1>5. /\ IsFiniteSet(Visited) /\ Cardinality(Visited) \in Nat
      /\ IsFiniteSet(Passing) /\ Cardinality(Passing) \in Nat
      /\ IsFiniteSet(heap) /\ IsFiniteSet(first) /\ Cardinality(first) \in Nat
  BY <1>3, <1>4, SubsetsOfRows
<1> HIDE DEF Visited, FirstCluster, Passing
<1>6. heap = Visited
  <2>1. Cardinality(heap) = Cardinality(Visited)
    BY <1>2, <1>4, <1>5, SizeAssumption DEF Least
  <2> QED BY <1>4, <1>5, <2>1, FS_Subset
<1>7. /\ Cardinality(heap \cup first) = Cardinality(heap) + Cardinality(first)
      /\ Cardinality(Visited \cup Passing) = Cardinality(Visited) + Cardinality(Passing)
  <2>1. heap \cap first = {}
    BY <1>3, <1>4
  <2>2. /\ Cardinality(heap \cup first) = Cardinality(heap) + Cardinality(first) - Cardinality({})
        /\ Cardinality(Visited \cup Passing)
             = Cardinality(Visited) + Cardinality(Passing) - Cardinality({})
    <3>1. Cardinality(heap \cup first) = Cardinality(heap) + Cardinality(first) - Cardinality(heap \cap first)
      BY <1>5, FS_Union
    <3>2. Cardinality(Visited \cup Passing)
            = Cardinality(Visited) + Cardinality(Passing) - Cardinality(Visited \cap Passing)
      BY <1>5, FS_Union
    <3> QED BY <1>3, <2>1, <3>1, <3>2
  <2>3. Cardinality(heap) \in Nat
    BY <1>5, FS_CardinalityType
  <2> QED BY <1>5, <2>2, <2>3, FS_EmptySet
<1>8. heap' \subseteq Visited'
  BY <1>1, <1>3, <1>4
<1>9. Cardinality(heap') = Least(K, Cardinality(Visited'))
  BY <1>1, <1>2, <1>3, <1>5, <1>6, <1>7, SizeAssumption DEF Least
<1>10. ASSUME Cardinality(FirstCluster) >= K PROVE B!IsKBest(heap, Visited)'
  <2>1. Visited = {}
    BY <1>2, <1>6, <1>10, FirstToFill
  <2>2. Passing = FirstCluster
    BY <1>2, <1>6, <1>10, FirstToFill
  <2>3. heap' = first /\ Visited' = Passing
    BY <1>1, <1>3, <1>6, <2>1
  <2>4. Cardinality(first) = K
    BY <1>5, <1>6, <1>9, <1>10, <2>2, <2>3, SizeAssumption DEF Least
  <2>5. B!IsKBest(first, Passing)
    BY <1>1, <2>4, SameCardinality, SizeAssumption DEF B!IsKBest
  <2> QED BY <2>3, <2>5, SameCardinality DEF B!IsKBest
<1> QED BY <1>3, <1>8, <1>9, <1>10 DEF HeapInv

\* Survivors displace what is farther: a K-best subset of the visited rows stays one.
LEMMA MergeKeepsBest ==
  ASSUME HeapInv, Visited \in SUBSET Rows, Passing \in SUBSET Rows, Cardinality(heap) = K,
         B!IsKBest(heap, Visited), Merge(Closer)
  PROVE  \A b \in heap', s \in (Visited \cup Passing) \ heap' : Dist[b] <= Dist[s]
<1>1. /\ heap' \subseteq heap \cup Closer
      /\ Cardinality(heap') <= K
      /\ \A b \in heap', s \in (heap \cup Closer) \ heap' : Dist[b] <= Dist[s]
  BY SameCardinality DEF Merge, B!IsKBest
<1>2. /\ heap \subseteq Visited
      /\ \A b \in heap, s \in Visited \ heap : Dist[b] <= Dist[s]
  BY DEF B!IsKBest
<1>3. \A r \in Rows : Dist[r] \in Nat
  BY RowAssumption
<1>4. Closer \subseteq Passing /\ \A s \in Passing \ Closer, x \in heap : Dist[x] <= Dist[s]
  <2>1. ASSUME NEW s \in Passing \ Closer, NEW x \in heap PROVE Dist[x] <= Dist[s]
    <3>1. ~(Dist[s] < Dist[x])
      BY DEF Closer
    <3>2. Dist[s] \in Nat /\ Dist[x] \in Nat
      BY <1>2, <1>3
    <3> QED BY <3>1, <3>2
  <2> QED BY <2>1 DEF Closer
<1> HIDE DEF Visited, Passing, Closer
<1> TAKE b \in heap', s \in (Visited \cup Passing) \ heap'
<1>5. CASE s \in heap \cup Closer
  BY <1>1, <1>5
<1>6. CASE s \notin heap \cup Closer
  <2>1. \A x \in heap : Dist[x] <= Dist[s]
    BY <1>2, <1>4, <1>6
  <2>2. CASE b \in heap
    BY <2>1, <2>2
  <2>3. CASE b \notin heap
    <3>1. PICK x \in heap : x \notin heap'
      <4>1. SUFFICES ASSUME heap \subseteq heap' PROVE FALSE
        OBVIOUS
      <4>2. heap' \in SUBSET Rows
        BY <1>1, <1>2, <1>4
      <4>3. IsFiniteSet(heap') /\ Cardinality(heap') \in Nat
        BY <4>2, SubsetsOfRows
      <4>4. Cardinality(heap) <= Cardinality(heap') /\ (Cardinality(heap') = Cardinality(heap) => heap' = heap)
        BY <4>1, <4>3, FS_Subset
      <4> QED BY <1>1, <2>3, <4>3, <4>4, SizeAssumption
    <3>2. Dist[b] <= Dist[x] /\ Dist[x] <= Dist[s]
      BY <1>1, <2>1, <3>1
    <3>3. Dist[b] \in Nat /\ Dist[x] \in Nat /\ Dist[s] \in Nat
      BY <1>1, <1>2, <1>3, <1>4, <3>1
    <3> QED BY <3>2, <3>3
  <2> QED BY <2>2, <2>3
<1> QED BY <1>5, <1>6

LEMMA PruneStep == SinkInv /\ HeapInv /\ PruneAndMerge => HeapInv'
<1> SUFFICES ASSUME SinkInv, HeapInv, PruneAndMerge PROVE HeapInv'
  OBVIOUS
<1>1. PICK survivors \in SUBSET Closer : (Exact => survivors = Closer) /\ Merge(survivors)
  BY DEF PruneAndMerge
<1>2. VisitNext /\ Cardinality(heap) >= K
  BY DEF PruneAndMerge
<1>3. /\ Visited' = Visited \cup Passing /\ FirstCluster' = FirstCluster /\ Passing \in SUBSET Rows
      /\ visited' \in 0 .. NumClusters /\ phase' = "search"
  BY <1>2, VisitedGrows
<1>4. /\ heap \subseteq Visited /\ Cardinality(heap) = Least(K, Cardinality(Visited))
      /\ Visited \in SUBSET Rows
  BY RowsKnown, Zenon DEF HeapInv
<1>5. Closer \subseteq Passing
  BY DEF Closer
<1>6. /\ heap' \subseteq heap \cup survivors
      /\ heap' = heap \cup survivors \/ Cardinality(heap') = K
      /\ Cardinality(heap') <= K
  BY <1>1, SameCardinality DEF Merge, B!IsKBest
<1> HIDE DEF Visited, FirstCluster, Passing, Closer
<1>7. heap' \subseteq Visited'
  BY <1>3, <1>4, <1>5, <1>6
<1>8. /\ Cardinality(Visited) \in Nat /\ Cardinality(heap) \in Nat /\ Cardinality(heap') \in Nat
      /\ IsFiniteSet(Visited') /\ IsFiniteSet(heap') /\ Cardinality(Visited') \in Nat
  BY <1>3, <1>4, <1>7, SubsetsOfRows
<1>9. Cardinality(heap) = K
  BY <1>2, <1>4, <1>8, SizeAssumption DEF Least
<1>10. Cardinality(heap') = K
  <2>1. CASE heap' = heap \cup survivors
    <3>1. Cardinality(heap) <= Cardinality(heap')
      BY <1>8, <2>1, FS_Subset
    <3> QED BY <1>6, <1>8, <1>9, <3>1, SizeAssumption
  <2> QED BY <1>6, <2>1
<1>11. Cardinality(heap') = Least(K, Cardinality(Visited'))
  <2>1. Cardinality(heap') <= Cardinality(Visited')
    BY <1>7, <1>8, FS_Subset
  <2> QED BY <1>8, <1>10, <2>1, SizeAssumption DEF Least
<1>12. ASSUME Exact, Cardinality(FirstCluster) >= K PROVE B!IsKBest(heap, Visited)'
  <2>1. B!IsKBest(heap, Visited)
    BY <1>12 DEF HeapInv
  <2>2. \A b \in heap', s \in (Visited \cup Passing) \ heap' : Dist[b] <= Dist[s]
    BY <1>1, <1>3, <1>4, <1>9, <1>12, <2>1, MergeKeepsBest
  <2> QED BY <1>3, <1>7, <1>10, <2>2, SameCardinality, SizeAssumption DEF B!IsKBest
<1> QED BY <1>3, <1>7, <1>11, <1>12 DEF HeapInv

LEMMA HeapStep == SinkInv /\ HeapInv /\ [Next]_vars => HeapInv'
<1> SUFFICES ASSUME SinkInv, HeapInv, [Next]_vars PROVE HeapInv'
  OBVIOUS
<1>1. ASSUME UNCHANGED <<selected, nProbe, visited, heap>>,
             phase' \in {"sink", "start", "no output"} => phase \in {"sink", "start", "no output"}
      PROVE  HeapInv'
  <2>1. Visited' = Visited /\ FirstCluster' = FirstCluster
    BY <1>1 DEF Visited, FirstCluster, RowsToVisit
  <2>2. B!IsKBest(heap, Visited)' <=> B!IsKBest(heap, Visited)
    BY <1>1, <2>1, SameCardinality DEF B!IsKBest
  <2> HIDE DEF Visited, FirstCluster
  <2> QED BY <1>1, <2>1, <2>2 DEF HeapInv
<1>2. ASSUME NEW t \in Threads, ThreadStep(t) PROVE HeapInv'
  BY <1>1, <1>2 DEF ThreadStep, Sink, Combine, query, searcher
<1>3. CASE FinalizeWithoutRows
  BY <1>1, <1>3 DEF FinalizeWithoutRows, query, searcher
<1>4. CASE BeginSearch
  <2>1. visited = 0 /\ heap \subseteq Visited
    BY <1>4, Zenon DEF BeginSearch, HeapInv
  <2>2. heap = {}
    BY <2>1, NothingVisited
  <2> QED BY <1>1, <1>4, <2>1, <2>2 DEF BeginSearch, query
<1>5. CASE SkipCluster \/ Start \/ PruneAndMerge
  BY <1>5, SkipStep, StartStep, PruneStep
<1>6. CASE BuildResultSet \/ Emit \/ EndWithoutOutput
  BY <1>1, <1>6 DEF BuildResultSet, Emit, EndWithoutOutput, query, searcher
<1>7. CASE UNCHANGED vars
  BY <1>1, <1>7 DEF vars, query, searcher
<1> QED
  BY <1>2, <1>3, <1>4, <1>5, <1>6, <1>7 DEF Next, SearchStep

-----------------------------------------------------------------------------
(* The result and how far it has been emitted.                              *)

ResultInv ==
    /\ phase \in {"sink", "start", "search", "no output"} => result = <<>> /\ idx = 0
    /\ result \in Seq(Rows)
    /\ idx \in 0 .. Len(result)
    /\ output = SubSeq(result, 1, idx)
    /\ phase = "finished" => idx = Len(result)

IInv == SinkInv /\ HeapInv /\ ResultInv

LEMMA ResultInit == Init => ResultInv
  BY EmptySeq, SubSeqEmpty DEF Init, ResultInv

\* What is popped from the heap is an answer over the clusters to be visited.
LEMMA ResultIsAnswer ==
  ASSUME SinkInv, HeapInv, BuildResultSet
  PROVE  /\ result' \in Seq(Rows)
         /\ Len(result') = Least(K, Cardinality(RowsToVisit))
         /\ \A i \in DOMAIN result' : result'[i] \in RowsToVisit
         /\ \A i, j \in DOMAIN result' :
               i < j => result'[i] # result'[j] /\ Dist[result'[i]] <= Dist[result'[j]]
<1>1. phase = "search" /\ visited >= ClustersToVisit /\ result' \in B!Ascending(heap)
  BY DEF BuildResultSet
<1>2. /\ ClustersToVisit \in 0 .. NumClusters
      /\ RowsToVisit = {r \in evaluator : ClusterOf[r] <= ClustersToVisit}
  BY <1>1, ToVisit
<1>3. RowsToVisit \in SUBSET Rows /\ visited \in Nat /\ NumClusters \in Nat
      /\ \A r \in Rows : ClusterOf[r] \in Nat
  BY RowsKnown, VisitedType, RowAssumption, SizeAssumption
<1>4. Visited = RowsToVisit
  <2> HIDE DEF ClustersToVisit
  <2>1. \A r \in RowsToVisit : ClusterOf[r] <= visited
    BY <1>1, <1>2, <1>3
  <2> QED BY <2>1 DEF Visited
<1>5. heap \subseteq RowsToVisit /\ Cardinality(heap) = Least(K, Cardinality(RowsToVisit))
  BY <1>4, Zenon DEF HeapInv
<1>6. IsFiniteSet(heap)
  BY <1>3, <1>5, SubsetsOfRows
<1>7. /\ result' \in [1..Cardinality(heap) -> heap]
      /\ \A i, j \in DOMAIN result' :
            i < j => result'[i] # result'[j] /\ Dist[result'[i]] <= Dist[result'[j]]
  BY <1>1, SameCardinality, Zenon DEF B!Ascending
<1>8. /\ result' \in Seq(heap) /\ Len(result') = Cardinality(heap)
      /\ {result'[i] : i \in DOMAIN result'} = heap
  <2>1. \A i, j \in DOMAIN result' : i < j => result'[i] # result'[j]
    BY <1>7
  <2> QED BY <1>6, <1>7, <2>1, SequenceOfSet, Zenon
<1> HIDE DEF RowsToVisit
<1> QED BY <1>3, <1>5, <1>7, <1>8

LEMMA EmitProgress ==
  ASSUME ResultInv, Emit
  PROVE  LET n == Least(VectorSize, Len(result) - idx)
         IN  /\ n \in 0 .. VectorSize /\ idx + n \in 0 .. Len(result)
             /\ n = 0 => idx = Len(result)
             /\ output \o SubSeq(result, idx + 1, idx + n) = SubSeq(result, 1, idx + n)
<1> DEFINE n == Least(VectorSize, Len(result) - idx)
<1>1. result \in Seq(Rows) /\ idx \in 0 .. Len(result) /\ output = SubSeq(result, 1, idx)
  BY DEF ResultInv
<1>2. /\ n \in 0 .. VectorSize /\ idx + n \in 0 .. Len(result) /\ n \in 0 .. Len(result) - idx
      /\ n = 0 => idx = Len(result)
  BY <1>1, SizeAssumption, LenProperties DEF Least
<1> HIDE DEF n
<1>3. SubSeq(result, 1, idx) \o SubSeq(result, idx + 1, idx + n) = SubSeq(result, 1, idx + n)
  BY <1>1, <1>2, NextRows
<1> QED BY <1>1, <1>2, <1>3 DEF n

LEMMA ResultStep == SinkInv /\ HeapInv /\ ResultInv /\ [Next]_vars => ResultInv'
<1> SUFFICES ASSUME SinkInv, HeapInv, ResultInv, [Next]_vars PROVE ResultInv'
  OBVIOUS
<1>1. CASE BuildResultSet
  <2>1. /\ phase = "search" /\ phase' = "source" /\ UNCHANGED <<idx, output>>
    BY <1>1 DEF BuildResultSet
  <2>2. result' \in Seq(Rows) /\ Len(result') \in Nat
    BY <1>1, ResultIsAnswer, LenProperties
  <2>3. idx = 0 /\ output = <<>>
    BY <2>1, SubSeqEmpty DEF ResultInv
  <2> QED BY <2>1, <2>2, <2>3, SubSeqEmpty DEF ResultInv
<1>2. CASE Emit
  <2> DEFINE n == Least(VectorSize, Len(result) - idx)
  <2>1. /\ n \in 0 .. VectorSize /\ idx + n \in 0 .. Len(result) /\ (n = 0 => idx = Len(result))
        /\ output \o SubSeq(result, idx + 1, idx + n) = SubSeq(result, 1, idx + n)
    BY <1>2, EmitProgress, Zenon
  <2>2. phase = "source" /\ result' = result
    BY <1>2 DEF Emit
  <2>3. CASE n = 0
    <3>1. phase' = "finished" /\ UNCHANGED <<idx, output>>
      BY <1>2, <2>3 DEF Emit
    <3> QED BY <2>1, <2>2, <2>3, <3>1 DEF ResultInv
  <2>4. CASE n # 0
    <3>1. phase' = phase /\ idx' = idx + n /\ output' = SubSeq(result, 1, idx + n)
      BY <1>2, <2>1, <2>4 DEF Emit
    <3> QED BY <2>1, <2>2, <3>1 DEF ResultInv
  <2> QED BY <2>3, <2>4
<1>3. CASE EndWithoutOutput
  BY <1>3, EmptySeq DEF EndWithoutOutput, source, ResultInv
<1>4. ASSUME UNCHANGED source, phase' \in {"finished", "source"} => phase' = phase,
             phase \in {"finished", "source"} => phase' = phase
      PROVE  ResultInv'
  BY <1>4 DEF ResultInv, source, SinkInv, SinkTypes
<1>5. ASSUME NEW t \in Threads, ThreadStep(t) PROVE ResultInv'
  BY <1>4, <1>5 DEF ThreadStep, Sink, Combine
<1>6. CASE FinalizeWithoutRows \/ BeginSearch
  BY <1>4, <1>6 DEF FinalizeWithoutRows, BeginSearch, query
<1>7. CASE SkipCluster \/ Start \/ PruneAndMerge
  BY <1>4, <1>7 DEF SkipCluster, Start, PruneAndMerge, VisitNext
<1>8. CASE UNCHANGED vars
  BY <1>4, <1>8 DEF vars
<1> QED
  BY <1>1, <1>2, <1>3, <1>5, <1>6, <1>7, <1>8 DEF Next, SearchStep

-----------------------------------------------------------------------------
(* Theorems.                                                                *)

LEMMA Invariance == Spec => []IInv
<1>1. Init => IInv
  BY SinkInit, HeapInit, ResultInit DEF IInv
<1>2. IInv /\ [Next]_vars => IInv'
  BY SinkStep, HeapStep, ResultStep DEF IInv
<1> QED BY <1>1, <1>2, PTL DEF Spec

\* The variables keep their ranges, and the heap never outgrows the limit, for every table and
\* every limit (PDXearchIndexGlobalFilteredScan's states, PDXearchGlobalIndex).
THEOREM TypeCorrect == Spec => []TypeOK
<1>1. IInv => TypeOK
  <2> SUFFICES ASSUME IInv PROVE TypeOK
    OBVIOUS
  <2>1. heap \in SUBSET Rows /\ Cardinality(heap) = Least(K, Cardinality(Visited))
    BY RowsKnown, Zenon DEF IInv, HeapInv
  <2>2. Cardinality(Visited) \in Nat
    BY RowsKnown, SubsetsOfRows DEF IInv
  <2>3. Cardinality(heap) <= K
    BY <2>1, <2>2, SizeAssumption DEF Least
  <2>4. visited \in 0 .. NumClusters
    BY VisitedType DEF IInv
  <2>5. result \in Seq(Rows) /\ idx \in 0 .. Len(result) /\ output = SubSeq(result, 1, idx)
    BY DEF IInv, ResultInv
  <2>6. idx \in Nat /\ output \in Seq(Rows)
    BY <2>5, EmittedRows, LenProperties
  <2> QED BY <2>1, <2>3, <2>4, <2>5, <2>6 DEF IInv, SinkInv, SinkTypes, TypeOK
<1> QED BY <1>1, Invariance, PTL

\* Where the pruner is exact, the heap is a K-best subset of what has been visited after every
\* cluster, provided the first cluster with passing rows filled it (Start, MergeIntoHeap).
THEOREM NearestIfFilledAtOnceAlways == Spec => []NearestIfFilledAtOnce
<1>1. IInv => NearestIfFilledAtOnce
  BY DEF IInv, HeapInv, NearestIfFilledAtOnce
<1> QED BY <1>1, Invariance, PTL

-----------------------------------------------------------------------------
(* The promise to the plan above.                                           *)

LEMMA SameCardinalityInPromise == \A S : Promise!Cardinality(S) = Cardinality(S)
  BY Zenon DEF Promise!Cardinality, Cardinality

LEMMA SameMembership == \A x, y, S : (x \in S <=> y \in S) => (x \in S) = (y \in S)
  OBVIOUS

LEMMA BuildIsAnswer == ASSUME IInv, BuildResultSet PROVE Promise!Answer
<1>1. /\ phase = "search" /\ phase' = "source" /\ UNCHANGED <<selected, nProbe, output>>
  BY DEF BuildResultSet, query
<1>2. RowsToVisit' = RowsToVisit
  BY <1>1 DEF RowsToVisit
<1>3. /\ Len(result') = Least(K, Cardinality(RowsToVisit))
      /\ \A i \in DOMAIN result' : result'[i] \in RowsToVisit
      /\ \A i, j \in DOMAIN result' :
            i < j => result'[i] # result'[j] /\ Dist[result'[i]] <= Dist[result'[j]]
  BY ResultIsAnswer DEF IInv
<1>4. Len(result') = Promise!Least(K, Promise!Cardinality(RowsToVisit))
  BY <1>3, SameCardinalityInPromise DEF Least, Promise!Least
<1> HIDE DEF RowsToVisit
<1> QED BY <1>1, <1>2, <1>3, <1>4 DEF Promise!Answer, Promise!IsAnswer, PhasesWithAnswer

LEMMA NoRowsIsAnswer == ASSUME IInv, FinalizeWithoutRows PROVE Promise!Answer
<1>1. /\ phase = "sink" /\ phase' = "no output"
      /\ UNCHANGED <<selected, nProbe, result, output>>
  BY DEF FinalizeWithoutRows, query, source
<1>2. selected = {} /\ result = <<>>
  BY <1>1, AllCollected DEF FinalizeWithoutRows, IInv, ResultInv
<1>3. RowsToVisit = {} /\ RowsToVisit' = {}
  BY <1>1, <1>2 DEF RowsToVisit
<1>4. Len(result') = Promise!Least(K, Promise!Cardinality(RowsToVisit))
  <2>1. Promise!Cardinality(RowsToVisit) = 0
    BY <1>3, FS_EmptySet, SameCardinalityInPromise, Zenon
  <2>2. Len(result') = 0
    BY <1>1, <1>2, EmptySeq
  <2> QED BY <2>1, <2>2, SizeAssumption DEF Promise!Least
<1>5. (phase' = "finished") = (phase = "finished")
  BY <1>1
<1>6. Promise!IsAnswer(result')
  <2>1. DOMAIN result' = {}
    <3>1. result' \in Seq(Rows) /\ Len(result') = 0
      BY <1>1, <1>2, EmptySeq
    <3> QED BY <3>1, LenProperties
  <2> QED BY <1>4, <2>1 DEF Promise!IsAnswer
<1> HIDE DEF RowsToVisit
<1> QED BY <1>1, <1>3, <1>5, <1>6 DEF Promise!Answer, PhasesWithAnswer

LEMMA EmitIsDeliverOrFinish == ASSUME IInv, Emit PROVE Promise!Deliver \/ Promise!Finish
<1> DEFINE n == Least(VectorSize, Len(result) - idx)
<1>1. /\ n \in 0 .. VectorSize /\ idx + n \in 0 .. Len(result) /\ (n = 0 => idx = Len(result))
      /\ output \o SubSeq(result, idx + 1, idx + n) = SubSeq(result, 1, idx + n)
  BY EmitProgress, Zenon DEF IInv
<1>2. /\ result \in Seq(Rows) /\ idx \in 0 .. Len(result) /\ output = SubSeq(result, 1, idx)
  BY DEF IInv, ResultInv
<1>3. Len(output) = idx /\ (idx = Len(result) => output = result)
  BY <1>2, EmittedRows
<1>4. phase = "source" /\ UNCHANGED <<selected, nProbe, result>>
  BY DEF Emit, query
<1>5. RowsToVisit' = RowsToVisit
  BY <1>4 DEF RowsToVisit
<1>6. CASE n = 0
  <2>1. phase' = "finished" /\ UNCHANGED output
    BY <1>6 DEF Emit
  <2>2. (phase' \in PhasesWithAnswer) = (phase \in PhasesWithAnswer) /\ phase \in PhasesWithAnswer
    <3>1. phase' \in PhasesWithAnswer /\ phase \in PhasesWithAnswer
      BY <1>4, <2>1 DEF PhasesWithAnswer
    <3> QED BY <3>1, SameMembership
  <2> HIDE DEF RowsToVisit
  <2> QED BY <1>1, <1>3, <1>4, <1>5, <1>6, <2>1, <2>2 DEF Promise!Finish
<1>7. CASE n # 0
  <2>1. phase' = phase /\ output' = SubSeq(result, 1, idx + n)
    BY <1>1, <1>7 DEF Emit
  <2>2. n \in 1 .. VectorSize /\ idx + n <= Len(result)
    BY <1>1, <1>7, SizeAssumption
  <2> HIDE DEF n, RowsToVisit
  <2> QED BY <1>3, <1>4, <1>5, <2>1, <2>2 DEF Promise!Deliver, PhasesWithAnswer
<1> QED BY <1>6, <1>7

LEMMA EndIsFinish == ASSUME IInv, EndWithoutOutput PROVE Promise!Finish
<1>1. /\ phase = "no output" /\ phase' = "finished"
      /\ UNCHANGED <<selected, nProbe, result, output>>
  BY DEF EndWithoutOutput, query, source
<1>2. output = result
  <2>1. result = <<>> /\ idx = 0 /\ output = SubSeq(result, 1, idx)
    BY <1>1 DEF IInv, ResultInv
  <2> QED BY <2>1, SubSeqEmpty
<1>3. RowsToVisit' = RowsToVisit
  BY <1>1 DEF RowsToVisit
<1>4. (phase' \in PhasesWithAnswer) = (phase \in PhasesWithAnswer) /\ phase \in PhasesWithAnswer
  <2>1. phase' \in PhasesWithAnswer /\ phase \in PhasesWithAnswer
    BY <1>1 DEF PhasesWithAnswer
  <2> QED BY <2>1, SameMembership
<1> HIDE DEF RowsToVisit
<1> QED BY <1>1, <1>2, <1>3, <1>4 DEF Promise!Finish

\* Every step of the variant is one of the promise or leaves what it promises alone, however the
\* heap came to be filled and whatever the pruner discards: one answer, of K rows or all to be
\* visited, nearest first, each row of it emitted once.  That the query ends is left to the run.
THEOREM KeepsPromise == Spec => Promise!Spec
<1>1. Init => Promise!Init
  BY DEF Init, Promise!Init, PhasesWithAnswer
<1>2. ASSUME IInv, [Next]_vars PROVE [Promise!Next]_(Promise!vars)
  <2>1. ASSUME UNCHANGED <<selected, nProbe, source>>,
               phase' \in {"source", "no output", "finished"} => phase' = phase,
               phase \in {"source", "no output", "finished"} => phase' = phase
        PROVE  UNCHANGED Promise!vars
    <3>1. RowsToVisit' = RowsToVisit
      BY <2>1 DEF RowsToVisit
    <3>2. phase' \in PhasesWithAnswer <=> phase \in PhasesWithAnswer
      BY <2>1 DEF PhasesWithAnswer
    <3>3. (phase' \in PhasesWithAnswer) = (phase \in PhasesWithAnswer)
      BY <3>2, SameMembership
    <3>4. (phase' = "finished") = (phase = "finished")
      BY <2>1
    <3> HIDE DEF RowsToVisit
    <3> QED BY <2>1, <3>1, <3>3, <3>4, Zenon DEF Promise!vars, source
  <2>2. ASSUME NEW t \in Threads, ThreadStep(t) PROVE UNCHANGED Promise!vars
    BY <2>1, <2>2 DEF ThreadStep, Sink, Combine, query
  <2>3. CASE BeginSearch \/ UNCHANGED vars
    BY <2>1, <2>3 DEF BeginSearch, vars, query
  <2>4. CASE SkipCluster \/ Start \/ PruneAndMerge
    BY <2>1, <2>4 DEF SkipCluster, Start, PruneAndMerge, VisitNext, query
  <2> QED
    BY <1>2, <2>2, <2>3, <2>4, BuildIsAnswer, NoRowsIsAnswer, EmitIsDeliverOrFinish, EndIsFinish
       DEF Next, SearchStep, Promise!Next
<1> QED BY <1>1, <1>2, Invariance, PTL DEF Spec, Promise!Spec

=============================================================================
