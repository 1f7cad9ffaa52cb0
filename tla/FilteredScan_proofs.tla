------------------------ MODULE FilteredScan_proofs ------------------------
(***************************************************************************)
(* Theorems about the filtered operator, for any table, any predicate, any  *)
(* number of threads and any limit.                                         *)
(***************************************************************************)
EXTENDS FilteredScan, AnswerLemmas

-----------------------------------------------------------------------------
(* The inductive invariant.                                                 *)

Types ==
    /\ selected \in SUBSET Rows /\ nProbe \in Nat /\ exact \in BOOLEAN
    /\ nextRowGroup \in 0..NumRowGroups
    /\ scanning \in [Threads -> SUBSET Rows]
    /\ pc \in [Threads -> {"scan", "sink", "combine", "combined"}]
    /\ chunk \in [Threads -> SUBSET Rows]
    /\ currentId \in [Threads -> RowGroups]
    /\ passing \in [Threads -> SUBSET Rows]
    /\ searched \in [Threads -> Seq(RowGroups)]
    /\ searchedAll \in Seq(RowGroups)
    /\ evaluator \in [RowGroups -> SUBSET Rows]
    /\ offset \in [RowGroups -> 0..NumClusters]
    /\ endIdx \in [RowGroups -> 0..NumClusters]
    /\ phase \in {"sink", "iterate", "source", "finished"}

\* The rows of a row group that pass.
Passing(g) == RowsOf(g) \cap selected

\* The rows that a thread has and has not searched.
Mine(t) == scanning[t] \cup chunk[t] \cup passing[t]

\* The row groups that a thread has had rows of.
Held(t) == {RowGroupOf[r] : r \in Mine(t)} \cup RangeOf(searched[t])

\* The searcher has this query's rows, and has offered those of the clusters that it is past.
Initialized(g) ==
    /\ evaluator[g] = Passing(g)
    /\ \A r \in Passing(g) : ClusterOf[r] <= offset[g] => r \in offered

\* A thread has all rows of the row groups it has rows of, and meets row groups in order.
RowsInv(t) ==
    /\ Mine(t) \subseteq selected
    /\ \A r \in Mine(t) : Passing(RowGroupOf[r]) \subseteq Mine(t)
    /\ \A r, s \in scanning[t] \cup chunk[t] : RowGroupOf[r] = RowGroupOf[s]
    /\ \A r \in scanning[t] : currentId[t] <= RowGroupOf[r]
    /\ passing[t] \subseteq RowsOf(currentId[t])
    /\ currentId[t] <= nextRowGroup

\* Where a thread is.
ThreadInv(t) ==
    /\ pc[t] = "scan" => chunk[t] = {}
    /\ pc[t] = "sink" => chunk[t] # {} /\ \A r \in chunk[t] : RowGroupOf[r] > currentId[t]
    /\ pc[t] \in {"sink", "combine"} =>
        /\ passing[t] # {} /\ passing[t] = Passing(currentId[t])
        /\ Initialized(currentId[t])
        /\ endIdx[currentId[t]] = PartitionsOnFirstIteration
    /\ pc[t] \in {"combine", "combined"} =>
        scanning[t] = {} /\ chunk[t] = {} /\ nextRowGroup = NumRowGroups
    /\ pc[t] = "combined" => \A r \in passing[t] : RowGroupOf[r] \in RangeOf(searched[t])

\* What a thread has searched.
SearchedInv(t) ==
    /\ \A i, j \in DOMAIN searched[t] : i < j => searched[t][i] < searched[t][j]
    /\ pc[t] # "combined" => \A g \in RangeOf(searched[t]) : g < currentId[t]
    /\ \A g \in RangeOf(searched[t]) :
        Initialized(g) /\ Passing(g) # {} /\ offset[g] >= PartitionsOnFirstIteration

\* Each row group is one thread's, and no row that passes is lost.
SharesInv ==
    /\ \A t \in Threads : \A g \in Held(t) : g < nextRowGroup
    /\ \A t, u \in Threads : t # u => Held(t) \cap Held(u) = {}
    /\ \A r \in selected : RowGroupOf[r] < nextRowGroup => \E t \in Threads : RowGroupOf[r] \in Held(t)

\* The global list is the combined threads' lists.
ListInv ==
    /\ \A i, j \in DOMAIN searchedAll : i # j => searchedAll[i] # searchedAll[j]
    /\ \A g : g \in RangeOf(searchedAll)
                <=> \E t \in Threads : pc[t] = "combined" /\ g \in RangeOf(searched[t])
    /\ phase # "sink" => \A t \in Threads : pc[t] = "combined"

SinkInv ==
    /\ Types
    /\ \A t \in Threads : RowsInv(t) /\ ThreadInv(t) /\ SearchedInv(t)
    /\ SharesInv
    /\ ListInv

HeapInv ==
    /\ \A g \in RowGroups : offset[g] < endIdx[g] => evaluator[g] \subseteq selected
    /\ offered \subseteq selected
    /\ best \in SUBSET offered /\ offered \in SUBSET Rows
    /\ best = offered \/ Cardinality(best) = K
    /\ Cardinality(best) <= K
    /\ exact => IsNearest(Dist, Tolerance, best, offered)

\* How far n follow-up iterations get.
Reached(n, i) == i >= n * FollowUp \/ i = NumClusters

Tasks == [rowGroup : RowGroups, state : {"ready", "running", "finished"}]

\* Tasks search the listed row groups, each of them further with every iteration.
IterationsInv ==
    /\ iterations \in Nat /\ tasks \in Seq(Tasks)
    /\ phase = "sink" => iterations = 0
    /\ phase = "iterate" =>
        /\ iterations > 0 /\ iterations < MaxNumProbeIterations
        /\ tasks \in [DOMAIN searchedAll -> Tasks]
        /\ \A i \in DOMAIN searchedAll :
            /\ tasks[i].rowGroup = searchedAll[i]
            /\ tasks[i].state = "ready" => Reached(iterations - 1, offset[searchedAll[i]])
            /\ tasks[i].state = "running" => Reached(iterations, endIdx[searchedAll[i]])
            /\ tasks[i].state = "finished" => Reached(iterations, offset[searchedAll[i]])
    /\ phase \in {"source", "finished"} => iterations <= MaxNumProbeIterations

\* Someone waits for the searcher of the row group.
Busy(g) ==
    \/ \E t \in Threads : pc[t] \in {"sink", "combine"} /\ currentId[t] = g
    \/ /\ phase = "iterate"
       /\ \E i \in DOMAIN tasks : tasks[i].state = "running" /\ tasks[i].rowGroup = g

BusyInv == \A g \in RowGroups : offset[g] < endIdx[g] => Busy(g)

ResultInv ==
    /\ phase \in {"sink", "iterate"} => result = <<>> /\ idx = 0
    /\ phase \in {"source", "finished"} => RangeOf(result) = best
    /\ result \in Seq(Rows)
    /\ idx \in 0 .. Len(result)
    /\ output = SubSeq(result, 1, idx)
    /\ phase = "finished" => idx = Len(result)

IInv == SinkInv /\ HeapInv /\ IterationsInv /\ BusyInv /\ ResultInv

-----------------------------------------------------------------------------
(* Facts about the data.                                                    *)

LEMMA SameCardinality == \A S : B!Cardinality(S) = Cardinality(S)
  BY Zenon DEF B!Cardinality, Cardinality

LEMMA RowTypes ==
    \A r \in Rows : RowGroupOf[r] \in RowGroups /\ RowGroupOf[r] \in Nat
                    /\ ClusterOf[r] \in Nat /\ ClusterOf[r] > 0 /\ ClusterOf[r] <= NumClusters
  BY RowAssumption, SizeAssumption DEF RowGroups

LEMMA PartitionsType == nProbe \in Nat => PartitionsOnFirstIteration \in 0 .. NumClusters
  BY SizeAssumption DEF PartitionsOnFirstIteration

\* The elements of a list, and of a list with one more.
LEMMA ListElements ==
  ASSUME NEW S, NEW s \in Seq(S)
  PROVE  /\ RangeOf(s) \subseteq S
         /\ \A x \in S : Append(s, x) \in Seq(S) /\ RangeOf(Append(s, x)) = RangeOf(s) \cup {x}
<1>1. RangeOf(s) \subseteq S
  BY ElementOfSeq, LenProperties DEF RangeOf
<1>2. ASSUME NEW x \in S PROVE Append(s, x) \in Seq(S) /\ RangeOf(Append(s, x)) = RangeOf(s) \cup {x}
  <2>1. /\ Append(s, x) \in Seq(S) /\ DOMAIN Append(s, x) = 1 .. Len(s) + 1
        /\ \A i \in 1 .. Len(s) : Append(s, x)[i] = s[i]
        /\ Append(s, x)[Len(s) + 1] = x
        /\ DOMAIN s = 1 .. Len(s) /\ Len(s) \in Nat
    BY AppendProperties, LenProperties
  <2>2. RangeOf(Append(s, x)) \subseteq RangeOf(s) \cup {x}
    BY <2>1 DEF RangeOf
  <2>3. RangeOf(s) \cup {x} \subseteq RangeOf(Append(s, x))
    BY <2>1 DEF RangeOf
  <2> QED BY <2>1, <2>2, <2>3
<1> QED BY <1>1, <1>2

-----------------------------------------------------------------------------
(* Steps that leave a thread alone.                                         *)

Same(u) ==
    /\ scanning'[u] = scanning[u] /\ chunk'[u] = chunk[u] /\ passing'[u] = passing[u]
    /\ pc'[u] = pc[u] /\ currentId'[u] = currentId[u] /\ searched'[u] = searched[u]

\* A searcher goes on with the same rows.
Kept(g) ==
    /\ Initialized(g) => Initialized(g)'
    /\ offset'[g] >= offset[g]

LEMMA LeftAlone ==
  ASSUME SinkInv, NEW u \in Threads, Same(u), UNCHANGED query,
         nextRowGroup' \in Nat, nextRowGroup' >= nextRowGroup,
         nextRowGroup' = nextRowGroup \/ (pc[u] \notin {"combine", "combined"}),
         \A g \in Held(u) : Kept(g) /\ (endIdx'[g] = endIdx[g] \/ pc[u] = "combined"),
         offset' \in [RowGroups -> 0..NumClusters]
  PROVE  RowsInv(u)' /\ ThreadInv(u)' /\ SearchedInv(u)' /\ Held(u)' = Held(u)
<1>1. UNCHANGED <<selected, nProbe, exact>>
  BY DEF query
<1>2. Mine(u)' = Mine(u) /\ Held(u)' = Held(u)
  BY DEF Same, Mine, Held
<1>3. \A g : Passing(g)' = Passing(g)
  BY <1>1 DEF Passing
<1>4. PartitionsOnFirstIteration' = PartitionsOnFirstIteration
  BY <1>1 DEF PartitionsOnFirstIteration
<1>5. RowsInv(u)'
  <2>1. currentId[u] \in Nat /\ nextRowGroup \in Nat
    BY SizeAssumption DEF SinkInv, Types, RowGroups
  <2> QED BY <1>1, <1>2, <1>3, <2>1 DEF SinkInv, RowsInv, Same
<1>6. pc[u] \in {"sink", "combine"} => currentId[u] \in Held(u)
  BY DEF SinkInv, ThreadInv, RowsInv, RowsOf, Held, Mine
<1>7. ThreadInv(u)'
  BY <1>3, <1>4, <1>6 DEF SinkInv, ThreadInv, Same, Kept
<1>8. SearchedInv(u)'
  <2>1. RangeOf(searched[u]) \subseteq Held(u) /\ RangeOf(searched[u]) \subseteq RowGroups
    BY ListElements DEF Held, SinkInv, Types
  <2>2. \A g \in RangeOf(searched[u]) : offset'[g] >= PartitionsOnFirstIteration
    BY <1>1, <2>1, PartitionsType, SizeAssumption DEF SinkInv, Types, SearchedInv, Kept
  <2> QED BY <1>3, <1>4, <2>1, <2>2 DEF SinkInv, SearchedInv, Same, Kept
<1> QED BY <1>2, <1>5, <1>7, <1>8

LEMMA SharesFrame ==
  ASSUME SharesInv, UNCHANGED <<selected, nextRowGroup>>, \A u \in Threads : Held(u)' = Held(u)
  PROVE  SharesInv'
  BY DEF SharesInv

LEMMA ListFrame ==
  ASSUME ListInv, UNCHANGED <<searchedAll, phase>>,
         \A u \in Threads : (pc'[u] = "combined" <=> pc[u] = "combined")
                            /\ (pc[u] = "combined" => searched'[u] = searched[u])
  PROVE  ListInv'
  BY DEF ListInv

-----------------------------------------------------------------------------
(* The sink keeps it.                                                       *)

LEMMA SinkInit == Init => SinkInv
<1> SUFFICES ASSUME Init PROVE SinkInv
  OBVIOUS
<1>1. Types
  BY RowAssumption, SizeAssumption DEF Init, Types, RowGroups, RowsOf
<1>2. \A t \in Threads : /\ scanning[t] = {} /\ chunk[t] = {} /\ passing[t] = {}
                         /\ searched[t] = <<>> /\ pc[t] = "scan"
  BY DEF Init
<1>3. RangeOf(<<>>) = {}
  BY DEF RangeOf
<1>4. \A t \in Threads : Mine(t) = {} /\ Held(t) = {}
  BY <1>2, <1>3 DEF Mine, Held
<1>5. \A t \in Threads : RowsInv(t) /\ ThreadInv(t) /\ SearchedInv(t)
  <2>1. DOMAIN <<>> = {}
    OBVIOUS
  <2>2. \A t \in Threads : SearchedInv(t)
    BY <1>2, <1>3, <2>1 DEF SearchedInv
  <2>3. \A t \in Threads : RowsInv(t)
    BY <1>2, <1>4 DEF RowsInv, Init
  <2> QED BY <1>2, <2>2, <2>3 DEF ThreadInv
<1>6. SharesInv
  <2>1. \A r \in selected : ~(RowGroupOf[r] < nextRowGroup)
    BY <1>1, RowTypes DEF Init, Types
  <2> QED BY <1>4, <2>1 DEF SharesInv
<1>7. ListInv
  BY <1>2, <1>3 DEF ListInv, Init
<1> QED BY <1>1, <1>5, <1>6, <1>7 DEF SinkInv

LEMMA TakeKeeps == ASSUME SinkInv, NEW t \in Threads, TakeRowGroup(t) PROVE SinkInv'
<1>1. /\ pc[t] = "scan" /\ scanning[t] = {} /\ nextRowGroup < NumRowGroups
      /\ scanning' = [scanning EXCEPT ![t] = Passing(nextRowGroup)]
      /\ nextRowGroup' = nextRowGroup + 1
      /\ UNCHANGED <<selected, nProbe, exact, pc, chunk, currentId, passing, searched, searchedAll,
                     evaluator, offset, endIdx, offered, phase>>
  BY DEF TakeRowGroup, query, local, searchers, heap, Passing
<1>2. /\ nextRowGroup \in RowGroups /\ nextRowGroup \in Nat /\ nextRowGroup' \in 0 .. NumRowGroups
      /\ Passing(nextRowGroup) \in SUBSET Rows
  BY <1>1, SizeAssumption DEF SinkInv, Types, RowGroups, Passing
<1>3. Types'
  BY <1>1, <1>2 DEF SinkInv, Types
<1>4. \A g : Passing(g)' = Passing(g) /\ Initialized(g)' = Initialized(g)
  BY <1>1 DEF Passing, Initialized
<1>5. ASSUME NEW u \in Threads, u # t
      PROVE  RowsInv(u)' /\ ThreadInv(u)' /\ SearchedInv(u)' /\ Held(u)' = Held(u)
  <2>1. Same(u) /\ UNCHANGED query
    BY <1>1, <1>5 DEF Same, query, SinkInv, Types
  <2>2. pc[u] \notin {"combine", "combined"}
    BY <1>1, <1>2, SizeAssumption DEF SinkInv, ThreadInv
  <2>3. \A g \in Held(u) : Kept(g) /\ endIdx'[g] = endIdx[g]
    <3>1. Held(u) \subseteq RowGroups
      BY RowTypes, ListElements DEF SinkInv, Types, Held, Mine
    <3> QED BY <1>1, <1>4, <3>1, SizeAssumption DEF Kept, SinkInv, Types
  <2>4. offset' \in [RowGroups -> 0..NumClusters]
    BY <1>3 DEF Types
  <2> QED BY <1>1, <1>2, <2>1, <2>2, <2>3, <2>4, LeftAlone
<1>6. /\ scanning'[t] = Passing(nextRowGroup) /\ chunk[t] = {} /\ chunk'[t] = {}
      /\ passing'[t] = passing[t] /\ searched'[t] = searched[t] /\ currentId'[t] = currentId[t]
      /\ pc'[t] = "scan"
  BY <1>1 DEF SinkInv, Types, ThreadInv
<1>7. /\ Mine(t) = passing[t] /\ Mine(t)' = Passing(nextRowGroup) \cup passing[t]
      /\ Passing(nextRowGroup) \subseteq selected
      /\ \A r \in Passing(nextRowGroup) : RowGroupOf[r] = nextRowGroup
  BY <1>1, <1>6 DEF Mine, Passing, RowsOf
<1>8. /\ Held(t) \subseteq Held(t)' /\ Held(t)' \subseteq Held(t) \cup {nextRowGroup}
      /\ \A r \in Passing(nextRowGroup) : nextRowGroup \in Held(t)'
  BY <1>6, <1>7 DEF Held
<1>9. \A u \in Threads : \A g \in Held(u) : g \in RowGroups /\ g < nextRowGroup
  BY RowTypes, ListElements DEF SinkInv, Types, SharesInv, Held, Mine
<1>10. RowsInv(t)'
  <2>1. \A r \in Mine(t)' : Passing(RowGroupOf[r])' \subseteq Mine(t)'
    BY <1>4, <1>7 DEF SinkInv, RowsInv
  <2>2. currentId'[t] <= nextRowGroup'
    BY <1>1, <1>2, <1>6, SizeAssumption DEF SinkInv, Types, RowsInv, RowGroups
  <2>3. \A r \in scanning'[t] : currentId'[t] <= RowGroupOf[r]
    BY <1>6, <1>7 DEF SinkInv, RowsInv
  <2> QED BY <1>1, <1>6, <1>7, <2>1, <2>2, <2>3 DEF SinkInv, RowsInv
<1>11. ThreadInv(t)' /\ SearchedInv(t)'
  <2>1. PartitionsOnFirstIteration' = PartitionsOnFirstIteration
    BY <1>1 DEF PartitionsOnFirstIteration
  <2> QED BY <1>1, <1>4, <1>6, <2>1 DEF SinkInv, ThreadInv, SearchedInv
<1>12. SharesInv'
  <2>1. \A u \in Threads : \A g \in Held(u)' : g < nextRowGroup'
    BY <1>1, <1>2, <1>5, <1>8, <1>9 DEF RowGroups
  <2>2. \A u, v \in Threads : u # v => Held(u)' \cap Held(v)' = {}
    BY <1>2, <1>5, <1>8, <1>9 DEF SinkInv, SharesInv
  <2>3. ASSUME NEW r \in selected, RowGroupOf[r] < nextRowGroup'
        PROVE  \E u \in Threads : RowGroupOf[r] \in Held(u)'
    <3>1. RowGroupOf[r] \in Nat /\ r \in Rows
      BY RowTypes DEF SinkInv, Types
    <3>2. CASE RowGroupOf[r] < nextRowGroup
      BY <1>5, <1>8, <3>2 DEF SinkInv, SharesInv
    <3>3. CASE RowGroupOf[r] = nextRowGroup
      BY <1>8, <3>1, <3>3 DEF Passing, RowsOf
    <3> QED BY <1>1, <1>2, <2>3, <3>1, <3>2, <3>3
  <2> QED BY <1>1, <2>1, <2>2, <2>3 DEF SharesInv
<1>13. ListInv'
  BY <1>1, ListFrame DEF SinkInv
<1> QED BY <1>3, <1>5, <1>10, <1>11, <1>12, <1>13 DEF SinkInv

LEMMA HeldTypes ==
  ASSUME SinkInv, NEW t \in Threads
  PROVE  \A g \in Held(t) : g \in RowGroups /\ g \in Nat /\ g < nextRowGroup
  BY RowTypes, ListElements, SizeAssumption DEF SinkInv, Types, SharesInv, Held, Mine, RowGroups

\* The searchers stay as they are.
LEMMA Idle ==
  ASSUME SinkInv, NEW u \in Threads, Same(u), UNCHANGED <<query, nextRowGroup, searchers, offered>>
  PROVE  RowsInv(u)' /\ ThreadInv(u)' /\ SearchedInv(u)' /\ Held(u)' = Held(u)
<1>1. UNCHANGED <<selected, evaluator, offset, endIdx>>
  BY DEF query, searchers
<1>2. \A g \in Held(u) : Kept(g) /\ endIdx'[g] = endIdx[g]
  <2>1. \A g : Initialized(g)' = Initialized(g)
    BY <1>1 DEF Initialized, Passing
  <2> QED BY <1>1, <2>1, HeldTypes, SizeAssumption DEF Kept, SinkInv, Types
<1>3. offset' \in [RowGroups -> 0..NumClusters] /\ nextRowGroup' \in Nat /\ nextRowGroup' >= nextRowGroup
  BY <1>1, SizeAssumption DEF SinkInv, Types
<1> QED BY <1>2, <1>3, LeftAlone

\* The searcher of another thread's row group starts.
LEMMA OtherStarts ==
  ASSUME SinkInv, NEW t \in Threads, NEW u \in Threads, t # u, Same(u),
         passing[t] # {}, InitializeAndSearch(currentId[t], passing[t]),
         UNCHANGED <<query, nextRowGroup, offered>>
  PROVE  RowsInv(u)' /\ ThreadInv(u)' /\ SearchedInv(u)' /\ Held(u)' = Held(u)
<1>1. /\ UNCHANGED selected
      /\ evaluator' = [evaluator EXCEPT ![currentId[t]] = passing[t]]
      /\ offset' = [offset EXCEPT ![currentId[t]] = 0]
      /\ endIdx' = [endIdx EXCEPT ![currentId[t]] = Least(PartitionsOnFirstIteration, NumClusters)]
  BY DEF query, InitializeAndSearch
<1>2. currentId[t] \in Held(t)
  BY DEF SinkInv, RowsInv, RowsOf, Held, Mine
<1>3. \A g \in Held(u) : g # currentId[t]
  BY <1>2 DEF SinkInv, SharesInv
<1>4. \A g \in Held(u) : Kept(g) /\ endIdx'[g] = endIdx[g]
  <2> TAKE g \in Held(u)
  <2>1. evaluator'[g] = evaluator[g] /\ offset'[g] = offset[g] /\ endIdx'[g] = endIdx[g] /\ offset[g] \in Nat
    BY <1>1, <1>3, HeldTypes, SizeAssumption DEF SinkInv, Types
  <2> QED BY <1>1, <2>1 DEF Kept, Initialized, Passing
<1>5. offset' \in [RowGroups -> 0..NumClusters] /\ nextRowGroup' \in Nat /\ nextRowGroup' >= nextRowGroup
  BY <1>1, SizeAssumption DEF SinkInv, Types
<1> QED BY <1>4, <1>5, LeftAlone

\* The searcher of the thread's own row group starts.
LEMMA OwnStarts ==
  ASSUME SinkInv, NEW t \in Threads, InitializeAndSearch(currentId[t], passing[t]),
         UNCHANGED query
  PROVE  /\ evaluator'[currentId[t]] = passing[t] /\ offset'[currentId[t]] = 0
         /\ endIdx'[currentId[t]] = PartitionsOnFirstIteration'
         /\ evaluator' \in [RowGroups -> SUBSET Rows]
         /\ offset' \in [RowGroups -> 0..NumClusters]
         /\ endIdx' \in [RowGroups -> 0..NumClusters]
<1>1. /\ UNCHANGED <<selected, nProbe, exact>>
      /\ evaluator' = [evaluator EXCEPT ![currentId[t]] = passing[t]]
      /\ offset' = [offset EXCEPT ![currentId[t]] = 0]
      /\ endIdx' = [endIdx EXCEPT ![currentId[t]] = Least(PartitionsOnFirstIteration, NumClusters)]
  BY DEF query, InitializeAndSearch
<1>2. currentId[t] \in RowGroups /\ passing[t] \in SUBSET Rows
  BY DEF SinkInv, Types
<1>3. /\ PartitionsOnFirstIteration \in 0 .. NumClusters /\ NumClusters \in Nat
      /\ PartitionsOnFirstIteration' = PartitionsOnFirstIteration
  BY <1>1, PartitionsType, SizeAssumption DEF SinkInv, Types, PartitionsOnFirstIteration
<1>4. Least(PartitionsOnFirstIteration, NumClusters) = PartitionsOnFirstIteration
  <2> HIDE DEF PartitionsOnFirstIteration
  <2> QED BY <1>3 DEF Least
<1> HIDE DEF PartitionsOnFirstIteration
<1>5. /\ evaluator' \in [RowGroups -> SUBSET Rows] /\ evaluator'[currentId[t]] = passing[t]
      /\ offset' \in [RowGroups -> 0..NumClusters] /\ offset'[currentId[t]] = 0
      /\ endIdx' \in [RowGroups -> 0..NumClusters]
      /\ endIdx'[currentId[t]] = PartitionsOnFirstIteration
  BY <1>1, <1>2, <1>3, <1>4 DEF SinkInv, Types
<1> QED BY <1>3, <1>5

LEMMA CollectKeeps ==
  ASSUME SinkInv, NEW t \in Threads, NEW c \in SUBSET scanning[t], NEW g \in RowGroups,
         SinkCollect(t, c, g)
  PROVE  SinkInv'
<1>1. /\ pc[t] = "scan" /\ c # {} /\ \A r \in c : RowGroupOf[r] = g
      /\ scanning' = [scanning EXCEPT ![t] = @ \ c]
      /\ currentId' = [currentId EXCEPT ![t] = g]
      /\ passing' = [passing EXCEPT ![t] = @ \cup c]
      /\ ~(g > currentId[t] /\ passing[t] # {})
      /\ UNCHANGED <<nextRowGroup, query, pc, chunk, searched, searchedAll, searchers, heap, phase>>
  BY DEF SinkCollect, Emits
<1>2. /\ scanning'[t] = scanning[t] \ c /\ currentId'[t] = g /\ passing'[t] = passing[t] \cup c
      /\ chunk[t] = {} /\ chunk'[t] = {} /\ pc'[t] = "scan" /\ searched'[t] = searched[t]
  BY <1>1 DEF SinkInv, Types, ThreadInv
<1>3. UNCHANGED <<selected, nProbe, exact, evaluator, offset, endIdx, offered>>
  BY <1>1 DEF query, searchers, heap
<1>4. Types'
  BY <1>1, <1>3 DEF SinkInv, Types
<1>5. \A u \in Threads \ {t} : RowsInv(u)' /\ ThreadInv(u)' /\ SearchedInv(u)' /\ Held(u)' = Held(u)
  <2> TAKE u \in Threads \ {t}
  <2>1. Same(u)
    BY <1>1 DEF Same, SinkInv, Types
  <2> QED BY <1>1, <1>3, <2>1, Idle
<1>6. Mine(t)' = Mine(t) /\ Held(t)' = Held(t)
  BY <1>2 DEF Mine, Held
<1>7. \A h : Passing(h)' = Passing(h) /\ Initialized(h)' = Initialized(h)
  BY <1>3 DEF Passing, Initialized
<1>8. currentId[t] <= g /\ g < nextRowGroup /\ g \in Nat /\ currentId[t] \in Nat /\ nextRowGroup \in Nat
  <2>1. \E r \in c : g = RowGroupOf[r] /\ r \in scanning[t]
    BY <1>1
  <2>2. g \in Held(t)
    BY <2>1 DEF Held, Mine
  <2>3. currentId[t] <= g
    BY <2>1 DEF SinkInv, RowsInv
  <2>4. currentId[t] \in Nat /\ nextRowGroup \in Nat
    BY SizeAssumption DEF SinkInv, Types, RowGroups
  <2> QED BY <2>2, <2>3, <2>4, HeldTypes
<1>9. RowsInv(t)'
  <2>1. passing'[t] \subseteq RowsOf(currentId'[t])
    <3>1. passing[t] # {} => currentId[t] = g
      BY <1>1, <1>8
    <3>2. c \subseteq RowsOf(g)
      BY <1>1 DEF RowsOf, SinkInv, Types
    <3> QED BY <1>2, <3>1, <3>2 DEF SinkInv, RowsInv
  <2>2. \A r \in scanning'[t] : currentId'[t] <= RowGroupOf[r]
    <3>1. \A r \in scanning[t] : RowGroupOf[r] = g
      BY <1>1 DEF SinkInv, RowsInv
    <3> QED BY <1>2, <1>8, <3>1
  <2>3. currentId'[t] <= nextRowGroup'
    BY <1>1, <1>2, <1>8
  <2> QED BY <1>2, <1>3, <1>6, <1>7, <2>1, <2>2, <2>3 DEF SinkInv, RowsInv
<1>10. ThreadInv(t)' /\ SearchedInv(t)'
  <2>1. PartitionsOnFirstIteration' = PartitionsOnFirstIteration
    BY <1>3 DEF PartitionsOnFirstIteration
  <2>2. \A h \in RangeOf(searched[t]) : h < g
    BY <1>1, <1>8, HeldTypes DEF SinkInv, SearchedInv, Held
  <2> QED BY <1>2, <1>3, <1>7, <2>1, <2>2 DEF SinkInv, ThreadInv, SearchedInv
<1>11. SharesInv'
  BY <1>1, <1>3, <1>5, <1>6, SharesFrame DEF SinkInv
<1>12. ListInv'
  BY <1>1, ListFrame DEF SinkInv
<1> QED BY <1>4, <1>5, <1>9, <1>10, <1>11, <1>12 DEF SinkInv

LEMMA SearchKeeps ==
  ASSUME SinkInv, NEW t \in Threads, NEW c \in SUBSET scanning[t], NEW g \in RowGroups,
         SinkSearch(t, c, g)
  PROVE  SinkInv'
<1>1. /\ pc[t] = "scan" /\ c # {} /\ \A r \in c : RowGroupOf[r] = g
      /\ g > currentId[t] /\ passing[t] # {}
      /\ scanning' = [scanning EXCEPT ![t] = @ \ c]
      /\ chunk' = [chunk EXCEPT ![t] = c]
      /\ pc' = [pc EXCEPT ![t] = "sink"]
      /\ InitializeAndSearch(currentId[t], passing[t])
      /\ UNCHANGED <<nextRowGroup, query, currentId, passing, searched, searchedAll, heap, phase>>
  BY DEF SinkSearch, Emits
<1>2. /\ scanning'[t] = scanning[t] \ c /\ currentId'[t] = currentId[t] /\ passing'[t] = passing[t]
      /\ chunk[t] = {} /\ chunk'[t] = c /\ pc'[t] = "sink" /\ searched'[t] = searched[t]
  BY <1>1 DEF SinkInv, Types, ThreadInv
<1>3. UNCHANGED <<selected, nProbe, exact, offered>>
  BY <1>1 DEF query, heap
<1>4. /\ evaluator'[currentId[t]] = passing[t] /\ offset'[currentId[t]] = 0
      /\ endIdx'[currentId[t]] = PartitionsOnFirstIteration'
      /\ evaluator' \in [RowGroups -> SUBSET Rows]
      /\ offset' \in [RowGroups -> 0..NumClusters]
      /\ endIdx' \in [RowGroups -> 0..NumClusters]
  BY <1>1, OwnStarts
<1>5. Types'
  BY <1>1, <1>3, <1>4 DEF SinkInv, Types
<1>6. \A u \in Threads \ {t} : RowsInv(u)' /\ ThreadInv(u)' /\ SearchedInv(u)' /\ Held(u)' = Held(u)
  <2> TAKE u \in Threads \ {t}
  <2>1. Same(u)
    BY <1>1 DEF Same, SinkInv, Types
  <2> QED BY <1>1, <1>3, <2>1, OtherStarts
<1>7. Mine(t)' = Mine(t) /\ Held(t)' = Held(t)
  BY <1>2 DEF Mine, Held
<1>8. \A h : Passing(h)' = Passing(h)
  BY <1>3 DEF Passing
<1>9. \A r \in scanning[t] : RowGroupOf[r] = g
  BY <1>1 DEF SinkInv, RowsInv
<1>10. RowsInv(t)'
  BY <1>1, <1>2, <1>3, <1>7, <1>8, <1>9 DEF SinkInv, RowsInv
<1>11. currentId[t] \in Nat /\ currentId[t] \in RowGroups
  BY SizeAssumption DEF SinkInv, Types, RowGroups
<1>12. passing[t] = Passing(currentId[t])
  <2>1. \A r \in passing[t] : RowGroupOf[r] = currentId[t] /\ r \in selected /\ r \in Rows
    BY DEF SinkInv, RowsInv, RowsOf, Mine
  <2>2. Passing(currentId[t]) \subseteq scanning[t] \cup passing[t]
    BY <1>1, <1>2, <2>1 DEF SinkInv, RowsInv, Mine
  <2>3. \A r \in Passing(currentId[t]) : RowGroupOf[r] # g
    BY <1>1, <1>11 DEF Passing, RowsOf
  <2> QED BY <1>9, <2>1, <2>2, <2>3 DEF Passing, RowsOf
<1>13. Initialized(currentId[t])'
  <2>1. \A r \in Passing(currentId[t]) : ~(ClusterOf[r] <= 0)
    BY RowTypes DEF Passing, RowsOf
  <2> QED BY <1>2, <1>4, <1>8, <1>12, <2>1 DEF Initialized
<1>14. ThreadInv(t)'
  BY <1>1, <1>2, <1>4, <1>8, <1>12, <1>13 DEF ThreadInv
<1>15. SearchedInv(t)'
  <2>1. PartitionsOnFirstIteration' = PartitionsOnFirstIteration
    BY <1>3 DEF PartitionsOnFirstIteration
  <2>2. \A h \in RangeOf(searched[t]) : h # currentId[t] /\ h \in RowGroups
    BY <1>1, <1>11, HeldTypes DEF SinkInv, SearchedInv, Held
  <2>3. \A h \in RangeOf(searched[t]) : evaluator'[h] = evaluator[h] /\ offset'[h] = offset[h]
    BY <1>1, <2>2 DEF InitializeAndSearch, SinkInv, Types
  <2>4. \A h \in RangeOf(searched[t]) : Initialized(h)'
    BY <1>3, <1>8, <2>3 DEF SinkInv, SearchedInv, Initialized
  <2> QED BY <1>1, <1>2, <1>8, <2>1, <2>3, <2>4 DEF SinkInv, SearchedInv
<1>16. SharesInv'
  BY <1>1, <1>3, <1>6, <1>7, SharesFrame DEF SinkInv
<1>17. ListInv'
  <2>1. \A u \in Threads : pc'[u] = "combined" <=> pc[u] = "combined"
    BY <1>1 DEF SinkInv, Types
  <2> QED BY <1>1, <2>1, ListFrame DEF SinkInv
<1> QED BY <1>5, <1>6, <1>10, <1>14, <1>15, <1>16, <1>17 DEF SinkInv

LEMMA AppendIncreasing ==
  ASSUME NEW S \in SUBSET Nat, NEW s \in Seq(S), NEW x \in S,
         \A i, j \in DOMAIN s : i < j => s[i] < s[j], \A y \in RangeOf(s) : y < x
  PROVE  \A i, j \in DOMAIN Append(s, x) : i < j => Append(s, x)[i] < Append(s, x)[j]
<1>1. /\ DOMAIN Append(s, x) = 1 .. Len(s) + 1
      /\ \A i \in 1 .. Len(s) : Append(s, x)[i] = s[i]
      /\ Append(s, x)[Len(s) + 1] = x
      /\ DOMAIN s = 1 .. Len(s) /\ Len(s) \in Nat
  BY AppendProperties, LenProperties
<1> SUFFICES ASSUME NEW i \in 1 .. Len(s) + 1, NEW j \in 1 .. Len(s) + 1, i < j
             PROVE  Append(s, x)[i] < Append(s, x)[j]
  BY <1>1
<1>2. i \in 1 .. Len(s) /\ (j \in 1 .. Len(s) \/ j = Len(s) + 1)
  BY <1>1
<1>3. CASE j \in 1 .. Len(s)
  BY <1>1, <1>2, <1>3
<1>4. CASE j = Len(s) + 1
  <2>1. s[i] \in RangeOf(s)
    BY <1>1, <1>2 DEF RangeOf
  <2> QED BY <1>1, <1>2, <1>4, <2>1
<1> QED BY <1>2, <1>3, <1>4

LEMMA SearchedKeeps == ASSUME SinkInv, NEW t \in Threads, SinkSearched(t) PROVE SinkInv'
<1>1. /\ pc[t] = "sink" /\ HasReturned(currentId[t])
      /\ searched' = [searched EXCEPT ![t] = Append(@, currentId[t])]
      /\ passing' = [passing EXCEPT ![t] = chunk[t]]
      /\ chunk' = [chunk EXCEPT ![t] = {}]
      /\ pc' = [pc EXCEPT ![t] = "scan"]
      /\ UNCHANGED <<nextRowGroup, scanning, query, searchedAll, searchers, heap, phase>>
  BY DEF SinkSearched, child
<1>2. PICK q \in chunk[t] : currentId' = [currentId EXCEPT ![t] = RowGroupOf[q]]
  BY DEF SinkSearched
<1> DEFINE h == RowGroupOf[q]
           g == currentId[t]
<1>3. /\ scanning'[t] = scanning[t] /\ currentId'[t] = h /\ passing'[t] = chunk[t]
      /\ chunk'[t] = {} /\ pc'[t] = "scan" /\ searched'[t] = Append(searched[t], g)
  BY <1>1, <1>2 DEF SinkInv, Types
<1>4. UNCHANGED <<selected, nProbe, exact, evaluator, offset, endIdx, offered>>
  BY <1>1 DEF query, searchers, heap
<1>5. /\ q \in Rows /\ h \in RowGroups /\ h \in Held(t) /\ h < nextRowGroup /\ h \in Nat
      /\ nextRowGroup \in Nat
  BY HeldTypes, RowTypes, SizeAssumption DEF SinkInv, Types, Held, Mine
<1>6. g \in RowGroups /\ g \in Nat /\ h > g
  BY <1>1, SizeAssumption DEF SinkInv, Types, RowGroups, ThreadInv
<1>7. searched[t] \in Seq(RowGroups)
  BY DEF SinkInv, Types
<1>8. Append(searched[t], g) \in Seq(RowGroups) /\ RangeOf(Append(searched[t], g)) = RangeOf(searched[t]) \cup {g}
  BY <1>6, <1>7, ListElements
<1>9. Types'
  <2>1. searched' \in [Threads -> Seq(RowGroups)]
    BY <1>1, <1>8 DEF SinkInv, Types
  <2>2. /\ passing' \in [Threads -> SUBSET Rows] /\ chunk' \in [Threads -> SUBSET Rows]
        /\ currentId' \in [Threads -> RowGroups]
    BY <1>1, <1>2, <1>5 DEF SinkInv, Types
  <2> QED BY <1>1, <1>4, <2>1, <2>2 DEF SinkInv, Types
<1>10. \A u \in Threads \ {t} : RowsInv(u)' /\ ThreadInv(u)' /\ SearchedInv(u)' /\ Held(u)' = Held(u)
  <2> TAKE u \in Threads \ {t}
  <2>1. Same(u)
    BY <1>1, <1>2 DEF Same, SinkInv, Types
  <2> QED BY <1>1, <1>4, <2>1, Idle
<1>11. /\ Mine(t)' = scanning[t] \cup chunk[t]
       /\ \A r \in scanning[t] \cup chunk[t] : RowGroupOf[r] = h /\ r \in Rows
  BY <1>3 DEF Mine, SinkInv, RowsInv, Types
<1>12. /\ passing[t] # {} /\ \A r \in passing[t] : RowGroupOf[r] = g
       /\ passing[t] = Passing(g) /\ Initialized(g) /\ endIdx[g] = PartitionsOnFirstIteration
  BY <1>1 DEF SinkInv, RowsInv, RowsOf, ThreadInv
<1>13. Held(t)' = Held(t)
  <2>1. Held(t)' = {RowGroupOf[r] : r \in scanning[t] \cup chunk[t]} \cup RangeOf(searched[t]) \cup {g}
    BY <1>3, <1>8, <1>11 DEF Held
  <2>2. {RowGroupOf[r] : r \in Mine(t)} = {RowGroupOf[r] : r \in scanning[t] \cup chunk[t]} \cup {g}
    BY <1>12 DEF Mine
  <2> QED BY <2>1, <2>2 DEF Held
<1>14. \A k : Passing(k)' = Passing(k) /\ Initialized(k)' = Initialized(k)
  BY <1>4 DEF Passing, Initialized
<1>15. RowsInv(t)'
  <2>1. \A r \in Mine(t)' : Passing(RowGroupOf[r])' \subseteq Mine(t)'
    <3>1. Passing(h) \subseteq Mine(t)
      BY DEF SinkInv, RowsInv, Mine
    <3>2. \A r \in Passing(h) : r \notin passing[t]
      BY <1>6, <1>12 DEF Passing, RowsOf
    <3> QED BY <1>11, <1>14, <3>1, <3>2 DEF Mine
  <2>2. Mine(t)' \subseteq selected'
    BY <1>4, <1>11 DEF SinkInv, RowsInv, Mine
  <2>3. passing'[t] \subseteq RowsOf(currentId'[t])
    BY <1>3, <1>11 DEF RowsOf
  <2>4. currentId'[t] <= nextRowGroup' /\ \A r \in scanning'[t] : currentId'[t] <= RowGroupOf[r]
    BY <1>1, <1>3, <1>5, <1>11
  <2>5. \A r, s \in scanning'[t] \cup chunk'[t] : RowGroupOf[r] = RowGroupOf[s]
    BY <1>3, <1>11
  <2> QED BY <2>1, <2>2, <2>3, <2>4, <2>5 DEF RowsInv
<1>16. ThreadInv(t)'
  BY <1>3 DEF ThreadInv
<1>17. SearchedInv(t)'
  <2>1. \A k \in RangeOf(searched[t]) : k < g /\ k \in Nat
    BY <1>1, HeldTypes DEF SinkInv, SearchedInv, Held
  <2>2. \A k \in RangeOf(searched'[t]) : k < currentId'[t]
    BY <1>3, <1>5, <1>6, <1>8, <2>1
  <2>3. offset[g] >= PartitionsOnFirstIteration
    BY <1>1, <1>12 DEF HasReturned
  <2>4. PartitionsOnFirstIteration' = PartitionsOnFirstIteration
    BY <1>4 DEF PartitionsOnFirstIteration
  <2>5. \A k \in RangeOf(searched'[t]) :
          Initialized(k)' /\ Passing(k)' # {} /\ offset'[k] >= PartitionsOnFirstIteration'
    BY <1>3, <1>4, <1>8, <1>12, <1>14, <2>3, <2>4 DEF SinkInv, SearchedInv
  <2>7. RowGroups \in SUBSET Nat
    BY SizeAssumption DEF RowGroups
  <2>6. ASSUME NEW i \in DOMAIN searched'[t], NEW j \in DOMAIN searched'[t], i < j
        PROVE  searched'[t][i] < searched'[t][j]
    BY <1>3, <1>6, <1>7, <2>1, <2>6, <2>7, AppendIncreasing DEF SinkInv, SearchedInv
  <2> QED BY <2>2, <2>5, <2>6 DEF SearchedInv
<1>18. SharesInv'
  BY <1>1, <1>4, <1>10, <1>13, SharesFrame DEF SinkInv
<1>19. ListInv'
  <2>1. \A u \in Threads : /\ pc'[u] = "combined" <=> pc[u] = "combined"
                           /\ pc[u] = "combined" => searched'[u] = searched[u]
    BY <1>1 DEF SinkInv, Types
  <2> QED BY <1>1, <2>1, ListFrame DEF SinkInv
<1> QED BY <1>9, <1>10, <1>15, <1>16, <1>17, <1>18, <1>19 DEF SinkInv

Distinct(s) == \A i, j \in DOMAIN s : i # j => s[i] # s[j]
Increasing(s) == \A i, j \in DOMAIN s : i < j => s[i] < s[j]

\* A thread's list joins the global one.
LEMMA ConcatElements ==
  ASSUME NEW a \in Seq(RowGroups), NEW b \in Seq(RowGroups),
         Distinct(a), Increasing(b), RangeOf(a) \cap RangeOf(b) = {}
  PROVE  /\ a \o b \in Seq(RowGroups) /\ RangeOf(a \o b) = RangeOf(a) \cup RangeOf(b)
         /\ Distinct(a \o b)
<1> DEFINE ab == a \o b
           S == RowGroups
<1>0. S \in SUBSET Nat
  BY SizeAssumption DEF RowGroups
<1> HIDE DEF S
<1> USE DEF Distinct, Increasing
<1>1. /\ ab \in Seq(S) /\ DOMAIN ab = 1 .. Len(a) + Len(b)
      /\ \A i \in 1 .. Len(a) : ab[i] = a[i]
      /\ \A i \in Len(a) + 1 .. Len(a) + Len(b) : ab[i] = b[i - Len(a)]
      /\ DOMAIN a = 1 .. Len(a) /\ Len(a) \in Nat /\ DOMAIN b = 1 .. Len(b) /\ Len(b) \in Nat
  BY ConcatProperties, LenProperties DEF S
<1> HIDE DEF ab
<1>2. ASSUME NEW i \in DOMAIN ab
      PROVE  \/ i \in DOMAIN a /\ ab[i] = a[i]
             \/ i - Len(a) \in DOMAIN b /\ ab[i] = b[i - Len(a)] /\ i \notin DOMAIN a
  BY <1>1
<1>3. RangeOf(ab) \subseteq RangeOf(a) \cup RangeOf(b)
  BY <1>2 DEF RangeOf
<1>4. ASSUME NEW x \in RangeOf(b) PROVE x \in RangeOf(ab)
  <2>1. PICK i \in DOMAIN b : x = b[i]
    BY DEF RangeOf
  <2>2. i + Len(a) \in DOMAIN ab /\ ab[i + Len(a)] = b[i]
    <3>1. i \in 1 .. Len(b)
      BY <1>1
    <3>2. /\ i + Len(a) \in Len(a) + 1 .. Len(a) + Len(b) /\ (i + Len(a)) - Len(a) = i
          /\ i + Len(a) \in 1 .. Len(a) + Len(b)
      BY <1>1, <3>1
    <3>3. ab[i + Len(a)] = b[(i + Len(a)) - Len(a)]
      BY <1>1, <3>2
    <3> QED BY <1>1, <3>2, <3>3
  <2> QED BY <2>1, <2>2 DEF RangeOf
<1>5. ASSUME NEW x \in RangeOf(a) PROVE x \in RangeOf(ab)
  <2>1. PICK i \in DOMAIN a : x = a[i]
    BY DEF RangeOf
  <2>2. i \in DOMAIN ab /\ ab[i] = a[i]
    BY <1>1, <2>1
  <2> QED BY <2>1, <2>2 DEF RangeOf
<1>6. ASSUME NEW i \in DOMAIN ab, NEW j \in DOMAIN ab, i # j PROVE ab[i] # ab[j]
  <2>1. \A k, l \in DOMAIN b : k # l => b[k] # b[l]
    <3> SUFFICES ASSUME NEW k \in DOMAIN b, NEW l \in DOMAIN b, k # l PROVE b[k] # b[l]
      OBVIOUS
    <3>1. k \in Int /\ l \in Int
      BY <1>1
    <3>2. b[k] \in Nat /\ b[l] \in Nat
      <4>1. b[k] \in RangeOf(b) /\ b[l] \in RangeOf(b)
        BY DEF RangeOf
      <4>2. RangeOf(b) \subseteq S
        BY ListElements DEF S
      <4> QED BY <1>0, <4>1, <4>2
    <3>3. k < l \/ l < k
      BY <3>1
    <3>4. b[k] < b[l] \/ b[l] < b[k]
      BY <3>3
    <3> QED BY <3>2, <3>4
  <2>2. \A k \in DOMAIN a, l \in DOMAIN b : a[k] # b[l]
    BY DEF RangeOf
  <2>3. i \in Int /\ j \in Int /\ Len(a) \in Int
    BY <1>1
  <2>4. i - Len(a) # j - Len(a)
    BY <1>6, <2>3
  <2> QED BY <1>2, <1>6, <2>1, <2>2, <2>4
<1> QED BY <1>1, <1>3, <1>4, <1>5, <1>6 DEF ab, S

\* A thread that combines adds what it has searched to the global list.
LEMMA CombineList ==
  ASSUME SinkInv, NEW t \in Threads, pc[t] # "combined", phase = "sink", phase' = phase,
         pc' = [pc EXCEPT ![t] = "combined"],
         \A u \in Threads \ {t} : searched'[u] = searched[u],
         searched'[t] \in Seq(RowGroups),
         \A i, j \in DOMAIN searched'[t] : i < j => searched'[t][i] < searched'[t][j],
         RangeOf(searched'[t]) \subseteq Held(t),
         searchedAll' = searchedAll \o searched'[t]
  PROVE  ListInv' /\ searchedAll' \in Seq(RowGroups)
<1>1. RowGroups \in SUBSET Nat /\ searchedAll \in Seq(RowGroups) /\ pc \in [Threads -> {"scan", "sink", "combine", "combined"}]
  BY SizeAssumption DEF RowGroups, SinkInv, Types
<1>2. \A g : g \in RangeOf(searchedAll)
               <=> \E u \in Threads : pc[u] = "combined" /\ g \in RangeOf(searched[u])
  BY DEF SinkInv, ListInv
<1>3. RangeOf(searchedAll) \cap RangeOf(searched'[t]) = {}
  <2> SUFFICES ASSUME NEW g \in RangeOf(searchedAll), g \in RangeOf(searched'[t]) PROVE FALSE
    OBVIOUS
  <2>1. PICK u \in Threads : pc[u] = "combined" /\ g \in RangeOf(searched[u])
    BY <1>2
  <2>2. u # t /\ g \in Held(u) /\ g \in Held(t)
    BY <2>1 DEF Held
  <2> QED BY <2>2 DEF SinkInv, SharesInv
<1>4. \A i, j \in DOMAIN searchedAll : i # j => searchedAll[i] # searchedAll[j]
  BY DEF SinkInv, ListInv
<1>5. /\ searchedAll' \in Seq(RowGroups)
      /\ RangeOf(searchedAll') = RangeOf(searchedAll) \cup RangeOf(searched'[t])
      /\ \A i, j \in DOMAIN searchedAll' : i # j => searchedAll'[i] # searchedAll'[j]
  <2> DEFINE b == searched'[t]
  <2>1. b \in Seq(RowGroups) /\ Increasing(b) /\ RangeOf(searchedAll) \cap RangeOf(b) = {}
    BY <1>3 DEF Increasing
  <2>2. Distinct(searchedAll)
    BY <1>4 DEF Distinct
  <2> HIDE DEF b
  <2>3. /\ searchedAll \o b \in Seq(RowGroups)
        /\ RangeOf(searchedAll \o b) = RangeOf(searchedAll) \cup RangeOf(b)
        /\ Distinct(searchedAll \o b)
    BY <1>1, <2>1, <2>2, ConcatElements
  <2> QED BY <2>3 DEF b, Distinct
<1>6. \A u \in Threads : pc'[u] = "combined" <=> (u = t \/ pc[u] = "combined")
  BY <1>1
<1>7. \A g : g \in RangeOf(searchedAll')
               <=> \E u \in Threads : pc'[u] = "combined" /\ g \in RangeOf(searched'[u])
  BY <1>2, <1>5, <1>6
<1> QED BY <1>5, <1>7 DEF ListInv

LEMMA CombineSearchKeeps == ASSUME SinkInv, NEW t \in Threads, CombineSearch(t) PROVE SinkInv'
<1>1. /\ pc[t] = "scan" /\ scanning[t] = {} /\ nextRowGroup = NumRowGroups
      /\ passing[t] # {}
      /\ pc' = [pc EXCEPT ![t] = "combine"]
      /\ InitializeAndSearch(currentId[t], passing[t])
      /\ UNCHANGED <<nextRowGroup, scanning, query, chunk, currentId, passing, searched, searchedAll,
                     heap, phase>>
  BY DEF CombineSearch, child
<1>2. pc'[t] = "combine" /\ chunk[t] = {}
  BY <1>1 DEF SinkInv, Types, ThreadInv
<1>3. UNCHANGED <<selected, nProbe, exact, offered>>
  BY <1>1 DEF query, heap
<1>4. /\ evaluator'[currentId[t]] = passing[t] /\ offset'[currentId[t]] = 0
      /\ endIdx'[currentId[t]] = PartitionsOnFirstIteration'
      /\ evaluator' \in [RowGroups -> SUBSET Rows]
      /\ offset' \in [RowGroups -> 0..NumClusters]
      /\ endIdx' \in [RowGroups -> 0..NumClusters]
  BY <1>1, OwnStarts
<1>5. Types'
  BY <1>1, <1>3, <1>4 DEF SinkInv, Types
<1>6. \A u \in Threads \ {t} : RowsInv(u)' /\ ThreadInv(u)' /\ SearchedInv(u)' /\ Held(u)' = Held(u)
  <2> TAKE u \in Threads \ {t}
  <2>1. Same(u)
    BY <1>1 DEF Same, SinkInv, Types
  <2> QED BY <1>1, <1>3, <2>1, OtherStarts
<1>7. Mine(t)' = Mine(t) /\ Held(t)' = Held(t) /\ Mine(t) = passing[t]
  BY <1>1, <1>2 DEF Mine, Held
<1>8. \A h : Passing(h)' = Passing(h)
  BY <1>3 DEF Passing
<1>9. RowsInv(t)'
  BY <1>1, <1>3, <1>7, <1>8 DEF SinkInv, RowsInv
<1>10. currentId[t] \in Nat /\ currentId[t] \in RowGroups
  BY SizeAssumption DEF SinkInv, Types, RowGroups
<1>11. passing[t] = Passing(currentId[t])
  <2>1. \A r \in passing[t] : RowGroupOf[r] = currentId[t] /\ r \in selected /\ r \in Rows
    BY DEF SinkInv, RowsInv, RowsOf, Mine
  <2>2. Passing(currentId[t]) \subseteq passing[t]
    BY <1>1, <1>7, <2>1 DEF SinkInv, RowsInv
  <2> QED BY <2>1, <2>2 DEF Passing, RowsOf
<1>12. Initialized(currentId[t])'
  <2>1. \A r \in Passing(currentId[t]) : ~(ClusterOf[r] <= 0)
    BY RowTypes DEF Passing, RowsOf
  <2> QED BY <1>1, <1>4, <1>8, <1>11, <2>1 DEF Initialized
<1>13. ThreadInv(t)'
  BY <1>1, <1>2, <1>4, <1>8, <1>11, <1>12 DEF ThreadInv
<1>14. SearchedInv(t)'
  <2>1. PartitionsOnFirstIteration' = PartitionsOnFirstIteration
    BY <1>3 DEF PartitionsOnFirstIteration
  <2>2. \A h \in RangeOf(searched[t]) : h # currentId[t] /\ h \in RowGroups
    BY <1>1, <1>10, HeldTypes DEF SinkInv, SearchedInv, Held
  <2>3. \A h \in RangeOf(searched[t]) : evaluator'[h] = evaluator[h] /\ offset'[h] = offset[h]
    BY <1>1, <2>2 DEF InitializeAndSearch, SinkInv, Types
  <2>4. \A h \in RangeOf(searched[t]) : Initialized(h)'
    BY <1>3, <1>8, <2>3 DEF SinkInv, SearchedInv, Initialized
  <2> QED BY <1>1, <1>2, <1>8, <2>1, <2>3, <2>4 DEF SinkInv, SearchedInv
<1>15. SharesInv'
  BY <1>1, <1>3, <1>6, <1>7, SharesFrame DEF SinkInv
<1>16. ListInv'
  <2>1. \A u \in Threads : pc'[u] = "combined" <=> pc[u] = "combined"
    BY <1>1 DEF SinkInv, Types
  <2> QED BY <1>1, <2>1, ListFrame DEF SinkInv
<1> QED BY <1>5, <1>6, <1>9, <1>13, <1>14, <1>15, <1>16 DEF SinkInv

LEMMA CombineNothingKeeps ==
  ASSUME SinkInv, phase = "sink", NEW t \in Threads, CombineNothing(t) PROVE SinkInv'
<1>1. /\ pc[t] = "scan" /\ scanning[t] = {} /\ nextRowGroup = NumRowGroups
      /\ passing[t] = {}
      /\ searchedAll' = searchedAll \o searched[t]
      /\ pc' = [pc EXCEPT ![t] = "combined"]
      /\ UNCHANGED <<nextRowGroup, scanning, query, chunk, currentId, passing, searched, searchers,
                     heap, phase>>
  BY DEF CombineNothing, child
<1>2. pc'[t] = "combined" /\ chunk[t] = {}
  BY <1>1 DEF SinkInv, Types, ThreadInv
<1>3. UNCHANGED <<selected, nProbe, exact, evaluator, offset, endIdx, offered>>
  BY <1>1 DEF query, searchers, heap
<1>4. \A u \in Threads \ {t} : RowsInv(u)' /\ ThreadInv(u)' /\ SearchedInv(u)' /\ Held(u)' = Held(u)
  <2> TAKE u \in Threads \ {t}
  <2>1. Same(u)
    BY <1>1 DEF Same, SinkInv, Types
  <2> QED BY <1>1, <1>3, <2>1, Idle
<1>5. Mine(t)' = Mine(t) /\ Held(t)' = Held(t)
  BY <1>1 DEF Mine, Held
<1>6. \A h : Passing(h)' = Passing(h) /\ Initialized(h)' = Initialized(h)
  BY <1>3 DEF Passing, Initialized
<1>7. RowsInv(t)'
  BY <1>1, <1>3, <1>5, <1>6 DEF SinkInv, RowsInv
<1>8. ThreadInv(t)'
  BY <1>1, <1>2 DEF ThreadInv
<1>9. SearchedInv(t)'
  <2>1. PartitionsOnFirstIteration' = PartitionsOnFirstIteration
    BY <1>3 DEF PartitionsOnFirstIteration
  <2> QED BY <1>1, <1>2, <1>3, <1>6, <2>1 DEF SinkInv, SearchedInv
<1>10. SharesInv'
  BY <1>1, <1>3, <1>4, <1>5, SharesFrame DEF SinkInv
<1>11. ListInv' /\ searchedAll' \in Seq(RowGroups)
  <2>1. searched'[t] = searched[t] /\ searched[t] \in Seq(RowGroups)
    BY <1>1 DEF SinkInv, Types
  <2>2. /\ \A i, j \in DOMAIN searched'[t] : i < j => searched'[t][i] < searched'[t][j]
        /\ RangeOf(searched'[t]) \subseteq Held(t)
    BY <2>1 DEF SinkInv, SearchedInv, Held
  <2> QED BY <1>1, <2>1, <2>2, CombineList
<1>12. Types'
  BY <1>1, <1>3, <1>11 DEF SinkInv, Types
<1> QED BY <1>4, <1>7, <1>8, <1>9, <1>10, <1>11, <1>12 DEF SinkInv

LEMMA CombineSearchedKeeps ==
  ASSUME SinkInv, phase = "sink", NEW t \in Threads, CombineSearched(t) PROVE SinkInv'
<1> DEFINE g == currentId[t]
<1>1. /\ pc[t] = "combine" /\ HasReturned(g)
      /\ searched' = [searched EXCEPT ![t] = Append(@, g)]
      /\ searchedAll' = searchedAll \o searched'[t]
      /\ pc' = [pc EXCEPT ![t] = "combined"]
      /\ UNCHANGED <<nextRowGroup, scanning, query, chunk, currentId, passing, searchers, heap, phase>>
  BY DEF CombineSearched, child
<1>2. /\ pc'[t] = "combined" /\ searched'[t] = Append(searched[t], g)
      /\ scanning[t] = {} /\ chunk[t] = {} /\ nextRowGroup = NumRowGroups
  BY <1>1 DEF SinkInv, Types, ThreadInv
<1>3. UNCHANGED <<selected, nProbe, exact, evaluator, offset, endIdx, offered>>
  BY <1>1 DEF query, searchers, heap
<1>4. /\ g \in RowGroups /\ g \in Nat /\ searched[t] \in Seq(RowGroups) /\ RowGroups \in SUBSET Nat
  BY SizeAssumption DEF SinkInv, Types, RowGroups
<1>5. /\ searched'[t] \in Seq(RowGroups)
      /\ RangeOf(searched'[t]) = RangeOf(searched[t]) \cup {g}
  BY <1>2, <1>4, ListElements
<1>6. \A u \in Threads \ {t} : RowsInv(u)' /\ ThreadInv(u)' /\ SearchedInv(u)' /\ Held(u)' = Held(u)
  <2> TAKE u \in Threads \ {t}
  <2>1. Same(u)
    BY <1>1 DEF Same, SinkInv, Types
  <2> QED BY <1>1, <1>3, <2>1, Idle
<1>7. /\ passing[t] # {} /\ \A r \in passing[t] : RowGroupOf[r] = g
      /\ passing[t] = Passing(g) /\ Initialized(g) /\ endIdx[g] = PartitionsOnFirstIteration
  BY <1>1 DEF SinkInv, RowsInv, RowsOf, ThreadInv
<1>8. Mine(t)' = Mine(t) /\ g \in Held(t) /\ Held(t)' = Held(t)
  <2>1. Mine(t)' = Mine(t)
    BY <1>1 DEF Mine
  <2>2. g \in {RowGroupOf[r] : r \in Mine(t)}
    BY <1>7 DEF Mine
  <2> QED BY <1>5, <2>1, <2>2 DEF Held
<1>9. \A h : Passing(h)' = Passing(h) /\ Initialized(h)' = Initialized(h)
  BY <1>3 DEF Passing, Initialized
<1>10. RowsInv(t)'
  BY <1>1, <1>3, <1>8, <1>9 DEF SinkInv, RowsInv
<1>11. ThreadInv(t)'
  BY <1>1, <1>2, <1>5, <1>7 DEF ThreadInv
<1>12. \A i, j \in DOMAIN searched'[t] : i < j => searched'[t][i] < searched'[t][j]
  <2>1. \A k \in RangeOf(searched[t]) : k < g
    BY <1>1 DEF SinkInv, SearchedInv
  <2>2. \A i, j \in DOMAIN searched[t] : i < j => searched[t][i] < searched[t][j]
    BY DEF SinkInv, SearchedInv
  <2> QED BY <1>2, <1>4, <2>1, <2>2, AppendIncreasing
<1>13. SearchedInv(t)'
  <2>1. PartitionsOnFirstIteration' = PartitionsOnFirstIteration
    BY <1>3 DEF PartitionsOnFirstIteration
  <2>2. offset[g] >= PartitionsOnFirstIteration
    BY <1>1, <1>7 DEF HasReturned
  <2>3. \A k \in RangeOf(searched'[t]) :
          Initialized(k)' /\ Passing(k)' # {} /\ offset'[k] >= PartitionsOnFirstIteration'
    BY <1>3, <1>5, <1>7, <1>9, <2>1, <2>2 DEF SinkInv, SearchedInv
  <2> QED BY <1>2, <1>12, <2>3 DEF SearchedInv
<1>14. SharesInv'
  BY <1>1, <1>3, <1>6, <1>8, SharesFrame DEF SinkInv
<1>15. ListInv' /\ searchedAll' \in Seq(RowGroups)
  <2>1. RangeOf(searched'[t]) \subseteq Held(t)
    BY <1>5, <1>8 DEF Held
  <2>2. \A u \in Threads \ {t} : searched'[u] = searched[u]
    BY <1>1 DEF SinkInv, Types
  <2> QED BY <1>1, <1>5, <1>12, <2>1, <2>2, CombineList
<1>16. Types'
  <2>1. searched' \in [Threads -> Seq(RowGroups)]
    BY <1>1, <1>2, <1>5 DEF SinkInv, Types
  <2> QED BY <1>1, <1>3, <1>15, <2>1 DEF SinkInv, Types
<1> QED BY <1>6, <1>10, <1>11, <1>13, <1>14, <1>15, <1>16 DEF SinkInv

-----------------------------------------------------------------------------
(* The other steps keep it.                                                 *)

LEMMA OfferedGrows ==
  ASSUME SinkInv, NEW g \in RowGroups, ProbeCluster(g)
  PROVE  /\ offset' \in [RowGroups -> 0..NumClusters]
         /\ \A h \in RowGroups : Kept(h)
<1>1. /\ offset[g] < endIdx[g]
      /\ offset' = [offset EXCEPT ![g] = @ + 1]
      /\ offered' = offered \cup {r \in evaluator[g] : ClusterOf[r] = offset[g] + 1}
      /\ UNCHANGED <<selected, evaluator>>
  <2>1. ~HasReturned(g) /\ offset[g] \in Nat /\ endIdx[g] \in Nat
    BY SizeAssumption DEF ProbeCluster, SinkInv, Types
  <2> QED BY <2>1 DEF HasReturned, ProbeCluster, NextCluster, query
<1>2. offset \in [RowGroups -> 0..NumClusters] /\ endIdx \in [RowGroups -> 0..NumClusters]
  BY DEF SinkInv, Types
<1>3. offset' \in [RowGroups -> 0..NumClusters] /\ offset'[g] = offset[g] + 1
  BY <1>1, <1>2, SizeAssumption
<1>4. ASSUME NEW h \in RowGroups PROVE offset'[h] >= offset[h]
  BY <1>1, <1>2, <1>3, SizeAssumption
<1>5. ASSUME NEW h \in RowGroups, Initialized(h) PROVE Initialized(h)'
  <2>1. Passing(h)' = Passing(h) /\ \A r \in Passing(h) : ClusterOf[r] \in Nat
    BY <1>1, RowTypes DEF Passing, RowsOf
  <2>2. CASE h # g
    BY <1>1, <1>2, <1>5, <2>1, <2>2 DEF Initialized
  <2>3. CASE h = g
    <3>1. ASSUME NEW r \in Passing(g), ClusterOf[r] <= offset[g] + 1 PROVE r \in offered'
      <4>1. ClusterOf[r] <= offset[g] \/ ClusterOf[r] = offset[g] + 1
        BY <1>2, <2>1, <2>3, <3>1, SizeAssumption
      <4> QED BY <1>1, <1>3, <1>5, <2>3, <3>1, <4>1 DEF Initialized
    <3> QED BY <1>1, <1>3, <1>5, <2>1, <2>3, <3>1 DEF Initialized
  <2> QED BY <2>2, <2>3
<1> QED BY <1>3, <1>4, <1>5 DEF Kept

LEMMA ProbeKeeps == ASSUME SinkInv, NEW g \in RowGroups, ProbeCluster(g) PROVE SinkInv'
<1>1. UNCHANGED <<query, nextRowGroup, scanning, pc, chunk, currentId, passing, searched,
                  searchedAll, evaluator, endIdx, phase>>
  BY DEF ProbeCluster, child, local
<1>2. offset' \in [RowGroups -> 0..NumClusters] /\ \A h \in RowGroups : Kept(h)
  BY OfferedGrows
<1>3. nextRowGroup' \in Nat /\ nextRowGroup' >= nextRowGroup
  BY <1>1, SizeAssumption DEF SinkInv, Types
<1>4. ASSUME NEW u \in Threads
      PROVE  RowsInv(u)' /\ ThreadInv(u)' /\ SearchedInv(u)' /\ Held(u)' = Held(u)
  <2>1. Same(u)
    BY <1>1 DEF Same
  <2>2. \A h \in Held(u) : Kept(h) /\ endIdx'[h] = endIdx[h]
    BY <1>1, <1>2, HeldTypes
  <2> QED BY <1>1, <1>2, <1>3, <2>1, <2>2, LeftAlone
<1>5. Types'
  BY <1>1, <1>2 DEF SinkInv, Types, query
<1>6. SharesInv'
  BY <1>1, <1>4, SharesFrame DEF SinkInv, query
<1>7. ListInv'
  BY <1>1, ListFrame DEF SinkInv
<1> QED BY <1>4, <1>5, <1>6, <1>7 DEF SinkInv

\* Steps of the event and of the source.
LEMMA LaterKeeps ==
  ASSUME SinkInv, \A t \in Threads : pc[t] = "combined",
         UNCHANGED <<query, child, local, searchedAll, evaluator, offset, offered>>,
         endIdx' \in [RowGroups -> 0..NumClusters],
         phase' \in {"sink", "iterate", "source", "finished"}
  PROVE  SinkInv'
<1>1. UNCHANGED <<nextRowGroup, scanning, pc, chunk, currentId, passing, searched, selected, nProbe, exact>>
  BY DEF child, local, query
<1>2. nextRowGroup' \in Nat /\ nextRowGroup' >= nextRowGroup /\ offset' \in [RowGroups -> 0..NumClusters]
  BY <1>1, SizeAssumption DEF SinkInv, Types
<1>3. ASSUME NEW u \in Threads
      PROVE  RowsInv(u)' /\ ThreadInv(u)' /\ SearchedInv(u)' /\ Held(u)' = Held(u)
  <2>1. Same(u) /\ pc[u] = "combined"
    BY <1>1 DEF Same
  <2>2. \A h \in Held(u) : Kept(h)
    <3>1. \A h : Initialized(h)' = Initialized(h)
      BY <1>1 DEF Initialized, Passing
    <3> QED BY <3>1, HeldTypes, SizeAssumption DEF Kept, SinkInv, Types
  <2> QED BY <1>1, <1>2, <2>1, <2>2, LeftAlone
<1>4. Types'
  BY <1>1 DEF SinkInv, Types
<1>5. SharesInv'
  BY <1>1, <1>3, SharesFrame DEF SinkInv
<1>6. ListInv'
  BY <1>1 DEF SinkInv, ListInv
<1> QED BY <1>3, <1>4, <1>5, <1>6 DEF SinkInv

\* The tasks of an iteration search row groups on the list.
LEMMA TaskOfList ==
  ASSUME SinkInv, IterationsInv, phase = "iterate", NEW i \in DOMAIN tasks
  PROVE  /\ i \in DOMAIN searchedAll /\ tasks[i].rowGroup = searchedAll[i]
         /\ tasks[i] \in Tasks
         /\ searchedAll[i] \in RowGroups /\ searchedAll[i] \in RangeOf(searchedAll)
         /\ Initialized(searchedAll[i])
         /\ \A t \in Threads : pc[t] = "combined"
<1>1. tasks \in [DOMAIN searchedAll -> Tasks] /\ i \in DOMAIN searchedAll
      /\ tasks[i].rowGroup = searchedAll[i]
  BY DEF IterationsInv
<1>2. searchedAll[i] \in RangeOf(searchedAll)
  BY <1>1 DEF RangeOf
<1>3. searchedAll[i] \in RowGroups
  BY <1>2, ListElements DEF SinkInv, Types
<1>4. \A t \in Threads : pc[t] = "combined"
  BY DEF SinkInv, ListInv
<1>5. Initialized(searchedAll[i])
  BY <1>2 DEF SinkInv, ListInv, SearchedInv
<1> QED BY <1>1, <1>2, <1>3, <1>4, <1>5

LEMMA ResumeTypes ==
  ASSUME SinkInv, NEW g \in RowGroups, ResumeSearch(g)
  PROVE  /\ endIdx' = [endIdx EXCEPT ![g] = Least(offset[g] + FollowUp, NumClusters)]
         /\ Least(offset[g] + FollowUp, NumClusters) \in 0 .. NumClusters
         /\ endIdx' \in [RowGroups -> 0..NumClusters]
         /\ UNCHANGED <<evaluator, offset>>
<1>1. offset[g] \in Nat
  BY SizeAssumption DEF SinkInv, Types
<1>2. Least(offset[g] + FollowUp, NumClusters) \in 0 .. NumClusters
  BY <1>1, SizeAssumption DEF Least
<1> QED BY <1>2 DEF ResumeSearch, SinkInv, Types

LEMMA SinkStep == SinkInv /\ IterationsInv /\ [Next]_vars => SinkInv'
<1> SUFFICES ASSUME SinkInv, IterationsInv, [Next]_vars PROVE SinkInv'
  OBVIOUS
<1>1. ASSUME NEW t \in Threads, ThreadStep(t) PROVE SinkInv'
  <2>1. ASSUME pc[t] # "combined" PROVE phase = "sink"
    BY <2>1 DEF SinkInv, ListInv
  <2>2. CombineNothing(t) \/ CombineSearched(t) => phase = "sink"
    BY <2>1 DEF CombineNothing, CombineSearched
  <2> QED
    BY <1>1, <2>2, TakeKeeps, CollectKeeps, SearchKeeps, SearchedKeeps, CombineSearchKeeps,
       CombineNothingKeeps, CombineSearchedKeeps
       DEF ThreadStep
<1>2. ASSUME NEW g \in RowGroups, ProbeCluster(g) PROVE SinkInv'
  BY <1>2, ProbeKeeps
<1>3. CASE Finalize \/ FinishEvent
  <2>1. \A t \in Threads : pc[t] = "combined"
    BY <1>3 DEF Finalize, FinishEvent, SinkInv, ListInv
  <2>2. phase' \in {"iterate", "source"}
    BY <1>3 DEF Finalize, FinishEvent, TryFinalizeSinkPhase
  <2>3. UNCHANGED <<query, child, local, searchedAll, searchers, heap>>
    BY <1>3 DEF Finalize, FinishEvent
  <2>4. endIdx' \in [RowGroups -> 0..NumClusters]
    BY <2>3 DEF searchers, SinkInv, Types
  <2> QED BY <2>1, <2>2, <2>3, <2>4, LaterKeeps DEF searchers, heap
<1>4. ASSUME NEW i \in DOMAIN tasks, ExecuteTask(i) PROVE SinkInv'
  <2>1. phase = "iterate" /\ ResumeSearch(tasks[i].rowGroup)
        /\ UNCHANGED <<query, child, local, searchedAll, heap, phase>>
    BY <1>4 DEF ExecuteTask
  <2>2. tasks[i].rowGroup \in RowGroups /\ \A t \in Threads : pc[t] = "combined"
    BY <2>1, TaskOfList
  <2>3. endIdx' \in [RowGroups -> 0..NumClusters] /\ UNCHANGED <<evaluator, offset>>
    BY <2>1, <2>2, ResumeTypes
  <2> QED BY <2>1, <2>2, <2>3, LaterKeeps DEF heap
<1>5. ASSUME NEW i \in DOMAIN tasks, FinishTask(i) PROVE SinkInv'
  <2>1. phase = "iterate" /\ UNCHANGED <<query, child, local, searchedAll, searchers, heap, phase>>
    BY <1>5 DEF FinishTask
  <2>2. \A t \in Threads : pc[t] = "combined"
    BY <2>1 DEF SinkInv, ListInv
  <2>3. endIdx' \in [RowGroups -> 0..NumClusters]
    BY <2>1 DEF searchers, SinkInv, Types
  <2> QED BY <2>1, <2>2, <2>3, LaterKeeps DEF searchers, heap
<1>6. CASE GetData
  <2>1. phase = "source" /\ phase' \in {"source", "finished"}
        /\ UNCHANGED <<query, child, local, searchedAll, searchers, heap>>
    BY <1>6 DEF GetData
  <2>2. \A t \in Threads : pc[t] = "combined"
    BY <2>1 DEF SinkInv, ListInv
  <2>3. endIdx' \in [RowGroups -> 0..NumClusters]
    BY <2>1 DEF searchers, SinkInv, Types
  <2> QED BY <2>1, <2>2, <2>3, LaterKeeps DEF searchers, heap
<1>7. CASE UNCHANGED vars
  <2>1. UNCHANGED <<query, child, local, searchedAll, searchers, heap, phase>>
    BY <1>7 DEF vars
  <2>2. UNCHANGED <<query, nextRowGroup, searchers, offered>>
    BY <2>1 DEF child, heap
  <2>3. \A u \in Threads : RowsInv(u)' /\ ThreadInv(u)' /\ SearchedInv(u)' /\ Held(u)' = Held(u)
    <3> TAKE u \in Threads
    <3>1. Same(u)
      BY <2>1 DEF Same, child, local
    <3> QED BY <2>2, <3>1, Idle
  <2>4. Types'
    BY <2>1 DEF SinkInv, Types, query, child, local, searchers
  <2>5. SharesInv'
    BY <2>1, <2>3, SharesFrame DEF SinkInv, query, child
  <2>6. ListInv'
    BY <2>1, ListFrame DEF SinkInv, local
  <2> QED BY <2>3, <2>4, <2>5, <2>6 DEF SinkInv
<1> QED BY <1>1, <1>2, <1>3, <1>4, <1>5, <1>6, <1>7 DEF Next, TaskStep

-----------------------------------------------------------------------------
(* The heap.                                                                *)

LEMMA HeapInit == Init => HeapInv
<1> SUFFICES ASSUME Init PROVE HeapInv
  OBVIOUS
<1>1. best = {} /\ offered = {} /\ \A g \in RowGroups : ~(offset[g] < endIdx[g])
  BY DEF Init
<1>2. Cardinality({}) = 0 /\ K \in Nat
  BY FS_EmptySet, SizeAssumption
<1> QED BY <1>1, <1>2 DEF HeapInv, IsNearest

LEMMA HeapFrame ==
  ASSUME HeapInv, UNCHANGED <<exact, best, offered, selected, evaluator, offset, endIdx>>
  PROVE  HeapInv'
  BY DEF HeapInv

\* A searcher starts with the rows of a thread.
LEMMA HeapAtStart ==
  ASSUME SinkInv, HeapInv, NEW t \in Threads, InitializeAndSearch(currentId[t], passing[t]),
         UNCHANGED <<query, best, offered>>
  PROVE  HeapInv'
<1>1. UNCHANGED <<exact, selected, best, offered>>
  BY DEF query
<1>2. passing[t] \subseteq selected /\ currentId[t] \in RowGroups
  BY DEF SinkInv, RowsInv, Mine, Types
<1>3. \A g \in RowGroups : offset'[g] < endIdx'[g] => evaluator'[g] \subseteq selected
  <2> TAKE g \in RowGroups
  <2>1. CASE g = currentId[t]
    BY <1>2, <2>1 DEF InitializeAndSearch, SinkInv, Types
  <2>2. CASE g # currentId[t]
    BY <1>2, <2>2 DEF InitializeAndSearch, SinkInv, Types, HeapInv
  <2> QED BY <2>1, <2>2
<1> QED BY <1>1, <1>3 DEF HeapInv

\* Whatever reaches the merge, the heap goes on holding K of the rows offered or all of them, and
\* the nearest ones if the pruner is exact.
LEMMA ProbeMerges ==
  ASSUME HeapInv, NEW g \in RowGroups, ProbeCluster(g), NextCluster(g) \in SUBSET Rows
  PROVE  /\ best' \in SUBSET offered'
         /\ best' = offered' \/ Cardinality(best') = K
         /\ Cardinality(best') <= K
         /\ exact' => IsNearest(Dist, Tolerance, best', offered')
<1>1. offered' = offered \cup NextCluster(g) /\ exact' = exact
  BY DEF ProbeCluster, query
<1>2. PICK survivors \in SUBSET NextCluster(g) :
        /\ MaySurvive(survivors, NextCluster(g))
        /\ best' \in SUBSET (best \cup survivors)
        /\ B!IsKBest(best', best \cup survivors)
  BY DEF ProbeCluster
<1>3. IsMerge(Rows, K, Dist, offered, best, NextCluster(g), survivors, best')
  <2>1. /\ best' = best \cup survivors \/ Cardinality(best') = K
        /\ Cardinality(best') <= K
        /\ \A b \in best', s \in (best \cup survivors) \ best' : Dist[b] <= Dist[s]
    BY <1>2, SameCardinality DEF B!IsKBest
  <2>2. Cardinality(best) < K => survivors = NextCluster(g)
    BY <1>2 DEF MaySurvive
  <2>3. IsFiniteSet(Rows) /\ K \in Nat /\ Dist \in [Rows -> Nat]
    BY RowAssumption, SizeAssumption
  <2> QED BY <1>2, <2>1, <2>2, <2>3 DEF HeapInv, IsMerge
<1>4. ASSUME exact PROVE IsNearest(Dist, Tolerance, best', offered \cup NextCluster(g))
  <2>1. \A s \in NextCluster(g) \ survivors, b \in best : Dist[b] <= Dist[s] + Tolerance[s]
    BY <1>2, <1>4 DEF MaySurvive
  <2>2. IsNearest(Dist, Tolerance, best, offered)
    BY <1>4 DEF HeapInv
  <2>3. Tolerance \in [Rows -> Nat]
    BY RowAssumption
  <2> QED BY <1>3, <2>1, <2>2, <2>3, MergeKeepsNearest
<1>5. /\ best' \in SUBSET (offered \cup NextCluster(g)) /\ Cardinality(best') <= K
      /\ best' = offered \cup NextCluster(g) \/ Cardinality(best') = K
  BY <1>3, MergeFills
<1> QED BY <1>1, <1>4, <1>5

LEMMA HeapStep == SinkInv /\ IterationsInv /\ HeapInv /\ [Next]_vars => HeapInv'
<1> SUFFICES ASSUME SinkInv, IterationsInv, HeapInv, [Next]_vars PROVE HeapInv'
  OBVIOUS
<1>1. ASSUME NEW t \in Threads, ThreadStep(t) PROVE HeapInv'
  <2>1. ASSUME UNCHANGED <<query, searchers, heap>> PROVE HeapInv'
    BY <2>1, HeapFrame DEF query, searchers, heap
  <2>2. ASSUME NEW c, NEW g, SinkSearch(t, c, g) PROVE HeapInv'
    BY <2>2, HeapAtStart DEF SinkSearch, heap
  <2>3. CASE CombineSearch(t)
    BY <2>3, HeapAtStart DEF CombineSearch, heap
  <2> QED
    BY <1>1, <2>1, <2>2, <2>3
       DEF ThreadStep, TakeRowGroup, SinkCollect, SinkSearched, CombineSearched, CombineNothing
<1>2. ASSUME NEW g \in RowGroups, ProbeCluster(g) PROVE HeapInv'
  <2>1. /\ UNCHANGED <<selected, evaluator, endIdx>>
        /\ offered' = offered \cup NextCluster(g)
        /\ offset[g] < endIdx[g]
    <3>1. ~HasReturned(g) /\ offset[g] \in Nat /\ endIdx[g] \in Nat
      BY <1>2, SizeAssumption DEF ProbeCluster, SinkInv, Types
    <3> QED BY <1>2, <3>1 DEF HasReturned, ProbeCluster, query
  <2>2. NextCluster(g) \subseteq selected /\ offered \subseteq selected /\ selected \in SUBSET Rows
    BY <2>1 DEF NextCluster, HeapInv, SinkInv, Types
  <2>3. offered' \subseteq selected' /\ offered' \in SUBSET Rows
    BY <2>1, <2>2
  <2>4. /\ best' \in SUBSET offered'
        /\ best' = offered' \/ Cardinality(best') = K
        /\ Cardinality(best') <= K
        /\ exact' => IsNearest(Dist, Tolerance, best', offered')
    BY <1>2, <2>2, ProbeMerges
  <2>5. \A h \in RowGroups : offset'[h] < endIdx'[h] => offset[h] < endIdx[h]
    <3> TAKE h \in RowGroups
    <3>1. offset'[h] >= offset[h] /\ offset'[h] \in Nat /\ offset[h] \in Nat /\ endIdx[h] \in Nat
      BY <1>2, OfferedGrows, SizeAssumption DEF Kept, SinkInv, Types
    <3> QED BY <2>1, <3>1
  <2>6. \A h \in RowGroups : offset'[h] < endIdx'[h] => evaluator'[h] \subseteq selected'
    BY <2>1, <2>5 DEF HeapInv
  <2> QED BY <2>3, <2>4, <2>6 DEF HeapInv
<1>3. ASSUME NEW i \in DOMAIN tasks, ExecuteTask(i) PROVE HeapInv'
  <2>1. phase = "iterate" /\ ResumeSearch(tasks[i].rowGroup) /\ UNCHANGED <<exact, selected, best, offered>>
    BY <1>3 DEF ExecuteTask, query, heap
  <2>2. tasks[i].rowGroup \in RowGroups /\ Initialized(tasks[i].rowGroup)
    BY <2>1, TaskOfList
  <2>3. /\ endIdx' = [endIdx EXCEPT ![tasks[i].rowGroup] = Least(offset[tasks[i].rowGroup] + FollowUp, NumClusters)]
        /\ UNCHANGED <<evaluator, offset>>
    BY <2>1, <2>2, ResumeTypes
  <2>5. \A g \in RowGroups : offset'[g] < endIdx'[g] => evaluator'[g] \subseteq selected'
    <3> TAKE g \in RowGroups
    <3>1. CASE g = tasks[i].rowGroup
      BY <2>1, <2>2, <2>3, <3>1 DEF Initialized, Passing
    <3>2. CASE g # tasks[i].rowGroup
      BY <2>1, <2>3, <3>2 DEF HeapInv, SinkInv, Types
    <3> QED BY <3>1, <3>2
  <2> QED BY <2>1, <2>5 DEF HeapInv
<1>4. ASSUME UNCHANGED <<query, searchers, heap>> PROVE HeapInv'
  BY <1>4, HeapFrame DEF query, searchers, heap
<1> QED
  BY <1>1, <1>2, <1>3, <1>4 DEF Next, TaskStep, Finalize, FinishEvent, FinishTask, GetData, vars

-----------------------------------------------------------------------------
(* The iterations.                                                          *)

\* The quotient, rounded up.
LEMMA CeilDivBounds ==
  ASSUME NEW n \in Nat, NEW f \in Nat \ {0}
  PROVE  /\ CeilDiv(n, f) \in Nat /\ CeilDiv(n, f) * f >= n
         /\ n > 0 => CeilDiv(n, f) > 0
<1> DEFINE q == CeilDiv(n, f)
           m == (n + f - 1) % f
<1>1. q \in Int /\ m \in 0 .. f - 1 /\ n + f - 1 = f * q + m
  BY DEF CeilDiv
<1> HIDE DEF q, m
<1>2. f * q >= n
  BY <1>1
<1>3. q >= 0
  <2>1. SUFFICES ASSUME q <= 0 - 1 PROVE FALSE
    BY <1>1
  <2>2. f * q <= f * (0 - 1)
    BY <1>1, <2>1
  <2> QED BY <1>1, <1>2, <2>2
<1>4. n > 0 => q # 0
  BY <1>1, <1>2
<1>5. q * f = f * q
  BY <1>1
<1> QED BY <1>1, <1>2, <1>3, <1>4, <1>5 DEF q

\* One iteration more than it takes to search all clusters in follow-up iterations.
LEMMA MaxIterations ==
  /\ MaxNumProbeIterations \in Nat /\ MaxNumProbeIterations > 1
  /\ (MaxNumProbeIterations - 1) * FollowUp >= NumClusters
<1>1. MaxNumProbeIterations = 1 + CeilDiv(NumClusters, FollowUp)
  BY SizeAssumption DEF MaxNumProbeIterations, MaximumNumberOfProbeIterations
<1> DEFINE q == CeilDiv(NumClusters, FollowUp)
<1>2. q \in Nat /\ q > 0 /\ q * FollowUp >= NumClusters
  BY CeilDivBounds, SizeAssumption
<1> HIDE DEF q
<1>3. (1 + q) - 1 = q
  BY <1>2
<1> QED BY <1>1, <1>2, <1>3 DEF q

LEMMA ReachedLater ==
  ASSUME NEW n \in Nat, NEW i \in 0 .. NumClusters, Reached(n, i)
  PROVE  Reached(n + 1, Least(i + FollowUp, NumClusters))
<1>1. (n + 1) * FollowUp = n * FollowUp + FollowUp /\ n * FollowUp \in Nat
  BY SizeAssumption
<1> DEFINE a == n * FollowUp
           b == (n + 1) * FollowUp
<1>2. a \in Nat /\ b = a + FollowUp
  BY <1>1
<1>3. i >= a \/ i = NumClusters
  BY DEF Reached
<1> HIDE DEF a, b
<1>4. \/ Least(i + FollowUp, NumClusters) >= b
      \/ Least(i + FollowUp, NumClusters) = NumClusters
  BY <1>2, <1>3, SizeAssumption DEF Least
<1> QED BY <1>4 DEF Reached, b

\* After the last iteration every cluster has been searched.
LEMMA ReachedAll ==
  ASSUME NEW i \in 0 .. NumClusters, Reached(MaxNumProbeIterations - 1, i)
  PROVE  i = NumClusters
<1> DEFINE a == (MaxNumProbeIterations - 1) * FollowUp
<1>1. a >= NumClusters /\ a \in Nat
  BY MaxIterations, SizeAssumption
<1>2. i >= a \/ i = NumClusters
  BY DEF Reached
<1> HIDE DEF a
<1> QED BY <1>1, <1>2, SizeAssumption

LEMMA IterationsInit == Init => IterationsInv
  BY EmptySeq DEF Init, IterationsInv

\* The sink phase or an iteration has ended.
LEMMA IterationEnds ==
  ASSUME SinkInv, IterationsInv, Finalize \/ FinishEvent
  PROVE  /\ iterations' = iterations + 1 /\ iterations < MaxNumProbeIterations
         /\ phase \in {"sink", "iterate"} /\ TryFinalizeSinkPhase
         /\ UNCHANGED <<query, child, local, searchedAll, searchers, heap, idx, output>>
         /\ phase = "iterate" =>
              \A i \in DOMAIN searchedAll : Reached(iterations, offset[searchedAll[i]])
<1>1. /\ iterations' = iterations + 1 /\ phase \in {"sink", "iterate"} /\ TryFinalizeSinkPhase
      /\ UNCHANGED <<query, child, local, searchedAll, searchers, heap, idx, output>>
  BY DEF Finalize, FinishEvent
<1>2. iterations < MaxNumProbeIterations
  BY <1>1, MaxIterations DEF IterationsInv
<1>3. ASSUME phase = "iterate", NEW i \in DOMAIN searchedAll
      PROVE  Reached(iterations, offset[searchedAll[i]])
  <2>1. \A j \in DOMAIN tasks : tasks[j].state = "finished"
    BY <1>3 DEF Finalize, FinishEvent
  <2>2. tasks \in [DOMAIN searchedAll -> Tasks]
    BY <1>3 DEF IterationsInv
  <2> QED BY <1>3, <2>1, <2>2 DEF IterationsInv
<1> QED BY <1>1, <1>2, <1>3

LEMMA EndStep == SinkInv /\ IterationsInv /\ (Finalize \/ FinishEvent) => IterationsInv'
<1> SUFFICES ASSUME SinkInv, IterationsInv, Finalize \/ FinishEvent PROVE IterationsInv'
  OBVIOUS
<1>1. /\ iterations' = iterations + 1 /\ iterations < MaxNumProbeIterations
      /\ phase \in {"sink", "iterate"} /\ TryFinalizeSinkPhase
      /\ UNCHANGED <<searchedAll, offset>>
      /\ phase = "iterate" =>
           \A i \in DOMAIN searchedAll : Reached(iterations, offset[searchedAll[i]])
  BY IterationEnds DEF searchers
<1>2. iterations \in Nat /\ (phase = "sink" => iterations = 0) /\ tasks \in Seq(Tasks)
  BY DEF IterationsInv
<1>3. MaxNumProbeIterations \in Nat /\ iterations' \in Nat /\ iterations' > 0
      /\ iterations' <= MaxNumProbeIterations
  BY <1>1, <1>2, MaxIterations
<1>4. CASE phase' = "source"
  <2>1. tasks' = tasks
    BY <1>1, <1>4 DEF TryFinalizeSinkPhase
  <2> QED BY <1>2, <1>3, <1>4, <2>1 DEF IterationsInv
<1>5. CASE phase' # "source"
  <2>1. phase' = "iterate" /\ Schedule /\ iterations' # MaxNumProbeIterations
    BY <1>1, <1>5 DEF TryFinalizeSinkPhase
  <2>2. searchedAll \in Seq(RowGroups)
    BY DEF SinkInv, Types
  <2>3. DOMAIN searchedAll = 1 .. Len(searchedAll) /\ Len(searchedAll) \in Nat
        /\ \A i \in DOMAIN searchedAll : searchedAll[i] \in RowGroups
    BY <2>2, LenProperties, ElementOfSeq
  <2>4. /\ tasks' \in [DOMAIN searchedAll -> Tasks]
        /\ \A i \in DOMAIN searchedAll : tasks'[i].rowGroup = searchedAll[i] /\ tasks'[i].state = "ready"
    BY <2>1, <2>3 DEF Schedule, Tasks
  <2>5. tasks' \in Seq(Tasks)
    BY <2>3, <2>4
  <2>6. ASSUME NEW i \in DOMAIN searchedAll PROVE Reached(iterations' - 1, offset[searchedAll[i]])
    <3>1. iterations' - 1 = iterations /\ offset[searchedAll[i]] \in Nat
      BY <1>1, <1>2, <2>3, SizeAssumption DEF SinkInv, Types
    <3>2. CASE phase = "sink"
      <4>1. iterations' - 1 = 0 /\ 0 * FollowUp = 0
        BY <1>2, <3>1, <3>2, SizeAssumption
      <4> QED BY <3>1, <4>1 DEF Reached
    <3>3. CASE phase = "iterate"
      BY <1>1, <3>1, <3>3
    <3> QED BY <1>1, <3>2, <3>3
  <2>7. iterations' < MaxNumProbeIterations
    BY <1>3, <2>1
  <2> HIDE DEF Reached
  <2> QED BY <1>1, <1>3, <2>1, <2>4, <2>5, <2>6, <2>7 DEF IterationsInv
<1> QED BY <1>4, <1>5

LEMMA ReachedFurther ==
  ASSUME NEW n \in Nat, NEW i \in 0 .. NumClusters, NEW j \in 0 .. NumClusters, i <= j, Reached(n, i)
  PROVE  Reached(n, j)
<1> DEFINE a == n * FollowUp
<1>1. a \in Nat
  BY SizeAssumption
<1>2. i >= a \/ i = NumClusters
  BY DEF Reached
<1> HIDE DEF a
<1>3. j >= a \/ j = NumClusters
  BY <1>1, <1>2, SizeAssumption
<1> QED BY <1>3 DEF Reached, a

LEMMA ExecuteStep ==
  ASSUME SinkInv, IterationsInv, NEW i \in DOMAIN tasks, ExecuteTask(i)
  PROVE  IterationsInv'
<1> DEFINE g == searchedAll[i]
<1>1. /\ phase = "iterate" /\ tasks[i].state = "ready" /\ ResumeSearch(tasks[i].rowGroup)
      /\ tasks' = [tasks EXCEPT ![i].state = "running"]
      /\ UNCHANGED <<searchedAll, iterations, phase>>
  BY DEF ExecuteTask
<1>2. i \in DOMAIN searchedAll /\ tasks[i].rowGroup = g /\ g \in RowGroups /\ tasks[i] \in Tasks
  BY <1>1, TaskOfList
<1>3. /\ endIdx' = [endIdx EXCEPT ![g] = Least(offset[g] + FollowUp, NumClusters)]
      /\ offset' = offset
  BY <1>1, <1>2, ResumeTypes
<1>4. /\ iterations \in Nat /\ iterations > 0 /\ tasks \in [DOMAIN searchedAll -> Tasks]
      /\ tasks \in Seq(Tasks)
  BY <1>1 DEF IterationsInv
<1>5. tasks'[i] = [tasks[i] EXCEPT !.state = "running"] /\ \A j \in DOMAIN searchedAll \ {i} : tasks'[j] = tasks[j]
  BY <1>1, <1>2, <1>4
<1>6. tasks'[i].state = "running" /\ tasks'[i].rowGroup = g /\ tasks'[i] \in Tasks
  BY <1>2, <1>5 DEF Tasks
<1>7. tasks' \in [DOMAIN searchedAll -> Tasks]
  BY <1>1, <1>4, <1>5, <1>6
<1>8. tasks' \in Seq(Tasks)
  <2>1. DOMAIN searchedAll = 1 .. Len(searchedAll) /\ Len(searchedAll) \in Nat
    BY LenProperties DEF SinkInv, Types
  <2> QED BY <1>7, <2>1
<1>9. Reached(iterations, endIdx'[g])
  <2>1. Reached(iterations - 1, offset[g])
    BY <1>1, <1>2 DEF IterationsInv
  <2>2. iterations - 1 \in Nat /\ (iterations - 1) + 1 = iterations /\ offset[g] \in 0 .. NumClusters
    BY <1>2, <1>4 DEF SinkInv, Types
  <2>3. Reached((iterations - 1) + 1, Least(offset[g] + FollowUp, NumClusters))
    BY <2>1, <2>2, ReachedLater
  <2>4. endIdx'[g] = Least(offset[g] + FollowUp, NumClusters)
    BY <1>2, <1>3 DEF SinkInv, Types
  <2> QED BY <2>2, <2>3, <2>4
<1>10. ASSUME NEW j \in DOMAIN searchedAll
       PROVE  /\ tasks'[j].rowGroup = searchedAll[j]
              /\ tasks'[j].state = "ready" => Reached(iterations - 1, offset[searchedAll[j]])
              /\ tasks'[j].state = "running" => Reached(iterations, endIdx'[searchedAll[j]])
              /\ tasks'[j].state = "finished" => Reached(iterations, offset[searchedAll[j]])
  <2>1. CASE j = i
    BY <1>6, <1>9, <2>1
  <2>2. CASE j # i
    <3>1. searchedAll[j] # g
      BY <1>2, <2>2 DEF SinkInv, ListInv
    <3>2. endIdx'[searchedAll[j]] = endIdx[searchedAll[j]]
      BY <1>3, <3>1 DEF SinkInv, Types
    <3> QED BY <1>1, <1>5, <2>2, <3>2 DEF IterationsInv
  <2> QED BY <2>1, <2>2
<1> HIDE DEF g, Reached
<1> QED BY <1>1, <1>3, <1>4, <1>7, <1>8, <1>10 DEF IterationsInv

LEMMA FinishStep ==
  ASSUME SinkInv, IterationsInv, NEW i \in DOMAIN tasks, FinishTask(i)
  PROVE  IterationsInv'
<1> DEFINE g == searchedAll[i]
<1>1. /\ phase = "iterate" /\ tasks[i].state = "running" /\ HasReturned(tasks[i].rowGroup)
      /\ tasks' = [tasks EXCEPT ![i].state = "finished"]
      /\ UNCHANGED <<searchedAll, iterations, phase, offset, endIdx>>
  BY DEF FinishTask, searchers
<1>2. i \in DOMAIN searchedAll /\ tasks[i].rowGroup = g /\ g \in RowGroups /\ tasks[i] \in Tasks
  BY <1>1, TaskOfList
<1>3. /\ iterations \in Nat /\ iterations > 0 /\ tasks \in [DOMAIN searchedAll -> Tasks]
  BY <1>1 DEF IterationsInv
<1>4. tasks'[i] = [tasks[i] EXCEPT !.state = "finished"] /\ \A j \in DOMAIN searchedAll \ {i} : tasks'[j] = tasks[j]
  BY <1>1, <1>2, <1>3
<1>5. tasks'[i].state = "finished" /\ tasks'[i].rowGroup = g /\ tasks'[i] \in Tasks
  BY <1>2, <1>4 DEF Tasks
<1>6. tasks' \in [DOMAIN searchedAll -> Tasks]
  BY <1>1, <1>3, <1>4, <1>5
<1>7. tasks' \in Seq(Tasks)
  <2>1. DOMAIN searchedAll = 1 .. Len(searchedAll) /\ Len(searchedAll) \in Nat
    BY LenProperties DEF SinkInv, Types
  <2> QED BY <1>6, <2>1
<1>8. Reached(iterations, offset[g])
  <2>1. Reached(iterations, endIdx[g])
    BY <1>1, <1>2 DEF IterationsInv
  <2>2. offset[g] \in 0 .. NumClusters /\ endIdx[g] \in 0 .. NumClusters /\ endIdx[g] <= offset[g]
    BY <1>1, <1>2, SizeAssumption DEF HasReturned, SinkInv, Types
  <2> QED BY <1>3, <2>1, <2>2, ReachedFurther
<1>9. ASSUME NEW j \in DOMAIN searchedAll
      PROVE  /\ tasks'[j].rowGroup = searchedAll[j]
             /\ tasks'[j].state = "ready" => Reached(iterations - 1, offset[searchedAll[j]])
             /\ tasks'[j].state = "running" => Reached(iterations, endIdx[searchedAll[j]])
             /\ tasks'[j].state = "finished" => Reached(iterations, offset[searchedAll[j]])
  <2>1. CASE j = i
    BY <1>5, <1>8, <2>1
  <2>2. CASE j # i
    BY <1>1, <1>4, <2>2 DEF IterationsInv
  <2> QED BY <2>1, <2>2
<1>10. iterations < MaxNumProbeIterations
  BY <1>1 DEF IterationsInv
<1> HIDE DEF g, Reached, MaxNumProbeIterations
<1> QED BY <1>1, <1>3, <1>6, <1>7, <1>9, <1>10 DEF IterationsInv

LEMMA ProbeStep ==
  ASSUME SinkInv, IterationsInv, NEW g \in RowGroups, ProbeCluster(g)
  PROVE  IterationsInv'
<1>1. UNCHANGED <<searchedAll, endIdx, iterations, phase, tasks>>
  BY DEF ProbeCluster
<1>2. ASSUME NEW n \in Nat, NEW h \in RowGroups, Reached(n, offset[h]) PROVE Reached(n, offset'[h])
  <2>1. offset[h] \in 0 .. NumClusters /\ offset'[h] \in 0 .. NumClusters /\ offset[h] <= offset'[h]
    BY OfferedGrows, SizeAssumption DEF Kept, SinkInv, Types
  <2> QED BY <1>2, <2>1, ReachedFurther
<1>3. \A i \in DOMAIN searchedAll : searchedAll[i] \in RowGroups
  BY ListElements DEF RangeOf, SinkInv, Types
<1>4. iterations \in Nat /\ (phase = "iterate" => iterations - 1 \in Nat)
  BY DEF IterationsInv
<1> HIDE DEF Reached, MaxNumProbeIterations
<1> QED BY <1>1, <1>2, <1>3, <1>4 DEF IterationsInv

\* While threads are at work the operator is in its sink phase.
LEMMA ThreadsInSink == ASSUME SinkInv, NEW t \in Threads, ThreadStep(t) PROVE phase = "sink"
<1>1. pc[t] # "combined"
  BY DEF ThreadStep, TakeRowGroup, SinkCollect, SinkSearch, Emits, SinkSearched, CombineSearch,
         CombineSearched, CombineNothing
<1> QED BY <1>1 DEF SinkInv, ListInv

LEMMA IterationsStep == SinkInv /\ IterationsInv /\ [Next]_vars => IterationsInv'
<1> SUFFICES ASSUME SinkInv, IterationsInv, [Next]_vars PROVE IterationsInv'
  OBVIOUS
<1> USE DEF IterationsInv
<1>1. ASSUME NEW t \in Threads, ThreadStep(t) PROVE IterationsInv'
  <2>1. UNCHANGED <<iterations, phase, tasks>>
    BY <1>1 DEF ThreadStep, TakeRowGroup, SinkCollect, SinkSearch, SinkSearched, CombineSearch,
                CombineSearched, CombineNothing
  <2> QED BY <1>1, <2>1, ThreadsInSink
<1>2. CASE GetData
  BY <1>2 DEF GetData
<1>3. CASE UNCHANGED vars
  BY <1>3 DEF vars, searchers
<1> HIDE DEF IterationsInv
<1> QED BY <1>1, <1>2, <1>3, EndStep, ExecuteStep, FinishStep, ProbeStep DEF Next, TaskStep

\* A searcher at work is one that a thread or a task waits for.
LEMMA BusyInit == Init => BusyInv
  BY DEF Init, BusyInv

LEMMA BusyStep == SinkInv /\ IterationsInv /\ BusyInv /\ [Next]_vars => BusyInv'
<1> SUFFICES ASSUME SinkInv, IterationsInv, BusyInv, [Next]_vars PROVE BusyInv'
  OBVIOUS
<1>0. \A g \in RowGroups : offset[g] \in Nat /\ endIdx[g] \in Nat
  BY SizeAssumption DEF SinkInv, Types
<1>1. ASSUME NEW t \in Threads, pc[t] = "scan",
             \A u \in Threads \ {t} : pc'[u] = pc[u] /\ currentId'[u] = currentId[u],
             UNCHANGED <<offset, endIdx, phase, tasks>>
      PROVE  BusyInv'
  BY <1>1 DEF BusyInv, Busy
<1>2. ASSUME NEW t \in Threads, pc[t] = "scan", pc'[t] \in {"sink", "combine"},
             \A u \in Threads \ {t} : pc'[u] = pc[u],
             InitializeAndSearch(currentId[t], passing[t]), UNCHANGED <<currentId, phase, tasks>>
      PROVE  BusyInv'
  <2>1. \A g \in RowGroups \ {currentId[t]} : offset'[g] = offset[g] /\ endIdx'[g] = endIdx[g]
    BY <1>2 DEF InitializeAndSearch, SinkInv, Types
  <2>2. \A g \in RowGroups : g = currentId[t] => Busy(g)'
    BY <1>2 DEF Busy
  <2>3. \A g \in RowGroups : Busy(g) => Busy(g)'
    BY <1>2 DEF Busy
  <2> QED BY <2>1, <2>2, <2>3 DEF BusyInv
<1>3. ASSUME NEW t \in Threads, HasReturned(currentId[t]),
             \A u \in Threads \ {t} : pc'[u] = pc[u] /\ currentId'[u] = currentId[u],
             UNCHANGED <<searchers, phase, tasks>>
      PROVE  BusyInv'
  <2>1. \A g \in RowGroups : Busy(g) /\ g # currentId[t] => Busy(g)'
    BY <1>3 DEF Busy
  <2>2. currentId[t] \in RowGroups /\ ~(offset[currentId[t]] < endIdx[currentId[t]])
    BY <1>0, <1>3 DEF HasReturned, SinkInv, Types
  <2> QED BY <1>3, <2>1, <2>2 DEF BusyInv, searchers
<1>4. ASSUME NEW t \in Threads, ThreadStep(t) PROVE BusyInv'
  <2>1. ASSUME TakeRowGroup(t) \/ CombineNothing(t) \/ \E c, g : SinkCollect(t, c, g) PROVE BusyInv'
    <3>1. /\ pc[t] = "scan" /\ UNCHANGED <<offset, endIdx, phase, tasks>>
          /\ \A u \in Threads \ {t} : pc'[u] = pc[u] /\ currentId'[u] = currentId[u]
      BY <2>1 DEF TakeRowGroup, CombineNothing, SinkCollect, Emits, local, searchers, SinkInv, Types
    <3> QED BY <1>1, <3>1
  <2>2. ASSUME CombineSearch(t) \/ \E c, g : SinkSearch(t, c, g) PROVE BusyInv'
    <3>1. /\ pc[t] = "scan" /\ pc'[t] \in {"sink", "combine"}
          /\ \A u \in Threads \ {t} : pc'[u] = pc[u]
          /\ InitializeAndSearch(currentId[t], passing[t]) /\ UNCHANGED <<currentId, phase, tasks>>
      BY <2>2 DEF CombineSearch, SinkSearch, Emits, SinkInv, Types
    <3> QED BY <1>2, <3>1
  <2>3. ASSUME SinkSearched(t) \/ CombineSearched(t) PROVE BusyInv'
    <3>1. /\ HasReturned(currentId[t]) /\ UNCHANGED <<searchers, phase, tasks>>
          /\ \A u \in Threads \ {t} : pc'[u] = pc[u] /\ currentId'[u] = currentId[u]
      BY <2>3 DEF SinkSearched, CombineSearched, SinkInv, Types
    <3> QED BY <1>3, <3>1
  <2> QED BY <1>4, <2>1, <2>2, <2>3 DEF ThreadStep
<1>5. ASSUME NEW g \in RowGroups, ProbeCluster(g) PROVE BusyInv'
  <2>1. UNCHANGED <<pc, currentId, endIdx, phase, tasks>>
    BY <1>5 DEF ProbeCluster, local
  <2>2. \A h \in RowGroups : offset'[h] < endIdx'[h] => offset[h] < endIdx[h]
    <3> TAKE h \in RowGroups
    <3>1. offset'[h] >= offset[h] /\ offset'[h] \in Nat
      BY <1>5, OfferedGrows, SizeAssumption DEF Kept
    <3> QED BY <1>0, <2>1, <3>1
  <2> QED BY <2>1, <2>2 DEF BusyInv, Busy
<1>6. CASE Finalize \/ FinishEvent
  <2>1. \A g \in RowGroups : ~Busy(g)
    BY <1>6 DEF Finalize, FinishEvent, Busy, SinkInv, ListInv
  <2> QED BY <1>6, <2>1 DEF Finalize, FinishEvent, BusyInv, searchers
<1>7. ASSUME NEW i \in DOMAIN tasks, ExecuteTask(i) PROVE BusyInv'
  <2>1. /\ phase = "iterate" /\ tasks[i].state = "ready" /\ ResumeSearch(tasks[i].rowGroup)
        /\ tasks' = [tasks EXCEPT ![i].state = "running"]
        /\ UNCHANGED <<pc, currentId, phase>>
    BY <1>7 DEF ExecuteTask, local
  <2>2. /\ tasks[i].rowGroup \in RowGroups /\ tasks[i] \in Tasks
        /\ \A t \in Threads : pc[t] = "combined"
    BY <2>1, TaskOfList
  <2>3. \A g \in RowGroups \ {tasks[i].rowGroup} : offset'[g] = offset[g] /\ endIdx'[g] = endIdx[g]
    BY <2>1, <2>2, ResumeTypes DEF SinkInv, Types
  <2>4. tasks'[i].state = "running" /\ tasks'[i].rowGroup = tasks[i].rowGroup /\ DOMAIN tasks' = DOMAIN tasks
    BY <2>1, <2>2 DEF Tasks
  <2>5. \A j \in DOMAIN tasks : j # i => tasks'[j] = tasks[j]
    BY <2>1
  <2>6. \A g \in RowGroups : g = tasks[i].rowGroup => Busy(g)'
    BY <2>1, <2>4 DEF Busy
  <2>7. \A g \in RowGroups : Busy(g) => Busy(g)'
    BY <2>1, <2>2, <2>4, <2>5 DEF Busy
  <2> QED BY <2>3, <2>6, <2>7 DEF BusyInv
<1>8. ASSUME NEW i \in DOMAIN tasks, FinishTask(i) PROVE BusyInv'
  <2>1. /\ phase = "iterate" /\ HasReturned(tasks[i].rowGroup)
        /\ tasks' = [tasks EXCEPT ![i].state = "finished"]
        /\ UNCHANGED <<pc, currentId, phase, offset, endIdx>>
    BY <1>8 DEF FinishTask, local, searchers
  <2>2. tasks[i].rowGroup \in RowGroups
    BY <2>1, TaskOfList
  <2>3. DOMAIN tasks' = DOMAIN tasks /\ \A j \in DOMAIN tasks : j # i => tasks'[j] = tasks[j]
    BY <2>1
  <2>4. \A g \in RowGroups : Busy(g) /\ g # tasks[i].rowGroup => Busy(g)'
    BY <2>1, <2>3 DEF Busy
  <2>5. ~(offset[tasks[i].rowGroup] < endIdx[tasks[i].rowGroup])
    BY <1>0, <2>1, <2>2 DEF HasReturned
  <2> QED BY <2>1, <2>4, <2>5 DEF BusyInv
<1>9. CASE GetData
  <2>1. \A g \in RowGroups : ~Busy(g)
    BY <1>9 DEF GetData, Busy, SinkInv, ListInv
  <2> QED BY <1>9, <2>1 DEF GetData, BusyInv, searchers
<1>10. CASE UNCHANGED vars
  BY <1>10 DEF vars, local, searchers, BusyInv, Busy
<1> QED BY <1>4, <1>5, <1>6, <1>7, <1>8, <1>9, <1>10 DEF Next, TaskStep

LEMMA NoProbeLater ==
  ASSUME SinkInv, BusyInv, NEW g \in RowGroups, ProbeCluster(g)
  PROVE  phase \in {"sink", "iterate"}
<1>1. offset[g] < endIdx[g]
  <2>1. ~HasReturned(g) /\ offset[g] \in Nat /\ endIdx[g] \in Nat
    BY SizeAssumption DEF ProbeCluster, SinkInv, Types
  <2> QED BY <2>1 DEF HasReturned
<1> QED BY <1>1 DEF BusyInv, Busy, SinkInv, ListInv

-----------------------------------------------------------------------------
(* The result and how far it has been emitted.                              *)

LEMMA SubsetsOfRows ==
  ASSUME NEW S \in SUBSET Rows
  PROVE  IsFiniteSet(S) /\ Cardinality(S) \in Nat
  BY RowAssumption, FS_Subset, FS_CardinalityType

\* What is popped from the heap.
LEMMA PoppedHeap ==
  ASSUME HeapInv, NEW s \in ResultSets
  PROVE  /\ s \in Seq(Rows) /\ Len(s) = Cardinality(best) /\ RangeOf(s) = best
         /\ \A i, j \in DOMAIN s : i < j => s[i] # s[j] /\ Dist[s[i]] <= Dist[s[j]]
<1>1. best \in SUBSET Rows
  BY DEF HeapInv
<1>2. IsFiniteSet(best)
  BY <1>1, SubsetsOfRows
<1>3. /\ s \in [1..Cardinality(best) -> best]
      /\ \A i, j \in DOMAIN s : i < j => s[i] # s[j] /\ Dist[s[i]] <= Dist[s[j]]
  BY SameCardinality, Zenon DEF ResultSets, B!Ascending
<1>4. \A i, j \in DOMAIN s : i < j => s[i] # s[j]
  BY <1>3
<1>5. s \in Seq(best) /\ Len(s) = Cardinality(best) /\ RangeOf(s) = best
  BY <1>2, <1>3, <1>4, SequenceOfSet, Zenon DEF RangeOf
<1> QED BY <1>1, <1>3, <1>5

LEMMA ResultInit == Init => ResultInv
  BY EmptySeq, SubSeqEmpty DEF Init, ResultInv

LEMMA EmitProgress ==
  ASSUME ResultInv, GetData
  PROVE  LET n == Least(VectorSize, Len(result) - idx)
         IN  /\ n \in 0 .. VectorSize /\ idx + n \in 0 .. Len(result)
             /\ n = 0 => idx = Len(result)
             /\ output \o SubSeq(result, idx + 1, idx + n) = SubSeq(result, 1, idx + n)
<1> DEFINE n == Least(VectorSize, Len(result) - idx)
<1>1. result \in Seq(Rows) /\ idx \in 0 .. Len(result) /\ output = SubSeq(result, 1, idx)
  BY DEF ResultInv
<1>2. /\ n \in 0 .. VectorSize /\ idx + n \in 0 .. Len(result) /\ n \in 0 .. Len(result) - idx
      /\ n = 0 => idx = Len(result)
  BY <1>1, SizeAssumption, LenProperties DEF Least
<1> HIDE DEF n
<1>3. SubSeq(result, 1, idx) \o SubSeq(result, idx + 1, idx + n) = SubSeq(result, 1, idx + n)
  BY <1>1, <1>2, NextRows
<1> QED BY <1>1, <1>2, <1>3 DEF n

LEMMA ResultStep ==
  SinkInv /\ IterationsInv /\ HeapInv /\ BusyInv /\ ResultInv /\ [Next]_vars => ResultInv'
<1> SUFFICES ASSUME SinkInv, IterationsInv, HeapInv, BusyInv, ResultInv, [Next]_vars PROVE ResultInv'
  OBVIOUS
<1>1. CASE Finalize \/ FinishEvent
  <2>1. phase \in {"sink", "iterate"} /\ TryFinalizeSinkPhase /\ UNCHANGED <<best, idx, output>>
    BY <1>1, IterationEnds DEF heap
  <2>2. result = <<>> /\ idx = 0 /\ output = <<>>
    BY <2>1, SubSeqEmpty DEF ResultInv
  <2>3. CASE phase' = "source"
    <3>1. result' \in ResultSets
      BY <2>1, <2>3 DEF TryFinalizeSinkPhase
    <3>2. result' \in Seq(Rows) /\ Len(result') \in Nat /\ RangeOf(result') = best
      BY <3>1, PoppedHeap, LenProperties
    <3>3. SubSeq(result', 1, 0) = <<>>
      BY SubSeqEmpty
    <3> QED BY <2>1, <2>2, <2>3, <3>2, <3>3 DEF ResultInv, RangeOf
  <2>4. CASE phase' # "source"
    <3>1. phase' = "iterate" /\ result' = result
      BY <2>1, <2>4 DEF TryFinalizeSinkPhase
    <3> QED BY <2>1, <2>2, <3>1 DEF ResultInv
  <2> QED BY <2>3, <2>4
<1>2. CASE GetData
  <2> DEFINE n == Least(VectorSize, Len(result) - idx)
  <2>1. /\ n \in 0 .. VectorSize /\ idx + n \in 0 .. Len(result) /\ (n = 0 => idx = Len(result))
        /\ output \o SubSeq(result, idx + 1, idx + n) = SubSeq(result, 1, idx + n)
    BY <1>2, EmitProgress, Zenon
  <2>2. phase = "source" /\ UNCHANGED <<result, best>>
    BY <1>2 DEF GetData, heap
  <2>3. CASE n = 0
    <3>1. phase' = "finished" /\ UNCHANGED <<idx, output>>
      BY <1>2, <2>3 DEF GetData
    <3> QED BY <2>1, <2>2, <2>3, <3>1 DEF ResultInv, RangeOf
  <2>4. CASE n # 0
    <3>1. phase' = phase /\ idx' = idx + n /\ output' = SubSeq(result, 1, idx + n)
      BY <1>2, <2>1, <2>4 DEF GetData
    <3> QED BY <2>1, <2>2, <3>1 DEF ResultInv, RangeOf
  <2> QED BY <2>3, <2>4
<1>3. ASSUME UNCHANGED <<source, phase>>, best' = best \/ phase \in {"sink", "iterate"}
      PROVE  ResultInv'
  BY <1>3 DEF ResultInv, source, RangeOf
<1>4. ASSUME NEW t \in Threads, ThreadStep(t) PROVE ResultInv'
  BY <1>3, <1>4, ThreadsInSink
     DEF ThreadStep, TakeRowGroup, SinkCollect, SinkSearch, SinkSearched, CombineSearch,
         CombineSearched, CombineNothing
<1>5. ASSUME NEW g \in RowGroups, ProbeCluster(g) PROVE ResultInv'
  BY <1>3, <1>5, NoProbeLater DEF ProbeCluster
<1>6. ASSUME NEW i \in DOMAIN tasks, TaskStep(i) PROVE ResultInv'
  BY <1>3, <1>6 DEF TaskStep, ExecuteTask, FinishTask, heap
<1>7. CASE UNCHANGED vars
  BY <1>3, <1>7 DEF vars, heap
<1> QED BY <1>1, <1>2, <1>4, <1>5, <1>6, <1>7 DEF Next

-----------------------------------------------------------------------------
(* Theorems.                                                                *)

LEMMA Invariance == Spec => []IInv
<1>1. Init => IInv
  BY SinkInit, HeapInit, IterationsInit, BusyInit, ResultInit DEF IInv
<1>2. IInv /\ [Next]_vars => IInv'
  BY SinkStep, HeapStep, IterationsStep, BusyStep, ResultStep DEF IInv
<1> QED BY <1>1, <1>2, PTL DEF Spec

LEMMA IterationsInTime ==
  ASSUME SinkInv, IterationsInv
  PROVE  iterations \in 0 .. MaxNumProbeIterations
<1>1. iterations \in Nat
  BY DEF IterationsInv
<1>2. CASE phase \in {"sink", "iterate"}
  BY <1>1, <1>2, MaxIterations DEF IterationsInv
<1>3. CASE phase \in {"source", "finished"}
  BY <1>1, <1>3, MaxIterations DEF IterationsInv
<1>4. phase \in {"sink", "iterate", "source", "finished"}
  BY DEF SinkInv, Types
<1> QED BY <1>2, <1>3, <1>4

\* The operator's variables keep their ranges: no searcher goes past its last cluster, and every
\* task searches a row group that exists (PDXearchFilteredScanGlobalSinkState).
THEOREM TypeCorrect == Spec => []TypeOK
<1>1. IInv => TypeOK
  <2> SUFFICES ASSUME IInv PROVE TypeOK
    OBVIOUS
  <2>1. Types /\ offered \in SUBSET Rows /\ best \in SUBSET Rows
    BY DEF IInv, SinkInv, HeapInv, Types
  <2>2. iterations \in 0 .. MaxNumProbeIterations
    BY IterationsInTime DEF IInv
  <2>3. tasks \in Seq([rowGroup : RowGroups, state : {"ready", "running", "finished"}])
    BY DEF IInv, IterationsInv, Tasks
  <2>4. result \in Seq(Rows) /\ idx \in 0 .. Len(result) /\ output = SubSeq(result, 1, idx)
    BY DEF IInv, ResultInv
  <2>5. idx \in Nat /\ output \in Seq(Rows)
    BY <2>4, EmittedRows, LenProperties
  <2> QED BY <2>1, <2>2, <2>3, <2>4, <2>5 DEF Types, TypeOK
<1> QED BY <1>1, Invariance, PTL

\* The assertions of Sink, of MergeIntoHeap and of TryFinalizeSinkPhase hold: row groups come in
\* order and one at a time, the heap never outgrows the limit, and iterations end in time.
THEOREM AssertionsHoldAlways == Spec => []AssertionsHold
<1>1. IInv => AssertionsHold
  <2> SUFFICES ASSUME IInv PROVE AssertionsHold
    OBVIOUS
  <2>1. \A t \in Threads :
          /\ \A r \in scanning[t] : currentId[t] <= RowGroupOf[r]
          /\ passing[t] \subseteq RowsOf(currentId[t])
    BY DEF IInv, SinkInv, RowsInv
  <2>2. Cardinality(best) \in Nat /\ Cardinality(best) <= K
    BY SubsetsOfRows DEF IInv, HeapInv
  <2>3. HeapSize <= K
    BY <2>2, SizeAssumption DEF HeapSize, InitializationElementAtTop
  <2>4. iterations <= MaxNumProbeIterations
    BY IterationsInTime, MaxIterations DEF IInv
  <2> QED BY <2>1, <2>3, <2>4 DEF AssertionsHold
<1> QED BY <1>1, Invariance, PTL

\* When all threads have combined, the list has each row group with passing rows, and no other.
LEMMA ListIsComplete ==
  ASSUME SinkInv, \A t \in Threads : pc[t] = "combined"
  PROVE  /\ RangeOf(searchedAll) = {RowGroupOf[r] : r \in selected}
         /\ \A g \in RangeOf(searchedAll) :
               Initialized(g) /\ offset[g] >= PartitionsOnFirstIteration
<1>1. nextRowGroup = NumRowGroups
  BY ThreadAssumption DEF SinkInv, ThreadInv
<1>2. ASSUME NEW r \in selected PROVE RowGroupOf[r] \in RangeOf(searchedAll)
  <2>1. RowGroupOf[r] < nextRowGroup
    <3>1. RowGroupOf[r] \in RowGroups
      BY RowTypes DEF SinkInv, Types
    <3> QED BY <1>1, <3>1, SizeAssumption DEF RowGroups
  <2>2. PICK t \in Threads : RowGroupOf[r] \in Held(t)
    BY <2>1 DEF SinkInv, SharesInv
  <2>3. Mine(t) = passing[t]
    BY DEF SinkInv, ThreadInv, Mine
  <2>4. RowGroupOf[r] \in RangeOf(searched[t])
    BY <2>2, <2>3 DEF Held, SinkInv, ThreadInv
  <2> QED BY <2>4 DEF SinkInv, ListInv
<1>3. ASSUME NEW g \in RangeOf(searchedAll)
      PROVE  /\ Initialized(g) /\ offset[g] >= PartitionsOnFirstIteration
             /\ g \in {RowGroupOf[r] : r \in selected}
  <2>1. PICK t \in Threads : g \in RangeOf(searched[t])
    BY <1>3 DEF SinkInv, ListInv
  <2>2. Initialized(g) /\ Passing(g) # {} /\ offset[g] >= PartitionsOnFirstIteration
    BY <2>1 DEF SinkInv, SearchedInv
  <2> QED BY <2>2 DEF Passing, RowsOf
<1> QED BY <1>2, <1>3

LEMMA LengthOfDistinct ==
  ASSUME NEW S, NEW s \in Seq(S), \A i, j \in DOMAIN s : i # j => s[i] # s[j]
  PROVE  Len(s) = Cardinality(RangeOf(s))
<1> DEFINE T == RangeOf(s)
<1>1. DOMAIN s = 1 .. Len(s) /\ Len(s) \in Nat
  BY LenProperties
<1>2. s \in [1 .. Len(s) -> T] /\ \A x \in T : \E i \in 1 .. Len(s) : s[i] = x
  BY <1>1 DEF RangeOf
<1> HIDE DEF T
<1>3. s \in Bijection(1 .. Len(s), T)
  BY <1>1, <1>2 DEF Bijection, Injection, Surjection, IsInjective
<1>4. ExistsBijection(1 .. Len(s), T)
  BY <1>3 DEF ExistsBijection
<1> QED BY <1>1, <1>4, FS_CountingElements DEF T

\* However the chunks and the threads fall, when the sink is through, each row group with passing
\* rows has been initialized with all of them and is listed once for the follow-up iterations
\* (Sink and Combine).
THEOREM EveryRowGroupListedOnceAlways == Spec => []EveryRowGroupListedOnce
<1>1. IInv => EveryRowGroupListedOnce
  <2> SUFFICES ASSUME IInv, phase # "sink"
               PROVE  /\ RangeOf(searchedAll) = {RowGroupOf[r] : r \in selected}
                      /\ Len(searchedAll) = Cardinality(RangeOf(searchedAll))
                      /\ \A g \in RangeOf(searchedAll) : evaluator[g] = RowsOf(g) \cap selected
    BY DEF EveryRowGroupListedOnce
  <2>1. \A t \in Threads : pc[t] = "combined"
    BY DEF IInv, SinkInv, ListInv
  <2>2. Len(searchedAll) = Cardinality(RangeOf(searchedAll))
    BY LengthOfDistinct DEF IInv, SinkInv, ListInv, Types
  <2> QED BY <2>1, <2>2, ListIsComplete DEF IInv, Initialized, Passing
<1> QED BY <1>1, Invariance, PTL

\* No row that fails the predicate gets into the heap, although the searchers of row groups
\* without passing rows keep the predicate evaluator of an earlier query.
THEOREM OnlySelectedAlways == Spec => []OnlySelected
<1>1. IInv => OnlySelected
  BY DEF IInv, HeapInv, OnlySelected
<1> QED BY <1>1, Invariance, PTL

\* Where every listed row group has been searched to its last cluster, all passing rows have been
\* offered to the heap.
LEMMA AllOffered ==
  ASSUME SinkInv, HeapInv, \A t \in Threads : pc[t] = "combined",
         \A g \in RangeOf(searchedAll) : offset[g] = NumClusters
  PROVE  offered = selected
<1>1. ASSUME NEW r \in selected PROVE r \in offered
  <2>1. r \in Rows /\ ClusterOf[r] <= NumClusters
    BY RowTypes DEF SinkInv, Types
  <2>2. RowGroupOf[r] \in RangeOf(searchedAll)
    BY ListIsComplete
  <2>3. Initialized(RowGroupOf[r]) /\ offset[RowGroupOf[r]] = NumClusters
    BY <2>2, ListIsComplete
  <2>4. r \in Passing(RowGroupOf[r])
    BY <2>1 DEF Passing, RowsOf
  <2> QED BY <2>1, <2>3, <2>4 DEF Initialized
<1>2. offered \subseteq selected
  BY DEF HeapInv
<1> QED BY <1>1, <1>2

\* With n_probe 0, or as high as the number of clusters, and a pruner that is exact the answer
\* holds the nearest passing rows, up to the truncation of quantized thresholds, whatever the
\* chunks and the interleaving (partitions_to_probe_per_row_group_on_first_iteration).
THEOREM ExactWhenAllClustersProbedAlways == Spec => []ExactWhenAllClustersProbed
<1>1. IInv => ExactWhenAllClustersProbed
  <2> SUFFICES ASSUME IInv, phase \in {"source", "finished"}, exact, nProbe = 0 \/ nProbe >= NumClusters
               PROVE  B!IsNearlyKBest(RangeOf(result), selected)
    BY DEF ExactWhenAllClustersProbed
  <2>1. \A t \in Threads : pc[t] = "combined"
    BY DEF IInv, SinkInv, ListInv
  <2>2. PartitionsOnFirstIteration = NumClusters
    BY SizeAssumption DEF PartitionsOnFirstIteration, IInv, SinkInv, Types
  <2>3. \A g \in RangeOf(searchedAll) : offset[g] = NumClusters
    <3> TAKE g \in RangeOf(searchedAll)
    <3>1. offset[g] >= NumClusters
      BY <2>1, <2>2, ListIsComplete DEF IInv
    <3>2. offset[g] \in 0 .. NumClusters
      BY ListElements DEF IInv, SinkInv, Types
    <3> QED BY <3>1, <3>2, SizeAssumption
  <2>4. offered = selected
    BY <2>1, <2>3, AllOffered DEF IInv
  <2>5. RangeOf(result) = best
    BY DEF IInv, ResultInv
  <2> QED BY <2>4, <2>5, SameCardinality DEF IInv, HeapInv, IsNearest, B!IsNearlyKBest
<1> QED BY <1>1, Invariance, PTL

\* Without quantization (F32: no row has a tolerance), with an exact pruner and all clusters probed
\* the answer holds the nearest passing rows, without any leeway.
THEOREM ExactWhenAllClustersProbedF32 ==
  ASSUME \A r \in Rows : Tolerance[r] = 0
  PROVE  Spec => [](phase \in {"source", "finished"} /\ exact /\ (nProbe = 0 \/ nProbe >= NumClusters)
                        => B!IsKBest(RangeOf(result), selected))
<1>1. TypeOK /\ ExactWhenAllClustersProbed =>
        (phase \in {"source", "finished"} /\ exact /\ (nProbe = 0 \/ nProbe >= NumClusters)
            => B!IsKBest(RangeOf(result), selected))
  <2> DEFINE answer == RangeOf(result)
  <2> SUFFICES ASSUME TypeOK, B!IsNearlyKBest(answer, selected) PROVE B!IsKBest(answer, selected)
    BY DEF ExactWhenAllClustersProbed
  <2>1. selected \subseteq Rows
    BY DEF TypeOK
  <2> HIDE DEF answer
  <2>2. \A b \in answer, r \in selected \ answer : Dist[b] <= Dist[r]
    <3> TAKE b \in answer, r \in selected \ answer
    <3>1. Dist[b] <= Dist[r] + Tolerance[r]
      BY DEF B!IsNearlyKBest
    <3>2. Tolerance[r] = 0 /\ Dist[r] \in Nat
      BY <2>1, RowAssumption
    <3> QED BY <3>1, <3>2
  <2> QED BY <2>2 DEF B!IsNearlyKBest, B!IsKBest
<1> QED BY <1>1, TypeCorrect, ExactWhenAllClustersProbedAlways, PTL

-----------------------------------------------------------------------------
(* The promise to the plan above.                                           *)

LEMMA SameCardinalityInPromise == \A S : Promise!Cardinality(S) = Cardinality(S)
  BY Zenon DEF Promise!Cardinality, Cardinality

PhasesWithAnswer == {"source", "finished"}

LEMMA SameMembership == \A x, y, S : (x \in S <=> y \in S) => (x \in S) = (y \in S)
  OBVIOUS

\* The sink phase ends with K rows, or with every passing row considered.
LEMMA EndsFilledOrComplete ==
  ASSUME IInv, Finalize \/ FinishEvent, phase' = "source"
  PROVE  best \subseteq selected /\ Cardinality(best) <= K
         /\ (best = selected \/ Cardinality(best) = K)
<1>1. /\ iterations' = iterations + 1 /\ phase \in {"sink", "iterate"} /\ TryFinalizeSinkPhase
      /\ phase = "iterate" =>
           \A i \in DOMAIN searchedAll : Reached(iterations, offset[searchedAll[i]])
  BY IterationEnds DEF IInv
<1>2. /\ best \subseteq offered /\ (best = offered \/ Cardinality(best) = K)
      /\ Cardinality(best) <= K /\ offered \subseteq selected /\ Cardinality(best) \in Nat
  BY SubsetsOfRows DEF IInv, HeapInv
<1>3. HeapFilledWithKValidResults \/ iterations' = MaxNumProbeIterations
  BY <1>1 DEF TryFinalizeSinkPhase
<1>4. CASE HeapFilledWithKValidResults
  <2>1. Cardinality(best) = K
    BY <1>4 DEF HeapFilledWithKValidResults, HeapSize
  <2> QED BY <1>2, <2>1
<1>5. CASE iterations' = MaxNumProbeIterations
  <2>1. iterations = MaxNumProbeIterations - 1 /\ phase = "iterate"
    BY <1>1, <1>5, MaxIterations DEF IInv, IterationsInv
  <2>2. \A t \in Threads : pc[t] = "combined"
    BY <2>1 DEF IInv, SinkInv, ListInv
  <2>3. \A g \in RangeOf(searchedAll) : offset[g] = NumClusters
    <3> TAKE g \in RangeOf(searchedAll)
    <3>1. PICK i \in DOMAIN searchedAll : g = searchedAll[i]
      BY DEF RangeOf
    <3>2. offset[g] \in 0 .. NumClusters
      BY ListElements DEF IInv, SinkInv, Types
    <3>3. Reached(MaxNumProbeIterations - 1, offset[g])
      BY <1>1, <2>1, <3>1
    <3> QED BY <3>2, <3>3, ReachedAll
  <2>4. offered = selected
    BY <2>2, <2>3, AllOffered DEF IInv
  <2> QED BY <1>2, <2>4
<1> QED BY <1>3, <1>4, <1>5

LEMMA EndIsAnswer ==
  ASSUME IInv, Finalize \/ FinishEvent, phase' = "source"
  PROVE  Promise!Answer
<1>1. /\ phase \in {"sink", "iterate"} /\ TryFinalizeSinkPhase /\ UNCHANGED <<selected, output>>
  BY IterationEnds DEF IInv, query
<1>2. result' \in ResultSets
  BY <1>1 DEF TryFinalizeSinkPhase
<1>3. /\ Len(result') = Cardinality(best) /\ RangeOf(result') = best
      /\ \A i, j \in DOMAIN result' :
            i < j => result'[i] # result'[j] /\ Dist[result'[i]] <= Dist[result'[j]]
  BY <1>2, PoppedHeap DEF IInv
<1>4. best \subseteq selected /\ Cardinality(best) <= K /\ (best = selected \/ Cardinality(best) = K)
  BY EndsFilledOrComplete
<1>5. IsFiniteSet(selected)
  BY SubsetsOfRows DEF IInv, SinkInv, Types
<1>6. Cardinality(best) = Promise!Least(K, Promise!Cardinality(selected))
  BY <1>4, <1>5, LeastOfCardinality, SizeAssumption, SameCardinalityInPromise DEF Promise!Least
<1>7. \A i \in DOMAIN result' : result'[i] \in selected
  BY <1>3, <1>4 DEF RangeOf
<1>8. Promise!IsAnswer(result')
  BY <1>3, <1>6, <1>7 DEF Promise!IsAnswer
<1>9. selected' = selected
  BY <1>1
<1> QED BY <1>1, <1>8, <1>9 DEF Promise!Answer, Promise!IsAnswer

LEMMA EmitIsDeliverOrFinish == ASSUME IInv, GetData PROVE Promise!Deliver \/ Promise!Finish
<1> DEFINE n == Least(VectorSize, Len(result) - idx)
<1>1. /\ n \in 0 .. VectorSize /\ idx + n \in 0 .. Len(result) /\ (n = 0 => idx = Len(result))
      /\ output \o SubSeq(result, idx + 1, idx + n) = SubSeq(result, 1, idx + n)
  BY EmitProgress, Zenon DEF IInv
<1>2. /\ result \in Seq(Rows) /\ idx \in 0 .. Len(result) /\ output = SubSeq(result, 1, idx)
  BY DEF IInv, ResultInv
<1>3. Len(output) = idx /\ (idx = Len(result) => output = result)
  BY <1>2, EmittedRows
<1>4. phase = "source" /\ UNCHANGED <<selected, result>>
  BY DEF GetData, query
<1>5. CASE n = 0
  <2>1. phase' = "finished" /\ UNCHANGED output
    BY <1>5 DEF GetData
  <2>2. (phase' \in PhasesWithAnswer) = (phase \in PhasesWithAnswer) /\ phase \in PhasesWithAnswer
    <3>1. phase' \in PhasesWithAnswer /\ phase \in PhasesWithAnswer
      BY <1>4, <2>1 DEF PhasesWithAnswer
    <3> QED BY <3>1, SameMembership
  <2> QED BY <1>1, <1>3, <1>4, <1>5, <2>1, <2>2 DEF Promise!Finish, PhasesWithAnswer
<1>6. CASE n # 0
  <2>1. phase' = phase /\ output' = SubSeq(result, 1, idx + n)
    BY <1>1, <1>6 DEF GetData
  <2>2. n \in 1 .. VectorSize /\ idx + n <= Len(result)
    BY <1>1, <1>6, SizeAssumption
  <2> HIDE DEF n
  <2> QED BY <1>3, <1>4, <2>1, <2>2 DEF Promise!Deliver
<1> QED BY <1>5, <1>6

LEMMA GoesOn ==
  ASSUME IInv, Finalize \/ FinishEvent, phase' # "source"
  PROVE  /\ phase \in {"sink", "iterate"} /\ phase' = "iterate"
         /\ UNCHANGED <<selected, result, output>>
<1>1. phase \in {"sink", "iterate"} /\ TryFinalizeSinkPhase /\ UNCHANGED <<selected, output>>
  BY IterationEnds DEF IInv, query
<1>2. phase' = "iterate" /\ result' = result
  BY <1>1 DEF TryFinalizeSinkPhase
<1> QED BY <1>1, <1>2

\* Every step of the operator is one of the promise or leaves what it promises alone: one answer,
\* of K rows or of all those that pass, nearest first, each row of it emitted once.  That the
\* query ends is left to the run.
THEOREM KeepsPromise == Spec => Promise!Spec
<1>1. Init => Promise!Init
  BY DEF Init, Promise!Init
<1>2. ASSUME IInv, [Next]_vars PROVE [Promise!Next]_(Promise!vars)
  <2>1. ASSUME UNCHANGED <<selected, result, output>>,
               phase' \in {"source", "finished"} => phase' = phase,
               phase \in {"source", "finished"} => phase' = phase
        PROVE  UNCHANGED Promise!vars
    <3>1. phase' \in PhasesWithAnswer <=> phase \in PhasesWithAnswer
      BY <2>1 DEF PhasesWithAnswer
    <3>2. (phase' \in PhasesWithAnswer) = (phase \in PhasesWithAnswer)
      BY <3>1, SameMembership
    <3>3. (phase' = "finished") = (phase = "finished")
      BY <2>1
    <3> QED BY <2>1, <3>2, <3>3, Zenon DEF Promise!vars, PhasesWithAnswer
  <2>2. ASSUME NEW t \in Threads, ThreadStep(t) PROVE UNCHANGED Promise!vars
    BY <2>1, <2>2
       DEF ThreadStep, TakeRowGroup, SinkCollect, SinkSearch, SinkSearched, CombineSearch,
           CombineSearched, CombineNothing, query, source
  <2>3. ASSUME NEW g \in RowGroups, ProbeCluster(g) PROVE UNCHANGED Promise!vars
    BY <2>1, <2>3 DEF ProbeCluster, query, source
  <2>4. ASSUME NEW i \in DOMAIN tasks, TaskStep(i) PROVE UNCHANGED Promise!vars
    BY <2>1, <2>4 DEF TaskStep, ExecuteTask, FinishTask, query, source
  <2>5. CASE (Finalize \/ FinishEvent) /\ phase' # "source"
    BY <1>2, <2>1, <2>5, GoesOn
  <2>6. CASE UNCHANGED vars
    BY <2>1, <2>6 DEF vars, query, source
  <2>7. CASE (Finalize \/ FinishEvent) /\ phase' = "source"
    BY <1>2, <2>7, EndIsAnswer DEF Promise!Next
  <2>8. CASE GetData
    BY <1>2, <2>8, EmitIsDeliverOrFinish DEF Promise!Next
  <2> QED BY <1>2, <2>2, <2>3, <2>4, <2>5, <2>6, <2>7, <2>8 DEF Next
<1> QED BY <1>1, <1>2, Invariance, PTL DEF Spec, Promise!Spec

=============================================================================
