---------------------------- MODULE IndexCreate ----------------------------
(***************************************************************************)
(* CREATE INDEX, row group by row group: threads stage the embeddings and   *)
(* row ids of the row group that they scan (PhysicalCreatePDXearchIndex),   *)
(* and set its index up when the next one begins or when they combine       *)
(* (SetUpIndexForRowGroup).  A row stands for its embedding.  Filtered      *)
(* queries later mark rows through the metadata that is written here.       *)
(* The global variant (PhysicalCreateGlobalPDXearchIndex) has one thread    *)
(* and one index, of the whole table, which Finalize sets up: a single      *)
(* part, where the other has a part for every row group.                    *)
(***************************************************************************)
EXTENDS Naturals, Sequences, FiniteSets

CONSTANTS
    Threads,
    RowGroupSize,           \* DEFAULT_ROW_GROUP_SIZE
    VectorSize,             \* STANDARD_VECTOR_SIZE, rows of a chunk
    TableSizes,             \* numbers of rows of the table, none of them 0
    NullSets,               \* sets of rows whose embedding is NULL
    SmallTable, QuarterRowGroup, FewClusters, ManyClusters, \* 2048, 30720, 120 and 480
    MaxGlobalRows           \* bound: rows of the table in the global variant

VARIABLES
    global,                 \* compiled with PDX_USE_ALTERNATIVE_GLOBAL_VERSION
    numRows, nulls,         \* the table, full row groups but for the last
    nextRowGroup,           \* row groups that the scan below has handed out
    scan,                   \* rows of its row group that each thread has yet to scan: next .. end - 1
    row_group_id,           \* each thread's staged row group, ...
    row_ids, embeddings,    \* ... row ids and embeddings
    combined,
    index,                  \* clusters of each row group
    row_id_metadata,        \* cluster_id and index_in_cluster of each row of a row group
    phase

table == <<global, numRows, nulls>>
staged == <<row_group_id, row_ids, embeddings>>
indexes == <<index, row_id_metadata>>
vars == <<table, nextRowGroup, scan, staged, combined, indexes, phase>>

-----------------------------------------------------------------------------
GetRowGroupId(r) == r \div RowGroupSize
TableRowGroups == 0 .. GetRowGroupId(numRows - 1)
TableRows(g) == {r \in 0 .. numRows - 1 : GetRowGroupId(r) = g}

Least(a, b) == IF a <= b THEN a ELSE b

\* The numbers in S, in ascending order.
Ascending(S) ==
    CHOOSE s \in [1 .. Cardinality(S) -> S] : \A i, j \in DOMAIN s : i < j => s[i] < s[j]

\* The parts of the table that have an index each.
RowGroups == IF global THEN {0} ELSE 0 .. (numRows + RowGroupSize - 1) \div RowGroupSize - 1
PartOf(r) == IF global THEN 0 ELSE GetRowGroupId(r)
RowsOf(g) == {r \in 0 .. numRows - 1 : PartOf(r) = g}

\* Row ids are slots of the metadata, in their row group or in the table.
Slots == 0 .. (IF global THEN numRows ELSE RowGroupSize) - 1
SlotOf(r) == IF global THEN r ELSE r % RowGroupSize

\* Mutant: the levels are swapped.
SwappedLevels(n) == IF n < SmallTable THEN FewClusters ELSE IF n < QuarterRowGroup THEN 1 ELSE ManyClusters

ComputeNumClustersForRowGroup(n) ==
    IF n < SmallTable THEN 1 ELSE IF n < QuarterRowGroup THEN FewClusters ELSE ManyClusters

\* The global variant's: twice the root for less than 500000 rows, rounded up.
ComputeNumberOfClusters(n) == CHOOSE k \in 0 .. 2 * n : k * k >= 4 * n /\ (k - 1) * (k - 1) < 4 * n

\* Of every row group: the constructor has the rows of the table for its n.
Clusters ==
    0 .. (IF global THEN ComputeNumberOfClusters(numRows) ELSE ComputeNumClustersForRowGroup(numRows)) - 1

NoIndex == <<>>

Init ==
    /\ global \in BOOLEAN
    /\ numRows \in TableSizes /\ (global => numRows <= MaxGlobalRows)
    /\ \E n \in NullSets : nulls = {r \in n : r < numRows}
    /\ nextRowGroup = 0 /\ scan = [t \in Threads |-> [next |-> 0, end |-> 0]]
    /\ row_group_id = [t \in Threads |-> 0]
    /\ row_ids = [t \in Threads |-> <<>>] /\ embeddings = [t \in Threads |-> <<>>]
    /\ IF global   \* ParallelSink: one thread takes part
       THEN \E t \in Threads : combined = [u \in Threads |-> u # t]
       ELSE combined = [t \in Threads |-> FALSE]
    /\ index = [g \in RowGroups |-> NoIndex]
    /\ row_id_metadata = [g \in RowGroups |->
           [s \in Slots |-> [cluster_id |-> 0, index_in_cluster |-> 0]]]
    /\ phase = "sink"

-----------------------------------------------------------------------------
(* Setting up a row group.                                                  *)

\* Mutant: the last embedding is left out.
MembersButLast(assignment, c) ==
    Ascending({i \in DOMAIN assignment : i + 1 \in DOMAIN assignment /\ assignment[i] = c})

\* assignments[c] of K-means: the embeddings, by their place, that are nearest to centroid c.
Members(assignment, c) == Ascending({i \in DOMAIN assignment : assignment[i] = c})

Gathered(staging, members) == [p \in DOMAIN members |-> staging[members[p]]]

ClustersOf(ids, data, assignment) ==
    [c \in Clusters |-> [indices |-> Gathered(ids, Members(assignment, c)),
                         data    |-> Gathered(data, Members(assignment, c))]]

\* The places whose row has the slot s.
PlacesOfSlot(clusters, s) ==
    {place \in [cluster : Clusters, position : 1 .. Cardinality(Slots)] :
        LET rows == clusters[place.cluster].indices
        IN  place.position \in DOMAIN rows /\ SlotOf(rows[place.position]) = s}

\* Mutant: the position is counted from one.
MetadataFromOne(clusters) ==
    [s \in Slots |->
        IF PlacesOfSlot(clusters, s) = {} THEN [cluster_id |-> 0, index_in_cluster |-> 0]
        ELSE LET place == CHOOSE x \in PlacesOfSlot(clusters, s) : TRUE
             IN  [cluster_id |-> place.cluster, index_in_cluster |-> place.position]]

\* Slots of rows that were not staged keep their default.
Metadata(clusters) ==
    [s \in Slots |->
        IF PlacesOfSlot(clusters, s) = {} THEN [cluster_id |-> 0, index_in_cluster |-> 0]
        ELSE LET place == CHOOSE x \in PlacesOfSlot(clusters, s) : TRUE
             IN  [cluster_id |-> place.cluster, index_in_cluster |-> place.position - 1]]

SetUpIndexForRowGroup(g, ids, data) ==
    \E assignment \in [DOMAIN ids -> Clusters] :
        LET clusters == ClustersOf(ids, data, assignment)
        IN  /\ index' = [index EXCEPT ![g] = clusters]
            /\ row_id_metadata' = [row_id_metadata EXCEPT ![g] = Metadata(clusters)]

\* The same, with row_id_cluster_mapping for the metadata.
SetUpGlobalIndex(ids, data) == SetUpIndexForRowGroup(0, ids, data)

-----------------------------------------------------------------------------
(* The sink.                                                                *)

HasRows(t) == scan[t].next < scan[t].end

\* The table scan hands out row groups in order, each to one thread.
TakeRowGroup(t) ==
    /\ phase = "sink" /\ ~HasRows(t) /\ ~combined[t]
    /\ nextRowGroup \in TableRowGroups
    /\ scan' = [scan EXCEPT ![t] =
           [next |-> nextRowGroup * RowGroupSize,
            end  |-> Least((nextRowGroup + 1) * RowGroupSize, numRows)]]
    /\ nextRowGroup' = nextRowGroup + 1
    /\ UNCHANGED <<table, staged, combined, indexes, phase>>

ChunkEnd(t) == Least(scan[t].next + VectorSize, scan[t].end)
NextChunk(t) == scan[t].next .. ChunkEnd(t) - 1
LeaveChunk(t) == scan' = [scan EXCEPT ![t].next = ChunkEnd(t)]

NotNull(chunk) == chunk \ nulls

\* The filter below the sink drops rows without an embedding, and a chunk that has no others.
SkipChunk(t) ==
    /\ HasRows(t) /\ NotNull(NextChunk(t)) = {}
    /\ LeaveChunk(t)
    /\ UNCHANGED <<table, nextRowGroup, staged, combined, indexes, phase>>

\* Mutant: embeddings of a chunk go before those staged already.
StageInFront(t, ids, data) ==
    LET chunk == NextChunk(t)
    IN  /\ row_ids' = [row_ids EXCEPT ![t] = ids \o Ascending(NotNull(chunk))]
        /\ embeddings' = [embeddings EXCEPT ![t] =
               SubSeq(Ascending(chunk), 1, Cardinality(NotNull(chunk))) \o data]
        /\ LeaveChunk(t)

\* The filter selects row ids and embeddings alike, but only the row ids are flattened before
\* they are read: embeddings are those of the first rows of the chunk as it was scanned.
Stage(t, ids, data) ==
    LET chunk == NextChunk(t)
    IN  /\ row_ids' = [row_ids EXCEPT ![t] = ids \o Ascending(NotNull(chunk))]
        /\ embeddings' = [embeddings EXCEPT ![t] =
               data \o SubSeq(Ascending(chunk), 1, Cardinality(NotNull(chunk)))]
        /\ LeaveChunk(t)

\* Mutant: a thread takes every row group for the first.
StagedFirstRowGroup(t) == UNCHANGED row_group_id

\* The row group of the first row of the chunk that the sink sees.
RowGroupOfChunk(t) == GetRowGroupId(Head(Ascending(NotNull(NextChunk(t)))))

SetRowGroupId(t) == row_group_id' = [row_group_id EXCEPT ![t] = RowGroupOfChunk(t)]

BeginsRowGroup(t) == RowGroupOfChunk(t) > row_group_id[t] /\ row_ids[t] # <<>>

SinkChunk(t) ==
    /\ ~global
    /\ HasRows(t) /\ NotNull(NextChunk(t)) # {}
    /\ ~BeginsRowGroup(t)
    /\ SetRowGroupId(t)
    /\ Stage(t, row_ids[t], embeddings[t])
    /\ UNCHANGED <<table, nextRowGroup, combined, indexes, phase>>

SinkGlobalChunk(t) ==
    /\ global
    /\ HasRows(t) /\ NotNull(NextChunk(t)) # {}
    /\ Stage(t, row_ids[t], embeddings[t])
    /\ UNCHANGED <<table, nextRowGroup, row_group_id, combined, indexes, phase>>

\* Mutant: the count of staged embeddings is not reset.
SinkNewRowGroupAppends(t) ==
    /\ ~global
    /\ HasRows(t) /\ NotNull(NextChunk(t)) # {}
    /\ BeginsRowGroup(t)
    /\ SetUpIndexForRowGroup(row_group_id[t], row_ids[t], embeddings[t])
    /\ SetRowGroupId(t)
    /\ Stage(t, row_ids[t], embeddings[t])
    /\ UNCHANGED <<table, nextRowGroup, combined, phase>>

SinkNewRowGroup(t) ==
    /\ ~global
    /\ HasRows(t) /\ NotNull(NextChunk(t)) # {}
    /\ BeginsRowGroup(t)
    /\ SetUpIndexForRowGroup(row_group_id[t], row_ids[t], embeddings[t])
    /\ SetRowGroupId(t)
    /\ Stage(t, <<>>, <<>>)
    /\ UNCHANGED <<table, nextRowGroup, combined, phase>>

\* Mutant: what is staged last is left behind by a thread that set up another row group.
CombineOnlyFirst(t) ==
    /\ phase = "sink" /\ ~combined[t]
    /\ ~HasRows(t) /\ nextRowGroup \notin TableRowGroups
    /\ combined' = [combined EXCEPT ![t] = TRUE]
    /\ IF ~global /\ row_ids[t] # <<>> /\ row_group_id[t] = 0
       THEN SetUpIndexForRowGroup(row_group_id[t], row_ids[t], embeddings[t])
       ELSE UNCHANGED indexes
    /\ UNCHANGED <<table, nextRowGroup, scan, staged, phase>>

Combine(t) ==
    /\ phase = "sink" /\ ~combined[t]
    /\ ~HasRows(t) /\ nextRowGroup \notin TableRowGroups
    /\ combined' = [combined EXCEPT ![t] = TRUE]
    /\ IF ~global /\ row_ids[t] # <<>>
       THEN SetUpIndexForRowGroup(row_group_id[t], row_ids[t], embeddings[t])
       ELSE UNCHANGED indexes
    /\ UNCHANGED <<table, nextRowGroup, scan, staged, phase>>

CanFinalize == phase = "sink" /\ \A t \in Threads : combined[t]

\* The table was altered, or an index has the name: an exception, or nothing with IF NOT EXISTS.
FinalizeWithoutIndex ==
    /\ CanFinalize
    /\ phase' \in {"exception", "not added"}
    /\ UNCHANGED <<table, nextRowGroup, scan, staged, combined, indexes>>

\* GetInMemorySize reads the index of every row group.
Finalize ==
    /\ CanFinalize /\ ~global
    /\ phase' = IF \E g \in RowGroups : index[g] = NoIndex THEN "crashed" ELSE "added"
    /\ UNCHANGED <<table, nextRowGroup, scan, staged, combined, indexes>>

\* At least one embedding, as asserted when Finalize begins.
FinalizeGlobal ==
    /\ CanFinalize /\ global
    /\ \E t \in Threads : row_ids[t] # <<>> /\ SetUpGlobalIndex(row_ids[t], embeddings[t])
    /\ phase' = "added"
    /\ UNCHANGED <<table, nextRowGroup, scan, staged, combined>>

FinalizeGlobalWithoutEmbeddings ==
    /\ CanFinalize /\ global /\ \A t \in Threads : row_ids[t] = <<>>
    /\ phase' = "crashed"
    /\ UNCHANGED <<table, nextRowGroup, scan, staged, combined, indexes>>

Next ==
    \/ \E t \in Threads :
        TakeRowGroup(t) \/ SkipChunk(t) \/ Combine(t)
        \/ SinkChunk(t) \/ SinkNewRowGroup(t) \/ SinkGlobalChunk(t)
    \/ FinalizeWithoutIndex
    \/ Finalize \/ FinalizeGlobal \/ FinalizeGlobalWithoutEmbeddings

Spec == Init /\ [][Next]_vars

-----------------------------------------------------------------------------
(* A filtered query of the finished index.                                  *)

\* Where the selection vector of a cluster begins, cluster_offsets of the searcher.
Offset(g, c) ==
    Cardinality(UNION {{d} \X DOMAIN index[g][d].indices : d \in {d \in Clusters : d < c}})

\* CreatePredicateEvaluatorForRowGroup: what passing rows of the row group set.
SelectionVector(g, passing) ==
    {Offset(g, row_id_metadata[g][SlotOf(r)].cluster_id)
        + row_id_metadata[g][SlotOf(r)].index_in_cluster : r \in passing}

NumPassingTuples(g, passing) ==
    [c \in Clusters |->
        Cardinality({r \in passing : row_id_metadata[g][SlotOf(r)].cluster_id = c})]

-----------------------------------------------------------------------------
(* Properties.                                                              *)

Place == [cluster_id : Clusters, index_in_cluster : Slots]

IsStaged(s) == s \in Seq(0 .. numRows - 1) /\ Len(s) <= Cardinality(Slots)

\* The variables keep their ranges; what is staged fits its buffer, as the assertion at its
\* filling demands.
TypeOK ==
    /\ numRows \in TableSizes /\ nulls \subseteq 0 .. numRows - 1
    /\ nextRowGroup <= Cardinality(TableRowGroups)
    /\ \A t \in Threads :
        /\ scan[t] \in [next : 0 .. numRows, end : 0 .. numRows]
        /\ row_group_id[t] \in RowGroups
        /\ IsStaged(row_ids[t]) /\ IsStaged(embeddings[t])
    /\ combined \in [Threads -> BOOLEAN]
    /\ \A g \in RowGroups :
        /\ index[g] # NoIndex =>
            /\ DOMAIN index[g] = Clusters
            /\ \A c \in Clusters : IsStaged(index[g][c].indices) /\ IsStaged(index[g][c].data)
        /\ row_id_metadata[g] \in [Slots -> Place]
    /\ phase \in {"sink", "exception", "not added", "added", "crashed"}

\* Places in the index where row r is stored.
Places(r) ==
    {place \in [part : RowGroups, cluster : Clusters, position : 1 .. Cardinality(Slots)] :
        /\ index[place.part] # NoIndex
        /\ LET rows == index[place.part][place.cluster].indices
           IN  place.position \in DOMAIN rows /\ rows[place.position] = r}

\* An index that is added to the table has every row with an embedding in it once, in its row
\* group, and no other row, whichever threads scanned which row groups.
AddedComplete ==
    phase = "added" =>
        \A r \in 0 .. numRows - 1 :
            IF r \in nulls
            THEN Places(r) = {}
            ELSE \E c \in Clusters, p \in 1 .. Cardinality(Slots) :
                    Places(r) = {[part |-> PartOf(r), cluster |-> c, position |-> p]}

\* "This is called once per row group": what has been set up is not set up again.
SetUpOnce ==
    [][\A g \in RowGroups : index[g] # NoIndex => index'[g] = index[g]]_vars

Aligned(g) ==
    index[g] # NoIndex =>
        \A c \in Clusters : index[g][c].data = index[g][c].indices

\* In a row group without NULLs each row id is stored with its own embedding.
AlignedWithoutNulls == \A g \in RowGroups : RowsOf(g) \cap nulls = {} => Aligned(g)

\* "Row IDs of the embeddings currently buffered in the row group": that is so of every row
\* group, and of the clusters that are made of it.
RowIdsOfTheEmbeddings == \A g \in RowGroups : Aligned(g)

\* The selection vector marks the rows of every cluster that pass, and no others, and as many
\* as are counted.
MarksExactly(g, passing) ==
    index[g] # NoIndex =>
        \A c \in Clusters :
            LET rows == index[g][c].indices
            IN  /\ \A p \in DOMAIN rows :
                    Offset(g, c) + p - 1 \in SelectionVector(g, passing) <=> rows[p] \in passing
                /\ NumPassingTuples(g, passing)[c]
                       = Cardinality({p \in DOMAIN rows : rows[p] \in passing})

\* Whatever the clusters, and whichever rows have been left out for their NULLs, the metadata
\* leads a filtered query from rows that have an embedding to their places, across clusters.
EvaluatorFindsIndexedRows ==
    \A g \in RowGroups : \A passing \in SUBSET (RowsOf(g) \ nulls) : MarksExactly(g, passing)

\* "Number of tuples per cluster that passed the predicate": also of predicates that rows
\* without an embedding pass.
EvaluatorFindsPassingRows ==
    \A g \in RowGroups : \A passing \in SUBSET RowsOf(g) : MarksExactly(g, passing)

\* The assertion that a row group has as many embeddings as clusters (pdxearch_wrapper.hpp:177):
\* the number of clusters follows from the table, so that it may fail in the last of several row
\* groups, and where embeddings are NULL, but nowhere else.
EnoughEmbeddingsToCluster ==
    \A g \in RowGroups :
        /\ ~global /\ index[g] # NoIndex /\ RowsOf(g) \cap nulls = {}
        /\ g + 1 \in RowGroups \/ RowGroups = {g}
        => Cardinality(UNION {{c} \X DOMAIN index[g][c].indices : c \in Clusters}) >= Cardinality(Clusters)

\* Finalize meets a row group that was never set up only where all embeddings are NULL.
CrashesOnlyOnNulls == phase = "crashed" => \E g \in RowGroups : RowsOf(g) \subseteq nulls

-----------------------------------------------------------------------------
ASSUME SizeAssumption ==
    /\ RowGroupSize \in Nat \ {0} /\ VectorSize \in Nat \ {0}
    /\ TableSizes \subseteq Nat \ {0}
    /\ FewClusters \in Nat \ {0} /\ ManyClusters \in Nat \ {0}
    /\ SmallTable \in Nat /\ QuarterRowGroup \in Nat
    /\ FewClusters <= SmallTable /\ FewClusters <= RowGroupSize
    /\ ManyClusters <= QuarterRowGroup /\ ManyClusters <= RowGroupSize
    /\ NullSets \subseteq SUBSET Nat
    /\ MaxGlobalRows \in Nat
    /\ Threads # {}

=============================================================================
