# PDXearch: a TLA+ model of the DuckDB vector-search extension

The repository adds an index type to DuckDB. It clusters the embeddings of each row group
(IVF), stores every cluster dimension by dimension (the PDX layout), and answers
`ORDER BY array_distance(...) LIMIT k` by probing the nearest clusters and pruning vectors
before all their dimensions have been read. This directory models the program in TLA+,
checks the model with TLC and proves part of it with TLAPS.

Line numbers below are those of the sources in `src/`.

## 1. Inventory

| Part | Where | State | Operations |
|---|---|---|---|
| Search kernel | `include/pdxearch/pdxearch.hpp`, `pruners/adsampling.hpp`, `common.hpp` | per searcher: access order of the clusters, offset in it, predicate evaluator; per search: threshold, dimension counters, positions array; shared: heap `best_k` and its mutex | `InitializeSearch`, `Search`, `FilteredSearch`, `Warmup`, `Prune`, `MergeIntoHeap` |
| Filtered operator | `index/search/pdxearch_index_filtered_scan_physical.cpp` | staged row ids of each thread, lists of row groups with passing rows, heap, iteration counter, result | `Sink`, `Combine`, `Finalize`, iteration event and tasks, `GetData` |
| Unfiltered operator | `index/search/pdxearch_index_scan_physical.cpp` | two flags, source lock, heap, result | `GetData`, search event and tasks |
| Row group wrapper | `include/index/pdxearch_wrapper.hpp` | row groups: IVF index, row-id metadata, searcher | `SetUpIndexForRowGroup`, per-row-group search |
| Index creation | `index/create/*`, `pdxearch_index_utils.hpp`, `pdxearch_kmeans.hpp` | staged row ids and embeddings of each thread, or of the one thread of the global variant | `CreatePlan`, `Sink`, `Combine`, `Finalize`, `SetUpGlobalIndex` |
| Global variant | the `Global` parts of `pdxearch.hpp` and of the wrapper, `*_global_*` | one searcher with its heap | `Start`, `FilteredStart`, `SearchGlobal`, `FilteredSearchGlobal` |
| Scan optimizer | `index/search/pdxearch_scan_optimizer.cpp` | the plan that it rewrites, whether it did | `TryOptimize`, `OptimizeChildren`, `MergeProjections` |
| Layout, quantizer | `common.hpp`, `index_base`, `quantizers` | none | pure functions |
| Blob functions | `pdxearch_blob_codec.hpp`, `pdxearch_blob_functions.cpp` | none | a lossy 16-bit code for floats, distances between a blob and an array |
| Index object | `index/pdxearch_index.cpp`, `pdxearch_module.hpp` | options, the wrapper, the setting `pdxearch_n_probe` | options and their defaults, `GetEffectiveNProbe`, the function matcher, dispatch; maintenance throws, persistence is a stub |
| Distance kernels, info function | `distance_computers/*`, `pdxearch_index_info_function.cpp` | none | SIMD arithmetic; display |

How they interact. The optimizer replaces a top-N over a table scan by one of the two
operators. The unfiltered operator schedules a task per row group; the filtered one lets the
table scan's threads search a row group as soon as the next one begins, then schedules
iteration events. All of them call searchers, which live as long as the index and are reused by
the next query, and all searchers of a query push into one heap under one mutex. Index creation
runs before any search and is not concurrent with one.

What is hard: the interleaving of searchers on the heap, where thresholds go stale between two
reads; searchers that keep state from one query to the next; the heap's initialization element;
the chain of events that must neither end early nor go on for ever; the blocking source, whose
flag is set outside the lock; row groups with no passing row; the boundaries of counters and sizes;
a plan whose operators refer to each other by position while it is rewritten, and the places where the
index does not answer what the plan asked for (NULLs, vectors without a direction, an offset).

## 2. Modules

| Module | What it is |
|---|---|
| `BestK` | abstract: the heap, to which rows are offered |
| `PDXearch` | the search kernel, detailed; implements `BestK` |
| `KNNQuery` | abstract: what a search operator promises to the plan above it |
| `FilteredScan` | the filtered operator; implements `KNNQuery` |
| `IndexScan` | the unfiltered operator; implements `KNNQuery` |
| `GlobalSearch` | both operators and the searcher of the global variant; implements `KNNQuery` |
| `IndexCreate` | index creation, by row groups and global, and the metadata that filtered queries use |
| `Layout` | where a cluster's values are stored, and the order and addresses they are read in |
| `BlobCodec` | the 16-bit code of query embeddings |
| `ScanOptimizer` | a session: options of an index, plans and their rewriting, what plans answer; uses `BlobCodec` |
| `AnswerLemmas` | lemmas that the proofs about the three operators share |
| `PDXearch_proofs`, `FilteredScan_proofs`, `IndexScan_proofs`, `GlobalSearch_proofs`, `IndexCreate_proofs`, `Layout_proofs`, `ScanOptimizer_proofs` | theorems about the module of that name; `ScanOptimizer_proofs` has those about `BlobCodec` too |
| `MC*` | instances of these for TLC |

The two layers meet in `BestK`: `PDXearch` shows that searchers which interleave in the middle
of a cluster keep the heap a K-best subset of the rows they are done with, if the pruner is exact (`ExactPruning`), up to a
tolerance where thresholds are truncated (U8, `pdxearch.hpp` 107-112) and without one for F32. The operators probe a cluster in one step that
may lose what the kernel may lose: nothing while the heap is not full (`NothingLostBeforeFull`); later, rows up to their `Tolerance` too near if the pruner is
exact, and any row if it is not. ADSampling is not: its ratios are below one (`adsampling.hpp` 72-82), and the repository's tests expect a recall that is "Not
necessarily 1.0 because of float computations and pruning algorithm loss" with every cluster probed
(`test/sql/search/index_scan_monotonic_recall.test` 88-91). So what is promised of the default index is `KNNQuery`: the number of rows, from the clusters probed, in
order, once each, and an end. That they are the nearest ones is claimed under `exact` only, and strictly only for tolerances of 0. `exact` also stands for
distances whose rounding does not change their order. `ScanOptimizer` takes the operators' promise in turn: an index answers with the nearest rows
if the pruner is exact, there is no quantization, all clusters are probed (`NearestOfProbedF32`, `ExactWhenAllClustersProbedF32` in the proofs) and no embedding of
its column is NULL; any other index may answer with any candidates.

### PDXearch

`heap` is `best_k`, with the initialization element as a member of its own; `mutex` is held
during `MergeIntoHeap` only, because the other critical section (`GetPruningThreshold`) is one
read and is folded into the action that uses what it read. `pc[g]` says where searcher `g` is:

| `pc` | action | code |
|---|---|---|
| `idle` | `InitializeSearch` | 317-335, and the entry of `Search`/`FilteredSearch` |
| `loop` | `LeaveLoop`, `SkipCluster`, `EnterCluster` | 348-358, 387-402 |
| `warmup` | `Warmup`, once per block of dimensions | 195-228 |
| `init` | `InitPositionsArray` | 237-242 |
| `prune` | `PruneHorizontal`, `PruneVertical` | 243-287 |
| `lock`, `merge` | `LockHeap`, `MergeIntoHeap` | 290-309, 364-368, 409-413 |

`StartQuery` begins another query with the searchers as they were left. Distances are functions
of the row and of the number of dimensions read, the pruner's ratio one of the number of
dimensions; both are constants, so that an exact and a lossy pruner are two instances of one model. The vectors of a
cluster are merged in any order.

A quantized row group has distances in units of its own (`Unit`, the code's `inverse_quantization_scale_squared`).
`Dist` is what `MergeIntoHeap` puts into the heap, which all row groups share; `QuantizedThreshold` converts the top of the heap back to
units, truncates it to a whole number and saturates it at `MaxPartialDist`, the largest `distance_t` (102-117). Without quantization
the comparison with the ratio is cleared of its fraction. `Tolerance` is what the truncation may cost: less than a unit of the
row group. The mask of rows that do not pass is half of `MaxPartialDist`.

### FilteredScan

Threads take row groups off the child scan in order (`TakeRowGroup`, external: a row group is
scanned by one thread) and receive its passing rows in chunks of any size. `SinkSearch` and
`SinkSearched` are the two halves of the branch at 156-171, with the probing of clusters
(`ProbeCluster`) between them, so that searches of several threads interleave. `Finalize` and
`FinishEvent` count an iteration and call `TryFinalizeSinkPhase`, which ends the phase or
schedules the next event. `Init` leaves the searchers as a query that everything passed would, and chooses whether the
pruner is exact for this query (`exact`).

`ProbeCluster` is the warmup, pruning and merge of one cluster: those of its passing rows that `MaySurvive` the pruning are offered to the heap,
`NextCluster` is where the searcher is. `Tolerance` is that of `PDXearch`, 0 for a row group that is not quantized.
The rows that the evaluator marks are taken to be the passing ones, which `IndexCreate` shows for predicates that no row with a NULL embedding passes
(`EvaluatorFindsPassingRows` fails otherwise, see Findings).

### IndexScan

The steps are cut where the lock does not protect: `SetCompleted` happens outside it, so that
`LockAndCheck` and `BlockSource` fall on either side of it and of `UnblockTasks`. `ProbeCluster`, `exact` and `Tolerance` are as in `FilteredScan`, without
an evaluator.

### GlobalSearch

The global variant (compiled in place of the other) has one index, one searcher and one thread that searches, so a cluster is
one step. `filtered` chooses between the sink operator and the table function. `Start` stands for
`Start` and `FilteredStart`, `PruneAndMerge` for the warmup, pruning and merge of a later cluster, whose
inner steps are those of `PDXearch`. `ivfNProbe` is what an earlier query left in the searcher.

### IndexCreate

A row stands for its embedding, so that `row_ids` and `embeddings` of a thread agree exactly if each id is staged
with its own embedding. Chunks come from the table scan (`TakeRowGroup`, `NextChunk`) through
a filter that drops NULLs (`NotNull`): it selects rows of a chunk without moving them, which the code
undoes for the row ids (`Flatten`, line 112) and not for the embeddings. What a thread has yet to scan of its row group is an
interval, a chunk the beginning of it, and `Ascending` puts the rows of a chunk, or the members of a cluster, into the order that the
code meets them in. The outcome of K-means is any
assignment. `Metadata` is looked up from the places of the clusters: the code writes an entry for each place, and no two rows of a
row group share one. `Finalize` ends in `crashed` where `GetInMemorySize` would dereference a missing index.
`SelectionVector` and `NumPassingTuples` are what a filtered query makes of the metadata.

`global` chooses the variant once and for all. The global one is the same pipeline with one thread (its sink is not
parallel), a single part that spans the table, and the index set up by `FinalizeGlobal` from what that thread
staged; without an embedding `Finalize` fails its first assertion. Its number of clusters is twice the root
of the number of rows (`ComputeNumberOfClusters`, for tables below 500000 rows).

### Layout

One vector of a cluster is followed. `StoredAt` is the writer's address of a value (`StoreClusterEmbeddings`),
`Vertical` and `Horizontal` are the addresses that the reader takes (`ScalarComputer`), and the
actions are the blocks of `Warmup` and `Prune` with the counters of the code.
`PDXearch` has the same schedule with abstract stops and concentrates on what is pruned;
`Layout` has the real sizes and concentrates on what is read.

### BlobCodec

Floats are integers in units of 1e-6, a tenth of the finest of the four scales, so that rounding is seen. A
code is `(q << 2) | x`, that is `4 * q + x`. The cast to `int32_t` (`Casts`) is undefined out of range and yields
either end of the range. `Encodings` is the set of codes that a value may be given.

### ScanOptimizer

A session creates indexes (`CreateIndex`: the checks of `CreatePlan`, then the constructor, which takes a default
for any name that it does not know), sets `pdxearch_n_probe` (`SetNProbe`, also between planning
and running) and asks queries. `Bind` gives a query the plan that DuckDB's own passes leave: a chain
`PROJECTION?`, `TOP_N`, `PROJECTION`, `FILTER?`, `GET`, whose references are positions in what the operator below emits.
`Visit` is one call of `TryOptimize`, at the operator that `OptimizeChildren` has come to; `Visited` is the end of
the recursion and `MergeProjections` the pass after it. `Execute` takes any answer of the plan as it then is.

| Definition | code |
|---|---|
| `IsTopNOverTableScan` | the conditions on operators, orders and dynamic filters in `TryOptimize` |
| `Matches`, `ArgumentMatches`, `IsIndexedColumnAndConstant` | `TryBindIndexExpression`, the function matcher, and the checks of the matched expression |
| `BindData`, `IndexScanFor`, `RowIdScan`, `Rewritten` | what replaces the scan: an operator with or without a child scan, or, in the global variant, another function of the scan |
| `WithoutUnreferenced` | `MergeProjections` |
| `DistanceOf` | `array_distance` and `array_cosine_distance`, of a blob as well, with NULL and the error for different dimensions |
| `IndexDistance` | what the index compares with: normalized embeddings for cosine |
| `Indexed`, `Candidates` | which rows an index has, and which of them a search considers: a passing row without an embedding may mark another row (finding on filtered queries) |
| `IsExact`, `NearestOf`, `IndexAnswers` | the promise of the operators: the nearest candidates of an index that is exact, any of them otherwise |
| `PlanOf` and the operators it is made of | the plan as DuckDB's own passes leave it |
| `Output`, `Streams`, `Answers` | what each operator emits for a row (`Emits`), the rows it passes on in each possible order (`PassesOn`), and what comes out at the root |

Answers are sets of sequences, because rows at the same distance may come in any order. Cosine distances are integers,
in hundredths of the squared similarity with its sign, which orders vectors as the similarity does up to that rounding.
`Exact` says of the whole session whether the pruner is exact.

The properties have the hypotheses that the code needs, each as a definition: `IsExact`; `IsOrderedAlike`, no vector without a direction under a cosine metric; `IsFilteredAlike`,
no filter on the row id, since the repository disables the test of that (Observations).

## 3. Runs

| Run | Shows | Instance |
|---|---|---|
| `searchers_exact` | type invariant; the heap implements `BestK`, row groups quantized with different units included; thresholds only tighten; only rows considered for this query are in the heap, none twice; the dimension counters agree | 3 row groups, 2 clusters each, 6 rows, K = 2, 3 dimensions in 3 blocks, 2 queries, 4 filters; quantized, with units 2, 3 and 7 |
| `searchers_lossy` | the count of results, nothing lost before the heap is full, and that searches return, when the pruner is wrong about distances | the same, not quantized, ratios of one half |
| `filtered_scan` | the code's assertions; the row groups to be probed again; the nearest rows when all clusters are probed and the pruner is exact; the operator implements `KNNQuery`, its termination included, whatever the pruner loses | 2 threads, 3 row groups of 3 clusters, 5 rows, K = 2, 5 filters, n_probe 0, 1, 2; pruner exact or not, one row group with truncated thresholds |
| `index_scan` | no lost wakeup; the result precedes the flag; the nearest rows of the probed clusters when the pruner is exact; the operator implements `KNNQuery`, whatever the pruner loses | 3 row groups of 2 clusters, 5 rows, K = 3, n_probe 0, 1, 3; pruner exact or not, one row group with truncated thresholds |
| `global_search` | size, order and single emission of the answer (`KNNQuery`); exactness when the first cluster fills the heap | 2 threads, 3 clusters, 6 rows, K = 2, 6 filters, n_probe 0, 1, 2 |
| `global_start` | **violation**: vectors are discarded before the heap is full | the same |
| `index_create` | every row with an embedding is indexed once, with its part of the table; no row group is set up twice; metadata leads to the right places; there are as many embeddings as clusters but in the last of several row groups | 2 threads, tables of 1, 3, 4 and 8 rows in row groups of 3, chunks of 2, four patterns of NULLs, up to 3 clusters; global with one thread, up to 4 rows and 4 clusters |
| `index_create_embeddings` | **violation**: row ids next to other rows' embeddings | the same |
| `index_create_predicate` | **violation**: a passing row without embedding marks another row | the same |
| `layout` | every value is read where it was stored, and once; every place of the buffer is filled; the split of the dimensions | the sizes of the code; 23 numbers of dimensions from 1 to 1028, clusters of 1 and 3 vectors |
| `optimizer` | references of a plan stay valid while it is rewritten (`TypeOK`); the rewritten plan answers what the original answers if the index is exact, and rows of the index within the limit and the filters otherwise (`AnswerKept`); a distance that nothing needs is not computed again (`DistanceNotComputedTwice`); an index is what `CREATE INDEX` asked for (`CreatedAsAsked`) | both variants, 4 rows, three columns of two dimensions, up to 2 indexes, 8 sets of options, 3 settings, 51 queries; `Exact` |
| `optimizer_offset` | **violation**: a query with OFFSET gets the rows in front of the offset | the same |

`TypeOK` of each module is its type invariant. `AnswerKept` asks for the same answer where the index is exact, orders vectors as the query does and the filters
are applied alike (`IsExact`, `IsOrderedAlike`, `IsFilteredAlike`); elsewhere for rows of the index, in the query's columns and no more than its limit, which pass its
filters unless a row that passes them has no embedding. That is what an approximate index owes too. Without `IsExact` or `IsOrderedAlike`, or without the condition on NULLs in `IsExact`, TLC finds `AnswerKept`
violated in this instance. `IsFilteredAlike` is no such condition of the model: it leaves out what the repository's disabled test puts in doubt.

Why the bounds are enough. Two searchers already share the heap in every order; the third
makes a threshold stale twice over and leaves a row group without passing rows. A cluster of three
rows exceeds K, so that the heap overflows within one merge, and others are empty. Rows tie, and with the units of the quantized
instance one row is nearer than another by less than a unit, and thresholds may be truncated to 0; without a tolerance TLC finds
`ImplementsBestK` violated there. In the runs of the operators the tolerance of one row group lets a row lose against nearer
and farther ones; without it in the properties TLC finds them violated, and so it does without `exact`. Two
queries are the fewest in which kept state matters. Dimensions come in two vertical blocks
and a horizontal one, so that the warmup can stop before, between and after them. In
`FilteredScan` filters leave out the first, the middle or every row group, and with two threads one of
them may see none; chunks of one row need several calls of `GetData`.
In `GlobalSearch` the first cluster fills the heap under some filters and not under others. In `IndexCreate`
three row groups make one thread set up two of them; NULLs come first or last in a chunk, fill a chunk, or
fill a row group; the three levels of `ComputeNumClustersForRowGroup` are scaled down with the row group. The dimensions of `Layout`
lie on both sides of 64 and 128, have vertical parts of every remainder modulo four, and include most of
those in the static assertions of `common.hpp`; its theorems cover the others. `MaxGlobalRows`: four rows
are four clusters, the fewest with which clusters of the global index are empty, single and shared, in two row groups
of the scan. In `ScanOptimizer` two indexes on the table are enough for the first to match, the second only, or
neither, by column or by metric; one column has a vector without a direction, one a NULL, and one neither, so that each
respect in which an index cannot serve a query occurs and the exact case does too. Queries differ from a common one in one or two respects: function, side and
type of the constant (array, blob, blob of another number of dimensions, another column), table filters with and
without the row id, a composite filter, dynamic filters, order type and NULLs, several orders, offset, columns in another
order, and whether the distance is shown.

Fairness. `PDXearch`: each searcher's steps are weakly fair, since a scheduled task runs; the
mutex is held for finitely many steps, so weak fairness is enough for `SearchReturns`. Queries are
not fair: nobody has to ask one. The operators: threads, tasks, events and the caller of `GetData`
are weakly fair, because DuckDB's executor runs what is scheduled and a plan is pulled
until it is exhausted. A blocked source has no step, and is called again only because the event
unblocks it.

Deadlock checking is on for the `optimizer` runs, where a session always goes on, and off for the others: a query that has
finished stops.

### Findings

**A heap filled in part.** `Start` and `FilteredStart` (`pdxearch.hpp` 422-510) are meant for the first cluster, from which the K
closest vectors are all that can matter. They are called until the heap is full, and then take only as many
vectors as there is room for: with K = 2 and a far vector in the heap, only one vector of the next
cluster is kept although two are closer. Later clusters are compared with the heap again,
so that the vectors that were dropped are the only ones lost. `global_start` exhibits it; `NearestIfFilledAtOnce` says that nothing
is lost if the first cluster with passing rows fills the heap. The parallel implementation has no such step.

**NULL embeddings at creation.** Embeddings are read from the entries of the array vector as it was before the
filter (`pdxearch_index_create.cpp` 107-110), row ids after it (112). In a chunk with a NULL, every row id
after it goes with the embedding of an earlier row: `index_create_embeddings`. Row groups without NULLs are
right (`AlignedWithoutNulls`).

**NULL embeddings in filtered queries.** Rows that are not indexed keep the metadata {0, 0}, the place of some other row;
if such a row passes a predicate, that other row is taken to pass: `index_create_predicate`.
For rows with embeddings the metadata is right (`EvaluatorFindsIndexedRows`).

**OFFSET.** The bind data takes `top_n.limit` and not `top_n.offset` (`pdxearch_scan_optimizer.cpp:346`), and the
`TOP_N` that had it is removed, in both scenarios and both variants: `LIMIT 1 OFFSET 1` answers the nearest row. `optimizer_offset`
exhibits it.

### Observations

No run exhibits these. They follow from the code as modelled, except where an assertion or the cause of a failing test is said not to be modelled.

- *Truncated thresholds.* With U8 a vector is pruned when its distance in units reaches the truncated threshold, so that one nearer
  than the top of the heap by less than a unit of its row group is lost, and under a threshold below one the whole cluster is. Units
  differ between row groups; the loss is bounded by the pruned row's own (`Tolerance`).

- *Bound on the iterations.* `max_num_probe_iterations` (filtered scan, line 79) is initialized with its declaration, when
  `partitions_to_probe_per_row_group_on_first_iteration` is still 0; the constructor's body sets that
  at line 48. The bound is therefore that of a search whose first iteration probes nothing. No row is lost; the bound is
  merely too large, and iterations may run after every cluster has been probed.
- *NULLs in a query.* A row with a NULL embedding is not in the index. A plan with `NULLS FIRST`, or whose limit exceeds the
  number of embeddings, would emit such rows; the rewritten one does not (`order.null_order` is not looked at). An index over a column with
  NULLs is not exact anyway, for the reasons given under Findings, so that `AnswerKept` promises little of it.
- *Vectors without a direction.* The cosine distance of a zero vector is 2 for the SQL function and 1 for the index, which leaves the
  vector at the origin, so that their order differs (`IsOrderedAlike`). In the global variant `NormalizeQuery` leaves the
  destination unwritten for a zero query (`pdxearch.hpp:521`).
- *Projections over the unfiltered operator.* The header of the optimizer shows, for its scenario 1, `NULL` in place of the distance over
  `PDXEARCH_INDEX_SCAN` (`pdxearch_scan_optimizer.cpp` 59-70). The code does not do that: `MergeProjections` looks for the global table function and for the
  filtered operator (468-473), not for this one, and the distance is computed once more. The answer is the same; `DistanceNotComputedTwice` leaves this operator out.
- *Filters on the row id.* The repository disables its test of a filter `rowid > 1` under a filtered search
  (`index_filtered_scan_optimizer.test` 142-156: "Initial idea is that this has to do with the PDXearch `WHERE id=1` bug"). Nothing in `src/` as modelled shows the
  cause: the plan leads to the row id in the child's output (`TypeOK`), and what a table scan emits for a filter on it is DuckDB's. `AnswerKept`
  claims neither exactness nor the filter there (`IsFilteredAlike`).
- *Number of embeddings of a global index.* `SetUpGlobalIndex` asserts that as many embeddings were staged as the estimated cardinality of the table
  (`pdxearch_wrapper.hpp:336`). With NULL embeddings there are fewer, and a debug build stops there. The assertion is not modelled; a release build
  goes on as `FinalizeGlobal` does.

## 4. Proofs

All theorems hold for every value of the constants that satisfies the assumptions named in the modules: any table, any number of
threads, row groups and clusters, any limit.

| Module | Proved as `Spec => []...` |
|---|---|
| `PDXearch_proofs` | `TypeOK`, `DimensionsAgree`, `OnlyConsidered`, `NoDuplicates`, `NothingLostBeforeFull`, `ResultCount`, `ThresholdTightens` (an action property); under `ExactPruning`, `Spec` implements `BestK` up to `Tolerance` (`HeapImplementsBestK`), and exactly without quantization (`ExactWithoutQuantization`); `RatiosOfOneAreExact` |
| `FilteredScan_proofs` | `TypeOK`, `AssertionsHold`, `EveryRowGroupListedOnce`, `OnlySelected`, `ExactWhenAllClustersProbed`, and without quantization `ExactWhenAllClustersProbedF32`; `KeepsPromise`: `Spec` implements the safety of `KNNQuery` |
| `IndexScan_proofs` | `TypeOK`, `NoLostWakeup`, `ResultIsThere`, `NearestOfProbed`, and without quantization `NearestOfProbedF32`; `KeepsPromise` |
| `GlobalSearch_proofs` | `TypeOK`, `NearestIfFilledAtOnce`; `KeepsPromise` |
| `IndexCreate_proofs` | every property of the `index_create` run; `Invariance` of what is scanned, staged and indexed; `RowGroupsInOrder`, the assertion at line 90 of `pdxearch_index_create.cpp` |
| `Layout_proofs` | every property of the `layout` run; `SplitOfEveryDimension` |
| `ScanOptimizer_proofs` | every property of the `optimizer` run; `Invariance` of the shapes of a plan; of `BlobCodec`, `CodesFit16Bits`, `RoundTrip`, `SignKept` (facts about the functions) |

**PDXearch.** The argument has two inductive invariants. `ScanInv` speaks of each searcher on its own: its
variables have their ranges, its counters agree with where it is, the positions array holds passing
rows of the current cluster, and searchers that do not take part are idle. `HeapInv` relates the heap to
all of them: the heap holds rows already dealt with, everything dealt with while the
initialization element is there, K of them afterwards, and, under `ExactPruning`, none farther than a row
that was dealt with and left out by more than that row's `Tolerance`. None of the properties is inductive alone:
`OnlyConsidered`, say, needs to know that a row about to be merged comes from the current cluster, hence
that positions arrays are subsets of it. Lemmas say what each kind of step does to the set
of considered rows (`Considered`); a step that discards rows and one that merges a row are then two cases of
one argument. `HeapImplementsBestK` follows from `HeapInv` step by step, each step of the kernel
being an `Offer`, a `Reset` or a stutter. `ResultCount` follows from `HeapInv` and from `AllProbed`: when all clusters were
to be probed and the searchers are idle again, every passing row has been considered.
Assumptions: no partial distance reaches the threshold of the initialization element, the ratio
at all dimensions is one, and a row group that is not quantized has the unit 1. `ExactPruning`, the hypothesis of the refinement, is
not empty: `RatiosOfOneAreExact` derives it for a pruner whose ratios are one, quantized or not, from partial distances that
only grow; the truncation of a quotient is what takes the tolerance there (`CancelRatio`).

**FilteredScan.** `IInv` has five parts. `SinkInv`: each row group is one thread's (the sets `Held` are disjoint), a thread has all
passing rows of the row groups that it has rows of, its searchers are those of this query (`Initialized`: the evaluator holds the passing
rows, and those of the clusters passed have been offered), and the global list is the combined threads'
lists. `HeapInv`: the heap holds as many of the offered rows as it can, and if the pruner is exact none of the others is nearer by more than its tolerance. `IterationsInv`: after n iterations a listed row group has probed n
times the follow-up number of clusters, or all (`Reached`); with the bound on the iterations this is what makes `ExactWhenAllClustersProbed`
true. `BusyInv`: a searcher in the middle of its clusters is one that a thread or a task waits for, so that a phase ends
with all of them done. `ResultInv`: the result is the heap in order, and what was emitted is its beginning. `Threads` is
not empty (`ThreadAssumption`): with no thread nothing would sink the rows.

**IndexScan.** `ControlInv` ties the flags, the lock and the caller to where the event is, which gives `NoLostWakeup`: a blocked
caller implies that the event has not finished. `TasksInv` gives each task its clusters, `HeapInv` makes the offered rows those of the
clusters passed and says what `FilteredScan`'s says of the heap, and `ResultInv` is as above. `NearestOfProbed` needs all four, because the result is read after the flag alone.

**GlobalSearch.** `SinkInv` says where each passing row is until all are collected, and that a search begins with the query's own
`n_probe`, not the one left over. `HeapInv`: the heap has as many of the visited rows as it can hold, and the nearest
ones if the first cluster filled it. `Exact` (no vector is pruned wrongly) is a hypothesis of that last part only.

`KeepsPromise` is the safety half of the refinement: initial states map to initial states, and each step is `Answer`, `Deliver`,
`Finish` or a stutter. That queries end (`Ends`) needs fairness and is left to TLC, which checks the whole of `KNNQuery!FairSpec`. `AnswerLemmas`
has what the three share: a heap popped into a sequence loses and repeats nothing, chunks of a sequence put together give
its beginning, and a merge of the rows that survive a cluster fills the heap as far as it can and keeps, if the pruner is exact, its rows the nearest
up to their tolerances (`MergeFills`, `MergeKeepsNearest`).

**IndexCreate.** What the properties say of a finished index has to be said of everything on its way into it. `IInv` has these parts.
`ScanInv`: a thread has an interval of one row group left to scan, of one that was handed out, and none before the row group that it has staged.
`StagedInv`: what it has staged are rows of one part that have an embedding, each once, that it will not scan again, with as many embeddings, which
are their own if the part has no NULLs. `Covered`: a row with an embedding that was handed out is one that some thread
is busy with, or its part has an index. `Separated`: no two threads are busy with the same part, nor any with a part that has an index; this is
what `SetUpOnce` comes down to. `IndexInv`: each index is complete, and its metadata leads to the place of each row (`Completes`). `OneThread` and
`PhaseInv` say which threads take part in the global variant, and how `Finalize` ended.
None of the properties is inductive alone: that an index has every row of its row group when it is set up follows from `Covered`, since
no other thread is busy with the row group (`Separated`) and this one has nothing of it left to scan (`ScanInv`). `SetUpCompletes` makes of complete staging
a complete index, for any assignment. `AscendingExists`, that every finite set of numbers can be put in order, is
an induction over finite sets, done with a minimal counterexample in the subset order. `EvaluatorFindsIndexedRowsAlways` counts: the places
of a cluster begin where those of the clusters before it end (`OffsetsApart`), so that no two clusters' bits meet, and the passing rows of
a cluster are as many as their places by a bijection.
Assumptions (`SizeAssumption`): row groups, chunks and tables are not empty, there is a thread, and a level of `ComputeNumClustersForRowGroup` has no more clusters than
a table of that level and a row group have rows, as with the code's constants (120 clusters from 2048 rows, 480 from 30720, row groups of 122880).

**Layout.** For every number of dimensions, every cluster
size and all fetching sizes that are multiples of four, as the code asserts statically, and of which the last is as large as
any number of dimensions. `SplitOfEveryDimension` is about the split alone. The inductive invariant says what
has been read in terms of the counters, and that vertical blocks begin at a multiple of four or at the end:
this is why the groups of four that the reader counts from the start of its block are those that the
writer counted from zero (`SameGroup`). `StoreFillsBufferAlways` is two inclusions: every address is in the buffer because it lies in the block of its
dimension (`PlaceInBlock`), which ends in the buffer, and every place of the buffer has a vector and a dimension, found by dividing the place by the size of
its block (`StoredInBlock`, `BlockIsFull`).

**ScanOptimizer.** `IInv` says that a plan has one of three shapes at any time: the one its query was bound to (`IsOriginal`), that plan
rewritten for an index that `CREATE INDEX` made and that can serve the query (`IsRewritten`), or the rewritten plan as `MergeProjections`
leaves it (`IsMerged`). None of the properties is inductive, since a step of the optimizer looks at the plan only through positions: that `Visit` makes
of the plan exactly `RewrittenPlan`, and no second time, and `MergeProjections` exactly `MergedPlan`, is shown for each
of the four forms of `PlanOf` (`VisitKeeps`, `MergeIs`). From there the argument is about two given plans.
`TypeCorrectness`: each reference leads to a column of the next projection or scan (`BoundLeads`, `RewrittenLeads`).
`DistanceStaysOut`: the select list refers to all columns below it but the distance (`ReferencedIs`).
`AnswersKept` has three steps. What is emitted for a row is the same, with the distance or without (`OutputOfBound`, `OutputOfMerged`), so answers differ only by which rows come and in
which order. The filtered search gets the rows that pass the filters, because the position of the row id in its child is right
(`RowIdFirstIs`, `ScannedIs`; the mutant `RowIdFirst` breaks it), it returns no more candidates than its limit, all of them rows of the index, and
passing ones unless a passing row has no embedding (`CandidatesAre`, `IndexAnswersAre`), and none of its distances fails, because dimensions were matched (`NoFailure`). And if the index
is exact, it has every row of the table, so that the candidates are the passing rows, and its order is the query's: its metric is that of the function, with the embeddings in the
places of the arguments, whichever side the constant is on (`ServedArguments`, `MetricIs`), and distances that the index compares are in the order of those that the query
computes (`OrderKept`, `FirstIs`, `ExactAnswers`). The last part has the hypotheses `IsExact`, `IsOrderedAlike` and `IsFilteredAlike`, and no offset; where one fails the answers
may differ (Observations, and the findings about NULLs and OFFSET).
Assumptions: finitely many rows; embeddings have their column's dimensions (`TableAssumption`); integer options are integers (`OptionAssumption`);
queries are what a binder lets pass (`QueryAssumption`): selected columns are scanned, arguments of a distance are array columns or
constants, a blob has two bytes for each code, there is an order.

**BlobCodec.** Every value has a code and every code fits 16 bits, whatever an undefined cast yields (given that no overflow is taken for a
value of 14 bits: `IntMaxAssumption`); a value that fits is decoded with an error of at most half its scale, the finest possible; the
sign is kept where the cast is defined.

Model-checked only: all liveness (`SearchReturns`, `Ends`), since TLAPS proves no liveness under fairness. Every invariant and every
action property of a passing run is proved, and the safety half of every refinement.

## 5. Not modelled

- Floating-point arithmetic: the quantizer's rounding of values, the SIMD kernels, and the single precision
  quotients that are exact here. Distances are functions of the row, in units of its row group when it is quantized; for a plan, quantization
  makes an index approximate.
- K-means and the rotation: the library is not in the repository. Its outcome is any assignment of embeddings to clusters.
- DuckDB itself: scheduler, table scan, filters, storage and transactions are modelled from their use.
- Concurrent queries: one searcher per row group serves all queries, and the repository's README lists concurrent access as
  unsupported.
- Operators with several children (joins) in the optimizer: its recursion treats each child as it treats the only one.
- Maintenance of the index throws, persistence is a stub, and the info function displays counters.

## 6. Plan

What is left, in the order of its worth:

1. The quantizer's rounding of values on a small fixed-point domain: by how much the distance in units differs from the exact
   one, which together with `Tolerance` would bound the error of a quantized index.
