---------------------------- MODULE ScanOptimizer ----------------------------
(***************************************************************************)
(* A session that creates indexes and asks for nearest neighbours: the     *)
(* options of an index, its way into a plan (pdxearch_scan_optimizer.cpp), *)
(* and what the rewritten plan answers in place of the original.           *)
(*                                                                         *)
(* A plan is a chain of operators, from the root to the table scan, and    *)
(* the optimizer's recursion an index into it.  What a plan answers is a   *)
(* set of sequences of rows, since ties may come in any order.             *)
(***************************************************************************)
EXTENDS BlobCodec, SequencesExt

CONSTANTS
    ColumnType,      \* of each column: [id, child, dims]
    Rows,            \* the row ids of the table
    Embedding,       \* of each ARRAY column and row, <<>> for NULL
    Exact,           \* the pruner of the searchers discards nothing that it should keep
    PDX_MAX_DIMS,
    CreateOptions,   \* the options that users give to CREATE INDEX
    Settings,        \* the values of pdxearch_n_probe, <<>> when not set
    Queries,
    MaxIndexes       \* bound: indexes on the table

VARIABLES
    global,          \* compiled with PDX_USE_ALTERNATIVE_GLOBAL_VERSION
    indexes,         \* the table's PDXearch indexes, in the order of their creation
    setting,         \* pdxearch_n_probe
    phase,           \* "idle", "optimize", "merge", "planned", "answered"
    query, plan,
    at,              \* the operator that OptimizeChildren visits
    didUse,          \* did_use_pdxearch_scan
    result

vars == <<global, indexes, setting, phase, query, plan, at, didUse, result>>

----------------------------------------------------------------------------
(* Creating an index                                                       *)

ROW_ID == "rowid"

DISTANCE_METRIC_MAP ==
    [name \in {"l2sq", "L2SQ", "cosine", "COSINE"} |-> IF name \in {"l2sq", "L2SQ"} THEN "l2sq" ELSE "cosine"]
QUANTIZATION_MAP == [name \in {"f32", "u8", "U8"} |-> IF name = "f32" THEN "f32" ELSE "u8"]
DEFAULT_N_PROBE == 24

\* Mutant: names are not looked up.
ValidTypeOnly(k, v) ==
    IF k \in {"metric", "quantization"} THEN v.type = "VARCHAR" ELSE k \in {"n_probe", "seed"} /\ v.type = "INTEGER"

\* The checks of CreatePlan, option by option.
ValidOption(k, v) ==
    \/ k = "metric" /\ v.type = "VARCHAR" /\ v.value \in DOMAIN DISTANCE_METRIC_MAP
    \/ k = "quantization" /\ v.type = "VARCHAR" /\ v.value \in DOMAIN QUANTIZATION_MAP
    \/ k = "n_probe" /\ v.type = "INTEGER" /\ v.value >= 0
    \/ k = "seed" /\ v.type = "INTEGER"

ValidColumn(type) == type.id = "ARRAY" /\ type.child = "FLOAT" /\ type.dims <= PDX_MAX_DIMS

\* The constructor takes a default for a name it does not know.
Mapped(options, k, names, default) ==
    IF k \in DOMAIN options /\ options[k].value \in DOMAIN names THEN names[options[k].value] ELSE default

NewIndex(column, options) ==
    [column       |-> column,
     dims         |-> ColumnType[column].dims,
     metric       |-> Mapped(options, "metric", DISTANCE_METRIC_MAP, "l2sq"),
     quantization |-> Mapped(options, "quantization", QUANTIZATION_MAP, "u8"),
     n_probe      |-> IF "n_probe" \in DOMAIN options THEN options["n_probe"].value ELSE DEFAULT_N_PROBE]

CreateIndex(column, options) ==
    /\ phase = "idle"
    /\ Len(indexes) < MaxIndexes
    /\ \A k \in DOMAIN options : ValidOption(k, options[k])
    /\ ValidColumn(ColumnType[column])
    /\ Rows # {}
    /\ indexes' = Append(indexes, NewIndex(column, options))
    /\ UNCHANGED <<global, setting, phase, query, plan, at, didUse, result>>

\* Read when a query runs, so that it may change after the query was planned.
SetNProbe(value) ==
    /\ phase \in {"idle", "planned"}
    /\ setting' = value
    /\ UNCHANGED <<global, indexes, phase, query, plan, at, didUse, result>>

GetEffectiveNProbe(index) == IF setting # <<>> /\ setting[1] >= 0 THEN setting[1] ELSE index.n_probe

----------------------------------------------------------------------------
(* Plans.  A reference is a position in what the operator below emits.     *)

Ref(i) == [kind |-> "ref", index |-> i]
Dropped == [kind |-> "TINYINT"]

Position(column, columns) == CHOOSE i \in DOMAIN columns :
    columns[i] = column /\ \A j \in 1 .. i - 1 : columns[j] # column

BoundArgument(arg, columns) == IF arg.kind = "column" THEN Ref(Position(arg.column, columns)) ELSE arg

\* A query as DuckDB's own passes leave it (header of the optimizer): the
\* distance is the last expression of the projection below the TOP_N.
Distance(q) ==
    [kind |-> "distance", fn |-> q.fn, args |-> [i \in 1 .. 2 |-> BoundArgument(q.args[i], q.columns)]]

Shown(q) == [i \in DOMAIN q.select |-> Ref(Position(q.select[i], q.columns))]

Key(q, o) == [type |-> o.type, nulls |-> o.nulls, index |-> IF o.by = "distance" THEN Len(q.select) + 1 ELSE 1]

SelectList(q) == [op |-> "PROJECTION", expressions |-> [i \in DOMAIN q.select |-> Ref(i)]]

TopN(q) ==
    [op |-> "TOP_N", orders |-> [i \in DOMAIN q.orders |-> Key(q, q.orders[i])],
     limit |-> q.limit, offset |-> q.offset]

Computation(q) == [op |-> "PROJECTION", expressions |-> Append(Shown(q), Distance(q))]

Filter(q) == [op |-> "FILTER", rows |-> q.composite]

TableScan(q) ==
    [op |-> "GET", function |-> "seq_scan", column_ids |-> q.columns, projection_ids |-> <<>>,
     table_filters |-> q.filters, dynamic_filters |-> q.dynamic, bind_data |-> <<>>]

PlanOf(q) ==
    (IF q.showDistance THEN <<>> ELSE <<SelectList(q)>>)
        \o <<TopN(q), Computation(q)>>
        \o (IF q.composite = Rows THEN <<TableScan(q)>> ELSE <<Filter(q), TableScan(q)>>)

Bind(q) ==
    /\ phase = "idle"
    /\ query' = q /\ plan' = PlanOf(q)
    /\ at' = 1 /\ didUse' = FALSE
    /\ phase' = "optimize"
    /\ UNCHANGED <<global, indexes, setting, result>>

----------------------------------------------------------------------------
(* The optimizer                                                           *)

\* TryOptimize's conditions on the operators.
IsTopNOverTableScan(i) ==
    /\ plan[i].op = "TOP_N"
    /\ Len(plan[i].orders) = 1 /\ plan[i].orders[1].type = "ASC"
    /\ plan[i + 1].op = "PROJECTION"
    /\ plan[i + 2].op = "GET" /\ plan[i + 2].function = "seq_scan"
    /\ ~plan[i + 2].dynamic_filters

Functions(metric) ==
    IF metric = "l2sq" THEN {"array_distance", "<->"} ELSE {"array_cosine_distance", "<=>"}

\* The types that the function matcher lets pass: FLOAT[dims] and BLOB.
ArgumentMatches(arg, columns, dims) ==
    IF arg.kind = "ref" THEN ColumnType[columns[arg.index]] = [id |-> "ARRAY", child |-> "FLOAT", dims |-> dims]
    ELSE arg.type = "BLOB" \/ Len(arg.data) = dims

IsIndexedColumnAndConstant(arg, const, index, columns) ==
    /\ arg.kind = "ref" /\ index.column \in Range(columns)
    /\ arg.index = Position(index.column, columns)
    /\ const.kind = "constant"

ConstantOf(e) == IF e.args[1].kind = "constant" THEN e.args[1] ELSE e.args[2]

Matches(index, e, columns) ==
    /\ e.kind = "distance"
    /\ e.fn \in Functions(index.metric)
    /\ \A i \in 1 .. 2 : ArgumentMatches(e.args[i], columns, index.dims)
    /\ \E i \in 1 .. 2 : IsIndexedColumnAndConstant(e.args[i], e.args[3 - i], index, columns)
    /\ ConstantOf(e).type = "BLOB" => BlobDimensionCount(ConstantOf(e).bytes) = index.dims

EmbeddingOf(const) == IF const.type = "BLOB" THEN DecodeBlob(const.data) ELSE const.data

OrderExpression(i) == plan[i + 1].expressions[plan[i].orders[1].index]

Matching(i) == {n \in DOMAIN indexes : Matches(indexes[n], OrderExpression(i), plan[i + 2].column_ids)}

\* The first index that matches is taken.
BindData(i) == [index |-> indexes[Min(Matching(i))], limit |-> plan[i].limit,
                query_embedding |-> EmbeddingOf(ConstantOf(OrderExpression(i)))]

\* The columns of the scan below a filtered search: those of the filters and the row id.
FilterColumns(get) ==
    LET columns == SetToSeq(DOMAIN get.table_filters)
    IN  IF ROW_ID \in Range(columns) THEN columns ELSE Append(columns, ROW_ID)

\* Mutant: the row id is expected in front of the filters' columns.
RowIdFirst(get) == [get EXCEPT !.column_ids = FilterColumns(get), !.projection_ids = <<1>>]

RowIdScan(get) ==
    LET columns == FilterColumns(get)
    IN  [get EXCEPT !.column_ids = columns, !.projection_ids = <<Position(ROW_ID, columns)>>]

\* Mutant: the column ids are read after the scan was changed.
ScanOfFilterColumns(get, bind) ==
    [op |-> "PDXEARCH_INDEX_FILT_SCAN", column_ids |-> FilterColumns(get), bind_data |-> <<bind>>,
     child |-> RowIdScan(get)]

\* What replaces the table scan: an operator, or another function of the scan.
IndexScanFor(get, bind) ==
    CASE DOMAIN get.table_filters # {} ->
            [op |-> "PDXEARCH_INDEX_FILT_SCAN", column_ids |-> get.column_ids, bind_data |-> <<bind>>,
             child |-> RowIdScan(get)]
      [] DOMAIN get.table_filters = {} /\ global ->
            [get EXCEPT !.function = "pdxearch_index_scan", !.bind_data = <<bind>>]
      [] OTHER ->
            [op |-> "PDXEARCH_INDEX_SCAN", column_ids |-> get.column_ids, bind_data |-> <<bind>>]

\* The TOP_N goes, its projection takes its place.
Rewritten(i) ==
    SubSeq(plan, 1, i - 1) \o <<plan[i + 1], IndexScanFor(plan[i + 2], BindData(i))>>

\* One call of TryOptimize by OptimizeChildren.
Visit ==
    /\ phase = "optimize"
    /\ at <= Len(plan)
    /\ LET optimized == IsTopNOverTableScan(at) /\ Matching(at) # {}
       IN  /\ plan' = IF optimized THEN Rewritten(at) ELSE plan
           /\ didUse' = (didUse \/ optimized)
    /\ at' = at + 1
    /\ UNCHANGED <<global, indexes, setting, phase, query, result>>

Visited ==
    /\ phase = "optimize"
    /\ at > Len(plan)
    /\ phase' = IF didUse THEN "merge" ELSE "planned"
    /\ UNCHANGED <<global, indexes, setting, query, plan, at, didUse, result>>

\* Mutant: only the global variant's scan is looked for.
IsTwoProjectionsOverGet(i) ==
    /\ i + 2 <= Len(plan)
    /\ plan[i].op = "PROJECTION" /\ plan[i + 1].op = "PROJECTION" /\ plan[i + 2].op = "GET"

IsTwoProjectionsOverIndexScan(i) ==
    /\ i + 2 <= Len(plan)
    /\ plan[i].op = "PROJECTION" /\ plan[i + 1].op = "PROJECTION"
    /\ \/ plan[i + 2].op = "GET" /\ plan[i + 2].function = "pdxearch_index_scan"
       \/ plan[i + 2].op = "PDXEARCH_INDEX_FILT_SCAN"

Referenced(expressions) == {e.index : e \in {f \in Range(expressions) : f.kind = "ref"}}

\* Expressions nobody refers to are replaced, to keep the positions of the others.
WithoutUnreferenced(i) ==
    [plan EXCEPT ![i + 1].expressions =
        [j \in DOMAIN @ |-> IF j \in Referenced(plan[i].expressions) THEN @[j] ELSE Dropped]]

MergeProjections ==
    /\ phase = "merge"
    /\ plan' = IF \E i \in DOMAIN plan : IsTwoProjectionsOverIndexScan(i)
               THEN WithoutUnreferenced(CHOOSE i \in DOMAIN plan : IsTwoProjectionsOverIndexScan(i))
               ELSE plan
    /\ phase' = "planned"
    /\ UNCHANGED <<global, indexes, setting, query, at, didUse, result>>

----------------------------------------------------------------------------
(* What a plan answers                                                     *)

Null == <<"NULL">>
Failure == <<"InvalidInputException">>

Value(column, r) == <<column, r>>

Sum(s) == LET sum[n \in 0 .. Len(s)] == IF n = 0 THEN 0 ELSE sum[n - 1] + s[n] IN sum[Len(s)]

Dot(l, r) == Sum([i \in DOMAIN l |-> l[i] * r[i]])

\* The distances grow with these; similarity is squared, to do without the
\* root, and in steps of 1 / Similar.
Similar == 100
SumOfSquares(l, r) == Sum([i \in DOMAIN l |-> (l[i] - r[i]) * (l[i] - r[i])])
Similarity(l, r) ==
    LET squared == (Dot(l, r) * Dot(l, r) * Similar) \div (Dot(l, l) * Dot(r, r))
    IN  IF Dot(l, r) < 0 THEN -squared ELSE squared
IsZero(l) == Dot(l, l) = 0
\* Without a direction the similarity is NaN, which min and max turn to -1.
CosineDistance(l, r) == IF IsZero(l) \/ IsZero(r) THEN 2 * Similar ELSE Similar - Similarity(l, r)

DistanceOf(fn, l, r) ==
    CASE l = <<>> \/ r = <<>> -> Null
      [] l # <<>> /\ r # <<>> /\ Len(l) # Len(r) -> Failure
      [] l # <<>> /\ r # <<>> /\ Len(l) = Len(r) /\ fn \in Functions("l2sq") -> <<"distance", SumOfSquares(l, r)>>
      [] OTHER -> <<"distance", CosineDistance(l, r)>>

\* The index compares with the squared distance of normalized embeddings, and
\* leaves an embedding without a direction at the origin, hence at distance 1.
IndexDistance(index, l, r) ==
    CASE index.metric = "l2sq" -> SumOfSquares(l, r)
      [] index.metric = "cosine" /\ ~IsZero(l) /\ ~IsZero(r) -> Similar - Similarity(l, r)
      [] index.metric = "cosine" /\ IsZero(l) /\ IsZero(r) -> 0
      [] OTHER -> Similar - Similar \div 4

Evaluated(e, below) ==
    LET argument(a) == IF a.kind = "ref" THEN Embedding[below[a.index][1]][below[a.index][2]] ELSE EmbeddingOf(a)
    IN  CASE e.kind = "ref" -> below[e.index]
          [] e.kind = "distance" -> DistanceOf(e.fn, argument(e.args[1]), argument(e.args[2]))
          [] OTHER -> <<"TINYINT">>

\* What an operator emits for row r on top of what the one below it emits.
Emits(operator, r, below) ==
    CASE operator.op = "PROJECTION" ->
            [k \in DOMAIN operator.expressions |-> Evaluated(operator.expressions[k], below)]
      [] operator.op \in {"TOP_N", "FILTER"} -> below
      [] OTHER -> [k \in DOMAIN operator.column_ids |-> Value(operator.column_ids[k], r)]

\* What each operator of plan p emits for row r.
Output(p, r) == LET emitted[i \in DOMAIN p] == Emits(p[i], r, emitted[i + 1]) IN emitted

Comes(o, a, b) ==   \* a comes before b by the key o
    IF Null \in {a, b} THEN a # b /\ (o.nulls = "FIRST") = (a = Null)
    ELSE IF o.type = "ASC" THEN a[2] < b[2] ELSE a[2] > b[2]

ComesFirst(orders, x, y) ==
    \E i \in DOMAIN orders :
        /\ Comes(orders[i], x[orders[i].index], y[orders[i].index])
        /\ \A j \in 1 .. i - 1 : x[orders[j].index] = y[orders[j].index]

Sorted(s, precedes) == \A i, j \in DOMAIN s : i < j => <<s[j], s[i]>> \notin precedes

\* The rows in front of offset + limit, without those in front of offset.
Window(s, limit, offset) ==
    SubSeq(s, offset + 1, IF Len(s) < offset + limit THEN Len(s) ELSE offset + limit)

Passing(filters) == {r \in Rows : \A c \in DOMAIN filters : r \in filters[c]}

\* The row ids that the sink passes on to the index.
Indexed(index) == {r \in Rows : Embedding[index.column][r] # <<>>}

\* With an exact pruner, without quantization and with all clusters probed, the
\* answer is exact, row group by row group (IndexScan.tla, FilteredScan.tla).
\* Behind a NULL of its chunk a row is stored with the embedding of another one
\* (EmbeddingsAligned of IndexCreate.tla), hence found at any distance.
IsExact(index) ==
    /\ Exact /\ ~global /\ index.quantization = "f32" /\ GetEffectiveNProbe(index) = 0
    /\ Indexed(index) = Rows

\* The sets of rows that are searched.  A row without an embedding has the
\* metadata of another place, and marks that in place of its own
\* (PredicateMarksPassing of IndexCreate.tla).
Candidates(index, passing) ==
    {(passing \cap Indexed(index)) \cup marked :
        marked \in {m \in SUBSET Indexed(index) : Cardinality(m) <= Cardinality(passing \ Indexed(index))}}

\* The nearest of the candidates in an index that is exact, any of them otherwise.
NearestOf(bind, candidates) ==
    LET index == bind.index
        distance == [r \in candidates |-> IndexDistance(index, Embedding[index.column][r], bind.query_embedding)]
        nearer == {p \in candidates \X candidates : distance[p[1]] < distance[p[2]]}
    IN  IF IsExact(index)
        THEN {Window(s, bind.limit, 0) : s \in {t \in SetToSeqs(candidates) : Sorted(t, nearer)}}
        ELSE UNION {{Window(s, n, 0) : s \in SetToSeqs(candidates)} : n \in 0 .. bind.limit}

IndexAnswers(bind, passing) ==
    UNION {NearestOf(bind, candidates) : candidates \in Candidates(bind.index, passing)}

\* The rows that a scan emits.  The filtered search takes the first column of
\* what its child emits for row ids.
Scanned(scan) ==
    CASE scan.op = "GET" /\ scan.function = "seq_scan" -> {SetToSeq(Passing(scan.table_filters))}
      [] scan.op = "PDXEARCH_INDEX_FILT_SCAN" ->
            LET first == scan.child.column_ids[scan.child.projection_ids[1]]
            IN  IndexAnswers(scan.bind_data[1], {r \in Passing(scan.child.table_filters) : first = ROW_ID})
      [] OTHER -> IndexAnswers(scan.bind_data[1], Rows)

Kept(s, rows) == SelectSeq(s, LAMBDA r : r \in rows)

\* The sequences of rows that an operator may pass on, given those that the one
\* below it may, and what it emits for a row.
PassesOn(operator, emitted, below) ==
    CASE operator.op = "PROJECTION" -> below
      [] operator.op = "FILTER" -> {Kept(s, operator.rows) : s \in below}
      [] operator.op = "TOP_N" ->
            LET first == {q \in Rows \X Rows : ComesFirst(operator.orders, emitted[q[1]], emitted[q[2]])}
            IN  UNION {{Window(t, operator.limit, operator.offset) :
                            t \in {u \in SetToSeqs(Range(s)) : Sorted(u, first)}} : s \in below}
      [] OTHER -> Scanned(operator)

Streams(p) ==
    LET stream[i \in DOMAIN p] == PassesOn(p[i], [r \in Rows |-> Output(p, r)[i]], stream[i + 1]) IN stream

\* A distance of different dimensions ends the query.
Fails(p) ==
    \E i \in DOMAIN p :
        /\ p[i].op = "PROJECTION" /\ \E e \in Range(p[i].expressions) : e.kind = "distance"
        /\ \E s \in Streams(p)[i] : \E r \in Range(s) : Failure \in Range(Output(p, r)[i])

Answers(p) == IF Fails(p) THEN {<<Failure>>}
              ELSE {[k \in DOMAIN s |-> Output(p, s[k])[1]] : s \in Streams(p)[1]}

Execute ==
    /\ phase = "planned"
    /\ result' \in Answers(plan)
    /\ phase' = "answered"
    /\ UNCHANGED <<global, indexes, setting, query, plan, at, didUse>>

Close ==
    /\ phase = "answered"
    /\ phase' = "idle"
    /\ query' = <<>> /\ plan' = <<>> /\ result' = <<>>
    /\ at' = 0 /\ didUse' = FALSE
    /\ UNCHANGED <<global, indexes, setting>>

Init ==
    /\ global \in BOOLEAN
    /\ indexes = <<>> /\ setting = <<>>
    /\ phase = "idle"
    /\ query = <<>> /\ plan = <<>> /\ result = <<>>
    /\ at = 0 /\ didUse = FALSE

Next ==
    \/ \E c \in DOMAIN ColumnType, o \in CreateOptions : CreateIndex(c, o)
    \/ \E v \in Settings : SetNProbe(v)
    \/ \E q \in Queries : Bind(q)
    \/ Visit \/ Visited \/ MergeProjections
    \/ Execute \/ Close

Spec == Init /\ [][Next]_vars

----------------------------------------------------------------------------
(* Properties                                                              *)

Scan == plan[Len(plan)]
UsesIndex == plan # <<>> /\ Scan.bind_data # <<>>

\* The columns that operator i of the plan emits: as many as the nearest
\* projection or scan has.
Width(i) ==
    LET wide == {j \in i .. Len(plan) : plan[j].op \notin {"TOP_N", "FILTER"}}
    IN  IF plan[Min(wide)].op = "PROJECTION" THEN Len(plan[Min(wide)].expressions)
        ELSE Len(plan[Min(wide)].column_ids)

\* The positions that an expression refers to, in the arguments of a distance too.
ReferencesOf(e) ==
    CASE e.kind = "ref" -> {e.index}
      [] e.kind = "distance" -> {a.index : a \in {b \in Range(e.args) : b.kind = "ref"}}
      [] OTHER -> {}

\* Every reference in a plan leads to something the operator below emits, in
\* every state between two steps of the optimizer.
TypeOK ==
    /\ phase \in {"idle", "optimize", "merge", "planned", "answered"}
    /\ \A i \in DOMAIN indexes : indexes[i].n_probe \in Nat /\ indexes[i].dims \in 1 .. PDX_MAX_DIMS
    /\ at \in 0 .. Len(plan) + 1
    /\ \A i \in 1 .. Len(plan) - 1 :
          /\ plan[i].op = "PROJECTION" =>
                \A e \in Range(plan[i].expressions) : ReferencesOf(e) \subseteq 1 .. Width(i + 1)
          /\ plan[i].op = "TOP_N" => \A k \in DOMAIN plan[i].orders : plan[i].orders[k].index \in 1 .. Width(i + 1)

\* Queries whose filters the scan below the search applies as the plan did, as
\* far as the repository claims: it disables its test of a filter on the row id
\* (index_filtered_scan_optimizer.test:142).
IsFilteredAlike(q) == ROW_ID \notin DOMAIN q.filters

\* Queries that the index orders as they ask: an embedding without a direction
\* has another distance there.
IsOrderedAlike(index) ==
    index.metric = "cosine" => \A r \in Indexed(index) : ~IsZero(Embedding[index.column][r])

\* TryOptimize and MergeProjections change how a query is answered, not what is
\* answered: exactly the same rows in the same order and columns if the index
\* is exact; always rows of the index in the query's columns, not more than its
\* limit, and rows that pass its filters unless one that does has no embedding.
AnswerKept ==
    phase = "answered" =>
        IF ~UsesIndex THEN result \in Answers(PlanOf(query))
        ELSE LET index == Scan.bind_data[1].index
                 allowed == IF IsFilteredAlike(query) /\ Passing(query.filters) \subseteq Indexed(index)
                            THEN Passing(query.filters) ELSE Indexed(index)
             IN  /\ IsExact(index) /\ IsOrderedAlike(index) /\ IsFilteredAlike(query) /\ query.offset = 0 =>
                        result \in Answers(PlanOf(query))
                 /\ Len(result) <= query.limit
                 /\ \A k \in DOMAIN result : \E r \in allowed : result[k] = Output(PlanOf(query), r)[1]

\* What CreatePlan lets pass, the constructor takes as it was meant: no option
\* is replaced by a default (pdxearch_index.cpp:28-29).
CreatedAsAsked ==
    [][\A c \in DOMAIN ColumnType, o \in CreateOptions : CreateIndex(c, o) =>
        LET index == indexes'[Len(indexes')]
        IN  /\ "metric" \in DOMAIN o => /\ o["metric"].value \in DOMAIN DISTANCE_METRIC_MAP
                                        /\ index.metric = DISTANCE_METRIC_MAP[o["metric"].value]
            /\ "quantization" \in DOMAIN o => /\ o["quantization"].value \in DOMAIN QUANTIZATION_MAP
                                              /\ index.quantization = QUANTIZATION_MAP[o["quantization"].value]
            /\ index.n_probe \in Nat /\ ColumnType[c].id = "ARRAY"]_vars

\* A distance that nothing above refers to is not computed again on top of the
\* index (lines 48-85, 114-160).  The parallel operator without filters is not
\* among the scans that MergeProjections looks for.
DistanceNotComputedTwice ==
    phase \in {"planned", "answered"} /\ UsesIndex /\ Scan.op # "PDXEARCH_INDEX_SCAN" /\ ~query.showDistance =>
        \A i \in DOMAIN plan : plan[i].op = "PROJECTION" =>
            \A e \in Range(plan[i].expressions) : e.kind # "distance"

\* The optimizer "optimizes various vector similarity search queries"
\* (pdxearch_scan_optimizer.cpp:29); it does not change what they answer, their
\* OFFSET included.
OffsetKept ==
    phase = "answered" /\ UsesIndex /\ query.offset > 0 =>
        LET index == Scan.bind_data[1].index
        IN  IsExact(index) /\ IsOrderedAlike(index) /\ IsFilteredAlike(query) => result \in Answers(PlanOf(query))

----------------------------------------------------------------------------
ASSUME TableAssumption ==
    /\ IsFiniteSet(Rows)
    /\ Exact \in BOOLEAN
    /\ PDX_MAX_DIMS \in Nat
    /\ \A c \in DOMAIN ColumnType :
          ColumnType[c].id = "ARRAY" =>
              /\ ColumnType[c].dims \in Nat \ {0}
              /\ Embedding[c] \in [Rows -> {<<>>} \cup [1 .. ColumnType[c].dims -> Int]]

ASSUME OptionAssumption ==
    \A o \in CreateOptions : \A k \in DOMAIN o : o[k].type = "INTEGER" => o[k].value \in Int

\* Queries as the binder lets them pass: columns that they refer to are scanned, and arguments
\* of a distance are embeddings.
IsArgument(arg, columns) ==
    \/ arg.kind = "column" /\ arg.column \in Range(columns) /\ ColumnType[arg.column].id = "ARRAY"
    \/ arg.kind = "constant" /\ arg.type = "ARRAY" /\ arg.data \in Seq(Int)
    \/ arg.kind = "constant" /\ arg.type = "BLOB" /\ arg.data \in Seq(Int) /\ arg.bytes = 2 * Len(arg.data)

ASSUME QueryAssumption ==
    \A q \in Queries :
        /\ q.columns \in Seq(DOMAIN ColumnType) /\ q.select \in Seq(Range(q.columns))
        /\ \A i \in 1 .. 2 : IsArgument(q.args[i], q.columns)
        /\ q.orders # <<>>
        /\ q.orders \in Seq([by : STRING, type : {"ASC", "DESC"}, nulls : {"FIRST", "LAST"}])
        /\ q.limit \in Nat /\ q.offset \in Nat
        /\ IsFiniteSet(DOMAIN q.filters)
        /\ q.showDistance \in BOOLEAN /\ q.dynamic \in BOOLEAN
=============================================================================
