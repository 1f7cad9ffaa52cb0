--------------------------- MODULE MCScanOptimizer ---------------------------
(***************************************************************************)
(* Four rows and three columns of embeddings of two dimensions, in units   *)
(* of the codec: vec2 has an embedding without a direction, vec3 a NULL.   *)
(* Queries differ from a common one in one or two respects.                *)
(***************************************************************************)
EXTENDS ScanOptimizer, TLC

Array(n) == [id |-> "ARRAY", child |-> "FLOAT", dims |-> n]
MCColumnType == "rowid" :> [id |-> "BIGINT", child |-> "", dims |-> 0] @@
                "id" :> [id |-> "INTEGER", child |-> "", dims |-> 0] @@
                "vec" :> Array(2) @@ "vec2" :> Array(2) @@ "vec3" :> Array(2)

MCEmbedding == "vec" :> << <<10, 20>>, <<20, 10>>, <<30, 0>>, <<-10, 20>> >> @@
               "vec2" :> << <<20, 20>>, <<0, 0>>, <<10, 20>>, <<20, 40>> >> @@
               "vec3" :> << <<10, 20>>, <<30, 0>>, <<>>, <<-10, 20>> >>

Text(s) == [type |-> "VARCHAR", value |-> s]
Number(n) == [type |-> "INTEGER", value |-> n]
MCCreateOptions ==
    {<<>>, "metric" :> Text("L2SQ") @@ "quantization" :> Text("f32") @@ "n_probe" :> Number(0),
     "metric" :> Text("cosine") @@ "quantization" :> Text("f32") @@ "seed" :> Number(42),
     "metric" :> Text("ip"), "metric" :> Number(1), "quantization" :> Text("pq"), "n_probe" :> Number(-1), "m" :> Number(4)}
MCSettings == {<<>>, <<0>>, <<-1>>}

Column(c) == [kind |-> "column", column |-> c]
ArrayConst(values) == [kind |-> "constant", type |-> "ARRAY", bytes |-> 8, data |-> values]
Blob(codes) == [kind |-> "constant", type |-> "BLOB", bytes |-> 2 * Len(codes), data |-> codes]

\* 0.00001 and 0.0002: codes of scales 0 and 1.
Query1 == ArrayConst(<<10, 10>>)
Query2 == Blob(<<Code(2, 0), Code(-1, 1)>>)
TooShort == Blob(<<Code(1, 0)>>)

Base == [select |-> <<"id">>, showDistance |-> FALSE, columns |-> <<"id", "vec", "vec2", "vec3">>,
         fn |-> "array_distance", args |-> <<Column("vec"), Query1>>,
         orders |-> <<[by |-> "distance", type |-> "ASC", nulls |-> "LAST"]>>,
         limit |-> 2, offset |-> 0, filters |-> <<>>, composite |-> Rows, dynamic |-> FALSE]

By(key, type, nulls) == [by |-> key, type |-> type, nulls |-> nulls]
Distances == {<<"array_distance", <<Column("vec"), Query1>> >>, <<"<->", <<Query2, Column("vec")>> >>,
              <<"array_distance", <<TooShort, Column("vec2")>> >>, <<"<=>", <<Column("vec2"), Query2>> >>,
              <<"array_cosine_distance", <<Column("vec"), Query1>> >>, <<"<->", <<Column("vec"), Column("vec2")>> >>,
              <<"array_distance", <<Query1, Column("vec3")>> >>}
Filters == {<<>>, "id" :> {1, 3, 4}, "rowid" :> {1, 2} @@ "id" :> {2, 3}}

MCQueries ==
    {[Base EXCEPT !.fn = d[1], !.args = d[2], !.filters = f, !.showDistance = b] : d \in Distances, f \in Filters, b \in BOOLEAN}
    \cup {[Base EXCEPT !.orders = o] : o \in {<<By("distance", "ASC", "FIRST")>>, <<By("distance", "DESC", "LAST")>>,
            <<By("id", "ASC", "LAST")>>, <<By("distance", "ASC", "LAST"), By("id", "DESC", "LAST")>>}}
    \cup {[Base EXCEPT !.limit = 3 - n, !.offset = n, !.select = <<"vec", "rowid">>, !.columns = <<"rowid", "vec">>] : n \in 0 .. 1}
    \cup {[Base EXCEPT !.args = <<Column("vec3"), Query1>>, !.filters = "id" :> {2, 4}]}
    \cup {[Base EXCEPT !.composite = {2, 3}], [Base EXCEPT !.dynamic = TRUE]}
=============================================================================
