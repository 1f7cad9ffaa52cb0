------------------------- MODULE ScanOptimizer_proofs -------------------------
(***************************************************************************)
(* What the optimizer may not change about a query, for every table, query *)
(* and creation option: proofs about ScanOptimizer and about the encoding  *)
(* of query embeddings that it uses.                                       *)
(***************************************************************************)
EXTENDS ScanOptimizer, FiniteSetTheorems, FunctionTheorems, NaturalsInduction, SequenceTheorems, TLAPS

(***************************************************************************)
(* The encoding of query embeddings, for every value.                      *)
(***************************************************************************)

Scales == {10, 100, 1000, 10000}

\* The distance that rounding to a multiple of s leaves is at most half of s.
LEMMA RoundingError ==
    ASSUME NEW v \in Int, NEW s \in Scales
    PROVE  /\ RoundQuotient(v, s) \in Int
           /\ 2 * (s * RoundQuotient(v, s) - v) <= s
           /\ 2 * (v - s * RoundQuotient(v, s)) <= s
<1>1. CASE s = 10
    BY <1>1 DEF RoundQuotient
<1>2. CASE s = 100
    BY <1>2 DEF RoundQuotient
<1>3. CASE s = 1000
    BY <1>3 DEF RoundQuotient
<1>4. CASE s = 10000
    BY <1>4 DEF RoundQuotient
<1> QED
    BY <1>1, <1>2, <1>3, <1>4 DEF Scales

\* Rounding keeps the sign.
LEMMA RoundingSign ==
    ASSUME NEW v \in Int, NEW s \in Scales
    PROVE  /\ v >= 0 => RoundQuotient(v, s) >= 0
           /\ v <= 0 => RoundQuotient(v, s) <= 0
<1>1. CASE s = 10
    BY <1>1 DEF RoundQuotient
<1>2. CASE s = 100
    BY <1>2 DEF RoundQuotient
<1>3. CASE s = 1000
    BY <1>3 DEF RoundQuotient
<1>4. CASE s = 10000
    BY <1>4 DEF RoundQuotient
<1> QED
    BY <1>1, <1>2, <1>3, <1>4 DEF Scales

LEMMA ScaleInScales == ASSUME NEW x \in 0 .. 3 PROVE Scale[x] \in Scales
    BY DEF Scale, Scales

\* The two parts of a code can be told apart again.
LEMMA CodeParts ==
    ASSUME NEW q \in Int, NEW x \in 0 .. 3
    PROVE  Code(q, x) \in Int /\ ScaleOf(Code(q, x)) = x /\ Code(q, x) \div 4 = q
    BY DEF Code, ScaleOf

\* A cast that is undefined never yields a value that fits 14 bits.
LEMMA CastThatFits ==
    ASSUME NEW n \in Int
    PROVE  /\ \A q \in Casts(n) : q \in Int
           /\ IntMin <= n /\ n <= IntMax => Casts(n) = {n}
           /\ (\A q \in Casts(n) : QMin <= q /\ q <= QMax) => QMin <= n /\ n <= QMax
<1>1. IntMax \in Int /\ IntMin \in Int /\ IntMax > QMax
    BY IntMaxAssumption DEF IntMin
<1>2. CASE IntMin <= n /\ n <= IntMax
    BY <1>1, <1>2 DEF Casts
<1>3. CASE ~(IntMin <= n /\ n <= IntMax)
  <2>1. Casts(n) = {IntMin, IntMax}
      BY <1>3 DEF Casts
  <2>2. ~(QMin <= IntMax /\ IntMax <= QMax)
      BY <1>1 DEF QMin, QMax
  <2> QED
      BY <1>1, <1>3, <2>1, <2>2
<1> QED
    BY <1>2, <1>3

\* The two ways in which a code comes about.
LEMMA CodeChosen ==
    ASSUME NEW v \in Int, NEW c \in Encodings(v)
    PROVE  \/ \E x \in 0 .. 3 : /\ FirstFit(v, x)
                                /\ c = Code(RoundQuotient(v, Scale[x]), x)
                                /\ QMin <= RoundQuotient(v, Scale[x])
                                /\ RoundQuotient(v, Scale[x]) <= QMax
           \/ /\ \A x \in 0 .. 3 : ~FitsAt(v, x)
              /\ \E q \in Quantized(v, 3) : c = Code(Clamp(q), 3)
<1>1. CASE \E x \in 0 .. 3 : FitsAt(v, x)
  <2>1. PICK x \in 0 .. 3 : FirstFit(v, x) /\ c = Code(RoundQuotient(v, Scale[x]), x)
      BY <1>1 DEF Encodings
  <2>2. RoundQuotient(v, Scale[x]) \in Int
      BY ScaleInScales, RoundingError
  <2>3. QMin <= RoundQuotient(v, Scale[x]) /\ RoundQuotient(v, Scale[x]) <= QMax
      BY <2>1, <2>2, CastThatFits DEF FirstFit, FitsAt, Quantized
  <2> QED
      BY <2>1, <2>3
<1>2. CASE \A x \in 0 .. 3 : ~FitsAt(v, x)
    BY <1>2 DEF Encodings
<1> QED
    BY <1>1, <1>2

LEMMA ClampRange == ASSUME NEW q \in Int PROVE Clamp(q) \in Int /\ QMin <= Clamp(q) /\ Clamp(q) <= QMax
    BY DEF Clamp, QMin, QMax

\* Every value has a code, and every code fits the 16 bits it is stored in
\* (pdxearch_blob_codec.hpp:27, 39).
THEOREM CodesFit16Bits ==
    ASSUME NEW v \in Int
    PROVE  Encodings(v) # {} /\ \A c \in Encodings(v) : -32768 <= c /\ c <= 32767
<1>1. \A c \in Encodings(v) : -32768 <= c /\ c <= 32767
  <2>1. SUFFICES ASSUME NEW c \in Encodings(v) PROVE -32768 <= c /\ c <= 32767
      OBVIOUS
  <2>2. PICK q \in Int, x \in 0 .. 3 : c = Code(q, x) /\ QMin <= q /\ q <= QMax
    <3>1. \A q \in Quantized(v, 3) : Clamp(q) \in Int /\ QMin <= Clamp(q) /\ Clamp(q) <= QMax
        BY ScaleInScales, RoundingError, CastThatFits, ClampRange DEF Quantized
    <3>2. \A x \in 0 .. 3 : RoundQuotient(v, Scale[x]) \in Int
        BY ScaleInScales, RoundingError
    <3>3. CASE \E q \in Quantized(v, 3) : c = Code(Clamp(q), 3)
        BY <3>1, <3>3
    <3> QED
        BY CodeChosen, <3>2, <3>3
  <2> QED
      BY <2>2 DEF Code, QMin, QMax
<1>2. Encodings(v) # {}
  <2>1. CASE \E x \in 0 .. 3 : FitsAt(v, x)
    <3>1. \E y \in 0 .. 3 : FirstFit(v, y)
      <4>1. CASE FitsAt(v, 0)
          BY <4>1 DEF FirstFit
      <4>2. CASE FitsAt(v, 1) /\ ~FitsAt(v, 0)
        <5>1. \A y \in 0 .. 1 - 1 : y = 0
            OBVIOUS
        <5> QED
            BY <4>2, <5>1 DEF FirstFit
      <4>3. CASE FitsAt(v, 2) /\ ~FitsAt(v, 1) /\ ~FitsAt(v, 0)
        <5>1. \A y \in 0 .. 2 - 1 : y = 0 \/ y = 1
            OBVIOUS
        <5> QED
            BY <4>3, <5>1 DEF FirstFit
      <4>4. CASE FitsAt(v, 3) /\ ~FitsAt(v, 2) /\ ~FitsAt(v, 1) /\ ~FitsAt(v, 0)
        <5>1. \A y \in 0 .. 3 - 1 : y = 0 \/ y = 1 \/ y = 2
            OBVIOUS
        <5> QED
            BY <4>4, <5>1 DEF FirstFit
      <4>5. \E x \in {0, 1, 2, 3} : FitsAt(v, x)
        <5>1. \A x \in 0 .. 3 : x \in {0, 1, 2, 3}
            OBVIOUS
        <5> QED
            BY <2>1, <5>1
      <4> QED
          BY <4>1, <4>2, <4>3, <4>4, <4>5
    <3> QED
        BY <2>1, <3>1 DEF Encodings
  <2>2. CASE \A x \in 0 .. 3 : ~FitsAt(v, x)
    <3>1. Quantized(v, 3) # {}
        BY DEF Quantized, Casts
    <3> QED
        BY <2>2, <3>1 DEF Encodings
  <2> QED
      BY <2>1, <2>2
<1> QED
    BY <1>1, <1>2

\* A value that fits 14 bits at some scale is decoded with an error of at most
\* half of that scale, and the scale is the finest at which it fits
\* (pdxearch_blob_codec.hpp:17: "pick smallest X").
THEOREM RoundTrip ==
    ASSUME NEW v \in Int, \E x \in 0 .. 3 : FitsAt(v, x), NEW c \in Encodings(v)
    PROVE  /\ FirstFit(v, ScaleOf(c))
           /\ ScaleOf(c) \in 0 .. 3
           /\ 2 * (Decode(c) - v) <= Scale[ScaleOf(c)]
           /\ 2 * (v - Decode(c)) <= Scale[ScaleOf(c)]
<1>1. PICK x \in 0 .. 3 : FirstFit(v, x) /\ c = Code(RoundQuotient(v, Scale[x]), x)
    BY CodeChosen
<1>2. /\ RoundQuotient(v, Scale[x]) \in Int
      /\ 2 * (Scale[x] * RoundQuotient(v, Scale[x]) - v) <= Scale[x]
      /\ 2 * (v - Scale[x] * RoundQuotient(v, Scale[x])) <= Scale[x]
    BY ScaleInScales, RoundingError
<1>3. ScaleOf(c) = x /\ c \div 4 = RoundQuotient(v, Scale[x])
    BY <1>1, <1>2, CodeParts
<1>4. Scale[x] \in Int
    BY ScaleInScales DEF Scales
<1>5. Decode(c) = Scale[x] * RoundQuotient(v, Scale[x])
  <2>1. Decode(c) = RoundQuotient(v, Scale[x]) * Scale[x]
      BY <1>3 DEF Decode
  <2>2. \A a, b \in Int : a * b = b * a
      OBVIOUS
  <2> QED
      BY <1>2, <1>4, <2>1, <2>2
<1> QED
    BY <1>1, <1>2, <1>3, <1>5

\* Values beyond the largest scale are cut off at its ends and keep their sign,
\* as long as the cast is defined (pdxearch_blob_codec.hpp:30-36).
THEOREM SignKept ==
    ASSUME NEW v \in Int, IntMin <= RoundQuotient(v, Scale[3]), RoundQuotient(v, Scale[3]) <= IntMax, NEW c \in Encodings(v)
    PROVE  (v >= 0 => Decode(c) >= 0) /\ (v <= 0 => Decode(c) <= 0)
<1>1. PICK q \in Int, x \in 0 .. 3 : /\ c = Code(q, x)
                                     /\ v >= 0 => q >= 0
                                     /\ v <= 0 => q <= 0
  <2>1. CASE \E x \in 0 .. 3 : c = Code(RoundQuotient(v, Scale[x]), x)
      BY <2>1, ScaleInScales, RoundingError, RoundingSign
  <2>2. CASE \E q \in Quantized(v, 3) : c = Code(Clamp(q), 3)
    <3>1. /\ RoundQuotient(v, Scale[3]) \in Int
          /\ v >= 0 => RoundQuotient(v, Scale[3]) >= 0
          /\ v <= 0 => RoundQuotient(v, Scale[3]) <= 0
        BY ScaleInScales, RoundingError, RoundingSign
    <3>2. c = Code(Clamp(RoundQuotient(v, Scale[3])), 3)
        BY <2>2, <3>1, CastThatFits DEF Quantized
    <3>3. /\ Clamp(RoundQuotient(v, Scale[3])) \in Int
          /\ v >= 0 => Clamp(RoundQuotient(v, Scale[3])) >= 0
          /\ v <= 0 => Clamp(RoundQuotient(v, Scale[3])) <= 0
        BY <3>1, ClampRange DEF Clamp, QMin, QMax
    <3> QED
        BY <3>2, <3>3
  <2> QED
      BY CodeChosen, <2>1, <2>2
<1>2. Decode(c) = q * Scale[x]
    BY <1>1, CodeParts DEF Decode
<1>3. /\ q >= 0 => q * Scale[x] >= 0
      /\ q <= 0 => q * Scale[x] <= 0
    BY ScaleInScales DEF Scales
<1> QED
    BY <1>1, <1>2, <1>3

-------------------------------------------------------------------------------
(***************************************************************************)
(* The least position in a sequence, the chains that the optimizer looks   *)
(* for, and the shapes that a plan can have before it.                     *)
(***************************************************************************)

\* A set of numbers that has any has a least one.
LEMMA LeastNumber ==
  ASSUME NEW S \in SUBSET Nat, S # {}
  PROVE  Min(S) \in S /\ \A n \in S : Min(S) <= n
<1> DEFINE less == {ss \in Nat \X Nat : ss[1] < ss[2]}
<1>1. IsWellFoundedOn(less, Nat)
  BY NatLessThanWellFounded DEF OpToRel
<1>2. PICK n \in S : \A m \in S : <<m, n>> \notin less
  <2> HIDE DEF less
  <2> QED BY <1>1, WFMin
<1>3. ASSUME NEW m \in S PROVE n <= m
  <2>1. <<m, n>> \in Nat \X Nat
    OBVIOUS
  <2>2. ~ (m < n)
    BY <1>2, <2>1
  <2> QED BY <2>2
<1> QED BY <1>3 DEF Min

\* The first occurrence of a column is one.
LEMMA PositionIs ==
  ASSUME NEW C, NEW columns \in Seq(C), NEW column \in Range(columns)
  PROVE  Position(column, columns) \in DOMAIN columns /\ columns[Position(column, columns)] = column
<1> DEFINE places == {i \in DOMAIN columns : columns[i] = column}
<1>1. places \in SUBSET Nat /\ places # {}
  BY DEF Range
<1>2. Min(places) \in places /\ \A i \in places : Min(places) <= i
  BY <1>1, LeastNumber
<1>3. ASSUME NEW j \in 1 .. Min(places) - 1 PROVE columns[j] # column
  <2>1. Min(places) \in Nat /\ Min(places) <= Len(columns) /\ Len(columns) \in Nat
    BY <1>2
  <2>2. j \in DOMAIN columns /\ j \in Nat /\ ~ (Min(places) <= j)
    BY <2>1
  <2> QED BY <1>2, <2>2
<1>4. Min(places) \in DOMAIN columns /\ columns[Min(places)] = column
  BY <1>2
<1> HIDE DEF places
<1> QED BY <1>3, <1>4 DEF Position

\* Plans are chains of a few operators: <<>> followed by two.
LEMMA Chain0And2 ==
  ASSUME NEW a, NEW b
  PROVE  <<>> \o <<a, b>> = <<a, b>>
<1> DEFINE S == {a, b}
         s == <<>> \o <<a, b>>
<1>1. <<>> \in Seq(S) /\ <<a, b>> \in Seq(S)
  OBVIOUS
<1> HIDE DEF S
<1>2. /\ s \in Seq(S) /\ Len(s) = 2
      /\ s[1] = a /\ s[2] = b
  BY <1>1, ConcatProperties
<1> HIDE DEF s
<1>3. s = <<a, b>>
  BY <1>2
<1> QED BY <1>3 DEF s

\* <<a>> followed by <<b, c>>.
LEMMA Chain1And2 ==
  ASSUME NEW a, NEW b, NEW c
  PROVE  <<a>> \o <<b, c>> = <<a, b, c>>
<1> DEFINE S == {a, b, c}
         s == <<a>> \o <<b, c>>
<1>1. <<a>> \in Seq(S) /\ <<b, c>> \in Seq(S)
  OBVIOUS
<1> HIDE DEF S
<1>2. /\ s \in Seq(S) /\ Len(s) = 3
      /\ s[1] = a /\ s[2] = b /\ s[3] = c
  BY <1>1, ConcatProperties
<1> HIDE DEF s
<1>3. s = <<a, b, c>>
  BY <1>2
<1> QED BY <1>3 DEF s

\* <<a, b>> followed by <<c>>.
LEMMA Chain2And1 ==
  ASSUME NEW a, NEW b, NEW c
  PROVE  <<a, b>> \o <<c>> = <<a, b, c>>
<1> DEFINE S == {a, b, c}
         s == <<a, b>> \o <<c>>
<1>1. <<a, b>> \in Seq(S) /\ <<c>> \in Seq(S)
  OBVIOUS
<1> HIDE DEF S
<1>2. /\ s \in Seq(S) /\ Len(s) = 3
      /\ s[1] = a /\ s[2] = b /\ s[3] = c
  BY <1>1, ConcatProperties
<1> HIDE DEF s
<1>3. s = <<a, b, c>>
  BY <1>2
<1> QED BY <1>3 DEF s

\* <<a, b>> followed by <<c, d>>.
LEMMA Chain2And2 ==
  ASSUME NEW a, NEW b, NEW c, NEW d
  PROVE  <<a, b>> \o <<c, d>> = <<a, b, c, d>>
<1> DEFINE S == {a, b, c, d}
         s == <<a, b>> \o <<c, d>>
<1>1. <<a, b>> \in Seq(S) /\ <<c, d>> \in Seq(S)
  OBVIOUS
<1> HIDE DEF S
<1>2. /\ s \in Seq(S) /\ Len(s) = 4
      /\ s[1] = a /\ s[2] = b /\ s[3] = c /\ s[4] = d
  BY <1>1, ConcatProperties
<1> HIDE DEF s
<1>3. s = <<a, b, c, d>>
  BY <1>2
<1> QED BY <1>3 DEF s

\* <<a, b, c>> followed by <<d>>.
LEMMA Chain3And1 ==
  ASSUME NEW a, NEW b, NEW c, NEW d
  PROVE  <<a, b, c>> \o <<d>> = <<a, b, c, d>>
<1> DEFINE S == {a, b, c, d}
         s == <<a, b, c>> \o <<d>>
<1>1. <<a, b, c>> \in Seq(S) /\ <<d>> \in Seq(S)
  OBVIOUS
<1> HIDE DEF S
<1>2. /\ s \in Seq(S) /\ Len(s) = 4
      /\ s[1] = a /\ s[2] = b /\ s[3] = c /\ s[4] = d
  BY <1>1, ConcatProperties
<1> HIDE DEF s
<1>3. s = <<a, b, c, d>>
  BY <1>2
<1> QED BY <1>3 DEF s

\* <<a, b, c>> followed by <<d, e>>.
LEMMA Chain3And2 ==
  ASSUME NEW a, NEW b, NEW c, NEW d, NEW e
  PROVE  <<a, b, c>> \o <<d, e>> = <<a, b, c, d, e>>
<1> DEFINE S == {a, b, c, d, e}
         s == <<a, b, c>> \o <<d, e>>
<1>1. <<a, b, c>> \in Seq(S) /\ <<d, e>> \in Seq(S)
  OBVIOUS
<1> HIDE DEF S
<1>2. /\ s \in Seq(S) /\ Len(s) = 5
      /\ s[1] = a /\ s[2] = b /\ s[3] = c /\ s[4] = d /\ s[5] = e
  BY <1>1, ConcatProperties
<1> HIDE DEF s
<1>3. s = <<a, b, c, d, e>>
  BY <1>2
<1> QED BY <1>3 DEF s

\* The plan of a query.
LEMMA PlanShapes ==
  ASSUME NEW q, q.showDistance \in BOOLEAN
  PROVE  /\ q.showDistance /\ q.composite = Rows =>
                PlanOf(q) = <<TopN(q), Computation(q), TableScan(q)>>
         /\ q.showDistance /\ q.composite # Rows =>
                PlanOf(q) = <<TopN(q), Computation(q), Filter(q), TableScan(q)>>
         /\ ~q.showDistance /\ q.composite = Rows =>
                PlanOf(q) = <<SelectList(q), TopN(q), Computation(q), TableScan(q)>>
         /\ ~q.showDistance /\ q.composite # Rows =>
                PlanOf(q) = <<SelectList(q), TopN(q), Computation(q), Filter(q), TableScan(q)>>
<1>1. CASE q.showDistance /\ q.composite = Rows
  <2>1. PlanOf(q) = <<>> \o <<TopN(q), Computation(q)>> \o <<TableScan(q)>>
    BY <1>1 DEF PlanOf
  <2>2. <<>> \o <<TopN(q), Computation(q)>> = <<TopN(q), Computation(q)>>
    BY Chain0And2
  <2>3. <<TopN(q), Computation(q)>> \o <<TableScan(q)>> = <<TopN(q), Computation(q), TableScan(q)>>
    BY Chain2And1
  <2> QED BY <1>1, <2>1, <2>2, <2>3
<1>2. CASE q.showDistance /\ q.composite # Rows
  <2>1. PlanOf(q) = <<>> \o <<TopN(q), Computation(q)>> \o <<Filter(q), TableScan(q)>>
    BY <1>2 DEF PlanOf
  <2>2. <<>> \o <<TopN(q), Computation(q)>> = <<TopN(q), Computation(q)>>
    BY Chain0And2
  <2>3. <<TopN(q), Computation(q)>> \o <<Filter(q), TableScan(q)>> = <<TopN(q), Computation(q), Filter(q), TableScan(q)>>
    BY Chain2And2
  <2> QED BY <1>2, <2>1, <2>2, <2>3
<1>3. CASE ~q.showDistance /\ q.composite = Rows
  <2>1. PlanOf(q) = <<SelectList(q)>> \o <<TopN(q), Computation(q)>> \o <<TableScan(q)>>
    BY <1>3 DEF PlanOf
  <2>2. <<SelectList(q)>> \o <<TopN(q), Computation(q)>> = <<SelectList(q), TopN(q), Computation(q)>>
    BY Chain1And2
  <2>3. <<SelectList(q), TopN(q), Computation(q)>> \o <<TableScan(q)>> = <<SelectList(q), TopN(q), Computation(q), TableScan(q)>>
    BY Chain3And1
  <2> QED BY <1>3, <2>1, <2>2, <2>3
<1>4. CASE ~q.showDistance /\ q.composite # Rows
  <2>1. PlanOf(q) = <<SelectList(q)>> \o <<TopN(q), Computation(q)>> \o <<Filter(q), TableScan(q)>>
    BY <1>4 DEF PlanOf
  <2>2. <<SelectList(q)>> \o <<TopN(q), Computation(q)>> = <<SelectList(q), TopN(q), Computation(q)>>
    BY Chain1And2
  <2>3. <<SelectList(q), TopN(q), Computation(q)>> \o <<Filter(q), TableScan(q)>> = <<SelectList(q), TopN(q), Computation(q), Filter(q), TableScan(q)>>
    BY Chain3And2
  <2> QED BY <1>4, <2>1, <2>2, <2>3
<1> QED BY <1>1, <1>2, <1>3, <1>4

\* What each operator of a plan emits, the operators numbered from the scan: the definition by
\* recursion has a solution for the lengths that plans have.
LEMMA OutputUnfolds ==
  ASSUME NEW p, NEW n \in 2 .. 4, NEW r, DOMAIN p = 1 .. n,
         p[n].op \notin {"PROJECTION", "TOP_N", "FILTER"}
  PROVE  \A i \in 1 .. n : Output(p, r)[i] = Emits(p[i], r, Output(p, r)[i + 1])
<1> DEFINE s1 == Emits(p[n], r, <<>>)
           s2 == Emits(p[n - 1], r, s1)
           s3 == Emits(p[n - 2], r, s2)
           s4 == Emits(p[n - 3], r, s3)
           f == [i \in 1 .. n |-> IF i = n THEN s1 ELSE IF i = n - 1 THEN s2 ELSE IF i = n - 2 THEN s3 ELSE s4]
<1>1. \A x : Emits(p[n], r, x) = s1
  BY DEF Emits
<1>2. f = [i \in DOMAIN p |-> Emits(p[i], r, f[i + 1])]
  <2>1. f = [i \in 1 .. n |-> Emits(p[i], r, f[i + 1])]
    <3>1. ASSUME NEW i \in 1 .. n PROVE f[i] = Emits(p[i], r, f[i + 1])
      <4>1. CASE i = n
        BY <1>1, <4>1
      <4>2. CASE i = n - 1
        <5>1. f[i] = s2 /\ f[i + 1] = s1
          BY <4>2
        <5> QED BY <4>2, <5>1
      <4>3. CASE i = n - 2
        <5>1. f[i] = s3 /\ f[i + 1] = s2
          BY <4>3
        <5> QED BY <4>3, <5>1
      <4>4. CASE i = n - 3
        <5>1. f[i] = s4 /\ f[i + 1] = s3
          BY <4>4
        <5> QED BY <4>4, <5>1
      <4> QED BY <4>1, <4>2, <4>3, <4>4
    <3>2. f = [i \in 1 .. n |-> f[i]]
      OBVIOUS
    <3> HIDE DEF f
    <3> QED BY <3>1, <3>2
  <2> QED BY <2>1
<1> HIDE DEF f
<1>3. Output(p, r) = [i \in DOMAIN p |-> Emits(p[i], r, Output(p, r)[i + 1])]
  BY <1>2 DEF Output
<1> QED BY <1>3

-------------------------------------------------------------------------------
(***************************************************************************)
(* The inductive invariant: the plan is the one the query was bound to, or *)
(* that plan rewritten for an index created before that can serve the      *)
(* query, or the rewritten plan with its projections merged.               *)
(***************************************************************************)

\* Of an index that can serve the query: the conditions on the plan, and the match.
Serves(q, index) ==
    /\ q.composite = Rows
    /\ Len(q.orders) = 1 /\ q.orders[1].type = "ASC" /\ Key(q, q.orders[1]).index = Len(q.select) + 1
    /\ Matches(index, Distance(q), q.columns)

Bound(q, index) ==
    [index |-> index, limit |-> q.limit, query_embedding |-> EmbeddingOf(ConstantOf(Distance(q)))]

ScanOf(q, index) == IndexScanFor(TableScan(q), Bound(q, index))

RewrittenPlan(q, index) ==
    IF q.showDistance THEN <<Computation(q), ScanOf(q, index)>>
    ELSE <<SelectList(q), Computation(q), ScanOf(q, index)>>

\* The projection below the top without its distance.
Remaining(q) ==
    [op |-> "PROJECTION",
     expressions |-> [i \in 1 .. Len(q.select) + 1 |-> IF i <= Len(q.select) THEN Shown(q)[i] ELSE Dropped]]

MergedPlan(q, index) ==
    IF ~q.showDistance /\ ScanOf(q, index).op # "PDXEARCH_INDEX_SCAN"
    THEN <<SelectList(q), Remaining(q), ScanOf(q, index)>>
    ELSE RewrittenPlan(q, index)

\* The indexes that CREATE INDEX makes.
Created ==
    {NewIndex(c, o) : c \in {d \in DOMAIN ColumnType : ValidColumn(ColumnType[d])},
                      o \in {p \in CreateOptions : \A k \in DOMAIN p : ValidOption(k, p[k])}}

\* The plan is the one that the query was bound to, or one that an index serves.
IsOriginal == plan = PlanOf(query) /\ ~didUse
IsRewritten == didUse /\ \E index \in Created : Serves(query, index) /\ plan = RewrittenPlan(query, index)
IsMerged == \E index \in Created : Serves(query, index) /\ plan = MergedPlan(query, index)

PlanInv ==
    /\ phase = "idle" => plan = <<>> /\ at = 0
    /\ phase # "idle" => query \in Queries /\ at \in 1 .. Len(plan) + 1
    /\ phase = "optimize" => IsOriginal \/ IsRewritten
    /\ phase = "merge" => IsRewritten
    /\ phase \in {"planned", "answered"} => plan = PlanOf(query) \/ IsMerged
    /\ phase = "answered" => result \in Answers(plan)

IInv ==
    /\ indexes \in Seq(Created)
    /\ didUse \in BOOLEAN
    /\ phase \in {"idle", "optimize", "merge", "planned", "answered"}
    /\ PlanInv

\* A query's parts.
LEMMA QueryIs ==
  ASSUME NEW q \in Queries
  PROVE  /\ Len(q.select) \in Nat /\ DOMAIN q.select = 1 .. Len(q.select)
         /\ q.showDistance \in BOOLEAN
         /\ q.columns \in Seq(DOMAIN ColumnType)
         /\ Len(q.orders) \in Nat /\ DOMAIN q.orders = 1 .. Len(q.orders) /\ Len(q.orders) >= 1
         /\ \A i \in 1 .. Len(q.select) :
               q.select[i] \in Range(q.columns)
         /\ q.limit \in Nat /\ q.offset \in Nat
<1>1. /\ q.columns \in Seq(DOMAIN ColumnType) /\ q.select \in Seq(Range(q.columns))
      /\ q.orders # <<>>
      /\ q.orders \in Seq([by : STRING, type : {"ASC", "DESC"}, nulls : {"FIRST", "LAST"}])
      /\ q.limit \in Nat /\ q.offset \in Nat
      /\ q.showDistance \in BOOLEAN
  BY QueryAssumption
<1>2. Len(q.orders) >= 1 /\ Len(q.orders) \in Nat /\ DOMAIN q.orders = 1 .. Len(q.orders)
  BY <1>1, EmptySeq
<1> QED BY <1>1, <1>2

\* The expressions of the projections.
LEMMA ExpressionsAre ==
  ASSUME NEW q \in Queries
  PROVE  /\ Computation(q).op = "PROJECTION" /\ SelectList(q).op = "PROJECTION"
         /\ DOMAIN Computation(q).expressions = 1 .. Len(q.select) + 1
         /\ Len(Computation(q).expressions) = Len(q.select) + 1
         /\ Computation(q).expressions[Len(q.select) + 1] = Distance(q)
         /\ \A i \in 1 .. Len(q.select) :
               /\ Computation(q).expressions[i] = Shown(q)[i]
               /\ Shown(q)[i] = Ref(Position(q.select[i], q.columns))
               /\ SelectList(q).expressions[i] = Ref(i)
         /\ DOMAIN SelectList(q).expressions = 1 .. Len(q.select)
<1>1. Len(q.select) \in Nat /\ DOMAIN q.select = 1 .. Len(q.select)
  BY QueryIs
<1> DEFINE n == Len(q.select)
           S == {Shown(q)[i] : i \in 1 .. n} \cup {Distance(q)}
<1>2. Shown(q) = [i \in 1 .. n |-> Ref(Position(q.select[i], q.columns))]
  BY <1>1 DEF Shown
<1>3. Shown(q) \in [1 .. n -> S] /\ DOMAIN Shown(q) = 1 .. n
  BY <1>2
<1>4. Shown(q) \in Seq(S) /\ Len(Shown(q)) = n /\ Distance(q) \in S
  BY <1>1, <1>3
<1>5. Computation(q).expressions = Append(Shown(q), Distance(q)) /\ Computation(q).op = "PROJECTION"
  BY DEF Computation
<1> HIDE DEF S
<1> DEFINE a == Append(Shown(q), Distance(q))
<1>6. a \in Seq(S) /\ Len(a) = n + 1 /\ a[n + 1] = Distance(q)
      /\ \A i \in 1 .. n : a[i] = Shown(q)[i]
  BY <1>4, AppendProperties
<1>7. DOMAIN a = 1 .. n + 1
  BY <1>6
<1>8. SelectList(q).op = "PROJECTION" /\ SelectList(q).expressions = [i \in 1 .. n |-> Ref(i)]
  BY <1>1 DEF SelectList
<1> HIDE DEF a
<1> QED BY <1>2, <1>5, <1>6, <1>7, <1>8 DEF a

\* The scan that takes the place of the table scan: with filters the operator that searches what
\* they leave, without an operator or a function of the scan, by variant.
LEMMA ScanIs ==
  ASSUME NEW q, NEW index
  PROVE  /\ ScanOf(q, index).op \in {"GET", "PDXEARCH_INDEX_FILT_SCAN", "PDXEARCH_INDEX_SCAN"}
         /\ ScanOf(q, index).op = "GET" => ScanOf(q, index).function = "pdxearch_index_scan"
         /\ ScanOf(q, index).column_ids = q.columns
         /\ ScanOf(q, index).bind_data = <<Bound(q, index)>>
         /\ ScanOf(q, index).op = "PDXEARCH_INDEX_FILT_SCAN" => ScanOf(q, index).child = RowIdScan(TableScan(q))
         /\ DOMAIN q.filters # {} <=> ScanOf(q, index).op = "PDXEARCH_INDEX_FILT_SCAN"
<1> DEFINE get == TableScan(q)
           bind == Bound(q, index)
<1>1. get.column_ids = q.columns /\ get.op = "GET" /\ get.table_filters = q.filters
  BY DEF TableScan
<1>2. CASE DOMAIN q.filters # {}
  <2>1. ScanOf(q, index) = [op |-> "PDXEARCH_INDEX_FILT_SCAN", column_ids |-> get.column_ids, bind_data |-> <<bind>>,
             child |-> RowIdScan(get)]
    <3>1. DOMAIN get.table_filters # {}
      BY <1>1, <1>2
    <3> QED BY <3>1, Zenon DEF ScanOf, IndexScanFor
  <2> HIDE DEF bind, get
  <2>2. get.column_ids = q.columns /\ get = TableScan(q) /\ bind = Bound(q, index)
    BY <1>1 DEF bind, get
  <2> QED BY <1>2, <2>1, <2>2
<1>3. CASE DOMAIN q.filters = {} /\ global
  <2>1. ScanOf(q, index) = [get EXCEPT !.function = "pdxearch_index_scan", !.bind_data = <<bind>>]
    <3>1. DOMAIN get.table_filters = {}
      BY <1>1, <1>3
    <3> QED BY <1>3, <3>1, Zenon DEF ScanOf, IndexScanFor
  <2>2. get = [op |-> "GET", function |-> "seq_scan", column_ids |-> q.columns, projection_ids |-> <<>>,
     table_filters |-> q.filters, dynamic_filters |-> q.dynamic, bind_data |-> <<>>]
    BY DEF TableScan
  <2> HIDE DEF bind, get
  <2>3. ScanOf(q, index) = [op |-> "GET", function |-> "pdxearch_index_scan", column_ids |-> q.columns, projection_ids |-> <<>>,
     table_filters |-> q.filters, dynamic_filters |-> q.dynamic, bind_data |-> <<bind>>]
    BY <2>1, <2>2
  <2> QED BY <1>3, <2>3 DEF bind
<1>4. CASE DOMAIN q.filters = {} /\ ~global
  <2>1. ScanOf(q, index) = [op |-> "PDXEARCH_INDEX_SCAN", column_ids |-> get.column_ids, bind_data |-> <<bind>>]
    <3>1. DOMAIN get.table_filters = {}
      BY <1>1, <1>4
    <3> QED BY <1>4, <3>1, Zenon DEF ScanOf, IndexScanFor
  <2> HIDE DEF bind, get
  <2>2. get.column_ids = q.columns /\ bind = Bound(q, index)
    BY <1>1 DEF bind, get
  <2> QED BY <1>4, <2>1, <2>2
<1> QED BY <1>2, <1>3, <1>4

-------------------------------------------------------------------------------
(***************************************************************************)
(* What the two stages of the optimizer make of a plan of such a shape.    *)
(***************************************************************************)

\* The length of a plan and the operators in it.
LEMMA OperatorsAre ==
  ASSUME NEW q
  PROVE  /\ TopN(q).op = "TOP_N" /\ Computation(q).op = "PROJECTION" /\ SelectList(q).op = "PROJECTION"
         /\ Filter(q).op = "FILTER" /\ TableScan(q).op = "GET" /\ Remaining(q).op = "PROJECTION"
         /\ Computation(q).expressions = Append(Shown(q), Distance(q))
         /\ TopN(q).limit = q.limit /\ TopN(q).offset = q.offset
         /\ TopN(q).orders = [i \in DOMAIN q.orders |-> Key(q, q.orders[i])]
         /\ TableScan(q).column_ids = q.columns /\ TableScan(q).bind_data = <<>>
         /\ TableScan(q).function = "seq_scan" /\ TableScan(q).table_filters = q.filters
BY DEF TopN, Computation, SelectList, Filter, TableScan, Remaining

\* Where TryOptimize succeeds, the query is one that an index serves, and the plan becomes the
\* one that scans this index.
LEMMA RewriteIs ==
  ASSUME query \in Queries, plan = PlanOf(query), indexes \in Seq(Created),
         NEW i \in 1 .. Len(plan), IsTopNOverTableScan(i), Matching(i) # {}
  PROVE  /\ \E index \in Created : Serves(query, index) /\ Rewritten(i) = RewrittenPlan(query, index)
         /\ i + 2 <= Len(plan)
         /\ Len(Rewritten(i)) = Len(plan) - 1
<1> DEFINE q == query
<1>1. q \in Queries /\ q.showDistance \in BOOLEAN /\ Len(q.orders) >= 1
  BY QueryIs
<1>2. /\ TopN(q).op = "TOP_N" /\ Computation(q).op = "PROJECTION" /\ SelectList(q).op = "PROJECTION"
      /\ Filter(q).op = "FILTER" /\ TableScan(q).op = "GET"
  BY OperatorsAre
<1>3. plan[i].op = "TOP_N" /\ plan[i + 2].op = "GET"
  BY DEF IsTopNOverTableScan
<1>4. /\ q.composite = Rows
      /\ i = IF q.showDistance THEN 1 ELSE 2
      /\ Len(plan) = i + 2
      /\ plan[i] = TopN(q) /\ plan[i + 1] = Computation(q) /\ plan[i + 2] = TableScan(q)
      /\ SubSeq(plan, 1, i - 1) = IF q.showDistance THEN <<>> ELSE <<SelectList(q)>>
  <2> DEFINE a == TopN(q)
             b == Computation(q)
             c == SelectList(q)
             d == Filter(q)
             e == TableScan(q)
  <2>1. a.op = "TOP_N" /\ b.op = "PROJECTION" /\ c.op = "PROJECTION" /\ d.op = "FILTER" /\ e.op = "GET"
    BY <1>2
  <2>2. /\ q.showDistance /\ q.composite = Rows => plan = <<a, b, e>>
        /\ q.showDistance /\ q.composite # Rows => plan = <<a, b, d, e>>
        /\ ~q.showDistance /\ q.composite = Rows => plan = <<c, a, b, e>>
        /\ ~q.showDistance /\ q.composite # Rows => plan = <<c, a, b, d, e>>
    BY <1>1, PlanShapes
  <2> HIDE DEF a, b, c, d, e, q
  <2>3. CASE q.showDistance /\ q.composite = Rows
    <3>1. plan = <<a, b, e>>
      BY <2>2, <2>3
    <3>2. i = 1
      BY <1>3, <2>1, <3>1
    <3>3. SubSeq(plan, 1, 0) = <<>>
      BY SubSeqEmpty
    <3> QED BY <2>3, <3>1, <3>2, <3>3 DEF a, b, c, d, e
  <2>4. CASE q.showDistance /\ q.composite # Rows
    <3>1. plan = <<a, b, d, e>>
      BY <2>2, <2>4
    <3> QED BY <1>3, <2>1, <3>1
  <2>5. CASE ~q.showDistance /\ q.composite = Rows
    <3>1. plan = <<c, a, b, e>>
      BY <2>2, <2>5
    <3>2. i = 2
      BY <1>3, <2>1, <3>1
    <3>3. SubSeq(plan, 1, 1) = <<c>>
      <4> DEFINE s == SubSeq(plan, 1, 1)
      <4>1. s \in Seq({c}) /\ Len(s) = 1 /\ s[1] = c
        BY <3>1, SubSeqProperties
      <4> HIDE DEF s
      <4>2. s = <<c>>
        BY <4>1
      <4> QED BY <4>2 DEF s
    <3> QED BY <2>5, <3>1, <3>2, <3>3 DEF a, b, c, d, e
  <2>6. CASE ~q.showDistance /\ q.composite # Rows
    <3>1. plan = <<c, a, b, d, e>>
      BY <2>2, <2>6
    <3> QED BY <1>3, <2>1, <3>1
  <2> QED BY <1>1, <2>3, <2>4, <2>5, <2>6
<1> DEFINE m == Min(Matching(i))
           index == indexes[m]
<1>5. m \in DOMAIN indexes /\ Matches(index, OrderExpression(i), q.columns)
  <2>1. Matching(i) \in SUBSET Nat
    BY DEF Matching
  <2>2. m \in Matching(i)
    BY <2>1, LeastNumber
  <2>3. plan[i + 2].column_ids = q.columns
    BY <1>4, OperatorsAre
  <2> QED BY <2>2, <2>3 DEF Matching
<1>6. index \in Created
  BY <1>5
<1>7. Len(q.orders) = 1 /\ q.orders[1].type = "ASC"
  <2>1. plan[i].orders = [j \in DOMAIN q.orders |-> Key(q, q.orders[j])]
    BY <1>4, OperatorsAre
  <2>2. Len(plan[i].orders) = 1 /\ plan[i].orders[1].type = "ASC"
    BY DEF IsTopNOverTableScan
  <2>3. DOMAIN q.orders = 1 .. Len(q.orders) /\ Len(q.orders) \in Nat
    BY QueryIs
  <2>4. Len(plan[i].orders) = Len(q.orders)
    BY <2>1, <2>3
  <2> QED BY <2>1, <2>2, <2>3, <2>4 DEF Key
<1>8. OrderExpression(i) = Computation(q).expressions[Key(q, q.orders[1]).index]
  <2>1. plan[i].orders[1] = Key(q, q.orders[1])
    <3>1. plan[i].orders = [j \in DOMAIN q.orders |-> Key(q, q.orders[j])]
      BY <1>4, OperatorsAre
    <3>2. 1 \in DOMAIN q.orders
      BY <1>7, QueryIs
    <3> QED BY <3>1, <3>2
  <2> QED BY <1>4, <2>1 DEF OrderExpression
<1>9. Key(q, q.orders[1]).index = Len(q.select) + 1
  <2>1. SUFFICES ASSUME q.orders[1].by # "distance", Len(q.select) # 0 PROVE FALSE
    BY QueryIs DEF Key
  <2>2. Key(q, q.orders[1]).index = 1 /\ 1 \in 1 .. Len(q.select)
    BY <2>1, QueryIs DEF Key
  <2>3. OrderExpression(i) = Shown(q)[1] /\ Shown(q)[1] = Ref(Position(q.select[1], q.columns))
    BY <1>8, <2>2, ExpressionsAre
  <2>4. OrderExpression(i).kind = "ref"
    BY <2>3 DEF Ref
  <2> QED BY <1>5, <2>4 DEF Matches
<1>10. OrderExpression(i) = Distance(q)
  BY <1>8, <1>9, ExpressionsAre
<1>11. Serves(q, index)
  BY <1>4, <1>5, <1>7, <1>9, <1>10 DEF Serves
<1>12. BindData(i) = Bound(q, index)
  <2>1. plan[i].limit = q.limit
    <3>1. TopN(q).limit = q.limit
      BY OperatorsAre
    <3> QED BY <1>4, <3>1
  <2> QED BY <1>10, <2>1 DEF BindData, Bound
<1>13. Rewritten(i) = SubSeq(plan, 1, i - 1) \o <<Computation(q), ScanOf(q, index)>>
  BY <1>4, <1>12 DEF Rewritten, ScanOf
<1>14. Rewritten(i) = RewrittenPlan(q, index) /\ Len(Rewritten(i)) = Len(plan) - 1
  <2>1. CASE q.showDistance
    <3>1. Rewritten(i) = <<>> \o <<Computation(q), ScanOf(q, index)>>
      BY <1>4, <1>13, <2>1
    <3>2. Rewritten(i) = <<Computation(q), ScanOf(q, index)>>
      BY <3>1, Chain0And2
    <3>3. Len(Rewritten(i)) = 2
      BY <3>2
    <3> QED BY <1>4, <2>1, <3>2, <3>3 DEF RewrittenPlan
  <2>2. CASE ~q.showDistance
    <3>1. Rewritten(i) = <<SelectList(q)>> \o <<Computation(q), ScanOf(q, index)>>
      BY <1>4, <1>13, <2>2
    <3>2. Rewritten(i) = <<SelectList(q), Computation(q), ScanOf(q, index)>>
      BY <3>1, Chain1And2
    <3>3. Len(Rewritten(i)) = 3
      BY <3>2
    <3> QED BY <1>4, <2>2, <3>2, <3>3 DEF RewrittenPlan
  <2> QED BY <1>1, <2>1, <2>2
<1> QED BY <1>4, <1>6, <1>11, <1>14

\* Once rewritten, a plan has no TOP_N.
LEMMA RewrittenIs ==
  ASSUME NEW q \in Queries, NEW index
  PROVE  /\ \A i \in DOMAIN RewrittenPlan(q, index) : RewrittenPlan(q, index)[i].op # "TOP_N"
         /\ Len(RewrittenPlan(q, index)) \in 2 .. 3
         /\ DOMAIN RewrittenPlan(q, index) = 1 .. Len(RewrittenPlan(q, index))
<1> DEFINE b == Computation(q)
           c == SelectList(q)
           e == ScanOf(q, index)
           p == RewrittenPlan(q, index)
<1>1. b.op # "TOP_N" /\ c.op # "TOP_N"
  BY OperatorsAre
<1>2. e.op # "TOP_N"
  BY ScanIs
<1>3. p = <<b, e>> \/ p = <<c, b, e>>
  BY DEF RewrittenPlan
<1>4. SUFFICES /\ \A i \in DOMAIN p : p[i].op # "TOP_N"
               /\ Len(p) \in 2 .. 3 /\ DOMAIN p = 1 .. Len(p)
  OBVIOUS
<1> HIDE DEF b, c, e, p
<1>5. CASE p = <<b, e>>
  BY <1>1, <1>2, <1>5
<1>6. CASE p = <<c, b, e>>
  BY <1>1, <1>2, <1>6
<1> QED BY <1>3, <1>5, <1>6

\* The length of the plan that a query is bound to.
LEMMA PlanIs ==
  ASSUME NEW q \in Queries
  PROVE  Len(PlanOf(q)) \in 3 .. 5 /\ DOMAIN PlanOf(q) = 1 .. Len(PlanOf(q))
<1> DEFINE a == TopN(q)
           b == Computation(q)
           c == SelectList(q)
           d == Filter(q)
           e == TableScan(q)
           p == PlanOf(q)
<1>1. p = <<a, b, e>> \/ p = <<a, b, d, e>> \/ p = <<c, a, b, e>> \/ p = <<c, a, b, d, e>>
  BY QueryIs, PlanShapes
<1> SUFFICES Len(p) \in 3 .. 5 /\ DOMAIN p = 1 .. Len(p)
  OBVIOUS
<1> HIDE DEF a, b, c, d, e, p
<1>2. CASE p = <<a, b, e>>
  BY <1>2
<1>3. CASE p = <<a, b, d, e>>
  BY <1>3
<1>4. CASE p = <<c, a, b, e>>
  BY <1>4
<1>5. CASE p = <<c, a, b, d, e>>
  BY <1>5
<1> QED BY <1>1, <1>2, <1>3, <1>4, <1>5

\* One call of TryOptimize leaves the plan as it was bound, or makes it the one that an index
\* serves, and no later call changes it again.
LEMMA VisitKeeps ==
  ASSUME IInv, Visit
  PROVE  IInv'
<1>1. /\ phase = "optimize" /\ at <= Len(plan) /\ at' = at + 1
      /\ UNCHANGED <<global, indexes, setting, phase, query, result>>
  BY DEF Visit
<1>2. /\ indexes \in Seq(Created) /\ didUse \in BOOLEAN
      /\ query \in Queries /\ at \in 1 .. Len(plan) + 1
      /\ IsOriginal \/ IsRewritten
  BY <1>1 DEF IInv, PlanInv
<1> DEFINE optimized == IsTopNOverTableScan(at) /\ Matching(at) # {}
<1>3. /\ plan' = IF optimized THEN Rewritten(at) ELSE plan
      /\ didUse' = (didUse \/ optimized)
  BY DEF Visit
<1>4. optimized \in BOOLEAN /\ didUse' \in BOOLEAN
  BY <1>3
<1>5. SUFFICES /\ at' \in 1 .. Len(plan') + 1
               /\ (IsOriginal \/ IsRewritten)'
  BY <1>1, <1>2, <1>4 DEF IInv, PlanInv
<1>6. CASE IsOriginal
  <2>1. plan = PlanOf(query) /\ ~didUse /\ Len(plan) \in 3 .. 5
    BY <1>2, <1>6, PlanIs DEF IsOriginal
  <2>2. at \in 1 .. Len(plan)
    BY <1>1, <1>2, <2>1
  <2>3. CASE optimized
    <3>1. /\ \E index \in Created : Serves(query, index) /\ Rewritten(at) = RewrittenPlan(query, index)
          /\ at + 2 <= Len(plan)
          /\ Len(Rewritten(at)) = Len(plan) - 1
      BY <1>2, <2>1, <2>2, <2>3, RewriteIs
    <3> HIDE DEF optimized
    <3>2. plan' = Rewritten(at) /\ didUse'
      BY <1>3, <2>3
    <3>3. at' \in 1 .. Len(plan') + 1
      BY <1>1, <2>1, <2>2, <3>1, <3>2
    <3>4. IsRewritten'
      <4>1. PICK index \in Created : Serves(query, index) /\ Rewritten(at) = RewrittenPlan(query, index)
        BY <3>1
      <4>2. Created' = Created
        BY DEF Created
      <4>3. Serves(query, index)' /\ RewrittenPlan(query, index)' = RewrittenPlan(query, index)
        <5>1. query' = query /\ global' = global
          BY <1>1
        <5> QED BY <4>1, <5>1 DEF Serves, RewrittenPlan, ScanOf, IndexScanFor
      <4> QED BY <3>2, <4>1, <4>2, <4>3 DEF IsRewritten
    <3> QED BY <3>3, <3>4
  <2>4. CASE ~optimized
    <3> HIDE DEF optimized
    <3>1. plan' = plan /\ ~didUse'
      BY <1>3, <2>1, <2>4
    <3>2. at' \in 1 .. Len(plan') + 1
      BY <1>1, <2>1, <2>2, <3>1
    <3>3. IsOriginal'
      BY <1>1, <2>1, <3>1 DEF IsOriginal
    <3> QED BY <3>2, <3>3
  <2> QED BY <2>3, <2>4
<1>7. CASE IsRewritten
  <2>1. PICK index \in Created : didUse /\ Serves(query, index) /\ plan = RewrittenPlan(query, index)
    BY <1>7 DEF IsRewritten
  <2>2. Len(plan) \in 2 .. 3 /\ DOMAIN plan = 1 .. Len(plan) /\ \A i \in DOMAIN plan : plan[i].op # "TOP_N"
    BY <1>2, <2>1, RewrittenIs
  <2>3. at \in DOMAIN plan
    BY <1>1, <1>2, <2>2
  <2>4. ~optimized
    BY <2>2, <2>3 DEF IsTopNOverTableScan
  <2> HIDE DEF optimized
  <2>5. plan' = plan /\ didUse'
    BY <1>3, <2>1, <2>4
  <2>6. at' \in 1 .. Len(plan') + 1
    BY <1>1, <2>2, <2>3, <2>5
  <2>7. IsRewritten'
    <3>1. Created' = Created
      BY DEF Created
    <3>2. Serves(query, index)' /\ RewrittenPlan(query, index)' = RewrittenPlan(query, index)
      <4>1. query' = query /\ global' = global
        BY <1>1
      <4> QED BY <2>1, <4>1 DEF Serves, RewrittenPlan, ScanOf, IndexScanFor
    <3> QED BY <2>1, <2>5, <3>1, <3>2 DEF IsRewritten
  <2> QED BY <2>6, <2>7
<1> QED BY <1>2, <1>6, <1>7

\* The select list refers to the columns of the projection below it, not to the distance.
LEMMA ReferencedIs ==
  ASSUME NEW q \in Queries
  PROVE  Referenced(SelectList(q).expressions) = 1 .. Len(q.select)
<1> DEFINE s == SelectList(q).expressions
           n == Len(q.select)
<1>1. DOMAIN s = 1 .. n /\ \A i \in 1 .. n : s[i] = Ref(i)
  BY ExpressionsAre
<1> HIDE DEF s
<1>2. ASSUME NEW i \in 1 .. n PROVE s[i].kind = "ref" /\ s[i].index = i
  <2>1. s[i] = [kind |-> "ref", index |-> i]
    BY <1>1 DEF Ref
  <2> QED BY <2>1
<1>3. Referenced(s) = {s[i].index : i \in 1 .. n}
  BY <1>1, <1>2 DEF Referenced, Range
<1>4. Referenced(s) = 1 .. n
  BY <1>2, <1>3
<1> QED BY <1>4 DEF s

\* MergeProjections takes the distance out of the projection below, unless the plan shows it or
\* scans with the unfiltered operator.
LEMMA MergeIs ==
  ASSUME query \in Queries, NEW index, plan = RewrittenPlan(query, index), MergeProjections
  PROVE  plan' = MergedPlan(query, index)
<1> DEFINE q == query
           b == Computation(q)
           c == SelectList(q)
           e == ScanOf(q, index)
           n == Len(q.select)
<1>1. /\ b.op = "PROJECTION" /\ c.op = "PROJECTION"
      /\ e.op \in {"GET", "PDXEARCH_INDEX_FILT_SCAN", "PDXEARCH_INDEX_SCAN"}
      /\ e.op = "GET" => e.function = "pdxearch_index_scan"
      /\ b = [op |-> "PROJECTION", expressions |-> b.expressions]
      /\ n \in Nat
      /\ DOMAIN b.expressions = 1 .. n + 1
      /\ \A i \in 1 .. n : b.expressions[i] = Shown(q)[i]
      /\ Referenced(c.expressions) = 1 .. n
      /\ q.showDistance \in BOOLEAN
  BY OperatorsAre, ScanIs, ExpressionsAre, QueryIs, ReferencedIs DEF Computation
<1>2. plan' = IF \E i \in DOMAIN plan : IsTwoProjectionsOverIndexScan(i)
              THEN WithoutUnreferenced(CHOOSE i \in DOMAIN plan : IsTwoProjectionsOverIndexScan(i))
              ELSE plan
  BY DEF MergeProjections
<1>3. plan = IF q.showDistance THEN <<b, e>> ELSE <<c, b, e>>
  BY DEF RewrittenPlan
<1>4. MergedPlan(q, index) = IF ~q.showDistance /\ e.op # "PDXEARCH_INDEX_SCAN" THEN <<c, Remaining(q), e>> ELSE plan
  BY DEF MergedPlan
<1>5. Remaining(q) = [op |-> "PROJECTION",
                      expressions |-> [i \in 1 .. n + 1 |-> IF i <= n THEN Shown(q)[i] ELSE Dropped]]
  BY DEF Remaining
<1> SUFFICES plan' = IF ~q.showDistance /\ e.op # "PDXEARCH_INDEX_SCAN" THEN <<c, Remaining(q), e>> ELSE plan
  BY <1>4
<1> HIDE DEF b, c, e, q, n
<1>6. CASE q.showDistance
  <2>1. plan = <<b, e>>
    BY <1>3, <1>6
  <2>2. \A i \in DOMAIN plan : ~IsTwoProjectionsOverIndexScan(i)
    BY <2>1 DEF IsTwoProjectionsOverIndexScan
  <2> QED BY <1>2, <1>6, <2>2
<1>7. CASE ~q.showDistance /\ e.op = "PDXEARCH_INDEX_SCAN"
  <2>1. plan = <<c, b, e>>
    BY <1>3, <1>7
  <2>2. \A i \in DOMAIN plan : ~IsTwoProjectionsOverIndexScan(i)
    BY <1>7, <2>1 DEF IsTwoProjectionsOverIndexScan
  <2> QED BY <1>2, <1>7, <2>2
<1>8. CASE ~q.showDistance /\ e.op # "PDXEARCH_INDEX_SCAN"
  <2>1. plan = <<c, b, e>>
    BY <1>3, <1>8
  <2>2. IsTwoProjectionsOverIndexScan(1)
    BY <1>1, <1>8, <2>1 DEF IsTwoProjectionsOverIndexScan
  <2>3. \A i \in DOMAIN plan : IsTwoProjectionsOverIndexScan(i) => i = 1
    BY <2>1 DEF IsTwoProjectionsOverIndexScan
  <2>4. (CHOOSE i \in DOMAIN plan : IsTwoProjectionsOverIndexScan(i)) = 1
    <3>1. 1 \in DOMAIN plan
      BY <2>1
    <3> QED BY <2>2, <2>3, <3>1
  <2>5. plan' = WithoutUnreferenced(1)
    <3>1. 1 \in DOMAIN plan
      BY <2>1
    <3> QED BY <1>2, <2>2, <2>4, <3>1
  <2> DEFINE r == [j \in DOMAIN b.expressions |-> IF j \in Referenced(c.expressions) THEN b.expressions[j] ELSE Dropped]
  <2>6. r = [i \in 1 .. n + 1 |-> IF i <= n THEN Shown(q)[i] ELSE Dropped]
    BY <1>1
  <2>7. WithoutUnreferenced(1) = [plan EXCEPT ![2] = [plan[2] EXCEPT !.expressions =
            [j \in DOMAIN plan[2].expressions |->
                IF j \in Referenced(plan[1].expressions) THEN plan[2].expressions[j] ELSE Dropped]]]
    <3>1. 1 + 1 = 2
      OBVIOUS
    <3> QED BY <3>1, Zenon DEF WithoutUnreferenced
  <2>8. plan[2] = b /\ plan[1] = c
    BY <2>1
  <2>9. WithoutUnreferenced(1) = [plan EXCEPT ![2] = [b EXCEPT !.expressions = r]]
    BY <2>7, <2>8
  <2> HIDE DEF r
  <2>10. [b EXCEPT !.expressions = r] = [op |-> "PROJECTION", expressions |-> r]
    BY <1>1
  <2>11. [b EXCEPT !.expressions = r] = Remaining(q)
    BY <1>5, <2>6, <2>10
  <2>12. [plan EXCEPT ![2] = Remaining(q)] = <<c, Remaining(q), e>>
    BY <2>1
  <2> QED BY <1>8, <2>5, <2>9, <2>11, <2>12
<1> QED BY <1>1, <1>6, <1>7, <1>8

\* An index is made only of options that are let through.
LEMMA CreatedIs ==
  ASSUME IInv, NEW c \in DOMAIN ColumnType, NEW o \in CreateOptions, CreateIndex(c, o)
  PROVE  NewIndex(c, o) \in Created /\ indexes' \in Seq(Created)
<1>1. NewIndex(c, o) \in Created
  BY DEF CreateIndex, Created
<1>2. indexes' = Append(indexes, NewIndex(c, o)) /\ indexes \in Seq(Created)
  BY DEF CreateIndex, IInv
<1> QED BY <1>1, <1>2, AppendProperties

-------------------------------------------------------------------------------
(***************************************************************************)
(* The steps keep the invariant.                                           *)
(***************************************************************************)

\* The parts of the invariant that speak of the plan stay as they are with the plan.
LEMMA PlanStays ==
  ASSUME UNCHANGED <<query, plan, didUse, global>>
  PROVE  IsOriginal' = IsOriginal /\ IsRewritten' = IsRewritten /\ IsMerged' = IsMerged
<1>1. Created' = Created
  BY DEF Created
<1>2. \A index : /\ Serves(query, index)' = Serves(query, index)
                 /\ RewrittenPlan(query, index)' = RewrittenPlan(query, index)
                 /\ MergedPlan(query, index)' = MergedPlan(query, index)
  BY DEF Serves, RewrittenPlan, MergedPlan, ScanOf, IndexScanFor
<1> QED BY <1>1, <1>2 DEF IsOriginal, IsRewritten, IsMerged

\* The same of the plan at hand, as long as it stays.
LEMMA PlanAnswersStay ==
  ASSUME UNCHANGED <<global, setting, plan>>
  PROVE  Answers(plan)' = Answers(plan)
BY DEF Answers, Fails, Streams, PassesOn, Scanned, IndexAnswers, NearestOf, IsExact, GetEffectiveNProbe, Output, Emits

\* The invariant holds and every step keeps it.
LEMMA StepKeeps == IInv /\ [Next]_vars => IInv'
<1> SUFFICES ASSUME IInv, [Next]_vars PROVE IInv'
  OBVIOUS
<1> USE DEF IInv, PlanInv
<1>1. CASE UNCHANGED vars
  <2>1. UNCHANGED <<query, plan, didUse, global>> /\ UNCHANGED <<indexes, phase, at, result, setting>>
    BY <1>1 DEF vars
  <2>2. IsOriginal' = IsOriginal /\ IsRewritten' = IsRewritten /\ IsMerged' = IsMerged
    BY <2>1, PlanStays
  <2>3. Created' = Created
    BY DEF Created
  <2>4. Answers(plan)' = Answers(plan) /\ PlanOf(query)' = PlanOf(query)
    BY <2>1, PlanAnswersStay
  <2> QED BY <2>1, <2>2, <2>3, <2>4
<1>2. ASSUME NEW c \in DOMAIN ColumnType, NEW o \in CreateOptions, CreateIndex(c, o) PROVE IInv'
  <2>1. UNCHANGED <<query, plan, didUse, global>> /\ UNCHANGED <<phase, at, result, setting>> /\ phase = "idle"
    BY <1>2 DEF CreateIndex
  <2>2. indexes' \in Seq(Created)
    BY <1>2, CreatedIs
  <2>3. Created' = Created
    BY DEF Created
  <2> QED BY <2>1, <2>2, <2>3
<1>3. ASSUME NEW v \in Settings, SetNProbe(v) PROVE IInv'
  <2>1. UNCHANGED <<query, plan, didUse, global>> /\ UNCHANGED <<indexes, phase, at, result>> /\ phase \in {"idle", "planned"}
    BY <1>3 DEF SetNProbe
  <2>2. IsMerged' = IsMerged
    BY <2>1, PlanStays
  <2>3. Created' = Created /\ PlanOf(query)' = PlanOf(query)
    BY <2>1 DEF Created
  <2> QED BY <2>1, <2>2, <2>3
<1>4. ASSUME NEW q \in Queries, Bind(q) PROVE IInv'
  <2>1. /\ query' = q /\ plan' = PlanOf(q) /\ at' = 1 /\ didUse' = FALSE /\ phase' = "optimize"
        /\ UNCHANGED <<global, indexes, setting, result>>
    BY <1>4 DEF Bind
  <2>2. Len(plan') \in 3 .. 5
    BY <2>1, PlanIs
  <2>3. IsOriginal'
    BY <2>1 DEF IsOriginal
  <2>4. Created' = Created
    BY DEF Created
  <2>5. at' \in 1 .. Len(plan') + 1
    BY <2>1, <2>2
  <2> QED BY <2>1, <2>3, <2>4, <2>5
<1>5. CASE Visit
  BY <1>5, VisitKeeps
<1>6. CASE Visited
  <2>1. /\ UNCHANGED <<query, plan, didUse, global>> /\ UNCHANGED <<indexes, at, result, setting>>
        /\ phase = "optimize" /\ phase' = IF didUse THEN "merge" ELSE "planned"
    BY <1>6 DEF Visited
  <2>2. IsOriginal' = IsOriginal /\ IsRewritten' = IsRewritten
    BY <2>1, PlanStays
  <2>3. Created' = Created /\ PlanOf(query)' = PlanOf(query)
    BY <2>1 DEF Created
  <2> QED BY <2>1, <2>2, <2>3 DEF IsOriginal, IsRewritten
<1>7. CASE MergeProjections
  <2>1. phase = "merge" /\ phase' = "planned" /\ UNCHANGED <<global, indexes, setting, query, at, didUse, result>>
    BY <1>7 DEF MergeProjections
  <2>2. PICK index \in Created : Serves(query, index) /\ plan = RewrittenPlan(query, index)
    BY <2>1 DEF IsRewritten
  <2>3. plan' = MergedPlan(query, index)
    BY <1>7, <2>1, <2>2, MergeIs
  <2>4. Created' = Created
    BY DEF Created
  <2>5. IsMerged'
    <3>1. Serves(query, index)' /\ MergedPlan(query, index)' = MergedPlan(query, index)
      BY <2>1, <2>2 DEF Serves, MergedPlan, RewrittenPlan, ScanOf, IndexScanFor
    <3> QED BY <2>3, <2>4, <3>1 DEF IsMerged
  <2>6. at' \in 1 .. Len(plan') + 1
    <3>1. Len(MergedPlan(query, index)) = Len(RewrittenPlan(query, index))
      BY DEF MergedPlan, RewrittenPlan
    <3> QED BY <2>1, <2>2, <2>3, <3>1
  <2> QED BY <2>1, <2>4, <2>5, <2>6
<1>8. CASE Execute
  <2>1. /\ UNCHANGED <<query, plan, didUse, global>> /\ UNCHANGED <<indexes, at, setting>>
        /\ phase = "planned" /\ phase' = "answered" /\ result' \in Answers(plan)
    BY <1>8 DEF Execute
  <2>2. IsMerged' = IsMerged
    BY <2>1, PlanStays
  <2>3. Created' = Created /\ PlanOf(query)' = PlanOf(query)
    BY <2>1 DEF Created
  <2>4. Answers(plan)' = Answers(plan)
    BY <2>1, PlanAnswersStay
  <2> QED BY <2>1, <2>2, <2>3, <2>4
<1>9. CASE Close
  <2>1. phase' = "idle" /\ plan' = <<>> /\ at' = 0 /\ didUse' = FALSE /\ UNCHANGED indexes
    BY <1>9 DEF Close
  <2>2. Created' = Created
    BY DEF Created
  <2> QED BY <2>1, <2>2
<1> QED BY <1>1, <1>2, <1>3, <1>4, <1>5, <1>6, <1>7, <1>8, <1>9 DEF Next

\* A plan is at any time the one that its query was bound to, or the one that scans an index
\* which serves the query, with the distance taken out or not.
THEOREM Invariance == Spec => []IInv
<1>1. Init => IInv
  <2> SUFFICES ASSUME Init PROVE IInv
    OBVIOUS
  <2>1. indexes = <<>> /\ phase = "idle" /\ plan = <<>> /\ at = 0 /\ didUse = FALSE
    BY DEF Init
  <2>2. indexes \in Seq(Created)
    BY <2>1
  <2>3. PlanInv
    BY <2>1 DEF PlanInv
  <2> QED BY <2>1, <2>2, <2>3 DEF IInv
<1> QED BY <1>1, StepKeeps, PTL DEF Spec

-------------------------------------------------------------------------------
(***************************************************************************)
(* The distance is not computed twice; an index is created as asked for.   *)
(***************************************************************************)

\* The scan is the last operator of a plan.
LEMMA LastIs ==
  ASSUME NEW q \in Queries, NEW index
  PROVE  /\ PlanOf(q)[Len(PlanOf(q))] = TableScan(q) /\ PlanOf(q) # <<>>
         /\ MergedPlan(q, index)[Len(MergedPlan(q, index))] = ScanOf(q, index)
         /\ MergedPlan(q, index) # <<>>
<1> DEFINE a == TopN(q)
           b == Computation(q)
           c == SelectList(q)
           d == Filter(q)
           e == TableScan(q)
           g == ScanOf(q, index)
           h == Remaining(q)
           p == PlanOf(q)
           m == MergedPlan(q, index)
<1>1. p = <<a, b, e>> \/ p = <<a, b, d, e>> \/ p = <<c, a, b, e>> \/ p = <<c, a, b, d, e>>
  BY QueryIs, PlanShapes
<1>2. m = <<b, g>> \/ m = <<c, b, g>> \/ m = <<c, h, g>>
  BY DEF MergedPlan, RewrittenPlan
<1> SUFFICES p[Len(p)] = e /\ p # <<>> /\ m[Len(m)] = g /\ m # <<>>
  OBVIOUS
<1> HIDE DEF a, b, c, d, e, g, h, p, m
<1>3. p[Len(p)] = e /\ p # <<>>
  <2>1. CASE p = <<a, b, e>>
    BY <2>1
  <2>2. CASE p = <<a, b, d, e>>
    BY <2>2
  <2>3. CASE p = <<c, a, b, e>>
    BY <2>3
  <2>4. CASE p = <<c, a, b, d, e>>
    BY <2>4
  <2> QED BY <1>1, <2>1, <2>2, <2>3, <2>4
<1>4. m[Len(m)] = g /\ m # <<>>
  <2>1. CASE m = <<b, g>>
    BY <2>1
  <2>2. CASE m = <<c, b, g>>
    BY <2>2
  <2>3. CASE m = <<c, h, g>>
    BY <2>3
  <2> QED BY <1>2, <2>1, <2>2, <2>3
<1> QED BY <1>3, <1>4

\* A finished plan uses an index just if it is a merged one.
LEMMA UsesIndexIs ==
  ASSUME IInv, phase \in {"planned", "answered"}
  PROVE  /\ query \in Queries
         /\ ~UsesIndex => plan = PlanOf(query)
         /\ UsesIndex => \E index \in Created : /\ Serves(query, index) /\ plan = MergedPlan(query, index)
                                                /\ Scan = ScanOf(query, index)
                                                /\ Scan.bind_data[1].index = index
<1>1. query \in Queries /\ (plan = PlanOf(query) \/ IsMerged)
  BY DEF IInv, PlanInv
<1>2. CASE plan = PlanOf(query)
  <2>1. Scan = TableScan(query)
    BY <1>1, <1>2, LastIs DEF Scan
  <2>2. Scan.bind_data = <<>>
    BY <2>1, OperatorsAre
  <2> QED BY <1>1, <1>2, <2>2 DEF UsesIndex
<1>3. CASE IsMerged
  <2>1. PICK index \in Created : Serves(query, index) /\ plan = MergedPlan(query, index)
    BY <1>3 DEF IsMerged
  <2>2. Scan = ScanOf(query, index) /\ plan # <<>>
    BY <1>1, <2>1, LastIs DEF Scan
  <2>3. Scan.bind_data = <<Bound(query, index)>> /\ Bound(query, index).index = index
    BY <2>2, ScanIs DEF Bound
  <2>4. Scan.bind_data # <<>> /\ Scan.bind_data[1] = Bound(query, index)
    BY <2>3
  <2> QED BY <1>1, <2>1, <2>2, <2>3, <2>4 DEF UsesIndex
<1> QED BY <1>1, <1>2, <1>3

\* In a merged plan of a query that does not show its distance, no projection computes it.
LEMMA NoDistanceIn ==
  ASSUME NEW q \in Queries, NEW i \in 1 .. 2, NEW index,
         NEW f, f \in Range(<<SelectList(q), Remaining(q)>>[i].expressions)
  PROVE  f.kind # "distance"
<1>1. Len(q.select) \in Nat
  BY QueryIs
<1>2. CASE i = 1
  <2>1. PICK j \in DOMAIN SelectList(q).expressions : f = SelectList(q).expressions[j]
    BY <1>2 DEF Range
  <2>2. f = [kind |-> "ref", index |-> j]
    BY <2>1, ExpressionsAre DEF Ref
  <2> QED BY <2>2
<1>3. CASE i = 2
  <2> DEFINE x == Remaining(q).expressions
  <2>1. x = [j \in 1 .. Len(q.select) + 1 |-> IF j <= Len(q.select) THEN Shown(q)[j] ELSE Dropped]
    BY DEF Remaining
  <2>2. PICK j \in DOMAIN x : f = x[j]
    BY <1>3 DEF Range
  <2>3. CASE j <= Len(q.select)
    <3>1. j \in 1 .. Len(q.select)
      BY <1>1, <2>1, <2>2, <2>3
    <3>2. f = Ref(Position(q.select[j], q.columns))
      BY <2>1, <2>2, <2>3, <3>1, ExpressionsAre
    <3> QED BY <3>2 DEF Ref
  <2>4. CASE ~(j <= Len(q.select))
    BY <2>1, <2>2, <2>4 DEF Dropped
  <2> QED BY <2>3, <2>4
<1> QED BY <1>2, <1>3

\* DistanceNotComputedTwice holds in every state.
THEOREM DistanceStaysOut == Spec => []DistanceNotComputedTwice
<1>1. IInv => DistanceNotComputedTwice
  <2>1. SUFFICES ASSUME IInv, phase \in {"planned", "answered"}, UsesIndex, Scan.op # "PDXEARCH_INDEX_SCAN",
                        ~query.showDistance, NEW i \in DOMAIN plan, plan[i].op = "PROJECTION",
                        NEW e \in Range(plan[i].expressions)
                 PROVE  e.kind # "distance"
    BY DEF DistanceNotComputedTwice
  <2>2. query \in Queries
    BY <2>1, UsesIndexIs
  <2>3. PICK index \in Created : plan = MergedPlan(query, index) /\ Scan = ScanOf(query, index)
    BY <2>1, UsesIndexIs
  <2>4. plan = <<SelectList(query), Remaining(query), ScanOf(query, index)>>
    BY <2>1, <2>3 DEF MergedPlan
  <2>5. ScanOf(query, index).op # "PROJECTION"
    BY ScanIs
  <2>6. i \in 1 .. 2 /\ plan[i] = <<SelectList(query), Remaining(query)>>[i]
    <3> DEFINE a == SelectList(query)
               b == Remaining(query)
               c == ScanOf(query, index)
    <3>1. plan = <<a, b, c>> /\ c.op # "PROJECTION"
      BY <2>4, <2>5
    <3> HIDE DEF a, b, c
    <3>2. i \in 1 .. 2 /\ plan[i] = <<a, b>>[i]
      BY <2>1, <3>1
    <3> QED BY <3>2 DEF a, b
  <2> QED BY <2>1, <2>2, <2>6, NoDistanceIn
<1> QED BY <1>1, Invariance, PTL

\* CreatedAsAsked holds of every step.
THEOREM CreationAsAsked == Spec => CreatedAsAsked
<1> DEFINE A(c, o) ==
        LET index == indexes'[Len(indexes')]
        IN  /\ "metric" \in DOMAIN o => /\ o["metric"].value \in DOMAIN DISTANCE_METRIC_MAP
                                        /\ index.metric = DISTANCE_METRIC_MAP[o["metric"].value]
            /\ "quantization" \in DOMAIN o => /\ o["quantization"].value \in DOMAIN QUANTIZATION_MAP
                                              /\ index.quantization = QUANTIZATION_MAP[o["quantization"].value]
            /\ index.n_probe \in Nat /\ ColumnType[c].id = "ARRAY"
<1>1. ASSUME IInv, NEW c \in DOMAIN ColumnType, NEW o \in CreateOptions, CreateIndex(c, o) PROVE A(c, o)
  <2> DEFINE index == indexes'[Len(indexes')]
  <2>1. index = NewIndex(c, o)
    <3>1. indexes \in Seq(Created) /\ indexes' = Append(indexes, NewIndex(c, o)) /\ NewIndex(c, o) \in Created
      BY <1>1, CreatedIs DEF CreateIndex, IInv
    <3>2. Len(indexes') = Len(indexes) + 1 /\ indexes'[Len(indexes) + 1] = NewIndex(c, o)
      BY <3>1, AppendProperties
    <3> QED BY <3>2
  <2>2. \A k \in DOMAIN o : ValidOption(k, o[k])
    BY <1>1 DEF CreateIndex
  <2>3. ColumnType[c].id = "ARRAY"
    BY <1>1 DEF CreateIndex, ValidColumn
  <2> HIDE DEF index
  <2>4. ASSUME "metric" \in DOMAIN o
        PROVE  o["metric"].value \in DOMAIN DISTANCE_METRIC_MAP /\ index.metric = DISTANCE_METRIC_MAP[o["metric"].value]
    <3>1. o["metric"].value \in DOMAIN DISTANCE_METRIC_MAP
      BY <2>2, <2>4 DEF ValidOption
    <3> QED BY <2>1, <2>4, <3>1 DEF NewIndex, Mapped
  <2>5. ASSUME "quantization" \in DOMAIN o
        PROVE  o["quantization"].value \in DOMAIN QUANTIZATION_MAP /\ index.quantization = QUANTIZATION_MAP[o["quantization"].value]
    <3>1. o["quantization"].value \in DOMAIN QUANTIZATION_MAP
      BY <2>2, <2>5 DEF ValidOption
    <3> QED BY <2>1, <2>5, <3>1 DEF NewIndex, Mapped
  <2>6. index.n_probe \in Nat
    <3>1. CASE "n_probe" \in DOMAIN o
      <4>1. o["n_probe"].type = "INTEGER" /\ o["n_probe"].value >= 0
        BY <2>2, <3>1 DEF ValidOption
      <4>2. o["n_probe"].value \in Int
        BY <3>1, <4>1, OptionAssumption
      <4> QED BY <2>1, <3>1, <4>1, <4>2 DEF NewIndex
    <3>2. CASE "n_probe" \notin DOMAIN o
      BY <2>1, <3>2 DEF NewIndex, DEFAULT_N_PROBE
    <3> QED BY <3>1, <3>2
  <2> QED BY <2>3, <2>4, <2>5, <2>6 DEF index
<1>2. IInv /\ [Next]_vars => [\A c \in DOMAIN ColumnType, o \in CreateOptions : CreateIndex(c, o) => A(c, o)]_vars
  <2> SUFFICES ASSUME IInv, NEW c \in DOMAIN ColumnType, NEW o \in CreateOptions, CreateIndex(c, o) PROVE A(c, o)
    OBVIOUS
  <2> QED BY <1>1
<1> QED BY <1>2, Invariance, PTL DEF Spec, CreatedAsAsked

-------------------------------------------------------------------------------
(***************************************************************************)
(* Every operator of a plan refers to columns that the one below it emits. *)
(***************************************************************************)

\* An operator emits as many columns as the nearest projection or scan from it on.
LEMMA WidthIs ==
  ASSUME Len(plan) \in Nat, NEW i \in 1 .. Len(plan), NEW k \in i .. Len(plan),
         plan[k].op \notin {"TOP_N", "FILTER"},
         \A j \in i .. k - 1 : plan[j].op \in {"TOP_N", "FILTER"}
  PROVE  Width(i) = IF plan[k].op = "PROJECTION" THEN Len(plan[k].expressions) ELSE Len(plan[k].column_ids)
<1> DEFINE wide == {j \in i .. Len(plan) : plan[j].op \notin {"TOP_N", "FILTER"}}
<1>1. wide \in SUBSET Nat /\ k \in wide
  OBVIOUS
<1>2. Min(wide) \in wide /\ Min(wide) <= k
  BY <1>1, LeastNumber
<1>3. Min(wide) = k
  <2>1. Min(wide) \in i .. k /\ plan[Min(wide)].op \notin {"TOP_N", "FILTER"}
    BY <1>2
  <2> HIDE DEF wide
  <2> QED BY <2>1
<1> HIDE DEF wide
<1> QED BY <1>3 DEF Width, wide

\* What the expressions of the projections refer to.
LEMMA ReferencesAre ==
  ASSUME NEW q \in Queries
  PROVE  /\ \A e \in Range(SelectList(q).expressions) : ReferencesOf(e) \subseteq 1 .. Len(q.select) + 1
         /\ \A e \in Range(Computation(q).expressions) : ReferencesOf(e) \subseteq 1 .. Len(q.columns)
         /\ \A e \in Range(Remaining(q).expressions) : ReferencesOf(e) \subseteq 1 .. Len(q.columns)
         /\ Len(Computation(q).expressions) = Len(q.select) + 1
         /\ Len(Remaining(q).expressions) = Len(q.select) + 1
<1>1. Len(q.select) \in Nat /\ q.columns \in Seq(DOMAIN ColumnType)
  BY QueryIs
<1> DEFINE n == Len(q.select)
           m == Len(q.columns)
<1>2. n \in Nat /\ m \in Nat /\ DOMAIN q.columns = 1 .. m
  BY <1>1
<1>3. ASSUME NEW c \in Range(q.columns) PROVE Position(c, q.columns) \in 1 .. m
  BY <1>1, <1>2, PositionIs
<1>4. ASSUME NEW i PROVE ReferencesOf(Ref(i)) = {i}
  BY DEF ReferencesOf, Ref
<1>5. ASSUME NEW i \in 1 .. n PROVE Shown(q)[i] = Ref(Position(q.select[i], q.columns)) /\ ReferencesOf(Shown(q)[i]) \subseteq 1 .. m
  <2>1. Shown(q)[i] = Ref(Position(q.select[i], q.columns)) /\ q.select[i] \in Range(q.columns)
    BY ExpressionsAre, QueryIs
  <2> QED BY <1>3, <1>4, <2>1
<1>6. ReferencesOf(Dropped) = {}
  BY DEF ReferencesOf, Dropped
<1>7. ReferencesOf(Distance(q)) \subseteq 1 .. m
  <2> DEFINE args == [i \in 1 .. 2 |-> BoundArgument(q.args[i], q.columns)]
  <2>1. Distance(q) = [kind |-> "distance", fn |-> q.fn, args |-> args]
    BY DEF Distance
  <2>2. ASSUME NEW i \in 1 .. 2, args[i].kind = "ref" PROVE args[i].index \in 1 .. m
    <3>1. IsArgument(q.args[i], q.columns) /\ args[i] = BoundArgument(q.args[i], q.columns)
      BY QueryAssumption
    <3>2. q.args[i].kind = "column" /\ q.args[i].column \in Range(q.columns)
      <4>1. ASSUME q.args[i].kind = "constant" PROVE FALSE
        BY <2>2, <3>1, <4>1 DEF BoundArgument
      <4> QED BY <3>1, <4>1 DEF IsArgument
    <3>3. args[i] = Ref(Position(q.args[i].column, q.columns))
      BY <3>1, <3>2 DEF BoundArgument
    <3> QED BY <1>3, <3>2, <3>3 DEF Ref
  <2> HIDE DEF args
  <2>3. ReferencesOf(Distance(q)) = {a.index : a \in {b \in Range(args) : b.kind = "ref"}}
    BY <2>1 DEF ReferencesOf
  <2>4. Range(args) = {args[i] : i \in 1 .. 2}
    BY DEF Range, args
  <2> QED BY <2>2, <2>3, <2>4
<1>8. ASSUME NEW e \in Range(SelectList(q).expressions) PROVE ReferencesOf(e) \subseteq 1 .. n + 1
  <2>1. PICK j \in 1 .. n : e = SelectList(q).expressions[j]
    BY ExpressionsAre DEF Range
  <2>2. e = Ref(j)
    BY <2>1, ExpressionsAre
  <2> QED BY <1>2, <1>4, <2>2
<1>9. ASSUME NEW e \in Range(Computation(q).expressions) PROVE ReferencesOf(e) \subseteq 1 .. m
  <2>1. PICK j \in 1 .. n + 1 : e = Computation(q).expressions[j]
    BY ExpressionsAre DEF Range
  <2>2. CASE j \in 1 .. n
    <3>1. e = Shown(q)[j]
      BY <2>1, <2>2, ExpressionsAre
    <3> QED BY <1>5, <2>2, <3>1
  <2>3. CASE j = n + 1
    <3>1. e = Distance(q)
      BY <2>1, <2>3, ExpressionsAre
    <3> QED BY <1>7, <3>1
  <2> QED BY <1>2, <2>2, <2>3
<1>10. /\ Remaining(q).expressions = [i \in 1 .. n + 1 |-> IF i <= n THEN Shown(q)[i] ELSE Dropped]
  BY DEF Remaining
<1>11. ASSUME NEW e \in Range(Remaining(q).expressions) PROVE ReferencesOf(e) \subseteq 1 .. m
  <2>1. PICK j \in 1 .. n + 1 : e = IF j <= n THEN Shown(q)[j] ELSE Dropped
    BY <1>10 DEF Range
  <2>2. CASE j \in 1 .. n
    <3>1. e = Shown(q)[j]
      BY <1>2, <2>1, <2>2
    <3> QED BY <1>5, <2>2, <3>1
  <2>3. CASE j = n + 1
    <3>1. e = Dropped
      BY <1>2, <2>1, <2>3
    <3> QED BY <1>6, <3>1
  <2> QED BY <1>2, <2>2, <2>3
<1>12. Len(Remaining(q).expressions) = n + 1
  BY <1>2, <1>10
<1> QED BY <1>8, <1>9, <1>11, <1>12, ExpressionsAre

\* The keys of the TOP_N are columns of the projection below it.
LEMMA KeysAre ==
  ASSUME NEW q \in Queries, NEW k \in DOMAIN TopN(q).orders
  PROVE  TopN(q).orders[k].index \in 1 .. Len(q.select) + 1
<1>1. TopN(q).orders = [i \in DOMAIN q.orders |-> Key(q, q.orders[i])]
  BY OperatorsAre
<1> QED BY <1>1, QueryIs DEF Key

\* References of operator i of the plan lead to what operator i + 1 emits.
Lead(i) ==
    /\ plan[i].op = "PROJECTION" =>
          \A e \in Range(plan[i].expressions) : ReferencesOf(e) \subseteq 1 .. Width(i + 1)
    /\ plan[i].op = "TOP_N" => \A k \in DOMAIN plan[i].orders : plan[i].orders[k].index \in 1 .. Width(i + 1)

\* A select list and a TOP_N lead to a projection of the query, with a TOP_N between or not, and
\* this to the scan, with a filter between or not.
LEMMA OperatorsLead ==
  ASSUME NEW q \in Queries, Len(plan) \in Nat, NEW i \in 1 .. Len(plan) - 1,
         NEW k \in i + 1 .. Len(plan),
         \A j \in i + 1 .. k - 1 : plan[j].op \in {"TOP_N", "FILTER"},
         \/ plan[i] \in {SelectList(q), TopN(q)} /\ plan[k] \in {Computation(q), Remaining(q)}
         \/ plan[i] \in {Computation(q), Remaining(q)} /\ plan[k].op \in {"GET", "PDXEARCH_INDEX_SCAN", "PDXEARCH_INDEX_FILT_SCAN"}
                                                      /\ plan[k].column_ids = q.columns
  PROVE  Lead(i)
<1>1. /\ TopN(q).op = "TOP_N" /\ Computation(q).op = "PROJECTION" /\ SelectList(q).op = "PROJECTION"
      /\ Remaining(q).op = "PROJECTION"
  BY OperatorsAre
<1>2. i + 1 \in 1 .. Len(plan)
  OBVIOUS
<1>3. CASE plan[i] \in {SelectList(q), TopN(q)} /\ plan[k] \in {Computation(q), Remaining(q)}
  <2>1. plan[k].op = "PROJECTION" /\ Len(plan[k].expressions) = Len(q.select) + 1
    BY <1>1, <1>3, ReferencesAre
  <2>2. Width(i + 1) = Len(q.select) + 1
    BY <1>2, <2>1, WidthIs
  <2>3. CASE plan[i] = SelectList(q)
    BY <1>1, <2>2, <2>3, ReferencesAre DEF Lead
  <2>4. CASE plan[i] = TopN(q)
    BY <1>1, <2>2, <2>4, KeysAre DEF Lead
  <2> QED BY <1>3, <2>3, <2>4
<1>4. CASE /\ plan[i] \in {Computation(q), Remaining(q)}
           /\ plan[k].op \in {"GET", "PDXEARCH_INDEX_SCAN", "PDXEARCH_INDEX_FILT_SCAN"}
           /\ plan[k].column_ids = q.columns
  <2>1. Width(i + 1) = Len(q.columns)
    BY <1>2, <1>4, WidthIs
  <2>2. CASE plan[i] = Computation(q)
    BY <1>1, <2>1, <2>2, ReferencesAre DEF Lead
  <2>3. CASE plan[i] = Remaining(q)
    BY <1>1, <2>1, <2>3, ReferencesAre DEF Lead
  <2> QED BY <1>4, <2>2, <2>3
<1> QED BY <1>3, <1>4

\* Every operator of a plan leads to the one below it: of the plan as it was bound,
LEMMA BoundLeads ==
  ASSUME query \in Queries, plan = PlanOf(query)
  PROVE  Len(plan) \in Nat /\ \A i \in 1 .. Len(plan) - 1 : Lead(i)
<1> DEFINE a == TopN(query)
           b == Computation(query)
           c == SelectList(query)
           d == Filter(query)
           e == TableScan(query)
<1>1. plan = <<a, b, e>> \/ plan = <<a, b, d, e>> \/ plan = <<c, a, b, e>> \/ plan = <<c, a, b, d, e>>
  BY QueryIs, PlanShapes
<1>2. /\ a.op = "TOP_N" /\ d.op = "FILTER" /\ e.op = "GET" /\ e.column_ids = query.columns
  BY OperatorsAre
<1>3. \A i : plan[i] = d => Lead(i)
  BY <1>2 DEF Lead
<1>4. SUFFICES ASSUME NEW i \in 1 .. Len(plan) - 1, Len(plan) \in Nat, plan[i] # d PROVE Lead(i)
  <2>1. Len(plan) \in Nat
    <3> HIDE DEF a, b, c, d, e
    <3> QED BY <1>1
  <2> QED BY <1>3, <2>1
<1>5. ASSUME NEW k \in i + 1 .. Len(plan),
             \A j \in i + 1 .. k - 1 : plan[j].op \in {"TOP_N", "FILTER"},
             (plan[i] \in {c, a} /\ plan[k] = b) \/ (plan[i] = b /\ plan[k] = e)
      PROVE  Lead(i)
  BY <1>2, <1>4, <1>5, OperatorsLead
<1> HIDE DEF a, b, c, d, e
<1>6. CASE plan = <<a, b, e>>
  <2>1. i \in 1 .. 2
    BY <1>4, <1>6
  <2>2. i + 1 \in i + 1 .. Len(plan) /\ \A j \in i + 1 .. i + 1 - 1 : plan[j].op \in {"TOP_N", "FILTER"}
    BY <1>6, <2>1
  <2>3. (plan[i] \in {c, a} /\ plan[i + 1] = b) \/ (plan[i] = b /\ plan[i + 1] = e)
    BY <1>6, <2>1
  <2> QED BY <1>5, <2>2, <2>3
<1>7. CASE plan = <<a, b, d, e>>
  <2>1. i \in 1 .. 2
    BY <1>4, <1>7
  <2> DEFINE k == IF i = 1 THEN 2 ELSE 4
  <2>2. k \in i + 1 .. Len(plan) /\ \A j \in i + 1 .. k - 1 : plan[j].op \in {"TOP_N", "FILTER"}
    BY <1>2, <1>7, <2>1
  <2>3. (plan[i] \in {c, a} /\ plan[k] = b) \/ (plan[i] = b /\ plan[k] = e)
    BY <1>7, <2>1
  <2> HIDE DEF k
  <2> QED BY <1>5, <2>2, <2>3
<1>8. CASE plan = <<c, a, b, e>>
  <2>1. i \in 1 .. 3
    BY <1>4, <1>8
  <2> DEFINE k == IF i = 1 THEN 3 ELSE i + 1
  <2>2. k \in i + 1 .. Len(plan) /\ \A j \in i + 1 .. k - 1 : plan[j].op \in {"TOP_N", "FILTER"}
    BY <1>2, <1>8, <2>1
  <2>3. (plan[i] \in {c, a} /\ plan[k] = b) \/ (plan[i] = b /\ plan[k] = e)
    BY <1>8, <2>1
  <2> HIDE DEF k
  <2> QED BY <1>5, <2>2, <2>3
<1>9. CASE plan = <<c, a, b, d, e>>
  <2>1. i \in 1 .. 3
    BY <1>4, <1>9
  <2> DEFINE k == IF i = 1 THEN 3 ELSE IF i = 2 THEN 3 ELSE 5
  <2>2. k \in i + 1 .. Len(plan) /\ \A j \in i + 1 .. k - 1 : plan[j].op \in {"TOP_N", "FILTER"}
    BY <1>2, <1>9, <2>1
  <2>3. (plan[i] \in {c, a} /\ plan[k] = b) \/ (plan[i] = b /\ plan[k] = e)
    BY <1>9, <2>1
  <2> HIDE DEF k
  <2> QED BY <1>5, <2>2, <2>3
<1> QED BY <1>1, <1>6, <1>7, <1>8, <1>9

\* and of one that scans an index.
LEMMA RewrittenLeads ==
  ASSUME query \in Queries, NEW index, plan \in {RewrittenPlan(query, index), MergedPlan(query, index)}
  PROVE  Len(plan) \in Nat /\ \A i \in 1 .. Len(plan) - 1 : Lead(i)
<1> DEFINE b == Computation(query)
           c == SelectList(query)
           h == Remaining(query)
           e == ScanOf(query, index)
<1>1. plan = <<b, e>> \/ plan = <<c, b, e>> \/ plan = <<c, h, e>>
  BY DEF RewrittenPlan, MergedPlan
<1>2. e.op \in {"GET", "PDXEARCH_INDEX_SCAN", "PDXEARCH_INDEX_FILT_SCAN"} /\ e.column_ids = query.columns
  BY ScanIs
<1>3. SUFFICES ASSUME NEW i \in 1 .. Len(plan) - 1, Len(plan) \in Nat PROVE Lead(i)
  <2>1. Len(plan) \in Nat
    <3> HIDE DEF b, c, h, e
    <3> QED BY <1>1
  <2> QED BY <2>1
<1>4. ASSUME i + 1 \in i + 1 .. Len(plan),
             (plan[i] = c /\ plan[i + 1] \in {b, h}) \/ (plan[i] \in {b, h} /\ plan[i + 1] = e)
      PROVE  Lead(i)
  <2>1. \A j \in i + 1 .. i + 1 - 1 : plan[j].op \in {"TOP_N", "FILTER"}
    OBVIOUS
  <2> QED BY <1>2, <1>3, <1>4, <2>1, OperatorsLead
<1> HIDE DEF b, c, h, e
<1>5. CASE plan = <<b, e>>
  <2>1. i = 1
    BY <1>3, <1>5
  <2> QED BY <1>4, <1>5, <2>1
<1>6. CASE plan = <<c, b, e>>
  <2>1. i \in 1 .. 2
    BY <1>3, <1>6
  <2>2. i + 1 \in i + 1 .. Len(plan)
    BY <1>6, <2>1
  <2>3. ((plan[i] = c /\ plan[i + 1] \in {b, h}) \/ (plan[i] \in {b, h} /\ plan[i + 1] = e))
    BY <1>6, <2>1
  <2> QED BY <1>4, <2>2, <2>3
<1>7. CASE plan = <<c, h, e>>
  <2>1. i \in 1 .. 2
    BY <1>3, <1>7
  <2>2. i + 1 \in i + 1 .. Len(plan)
    BY <1>7, <2>1
  <2>3. ((plan[i] = c /\ plan[i + 1] \in {b, h}) \/ (plan[i] \in {b, h} /\ plan[i + 1] = e))
    BY <1>7, <2>1
  <2> QED BY <1>4, <2>2, <2>3
<1> QED BY <1>1, <1>5, <1>6, <1>7

\* An index has a probe count and dimensions that the scan can use.
LEMMA CreatedType ==
  ASSUME NEW index \in Created
  PROVE  index.n_probe \in Nat /\ index.dims \in 1 .. PDX_MAX_DIMS
         /\ \E c \in DOMAIN ColumnType : /\ ColumnType[c].id = "ARRAY" /\ ColumnType[c].child = "FLOAT"
                                         /\ index.column = c /\ index.dims = ColumnType[c].dims
<1>1. PICK c \in DOMAIN ColumnType, o \in CreateOptions :
            /\ ValidColumn(ColumnType[c]) /\ \A k \in DOMAIN o : ValidOption(k, o[k])
            /\ index = NewIndex(c, o)
  BY DEF Created
<1>2. index.n_probe \in Nat
  <2>1. CASE "n_probe" \in DOMAIN o
    <3>1. o["n_probe"].type = "INTEGER" /\ o["n_probe"].value >= 0
      BY <1>1, <2>1 DEF ValidOption
    <3>2. o["n_probe"].value \in Int
      BY <2>1, <3>1, OptionAssumption
    <3> QED BY <1>1, <2>1, <3>1, <3>2 DEF NewIndex
  <2>2. CASE "n_probe" \notin DOMAIN o
    BY <1>1, <2>2 DEF NewIndex, DEFAULT_N_PROBE
  <2> QED BY <2>1, <2>2
<1>3. index.dims = ColumnType[c].dims /\ index.column = c
  BY <1>1 DEF NewIndex
<1>4. /\ ColumnType[c].id = "ARRAY" /\ ColumnType[c].child = "FLOAT" /\ ColumnType[c].dims <= PDX_MAX_DIMS
  BY <1>1 DEF ValidColumn
<1>5. ColumnType[c].dims \in Nat \ {0} /\ PDX_MAX_DIMS \in Nat
  BY <1>4, TableAssumption
<1> QED BY <1>2, <1>3, <1>4, <1>5

\* TypeOK holds in every state.
THEOREM TypeCorrectness == Spec => []TypeOK
<1>1. ASSUME IInv PROVE TypeOK
  <2>1. phase \in {"idle", "optimize", "merge", "planned", "answered"}
    BY <1>1 DEF IInv
  <2>2. \A i \in DOMAIN indexes : indexes[i].n_probe \in Nat /\ indexes[i].dims \in 1 .. PDX_MAX_DIMS
    <3>1. indexes \in Seq(Created)
      BY <1>1 DEF IInv
    <3>2. ASSUME NEW i \in DOMAIN indexes PROVE indexes[i] \in Created
      BY <3>1
    <3> QED BY <3>2, CreatedType
  <2>3. at \in 0 .. Len(plan) + 1 /\ \A i \in 1 .. Len(plan) - 1 : Lead(i)
    <3>1. CASE phase = "idle"
      <4>1. plan = <<>> /\ at = 0
        BY <1>1, <3>1 DEF IInv, PlanInv
      <4>2. Len(plan) = 0
        BY <4>1
      <4> QED BY <4>1, <4>2
    <3>2. CASE phase # "idle"
      <4>1. query \in Queries /\ at \in 1 .. Len(plan) + 1
        BY <1>1, <3>2 DEF IInv, PlanInv
      <4>2. \/ plan = PlanOf(query)
            \/ \E index \in Created : plan \in {RewrittenPlan(query, index), MergedPlan(query, index)}
        <5>1. IsOriginal \/ IsRewritten \/ plan = PlanOf(query) \/ IsMerged
          BY <1>1, <2>1, <3>2 DEF IInv, PlanInv
        <5> QED BY <5>1 DEF IsOriginal, IsRewritten, IsMerged
      <4>3. Len(plan) \in Nat /\ \A i \in 1 .. Len(plan) - 1 : Lead(i)
        BY <4>1, <4>2, BoundLeads, RewrittenLeads
      <4> QED BY <4>1, <4>3
    <3> QED BY <3>1, <3>2
  <2> QED BY <2>1, <2>2, <2>3 DEF TypeOK, Lead
<1> QED BY <1>1, Invariance, PTL

-------------------------------------------------------------------------------
(***************************************************************************)
(* What a plan emits of one row: the same, whether it was merged or not.   *)
(***************************************************************************)

\* What an operator emits, by its kind.
LEMMA EmitsIs ==
  ASSUME NEW operator, NEW r, NEW below
  PROVE  /\ operator.op = "PROJECTION" =>
                Emits(operator, r, below) =
                    [k \in DOMAIN operator.expressions |-> Evaluated(operator.expressions[k], below)]
         /\ operator.op = "TOP_N" => Emits(operator, r, below) = below
         /\ operator.op \in {"GET", "PDXEARCH_INDEX_SCAN", "PDXEARCH_INDEX_FILT_SCAN"} =>
                Emits(operator, r, below) = [k \in DOMAIN operator.column_ids |-> Value(operator.column_ids[k], r)]
<1>1. ASSUME operator.op = "PROJECTION"
      PROVE  Emits(operator, r, below) =
                    [k \in DOMAIN operator.expressions |-> Evaluated(operator.expressions[k], below)]
  <2>1. operator.op \notin {"TOP_N", "FILTER"}
    BY <1>1
  <2> QED BY <1>1, <2>1, Zenon DEF Emits
<1>2. ASSUME operator.op = "TOP_N" PROVE Emits(operator, r, below) = below
  <2>1. operator.op # "PROJECTION" /\ operator.op \in {"TOP_N", "FILTER"}
    BY <1>2
  <2> QED BY <2>1, Zenon DEF Emits
<1>3. ASSUME operator.op \in {"GET", "PDXEARCH_INDEX_SCAN", "PDXEARCH_INDEX_FILT_SCAN"}
      PROVE  Emits(operator, r, below) = [k \in DOMAIN operator.column_ids |-> Value(operator.column_ids[k], r)]
  <2>1. operator.op # "PROJECTION" /\ operator.op \notin {"TOP_N", "FILTER"}
    BY <1>3
  <2> QED BY <2>1, Zenon DEF Emits
<1> QED BY <1>1, <1>2, <1>3

\* An expression's value, by its kind.
LEMMA EvaluatedIs ==
  ASSUME NEW e, NEW below
  PROVE  /\ e.kind = "ref" => Evaluated(e, below) = below[e.index]
         /\ e.kind = "distance" =>
                Evaluated(e, below) =
                    DistanceOf(e.fn,
                        IF e.args[1].kind = "ref" THEN Embedding[below[e.args[1].index][1]][below[e.args[1].index][2]] ELSE EmbeddingOf(e.args[1]),
                        IF e.args[2].kind = "ref" THEN Embedding[below[e.args[2].index][1]][below[e.args[2].index][2]] ELSE EmbeddingOf(e.args[2]))
         /\ e.kind \notin {"ref", "distance"} => Evaluated(e, below) = <<"TINYINT">>
<1>1. ASSUME e.kind = "ref" PROVE Evaluated(e, below) = below[e.index]
  <2>1. e.kind # "distance"
    BY <1>1
  <2> QED BY <1>1, <2>1, Zenon DEF Evaluated
<1>2. ASSUME e.kind = "distance"
      PROVE  Evaluated(e, below) =
                    DistanceOf(e.fn,
                        IF e.args[1].kind = "ref" THEN Embedding[below[e.args[1].index][1]][below[e.args[1].index][2]] ELSE EmbeddingOf(e.args[1]),
                        IF e.args[2].kind = "ref" THEN Embedding[below[e.args[2].index][1]][below[e.args[2].index][2]] ELSE EmbeddingOf(e.args[2]))
  <2>1. e.kind # "ref"
    BY <1>2
  <2> QED BY <1>2, <2>1, Zenon DEF Evaluated
<1>3. ASSUME e.kind \notin {"ref", "distance"} PROVE Evaluated(e, below) = <<"TINYINT">>
  <2>1. e.kind # "ref" /\ e.kind # "distance"
    BY <1>3
  <2> QED BY <2>1, Zenon DEF Evaluated
<1> QED BY <1>1, <1>2, <1>3

\* What the scan, the projection with the distance and the whole plan emit for a row.
Base(q, r) == [k \in DOMAIN q.columns |-> Value(q.columns[k], r)]
Computed(q, r) == [k \in 1 .. Len(q.select) + 1 |-> Evaluated(Computation(q).expressions[k], Base(q, r))]
Final(q, r) == IF q.showDistance THEN Computed(q, r) ELSE [k \in 1 .. Len(q.select) |-> Computed(q, r)[k]]

\* The projection over the columns, and the select list over this projection.
LEMMA ProjectionsEmit ==
  ASSUME NEW q \in Queries, NEW r
  PROVE  /\ Emits(Computation(q), r, Base(q, r)) = Computed(q, r)
         /\ Emits(SelectList(q), r, Computed(q, r)) = [k \in 1 .. Len(q.select) |-> Computed(q, r)[k]]
         /\ Emits(SelectList(q), r, Emits(Remaining(q), r, Base(q, r))) = [k \in 1 .. Len(q.select) |-> Computed(q, r)[k]]
<1>1. /\ Computation(q).op = "PROJECTION" /\ SelectList(q).op = "PROJECTION" /\ Remaining(q).op = "PROJECTION"
      /\ DOMAIN Computation(q).expressions = 1 .. Len(q.select) + 1
      /\ DOMAIN SelectList(q).expressions = 1 .. Len(q.select)
      /\ Len(q.select) \in Nat
  BY OperatorsAre, ExpressionsAre, QueryIs
<1>2. Emits(Computation(q), r, Base(q, r)) = Computed(q, r)
  BY <1>1, EmitsIs DEF Computed
<1>3. ASSUME NEW below PROVE Emits(SelectList(q), r, below) = [k \in 1 .. Len(q.select) |-> below[k]]
  <2>1. ASSUME NEW k \in 1 .. Len(q.select) PROVE Evaluated(SelectList(q).expressions[k], below) = below[k]
    <3>1. SelectList(q).expressions[k] = [kind |-> "ref", index |-> k]
      BY ExpressionsAre DEF Ref
    <3> QED BY <3>1, EvaluatedIs
  <2>2. Emits(SelectList(q), r, below) = [k \in 1 .. Len(q.select) |-> Evaluated(SelectList(q).expressions[k], below)]
    BY <1>1, EmitsIs
  <2> QED BY <2>1, <2>2
<1>4. ASSUME NEW k \in 1 .. Len(q.select) PROVE Emits(Remaining(q), r, Base(q, r))[k] = Computed(q, r)[k]
  <2> DEFINE x == [i \in 1 .. Len(q.select) + 1 |-> IF i <= Len(q.select) THEN Shown(q)[i] ELSE Dropped]
  <2>1. Remaining(q).expressions = x
    BY DEF Remaining
  <2>2. Emits(Remaining(q), r, Base(q, r)) = [i \in DOMAIN x |-> Evaluated(x[i], Base(q, r))]
    BY <1>1, <2>1, EmitsIs
  <2>3. DOMAIN x = 1 .. Len(q.select) + 1 /\ k \in 1 .. Len(q.select) + 1
    BY <1>1
  <2>4. x[k] = Shown(q)[k] /\ Computation(q).expressions[k] = Shown(q)[k]
    BY <1>1, <2>3, ExpressionsAre
  <2> HIDE DEF x
  <2>5. Emits(Remaining(q), r, Base(q, r))[k] = Evaluated(Shown(q)[k], Base(q, r))
    BY <2>2, <2>3, <2>4
  <2>6. Computed(q, r)[k] = Evaluated(Shown(q)[k], Base(q, r))
    BY <2>3, <2>4 DEF Computed
  <2> QED BY <2>5, <2>6
<1> QED BY <1>2, <1>3, <1>4

\* The plan as it was bound emits for a row what the rewritten ones emit.
LEMMA OutputOfBound ==
  ASSUME NEW q \in Queries, q.composite = Rows, NEW r
  PROVE  /\ Output(PlanOf(q), r)[1] = Final(q, r)
         /\ \A i \in DOMAIN PlanOf(q) : /\ PlanOf(q)[i].op = "TOP_N" => Output(PlanOf(q), r)[i] = Computed(q, r)
                                        /\ PlanOf(q)[i].op = "PROJECTION" =>
                                              Output(PlanOf(q), r)[i] \in {Computed(q, r), Final(q, r)}
<1> DEFINE a == TopN(q)
           b == Computation(q)
           c == SelectList(q)
           e == TableScan(q)
           p == PlanOf(q)
           o == Output(PlanOf(q), r)
<1>1. /\ q.showDistance => p = <<a, b, e>>
      /\ ~q.showDistance => p = <<c, a, b, e>>
      /\ q.showDistance \in BOOLEAN
  BY QueryIs, PlanShapes
<1>2. /\ a.op = "TOP_N" /\ b.op = "PROJECTION" /\ c.op = "PROJECTION" /\ e.op = "GET" /\ e.column_ids = q.columns
  BY OperatorsAre
<1>3. \A x : Emits(e, r, x) = Base(q, r)
  BY <1>2, EmitsIs DEF Base
<1>4. \A x : Emits(a, r, x) = x
  BY <1>2, EmitsIs
<1>5. /\ Emits(b, r, Base(q, r)) = Computed(q, r)
      /\ Emits(c, r, Computed(q, r)) = [k \in 1 .. Len(q.select) |-> Computed(q, r)[k]]
  BY ProjectionsEmit
<1>6. a # b /\ c # a /\ e # a /\ e # b
  BY <1>2
<1>7. ASSUME NEW n \in 2 .. 4, DOMAIN p = 1 .. n, p[n] = e PROVE \A i \in 1 .. n : o[i] = Emits(p[i], r, o[i + 1])
  <2>1. p[n].op \notin {"PROJECTION", "TOP_N", "FILTER"}
    BY <1>2, <1>7
  <2> HIDE DEF p
  <2>2. \A i \in 1 .. n : Output(p, r)[i] = Emits(p[i], r, Output(p, r)[i + 1])
    BY <1>7, <2>1, OutputUnfolds
  <2> QED BY <2>2 DEF p
<1> SUFFICES /\ o[1] = Final(q, r)
             /\ \A i \in DOMAIN p : /\ p[i].op = "TOP_N" => o[i] = Computed(q, r)
                                    /\ p[i].op = "PROJECTION" => o[i] \in {Computed(q, r), Final(q, r)}
  OBVIOUS
<1> HIDE DEF a, b, c, e, p, o
<1>8. CASE q.showDistance
  <2>1. p = <<a, b, e>> /\ DOMAIN p = 1 .. 3
    BY <1>1, <1>8
  <2>2. \A i \in 1 .. 3 : o[i] = Emits(p[i], r, o[i + 1])
    BY <1>7, <2>1
  <2>3. o[3] = Base(q, r)
    BY <1>3, <2>1, <2>2
  <2>4. o[2] = Computed(q, r)
    BY <1>5, <2>1, <2>2, <2>3
  <2>5. o[1] = Computed(q, r)
    BY <1>4, <2>1, <2>2, <2>4
  <2> QED BY <1>2, <1>6, <1>8, <2>1, <2>4, <2>5 DEF Final
<1>9. CASE ~q.showDistance
  <2>1. p = <<c, a, b, e>> /\ DOMAIN p = 1 .. 4
    BY <1>1, <1>9
  <2>2. \A i \in 1 .. 4 : o[i] = Emits(p[i], r, o[i + 1])
    BY <1>7, <2>1
  <2>3. o[4] = Base(q, r)
    BY <1>3, <2>1, <2>2
  <2>4. o[3] = Computed(q, r)
    BY <1>5, <2>1, <2>2, <2>3
  <2>5. o[2] = Computed(q, r)
    BY <1>4, <2>1, <2>2, <2>4
  <2>6. o[1] = [k \in 1 .. Len(q.select) |-> Computed(q, r)[k]]
    BY <1>5, <2>1, <2>2, <2>5
  <2> QED BY <1>2, <1>6, <1>9, <2>1, <2>4, <2>5, <2>6 DEF Final
<1> QED BY <1>1, <1>8, <1>9

\* The rewritten plans emit for a row what the plan as it was bound does.
LEMMA OutputOfMerged ==
  ASSUME NEW q \in Queries, NEW index, NEW r
  PROVE  /\ Output(MergedPlan(q, index), r)[1] = Final(q, r)
         /\ \A i \in DOMAIN MergedPlan(q, index) :
               /\ MergedPlan(q, index)[i].op = "PROJECTION"
               /\ \E f \in Range(MergedPlan(q, index)[i].expressions) : f.kind = "distance"
               => Output(MergedPlan(q, index), r)[i] = Computed(q, r)
<1> DEFINE b == Computation(q)
           c == SelectList(q)
           h == Remaining(q)
           e == ScanOf(q, index)
           p == MergedPlan(q, index)
           o == Output(MergedPlan(q, index), r)
           Computes(x) == \E f \in Range(x.expressions) : f.kind = "distance"
<1>1. /\ q.showDistance => p = <<b, e>>
      /\ ~q.showDistance => p = <<c, b, e>> \/ p = <<c, h, e>>
      /\ q.showDistance \in BOOLEAN
  BY QueryIs DEF MergedPlan, RewrittenPlan
<1>2. /\ b.op = "PROJECTION" /\ c.op = "PROJECTION" /\ h.op = "PROJECTION"
      /\ e.op \in {"GET", "PDXEARCH_INDEX_SCAN", "PDXEARCH_INDEX_FILT_SCAN"} /\ e.column_ids = q.columns
  BY OperatorsAre, ScanIs
<1>3. \A x : Emits(e, r, x) = Base(q, r)
  BY <1>2, EmitsIs DEF Base
<1>4. /\ Emits(b, r, Base(q, r)) = Computed(q, r)
      /\ Emits(c, r, Computed(q, r)) = [k \in 1 .. Len(q.select) |-> Computed(q, r)[k]]
      /\ Emits(c, r, Emits(h, r, Base(q, r))) = [k \in 1 .. Len(q.select) |-> Computed(q, r)[k]]
  BY ProjectionsEmit
<1>5. ~Computes(c) /\ ~Computes(h)
  <2>1. 1 \in 1 .. 2 /\ 2 \in 1 .. 2 /\ <<c, h>>[1] = c /\ <<c, h>>[2] = h
    OBVIOUS
  <2> QED BY <2>1, NoDistanceIn
<1>6. ASSUME NEW n \in 2 .. 4, DOMAIN p = 1 .. n, p[n] = e PROVE \A i \in 1 .. n : o[i] = Emits(p[i], r, o[i + 1])
  <2>1. p[n].op \notin {"PROJECTION", "TOP_N", "FILTER"}
    BY <1>2, <1>6
  <2> HIDE DEF p
  <2>2. \A i \in 1 .. n : Output(p, r)[i] = Emits(p[i], r, Output(p, r)[i + 1])
    BY <1>6, <2>1, OutputUnfolds
  <2> QED BY <2>2 DEF p
<1> SUFFICES /\ o[1] = Final(q, r)
             /\ \A i \in DOMAIN p : p[i].op = "PROJECTION" /\ Computes(p[i]) => o[i] = Computed(q, r)
  OBVIOUS
<1> HIDE DEF b, c, h, e, p, o, Computes
<1>7. CASE q.showDistance
  <2>1. p = <<b, e>> /\ DOMAIN p = 1 .. 2
    BY <1>1, <1>7
  <2>2. \A i \in 1 .. 2 : o[i] = Emits(p[i], r, o[i + 1])
    BY <1>6, <2>1
  <2>3. o[2] = Base(q, r)
    BY <1>3, <2>1, <2>2
  <2>4. o[1] = Computed(q, r)
    BY <1>4, <2>1, <2>2, <2>3
  <2> QED BY <1>2, <1>7, <2>1, <2>4 DEF Final
<1>8. CASE ~q.showDistance
  <2>1. p = <<c, b, e>> \/ p = <<c, h, e>>
    BY <1>1, <1>8
  <2>2. DOMAIN p = 1 .. 3 /\ p[3] = e /\ p[1] = c /\ p[2] \in {b, h}
    BY <2>1
  <2>3. \A i \in 1 .. 3 : o[i] = Emits(p[i], r, o[i + 1])
    BY <1>6, <2>2
  <2>4. o[3] = Base(q, r)
    BY <1>3, <2>2, <2>3
  <2>5. o[2] = Emits(p[2], r, Base(q, r)) /\ o[1] = Emits(c, r, o[2])
    BY <2>2, <2>3, <2>4
  <2>6. o[1] = [k \in 1 .. Len(q.select) |-> Computed(q, r)[k]]
    BY <1>4, <2>2, <2>5
  <2>7. p[2] = b => o[2] = Computed(q, r)
    BY <1>4, <2>5
  <2>8. o[1] = Final(q, r)
    BY <1>8, <2>6 DEF Final
  <2> QED BY <1>2, <1>5, <2>2, <2>7, <2>8
<1> QED BY <1>1, <1>7, <1>8

\* What a projection and a scan pass on.
LEMMA PassesOnIs ==
  ASSUME NEW operator, NEW emitted, NEW below
  PROVE  /\ operator.op = "PROJECTION" => PassesOn(operator, emitted, below) = below
         /\ operator.op \in {"GET", "PDXEARCH_INDEX_SCAN", "PDXEARCH_INDEX_FILT_SCAN"} =>
                PassesOn(operator, emitted, below) = Scanned(operator)
<1>1. ASSUME operator.op = "PROJECTION" PROVE PassesOn(operator, emitted, below) = below
  <2>1. operator.op # "TOP_N" /\ operator.op # "FILTER"
    BY <1>1
  <2> QED BY <1>1, <2>1, Zenon DEF PassesOn
<1>2. ASSUME operator.op \in {"GET", "PDXEARCH_INDEX_SCAN", "PDXEARCH_INDEX_FILT_SCAN"}
      PROVE  PassesOn(operator, emitted, below) = Scanned(operator)
  <2>1. operator.op # "PROJECTION" /\ operator.op # "FILTER" /\ operator.op # "TOP_N"
    BY <1>2
  <2> QED BY <2>1, Zenon DEF PassesOn
<1> QED BY <1>1, <1>2

\* The rows that the operators of a plan pass on, numbered from the scan.
LEMMA StreamsUnfold ==
  ASSUME NEW p, NEW n \in 2 .. 4, DOMAIN p = 1 .. n,
         p[n].op \in {"GET", "PDXEARCH_INDEX_SCAN", "PDXEARCH_INDEX_FILT_SCAN"}
  PROVE  \A i \in 1 .. n : Streams(p)[i] = PassesOn(p[i], [r \in Rows |-> Output(p, r)[i]], Streams(p)[i + 1])
<1> DEFINE emitted(i) == [r \in Rows |-> Output(p, r)[i]]
           s1 == Scanned(p[n])
           s2 == PassesOn(p[n - 1], emitted(n - 1), s1)
           s3 == PassesOn(p[n - 2], emitted(n - 2), s2)
           s4 == PassesOn(p[n - 3], emitted(n - 3), s3)
           f == [i \in 1 .. n |-> IF i = n THEN s1 ELSE IF i = n - 1 THEN s2 ELSE IF i = n - 2 THEN s3 ELSE s4]
<1>1. \A x, y : PassesOn(p[n], x, y) = s1
  BY PassesOnIs
<1>2. ASSUME NEW i \in 1 .. n PROVE f[i] = PassesOn(p[i], emitted(i), f[i + 1])
  <2> HIDE DEF emitted
  <2>1. CASE i = n
    BY <1>1, <2>1
  <2>2. CASE i = n - 1
    <3>1. f[i] = s2 /\ f[i + 1] = s1
      BY <2>2
    <3> QED BY <2>2, <3>1
  <2>3. CASE i = n - 2
    <3>1. f[i] = s3 /\ f[i + 1] = s2
      BY <2>3
    <3> QED BY <2>3, <3>1
  <2>4. CASE i = n - 3
    <3>1. f[i] = s4 /\ f[i + 1] = s3
      BY <2>4
    <3> QED BY <2>4, <3>1
  <2> QED BY <2>1, <2>2, <2>3, <2>4
<1>3. f = [i \in DOMAIN p |-> PassesOn(p[i], [r \in Rows |-> Output(p, r)[i]], f[i + 1])]
  <2>1. f = [i \in 1 .. n |-> f[i]]
    OBVIOUS
  <2> HIDE DEF f
  <2> QED BY <1>2, <2>1
<1> HIDE DEF f
<1>4. Streams(p) = [i \in DOMAIN p |-> PassesOn(p[i], [r \in Rows |-> Output(p, r)[i]], Streams(p)[i + 1])]
  BY <1>3 DEF Streams
<1> QED BY <1>4

-------------------------------------------------------------------------------
(***************************************************************************)
(* What an index compares is what the distance function of the query       *)
(* computes, up to a scale that keeps the order.                           *)
(***************************************************************************)

\* A sum of integers is one: the definition by recursion has a solution for every length.
LEMMA SumIs ==
  ASSUME NEW n \in Nat, NEW s \in [1 .. n -> Int]
  PROVE  Sum(s) \in Int
<1> DEFINE Sums(f, m) == f = [k \in 0 .. m |-> IF k = 0 THEN 0 ELSE f[k - 1] + s[k]]
           none == {m \in 0 .. n : ~\E f : Sums(f, m)}
<1>1. \A m \in 0 .. n : \E f : Sums(f, m)
  <2>1. SUFFICES ASSUME none # {} PROVE FALSE
    OBVIOUS
  <2>2. none \in SUBSET Nat
    OBVIOUS
  <2> DEFINE m == Min(none)
  <2>3. m \in none /\ \A k \in none : m <= k
    BY <2>1, <2>2, LeastNumber
  <2>4. m \in 0 .. n /\ ~\E f : Sums(f, m)
    BY <2>3
  <2>5. m # 0
    <3>1. SUFFICES ASSUME m = 0 PROVE FALSE
      OBVIOUS
    <3>2. Sums([k \in 0 .. 0 |-> 0], 0)
      OBVIOUS
    <3> HIDE DEF Sums
    <3> QED BY <2>4, <3>1, <3>2
  <2>6. m - 1 \in 0 .. n /\ m - 1 \notin none
    <3>1. m \in 0 .. n /\ m # 0 /\ \A k \in none : m <= k
      BY <2>3, <2>4, <2>5
    <3> HIDE DEF m, none
    <3>2. m - 1 \in 0 .. n /\ ~(m <= m - 1)
      BY <3>1
    <3> QED BY <3>1, <3>2
  <2>7. PICK f : Sums(f, m - 1)
    BY <2>6
  <2> HIDE DEF none, m
  <2> DEFINE g == [k \in 0 .. m |-> IF k = m THEN f[m - 1] + s[m] ELSE f[k]]
  <2>8. ASSUME NEW k \in 0 .. m PROVE g[k] = IF k = 0 THEN 0 ELSE g[k - 1] + s[k]
    <3>1. CASE k = m
      <4>1. g[k] = f[m - 1] + s[m] /\ g[k - 1] = f[m - 1]
        BY <2>4, <2>5, <3>1
      <4> QED BY <2>5, <3>1, <4>1
    <3>2. CASE k # m
      <4>1. k \in 0 .. m - 1
        BY <2>4, <3>2
      <4>2. f[k] = IF k = 0 THEN 0 ELSE f[k - 1] + s[k]
        BY <2>7, <4>1
      <4>3. g[k] = f[k]
        BY <3>2
      <4>4. k # 0 => g[k - 1] = f[k - 1]
        BY <2>4, <4>1
      <4> QED BY <4>2, <4>3, <4>4
    <3> QED BY <3>1, <3>2
  <2>9. g = [k \in 0 .. m |-> g[k]]
    OBVIOUS
  <2> HIDE DEF g
  <2>10. g = [k \in 0 .. m |-> IF k = 0 THEN 0 ELSE g[k - 1] + s[k]]
    BY <2>8, <2>9
  <2> QED BY <2>4, <2>10
<1> DEFINE sum == CHOOSE f : f = [k \in 0 .. n |-> IF k = 0 THEN 0 ELSE f[k - 1] + s[k]]
<1>2. sum = [k \in 0 .. n |-> IF k = 0 THEN 0 ELSE sum[k - 1] + s[k]]
  <2>1. \E f : f = [k \in 0 .. n |-> IF k = 0 THEN 0 ELSE f[k - 1] + s[k]]
    BY <1>1
  <2> QED BY <2>1
<1>3. Len(s) = n
  OBVIOUS
<1>4. Sum(s) = sum[n]
  BY <1>3, Zenon DEF Sum
<1> HIDE DEF sum
<1> DEFINE odd == {m \in 0 .. n : sum[m] \notin Int}
<1>5. odd = {}
  <2>1. SUFFICES ASSUME odd # {} PROVE FALSE
    OBVIOUS
  <2>2. odd \in SUBSET Nat
    OBVIOUS
  <2> DEFINE m == Min(odd)
  <2>3. m \in odd /\ \A k \in odd : m <= k
    BY <2>1, <2>2, LeastNumber
  <2>4. m \in 0 .. n /\ sum[m] \notin Int
    BY <2>3
  <2>5. m # 0
    BY <1>2, <2>4
  <2>6. m - 1 \in 0 .. n /\ m - 1 \notin odd
    BY <2>2, <2>3, <2>4, <2>5
  <2>7. sum[m - 1] \in Int
    BY <2>6
  <2> HIDE DEF m, odd
  <2>8. sum[m] = sum[m - 1] + s[m] /\ s[m] \in Int
    BY <1>2, <2>4, <2>5
  <2> QED BY <2>4, <2>7, <2>8
<1> QED BY <1>4, <1>5

\* Products and squares of differences do not depend on the order of the embeddings.
LEMMA DotIs ==
  ASSUME NEW n \in Nat, NEW l \in [1 .. n -> Int], NEW r \in [1 .. n -> Int]
  PROVE  Dot(l, r) \in Int /\ Dot(l, r) = Dot(r, l) /\ SumOfSquares(l, r) = SumOfSquares(r, l)
<1>1. [i \in DOMAIN l |-> l[i] * r[i]] \in [1 .. n -> Int]
  OBVIOUS
<1>2. [i \in DOMAIN l |-> l[i] * r[i]] = [i \in DOMAIN r |-> r[i] * l[i]]
  OBVIOUS
<1>3. [i \in DOMAIN l |-> (l[i] - r[i]) * (l[i] - r[i])] = [i \in DOMAIN r |-> (r[i] - l[i]) * (r[i] - l[i])]
  <2>1. \A x, y \in Int : (x - y) * (x - y) = (y - x) * (y - x)
    OBVIOUS
  <2>2. \A i \in 1 .. n : (l[i] - r[i]) * (l[i] - r[i]) = (r[i] - l[i]) * (r[i] - l[i])
    BY <2>1
  <2> QED BY <2>2
<1> QED BY <1>1, <1>2, <1>3, SumIs DEF Dot, SumOfSquares

\* The same of the similarity.
LEMMA SimilarityIs ==
  ASSUME NEW n \in Nat, NEW l \in [1 .. n -> Int], NEW r \in [1 .. n -> Int]
  PROVE  Similarity(l, r) = Similarity(r, l)
<1>1. Dot(l, r) = Dot(r, l) /\ Dot(l, l) \in Int /\ Dot(r, r) \in Int
  BY DotIs
<1>2. Dot(l, l) * Dot(r, r) = Dot(r, r) * Dot(l, l)
  BY <1>1
<1> QED BY <1>1, <1>2, Zenon DEF Similarity

\* The number that the query orders by.
QueryDistance(f, l, r) == IF f \in Functions("l2sq") THEN SumOfSquares(l, r) ELSE CosineDistance(l, r)

\* The distance of two embeddings of the same length, and of a missing one.
LEMMA DistanceOfIs ==
  ASSUME NEW f, NEW l, NEW r
  PROVE  /\ l = <<>> \/ r = <<>> => DistanceOf(f, l, r) = Null
         /\ l # <<>> /\ r # <<>> /\ Len(l) = Len(r) =>
                DistanceOf(f, l, r) = <<"distance", QueryDistance(f, l, r)>>
<1>1. ASSUME l = <<>> \/ r = <<>> PROVE DistanceOf(f, l, r) = Null
  <2>1. ~(l # <<>> /\ r # <<>>)
    BY <1>1
  <2> QED BY <1>1, <2>1, Zenon DEF DistanceOf
<1>2. ASSUME l # <<>>, r # <<>>, Len(l) = Len(r), f \in Functions("l2sq")
      PROVE  DistanceOf(f, l, r) = <<"distance", SumOfSquares(l, r)>>
  <2>1. ~(l = <<>> \/ r = <<>>) /\ ~(l # <<>> /\ r # <<>> /\ Len(l) # Len(r))
    BY <1>2
  <2> QED BY <1>2, <2>1, Zenon DEF DistanceOf
<1>3. ASSUME l # <<>>, r # <<>>, Len(l) = Len(r), f \notin Functions("l2sq")
      PROVE  DistanceOf(f, l, r) = <<"distance", CosineDistance(l, r)>>
  <2>1. ~(l = <<>> \/ r = <<>>) /\ ~(l # <<>> /\ r # <<>> /\ Len(l) # Len(r))
    BY <1>3
  <2> QED BY <1>3, <2>1, Zenon DEF DistanceOf
<1> QED BY <1>1, <1>2, <1>3 DEF QueryDistance

\* The index orders the embeddings that have a direction as the query does.
LEMMA OrderKept ==
  ASSUME NEW index, NEW f \in Functions(index.metric), NEW n \in Nat,
         NEW c \in [1 .. n -> Int], NEW x \in [1 .. n -> Int], NEW y \in [1 .. n -> Int],
         index.metric \in {"l2sq", "cosine"},
         index.metric = "cosine" => ~IsZero(x) /\ ~IsZero(y)
  PROVE  /\ QueryDistance(f, x, c) = QueryDistance(f, c, x)
         /\ QueryDistance(f, x, c) < QueryDistance(f, y, c) => IndexDistance(index, x, c) < IndexDistance(index, y, c)
<1>1. CASE index.metric = "l2sq"
  <2>1. f \in Functions("l2sq")
    BY <1>1
  <2>2. \A l, r : IndexDistance(index, l, r) = SumOfSquares(l, r)
    BY <1>1, Zenon DEF IndexDistance
  <2> QED BY <2>1, <2>2, DotIs DEF QueryDistance
<1>2. CASE index.metric = "cosine"
  <2>1. f \notin Functions("l2sq")
    BY <1>2 DEF Functions
  <2>2. Similarity(x, c) = Similarity(c, x)
    BY SimilarityIs
  <2>3. CosineDistance(x, c) = CosineDistance(c, x)
    BY <2>2 DEF CosineDistance
  <2>4. ASSUME IsZero(c) PROVE CosineDistance(x, c) = 200 /\ CosineDistance(y, c) = 200
    BY <2>4 DEF CosineDistance, Similar
  <2>5. ASSUME ~IsZero(c), NEW l, ~IsZero(l) PROVE CosineDistance(l, c) = IndexDistance(index, l, c)
    <3>1. CosineDistance(l, c) = Similar - Similarity(l, c)
      BY <2>5 DEF CosineDistance
    <3>2. index.metric # "l2sq"
      BY <1>2
    <3>3. IndexDistance(index, l, c) = Similar - Similarity(l, c)
      BY <1>2, <2>5, <3>2, Zenon DEF IndexDistance
    <3> QED BY <3>1, <3>3
  <2>6. ASSUME CosineDistance(x, c) < CosineDistance(y, c) PROVE IndexDistance(index, x, c) < IndexDistance(index, y, c)
    <3>1. ~IsZero(c)
      <4>1. SUFFICES ASSUME IsZero(c) PROVE FALSE
        OBVIOUS
      <4> QED BY <2>4, <2>6, <4>1
    <3> QED BY <1>2, <2>5, <2>6, <3>1
  <2> QED BY <2>1, <2>3, <2>6 DEF QueryDistance
<1> QED BY <1>1, <1>2

\* A decoded blob is an embedding of as many integers.
LEMMA DecodedIs ==
  ASSUME NEW n \in Nat, NEW codes \in [1 .. n -> Int]
  PROVE  DecodeBlob(codes) \in [1 .. n -> Int]
<1>1. ASSUME NEW c \in Int PROVE Decode(c) \in Int
  <2>1. ScaleOf(c) \in 0 .. 3 /\ c \div 4 \in Int
    BY DEF ScaleOf
  <2>2. \A x \in 0 .. 3 : Scale[x] \in Int
    BY DEF Scale
  <2> QED BY <2>1, <2>2 DEF Decode
<1> QED BY <1>1 DEF DecodeBlob

\* In a query that an index serves, one argument of the distance is the column of the index, and
\* the other a constant of as many dimensions.
LEMMA ServedArguments ==
  ASSUME NEW q \in Queries, NEW index \in Created, Serves(q, index)
  PROVE  /\ Distance(q).kind = "distance" /\ Distance(q).fn = q.fn /\ q.fn \in Functions(index.metric)
         /\ index.column \in Range(q.columns)
         /\ \E i \in 1 .. 2 :
               /\ q.args[i].kind = "column" /\ q.args[i].column = index.column
               /\ q.args[3 - i].kind = "constant"
               /\ Distance(q).args[i] = Ref(Position(index.column, q.columns))
               /\ Distance(q).args[3 - i] = q.args[3 - i]
               /\ ConstantOf(Distance(q)) = q.args[3 - i]
               /\ EmbeddingOf(q.args[3 - i]) \in [1 .. index.dims -> Int]
<1> DEFINE e == Distance(q)
<1>1. e = [kind |-> "distance", fn |-> q.fn, args |-> [i \in 1 .. 2 |-> BoundArgument(q.args[i], q.columns)]]
  BY DEF Distance
<1>2. Matches(index, e, q.columns)
  BY DEF Serves
<1>3. /\ q.fn \in Functions(index.metric)
      /\ \A i \in 1 .. 2 : ArgumentMatches(e.args[i], q.columns, index.dims)
      /\ ConstantOf(e).type = "BLOB" => BlobDimensionCount(ConstantOf(e).bytes) = index.dims
  BY <1>1, <1>2 DEF Matches
<1>4. PICK i \in 1 .. 2 : IsIndexedColumnAndConstant(e.args[i], e.args[3 - i], index, q.columns)
  BY <1>2 DEF Matches
<1>5. /\ e.args[i].kind = "ref" /\ index.column \in Range(q.columns)
      /\ e.args[i].index = Position(index.column, q.columns)
      /\ e.args[3 - i].kind = "constant"
  BY <1>4 DEF IsIndexedColumnAndConstant
<1>6. \A j \in 1 .. 2 : IsArgument(q.args[j], q.columns) /\ e.args[j] = BoundArgument(q.args[j], q.columns)
  BY <1>1, QueryAssumption
<1>7. 3 - i \in 1 .. 2 /\ i \in 1 .. 2
  OBVIOUS
<1>8. q.args[i].kind = "column" /\ q.args[i].column \in Range(q.columns)
  <2>1. ASSUME q.args[i].kind = "constant" PROVE FALSE
    <3>1. e.args[i] = q.args[i]
      BY <1>6, <1>7, <2>1 DEF BoundArgument
    <3> QED BY <1>5, <2>1, <3>1
  <2>2. IsArgument(q.args[i], q.columns)
    BY <1>6
  <2> QED BY <2>1, <2>2 DEF IsArgument
<1>9. e.args[i] = Ref(Position(q.args[i].column, q.columns))
  BY <1>6, <1>7, <1>8 DEF BoundArgument
<1>10. q.args[i].column = index.column
  <2>1. Position(q.args[i].column, q.columns) = Position(index.column, q.columns)
    BY <1>5, <1>9 DEF Ref
  <2>2. q.columns \in Seq(DOMAIN ColumnType)
    BY QueryIs
  <2>3. q.columns[Position(q.args[i].column, q.columns)] = q.args[i].column
    BY <1>8, <2>2, PositionIs
  <2>4. q.columns[Position(index.column, q.columns)] = index.column
    BY <1>5, <2>2, PositionIs
  <2> QED BY <2>1, <2>3, <2>4
<1>11. q.args[3 - i].kind = "constant" /\ e.args[3 - i] = q.args[3 - i]
  <2>1. e.args[3 - i] = BoundArgument(q.args[3 - i], q.columns) /\ IsArgument(q.args[3 - i], q.columns)
    BY <1>6, <1>7
  <2>2. ASSUME q.args[3 - i].kind = "column" PROVE FALSE
    <3>1. e.args[3 - i].kind = "ref"
      BY <2>1, <2>2 DEF BoundArgument, Ref
    <3> QED BY <1>5, <3>1
  <2>3. q.args[3 - i].kind = "constant"
    BY <2>1, <2>2 DEF IsArgument
  <2> QED BY <2>1, <2>3 DEF BoundArgument
<1>12. ConstantOf(e) = q.args[3 - i]
  <2>1. CASE i = 1
    <3>1. 3 - i = 2 /\ e.args[1].kind = "ref"
      BY <1>5, <2>1
    <3> QED BY <1>11, <3>1 DEF ConstantOf
  <2>2. CASE i = 2
    <3>1. 3 - i = 1
      BY <2>2
    <3> QED BY <1>11, <3>1 DEF ConstantOf
  <2> QED BY <2>1, <2>2
<1>13. EmbeddingOf(q.args[3 - i]) \in [1 .. index.dims -> Int]
  <2> DEFINE const == q.args[3 - i]
  <2>1. const.kind = "constant" /\ IsArgument(const, q.columns) /\ e.args[3 - i] = const
    BY <1>6, <1>7, <1>11
  <2>2. ArgumentMatches(const, q.columns, index.dims)
    BY <1>3, <1>7, <2>1
  <2>3. const.type = "BLOB" => const.bytes \div 2 = index.dims
    BY <1>3, <1>12 DEF BlobDimensionCount
  <2>4. index.dims \in Nat
    BY CreatedType
  <2> HIDE DEF const
  <2>5. CASE const.type = "BLOB"
    <3>1. const.data \in Seq(Int) /\ const.bytes = 2 * Len(const.data)
      BY <2>1, <2>5 DEF IsArgument
    <3>2. Len(const.data) = index.dims
      <4>1. Len(const.data) \in Nat
        BY <3>1
      <4>2. \A x \in Nat : (2 * x) \div 2 = x
        OBVIOUS
      <4> QED BY <2>3, <2>5, <3>1, <4>1, <4>2
    <3>3. const.data \in [1 .. index.dims -> Int]
      BY <3>1, <3>2
    <3> QED BY <2>4, <2>5, <3>3, DecodedIs DEF EmbeddingOf, const
  <2>6. CASE const.type # "BLOB"
    <3>1. const.data \in Seq(Int) /\ Len(const.data) = index.dims
      BY <2>1, <2>2, <2>6 DEF IsArgument, ArgumentMatches
    <3>2. const.data \in [1 .. index.dims -> Int]
      BY <3>1
    <3> QED BY <2>6, <3>2 DEF EmbeddingOf, const
  <2> QED BY <2>5, <2>6
<1>14. /\ q.args[i].kind = "column" /\ q.args[i].column = index.column
       /\ q.args[3 - i].kind = "constant"
       /\ e.args[i] = Ref(Position(index.column, q.columns))
       /\ e.args[3 - i] = q.args[3 - i]
       /\ ConstantOf(e) = q.args[3 - i]
       /\ EmbeddingOf(q.args[3 - i]) \in [1 .. index.dims -> Int]
  BY <1>8, <1>9, <1>10, <1>11, <1>12, <1>13
<1>15. e.kind = "distance" /\ e.fn = q.fn
  BY <1>1
<1> QED BY <1>3, <1>5, <1>14, <1>15, Zenon

\* The embeddings of an indexed column have the dimensions of the index.
LEMMA EmbeddingsAre ==
  ASSUME NEW index \in Created
  PROVE  /\ index.dims \in Nat \ {0}
         /\ Embedding[index.column] \in [Rows -> {<<>>} \cup [1 .. index.dims -> Int]]
BY CreatedType, TableAssumption

\* The metric of an index is one that it computes.
LEMMA MetricIs ==
  ASSUME NEW index \in Created
  PROVE  index.metric \in {"l2sq", "cosine"}
<1>1. PICK c \in DOMAIN ColumnType, o \in CreateOptions : index = NewIndex(c, o)
  BY DEF Created
<1>2. index.metric = Mapped(o, "metric", DISTANCE_METRIC_MAP, "l2sq")
  BY <1>1 DEF NewIndex
<1>3. \A k \in DOMAIN DISTANCE_METRIC_MAP : DISTANCE_METRIC_MAP[k] \in {"l2sq", "cosine"}
  BY DEF DISTANCE_METRIC_MAP
<1> QED BY <1>2, <1>3 DEF Mapped

\* The columns that the projection emits for a row, and its distance.
LEMMA ComputedIs ==
  ASSUME NEW q \in Queries, NEW index \in Created, Serves(q, index), NEW r \in Rows
  PROVE  LET v == Embedding[index.column][r]
             c == EmbeddingOf(ConstantOf(Distance(q)))
         IN  /\ \A k \in 1 .. Len(q.select) : Computed(q, r)[k] = Value(q.select[k], r)
             /\ c \in [1 .. index.dims -> Int]
             /\ Computed(q, r)[Len(q.select) + 1] \in {DistanceOf(q.fn, v, c), DistanceOf(q.fn, c, v)}
<1> DEFINE v == Embedding[index.column][r]
           c == EmbeddingOf(ConstantOf(Distance(q)))
           n == Len(q.select)
           e == Distance(q)
           at1 == Position(index.column, q.columns)
<1>1. n \in Nat /\ q.columns \in Seq(DOMAIN ColumnType) /\ DOMAIN q.columns = 1 .. Len(q.columns)
  BY QueryIs
<1>2. ASSUME NEW column \in Range(q.columns) PROVE Base(q, r)[Position(column, q.columns)] = Value(column, r)
  BY <1>1, PositionIs DEF Base
<1>3. ASSUME NEW k \in 1 .. n PROVE Computed(q, r)[k] = Value(q.select[k], r)
  <2>1. Computation(q).expressions[k] = [kind |-> "ref", index |-> Position(q.select[k], q.columns)]
    <3>1. Computation(q).expressions[k] = Shown(q)[k] /\ Shown(q)[k] = Ref(Position(q.select[k], q.columns))
      BY ExpressionsAre
    <3> QED BY <3>1 DEF Ref
  <2>2. Computed(q, r)[k] = Evaluated(Computation(q).expressions[k], Base(q, r))
    BY <1>1 DEF Computed
  <2>3. Computed(q, r)[k] = Base(q, r)[Position(q.select[k], q.columns)]
    BY <2>1, <2>2, EvaluatedIs
  <2>4. q.select[k] \in Range(q.columns)
    BY QueryIs
  <2> QED BY <1>2, <2>3, <2>4
<1>4. PICK i \in 1 .. 2 :
        /\ q.args[3 - i].kind = "constant"
        /\ e.args[i] = Ref(at1)
        /\ e.args[3 - i] = q.args[3 - i]
        /\ ConstantOf(e) = q.args[3 - i]
        /\ EmbeddingOf(q.args[3 - i]) \in [1 .. index.dims -> Int]
  BY ServedArguments
<1>5. e.kind = "distance" /\ e.fn = q.fn /\ index.column \in Range(q.columns)
  BY ServedArguments
<1>6. Computed(q, r)[n + 1] = Evaluated(e, Base(q, r))
  BY <1>1, ExpressionsAre DEF Computed
<1> DEFINE argument(a) == IF a.kind = "ref" THEN Embedding[Base(q, r)[a.index][1]][Base(q, r)[a.index][2]] ELSE EmbeddingOf(a)
<1>7. Evaluated(e, Base(q, r)) = DistanceOf(q.fn, argument(e.args[1]), argument(e.args[2]))
  BY <1>5, EvaluatedIs
<1>8. argument(e.args[i]) = v
  <2>1. e.args[i].kind = "ref" /\ e.args[i].index = at1
    BY <1>4 DEF Ref
  <2>2. Base(q, r)[at1] = <<index.column, r>>
    BY <1>2, <1>5 DEF Value
  <2> QED BY <2>1, <2>2
<1>9. argument(e.args[3 - i]) = c
  <2>1. e.args[3 - i].kind # "ref" /\ e.args[3 - i] = ConstantOf(e)
    BY <1>4
  <2> QED BY <2>1
<1> HIDE DEF argument, v, c, e, n
<1>10. Computed(q, r)[n + 1] \in {DistanceOf(q.fn, v, c), DistanceOf(q.fn, c, v)}
  <2>1. CASE i = 1
    <3>1. 3 - i = 2
      BY <2>1
    <3> QED BY <1>6, <1>7, <1>8, <1>9, <2>1, <3>1
  <2>2. CASE i = 2
    <3>1. 3 - i = 1
      BY <2>2
    <3> QED BY <1>6, <1>7, <1>8, <1>9, <2>2, <3>1
  <2> QED BY <2>1, <2>2
<1>11. c \in [1 .. index.dims -> Int]
  BY <1>4 DEF c, e
<1> QED BY <1>3, <1>10, <1>11 DEF v, c, n

-------------------------------------------------------------------------------
(***************************************************************************)
(* The rows that pass a scan, in an order, and a window of them.           *)
(***************************************************************************)

\* A finite set in some order.
LEMMA SetToSeqIs ==
  ASSUME NEW S, IsFiniteSet(S)
  PROVE  /\ Cardinality(S) \in Nat
         /\ SetToSeq(S) \in [1 .. Cardinality(S) -> S]
         /\ SetToSeq(S) \in Seq(S)
         /\ Range(SetToSeq(S)) = S
         /\ SetToSeq(S) \in SetToSeqs(S)
<1> DEFINE n == Cardinality(S)
           s == SetToSeq(S)
<1>1. n \in Nat /\ ExistsBijection(1 .. n, S)
  BY FS_CardinalityType
<1>2. PICK f : f \in Bijection(1 .. n, S)
  BY <1>1, Fun_ExistsBij
<1>3. f \in [1 .. n -> S] /\ IsInjective(f)
  <2>1. f \in [1 .. n -> S] /\ \A a, b \in 1 .. n : f[a] = f[b] => a = b
    BY <1>2, Fun_BijectionProperties
  <2>2. DOMAIN f = 1 .. n
    BY <2>1
  <2> QED BY <2>1, <2>2 DEF IsInjective
<1>4. s \in [1 .. n -> S] /\ IsInjective(s)
  BY <1>3 DEF SetToSeq
<1> HIDE DEF s, n
<1>5. s \in Injection(1 .. n, S)
  BY <1>4, Fun_IsInj DEF IsInjective
<1>6. Cardinality(1 .. n) = n
  BY <1>1, FS_Interval DEF n
<1>7. s \in Surjection(1 .. n, S)
  BY <1>5, <1>6, FS_Injection DEF n
<1>8. Range(s) = S
  BY <1>7, Fun_SurjectionProperties
<1>9. s \in SetToSeqs(S)
  BY <1>4 DEF SetToSeqs, n, IsInjective
<1>10. s \in Seq(S)
  BY <1>1, <1>4 DEF n
<1> QED BY <1>1, <1>4, <1>8, <1>9, <1>10 DEF s, n

\* The rows that pass the filters are finitely many.
LEMMA PassingIs == ASSUME NEW filters PROVE Passing(filters) \subseteq Rows /\ IsFiniteSet(Passing(filters))
<1>1. Passing(filters) \in SUBSET Rows
  BY DEF Passing
<1> QED BY <1>1, TableAssumption, FS_Subset

\* The filtered search finds the row ids in the first column that its child emits, whatever the
\* columns of the filters are.
LEMMA RowIdFirstIs ==
  ASSUME NEW q \in Queries
  PROVE  LET child == RowIdScan(TableScan(q))
         IN  /\ child.column_ids[child.projection_ids[1]] = ROW_ID
             /\ child.table_filters = q.filters
<1> DEFINE get == TableScan(q)
           columns == FilterColumns(get)
           set == DOMAIN q.filters
<1>1. get = [op |-> "GET", function |-> "seq_scan", column_ids |-> q.columns, projection_ids |-> <<>>,
             table_filters |-> q.filters, dynamic_filters |-> q.dynamic, bind_data |-> <<>>]
  BY DEF TableScan
<1>2. RowIdScan(get) = [get EXCEPT !.column_ids = columns, !.projection_ids = <<Position(ROW_ID, columns)>>]
  BY DEF RowIdScan
<1>3. ROW_ID \in Range(columns) /\ columns \in Seq(set \cup {ROW_ID})
  <2> DEFINE s == SetToSeq(set)
  <2>1. IsFiniteSet(set)
    BY QueryAssumption
  <2>2. s \in Seq(set \cup {ROW_ID})
    <3>1. s \in Seq(set)
      BY <2>1, SetToSeqIs
    <3> HIDE DEF s
    <3> QED BY <3>1, SeqMonotonic
  <2>3. columns = IF ROW_ID \in Range(s) THEN s ELSE Append(s, ROW_ID)
    BY <1>1 DEF FilterColumns
  <2> HIDE DEF s, columns
  <2>4. CASE ROW_ID \in Range(s)
    BY <2>2, <2>3, <2>4
  <2>5. CASE ROW_ID \notin Range(s)
    <3>1. columns = Append(s, ROW_ID)
      BY <2>3, <2>5
    <3>2. /\ columns \in Seq(set \cup {ROW_ID})
          /\ Len(columns) = Len(s) + 1 /\ Len(s) \in Nat
          /\ columns[Len(s) + 1] = ROW_ID
      BY <2>2, <3>1, AppendProperties
    <3>3. Len(s) + 1 \in DOMAIN columns
      BY <3>2
    <3> QED BY <3>2, <3>3 DEF Range
  <2> QED BY <2>4, <2>5
<1>4. columns[Position(ROW_ID, columns)] = ROW_ID
  BY <1>3, PositionIs
<1> HIDE DEF columns, get
<1>5. /\ RowIdScan(get).column_ids = columns /\ RowIdScan(get).projection_ids = <<Position(ROW_ID, columns)>>
      /\ RowIdScan(get).table_filters = q.filters
  BY <1>1, <1>2
<1> QED BY <1>4, <1>5 DEF get

\* Whatever the scan is, it asks the index for the rows that pass the filters.
LEMMA ScannedIs ==
  ASSUME NEW q \in Queries, NEW index
  PROVE  Scanned(ScanOf(q, index)) = IndexAnswers(Bound(q, index), Passing(q.filters))
<1> DEFINE e == ScanOf(q, index)
           bind == Bound(q, index)
<1>1. /\ e.op \in {"GET", "PDXEARCH_INDEX_FILT_SCAN", "PDXEARCH_INDEX_SCAN"}
      /\ e.op = "GET" => e.function = "pdxearch_index_scan"
      /\ e.bind_data = <<bind>>
      /\ e.op = "PDXEARCH_INDEX_FILT_SCAN" => e.child = RowIdScan(TableScan(q))
      /\ DOMAIN q.filters # {} <=> e.op = "PDXEARCH_INDEX_FILT_SCAN"
  BY ScanIs
<1>2. e.bind_data[1] = bind
  BY <1>1
<1> HIDE DEF bind, e
<1>3. CASE e.op = "PDXEARCH_INDEX_FILT_SCAN"
  <2> DEFINE first == e.child.column_ids[e.child.projection_ids[1]]
             rows == {r \in Passing(e.child.table_filters) : first = ROW_ID}
  <2>1. ~(e.op = "GET" /\ e.function = "seq_scan")
    BY <1>3
  <2>2. Scanned(e) = IndexAnswers(e.bind_data[1], rows)
    BY <1>3, <2>1, Zenon DEF Scanned
  <2>3. first = ROW_ID /\ e.child.table_filters = q.filters
    BY <1>1, <1>3, RowIdFirstIs
  <2>4. rows = Passing(q.filters)
    BY <2>3
  <2> QED BY <1>2, <2>2, <2>4 DEF e, bind
<1>4. CASE e.op # "PDXEARCH_INDEX_FILT_SCAN"
  <2>1. ~(e.op = "GET" /\ e.function = "seq_scan")
    BY <1>1
  <2>2. Scanned(e) = IndexAnswers(e.bind_data[1], Rows)
    BY <1>4, <2>1, Zenon DEF Scanned
  <2>3. Passing(q.filters) = Rows
    BY <1>1, <1>4 DEF Passing
  <2> QED BY <1>2, <2>2, <2>3 DEF e, bind
<1> QED BY <1>3, <1>4

\* The rows in front of a limit.
LEMMA WindowIs ==
  ASSUME NEW S, NEW s \in Seq(S), NEW limit \in Nat, NEW offset \in Nat
  PROVE  /\ Window(s, limit, offset) \in Seq(S)
         /\ Len(Window(s, limit, offset)) <= limit
         /\ Len(Window(s, limit, 0)) = IF Len(s) < limit THEN Len(s) ELSE limit
         /\ \A i \in 1 .. Len(Window(s, limit, 0)) : Window(s, limit, 0)[i] = s[i]
<1>1. Len(s) \in Nat /\ \A i \in 1 .. Len(s) : s[i] \in S
  OBVIOUS
<1>2. ASSUME NEW o \in Nat
      PROVE  LET last == IF Len(s) < o + limit THEN Len(s) ELSE o + limit
             IN  /\ Window(s, limit, o) \in Seq(S)
                 /\ Len(Window(s, limit, o)) = IF o + 1 <= last THEN last - (o + 1) + 1 ELSE 0
                 /\ \A i \in 1 .. last - (o + 1) + 1 : Window(s, limit, o)[i] = s[o + 1 + i - 1]
  <2> DEFINE last == IF Len(s) < o + limit THEN Len(s) ELSE o + limit
  <2>1. last \in Int /\ o + 1 \in Int /\ last <= Len(s)
    BY <1>1
  <2>2. Window(s, limit, o) = SubSeq(s, o + 1, last)
    BY DEF Window
  <2> HIDE DEF last
  <2>3. \A i \in o + 1 .. last : s[i] \in S
    BY <1>1, <2>1
  <2> QED BY <2>1, <2>2, <2>3, SubSeqProperties DEF last
<1>3. Len(Window(s, limit, offset)) <= limit /\ Window(s, limit, offset) \in Seq(S)
  <2> DEFINE last == IF Len(s) < offset + limit THEN Len(s) ELSE offset + limit
  <2>1. last \in Nat /\ last <= offset + limit
    BY <1>1
  <2>2. /\ Window(s, limit, offset) \in Seq(S)
        /\ Len(Window(s, limit, offset)) = IF offset + 1 <= last THEN last - (offset + 1) + 1 ELSE 0
    BY <1>2
  <2> HIDE DEF last
  <2> QED BY <2>1, <2>2
<1>4. /\ Len(Window(s, limit, 0)) = IF Len(s) < limit THEN Len(s) ELSE limit
      /\ \A i \in 1 .. Len(Window(s, limit, 0)) : Window(s, limit, 0)[i] = s[i]
  <2> DEFINE last == IF Len(s) < 0 + limit THEN Len(s) ELSE 0 + limit
  <2>1. last \in Nat /\ last = IF Len(s) < limit THEN Len(s) ELSE limit
    BY <1>1
  <2>2. /\ Len(Window(s, limit, 0)) = IF 0 + 1 <= last THEN last - (0 + 1) + 1 ELSE 0
        /\ \A i \in 1 .. last - (0 + 1) + 1 : Window(s, limit, 0)[i] = s[0 + 1 + i - 1]
    BY <1>2
  <2> HIDE DEF last
  <2>3. Len(Window(s, limit, 0)) = last
    BY <2>1, <2>2
  <2>4. \A i \in 1 .. last : Window(s, limit, 0)[i] = s[i]
    BY <2>1, <2>2
  <2> QED BY <2>1, <2>3, <2>4
<1> QED BY <1>3, <1>4

-------------------------------------------------------------------------------
(***************************************************************************)
(* What the plan answers, with the index and without it.                   *)
(***************************************************************************)

\* Orders of a finite set, and the rows in front of a limit in them.
LEMMA OrdersOf ==
  ASSUME NEW S, IsFiniteSet(S), NEW t \in SetToSeqs(S)
  PROVE  /\ Cardinality(S) \in Nat /\ t \in [1 .. Cardinality(S) -> S] /\ t \in Seq(S)
         /\ Len(t) = Cardinality(S)
         /\ \A i, j \in 1 .. Cardinality(S) : i # j => t[i] # t[j]
<1>1. Cardinality(S) \in Nat
  BY FS_CardinalityType
<1>2. t \in [1 .. Cardinality(S) -> S] /\ \A i, j \in 1 .. Cardinality(S) : i # j => t[i] # t[j]
  BY DEF SetToSeqs
<1> QED BY <1>1, <1>2

\* The rows that are searched are rows of the index, and those that pass the filters if all of
\* these have an embedding.
LEMMA CandidatesAre ==
  ASSUME NEW index, NEW passing, NEW candidates \in Candidates(index, passing)
  PROVE  /\ candidates \subseteq Indexed(index) /\ IsFiniteSet(candidates)
         /\ passing \subseteq Indexed(index) => candidates = passing
<1> DEFINE indexed == Indexed(index)
<1>1. indexed \in SUBSET Rows
  BY DEF Indexed
<1> HIDE DEF indexed
<1>2. PICK marked \in SUBSET indexed : /\ candidates = (passing \cap indexed) \cup marked
                                       /\ Cardinality(marked) <= Cardinality(passing \ indexed)
  BY DEF Candidates, indexed
<1>3. candidates \in SUBSET indexed
  BY <1>2
<1>4. IsFiniteSet(indexed)
  BY <1>1, TableAssumption, FS_Subset
<1>5. IsFiniteSet(candidates) /\ IsFiniteSet(marked)
  BY <1>3, <1>4, FS_Subset
<1>6. ASSUME passing \subseteq indexed PROVE candidates = passing
  <2>1. passing \ indexed = {} /\ passing \cap indexed = passing
    BY <1>6
  <2>2. Cardinality(marked) <= 0 /\ Cardinality(marked) \in Nat
    BY <1>2, <1>5, <2>1, FS_EmptySet, FS_CardinalityType
  <2>3. marked = {}
    BY <1>5, <2>2, FS_EmptySet
  <2> QED BY <1>2, <2>1, <2>3
<1> QED BY <1>3, <1>5, <1>6 DEF indexed

\* An index answers with rows of its own, not more than the limit, and with rows that pass the
\* filters if all of these have an embedding.
LEMMA IndexAnswersAre ==
  ASSUME NEW bind, bind.limit \in Nat, NEW passing, NEW s \in IndexAnswers(bind, passing)
  PROVE  /\ s \in Seq(Indexed(bind.index)) /\ Len(s) <= bind.limit
         /\ passing \subseteq Indexed(bind.index) => s \in Seq(passing)
<1>1. PICK candidates \in Candidates(bind.index, passing) : s \in NearestOf(bind, candidates)
  BY DEF IndexAnswers
<1>2. /\ candidates \subseteq Indexed(bind.index) /\ IsFiniteSet(candidates)
      /\ passing \subseteq Indexed(bind.index) => candidates = passing
  BY CandidatesAre
<1>3. \E t \in SetToSeqs(candidates), n \in 0 .. bind.limit : s = Window(t, n, 0)
  <2>1. bind.limit \in 0 .. bind.limit
    OBVIOUS
  <2>2. CASE IsExact(bind.index)
    BY <1>1, <2>1, <2>2 DEF NearestOf
  <2>3. CASE ~IsExact(bind.index)
    BY <1>1, <2>3 DEF NearestOf
  <2> QED BY <2>2, <2>3
<1>4. PICK t \in SetToSeqs(candidates), n \in 0 .. bind.limit : s = Window(t, n, 0)
  BY <1>3
<1>5. t \in Seq(candidates)
  BY <1>2, OrdersOf
<1>6. n \in Nat /\ n <= bind.limit
  OBVIOUS
<1>7. s \in Seq(candidates) /\ Len(s) <= n
  BY <1>4, <1>5, <1>6, WindowIs
<1>8. Len(s) \in Nat
  BY <1>7
<1>9. s \in Seq(Indexed(bind.index))
  BY <1>2, <1>7, SeqMonotonic
<1> QED BY <1>2, <1>6, <1>7, <1>8, <1>9

\* A served query does not fail for a distance of different dimensions.
LEMMA NoFailure ==
  ASSUME NEW q \in Queries, NEW index \in Created, Serves(q, index), NEW r \in Rows
  PROVE  Failure \notin Range(Computed(q, r)) /\ Failure \notin Range(Final(q, r))
<1> DEFINE v == Embedding[index.column][r]
           c == EmbeddingOf(ConstantOf(Distance(q)))
           n == Len(q.select)
<1>1. n \in Nat
  BY QueryIs
<1>2. /\ \A k \in 1 .. n : Computed(q, r)[k] = Value(q.select[k], r)
      /\ c \in [1 .. index.dims -> Int]
      /\ Computed(q, r)[n + 1] \in {DistanceOf(q.fn, v, c), DistanceOf(q.fn, c, v)}
  BY ComputedIs
<1>3. v \in {<<>>} \cup [1 .. index.dims -> Int] /\ index.dims \in Nat \ {0}
  BY EmbeddingsAre
<1> HIDE DEF v, c
<1>4. c # <<>> /\ Len(c) = index.dims
  BY <1>2, <1>3
<1>5. Failure # Null /\ \A x, y : <<x, y>> # Failure
  BY DEF Failure, Null
<1>6. DistanceOf(q.fn, v, c) # Failure /\ DistanceOf(q.fn, c, v) # Failure
  <2>1. CASE v = <<>>
    BY <1>5, <2>1, DistanceOfIs
  <2>2. CASE v # <<>>
    <3>1. Len(v) = index.dims
      BY <1>3, <2>2
    <3>2. Len(v) = Len(c) /\ Len(c) = Len(v)
      BY <1>4, <3>1
    <3> QED BY <1>4, <1>5, <2>2, <3>2, DistanceOfIs
  <2> QED BY <2>1, <2>2
<1>7. \A k \in 1 .. n : Computed(q, r)[k] # Failure
  BY <1>2, <1>5 DEF Value
<1>8. ASSUME NEW k \in 1 .. n + 1 PROVE Computed(q, r)[k] # Failure
  <2>1. k \in 1 .. n \/ k = n + 1
    BY <1>1
  <2> QED BY <1>2, <1>6, <1>7, <2>1
<1>9. DOMAIN Computed(q, r) = 1 .. n + 1
  BY DEF Computed
<1> HIDE DEF n
<1>10. Failure \notin Range(Computed(q, r))
  BY <1>8, <1>9 DEF Range
<1>11. Failure \notin Range([k \in 1 .. n |-> Computed(q, r)[k]])
  BY <1>7 DEF Range
<1> QED BY <1>10, <1>11 DEF Final, n

\* What the rewritten plans answer.
LEMMA AnswersOfMerged ==
  ASSUME NEW q \in Queries, NEW index \in Created, Serves(q, index)
  PROVE  Answers(MergedPlan(q, index)) =
            {[k \in DOMAIN s |-> Final(q, s[k])] : s \in IndexAnswers(Bound(q, index), Passing(q.filters))}
<1> DEFINE b == Computation(q)
           c == SelectList(q)
           h == Remaining(q)
           e == ScanOf(q, index)
           p == MergedPlan(q, index)
           rows == IndexAnswers(Bound(q, index), Passing(q.filters))
<1>1. p = <<b, e>> \/ p = <<c, b, e>> \/ p = <<c, h, e>>
  BY DEF MergedPlan, RewrittenPlan
<1>2. /\ b.op = "PROJECTION" /\ c.op = "PROJECTION" /\ h.op = "PROJECTION"
      /\ e.op \in {"GET", "PDXEARCH_INDEX_SCAN", "PDXEARCH_INDEX_FILT_SCAN"}
  BY OperatorsAre, ScanIs
<1>3. Scanned(e) = rows
  BY ScannedIs
<1> HIDE DEF b, c, h, e
<1>4. PICK n \in 2 .. 3 : DOMAIN p = 1 .. n /\ p[n] = e /\ \A i \in 1 .. n - 1 : p[i].op = "PROJECTION"
  <2> HIDE DEF p
  <2>1. CASE p = <<b, e>>
    BY <1>2, <2>1
  <2>2. CASE p = <<c, b, e>>
    BY <1>2, <2>2
  <2>3. CASE p = <<c, h, e>>
    BY <1>2, <2>3
  <2> QED BY <1>1, <2>1, <2>2, <2>3
<1>5. \A i \in 1 .. n : Streams(p)[i] = PassesOn(p[i], [r \in Rows |-> Output(p, r)[i]], Streams(p)[i + 1])
  <2> HIDE DEF p
  <2>1. n \in 2 .. 4 /\ p[n].op \in {"GET", "PDXEARCH_INDEX_SCAN", "PDXEARCH_INDEX_FILT_SCAN"}
    BY <1>2, <1>4
  <2> QED BY <1>4, <2>1, StreamsUnfold
<1>6. /\ \A r : Output(p, r)[1] = Final(q, r)
      /\ \A r : \A i \in DOMAIN p :
               p[i].op = "PROJECTION" /\ (\E f \in Range(p[i].expressions) : f.kind = "distance")
               => Output(p, r)[i] = Computed(q, r)
  BY OutputOfMerged
<1> HIDE DEF p, rows
<1>7. Streams(p)[n] = rows
  <2>1. Streams(p)[n] = PassesOn(p[n], [r \in Rows |-> Output(p, r)[n]], Streams(p)[n + 1])
    BY <1>5
  <2>2. \A x, y : PassesOn(p[n], x, y) = rows
    BY <1>2, <1>3, <1>4, PassesOnIs
  <2> QED BY <2>1, <2>2
<1>8. \A i \in 1 .. n - 1 : Streams(p)[i] = Streams(p)[i + 1]
  <2> SUFFICES ASSUME NEW i \in 1 .. n - 1 PROVE Streams(p)[i] = Streams(p)[i + 1]
    OBVIOUS
  <2>1. Streams(p)[i] = PassesOn(p[i], [r \in Rows |-> Output(p, r)[i]], Streams(p)[i + 1])
    BY <1>5
  <2>2. \A x, y : PassesOn(p[i], x, y) = y
    BY <1>4, PassesOnIs
  <2> QED BY <2>1, <2>2
<1>9. \A i \in 1 .. n : Streams(p)[i] = rows
  <2>1. CASE n = 2
    BY <1>7, <1>8, <2>1
  <2>2. CASE n = 3
    <3>1. Streams(p)[2] = rows
      BY <1>7, <1>8, <2>2
    <3>2. Streams(p)[1] = rows
      BY <1>8, <2>2, <3>1
    <3> QED BY <1>7, <2>2, <3>1, <3>2
  <2> QED BY <2>1, <2>2
<1>10. ASSUME NEW s \in rows, NEW r \in Range(s) PROVE r \in Rows
  <2>1. Bound(q, index).limit \in Nat
    BY QueryIs DEF Bound
  <2> DEFINE indexed == Indexed(Bound(q, index).index)
  <2>2. s \in Seq(indexed)
    BY <2>1, IndexAnswersAre DEF rows
  <2>3. indexed \subseteq Rows
    BY DEF Indexed
  <2> HIDE DEF indexed
  <2>4. r \in indexed
    BY <2>2 DEF Range
  <2> QED BY <2>3, <2>4
<1>11. ~Fails(p)
  <2>1. SUFFICES ASSUME NEW i \in 1 .. n, p[i].op = "PROJECTION", \E f \in Range(p[i].expressions) : f.kind = "distance",
                        NEW s \in rows, NEW r \in Range(s), Failure \in Range(Output(p, r)[i])
                 PROVE  FALSE
    BY <1>4, <1>9 DEF Fails
  <2>2. Output(p, r)[i] = Computed(q, r)
    BY <1>4, <1>6, <2>1
  <2>3. r \in Rows
    BY <1>10
  <2> QED BY <2>1, <2>2, <2>3, NoFailure
<1>12. 1 \in 1 .. n
  OBVIOUS
<1>13. Answers(p) = {[k \in DOMAIN s |-> Output(p, s[k])[1]] : s \in rows}
  BY <1>9, <1>11, <1>12 DEF Answers
<1>14. Answers(p) = {[k \in DOMAIN s |-> Final(q, s[k])] : s \in rows}
  BY <1>6, <1>13
<1> QED BY <1>14 DEF p, rows

\* The order that a query asks for, and the rows that its TOP_N passes on.
First(q) == {x \in Rows \X Rows : ComesFirst(TopN(q).orders, Computed(q, x[1]), Computed(q, x[2]))}
Asked(q) == {Window(t, q.limit, q.offset) : t \in {u \in SetToSeqs(Passing(q.filters)) : Sorted(u, First(q))}}

\* A TOP_N in the plan as it was bound passes on the rows asked for, from all that the scan emits.
LEMMA TopNPasses ==
  ASSUME NEW q \in Queries, NEW emitted, emitted = [r \in Rows |-> Computed(q, r)]
  PROVE  PassesOn(TopN(q), emitted, {SetToSeq(Passing(q.filters))}) = Asked(q)
<1> DEFINE P == Passing(q.filters)
           a == TopN(q)
           Seqs(s) == {u \in SetToSeqs(Range(s)) : Sorted(u, {x \in Rows \X Rows : ComesFirst(a.orders, emitted[x[1]], emitted[x[2]])})}
<1>1. Range(SetToSeq(P)) = P
  BY PassingIs, SetToSeqIs
<1>2. {x \in Rows \X Rows : ComesFirst(a.orders, emitted[x[1]], emitted[x[2]])} = First(q)
  <2>1. \A x \in Rows \X Rows : emitted[x[1]] = Computed(q, x[1]) /\ emitted[x[2]] = Computed(q, x[2])
    OBVIOUS
  <2> QED BY <2>1 DEF First
<1>3. a.op = "TOP_N" /\ a.limit = q.limit /\ a.offset = q.offset
  BY OperatorsAre
<1>4. PassesOn(a, emitted, {SetToSeq(P)}) = UNION {{Window(t, a.limit, a.offset) : t \in Seqs(s)} : s \in {SetToSeq(P)}}
  <2>1. a.op = "TOP_N" /\ a.op # "PROJECTION" /\ a.op # "FILTER"
    BY <1>3
  <2> QED BY <2>1, Zenon DEF PassesOn
<1>5. Seqs(SetToSeq(P)) = {u \in SetToSeqs(P) : Sorted(u, First(q))}
  BY <1>1, <1>2
<1> HIDE DEF Seqs, P, a
<1>6. PassesOn(a, emitted, {SetToSeq(P)}) = {Window(t, a.limit, a.offset) : t \in Seqs(SetToSeq(P))}
  <2> DEFINE Windows(s) == {Window(t, a.limit, a.offset) : t \in Seqs(s)}
  <2>1. PassesOn(a, emitted, {SetToSeq(P)}) = UNION {Windows(s) : s \in {SetToSeq(P)}}
    BY <1>4
  <2> HIDE DEF Windows
  <2>2. \A x : UNION {Windows(s) : s \in {x}} = Windows(x)
    OBVIOUS
  <2>3. PassesOn(a, emitted, {SetToSeq(P)}) = Windows(SetToSeq(P))
    BY <2>1, <2>2
  <2> QED BY <2>3 DEF Windows
<1> QED BY <1>3, <1>5, <1>6 DEF Asked, P, a

\* What the plan answers as it was bound, if an index serves the query.
LEMMA AnswersOfBound ==
  ASSUME NEW q \in Queries, NEW index \in Created, Serves(q, index)
  PROVE  Answers(PlanOf(q)) = {[k \in DOMAIN s |-> Final(q, s[k])] : s \in Asked(q)}
<1> DEFINE a == TopN(q)
           b == Computation(q)
           c == SelectList(q)
           e == TableScan(q)
           p == PlanOf(q)
           all == {SetToSeq(Passing(q.filters))}
           rows == Asked(q)
<1>1. q.composite = Rows /\ (p = <<a, b, e>> \/ p = <<c, a, b, e>>)
  BY QueryIs, PlanShapes DEF Serves
<1>2. /\ a.op = "TOP_N" /\ b.op = "PROJECTION" /\ c.op = "PROJECTION"
      /\ e.op = "GET" /\ e.function = "seq_scan" /\ e.table_filters = q.filters
  BY OperatorsAre
<1>3. Scanned(e) = all
  <2>1. Scanned(e) = {SetToSeq(Passing(e.table_filters))}
    BY <1>2, Zenon DEF Scanned
  <2> QED BY <1>2, <2>1
<1>4. \A emitted : emitted = [r \in Rows |-> Computed(q, r)] => PassesOn(a, emitted, all) = rows
  BY TopNPasses
<1>5. /\ \A r : Output(p, r)[1] = Final(q, r)
      /\ \A r : \A i \in DOMAIN p : /\ p[i].op = "TOP_N" => Output(p, r)[i] = Computed(q, r)
                                    /\ p[i].op = "PROJECTION" => Output(p, r)[i] \in {Computed(q, r), Final(q, r)}
  BY <1>1, OutputOfBound
<1> HIDE DEF a, b, c, e
<1>6. PICK n \in 3 .. 4 : /\ DOMAIN p = 1 .. n /\ p[n] = e /\ p[n - 1] = b /\ p[n - 2] = a
                          /\ n = 4 => p[1] = c
  <2> HIDE DEF p
  <2>1. CASE p = <<a, b, e>>
    BY <2>1
  <2>2. CASE p = <<c, a, b, e>>
    BY <2>2
  <2> QED BY <1>1, <2>1, <2>2
<1>7. \A i \in 1 .. n : Streams(p)[i] = PassesOn(p[i], [r \in Rows |-> Output(p, r)[i]], Streams(p)[i + 1])
  <2> HIDE DEF p
  <2>1. n \in 2 .. 4 /\ p[n].op \in {"GET", "PDXEARCH_INDEX_SCAN", "PDXEARCH_INDEX_FILT_SCAN"}
    BY <1>2, <1>6
  <2> QED BY <1>6, <2>1, StreamsUnfold
<1> HIDE DEF p, rows, all
<1>8. Streams(p)[n] = all
  <2>1. Streams(p)[n] = PassesOn(p[n], [r \in Rows |-> Output(p, r)[n]], Streams(p)[n + 1])
    BY <1>7
  <2>2. \A x, y : PassesOn(p[n], x, y) = all
    BY <1>2, <1>3, <1>6, PassesOnIs
  <2> QED BY <2>1, <2>2
<1>9. Streams(p)[n - 1] = all
  <2>1. Streams(p)[n - 1] = PassesOn(p[n - 1], [r \in Rows |-> Output(p, r)[n - 1]], Streams(p)[n])
    <3>1. n - 1 \in 1 .. n /\ n - 1 + 1 = n
      OBVIOUS
    <3> QED BY <1>7, <3>1
  <2>2. \A x, y : PassesOn(p[n - 1], x, y) = y
    BY <1>2, <1>6, PassesOnIs
  <2> QED BY <1>8, <2>1, <2>2
<1>10. Streams(p)[n - 2] = rows
  <2>1. Streams(p)[n - 2] = PassesOn(p[n - 2], [r \in Rows |-> Output(p, r)[n - 2]], Streams(p)[n - 1])
    <3>1. n - 2 \in 1 .. n /\ n - 2 + 1 = n - 1
      OBVIOUS
    <3> QED BY <1>7, <3>1
  <2>2. [r \in Rows |-> Output(p, r)[n - 2]] = [r \in Rows |-> Computed(q, r)]
    <3>1. n - 2 \in DOMAIN p /\ p[n - 2].op = "TOP_N"
      BY <1>2, <1>6
    <3>2. \A r \in Rows : Output(p, r)[n - 2] = Computed(q, r)
      BY <1>5, <3>1
    <3> QED BY <3>2
  <2> QED BY <1>4, <1>6, <1>9, <2>1, <2>2
<1>11. Streams(p)[1] = rows
  <2>1. CASE n = 3
    BY <1>10, <2>1
  <2>2. CASE n = 4
    <3>1. Streams(p)[1] = PassesOn(p[1], [r \in Rows |-> Output(p, r)[1]], Streams(p)[2])
      <4>1. 1 \in 1 .. n /\ 1 + 1 = 2
        OBVIOUS
      <4> QED BY <1>7, <4>1
    <3>2. \A x, y : PassesOn(p[1], x, y) = y
      BY <1>2, <1>6, <2>2, PassesOnIs
    <3>3. Streams(p)[2] = rows
      BY <1>10, <2>2
    <3> QED BY <3>1, <3>2, <3>3
  <2> QED BY <2>1, <2>2
<1>12. ASSUME NEW s \in rows \cup all, NEW r \in Range(s) PROVE r \in Rows
  <2> DEFINE P == Passing(q.filters)
  <2>1. IsFiniteSet(P) /\ P \subseteq Rows
    BY PassingIs
  <2>2. s \in Seq(P)
    <3>1. CASE s \in all
      BY <2>1, <3>1, SetToSeqIs DEF all
    <3>2. CASE s \in rows
      <4>1. PICK t \in SetToSeqs(P) : s = Window(t, q.limit, q.offset)
        BY <3>2 DEF rows, Asked
      <4>2. t \in Seq(P)
        BY <2>1, OrdersOf
      <4>3. q.limit \in Nat /\ q.offset \in Nat
        BY QueryIs
      <4> QED BY <4>1, <4>2, <4>3, WindowIs
    <3> QED BY <3>1, <3>2
  <2>3. r \in P
    <3> HIDE DEF P
    <3> QED BY <2>2 DEF Range
  <2> QED BY <2>1, <2>3
<1>13. ~Fails(p)
  <2>1. SUFFICES ASSUME NEW i \in 1 .. n, p[i].op = "PROJECTION",
                        NEW s \in Streams(p)[i], NEW r \in Range(s), Failure \in Range(Output(p, r)[i])
                 PROVE  FALSE
    BY <1>6 DEF Fails
  <2>2. Output(p, r)[i] \in {Computed(q, r), Final(q, r)}
    BY <1>5, <1>6, <2>1
  <2>3. i \in {1, n - 1}
    <3>1. n = 3 \/ n = 4
      OBVIOUS
    <3>2. p[n].op # "PROJECTION" /\ p[n - 2].op # "PROJECTION"
      BY <1>2, <1>6
    <3> QED BY <2>1, <3>1, <3>2
  <2>4. s \in rows \cup all
    BY <1>9, <1>11, <2>3
  <2>5. r \in Rows
    BY <1>12, <2>4
  <2> QED BY <2>1, <2>2, <2>5, NoFailure
<1>14. Answers(p) = {[k \in DOMAIN s |-> Output(p, s[k])[1]] : s \in rows}
  BY <1>11, <1>13 DEF Answers
<1>15. Answers(p) = {[k \in DOMAIN s |-> Final(q, s[k])] : s \in rows}
  BY <1>5, <1>14
<1> QED BY <1>15 DEF p, rows

-------------------------------------------------------------------------------
(***************************************************************************)
(* An exact index answers what the plan as it was bound may answer.        *)
(***************************************************************************)

\* A row comes before another one in a served query just by its distance: by what the index takes
\* for it, if all rows have one.
LEMMA FirstIs ==
  ASSUME NEW q \in Queries, NEW index \in Created, Serves(q, index),
         NEW x \in Rows, NEW y \in Rows, <<x, y>> \in First(q),
         Indexed(index) = Rows, IsOrderedAlike(index)
  PROVE  LET v(r) == Embedding[index.column][r]
             c == EmbeddingOf(ConstantOf(Distance(q)))
         IN  IndexDistance(index, v(x), c) < IndexDistance(index, v(y), c)
<1> DEFINE v(r) == Embedding[index.column][r]
           c == EmbeddingOf(ConstantOf(Distance(q)))
           n == Len(q.select) + 1
           o == TopN(q).orders
           dims == index.dims
           D(r) == Computed(q, r)[n]
<1>1. DOMAIN o = 1 .. 1 /\ o[1] = Key(q, q.orders[1]) /\ o[1].type = "ASC" /\ o[1].index = n
      /\ o[1].nulls = q.orders[1].nulls
  <2>1. o = [i \in DOMAIN q.orders |-> Key(q, q.orders[i])]
    BY OperatorsAre
  <2>2. DOMAIN q.orders = 1 .. 1 /\ q.orders[1].type = "ASC" /\ Key(q, q.orders[1]).index = n
    BY QueryIs DEF Serves
  <2> QED BY <2>1, <2>2 DEF Key
<1>2. Comes(o[1], D(x), D(y))
  <2>1. ComesFirst(o, Computed(q, x), Computed(q, y))
    BY DEF First
  <2> HIDE DEF o, D
  <2>2. PICK i \in DOMAIN o : Comes(o[i], Computed(q, x)[o[i].index], Computed(q, y)[o[i].index])
    BY <2>1 DEF ComesFirst
  <2>3. i = 1
    BY <1>1
  <2> QED BY <1>1, <2>2, <2>3 DEF D
<1>3. /\ dims \in Nat \ {0} /\ c \in [1 .. dims -> Int]
      /\ \A r \in Rows : v(r) \in {<<>>} \cup [1 .. dims -> Int]
      /\ \A r \in Rows : D(r) \in {DistanceOf(q.fn, v(r), c), DistanceOf(q.fn, c, v(r))}
  BY EmbeddingsAre, ComputedIs
<1>4. q.fn \in Functions(index.metric) /\ index.metric \in {"l2sq", "cosine"}
  BY ServedArguments, MetricIs
<1>5. \A r \in Rows : v(r) # <<>> /\ (index.metric = "cosine" => ~IsZero(v(r)))
  BY DEF Indexed, IsOrderedAlike
<1> HIDE DEF v, c, n, o, dims, D
<1>6. c # <<>> /\ Len(c) = dims
  BY <1>3
<1>7. ASSUME NEW r \in Rows, NEW r2 \in Rows
      PROVE  /\ QueryDistance(q.fn, v(r), c) = QueryDistance(q.fn, c, v(r))
             /\ QueryDistance(q.fn, v(r), c) < QueryDistance(q.fn, v(r2), c) => IndexDistance(index, v(r), c) < IndexDistance(index, v(r2), c)
  <2>1. v(r) \in [1 .. dims -> Int] /\ v(r2) \in [1 .. dims -> Int] /\ dims \in Nat
    BY <1>3, <1>5
  <2>2. index.metric = "cosine" => ~IsZero(v(r)) /\ ~IsZero(v(r2))
    BY <1>5
  <2> QED BY <1>3, <1>4, <2>1, <2>2, OrderKept
<1>8. ASSUME NEW r \in Rows PROVE D(r) = <<"distance", QueryDistance(q.fn, v(r), c)>>
  <2>1. v(r) # <<>> /\ Len(v(r)) = Len(c) /\ Len(c) = Len(v(r))
    BY <1>3, <1>5, <1>6
  <2>2. /\ DistanceOf(q.fn, v(r), c) = <<"distance", QueryDistance(q.fn, v(r), c)>>
        /\ DistanceOf(q.fn, c, v(r)) = <<"distance", QueryDistance(q.fn, c, v(r))>>
    BY <1>6, <2>1, DistanceOfIs
  <2>3. QueryDistance(q.fn, v(r), c) = QueryDistance(q.fn, c, v(r))
    BY <1>7
  <2> QED BY <1>3, <2>2, <2>3
<1>9. \A z : Null # <<"distance", z>>
  BY DEF Null
<1>10. D(x) = <<"distance", QueryDistance(q.fn, v(x), c)>> /\ D(y) = <<"distance", QueryDistance(q.fn, v(y), c)>>
  BY <1>8
<1>11. Null \notin {D(x), D(y)}
  BY <1>9, <1>10
<1>12. D(x)[2] < D(y)[2]
  BY <1>1, <1>2, <1>11 DEF Comes
<1>13. QueryDistance(q.fn, v(x), c) < QueryDistance(q.fn, v(y), c)
  BY <1>10, <1>12
<1>14. IndexDistance(index, v(x), c) < IndexDistance(index, v(y), c)
  BY <1>7, <1>13
<1> QED BY <1>14 DEF v, c

\* What an exact index answers to a query that it serves without an offset, the plan as it was
\* bound may pass on as well.
LEMMA ExactAnswers ==
  ASSUME NEW q \in Queries, NEW index \in Created, Serves(q, index), IsExact(index), IsOrderedAlike(index),
         q.offset = 0, NEW s \in IndexAnswers(Bound(q, index), Passing(q.filters))
  PROVE  s \in Asked(q)
<1> DEFINE P == Passing(q.filters)
           E == Embedding[index.column]
           c == EmbeddingOf(ConstantOf(Distance(q)))
           nearer == {p \in P \X P : IndexDistance(index, E[p[1]], c) < IndexDistance(index, E[p[2]], c)}
<1>1. P \subseteq Rows /\ IsFiniteSet(P)
  BY PassingIs
<1>2. Indexed(index) = Rows
  BY DEF IsExact
<1>3. Bound(q, index).index = index /\ Bound(q, index).limit = q.limit /\ Bound(q, index).query_embedding = c
  BY DEF Bound
<1>4. s \in NearestOf(Bound(q, index), P)
  <2> HIDE DEF P
  <2>1. PICK candidates \in Candidates(index, P) : s \in NearestOf(Bound(q, index), candidates)
    BY <1>3 DEF IndexAnswers, P
  <2>2. candidates = P
    BY <1>1, <1>2, CandidatesAre
  <2> QED BY <2>1, <2>2
<1>5. PICK t \in SetToSeqs(P) : Sorted(t, nearer) /\ s = Window(t, q.limit, 0)
  <2> DEFINE distance == [r \in P |-> IndexDistance(index, E[r], c)]
             near == {p \in P \X P : distance[p[1]] < distance[p[2]]}
  <2>1. NearestOf(Bound(q, index), P) = {Window(x, q.limit, 0) : x \in {y \in SetToSeqs(P) : Sorted(y, near)}}
    BY <1>3 DEF NearestOf
  <2>2. near = nearer
    <3>1. \A p \in P \X P : distance[p[1]] = IndexDistance(index, E[p[1]], c) /\ distance[p[2]] = IndexDistance(index, E[p[2]], c)
      OBVIOUS
    <3> HIDE DEF distance
    <3> QED BY <3>1
  <2> HIDE DEF near, nearer, P
  <2> QED BY <1>4, <2>1, <2>2
<1>6. ASSUME NEW x \in P, NEW y \in P, <<x, y>> \in First(q) PROVE <<x, y>> \in nearer
  <2>1. x \in Rows /\ y \in Rows
    BY <1>1
  <2>2. IndexDistance(index, E[x], c) < IndexDistance(index, E[y], c)
    BY <1>2, <1>6, <2>1, FirstIs
  <2> HIDE DEF E, c, P
  <2> QED BY <2>2
<1> HIDE DEF P, E, c, nearer
<1>7. t \in Seq(P)
  BY <1>1, OrdersOf
<1>8. Sorted(t, First(q))
  <2> SUFFICES ASSUME NEW i \in DOMAIN t, NEW j \in DOMAIN t, i < j, <<t[j], t[i]>> \in First(q) PROVE FALSE
    BY DEF Sorted
  <2>1. t[i] \in P /\ t[j] \in P
    BY <1>7
  <2>2. <<t[j], t[i]>> \in nearer
    BY <1>6, <2>1
  <2> QED BY <1>5, <2>2 DEF Sorted
<1> QED BY <1>5, <1>8 DEF Asked, P

\* AnswerKept holds in every state: whatever the table, its NULLs, the query and the index, the
\* rewritten plan answers with rows of the index in the form that the query asks for, with such as
\* pass its filters where every row that does has an embedding, and with an answer of the plan as it
\* was bound where the index is exact.
THEOREM AnswersKept == Spec => []AnswerKept
<1>1. ASSUME IInv PROVE AnswerKept
  <2> DEFINE bound == Scan.bind_data[1].index
             allowed == IF IsFilteredAlike(query) /\ Passing(query.filters) \subseteq Indexed(bound)
                        THEN Passing(query.filters) ELSE Indexed(bound)
  <2> SUFFICES ASSUME phase = "answered"
               PROVE  IF ~UsesIndex THEN result \in Answers(PlanOf(query))
                      ELSE /\ IsExact(bound) /\ IsOrderedAlike(bound) /\ IsFilteredAlike(query) /\ query.offset = 0 =>
                                  result \in Answers(PlanOf(query))
                           /\ Len(result) <= query.limit
                           /\ \A k \in DOMAIN result : \E r \in allowed : result[k] = Output(PlanOf(query), r)[1]
    BY DEF AnswerKept
  <2>1. /\ query \in Queries /\ result \in Answers(plan)
        /\ ~UsesIndex => plan = PlanOf(query)
        /\ UsesIndex => \E index \in Created : /\ Serves(query, index) /\ plan = MergedPlan(query, index)
                                               /\ bound = index
    BY <1>1, UsesIndexIs DEF IInv, PlanInv
  <2>2. CASE ~UsesIndex
    BY <2>1, <2>2
  <2>3. CASE UsesIndex
    <3>1. PICK index \in Created : /\ Serves(query, index) /\ plan = MergedPlan(query, index)
                                   /\ bound = index
      BY <2>1, <2>3
    <3>2. PICK s \in IndexAnswers(Bound(query, index), Passing(query.filters)) :
                result = [k \in DOMAIN s |-> Final(query, s[k])]
      BY <2>1, <3>1, AnswersOfMerged
    <3>3. s \in Seq(allowed) /\ Len(s) <= query.limit
      <4>1. Bound(query, index).limit = query.limit /\ query.limit \in Nat /\ Bound(query, index).index = index
        BY <2>1, QueryIs DEF Bound
      <4>2. /\ s \in Seq(Indexed(index)) /\ Len(s) <= query.limit
            /\ Passing(query.filters) \subseteq Indexed(index) => s \in Seq(Passing(query.filters))
        BY <4>1, IndexAnswersAre
      <4> QED BY <3>1, <4>2
    <3> HIDE DEF allowed, bound
    <3>4. Len(result) <= query.limit
      <4>1. result = [k \in 1 .. Len(s) |-> Final(query, s[k])] /\ Len(s) \in Nat
        BY <3>2, <3>3
      <4>2. Len(result) = Len(s)
        BY <4>1
      <4> QED BY <3>3, <4>2
    <3>5. \A k \in DOMAIN result : \E r \in allowed : result[k] = Output(PlanOf(query), r)[1]
      <4> SUFFICES ASSUME NEW k \in DOMAIN result
                   PROVE  \E r \in allowed : result[k] = Output(PlanOf(query), r)[1]
        OBVIOUS
      <4>1. result[k] = Final(query, s[k]) /\ s[k] \in allowed
        BY <3>2, <3>3
      <4>2. Output(PlanOf(query), s[k])[1] = Final(query, s[k])
        BY <2>1, <3>1, OutputOfBound DEF Serves
      <4> QED BY <4>1, <4>2
    <3>6. ASSUME IsExact(bound), IsOrderedAlike(bound), query.offset = 0
          PROVE  result \in Answers(PlanOf(query))
      <4>1. s \in Asked(query)
        BY <2>1, <3>1, <3>6, ExactAnswers
      <4>2. Answers(PlanOf(query)) = {[k \in DOMAIN x |-> Final(query, x[k])] : x \in Asked(query)}
        BY <2>1, <3>1, AnswersOfBound
      <4> QED BY <3>2, <4>1, <4>2
    <3> QED BY <2>3, <3>4, <3>5, <3>6
  <2> QED BY <2>2, <2>3
<1> QED BY <1>1, Invariance, PTL
===============================================================================
