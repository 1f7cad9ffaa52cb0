------------------------------ MODULE BlobCodec ------------------------------
(***************************************************************************)
(* The lossy encoding of query embeddings (pdxearch_blob_codec.hpp): a     *)
(* float becomes a 16 bit code, whose two lowest bits select one of four   *)
(* scales and whose other bits hold the value as a multiple of that scale. *)
(*                                                                         *)
(* Floats are counted in units of 1e-6, a tenth of the smallest scale, so  *)
(* that rounding at every scale is seen; products of floats are exact.     *)
(***************************************************************************)
EXTENDS Integers, Sequences

CONSTANT IntMax   \* the largest int32_t, to which a rounded float is cast

IntMin == -IntMax - 1

\* BLOB_SCALE, in units; BLOB_INV_SCALE holds the inverses.
Scale == [x \in 0 .. 3 |-> CASE x = 0 -> 10 [] x = 1 -> 100 [] x = 2 -> 1000 [] x = 3 -> 10000]

QMin == -8192
QMax == 8191

\* A cast is defined where the rounded value fits an int32_t, and no overflow
\* is taken for a value that fits 14 bits.
ASSUME IntMaxAssumption == IntMax \in Nat /\ IntMax > QMax

\* std::round of v / s: to the nearest integer, halves away from zero.
RoundQuotient(v, s) == IF v >= 0 THEN (2 * v + s) \div (2 * s) ELSE -((s - 2 * v) \div (2 * s))

\* static_cast<int32_t>. Out of range it is undefined: x86 yields the smallest
\* integer, ARM the nearest.
Casts(n) == IF IntMin <= n /\ n <= IntMax THEN {n} ELSE {IntMin, IntMax}

Quantized(v, x) == Casts(RoundQuotient(v, Scale[x]))

FitsAt(v, x) == \A q \in Quantized(v, x) : QMin <= q /\ q <= QMax

\* The loop takes the first, hence the finest, scale at which the value fits.
FirstFit(v, x) == FitsAt(v, x) /\ \A y \in 0 .. x - 1 : ~FitsAt(v, y)

Clamp(q) == IF q > QMax THEN QMax ELSE IF q < QMin THEN QMin ELSE q

\* (q << 2) | x, for x of two bits.
Code(q, x) == 4 * q + x

\* EncodeFloatToInt16: the codes that a value may be given.
Encodings(v) ==
    IF \E x \in 0 .. 3 : FitsAt(v, x)
    THEN {Code(RoundQuotient(v, Scale[x]), x) : x \in {y \in 0 .. 3 : FirstFit(v, y)}}
    ELSE {Code(Clamp(q), 3) : q \in Quantized(v, 3)}

ScaleOf(c) == c % 4

\* DecodeInt16ToFloat.
Decode(c) == (c \div 4) * Scale[ScaleOf(c)]

\* DecodeBlobToFloatArray, EncodeFloatArrayToBlob: two bytes for each value.
DecodeBlob(codes) == [i \in DOMAIN codes |-> Decode(codes[i])]

EncodesArray(values, codes) ==
    /\ DOMAIN codes = DOMAIN values
    /\ \A i \in DOMAIN values : codes[i] \in Encodings(values[i])

BlobDimensionCount(bytes) == bytes \div 2
=============================================================================
