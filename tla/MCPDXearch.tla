----------------------------- MODULE MCPDXearch -----------------------------
(***************************************************************************)
(* Three row groups of two clusters: one cluster of three rows, some empty. *)
(* Two vertical blocks and one horizontal block of dimensions.  In units of *)
(* their row group rows 2 and 3 are equally far from the query, and so are  *)
(* rows 4 and 6.                                                            *)
(***************************************************************************)
EXTENDS PDXearch

CONSTANTS g1, g2, g3, c1, c2

MCRows == 1..6
MCRowGroupOf == <<g1, g1, g1, g2, g2, g3>>
MCClusterOf == <<c1, c1, c1, c1, c1, c2>>

Upto(a, b) == [n \in 0..2 |-> <<0, a, b>>[n + 1]]

MCVerticalDist == <<Upto(1, 3), Upto(0, 2), Upto(2, 2), Upto(0, 1), Upto(0, 3), Upto(2, 2)>>
MCHorizontalDist ==
    [r \in MCRows |-> [n \in 0..1 |-> IF n = 0 THEN 0 ELSE <<2, 1, 1, 1, 1, 0>>[r]]]

\* Quantized, rows 2, 3 and 4 are equally far, row 5 is nearer than row 6 by less than a unit, and the
\* thresholds of g3 may be truncated to 0.
MCUnit == [g \in {g1, g2, g3} |-> CASE g = g1 -> 2 [] g = g2 -> 3 [] g = g3 -> 7]
MCUnitF32 == [g \in {g1, g2, g3} |-> 1]

\* A pruner without loss, and one that discards what still looks half as far as the top.
ExactRatio == [n \in 0..3 |-> 2]
LossyRatio == [n \in 0..3 |-> <<2, 1, 1, 2>>[n + 1]]

MCFilters == {{}, {1}, {2, 5, 6}, {1, 2, 3, 5}}

ASSUME ExactPruning <=> Ratio = ExactRatio

=============================================================================
