---------------------------- MODULE MCIndexScan ----------------------------
(***************************************************************************)
(* Three row groups of two clusters.  Rows 1 and 4 tie, and so do 2 and 3.  *)
(* Thresholds of g3 are truncated by up to 2: row 5 may lose against any of *)
(* the others.                                                              *)
(***************************************************************************)
EXTENDS IndexScan

CONSTANTS g1, g2, g3

MCRows == 1..5
MCRowGroupOf == <<g1, g1, g2, g2, g3>>
MCClusterOf == <<1, 2, 1, 2, 2>>
MCDist == <<2, 1, 1, 2, 0>>
MCTolerance == <<0, 0, 0, 0, 2>>

=============================================================================
