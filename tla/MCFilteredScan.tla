--------------------------- MODULE MCFilteredScan ---------------------------
(***************************************************************************)
(* Three row groups of three clusters, two threads.  Row group 1 has one    *)
(* row only, so filters leave row groups out, the first one included.       *)
(* Thresholds of row group 2 are truncated by up to 1: row 4 may lose       *)
(* against row 3, and row 5 against rows 2 and 4.                           *)
(***************************************************************************)
EXTENDS FilteredScan

CONSTANTS t1, t2

MCRows == 1..5
MCRowGroupOf == <<0, 0, 1, 2, 2>>
MCClusterOf == <<1, 3, 2, 2, 3>>
MCDist == <<3, 1, 2, 1, 0>>
MCTolerance == <<0, 0, 0, 1, 1>>
MCFilters == {{}, {3}, {1, 2}, {2, 4, 5}, {1, 2, 3, 4, 5}}

=============================================================================
