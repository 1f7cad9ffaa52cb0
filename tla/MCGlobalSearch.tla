--------------------------- MODULE MCGlobalSearch ---------------------------
(***************************************************************************)
(* Three clusters; rows 2 and 4 tie.  The first cluster alone fills a heap  *)
(* of two for some filters and not for others.                              *)
(***************************************************************************)
EXTENDS GlobalSearch

CONSTANTS t1, t2

MCRows == 1..6
MCClusterOf == <<1, 1, 2, 2, 3, 3>>
MCDist == <<5, 2, 1, 2, 0, 4>>
MCFilters == {{}, {4}, {1, 2, 5}, {1, 3, 4, 5}, {2, 3, 6}, {3, 4, 5, 6}}

=============================================================================
