--------------------------- MODULE MCIndexCreate ---------------------------
(***************************************************************************)
(* Row groups of three rows, read in chunks of two.  Tables have one, two   *)
(* or three row groups, the last one full or not, and each a number of      *)
(* clusters of another level.  NULLs come first, last, or fill a row group. *)
(***************************************************************************)
EXTENDS IndexCreate, TLC

CONSTANTS t1, t2

MCNullSets == {{}, {0, 4}, {1, 3, 4, 5}, {2, 6}}
MCSymmetry == Permutations(Threads)

=============================================================================
