------------------------------ MODULE MCLayout ------------------------------
(***************************************************************************)
(* The fetching sizes of the code, and numbers of dimensions on both sides  *)
(* of every threshold of the split, with vertical parts of all remainders   *)
(* modulo four.                                                             *)
(***************************************************************************)
EXTENDS Layout

MCDimensions == 1..9 \cup {33, 63, 64, 65, 100, 127, 128, 129, 130, 131, 172, 256, 300, 1028}
MCFetchingSizes ==
    <<16, 16, 32, 32, 32, 32, 64, 64, 64, 64, 128, 128, 128, 128, 256, 256, 512, 1024, 2048, 16384>>

=============================================================================
