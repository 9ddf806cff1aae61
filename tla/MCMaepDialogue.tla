--------------------------- MODULE MCMaepDialogue ---------------------------
(* MaepDialogue for TLC: feedback that lowers the interest by 0.35, leaves *)
(* it or raises it by as much, so that it meets the threshold exactly.     *)
EXTENDS MaepDialogue

SomeDeltas == {-7, 0, 7}
=============================================================================
