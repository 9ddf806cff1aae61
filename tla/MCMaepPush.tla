----------------------------- MODULE MCMaepPush -----------------------------
(* MaepPush for TLC: the calls and keys that may be exchanged.             *)
EXTENDS MaepPush, TLC

CONSTANTS c1, c2, c3, k1, k2

Symmetry == Permutations(Keys) \cup Permutations(Notifying) \cup Permutations(Calls \ Notifying)
=============================================================================
