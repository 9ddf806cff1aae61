--------------------------- MODULE MCMaepContacts ---------------------------
(* MaepContacts for TLC: peers, uuids and processes are interchangeable.   *)
EXTENDS MaepContacts, TLC

CONSTANTS p1, p2, u1, u2, q1, q2

Symmetry == Permutations(Peers) \cup Permutations(UUIDs) \cup Permutations(Procs)
=============================================================================
