------------------------------ MODULE MCStorage ------------------------------
(* Storage for TLC: the processes, index updates and log lines, each kind    *)
(* interchangeable among themselves.                                         *)
EXTENDS Storage, TLC

CONSTANTS p1, p2, o1, o2, l1, l2, l3, l4

Symmetry == Permutations(Procs) \cup Permutations(Ops) \cup Permutations(Lines)
==============================================================================
