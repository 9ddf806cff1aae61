---------------------------- MODULE MCTaskDaemon ----------------------------
(* TaskDaemon for TLC: symmetry of the ids that carry no meaning.          *)
EXTENDS TaskDaemon, TLC

Symmetry == Permutations(Requests) \cup Permutations(Approvals)
               \cup Permutations(Tasks \ Heartbeats) \cup Permutations(Heartbeats)
=============================================================================
