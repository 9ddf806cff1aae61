------------------------------ MODULE Processes ------------------------------
(* The processes (or goroutines) that share one state directory.             *)
CONSTANTS Procs,   \* the processes
          NoProc   \* the owner of a lock file nobody has locked

ASSUME NoProcAssumption == NoProc \notin Procs
==============================================================================
