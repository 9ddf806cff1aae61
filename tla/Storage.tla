------------------------------- MODULE Storage -------------------------------
(* A state directory with its index files and its logs: the processes that   *)
(* share it make one call at a time, on the one or on the other, and die     *)
(* from both at once.                                                        *)
EXTENDS FileStore, JsonlLog

CONSTANT MaxCalls  \* bound: updates and appends begun

svars == <<fvars, lvars>>

CallsMade == Cardinality({op \in Ops : outcome[op] # "new"})
             + Cardinality({l \in Lines : told[l] # "new"})

IndexCall(p) == lpc[p] = "idle" /\ Step(p) /\ UNCHANGED lvars /\ CallsMade' <= MaxCalls

LogCall(p) == pc[p] = "idle" /\ LogStep(p) /\ UNCHANGED fvars /\ CallsMade' <= MaxCalls

KilledInIndex(p) == /\ Kill(p)
                    /\ writer' = [writer EXCEPT ![p] = NoWriter]
                    /\ UNCHANGED <<inode, dir, llock, lpc, line, target, told>>

KilledInLog(p) == LogKill(p) /\ UNCHANGED fvars

\* Appends are not synced: a power loss may take the tail of every file.
LogPowerLoss ==
  /\ \E keep \in [1..Len(inode) -> 0..Cardinality(Lines)] :
       /\ \A k \in 1..Len(inode) : keep[k] <= Len(inode[k])
       /\ inode' = [k \in 1..Len(inode) |-> SubSeq(inode[k], 1, keep[k])]
  /\ llock' = NoProc
  /\ writer' = [p \in Procs |-> NoWriter]
  /\ lpc' = [p \in Procs |-> "idle"]
  /\ line' = [p \in Procs |-> NoLine]
  /\ told' = [l \in Lines |-> IF told[l] = "new" THEN "new" ELSE "lost"]
  /\ UNCHANGED <<dir, target>>

StorageInit == StoreInit /\ LogInit
StorageNext == \/ \E p \in Procs : IndexCall(p) \/ LogCall(p) \/ KilledInIndex(p) \/ KilledInLog(p)
               \/ PowerLoss /\ LogPowerLoss
StorageSpec == StorageInit /\ [][StorageNext]_svars

StorageTypeOK == StoreTypeOK /\ LogTypeOK
==============================================================================
