------------------------------ MODULE FileStore ------------------------------
(* internal/fsstore: an index file that several processes update, each under *)
(* the lock file of its key, by a temporary file that is synced and renamed  *)
(* over the target. A process may be killed, a system call may fail, and the *)
(* machine may lose power between any two steps.                             *)
EXTENDS Processes

CONSTANTS Ops,   \* updates, each the addition of one entry
          NoOp   \* the call of an idle process

ASSUME NoOpAssumption == NoOp \notin Ops

VARIABLES lock,       \* owner of the flock on <key>.lck
          file,       \* content under the target's name
          survivors,  \* contents of that name a power loss may leave
          pc,         \* where each process is in MutateIndex
          call,       \* the update it is making
          temp,       \* its temporary file: what a reader of it would find
          outcome     \* what the caller of each update was told

fvars == <<lock, file, survivors, pc, call, temp, outcome>>

\* Bytes that never reached the disk: neither the old content nor the new.
Torn == {NoOp}
Contents == SUBSET Ops
Outcomes == {"new", "pending", "ok", "failed", "lost"}
Holding == {"read", "mutate", "written", "synced", "renamed"}

StoreTypeOK == /\ lock \in Procs \union {NoProc}
               /\ file \in Contents
               /\ survivors \in SUBSET Contents
               /\ pc \in [Procs -> {"idle", "lock"} \union Holding]
               /\ call \in [Procs -> Ops \union {NoOp}]
               /\ temp \in [Procs -> [content : Contents, synced : BOOLEAN]]
               /\ outcome \in [Ops -> Outcomes]

EmptyTemp == [content |-> {}, synced |-> FALSE]

StoreInit == /\ lock = NoProc
             /\ file = {}
             /\ survivors = {{}}
             /\ pc = [p \in Procs |-> "idle"]
             /\ call = [p \in Procs |-> NoOp]
             /\ temp = [p \in Procs |-> EmptyTemp]
             /\ outcome = [op \in Ops |-> "new"]

\* MutateIndex is called.
Begin(p) ==
  /\ pc[p] = "idle"
  /\ \E op \in Ops : /\ outcome[op] = "new"
                     /\ call' = [call EXCEPT ![p] = op]
                     /\ outcome' = [outcome EXCEPT ![op] = "pending"]
  /\ pc' = [pc EXCEPT ![p] = "lock"]
  /\ UNCHANGED <<lock, file, survivors, temp>>

\* The call returns: the lock it holds is released (defer LOCK_UN, Close).
Return(p, result) ==
  /\ lock' = IF lock = p THEN NoProc ELSE lock
  /\ outcome' = [outcome EXCEPT ![call[p]] = result]
  /\ pc' = [pc EXCEPT ![p] = "idle"]
  /\ call' = [call EXCEPT ![p] = NoOp]

(* Variant: the flock is asked for, its refusal not looked at. *)
LockFileIgnored(p) ==
  /\ pc[p] = "lock"
  /\ lock' = p
  /\ pc' = [pc EXCEPT ![p] = "read"]
  /\ UNCHANGED <<file, survivors, call, temp, outcome>>

\* flock LOCK_EX|LOCK_NB succeeds; the metadata written into the lock file is
\* for people to read, and its errors are ignored.
LockFile(p) ==
  /\ pc[p] = "lock"
  /\ lock = NoProc
  /\ lock' = p
  /\ pc' = [pc EXCEPT ![p] = "read"]
  /\ UNCHANGED <<file, survivors, call, temp, outcome>>

\* The lock file cannot be opened or locked, or the context ends while the call
\* polls a lock another process holds.
LockFails(p) ==
  /\ pc[p] = "lock"
  /\ Return(p, "failed")
  /\ UNCHANGED <<file, survivors, temp>>

\* ReadIndex: a missing or blank file is an empty index.
ReadIndex(p) ==
  /\ pc[p] = "read"
  /\ file # Torn
  /\ temp' = [temp EXCEPT ![p] = [content |-> file, synced |-> FALSE]]
  /\ pc' = [pc EXCEPT ![p] = "mutate"]
  /\ UNCHANGED <<lock, file, survivors, call, outcome>>

\* fn adds its entry, and the whole index goes to a new temporary file.
WriteTemp(p) ==
  /\ pc[p] = "mutate"
  /\ temp' = [temp EXCEPT ![p] = [content |-> @.content \union {call[p]}, synced |-> FALSE]]
  /\ pc' = [pc EXCEPT ![p] = "written"]
  /\ UNCHANGED <<lock, file, survivors, call, outcome>>

\* tmp.Sync, Chmod and Close.
SyncTemp(p) ==
  /\ pc[p] = "written"
  /\ temp' = [temp EXCEPT ![p].synced = TRUE]
  /\ pc' = [pc EXCEPT ![p] = "synced"]
  /\ UNCHANGED <<lock, file, survivors, call, outcome>>

\* The rename replaces the name at once for every reader. On the disk the old
\* name may outlive it until the directory is synced.
Rename(p) ==
  /\ pc[p] = "synced"
  /\ file' = temp[p].content
  /\ survivors' = survivors \union {IF temp[p].synced THEN temp[p].content ELSE Torn}
  /\ pc' = [pc EXCEPT ![p] = "renamed"]
  /\ UNCHANGED <<lock, call, temp, outcome>>

\* The directory sync is best effort: the call succeeds whether it did or not.
SyncDir(p) ==
  /\ pc[p] = "renamed"
  /\ survivors' \in {survivors, {file}}
  /\ Return(p, "ok")
  /\ UNCHANGED <<file, temp>>

\* A read, the mutator or a step before the rename fails: the temporary file is
\* removed and the error returned, the target untouched.
StepFails(p) ==
  /\ pc[p] \in {"read", "mutate", "written", "synced"}
  /\ Return(p, "failed")
  /\ UNCHANGED <<file, survivors, temp>>

\* The process is killed: the kernel drops its flock, its temporary file stays
\* behind under a name nobody reads.
Kill(p) ==
  /\ pc[p] # "idle"
  /\ Return(p, "lost")
  /\ UNCHANGED <<file, survivors, temp>>

PowerLoss ==
  /\ file' \in survivors
  /\ survivors' = {file'}
  /\ lock' = NoProc
  /\ pc' = [p \in Procs |-> "idle"]
  /\ call' = [p \in Procs |-> NoOp]
  /\ outcome' = [op \in Ops |-> IF outcome[op] = "pending" THEN "lost" ELSE outcome[op]]
  /\ UNCHANGED temp

Step(p) == \/ Begin(p) \/ LockFile(p) \/ LockFails(p) \/ ReadIndex(p) \/ WriteTemp(p)
           \/ SyncTemp(p) \/ Rename(p) \/ SyncDir(p) \/ StepFails(p)

StoreNext == (\E p \in Procs : Step(p) \/ Kill(p)) \/ PowerLoss

StoreSpec == StoreInit /\ [][StoreNext]_fvars

(* Refinement. The store promises atomic updates, whatever the processes    *)
(* that make them and wherever a kill, an error or a power loss falls.       *)
Promise == INSTANCE AtomicStore WITH value <- file
AtomicUpdates == Promise!Spec

(* The invariant the refinement rests on: one process at a time is between  *)
(* its read and its rename, and what it is about to write is what it read    *)
(* plus its own entry.                                                       *)
Exclusive == \A p \in Procs : pc[p] \in Holding => lock = p
SnapshotIsCurrent == \A p \in Procs :
  /\ pc[p] = "mutate" => temp[p].content = file
  /\ pc[p] \in {"written", "synced"} => temp[p].content = file \union {call[p]}
  /\ pc[p] = "synced" => temp[p].synced
CallsArePending == \A p \in Procs :
  pc[p] # "idle" => /\ call[p] \in Ops
                    /\ outcome[call[p]] = "pending"
                    /\ pc[p] # "renamed" => call[p] \notin file
                    /\ pc[p] = "renamed" => call[p] \in file
CallsAreDistinct == \A p, q \in Procs :
  pc[p] # "idle" /\ pc[q] # "idle" /\ call[p] = call[q] => p = q
NewOpsAreAbsent == \A op \in Ops : outcome[op] = "new" =>
                     /\ op \notin file
                     /\ \A v \in survivors : op \notin v
StoreInv == /\ StoreTypeOK /\ Exclusive /\ SnapshotIsCurrent /\ CallsArePending
            /\ CallsAreDistinct /\ NewOpsAreAbsent
==============================================================================
