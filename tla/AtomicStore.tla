----------------------------- MODULE AtomicStore -----------------------------
(* What internal/fsstore promises its callers (contacts, maep, guard): every *)
(* update of a file is one step, none is lost to another update, none is     *)
(* half applied, and an update that reports an error has changed nothing.    *)
(* Only a power loss may take the file back, to a whole earlier version.     *)
CONSTANT Ops  \* the updates callers ask for, each one entry of the index

VARIABLES value,      \* the entries a reader finds
          survivors,  \* the versions a power loss may leave on the disk
          outcome     \* what the caller of each update was told

avars == <<value, survivors, outcome>>

Init == /\ value = {}
        /\ survivors = {{}}
        /\ outcome = [op \in Ops |-> "new"]

Start(op) == /\ outcome[op] = "new"
             /\ outcome' = [outcome EXCEPT ![op] = "pending"]
             /\ UNCHANGED <<value, survivors>>

Apply(op) == /\ outcome[op] = "pending"
             /\ op \notin value
             /\ value' = value \union {op}
             /\ survivors' = survivors \union {value'}
             /\ UNCHANGED outcome

Succeed(op) == /\ outcome[op] = "pending"
               /\ op \in value
               /\ survivors' \in {survivors, {value}}
               /\ outcome' = [outcome EXCEPT ![op] = "ok"]
               /\ UNCHANGED value

Fail(op) == /\ outcome[op] = "pending"
            /\ op \notin value
            /\ outcome' = [outcome EXCEPT ![op] = "failed"]
            /\ UNCHANGED <<value, survivors>>

\* The process that asked is gone: it is told nothing, applied or not.
Die(op) == /\ outcome[op] = "pending"
           /\ outcome' = [outcome EXCEPT ![op] = "lost"]
           /\ UNCHANGED <<value, survivors>>

PowerLoss == /\ value' \in survivors
             /\ survivors' = {value'}
             /\ outcome' = [op \in Ops |->
                  IF outcome[op] = "pending" THEN "lost" ELSE outcome[op]]

Next == \/ \E op \in Ops : Start(op) \/ Apply(op) \/ Succeed(op) \/ Fail(op) \/ Die(op)
        \/ PowerLoss

Spec == Init /\ [][Next]_avars
==============================================================================
