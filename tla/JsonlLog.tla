------------------------------ MODULE JsonlLog ------------------------------
(* The append-only JSONL logs (guard audit, contacts audit, maep audit and  *)
(* message boxes): each process has a writer of its own, appends one line at *)
(* a time under the log's lock file, and rotates the file by renaming it     *)
(* when its own count of bytes says it is full.                              *)
EXTENDS Processes, Naturals, Sequences, FiniteSets

CONSTANTS Lines,     \* the lines to append, one unit of size each
          NoLine,    \* the call of an idle process
          MaxSize,   \* RotateMaxBytes
          MaxInodes  \* bound: files ever created

VARIABLES inode,    \* the files ever created, each the sequence of its lines
          dir,      \* the directory: file name to inode, 0 when there is none
          llock,    \* owner of the log's lock file
          writer,   \* each process's writer: its state, its inode, its size
          lpc,      \* where each process is in its append
          line,     \* the line it appends
          target,   \* the rotated name it is trying
          told      \* what the caller of each append was told

lvars == <<inode, dir, llock, writer, lpc, line, target, told>>

\* The log's own name; <path>.<second> is 1 and <path>.<second>.<i> is i + 1:
\* every rotation falls in one second, where their names collide.
Current == 0
Names == Current..(MaxInodes + 1)
TornLine == "torn"

ASSUME LineAssumption ==
  /\ IsFiniteSet(Lines) /\ TornLine \notin Lines
  /\ MaxSize \in Nat /\ MaxInodes \in Nat

WriterStates == {"none", "open", "shut", "nil", "stuck"}
NoWriter == [state |-> "none", file |-> 0, size |-> 0]

LogTypeOK ==
  /\ Len(inode) <= MaxInodes
  /\ \A k \in 1..Len(inode) : inode[k] \in Seq(Lines \union {TornLine})
  /\ dir \in [Names -> 0..Len(inode)]
  /\ llock \in Procs \union {NoProc}
  /\ \A p \in Procs : /\ writer[p].state \in WriterStates
                      /\ writer[p].file \in 0..Len(inode)
                      /\ writer[p].size \in 0..Cardinality(Lines)
  /\ lpc \in [Procs -> {"idle", "lock", "append", "stat", "move", "open", "write"}]
  /\ line \in [Procs -> Lines \union {NoLine}]
  /\ target \in [Procs -> Names]
  /\ told \in [Lines -> {"new", "pending", "ok", "failed", "lost"}]

LogInit ==
  /\ inode = <<>>
  /\ dir = [n \in Names |-> 0]
  /\ llock = NoProc
  /\ writer = [p \in Procs |-> NoWriter]
  /\ lpc = [p \in Procs |-> "idle"]
  /\ line = [p \in Procs |-> NoLine]
  /\ target = [p \in Procs |-> Current]
  /\ told = [l \in Lines |-> "new"]

\* openLocked: O_CREATE|O_APPEND, the size taken from the file.
OpenLocked(p) ==
  IF dir[Current] # 0
    THEN /\ writer' = [writer EXCEPT ![p] = [state |-> "open", file |-> dir[Current],
                                             size |-> Len(inode[dir[Current]])]]
         /\ UNCHANGED <<inode, dir>>
    ELSE /\ Len(inode) < MaxInodes
         /\ inode' = Append(inode, <<>>)
         /\ dir' = [dir EXCEPT ![Current] = Len(inode')]
         /\ writer' = [writer EXCEPT ![p] = [state |-> "open", file |-> Len(inode'), size |-> 0]]

\* NewJSONLWriter: by the guard once, by contacts and maep for every append.
NewWriter(p) ==
  /\ lpc[p] = "idle"
  /\ writer[p].state = "none"
  /\ OpenLocked(p)
  /\ UNCHANGED <<llock, lpc, line, target, told>>

CloseWriter(p) ==
  /\ lpc[p] = "idle"
  /\ writer[p].state # "none"
  /\ writer' = [writer EXCEPT ![p] = NoWriter]
  /\ UNCHANGED <<inode, dir, llock, lpc, line, target, told>>

AppendJSON(p) ==
  /\ lpc[p] = "idle"
  /\ writer[p].state # "none"
  /\ \E l \in Lines : /\ told[l] = "new"
                      /\ line' = [line EXCEPT ![p] = l]
                      /\ told' = [told EXCEPT ![l] = "pending"]
  /\ lpc' = [lpc EXCEPT ![p] = "lock"]
  /\ UNCHANGED <<inode, dir, llock, writer, target>>

Finish(p, result) ==
  /\ llock' = IF llock = p THEN NoProc ELSE llock
  /\ told' = [told EXCEPT ![line[p]] = result]
  /\ line' = [line EXCEPT ![p] = NoLine]
  /\ lpc' = [lpc EXCEPT ![p] = "idle"]

(* Variant: the append runs under the writer's own mutex only. *)
LockLogDropped(p) ==
  /\ lpc[p] = "lock"
  /\ lpc' = [lpc EXCEPT ![p] = "append"]
  /\ UNCHANGED <<inode, dir, llock, writer, line, target, told>>

LockLog(p) ==
  /\ lpc[p] = "lock"
  /\ llock = NoProc
  /\ llock' = p
  /\ lpc' = [lpc EXCEPT ![p] = "append"]
  /\ UNCHANGED <<inode, dir, writer, line, target, told>>

\* rotateIfNeededLocked: the writer's own count decides. A file that was
\* closed by a rotation that failed is full by the same count.
Rotate(p) ==
  /\ lpc[p] = "append"
  /\ writer[p].size + 1 > MaxSize
  /\ writer' = [writer EXCEPT ![p].state = "shut", ![p].file = 0]
  /\ target' = [target EXCEPT ![p] = 1]
  /\ lpc' = [lpc EXCEPT ![p] = "stat"]
  /\ UNCHANGED <<inode, dir, llock, line, told>>

NoRotation(p) ==
  /\ lpc[p] = "append"
  /\ writer[p].size + 1 <= MaxSize
  /\ lpc' = [lpc EXCEPT ![p] = "write"]
  /\ UNCHANGED <<inode, dir, llock, writer, line, target, told>>

\* renameCurrentWithTimestampLocked: the first name that is not taken.
StatName(p) ==
  /\ lpc[p] = "stat"
  /\ IF dir[target[p]] # 0
       THEN /\ target[p] <= MaxInodes
            /\ target' = [target EXCEPT ![p] = @ + 1]
            /\ UNCHANGED lpc
       ELSE /\ lpc' = [lpc EXCEPT ![p] = "move"]
            /\ UNCHANGED target
  /\ UNCHANGED <<inode, dir, llock, writer, line, told>>

\* The rename replaces whatever has the name by then; a current file that is
\* not there is no error.
MoveCurrent(p) ==
  /\ lpc[p] = "move"
  /\ dir' = IF dir[Current] = 0 THEN dir
            ELSE [dir EXCEPT ![target[p]] = dir[Current], ![Current] = 0]
  /\ lpc' = [lpc EXCEPT ![p] = "open"]
  /\ UNCHANGED <<inode, llock, writer, line, target, told>>

\* The stat or the rename fails: the closed file stays the writer's file.
MoveFails(p) ==
  /\ lpc[p] = "move"
  /\ Finish(p, "failed")
  /\ UNCHANGED <<inode, dir, writer, target>>

Reopen(p) ==
  /\ lpc[p] = "open"
  /\ OpenLocked(p)
  /\ lpc' = [lpc EXCEPT ![p] = "write"]
  /\ UNCHANGED <<llock, line, target, told>>

\* The new file cannot be opened: the writer is left without one, size 0.
ReopenFails(p) ==
  /\ lpc[p] = "open"
  /\ writer' = [writer EXCEPT ![p] = [state |-> "nil", file |-> 0, size |-> 0]]
  /\ Finish(p, "failed")
  /\ UNCHANGED <<inode, dir, target>>

\* O_APPEND: the line lands at the end of the writer's inode, under whatever
\* name that has now.
WriteLine(p) ==
  /\ lpc[p] = "write"
  /\ writer[p].state = "open"
  /\ inode' = [inode EXCEPT ![writer[p].file] = Append(@, line[p])]
  /\ writer' = [writer EXCEPT ![p].size = @ + 1]
  /\ Finish(p, "ok")
  /\ UNCHANGED <<dir, target>>

\* The flush fails, part of the line on the disk or none. The buffer keeps the
\* error: every later write through it fails until a rotation replaces it.
FlushFails(p) ==
  /\ lpc[p] = "write"
  /\ writer[p].state = "open"
  /\ \/ inode' = [inode EXCEPT ![writer[p].file] = Append(@, TornLine)]
     \/ UNCHANGED inode
  /\ writer' = [writer EXCEPT ![p].state = "stuck", ![p].size = @ + 1]
  /\ Finish(p, "failed")
  /\ UNCHANGED <<dir, target>>

StuckWrite(p) ==
  /\ lpc[p] = "write"
  /\ writer[p].state = "stuck"
  /\ Finish(p, "failed")
  /\ UNCHANGED <<inode, dir, writer, target>>

\* The process is killed, or dies of the nil writer a failed reopen left.
LogKill(p) ==
  /\ lpc[p] # "idle"
  /\ writer' = [writer EXCEPT ![p] = NoWriter]
  /\ Finish(p, "lost")
  /\ UNCHANGED <<inode, dir, target>>

LogStep(p) ==
  \/ NewWriter(p) \/ CloseWriter(p) \/ AppendJSON(p) \/ LockLog(p) \/ Rotate(p)
  \/ NoRotation(p) \/ StatName(p) \/ MoveCurrent(p) \/ MoveFails(p) \/ Reopen(p)
  \/ ReopenFails(p) \/ WriteLine(p) \/ FlushFails(p) \/ StuckWrite(p)

Linked == {dir[n] : n \in Names} \ {0}
Copies(l) == {a \in Linked \X (1..Cardinality(Lines)) :
                a[2] <= Len(inode[a[1]]) /\ inode[a[1]][a[2]] = l}

(* Safety. A line whose append succeeded is in the log or in one of its      *)
(* rotated files, once, whichever writer rotated which file under whose      *)
(* open descriptor; a line whose append failed is nowhere.                   *)
NoLineLost == \A l \in Lines :
  /\ told[l] = "ok" => Cardinality(Copies(l)) = 1
  /\ told[l] = "failed" => Copies(l) = {}
==============================================================================
