------------------------------- MODULE MaepLog -------------------------------
(* The record files of a MAEP node and of the contacts service: the inbox    *)
(* and outbox ("box"), the MAEP audit trail ("audit") and the trail of share *)
(* decisions ("events"). Each is a JSONL log that the processes append to    *)
(* and list; the first two may find the JSON file an earlier version of the  *)
(* program left and move its records into the log first.                     *)
EXTENDS Processes, Naturals, Sequences, FiniteSets, SequencesExt

CONSTANTS Old,       \* the records an earlier version may have left, in order
          New,       \* the records to append
          From,      \* the peer, contact or action a record is about
          At,        \* the place of a record by its time and, among equal times, its id
          Torn, Bad, \* the start of a line, and a line that is no JSON value
          AnySubject, \* the filter of a list that asks for all records
          Limits,    \* the limits a list is given, 0 for none
          MaxLists,  \* bound: lists begun
          MaxFaults  \* bound: failed steps, torn writes and killed processes

VARIABLES kind,    \* which of the files
          legacy,  \* the old JSON file: the number of its records, or Gone
          left,    \* history: what it was at first
          hasLog,  \* the JSONL file exists
          log,     \* its lines
          lock,    \* owner of the lock file
          call,    \* the call each process is in
          pc,      \* where it is in it
          rest,    \* the records it still has to migrate
          acked,   \* history: appends that returned without an error
          begun,   \* history: appends begun
          due,     \* history: the appends acknowledged when its list began
          found,   \* history: the last list that returned
          mixed,   \* history: a migration overlapped another or was cut short
          hidden,  \* history: the log came to be while the old file was there
          lists,
          faults

vars == <<kind, legacy, left, hasLog, log, lock, call, pc, rest, acked, begun, found,
          due, mixed, hidden, lists, faults>>
disk == <<legacy, hasLog, log>>
history == <<left, acked, begun, found, due, mixed, hidden, lists, faults>>

Gone == Len(Old) + 1
OldRecords == Range(Old)
Records == OldRecords \union New
Subjects == {From[r] : r \in Records}

Idle == [op |-> "none"]
AppendCall(r) == [op |-> "append", record |-> r]
ListCall(s, n) == [op |-> "list", about |-> s, limit |-> n]
Calls == {Idle} \union {AppendCall(r) : r \in New}
         \union {ListCall(s, n) : s \in Subjects \union {AnySubject}, n \in Limits}
NoList == [records |-> <<>>, about |-> AnySubject, limit |-> 0, due |-> {}]

TypeOK ==
  /\ kind \in {"box", "audit", "events"}
  /\ legacy \in 0..Gone
  /\ hasLog \in BOOLEAN
  /\ log \in Seq(Records \union {Torn, Bad})
  /\ lock \in Procs \union {NoProc}
  /\ call \in [Procs -> Calls]
  /\ pc \in [Procs -> {"idle", "lock", "open", "legacy", "create", "copy", "move", "write", "read"}]
  /\ \A p \in Procs : rest[p] \in Seq(OldRecords)

Init ==
  /\ kind \in {"box", "audit", "events"}
  /\ legacy \in IF kind = "events" THEN {Gone} ELSE 0..Gone
  /\ left = legacy
  /\ hasLog = FALSE
  /\ log = <<>>
  /\ lock = NoProc
  /\ call = [p \in Procs |-> Idle]
  /\ pc = [p \in Procs |-> "idle"]
  /\ rest = [p \in Procs |-> <<>>]
  /\ acked = {} /\ begun = {}
  /\ found = NoList
  /\ due = [p \in Procs |-> {}]
  /\ mixed = FALSE /\ hidden = FALSE
  /\ lists = 0 /\ faults = 0

\* O_APPEND: a record that follows an unfinished line ends up in that line.
Appended(lines, r) ==
  IF lines # <<>> /\ Last(lines) = Torn
    THEN [lines EXCEPT ![Len(lines)] = IF r = Torn THEN Torn ELSE Bad]
    ELSE Append(lines, r)
Readable == Range(log) \subseteq Records

\* An append takes the lock file of its kind (the boxes share the state lock).
\* A list of the trails takes it too; a list of a box takes none.
BeginAppend(p) ==
  /\ pc[p] = "idle"
  /\ \E r \in New \ begun : /\ call' = [call EXCEPT ![p] = AppendCall(r)]
                            /\ begun' = begun \union {r}
  /\ pc' = [pc EXCEPT ![p] = "lock"]
  /\ UNCHANGED <<kind, disk, left, lock, rest, acked, found, due, mixed, hidden, lists, faults>>

BeginList(p) ==
  /\ pc[p] = "idle"
  /\ lists < MaxLists
  /\ \E s \in Subjects \union {AnySubject}, n \in Limits :
       call' = [call EXCEPT ![p] = ListCall(s, n)]
  /\ pc' = [pc EXCEPT ![p] = IF kind = "box" THEN "legacy" ELSE "lock"]
  /\ found' = NoList
  /\ due' = [due EXCEPT ![p] = acked]
  /\ lists' = lists + 1
  /\ UNCHANGED <<kind, disk, left, lock, rest, acked, begun, mixed, hidden, faults>>

LockFile(p) ==
  /\ pc[p] = "lock"
  /\ lock = NoProc
  /\ lock' = p
  /\ pc' = [pc EXCEPT ![p] = IF kind = "box" THEN "legacy"
                             ELSE IF call[p].op = "list" THEN "open" ELSE "write"]
  /\ UNCHANGED <<kind, disk, call, rest, history>>

\* loadAuditEventsLocked: the old file is looked for only when there is no log.
OpenTrail(p) ==
  /\ pc[p] = "open"
  /\ pc' = [pc EXCEPT ![p] = IF hasLog \/ kind = "events" THEN "read" ELSE "legacy"]
  /\ UNCHANGED <<kind, disk, lock, call, rest, history>>

\* migrateLegacy...IfPresentLocked: an old file without records is renamed only.
ReadLegacy(p) ==
  /\ pc[p] = "legacy"
  /\ IF legacy = Gone
       THEN /\ pc' = [pc EXCEPT ![p] = IF call[p].op = "append" THEN "write" ELSE "read"]
            /\ UNCHANGED <<rest, mixed>>
       ELSE /\ rest' = [rest EXCEPT ![p] = SubSeq(Old, 1, legacy)]
            /\ pc' = [pc EXCEPT ![p] = IF legacy = 0 THEN "move" ELSE "create"]
            /\ mixed' = (mixed \/ \E q \in Procs \ {p} : pc[q] \in {"create", "copy", "move"})
  /\ UNCHANGED <<kind, disk, left, lock, call, acked, begun, found, due, hidden, lists, faults>>

\* NewJSONLWriter creates the log before the first record is in it.
CreateLog(p) ==
  /\ pc[p] = "create"
  /\ hasLog' = TRUE
  /\ pc' = [pc EXCEPT ![p] = "copy"]
  /\ UNCHANGED <<kind, legacy, log, lock, call, rest, history>>

CopyRecord(p) ==
  /\ pc[p] = "copy"
  /\ log' = Appended(log, Head(rest[p]))
  /\ rest' = [rest EXCEPT ![p] = Tail(@)]
  /\ pc' = [pc EXCEPT ![p] = IF Len(rest[p]) = 1 THEN "move" ELSE "copy"]
  /\ UNCHANGED <<kind, legacy, hasLog, lock, call, history>>

\* renameLegacyDataFile: that another process was faster is no error.
MoveLegacy(p) ==
  /\ pc[p] = "move"
  /\ legacy' = Gone
  /\ pc' = [pc EXCEPT ![p] = IF call[p].op = "append" THEN "write" ELSE "read"]
  /\ UNCHANGED <<kind, hasLog, log, lock, call, rest, history>>

Return(p) ==
  /\ lock' = IF lock = p THEN NoProc ELSE lock
  /\ call' = [call EXCEPT ![p] = Idle]
  /\ pc' = [pc EXCEPT ![p] = "idle"]
  /\ rest' = [rest EXCEPT ![p] = <<>>]
  /\ due' = [due EXCEPT ![p] = {}]

WriteRecord(p) ==
  /\ pc[p] = "write"
  /\ hasLog' = TRUE
  /\ log' = Appended(log, call[p].record)
  /\ acked' = acked \union {call[p].record}
  /\ hidden' = (hidden \/ (legacy # Gone /\ ~hasLog))
  /\ Return(p)
  /\ UNCHANGED <<kind, legacy, left, begun, found, mixed, lists, faults>>

\* Newest first, cut at the limit. In the trail of shares and in the others the
\* filters compare one field each.
Newer(r, s) == At[r] > At[s]
Place(list, r) == CHOOSE i \in 1..(Len(list) + 1) :
  /\ \A k \in 1..(i - 1) : ~Newer(r, list[k])
  /\ i <= Len(list) => Newer(r, list[i])
Placed(list, r) == InsertAt(list, Place(list, r), r)
Matching(about, lines) ==
  FoldLeft(LAMBDA list, r : IF about \in {AnySubject, From[r]} THEN Placed(list, r) ELSE list,
           <<>>, lines)
Listed(about, limit, lines) ==
  LET list == Matching(about, lines)
  IN IF limit > 0 /\ Len(list) > limit THEN SubSeq(list, 1, limit) ELSE list

(* Variant: the limit is applied before the filter. *)
ReadLogCutFirst(p) ==
  /\ pc[p] = "read"
  /\ Readable
  /\ found' = [about |-> call[p].about, limit |-> call[p].limit, due |-> due[p],
               records |-> Listed(call[p].about, 0, Listed(AnySubject, call[p].limit, log))]
  /\ Return(p)
  /\ UNCHANGED <<kind, disk, left, acked, begun, mixed, hidden, lists, faults>>

\* One line that does not decode fails the whole list.
ReadLog(p) ==
  /\ pc[p] = "read"
  /\ Readable
  /\ found' = [about |-> call[p].about, limit |-> call[p].limit, due |-> due[p],
               records |-> Listed(call[p].about, call[p].limit, log)]
  /\ Return(p)
  /\ UNCHANGED <<kind, disk, left, acked, begun, mixed, hidden, lists, faults>>

ReadFails(p) ==
  /\ pc[p] = "read"
  /\ ~Readable
  /\ Return(p)
  /\ UNCHANGED <<kind, disk, left, acked, begun, found, mixed, hidden, lists, faults>>

\* A step returns an error, or the process is killed in it: what it wrote
\* stays, the last write perhaps in part. A migration cut short leaves the old
\* file and the records already copied.
Fault(p) ==
  /\ pc[p] # "idle"
  /\ faults < MaxFaults
  /\ \/ UNCHANGED disk
     \/ /\ pc[p] = "write" /\ ~hasLog
        /\ hasLog' = TRUE
        /\ UNCHANGED <<legacy, log>>
     \/ /\ pc[p] \in {"write", "copy"}
        /\ hasLog' = TRUE
        /\ log' = Appended(log, Torn)
        /\ UNCHANGED legacy
  /\ mixed' = (mixed \/ pc[p] \in {"copy", "move"})
  /\ hidden' = (hidden \/ (legacy # Gone /\ (pc[p] = "copy" \/ (~hasLog /\ hasLog'))))
  /\ faults' = faults + 1
  /\ Return(p)
  /\ UNCHANGED <<kind, left, acked, begun, found, lists>>

Step(p) == \/ BeginAppend(p) \/ BeginList(p) \/ LockFile(p) \/ OpenTrail(p) \/ ReadLegacy(p)
           \/ CreateLog(p) \/ CopyRecord(p) \/ MoveLegacy(p) \/ WriteRecord(p) \/ ReadLog(p)
           \/ ReadFails(p) \/ Fault(p)

Next == \E p \in Procs : Step(p)

Spec == Init /\ [][Next]_vars

Count(r, s) == Cardinality({i \in 1..Len(s) : s[i] = r})

(* Safety. A list that returns is whole: every record that was acknowledged   *)
(* before it began and matches it is there exactly once, unless as many newer *)
(* ones fill its limit; no new record is there twice. So is every record of   *)
(* the old file, with two exceptions: after two migrations overlapped or one  *)
(* was cut short they may be there twice, and a trail misses them once it has *)
(* a log of its own with the old file still there, which an append before the *)
(* first list gives it, or a migration cut short.                             *)
EveryListIsWhole == found # NoList =>
  LET list == found
      Expected(r) == list.about \in {AnySubject, From[r]}
      Full(r) == /\ list.limit > 0
                 /\ Len(list.records) = list.limit
                 /\ \A i \in 1..list.limit : At[list.records[i]] >= At[r]
      moved == IF left # Gone /\ (kind = "box" \/ ~hidden)
                 THEN Range(SubSeq(Old, 1, left)) ELSE {}
  IN /\ \A r \in list.due : Expected(r) => Count(r, list.records) = 1 \/ Full(r)
     /\ \A r \in moved : Expected(r) => Count(r, list.records) >= 1 \/ Full(r)
     /\ \A r \in New : Count(r, list.records) <= 1
     /\ ~mixed => \A r \in OldRecords : Count(r, list.records) <= 1
==============================================================================
