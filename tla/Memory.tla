------------------------------- MODULE Memory -------------------------------
(***************************************************************************)
(* The short-term and long-term memory files of the Telegram bot: package  *)
(* memory (update.go, telegram.go) as updateSessionMemory of               *)
(* telegramcmd/command.go drives it.  A file is read, sent to the language *)
(* model, merged, truncated and written, with no lock: the worker of the   *)
(* chat, the goroutine that retries an update that timed out and the task  *)
(* synchronisation of the other chats share the files.                     *)
(*                                                                         *)
(* Of a file the model keeps the task lists and the part of the            *)
(* frontmatter that is read back: whose file it is and the two ratios.     *)
(* Summaries and facts are texts that decide nothing and are left out.  A  *)
(* MAEP session is a chat whose updates are not retried.                   *)
(***************************************************************************)
EXTENDS MemoryMerge, TLC

CONSTANTS Sessions,     \* of chats: one file of each per day
          Subjects, SubjectOf,  \* whose long-term file a chat's updates go to
          Window,       \* short_term_days
          Drafts,       \* what the model may draft from a conversation
          Answers,      \* task lists the model may answer to a merge
          InitialLong,  \* the long-term files of an earlier run
          MaxItems, MaxChars,   \* limits of a long-term file
          Horizon, MaxTurns, MaxFaults,  \* bounds: days, conversations, faults
          None

ASSUME MemoryAssumption ==
    /\ SubjectOf \in [Sessions -> Subjects]
    /\ Window \in Nat \ {0} /\ Horizon \in Nat \ {0} /\ MaxTurns \in Nat /\ MaxFaults \in Nat
    /\ MaxItems \in Nat \ {0} /\ MaxChars \in Nat \ {0}
    /\ None \notin Sessions

(* What models give are lists of tasks.                                     *)
GivenLists == Answers \cup UNION {{d.tasks, d.follows} : d \in Drafts}
Tasks == [text : UNION {Texts(ts) : ts \in GivenLists}, done : BOOLEAN]

ASSUME TaskListsAssumption == \A ts \in GivenLists : ts \in Seq(Tasks)

(* And of notes, the entries of a long-term file, as of an earlier run.     *)
GivenSections == {InitialLong.goals, InitialLong.facts} \cup UNION {{d.goals, d.facts} : d \in Drafts}
Notes ==
    [title : UNION {{x.title : x \in ToSet(xs)} : xs \in GivenSections}, size : Nat, added : Nat]
LongFiles == [goals : Seq(Notes), facts : Seq(Notes)]

ASSUME NotesAssumption ==
    InitialLong \in LongFiles /\ \A xs \in GivenSections : xs \in Seq(Notes)

VARIABLES files,    \* files[<<day, chat>>], of those that exist
          longs,    \* longs[subject]
          today, turns, faults,
          do,       \* the update each worker and each retry is at
          known,    \* history: texts an update put in a file and none dropped
          raced,    \* history: files written from an outdated or cut reading
          torn      \* history: files whose writing was cut short

memoryVars == <<files, longs, today, turns, faults, do, known, raced, torn>>

Days    == 1 .. Horizon
Paths   == Days \X Sessions
Workers == Sessions \X {"turn", "retry"}
Chat(w) == w[1]

Written(owner, tasks, follows) ==
    [owner |-> owner, ratios |-> <<TaskRatio(tasks), TaskRatio(follows)>>,
     tasks |-> tasks, follows |-> follows]
(* A file without a frontmatter that can be read, and no section. *)
Truncated == [owner |-> None, ratios |-> <<>>, tasks |-> <<>>, follows |-> <<>>]
NothingLong == [goals |-> <<>>, facts |-> <<>>]
IdleUpdate == [pc |-> "idle"]

MemoryInit ==
    /\ files = <<>>
    /\ longs = [s \in Subjects |-> InitialLong]
    /\ today = 1 /\ turns = 0 /\ faults = 0
    /\ do = [w \in Workers |-> IdleUpdate]
    /\ known = [p \in Paths |-> {}]
    /\ raced = {} /\ torn = {}

Exists(p) == p \in DOMAIN files
FilesWith(p, file) == [q \in DOMAIN files \cup {p} |-> IF q = p THEN file ELSE files[q]]
Items(file) == ToSet(file.tasks) \cup ToSet(file.follows)
Idle(w) == do[w].pc = "idle"
At(w, pc) == do[w].pc = pc
(* The file an update has read and may write back. *)
Holds(w, p) == do[w].pc \in {"draft", "truncate", "fill"} /\ do[w].path = p

(* Read and parsed: of tasks with one text the first counts. *)
Parsed(p) ==
    IF ~Exists(p) THEN Truncated
    ELSE [files[p] EXCEPT !.tasks = NormalizeTasks(@), !.follows = NormalizeTasks(@)]

Move(w, update) == do' = [do EXCEPT ![w] = update]
OnlyMoves == UNCHANGED <<files, longs, today, turns, faults, known, raced, torn>>

(* LoadShortTerm, under the date of this moment. *)
Loaded(w) ==
    LET p == <<today, Chat(w)>>
    IN  [pc |-> "draft", path |-> p, stale |-> FALSE,
         had |-> Exists(p), base |-> Parsed(p)]

(* A conversation of c ends with an answer and its update begins.           *)
StartTurn(c) ==
    LET w == <<c, "turn">>
    IN  /\ turns < MaxTurns /\ Idle(w)
        /\ Move(w, Loaded(w))
        /\ turns' = turns + 1
        /\ UNCHANGED <<files, longs, today, faults, known, raced, torn>>

(* The retry of an update that timed out reads the file again. *)
Retry(w) ==
    /\ At(w, "load")
    /\ Move(w, Loaded(w))
    /\ OnlyMoves

(* SemanticMergeShortTerm of one list: the model's merge and matching,      *)
(* repaired.                                                                *)
Repaired(existing, incoming, answer, match) ==
    EnsureMergedTasks(existing, incoming, ApplyTaskUpdates(answer, incoming, match))
Matches == {<<>>} \cup UNION {[{x} -> {1}] : x \in UNION {Texts(d.tasks) : d \in Drafts}}

(* What the merge of a draft into the content read may give: by the rules   *)
(* without a file or without a draft, else by the model, whose last answer  *)
(* replaces a list by one without duplicates, or by anything not empty.     *)
Merged(w, draft) ==
    LET base == do[w].base
        Deduped(list) == {list} \cup (IF list = <<>> THEN {} ELSE Answers \ {<<>>})
        ByModel(t, f, m) ==
            LET tasks   == Repaired(base.tasks, draft.tasks, t, m)
                follows == Repaired(base.follows, draft.follows, f, <<>>)
            IN  {[file |-> Written(Chat(w), x, y),
                  drops |-> (Texts(tasks) \cup Texts(follows)) \ (Texts(x) \cup Texts(y))] :
                    x \in Deduped(tasks), y \in Deduped(follows)}
    IN  IF do[w].had /\ draft.tasks \o draft.follows # <<>>
        THEN UNION {ByModel(t, f, m) : t \in Answers, f \in Answers, m \in Matches}
        ELSE {[file |-> Written(Chat(w),
                          MergeTasks(base.tasks, NormalizeTasks(draft.tasks)),
                          MergeTasks(base.follows, NormalizeTasks(draft.follows))),
               drops |-> {}]}

(* The model drafts and merges, while others go on.  Promotion needs an     *)
(* explicit request of the user.                                            *)
DraftUpdate(w) ==
    /\ At(w, "draft")
    /\ \E draft \in Drafts, explicit \in BOOLEAN : \E merged \in Merged(w, draft) :
         Move(w, [pc |-> "truncate", path |-> do[w].path, stale |-> do[w].stale,
                  promote |-> IF explicit
                              THEN LimitPromoteToOne([goals |-> draft.goals, facts |-> draft.facts])
                              ELSE NothingLong,
                  adds |-> Texts(draft.tasks) \cup Texts(draft.follows),
                  drops |-> merged.drops, next |-> merged.file])
    /\ OnlyMoves

(* os.WriteFile: the file is truncated, then filled. *)
Truncate(w) ==
    /\ At(w, "truncate")
    /\ files' = FilesWith(do[w].path, Truncated)
    /\ Move(w, [do[w] EXCEPT !.pc = "fill"])
    /\ UNCHANGED <<longs, today, turns, faults, known, raced, torn>>

(* Texts this session marks done, for the other recent files. *)
DoneIn(file) == {t.text : t \in {u \in Items(file) : u.done}}
Recent(day) == {d \in Days : d <= day /\ day - d < Window}
OtherRecent(c) == Recent(today) \X (Sessions \ {c})

(* After the own file comes UpdateRecentTaskStatuses, after that file of    *)
(* another chat the next one.                                               *)
AfterFill(w) ==
    LET u == do[w]
    IN  IF Chat(w) = u.path[2] /\ "next" \in DOMAIN u
        THEN [pc |-> "sync", promote |-> u.promote, done |-> DoneIn(u.next),
              todo |-> IF DoneIn(u.next) = {} THEN {} ELSE OtherRecent(Chat(w))]
        ELSE [pc |-> "sync", promote |-> u.promote, done |-> u.done,
              todo |-> u.todo \ {u.path}]
Filling(w) == IF "next" \in DOMAIN do[w] THEN do[w].next ELSE do[w].copy
Fill(w) ==
    LET p == do[w].path
    IN  /\ At(w, "fill")
        /\ files' = FilesWith(p, Filling(w))
        /\ do' = [v \in Workers |->
                    IF v = w THEN AfterFill(w)
                    ELSE IF Holds(v, p) THEN [do[v] EXCEPT !.stale = TRUE] ELSE do[v]]
        /\ known' = IF "next" \in DOMAIN do[w]
                    THEN [known EXCEPT ![p] = (@ \cup do[w].adds) \ do[w].drops] ELSE known
        /\ raced' = IF do[w].stale \/ p \in torn THEN raced \cup {p} ELSE raced
        /\ torn' = torn \ {p}
        /\ UNCHANGED <<longs, today, turns, faults>>

(* Variant: the flags change and the ratios do not. *)
FinishedOldRatios(file, done) ==
    [file EXCEPT !.tasks = FinishTasks(@, done), !.follows = FinishTasks(@, done)]
(* One file of UpdateRecentTaskStatuses, the days from the last back. *)
Finished(file, done) ==
    [Written(file.owner, FinishTasks(file.tasks, done), FinishTasks(file.follows, done))
       EXCEPT !.owner = file.owner]
SyncRead(w) ==
    /\ At(w, "sync")
    /\ \E p \in do[w].todo :
         LET file == Parsed(p)
             open == {t.text : t \in {u \in Items(file) : ~u.done}}
         IN  /\ \A q \in do[w].todo : q[1] <= p[1]
             /\ IF open \cap do[w].done = {}
                THEN Move(w, [do[w] EXCEPT !.todo = @ \ {p}])
                ELSE Move(w, [pc |-> "truncate", promote |-> do[w].promote, done |-> do[w].done,
                              todo |-> do[w].todo, path |-> p, stale |-> FALSE,
                              copy |-> Finished(file, do[w].done)])
    /\ OnlyMoves

(* Errors, late answers and kills, of which the model has MaxFaults. *)
Fault == faults < MaxFaults /\ faults' = faults + 1

(* An unreadable or unwritable file ends the synchronisation, not the       *)
(* update.                                                                  *)
SyncFails(w) ==
    /\ Fault
    /\ \/ At(w, "sync") /\ do[w].todo # {} /\ torn' = torn
       \/ At(w, "truncate") /\ "copy" \in DOMAIN do[w] /\ torn' = torn
       \/ At(w, "fill") /\ "copy" \in DOMAIN do[w] /\ torn' = torn \cup {do[w].path}
    /\ Move(w, [pc |-> "sync", promote |-> do[w].promote, done |-> {}, todo |-> {}])
    /\ UNCHANGED <<files, longs, today, turns, known, raced>>

(* UpdateLongTerm: nothing to promote ends the update. *)
Promote(w) ==
    LET s == SubjectOf[Chat(w)]
        p == do[w].promote
    IN  /\ At(w, "sync") /\ do[w].todo = {}
        /\ IF p = NothingLong THEN Move(w, IdleUpdate)
           ELSE Move(w, [pc |-> "cut", read |-> ParsedLong(longs[s]), promote |-> p,
                         long |-> EnforceLongTermLimits(
                                      MergeLongTerm(ParsedLong(longs[s]), p, today),
                                      MaxItems, MaxChars)])
        /\ OnlyMoves
CutLong(w) ==
    /\ At(w, "cut")
    /\ longs' = [longs EXCEPT ![SubjectOf[Chat(w)]] = NothingLong]
    /\ Move(w, [do[w] EXCEPT !.pc = "keep"])
    /\ UNCHANGED <<files, today, turns, faults, known, raced, torn>>
KeepLong(w) ==
    /\ At(w, "keep")
    /\ longs' = [longs EXCEPT ![SubjectOf[Chat(w)]] = do[w].long]
    /\ Move(w, IdleUpdate)
    /\ UNCHANGED <<files, today, turns, faults, known, raced, torn>>

(* The model does not answer in time: the update is dropped, and one of a   *)
(* turn is begun again by a goroutine two seconds later (AsyncRetry).  The  *)
(* model has one such goroutine per chat at a time.                         *)
TimesOut(w) ==
    LET again == <<Chat(w), "retry">>
    IN  /\ At(w, "draft") /\ Fault
        /\ IF w[2] = "turn" /\ Idle(again)
           THEN do' = [do EXCEPT ![w] = IdleUpdate,
                                 ![again] = [pc |-> "load"]]
           ELSE w[2] = "retry" /\ Move(w, IdleUpdate)
        /\ UNCHANGED <<files, longs, today, turns, known, raced, torn>>

(* Any other error ends the update; one while filling leaves the file cut. *)
UpdateFails(w) ==
    /\ Fault
    /\ \/ do[w].pc \in {"load", "draft", "cut", "keep"} /\ torn' = torn
       \/ At(w, "truncate") /\ "next" \in DOMAIN do[w] /\ torn' = torn
       \/ At(w, "fill") /\ "next" \in DOMAIN do[w] /\ torn' = torn \cup {do[w].path}
    /\ Move(w, IdleUpdate)
    /\ UNCHANGED <<files, longs, today, turns, known, raced>>

(* The bot is killed; of a file being filled the first lines may be there. *)
Cuts(w) == {Truncated, [Filling(w) EXCEPT !.follows = <<>>]}
Killed ==
    LET cut == {w \in Workers : At(w, "fill")}
    IN  /\ Fault /\ \E w \in Workers : ~Idle(w)
        /\ IF cut = {} THEN UNCHANGED <<files, torn>>
           ELSE \E w \in cut, kept \in UNION {Cuts(v) : v \in cut} :
                  /\ kept \in Cuts(w)
                  /\ files' = FilesWith(do[w].path, kept)
                  /\ torn' = torn \cup {do[v].path : v \in cut}
        /\ do' = [w \in Workers |-> IdleUpdate]
        /\ UNCHANGED <<longs, today, turns, known, raced>>

NextDay ==
    /\ today < Horizon
    /\ today' = today + 1
    /\ UNCHANGED <<files, longs, turns, faults, do, known, raced, torn>>

Step(w) ==
    \/ Retry(w) \/ DraftUpdate(w) \/ Truncate(w) \/ Fill(w) \/ SyncRead(w) \/ SyncFails(w)
    \/ Promote(w) \/ CutLong(w) \/ KeepLong(w)
    \/ TimesOut(w) \/ UpdateFails(w)
MemoryNext ==
    \/ \E c \in Sessions : StartTurn(c)
    \/ \E w \in Workers : Step(w)
    \/ Killed \/ NextDay
MemorySpec == MemoryInit /\ [][MemoryNext]_memoryVars

-----------------------------------------------------------------------------
(* Types: of a file, its two lists and ratios, of a long-term file its      *)
(* entries; an update is at a named step.                                   *)
MemoryTypeOK ==
    /\ DOMAIN files \subseteq Paths
    /\ \A p \in DOMAIN files :
         /\ files[p].owner \in {p[2], None}
         /\ \A t \in Items(files[p]) : t.done \in BOOLEAN
    /\ \A s \in Subjects : \A x \in ToSet(longs[s].goals \o longs[s].facts) :
         x.added \in 1 .. today
    /\ \A w \in Workers : do[w].pc \in {"idle", "load", "draft", "truncate", "fill",
                                        "sync", "cut", "keep"}
    /\ raced \subseteq Paths /\ torn \subseteq Paths

(* LoadTelegramChatsWithPendingTasks: the chats a heartbeat goes to. *)
PendingChats ==
    {c \in Sessions : \E p \in (Recent(today) \X Sessions) \cap DOMAIN files :
        /\ files[p].owner = c
        /\ \E i \in DOMAIN files[p].ratios : Pending(files[p].ratios[i])}

(* The heartbeat trusts the ratios of the frontmatter and never looks at    *)
(* the lists: it still finds exactly the chats with an open task in a       *)
(* recent file, whatever the synchronisation of other chats rewrote, as     *)
(* long as no write of a file of that chat is under way or was cut short.   *)
HeartbeatSeesPending ==
    \A c \in Sessions :
       LET own == Recent(today) \X {c}
       IN  (\A p \in own : p \notin torn /\ ~\E w \in Workers : At(w, "fill") /\ do[w].path = p)
             => (c \in PendingChats <=> \E p \in own \cap DOMAIN files : \E t \in Items(files[p]) : ~t.done)

(* A task an update recorded stays in its file until a later update's model *)
(* drops it as a duplicate, whatever the models answer to a merge and        *)
(* however the chats interleave, unless the file was written from an         *)
(* outdated reading (a retry that overlaps the next turn, a synchronisation  *)
(* that overlaps the owner's update) or its writing was cut short.           *)
KeptUnlessRaced ==
    \A p \in Paths :
       \/ p \in raced \cup torn
       \/ \E w \in Workers : At(w, "fill") /\ do[w].path = p
       \/ known[p] = {}
       \/ known[p] \subseteq {t.text : t \in Items(files[p])}

(* A promotion keeps the date every entry of a section was first added, but *)
(* for one the promotion dates itself; it drops entries only when a limit   *)
(* asks for it and then as few as that takes, and leaves the file within    *)
(* the limits.                                                              *)
LongEntries(c) == ToSet(c.goals) \cup ToSet(c.facts)
DatesKept(read, promoted, new) ==
    \A x \in ToSet(read), y \in ToSet(new) :
       x.title = y.title =>
          \/ x.added = y.added
          \/ \E z \in ToSet(promoted) : z.title = x.title /\ z.added # NoDate
LongTermKept ==
    [][\A w \in Workers :
         (At(w, "keep") /\ do'[w] = IdleUpdate /\ longs' # longs) =>
           LET new == longs'[SubjectOf[Chat(w)]]
               read == do[w].read
               promote == do[w].promote
           IN  /\ LongTermItems(new) <= MaxItems /\ LongTermChars(new) <= MaxChars
               /\ DatesKept(read.goals, promote.goals, new.goals)
               /\ DatesKept(read.facts, promote.facts, new.facts)
               /\ \E day \in Days :
                    LET all == MergeLongTerm(read, promote, day)
                    IN  LongTermItems(new) < LongTermItems(all) =>
                          \/ LongTermItems(new) = MaxItems
                          \/ \E x \in LongEntries(all) : LongTermChars(new) + x.size > MaxChars]_memoryVars
=============================================================================
