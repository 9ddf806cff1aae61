---------------------------- MODULE TelegramChat ----------------------------
(***************************************************************************)
(* The chats of the Telegram bot (cmd/mistermorph/telegramcmd/command.go): *)
(* one poll loop handles the updates in the order they arrive, a worker    *)
(* per chat runs its jobs one after the other, at most MaxConcurrency run  *)
(* at once, and a ticker puts heartbeats between them.  All share history, *)
(* sticky skills and versions under one mutex; /reset may come at any      *)
(* moment.  Until the agent's profile is filled the loop only asks a       *)
(* private chat for it (init_flow.go).                                     *)
(***************************************************************************)
EXTENDS Naturals, Sequences, FiniteSets, SequencesExt

CONSTANTS
    Chats,
    Private,             \* the private chats
    Allowed,             \* the chats in allowed_chat_ids
    Targets,             \* the chats whose memory has pending tasks, for heartbeats
    MaxMessages,         \* bound: updates that arrive, numbered in order
    MaxResets,           \* bound: how often a chat is reset
    QueueCap,            \* of a worker's channel (16 in the code)
    MaxConcurrency,      \* of jobs (telegram.max_concurrency)
    HistoryMax,          \* entries kept (telegram.history_max_messages)
    FailureThreshold,    \* heartbeatFailureThreshold (3 in the code)
    FilesFail            \* bound: reading or writing a profile file may fail

ASSUME TelegramConstants ==
    /\ Private \subseteq Chats /\ Allowed \subseteq Chats /\ Targets \subseteq Chats
    /\ {MaxMessages, MaxResets} \subseteq Nat
    /\ {QueueCap, MaxConcurrency, HistoryMax, FailureThreshold} \subseteq Nat \ {0}
    /\ FilesFail \in BOOLEAN

VARIABLES
    arrived,       \* how many updates the poll loop has handled
    loop,          \* the job the poll loop is about to send, or NoJob
    queue,         \* the jobs in the channel of a chat's worker
    version,       \* how often a chat was reset
    worker,        \* what the worker of a chat does
    history,       \* the entries of a chat's history
    sticky,        \* the runs a chat's sticky skills come from: none, or one
    hbRunning, failures,               \* of a chat's heartbeats
    initRequired, sessions,            \* the profile is asked for, by which chats
    identity, soul,                    \* the update that filled the file; 0: none
    owed,          \* the updates accepted and not answered yet
    forgotten      \* the updates a reset of their chat removed from its history

profile == <<initRequired, sessions, identity, soul>>
chat == <<version, history, sticky, hbRunning, failures>>
vars == <<arrived, loop, queue, worker, chat, profile, owed, forgotten>>

Heartbeat == 0
Job(c, m) == [chat |-> c, msg |-> m, version |-> version[c]]
NoJob == [chat |-> "none", msg |-> 0, version |-> 0]

(* A run knows the version it started in and the history it was given. *)
NoRun == [pc |-> "idle", job |-> NoJob, seen |-> 0, context |-> <<>>]

Init ==
    /\ arrived = 0 /\ loop = NoJob
    /\ queue = [c \in Chats |-> <<>>]
    /\ version = [c \in Chats |-> 0]
    /\ worker = [c \in Chats |-> NoRun]
    /\ history = [c \in Chats |-> <<>>]
    /\ sticky = [c \in Chats |-> {}]
    /\ hbRunning = [c \in Chats |-> FALSE]
    /\ failures = [c \in Chats |-> 0]
    /\ sessions = {} /\ identity = 0 /\ soul = 0
    /\ initRequired \in BOOLEAN
    /\ owed = {} /\ forgotten = {}

Draft == identity = 0 /\ soul = 0
Running == {c \in Chats : worker[c].pc \in {"run", "alert", "store"}}

-----------------------------------------------------------------------------
(* The poll loop.                                                          *)

(* It is at the next update, which came from chat c. *)
Handles(c) ==
    /\ loop = NoJob /\ arrived < MaxMessages
    /\ arrived' = arrived + 1

(* An update comes past the init gate: nothing is required, or the profile *)
(* turns out to be filled; then a chat that was asked ends all sessions.   *)
GatePassed(c) ==
    /\ initRequired => c \in Allowed \cap Private /\ ~Draft
    /\ initRequired' = FALSE
    /\ UNCHANGED <<identity, soul>>

SessionsLeft(c) == IF initRequired /\ c \in sessions THEN {} ELSE sessions

(* "unauthorized", "please DM me first", an empty text for an answer, or a *)
(* profile that cannot be read.                                            *)
InitTurnedAway(c) ==
    /\ Handles(c) /\ initRequired
    /\ c \notin Allowed \cap Private \/ c \in sessions \/ FilesFail
    /\ UNCHANGED <<loop, queue, worker, chat, profile, owed, forgotten>>

InitAsk(c) ==
    /\ Handles(c) /\ initRequired /\ c \in Allowed \cap Private
    /\ c \notin sessions /\ Draft
    /\ sessions' = sessions \cup {c}
    /\ UNCHANGED <<loop, queue, worker, chat, initRequired, identity, soul, owed, forgotten>>

(* applyInitFromAnswer: IDENTITY.md is written, then SOUL.md; either, or   *)
(* the model call before them, may fail.                                   *)
InitApply(c) ==
    /\ Handles(c) /\ initRequired /\ c \in sessions /\ Draft
    /\ \/ /\ identity' = arrived' /\ soul' = arrived'
          /\ initRequired' = FALSE /\ sessions' = {}
       \/ /\ FilesFail /\ identity' \in {identity, arrived'}
          /\ UNCHANGED <<soul, initRequired, sessions>>
    /\ UNCHANGED <<loop, queue, worker, chat, owed, forgotten>>

(* A command, a chat that is not allowed, a group message for someone      *)
(* else, or a file that could not be loaded.                               *)
Ignore(c) ==
    /\ Handles(c) /\ GatePassed(c) /\ sessions' = SessionsLeft(c)
    /\ UNCHANGED <<loop, queue, worker, chat, owed, forgotten>>

Accept(c) ==
    /\ Handles(c) /\ c \in Allowed
    /\ GatePassed(c) /\ sessions' = SessionsLeft(c)
    /\ loop' = Job(c, arrived')
    /\ owed' = owed \cup {arrived'}
    /\ UNCHANGED <<queue, worker, chat, forgotten>>

(* The loop waits while the chat's channel is full, and all chats with it. *)
SendJob ==
    /\ loop # NoJob /\ Len(queue[loop.chat]) < QueueCap
    /\ queue' = [queue EXCEPT ![loop.chat] = Append(@, loop)]
    /\ loop' = NoJob
    /\ UNCHANGED <<arrived, worker, chat, profile, owed, forgotten>>

Messages(entries) == {e.msg : e \in ToSet(entries)} \ {Heartbeat}

Reset(c) ==
    /\ Handles(c) /\ c \in Allowed /\ version[c] < MaxResets
    /\ GatePassed(c) /\ sessions' = SessionsLeft(c) \ {c}
    /\ forgotten' = forgotten \cup Messages(history[c])
    /\ history' = [history EXCEPT ![c] = <<>>]
    /\ sticky' = [sticky EXCEPT ![c] = {}]
    /\ version' = [version EXCEPT ![c] = @ + 1]
    /\ UNCHANGED <<loop, queue, worker, hbRunning, failures, owed>>

-----------------------------------------------------------------------------

(* The heartbeat ticker, for a chat with pending tasks in its memory: with *)
(* the mutex held it looks, sends without waiting and sets the flag.       *)
HeartbeatTick(c) ==
    /\ c \in Allowed \cap Targets /\ ~hbRunning[c] /\ queue[c] = <<>>
    /\ queue' = [queue EXCEPT ![c] = Append(@, Job(c, Heartbeat))]
    /\ hbRunning' = [hbRunning EXCEPT ![c] = TRUE]
    /\ UNCHANGED <<arrived, loop, version, worker, history, sticky, failures, profile, owed, forgotten>>

-----------------------------------------------------------------------------
(* The worker of a chat.                                                   *)

TakeJob(c) ==
    /\ worker[c].pc = "idle" /\ queue[c] # <<>>
    /\ worker' = [worker EXCEPT ![c] = [NoRun EXCEPT !.pc = "sem", !.job = Head(queue[c])]]
    /\ queue' = [queue EXCEPT ![c] = Tail(@)]
    /\ UNCHANGED <<arrived, loop, chat, profile, owed, forgotten>>

(* A place under the limit is free; a job from before a reset is given no  *)
(* history.                                                                *)
StartJob(c) ==
    /\ worker[c].pc = "sem" /\ Cardinality(Running) < MaxConcurrency
    /\ worker' = [worker EXCEPT ![c] =
          [pc |-> "run", job |-> worker[c].job, seen |-> version[c],
           context |-> IF worker[c].job.version = version[c] THEN history[c] ELSE <<>>]]
    /\ UNCHANGED <<arrived, loop, queue, chat, profile, owed, forgotten>>

(* Variant: the oldest entries are kept. *)
TrimToOldest(entries) ==
    IF Len(entries) > HistoryMax THEN SubSeq(entries, 1, HistoryMax) ELSE entries

(* History keeps its last HistoryMax entries. *)
Trim(entries) ==
    IF Len(entries) > HistoryMax
    THEN SubSeq(entries, Len(entries) - HistoryMax + 1, Len(entries))
    ELSE entries

Ends(c) == worker' = [worker EXCEPT ![c] = NoRun]

(* Variant: the user is not told. *)
MessageFailsSilently(c) == Ends(c) /\ UNCHANGED <<hbRunning, failures, owed>>

(* runTelegramTask fails, or runs into the task timeout.  The user gets    *)
(* the error; of heartbeats only every FailureThreshold-th is told.        *)
MessageFails(c) ==
    /\ Ends(c)
    /\ owed' = owed \ {worker[c].job.msg}
    /\ UNCHANGED <<hbRunning, failures>>

HeartbeatFails(c) ==
    /\ hbRunning' = [hbRunning EXCEPT ![c] = FALSE]
    /\ IF failures[c] + 1 < FailureThreshold
       THEN failures' = [failures EXCEPT ![c] = @ + 1] /\ Ends(c)
       ELSE /\ failures' = [failures EXCEPT ![c] = 0]
            /\ worker' = [worker EXCEPT ![c].pc = "alert"]
    /\ UNCHANGED owed

RunFails(c) ==
    /\ worker[c].pc = "run"
    /\ IF worker[c].job.msg = Heartbeat THEN HeartbeatFails(c) ELSE MessageFails(c)
    /\ UNCHANGED <<arrived, loop, queue, version, history, sticky, profile, forgotten>>

(* The alert was sent and is kept; no reset is looked for here. *)
StoreAlert(c) ==
    /\ worker[c].pc = "alert"
    /\ history' = [history EXCEPT ![c] = Trim(Append(@, [kind |-> "alert", msg |-> Heartbeat]))]
    /\ Ends(c)
    /\ UNCHANGED <<arrived, loop, queue, version, sticky, hbRunning, failures, profile, owed, forgotten>>

(* The run's text, or its reaction, goes to the chat. *)
RunSucceeds(c) ==
    /\ worker[c].pc = "run"
    /\ worker' = [worker EXCEPT ![c].pc = "store"]
    /\ IF worker[c].job.msg = Heartbeat
       THEN /\ hbRunning' = [hbRunning EXCEPT ![c] = FALSE]
            /\ failures' = [failures EXCEPT ![c] = 0]
            /\ UNCHANGED owed
       ELSE owed' = owed \ {worker[c].job.msg} /\ UNCHANGED <<hbRunning, failures>>
    /\ UNCHANGED <<arrived, loop, queue, version, history, sticky, profile, forgotten>>

(* What a run adds: the message with its answer (or a note of the          *)
(* reaction), or the heartbeat's report.                                   *)
Exchange(m) ==
    IF m = Heartbeat THEN <<[kind |-> "report", msg |-> m]>>
    ELSE <<[kind |-> "user", msg |-> m], [kind |-> "answer", msg |-> m]>>

(* Variant: the run writes back the history it was given. *)
StoreContext(c) ==
    /\ worker[c].pc = "store"
    /\ history' = [history EXCEPT ![c] = Trim(worker[c].context \o Exchange(worker[c].job.msg))]
    /\ Ends(c)
    /\ UNCHANGED <<arrived, loop, queue, version, sticky, hbRunning, failures, profile, owed, forgotten>>

(* After a reset the run's skills do not stick, and what it adds starts    *)
(* the history anew; a run that loaded no skills leaves them as they were. *)
Store(c) ==
    /\ worker[c].pc = "store"
    /\ LET reset == worker[c].seen # version[c]
           kept == IF reset THEN <<>> ELSE history[c] IN
       /\ history' = [history EXCEPT ![c] = Trim(kept \o Exchange(worker[c].job.msg))]
       /\ \/ reset /\ sticky' = [sticky EXCEPT ![c] = {}]
          \/ ~reset /\ sticky' \in {sticky, [sticky EXCEPT ![c] = {worker[c].seen}]}
    /\ Ends(c)
    /\ UNCHANGED <<arrived, loop, queue, version, hbRunning, failures, profile, owed, forgotten>>

-----------------------------------------------------------------------------
WorkerStep(c) ==
    TakeJob(c) \/ StartJob(c) \/ RunFails(c) \/ StoreAlert(c) \/ RunSucceeds(c) \/ Store(c)

Next ==
    \/ \E c \in Chats :
          \/ InitTurnedAway(c) \/ InitAsk(c) \/ InitApply(c)
          \/ Ignore(c) \/ Accept(c) \/ Reset(c)
          \/ HeartbeatTick(c) \/ WorkerStep(c)
    \/ SendJob

Spec == Init /\ [][Next]_vars

(* Go serves those who wait on a channel in the order they came, so a      *)
(* worker that waits for a place, and a loop that waits for room, get it;  *)
(* a run ends, for its context has a timeout.                              *)
Fairness ==
    /\ SF_vars(SendJob)
    /\ \A c \in Chats : SF_vars(StartJob(c)) /\ WF_vars(WorkerStep(c))

FairSpec == Spec /\ Fairness

-----------------------------------------------------------------------------
Jobs == [chat : Chats, msg : 0..MaxMessages, version : 0..MaxResets]
Entries == [kind : {"user", "answer", "report", "alert"}, msg : 0..MaxMessages]

Runs ==
    [pc : {"idle", "sem", "run", "alert", "store"}, job : Jobs \cup {NoJob},
     seen : 0..MaxResets, context : Seq(Entries)]

(* Channels and histories stay within their limits, no more jobs run than  *)
(* may, and the failures of heartbeats stay below the threshold.           *)
TypeOK ==
    /\ arrived \in 0..MaxMessages /\ loop \in Jobs \cup {NoJob}
    /\ queue \in [Chats -> Seq(Jobs)] /\ \A c \in Chats : Len(queue[c]) <= QueueCap
    /\ version \in [Chats -> 0..MaxResets] /\ worker \in [Chats -> Runs]
    /\ history \in [Chats -> Seq(Entries)] /\ \A c \in Chats : Len(history[c]) <= HistoryMax
    /\ sticky \in [Chats -> SUBSET (0..MaxResets)]
    /\ hbRunning \in [Chats -> BOOLEAN] /\ failures \in [Chats -> 0..(FailureThreshold - 1)]
    /\ initRequired \in BOOLEAN /\ sessions \subseteq Allowed \cap Private
    /\ {identity, soul} \subseteq 0..MaxMessages
    /\ owed \subseteq 1..MaxMessages /\ forgotten \subseteq 1..MaxMessages
    /\ Cardinality(Running) <= MaxConcurrency

(* A chat's history is a transcript: messages in the order they came, none *)
(* twice, each right before its answer (only its oldest may be cut off),   *)
(* whatever heartbeats, alerts, resets and the limit do in between.        *)
HistoryIsATranscript ==
    \A c \in Chats :
        LET h == history[c]
            at(k) == {i \in 1..Len(h) : h[i].kind = k} IN
        /\ \A i \in at("user") : i < Len(h) /\ h[i + 1] = [kind |-> "answer", msg |-> h[i].msg]
        /\ \A i \in at("answer") : i = 1 \/ i - 1 \in at("user")
        /\ \A i, j \in at("answer") : i < j => h[i].msg < h[j].msg

(* README.md:87-89, "/reset clears" the sticky skills and the history: an  *)
(* exchange that a reset removed never shows up again, neither in the      *)
(* history nor in what a run that starts later is given, and the sticky    *)
(* skills come from a run that started after the chat's last reset.        *)
WhatIsResetStaysForgotten ==
    \A c \in Chats :
        /\ sticky[c] \subseteq {version[c]}
        /\ Messages(history[c]) \cap forgotten = {}
        /\ worker[c].pc = "run" /\ worker[c].seen = version[c]
              => Messages(worker[c].context) \cap forgotten = {}

(* "processes each chat serially" (README.md:90) loses nobody: once no     *)
(* more messages come, all that were accepted have got an answer or an     *)
(* error; and every heartbeat ends, so that the next can be sent.          *)
EveryJobEnds ==
    /\ (owed # {}) ~> (owed = {})
    /\ \A c \in Targets : hbRunning[c] ~> ~hbRunning[c]
=============================================================================
