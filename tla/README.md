# Verification of mister_morph

TLA+ models of the parts of mister_morph whose correctness hangs on order,
failure and concurrency; TLC configurations that check them on small
instances; and TLAPS proofs of the most important results for every value of
the constants. Paths are relative to `src/`.

* `tlc -config <X>.cfg <module>` runs a check (the table under *Runs* names the module),
* `tlapm <M>Proofs.tla` checks the proofs about module `M` (`MaepProofs.tla` those about
  `MaepContacts` and `MaepDialogue`),
* `PROJECT.json` maps every definition to the lines it translates, and lists
  components, runs, hazards, theorems, findings, and for each property a
  *mutant*: a plausible bug in the code that makes the property fail. The
  mutated form of a definition stands before it, under a comment `Variant: ...`;
  nothing else uses it.

## 1. The system

mister_morph is an LLM agent in Go. A task goes to `agent.Engine`, which
alternates rounds of the model with tool calls under a guard. Front ends give it
tasks: a one-shot command, an HTTP daemon, and a Telegram bot. An embedded MAEP
node (peer-to-peer RPC over libp2p) lets agents push messages to each other.
A contacts book and a memory of Markdown files outlive the processes.

| Component | State it keeps | Operations | Modelled in |
|---|---|---|---|
| Task daemon, `cmd/mistermorph/daemoncmd` | in-memory task map and bounded queue; heartbeat flag and failure count; approvals on disk | submit, get, approve, deny, resume; worker; heartbeat ticker | `TaskDaemon` |
| Agent engine, `agent` | loop state (step, rounds, messages, plan, rest of the batch), snapshot in the approval record | rounds, tool calls, pause, resume, forced conclusion | `AgentEngine`, `PlanStatus` |
| MAEP node, `maep/node.go` | sessions and rate windows in memory; dedupe records, inbox, outbox in files | hello, push, handler, retry after drift | `MaepPush` |
| MAEP contacts, `maep/service.go` | contacts and audit events in files | import, verify, list | `MaepContacts` |
| MAEP conversations, `telegramcmd/command.go:671-850` | per-peer sessions with turns, interest, cooldown; event channel | classify feedback, decide, run, reply | `MaepDialogue` |
| Telegram chats, `telegramcmd/command.go`, `init_flow.go` | history, sticky skills, versions, heartbeat state per chat; channels; profile files | poll, reset, init, worker, ticker | `TelegramChat` |
| Telegram turn, `telegramcmd/command.go` and its tools | the offset, usernames seen, downloaded files | poll, commands, addressing, download, react, send | `TelegramTurn` |
| File store primitives, `internal/fsstore` | lock files, temporary files, indexes, JSONL segments | lock, atomic write, append, rotate | `FileStore`, `JsonlLog`, `Storage` |
| Record files, `maep/file_store.go`, `contacts/file_store.go` | inbox, outbox, audit and share events; the JSON files of an earlier version | append, list, migrate | `MaepLog` |
| Contacts book, `contacts` | `active.md`, `inactive.md`, sessions, candidates | upsert, sync, feedback, send, tick, rank | `Contacts` |
| Contacts delivery, `internal/contactsruntime`, `contacts`, `tools/builtin/contacts_send.go` | none: a message in its stages | validate, route, envelope, dial | `Delivery` |
| Memory, `memory` | short-term files, long-term files | draft, merge, write, synchronise, promote, retry | `Memory`, `MemoryMerge` |
| Tools, guard policy and profiles, `tools/builtin`, `guard`, `secrets` | the file tree | fetch, redirect, download, write, read | `ToolCalls`, `PathPolicy` |
| Skill installation, `cmd/mistermorph/skillscmd` | the skills directory | select, download, review, install | `SkillInstall`, `PathPolicy` |
| Providers, prompts, parsing, redaction, discovery, configuration | configuration and text | formatting, HTTP | not modelled (section 5) |

How they interact:

* The daemon calls `Engine.Run` and `Engine.Resume` from one worker goroutine.
  An engine that needs an approval writes an approval record with its snapshot
  and returns a *pending* final; the daemon parks the task. HTTP handlers change
  approval records and put parked tasks back on the queue. `TaskDaemon` sees the
  engine from outside (ask, finish, fail); `AgentEngine` opens one run up, with
  the approvals as its environment, and `ToolCalls` opens up the calls that
  leave the process.
* The Telegram bot runs one goroutine per chat, with a channel each, a semaphore
  over all chats, one mutex over the shared maps, and a ticker for heartbeats.
  `TelegramChat` has these; `TelegramTurn` follows one message from the poll
  to its answer. A job ends by handing its conversation to `Memory`, whose pending
  tasks decide which chats the heartbeat goes to. With `withMAEP` a push that
  reaches the node becomes an event of the bot, whose answer is a push in turn:
  `MaepDialogue` composes two bots, and abstracts the push, which `MaepPush`
  details, to *arrives or not, acknowledged or not*.
* A MAEP handler refuses a peer that `MaepContacts` blocks; `MaepPush` has only
  that bit of a contact (`allowed`).
* A send of the contacts book (`Contacts`) goes through the stages of `Delivery`,
  to a Telegram chat or to the node; `Contacts` keeps of it *delivered or not*.
* Every file of the contacts book, the approvals and the node is written by
  `FileStore`'s lock, temporary file and rename; the audit trails and message boxes
  are `JsonlLog`s. `MaepContacts`, `Contacts`, `MaepPush` and `TaskDaemon` take one locked
  update as one step, which is what `AtomicStore` promises and `FileStore`
  is proved to implement. Memory files use neither, and `Memory` has
  the truncation and the writing as two steps.

### What is hard here

Approvals race the worker that parks or takes the task; a task's deadline passes
at any place; the daemon restarts while approvals survive; a run pauses in the
middle of a response and goes on from a snapshot that leaves things out;
handlers of one push overlap between reading and writing the dedupe record;
responses are lost and pushes repeated; sessions expire on one side; files fail
one by one; CLI processes read, decide and write without a common lock; a contact is
read, a message is sent over the network, and the contact read before is written back;
a memory update that timed out is tried again beside the next one; two writers of one log rotate it
under each other; a chat is reset while its worker holds a copy of the history;
an update is acknowledged before its job is done; a server redirects a request that carries a secret; an
installation fails after some of its files; channels are full; two bots answer each other
with nobody to stop them. The `hazards` of `PROJECT.json` name each at its line, with the
properties that watch it.

### What makes each component correct

* **Daemon**: a task is queued once; a denied task does not run; done and canceled are
  final; an accepted task settles; the heartbeat flag is set only while somebody will
  clear it.
* **Engine**: every tool call of a response gets its answer exactly once, across pauses;
  a gated call runs only with an approval; a resume forgets nothing and the loop is bounded.
* **Push**: a key is delivered once; an accepted push is delivered; the rate limit
  holds; a lost session is negotiated again. (Concurrent handlers break the first and the third in
  ways the properties name.)
* **MAEP contacts**: only a user verifies; conflicts and revocations stay; a uuid has one peer.
* **Conversations**: they end, and their length is bounded by what came from outside.
* **Chats**: history is a transcript; what was reset stays forgotten; every job ends.
* **Turns**: updates are handled in order and once; only what is for the bot runs; one end of each run is told.
* **Store**: an update happens as a whole or not at all; no acknowledged line is lost or doubled.
* **Record files**: a list is whole, whatever was migrated, cut short or appended beside it.
* **Contacts**: a contact is in one file; a message sent is counted; who failed is left alone.
* **Delivery**: what is accepted is not refused later for its form; people are written to
  only where that is allowed.
* **Memory**: a heartbeat finds exactly the chats with open tasks; a merge keeps what is recorded.
* **Tools**: a secret goes only where its profile allows; a reported file is whole.
* **Skills**: nothing changes without consent; no file is left in part.

## 2. Modules

One action per handler, or per stretch of it between two accesses to shared
state (lock regions, channel operations, file accesses, network calls) where handlers run
concurrently. Texts, prompts, formatting and logging are left out. Each module states
its types (`TypeOK` or a name like it); the proofs need them, and the runs
spend their properties on the hazards.

### TaskDaemon
`serve.go`, `daemon_queue.go`, `heartbeatutil/heartbeat.go`,
`guard/approvals_file.go`. `status`, `approvalRequestID`, `resumeApprovalID`,
`ctxDone` are fields of a `queuedTask` and its `TaskInfo`; `queue` is the
channel; `worker`, `ticker`, `request` hold the place and locals of the
goroutines; `record` and `lapsed` are the approval file.
`Enqueue` is split as in the code: the map entry (`SubmitInsert`, `TickInsert`)
and the send (`SubmitSend`, `TickSend`; when full, `EnqueueFull` removes the entry).
The worker: `WorkerNext`, `WorkerStart`, `EngineResume`, the engine's steps, then
`WorkerPause` and `WorkerPark`, or `WorkerFinish`, and `WorkerEnd`. Approvals:
`Approve`, `DenyResolve`, `DenyFailPending`, `DenyCancel`, `ResumeLookup`,
`ResumeEnqueue`. Environment: `TaskTimeout`, `ApprovalTimeout`, `Restart`.

Taken as given: a model's own final output is not itself a map with
`status: "pending"` and an `approval_request_id` (`serve.go:533` would take it
for a pause). The unsynchronised accesses at `serve.go:127,146,310` are treated
as ordered by the operations around them.

### AgentEngine and PlanStatus
`PlanStatus` has the pure functions of `plan_status.go`: `NormalizePlanSteps`
and the advance on success, with the indexes Go's zero values give them.
`AgentEngine` is `runLoop`, `executeTool`, the pause, `Resume` and
`forceConclusion`. `run` is what the snapshot keeps; `batch`, `pending`, `approved`,
`tools`, `last` are locals of the loop that a resume rebuilds or forgets.
Messages are abstracted to *exchanges*: an assistant message with its calls,
and the tool messages that follow it.

The guard is enabled (`Denied` and `Gated` empty mean it has no effect). The
provider may return tool calls although none were offered, as the code allows.
The token budget runs out nondeterministically. `Stopping` is the engine's
`StopAfterSuccess` interface (`engine_loop.go:376`), which no tool of the repository implements yet.
Plans without steps, intent inference, prompts and redaction of tool results
are left out; `ResumeFails` stands for every error of `Resume` (expiry, version,
hash, decoding).

### MaepPush
One client, one server, one topic. The client's `PushData` records the call in
its outbox and goes through `StartCall`, `DialHello`, `Send`, `Receive`, with one
retry after *unsupported* (`node.go:306`). A handler goes through
`CheckSession`, `CheckAllowed`, `AllowDataPush` and then look-up, record, prune, inbox, delivery:
every access to shared state is a step of its own. The clock is a minute plus
the order in which handlers read it. Payloads are well formed, and the server
makes no calls itself. `forgotten` (records evicted or expired), `unsure` (keys of which a look-up failed,
or fell between another handler's look-up and record), `passed` and `late` (pushes that came to the window when it was a
later minute's) are history variables of properties.

### MaepContacts
Processes run `ImportContactCard` and `MarkContactVerified`: each file access is
locked, the whole operation is not. `Stop` is a kill or a failing write between
two accesses; `Revoke` is an edit of the file (the code has no command for it).
`verifiedAs`, `raced` (uuids looked up while another operation had still to write them for another peer)
and `overtaken` (operations about to write a contact that was written since they read it) are history
variables of properties.

### MaepDialogue
Two bots in one session. An event waits in the channel (`Arrives`; dropped when it is full),
the worker classifies feedback and decides (`Decide`:
`applyMAEPFeedback`, `maybeLimitMAEPSessionByFeedback`, `allowMAEPSessionTurn`),
runs and pushes. Interest is in units of 0.05; `low` saturates at the limit,
the only value it is compared with. History, sticky skills, memory, contact
feedback and the daemon's restarts (which forget all sessions) are left out.

### TelegramChat
`loop` is the poll loop and the job it is about to send; workers go `idle`,
`sem` (waiting for a place), `run`, then `store` or `alert`. Updates are numbered in order
and stand for their text. `/reset` bumps the version, clears history and sticky
skills. The initialisation (`InitTurnedAway`, `InitAsk`, `InitApply`) writes
`IDENTITY.md` and `SOUL.md` one after the other. A reply and a note of a
reaction are not told apart. `Targets` are the chats whose memory has pending
tasks. What a message is and what becomes of it is in `TelegramTurn`.

### AtomicStore, FileStore, JsonlLog and Storage
`AtomicStore` is the promise of `internal/fsstore` to its callers: an update is
asked for, happens in one step, and is told *ok*; one that is told *failed* did not happen;
a process that dies is told nothing; only a power loss takes the file
back, to a whole earlier version (`survivors`). `FileStore` is the code:
`MutateIndex` under the lock file, the temporary file written, synced and renamed,
the directory synced best effort (`lock.go`, `atomic.go`, `index.go`). Calls of the
system fail one at a time (`LockFails`, `StepFails`), a process is killed (`Kill`), the machine loses power
(`PowerLoss`: an unsynced temporary file may be torn, a rename not yet on disk undone).
`AtomicUpdates` is the refinement, `INSTANCE AtomicStore WITH value <- file`.

`JsonlLog` has a writer per process, with a descriptor and a count of bytes of
its own, over a directory of names and inodes: a writer may append to a file that
another renamed away, counts what it wrote itself, and rotates by the
name it sees. `Storage` runs both in the same processes, which die from both at once.

### MaepLog
The record files over such a log (appends are one step here): the box files, which a list
migrates without the lock, the audit trail, migrated under it by lists only, and the share
events, which have no earlier version. A migration copies the records of the old JSON file one
by one; failures, torn lines and kills fall between them. `mixed` and `hidden` record
what an overlapping or cut migration did.

### Contacts
An actor is one call: `UpsertContact`, `UpdateFeedback`, `UpdateSession`, `SendDecision`, `RunTick`,
the preference refresh and the rank, each from reading its contacts to its
last put. Reads take the files as they are, a put is the lock, the save of `active.md` and the save of
`inactive.md`; a call may fail or be killed between any two. `stale`
marks the copies an actor holds that somebody wrote over; `excused` and `torn` the contacts
whose record such a write or a cut call spoiled; `sent` and `quiet` what really happened.
Who scores best is left open: a tick picks any contacts the rules allow.

### Memory and MemoryMerge
`MemoryMerge` has the merge of task lists and of long-term entries and the cut to limits as
operators; a model's answer is an input. `Memory` has the update: `StartTurn` loads today's
file, `DraftUpdate` merges what the model answered, `Truncate` and `Fill` write, `SyncRead` goes over the
recent files of the other chats, `Promote`, `CutLong` and `KeepLong` the long-term file. `TimesOut` starts
the retry, a goroutine of its own which works beside the next turn. Texts are
numbers; a ratio is the count the frontmatter shows.

### ToolCalls and PathPolicy
`PathPolicy` cleans and joins paths of segments as `filepath` does. `ToolCalls` has
`url_fetch` under every combination of network policy and auth profile: each check before the
secret is looked up, each redirect with `CheckRedirect` and net/http's change
of method, the answer inline or written below the cache; `write_file` and
`read_file` with their base and denied directories. A URL is an origin, a path of segments of
letters, whether it is private and whether it names a user, so that a comparison of prefixes as text
and one by segments differ.

### Delivery
One message through the tool or the command, the service, the routing sender, the
envelope, the node and the peer, with the validation each stage does for itself, the choice of the
Telegram chat and the order of the addresses dialled. An id `tg:id:` and a number is a user's or, negative,
a group's; the code takes both for a user's chat, and so does `Resolve`.

### SkillInstall
Both ways to install. The terminal's keys, the flags, the dry run, the two confirmations and the review of
a remote skill, `--clean`, `--skip-existing`, and per file the temporary file, the rename and the mode.

### TelegramTurn
`GetUpdates` and its failure, the commands, the addressing of group messages (mention, reply, alias, the
model's verdict), the download of files, the job with its users and files, and a run's calls that
send or react, the progress of the plan, up to the answer and the memory. A text is a sequence of words; a command
may be followed by any bot's name (`CommandsAt`), which the code strips without looking at it.

### Operations
The five modules above share no state with one another. `Operations` instantiates
them side by side and picks one per behaviour, so that one run checks all; it adds no behaviour.

## 3. Runs

| Run | Instance | Distinct states | What it shows |
|---|---|---|---|
| `TaskDaemon` | one user task, one heartbeat, one approval, one handler, queue of 1, one restart | 81 406 | approvals stay consistent, a denied task never runs, every task settles, every heartbeat ends |
| `AgentEngine` | 7 calls in 9 batches, 4 plans, 3 steps, 2 approvals | 862 887 | calls answered once, approvals, what a resume keeps, plan progress, every run returns |
| `MaepPushRestarts` | 3 calls (one notification), 2 keys, limit 1, table of 1, two handlers at once, 2 minutes, a restart | 3 957 928 | delivery at most once but where a look-up could not see the earlier push, drift, the rate limit and by how much pushes late for their minute pass it |
| `MaepPushFaults` | the same calls, limit 2, two handlers at once, failing disk, expiry, one minute | 1 062 128 | what is accepted is delivered |
| `MaepContacts` | 2 peers, 2 uuids, 2 processes, stops, revocation | 4 520 365 | trust is raised by users only; one peer per uuid but where a look-up raced; blocked contacts stay so but under an old copy |
| `MaepDialogue` | limit 2, channel 1, 2 outside pushes, 1 lost acknowledgement, 3 ticks | 225 239 | a dialogue falls silent |
| `TelegramChat` | a private chat and a group, one place, channel 1, 3 messages, a reset each, failing files | 294 079 | transcript, reset, every job and heartbeat ends |
| `Storage` | 2 processes, 2 updates, 4 lines, rotation at 2, 3 inodes, 4 calls | 221 190 | `FileStore` implements `AtomicStore`; no acknowledged line is lost or doubled |
| `Contacts` | 2 calls of any kind, 2 contacts, one may be active, one target, 2 days, 3 starting books | 1 120 596 | one file each, sends counted, failed contacts left alone, activity bounded |
| `Memory` | 2 chats of one user, window of 2 days, 2 drafts, 2 answers to a merge, limits 1 and 3, 3 turns, 1 fault | 1 249 270 | heartbeats find pending tasks, merges keep tasks, promotions keep dates and limits |
| `Operations` | see below | 1 506 436 | the ten properties of the five parts |

One more run finds the code at odds with its documentation (`findings`): `ContactsRank`. With more contacts
active than may stay, one call of `contacts_candidate_rank` moves a contact from `active.md` to `inactive.md`: it
runs a tick that sends nothing (`contacts_candidate_rank.go:116`), and a tick ends in the rebalancing.
`docs/tools.md:184` has it send nothing and change no state. The instance has a single call, so nobody else can
be the cause. Section 5 lists more such places.

### Why the bounds are enough

* `TaskDaemon`: a task id and an approval id are used once (they are random), so
  a behaviour is finite but for the choices inside. One approval and one handler
  still let approve, deny and resume follow each other and meet the worker and
  the deadline anywhere; two tasks fill the queue of one. Two racing handlers, several approvals
  and longer queues are covered by the proof, which fixes none of these numbers.
* `AgentEngine`: batches have a gated call alone, first, last, and two together;
  calls that repeat, are missing, denied, stop the run or give it a plan. Two
  approvals allow a second pause in one run; three steps allow a round, a
  paused round and one after it.
* `MaepPush`: a table of one entry is always at its limit with two keys; three calls
  push one key again. A limit of 1 and two handlers let two pushes of a minute meet the window of the next one and
  come back; a restart between a push and its retry is the one loss. Failing disks and expiry are a separate run, as
  they multiply the states; that nothing is delivered twice under them as well is proved.
* `MaepContacts`: operations are not bounded in number, only to two at a time;
  two peers and two uuids are what a conflict takes.
* `MaepDialogue`: limit 2 instead of 6, channel 1 instead of 64; deltas of 0.35
  make a level meet the threshold 0.30 exactly and reach both ends of the scale.
* `TelegramChat`: a channel of 1 instead of 16 and one place instead of 3 make the
  loop and the workers wait; a history of 3 is cut; failure threshold 2 instead of 3.
* `Storage`: two updates meet at the lock; four lines of one unit against a limit of two rotate the log
  twice, so that a writer may be two files behind and rotated names collide. The proof covers
  any number of processes and updates of the index.
* `Contacts`: two calls are what a lost write takes, and any two kinds meet; with one contact too
  many active a tick has one to move; a day later cooldowns have ended.
* `Memory`: a timed-out update, its retry and the next turn overlap; the second chat's update
  synchronises into the first's file; a second day makes both a recent and a present file. An item limit
  of 1 forces a drop, and one fault is a kill, a timeout or a failing write.
* `Operations`: *record files*, two processes, two old records and two new ones, lists
  without a limit and with one of 1, two lists, one fault; *tool calls*, five URLs that tell the two prefix
  comparisons apart, 2 calls, redirects past the limit of each policy; *messages*, every route and every payload
  that differs from a good one in at most two fields; *skills*, two installations one after the
  other, a file each from the review, and up to 3 of them; *turns*, feeds of private and group
  messages that mention, answer and name the bot, one restart, one file sent per run.

`CHECK_DEADLOCK FALSE` stands where a behaviour may rightly end: ids, calls,
updates or pushes run out, a run returns, two bots fall silent. `MaepContacts`
never stops and checks for deadlock.

### Fairness

* `TaskDaemon`: goroutines are scheduled, deadlines pass, and an engine whose
  context is dead returns (its HTTP requests carry the context). Nothing is assumed of users:
  an approval may be left alone until it lapses.
* `AgentEngine`: weak fairness of the engine's own steps; decisions and resumes
  are not fair, hence a paused run counts as returned.
* `MaepDialogue`: weak fairness of each worker; the model calls, the run and the push
  each have a timeout (`command.go:715,780,826`). The clock need not advance.
* `TelegramChat`: a task has a timeout (`command.go:461`) and the HTTP client one of 60 s
  (`:236`), so worker steps are weakly fair. Waiting for a place, and the loop
  waiting for room in a channel, are strongly fair: Go serves waiters on a channel in
  order. The ticker and users are not fair.
* All other modules have safety properties only: their calls run to an end or fail, and
  nobody waits for another but at a lock file.

## 4. Proofs

No proof fixes the size of a constant; each rests on the module's named
`ASSUME`, on the hypotheses its theorem states, and nothing else. Every invariant, every action property
and the refinement that a passing run checks is proved; liveness is not. Each inductive
invariant was first checked by TLC on the run of its module. Two systems with no module in common may share a
module of proofs.

**DaemonProofs: the task daemon**. `IInv` is `TypeOK`, the four safety properties and five
lemmas that make them inductive:
`SendersHoldNewTasks` (between the insert and the send an entry belongs to one
goroutine, so two sends never carry one id), `QueuedTasksAreKnown`,
`WorkerHoldsItsTask` (what the status is at each place of the worker),
`ResumesAreApproved` (a set resume marker implies an approved record, which is why
the engine never hands back a nil context) and `AskedIsFresh` (the approval of a run
that asked and has not been parked is nobody else's: the race of parking with deny).
There is one step per action. `Invariance` gives `QueuedAtMostOnce`,
`NilContextNeverRead`, `PendingOwnsItsApproval` and `HeartbeatNotWedged`; the action
properties `DeniedNeverRuns` and `CompletedIsFinal` follow from it with
`StatusStep`, a summary of how any step changes the status of one task.

**AgentEngineProofs**. First lemmas of `PlanStatus`: what `NormalizePlanSteps` and the advance return has at
most one step in progress (`OneOf`), and an advance never takes a completed step back. `IInv` adds to the types
`OnItsWay` (a run at the head of the loop has answered all its calls, one that is forced to conclude all but those the
repeat limit cut off, and has no more rounds than
steps; one at a call has one round more, and its calls are those answered followed by those left),
`Parked` (what a paused run resumes from is what its approval record keeps), `Covered` (the
approval in force was given for the response at hand) and `Streak` (the repetition count covers the
row of equal successes the run ends in, but for a gated call that was just resumed, as
the snapshot does not keep the count). From it: `EveryCallAnswered`, `RoundsBounded`, `RepeatsStopped`,
`OneStepInProgress`, and the action properties `GatedNeedsApproval`, `ResumeForgetsNothing` and `PlanAdvances`.

**MaepProofs: MaepPush**. `TypeCorrect`; `DriftHealed` (a call ends *unsupported* only after the server has
lost its session twice: `DriftInv` says that wherever the client holds a session the server has
it too or has lost one, and that a call which dialled again has used up the first loss);
`AcceptedDelivered` assumes no restart, as the code loses the
push then: a key that has, or had, a record is delivered or in the hands of a handler
past the record (`Promised`), which every step of every handler keeps, whatever fails,
expires or is pruned. `NeverAboveTheRate` and `NeverDeliveredTwice` are about any number of handlers at once, with
restarts and failing files; the two ways concurrent handlers break the documents' promise (section 5) are exceptions of
the properties, each as narrow as its cause. `RateInv`: what passed of the minute of the window is what the window counts,
nothing has passed of a later one, and each push that takes the window back to an earlier minute is
worth one limit more. `DeliverInv`: a key that is neither forgotten nor unsure has a record from before
its delivery on, and one handler at most is past its look-up and has not delivered.

**MaepProofs: MaepDialogue and MaepContacts**. Of `MaepDialogue`: `TypeCorrect` with the bound on a session's turns, and `Bounded`:
each bot sends at most `MaxTurns` replies per outside push plus one per lost
acknowledgement. Two facts carry it. `ChainsFromKicks`: each event on its way or in hand
descends from a push from outside that no session has left unanswered, so sessions block
at most `kicks` times. `TurnsPerBlock`: replies are at most `MaxTurns` per block, the
turns of the present session, and the lost ones - a session is renewed only after it blocked.

Of `MaepContacts`: `ContactsTypeCorrect`, and `OnlyUsersVerify`: `VerifiedWasVerified` with
`HeldWasVerified`, the same of the contact
an operation holds between reading and writing: stale writes restore an older trust state but
never invent one. `NoUUIDTwice` and `BlockedIsKept` are of any number of operations at work, wherever each may
stop. `OneClaim`: a uuid is claimed for a peer by its contact and by an operation that may still write it (`Claimed`), and
all claims of a uuid that did not race are for one peer. And unless another operation wrote the contact since it was read
(`overtaken`), what an operation is about to write of a blocked contact is blocked.

**TelegramProofs: TelegramChat**. The invariant holds a chat at a time. `LineOf`: the messages in the
queue, at the worker and at the poll loop stand in the order they came, behind those of the history; `Good`: the
history is a transcript, whatever is appended to it and cut off its front. `Owned`: no
message is with two chats, and none that a reset removed is on its way or in a context of the present
version. `HistoryInOrder` and `ResetIsFinal` follow; without the line a message that
overtakes another, or comes back, could not be excluded by looking at the history alone.

**TelegramProofs: Memory**. `MemoryInv` has three parts. `MemoryShape`: what an update has in its hands at each
place, and for a promotion that what it is about to file comes from what it read (`PromotedFrom`).
`RatiosRight`: a file shows the counts of the lists it holds, unless it is being filled or was cut short; with
`RatioShowsOpen` (the count of finished tasks is below the length exactly when one is open) this is
`HeartbeatFindsPending`. `TextsKept` is about the texts recorded in a file: it has them, and an update that has read
it and is not outdated will write all of them but those its model dropped (`UpToDate`, by `Covers`), unless
another is filling it at the moment (`Fills`). Without the second half the invariant says nothing
of the next write; with it `RecordedTextsStay` follows. `MovesKeep` is the step shared by every action
that writes no file: whoever moves on takes its texts with it. Below it, lemmas about each merge of
`MemoryMerge` say which texts the result has (`Texts(MergeBy(...))` is the union), whatever order and
status it gives them. `PromotionsKeep`: a merge keeps the date of an entry it finds again, unless the promotion has one itself
(`DatesKept`), and the cut to limits drops the oldest of the longer section, an entry at a time and only while the
file is above a limit (`CutOf`, `Shorter`), so that it stops within both.

**DaemonProofs: the file store**. `StoreInvariant`: `StoreInv` is `StoreTypeOK`, `Exclusive` (who is between its read and its rename
holds the lock file), `SnapshotIsCurrent` (so what it is about to write is what is there and its own
entry), `CallsArePending` and `CallsAreDistinct` (a call in progress belongs to one process, and is in the file exactly
when it has been renamed there) and `NewOpsAreAbsent`. `StoreIsAtomic`, `Spec => AtomicUpdates`: the initial state is the
promise's, and by `StepRefines` each step is a step of it or none. The rename applies the update, the
step after it succeeds, a failure before it fails; a kill on either side is a death.
`StorageIsAtomic` is the same of `Storage`, whose processes also append to the logs. `NoLineIsLost` is
about those: `LogIInv` follows every line to the inode and the place where it is (`Places`), through
any number of rotations. A rename never replaces a name (`FreeName`, because who looks for one holds the log's lock),
hence every file keeps one (`AllLinked`) and a writer that is behind still writes into a file the directory names;
`Kept` says that a line acknowledged has one place, and one that failed has none.

**ContactsProofs**. A call works on copies it read without the lock, so no invariant about files alone is
inductive. For a property of the record of a contact, `Settled` says where the right records are: either
nobody is changing the contact, and what is filed and every copy that is not stale is right;
or a call that is has the right record; or two are, or one with a stale copy, and then the
first to write makes the other stale and the contact is `excused`. `Counted` is this for share counts, `Warned` for
cooldowns; the same lemmas (`Quietly`, `Begins`, `Continues`, `Elsewhere`) serve both, being stated of any set of
right records. `Filed` is about the files and the put in progress, `Few` bounds share counts by the messages sent
and those by the calls, and `Bounded` the contacts that will be active when a rebalancing has put all it has to.
`NeverInBoth`, `SharesStayCounted`, `AloneIsLeftAlone` and `ActiveStaysBounded` follow.

**OperationsProofs**. A part that rests does not change (`PartsRest`), so each theorem is about the steps of one part.

* `UpdatesInOrder`, by `Polling`: the updates of the batch are consecutive and end right before the offset, those
  handled end right before the batch, and the server was told only of what was handled now or before a restart.
  The theorem is about any feed, any loss of requests and answers and any number of restarts.
* `JobsHaveOneAnswer`, by `RunInv`: a run at work has given nothing but a reaction and progress, and every way to end it
  tells one end: the final text only without a reaction.
* `JobsAreAddressed`, by `AddressInv`: a turn is about the last update handled and remembers why it may run; a username is
  known from an update of its chat since the last reset, hence so are the users a job is told of.
* `GroupsConsent`, by `ConsentInv`: a chat with a negative number is public however it was chosen among the contact's
  chats (`NegativeIsPublic`, which needs that the first chat of a kind is one of the contact's, `FirstIsIn`); the contact
  that has none and whose id is that number is the exception of the property.
* `AcceptedIsDelivered`, by `MailInv`: up to the sender the payload is what the caller accepted (`FromCaller`), the
  sender keeps its session and reply-to (`WhatCallerAccepts`), past it the envelope is valid (`AsGiven`), so
  that node and peer never refuse its form; and no relay stands before a direct address in what was tried and is still
  to be tried (`Dialling`).
* `ListsAreWhole`, by `LogInv`. `SentOK`: no two calls send one record, and one that was acknowledged is in the log, once,
  unless it was appended to a torn line, which no list gets past (`Lost`). `LockOK`: everyone but the lists of a box
  holds the lock. `MovesOK`: what a migration has still to copy and the log together are the old records, so when
  the old file is gone the log has them, or a trail that got a log of its own first is `hidden`. `OnceOK`: unless
  migrations overlapped or broke off (`mixed`), only one is under way and has copied nothing twice. A list inserts
  record after record (`PlacedIs`, `InsertedHas`); hence it holds every record it asks for (`ListedAll`), newest
  first, and what a limit cuts off is older than all that is left (`ListedCut`).

**DiskProofs** has the rest of `Operations`, where the files and addresses a caller names meet a policy.

* `FilesWhole`, of two parts. `TurnFiles` and `JobFiles`: a file of the cache is whole (`CacheWhole`) because a download is
  written beside its name (`TempIsNone`: nothing wanted has a temporary name) and renamed when it is complete, and a job
  names files of its chat's directory only (`WantedInChat`); what a run sends is below the cache, because a cleaned path
  joined to a clean directory either leaves it through `..`, and is refused, or stays below (`BelowCache`).
  `SavedInv`: between the check of a write and the write the target is below a base and no denied name (`CallReady`),
  so every file is in a base and holds what the caller was told (`DiskAsTold`), and no denied one was shown (`ShownAllowed`).
* `RequestsAllowed`, by `RequestInv`: the request in flight was held against profile and guard as it is now, redirects
  as the first (`NextRequestAllowed`). The code compares texts, `strings.HasPrefix(path, prefix + "/")`, the property
  paths: `MatchIsPrefix` says that the first implies the second, segment by segment, since no
  segment holds a slash (`Reads` tells where in the text each one begins, `SameSegment` that two
  texts that agree up to a slash agree in the segment before it).
* `NothingUnasked`, by `SkillsInv`: what was decided and confirmed at each place of an installation (`PhaseInv`), and that each file
  of a plan is inside the directory of a skill agreed to, directories of different skills apart (`PlanInv`). A path
  that a review names is cleaned and joined; `JoinedIsInside` says that what `safeJoin` lets pass is inside, and `PrefixOfTemp`
  that the temporary file then is too.
* `SkillsInstalled`: `FilesOK` (whole, and no download executable, under any name but a temporary one), `DataInv` (what is written is
  the whole of the file in progress), `SkipInv`, and `ProgressInv`: each file the call is past is in place,
  unless a later one of the same name has taken it (`Again`), which is how a plan may name a file twice.

**ListTheorems**. Most of what the proofs need of the operators is what folds compute: `Clean`, `Letters`, `Wanted`,
`Matching` and the merges of `MemoryMerge` go through lists with `FoldLeft`.
The library's induction theorems take an operator, which the installed provers
cannot instantiate. `Induct` takes the set of numbers at which a fact holds in its place, and follows from
the well-foundedness of the naturals. With it `FoldExists` and `FoldRuns` show that a fold over a list is the last of a sequence
of values, each the step's result of the one before; what a step keeps, the fold keeps. The rest of the module
says what the list operators of the library do to lengths, places and elements.

What the `ASSUME`s say, beyond types: sentinels (`NoProc`, `"nobody"`, `NoOp`, `TornLine`) are not
among the values they stand beside, limits are positive, a plan has steps, the processes and contacts of `Contacts`
and the lines of a log are finitely many, for they are counted, and in `Operations` the chats of users have no
negative number (Telegram keeps those for groups) and addresses are direct or through a relay. There too, files and
paths are finite sequences; the cache directory and the voice file in it have no `..` in them (`filepath.Abs` before every
comparison) and the cache is one of the bases of `write_file`, as the registry makes it; and a URL's path has no slash inside a segment, because slashes part them. `LogAssumption`: the
records of an earlier version are a list without repetition, new records are others, and lines that are no
record are neither. `SkillsAssumption`: skills have names and files, the directories are absolute and
clean, what is in place at first is whole, and what is embedded in the program was not downloaded. In `Memory`,
`None` is no session, days are numbers, and what models answer and the first long-term file holds are lists of tasks (a text and a
status) and of notes (a title, a length and the day it was added).

Some proved properties are in no run's list, as the proof covers
them: `QueuedAtMostOnce`, `HeartbeatNotWedged`, `CompletedIsFinal`, `RoundsBounded`, `RepeatsStopped`,
`OneStepInProgress`, `ConversationBounded`, the types.

Only model-checked: liveness (`AcceptedTaskSettles`, `HeartbeatReleased`, `RunReturns`, `DialogueStops`,
`EveryJobEnds`). It needs `ENABLED`, which is beyond the prover. What the lemmas about folds cannot say either is what a
recursive definition computes for every input, but no property here needs more than what each step of one keeps.

## 5. Limits of the models, and observations without a run

What the code does that a reader of the docs may not expect, seen while modelling and
reflected in the models. Where a formula is named it is stated in its module, and TLC
finds it violated when it is added to the component's configuration.

* *Daemon*: a heartbeat that pauses for an approval is ended with `EndFailure`
  (`serve.go:154`); resumed later, it may run beside the next one, against "If the previous
  heartbeat is still running, skip" (`docs/feat/feat_20260204_heartbeat.md:64`). A deny after
  approve and resume fails the queued task, and the worker then runs it (`serve.go:129`), which
  is why only done and canceled are final.
* *Engine*: one approval lets every other gated call of the same response through (`ApprovalCoversItsAction`;
  `engine_loop.go:455` and `docs/feat/feat_20260201_guard.md:160`). When the third equal call ends a run in the middle
  of a response, the forced round is sent with the rest of its calls unanswered (`engine_loop.go:407`), which
  `EveryCallAnswered` excepts by name. A resumed run offers the model no tools
  (`ToolsAlwaysOffered`; `engine_resume.go:71`). The success that completes the last step reports the
  first as started (`ReportsAreTrue`; `plan_status.go:77`). `forceConclusion` returns without the output hook
  (`engine_helpers.go:59`), against `docs/feat/feat_20260201_guard.md:136`. The repeat count is not in the snapshot.
* *Push*: two handlers of one key may both deliver it (`node.go:584`), as may one whose look-up or record failed:
  hence `unsure` in `DeliveredOnce`. The record is made before the push is processed, so a crash between them loses it
  (`docs/feat/feat_20260206_maep.md:299` has the other order). Handlers on both sides of a
  minute reset each other's window (`node.go:796`), and more pass than the limit (`:158` there): hence `late` in
  `RateLimited`. A notification that meets a server without a session is dropped
  while the client records it as sent.
* *MAEP contacts*: two imports that look one uuid up before either has written it leave it with two peers (`:121` there):
  hence `raced` in `OnePeerPerUUID`. A verification or an import overwrites a conflict found meanwhile
  (`maep/service.go:233`): hence `WritesOldCopy` in `BlockedStays`.
* *Chats*: a message queued or running before `/reset` is appended to the history after it
  (`command.go:523-554`). When writing `SOUL.md` fails, the initialisation counts as done
  (`init_flow.go:188`). Heartbeats run while the initialisation is pending. An alert is stored
  without looking for a reset (`:480`). A failing send of an answer is only logged.
  The check, send and mark of a system warning are in separate critical sections (`:387`).
* *Turns*: an update is acknowledged by the next poll while its job is only in memory, so a crash
  loses queued jobs, and one before that poll handles the batch again. A `telegram_react` on another message
  suppresses the answer to the current one. A command for another bot (`/ask@other`) runs too, as the name after `@` is
  dropped unread (`command.go:2980`), and `OnlyAddressedRun` counts it as a command. After
  `telegram_react` the chat is still told the progress of the plan (`command.go:1447`) or an error (`:490`), where
  `docs/feat/feat_20260205_telegram_reactions.md:176` has no text sent once a reaction succeeded
  (`NoWordsAfterReaction`). Chunks are cut by bytes, and sending stops at the
  first that fails. Memory is written before the text is sent. A message that only mentions the bot in reply
  to one without text or file becomes a job with an empty text. The distinction of direct and uncertain
  aliases (`config.example.yaml:302`) decides only the logged reason.
* *Conversations*: the limit by low interest is tested before an expired cooldown is reset
  (`:731`), so a neutral message after the cooldown starts it again, against
  `assets/config/config.example.yaml:221`. An interest of exactly 0 reads as the default.
  Pushes whose acknowledgement is lost count no turn.
* *Logs*: after a failed reopen in a rotation the writer is nil, and the next append
  panics; after a failed flush it returns the error until it is closed, and may leave a torn
  line that makes a later read fail as a whole. An append to the audit trail before its first list, or a
  migration cut short, hides the old records for good (`hidden`); box lists migrate without the lock, beside each other, and
  may double them (`mixed`). `EveryListIsWhole` excepts both.
* *Contacts*: loading sets `UpdatedAt` to now, so recency never decays. Reads are not locked, and a
  send writes back the contact it read before: hence `excused` in `SharesAreCounted` and `LeftAlone`. An upsert
  resets cooldown and share count. A send counts a share even when the peer did not accept it. `ListContacts` with an
  empty status lists the active only. `RefreshContactPreferences` compares with a copy that shares its maps, so a
  change is often not seen. Feedback on a dotted topic is stored under a raw key.
* *Delivery*: a contact without chats whose id is `tg:id:` and a group's negative number is written to in that
  group as if it were a person's chat, public messages allowed or not (`sender.go:264,289`), where
  `assets/config/config.example.yaml:232` has public contexts avoided (`GroupsAvoided`; `NamedByNumber` is the
  exception `GroupNeedsConsent` makes for it). a blank text with a session on a dialogue topic is accepted by the tool and refused by the sender, as is
  a bad session in a payload on another topic. A person whose Telegram id is malformed is tried over
  MAEP without asking whether people may be written to. A person seen only in a group is planned by
  the ranking and refused by the sender, and then in cooldown.
* *Memory*: the synchronisation leaves out the chat's own earlier files, so a task
  finished today stays open in yesterday's file and heartbeats go on
  (`docs/feat/feat_20260201_longterm_memory.md`, 6.2). The semantic dedupe's answer is trusted and may drop tasks. Of equal texts an
  update sets the last and the parser keeps the first. A bare URL is read back with a blank after its colon. A file torn while written
  has no frontmatter and no heartbeat sees it. The long-term file is shared by a user's chats, unlocked.
* *Tools*: a profile's call is bounded by the profile only, not by the guard's prefixes. Downloads are
  written in place and may be torn when they fail; the failure is reported.
* *Skills*: the reviewed `SKILL.md` is fetched again before it is installed. With `--clean` a failed download
  leaves the skill gone. A file named like another's temporary one is renamed away with it.

Not modelled, and why:

* model providers and their inspection, prompts, response parsing, rendering, configuration and
  utilities convert data or do I/O and keep no state over time; the answers of models
  are inputs of `AgentEngine`, `Memory`, `TelegramTurn` and `MaepDialogue`;
* the guard's redaction matches patterns in texts; its verdicts, approvals, URL policy and audit log are modelled;
* identity, contact cards and the JSON profile of MAEP are cryptography and encoding, functions of one input;
* the tools for shell, search, memory and plans make one call and return its text; their calls and
  outcomes are those of `AgentEngine`;
* the discovery and selection of skills walks directories and matches names;
* the MAEP command line and `run` and `submit` wrap modelled operations; `submit --wait` is what
  `AcceptedTaskSettles` is about.

Within modelled components: the Windows lock; how contacts are scored; summaries and facts of memory
files, which decide nothing; the extraction of text from HTML; rendering of messages, speech engines and
the wording of progress messages; dialling and read-only methods of the node.

## 6. What would come next

1. `Contacts` and `MaepContacts` over `AtomicStore` by instance, in place of the step they take a locked update to be.
2. `TelegramTurn` and `TelegramChat` in one model, to follow an update from the poll to the history.
