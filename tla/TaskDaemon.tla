----------------------------- MODULE TaskDaemon -----------------------------
(***************************************************************************)
(* The daemon of `mistermorph serve`: the in-memory task store with its    *)
(* bounded queue, the single worker goroutine that runs one agent task at  *)
(* a time, the heartbeat ticker with the shared heartbeatutil.State, the   *)
(* HTTP handlers that submit tasks and resolve approvals, and the approval *)
(* records that outlive the process.                                       *)
(*                                                                         *)
(* The agent engine is seen from the outside: a run may ask for an         *)
(* approval and pause, finish, or fail (module AgentEngine opens it up).   *)
(***************************************************************************)
EXTENDS Naturals, Sequences, FiniteSets

CONSTANTS
    Tasks,        \* random task ids; an id is used at most once
    Heartbeats,   \* the ids that heartbeats draw
    Approvals,    \* random approval ids; an id is used at most once
    Requests,     \* HTTP handlers that may be in progress at one time
    MaxQueue,     \* capacity of TaskStore.queue
    MaxRestarts,  \* how often the process dies in a behaviour (a bound)
    NoTask, NoApproval

ASSUME TaskConstants ==
    /\ Heartbeats \subseteq Tasks /\ NoTask \notin Tasks
    /\ NoApproval \notin Approvals
    /\ MaxQueue \in Nat \ {0} /\ MaxRestarts \in Nat

VARIABLES
    status,             \* TaskInfo.Status; "unborn" and "dropped" are not in the map
    approvalRequestID,  \* TaskInfo.ApprovalRequestID
    resumeApprovalID,   \* queuedTask.resumeApprovalID
    ctxDone,            \* queuedTask.ctx is cancelled or past its deadline
    queue,              \* TaskStore.queue
    worker,             \* the worker goroutine: its place and its locals
    record,             \* ApprovalRecord.Status in the approvals file
    lapsed,             \* the approval's ExpiresAt has passed
    hbRunning, hbFailures,  \* heartbeatutil.State
    ticker,             \* the heartbeat goroutine
    request,            \* the HTTP handlers
    restarts

store == <<status, approvalRequestID, resumeApprovalID, ctxDone, queue>>
guard == <<record, lapsed>>
beat  == <<hbRunning, hbFailures>>
vars  == <<store, worker, guard, beat, ticker, request, restarts>>

InMap    == {"queued", "running", "pending", "done", "failed", "canceled"}
Finished == {"done", "failed", "canceled"}
Statuses == InMap \cup {"unborn", "dropped"}
Resolutions == {"none", "pending", "approved", "denied"}
HeartbeatFailureThreshold == 3

WorkerIdle  == [pc |-> "next", task |-> NoTask, resume |-> NoApproval,
                asked |-> NoApproval, hasCtx |-> FALSE]
TickerIdle  == [pc |-> "idle", task |-> NoTask]
RequestIdle == [pc |-> "idle", task |-> NoTask, approval |-> NoApproval]

Occurs(t, q) == \E i \in DOMAIN q : q[i] = t
NoRepeats(q) == \A i, j \in DOMAIN q : q[i] = q[j] => i = j
InQueue(t)   == Occurs(t, queue)

Init ==
    /\ status = [t \in Tasks |-> "unborn"]
    /\ approvalRequestID = [t \in Tasks |-> NoApproval]
    /\ resumeApprovalID = [t \in Tasks |-> NoApproval]
    /\ ctxDone = [t \in Tasks |-> FALSE]
    /\ queue = <<>>
    /\ worker = WorkerIdle
    /\ record = [a \in Approvals |-> "none"]
    /\ lapsed = [a \in Approvals |-> FALSE]
    /\ hbRunning = FALSE /\ hbFailures = 0
    /\ ticker = TickerIdle
    /\ request = [r \in Requests |-> RequestIdle]
    /\ restarts = 0

-----------------------------------------------------------------------------
(* TaskStore.enqueue: the task enters the map first, then the channel; when *)
(* the channel is full its context is cancelled and the entry removed.     *)

EnqueueInsert(t) ==
    /\ status[t] = "unborn"
    /\ status' = [status EXCEPT ![t] = "queued"]
    /\ UNCHANGED <<approvalRequestID, resumeApprovalID, ctxDone, queue>>

EnqueueSend(t) ==
    /\ Len(queue) < MaxQueue
    /\ queue' = Append(queue, t)
    /\ UNCHANGED <<status, approvalRequestID, resumeApprovalID, ctxDone>>

(* Variant: the rejected task stays in the map.                            *)
EnqueueFullKeepsEntry(t) ==
    /\ Len(queue) >= MaxQueue
    /\ ctxDone' = [ctxDone EXCEPT ![t] = TRUE]
    /\ UNCHANGED <<status, approvalRequestID, resumeApprovalID, queue>>

EnqueueFull(t) ==
    /\ Len(queue) >= MaxQueue
    /\ ctxDone' = [ctxDone EXCEPT ![t] = TRUE]
    /\ status' = [status EXCEPT ![t] = "dropped"]
    /\ UNCHANGED <<approvalRequestID, resumeApprovalID, queue>>

-----------------------------------------------------------------------------
(* HTTP handlers.  A handler step is one critical section or file access.  *)

SubmitInsert(r) ==
    /\ request[r].pc = "idle"
    /\ \E t \in Tasks \ Heartbeats :
          /\ EnqueueInsert(t)
          /\ request' = [request EXCEPT ![r] = [RequestIdle EXCEPT !.pc = "send", !.task = t]]
    /\ UNCHANGED <<worker, guard, beat, ticker, restarts>>

SubmitSend(r) ==
    /\ request[r].pc = "send"
    /\ EnqueueSend(request[r].task) \/ EnqueueFull(request[r].task)
    /\ request' = [request EXCEPT ![r] = RequestIdle]
    /\ UNCHANGED <<worker, guard, beat, ticker, restarts>>

(* Variant: a resolved record can be resolved again.                       *)
ResolveAgain(records, a, decision) == [records EXCEPT ![a] = decision]

(* FileApprovalStore.Resolve: under the lock file; only a pending record   *)
(* is resolved, for any other the call succeeds and changes nothing.       *)
Resolve(records, a, decision) ==
    IF records[a] = "pending" THEN [records EXCEPT ![a] = decision] ELSE records

Approve(a) ==
    /\ record[a] # "none"
    /\ record' = Resolve(record, a, "approved")
    /\ UNCHANGED <<store, worker, lapsed, beat, ticker, request, restarts>>

DenyResolve(r, a) ==
    /\ request[r].pc = "idle"
    /\ record[a] # "none"
    /\ record' = Resolve(record, a, "denied")
    /\ request' = [request EXCEPT ![r] = [RequestIdle EXCEPT !.pc = "failPending", !.approval = a]]
    /\ UNCHANGED <<store, worker, lapsed, beat, ticker, restarts>>

(* The tasks FailPendingByApprovalID and EnqueueResumeByApprovalID match.  *)
WaitingFor(a) == {t \in Tasks : status[t] = "pending" /\ approvalRequestID[t] = a}

DenyFailPending(r) ==
    /\ request[r].pc = "failPending"
    /\ \/ \E t \in WaitingFor(request[r].approval) :
             /\ status' = [status EXCEPT ![t] = "failed"]
             /\ request' = [request EXCEPT ![r] = [RequestIdle EXCEPT !.pc = "cancel", !.task = t]]
       \/ /\ WaitingFor(request[r].approval) = {}
          /\ request' = [request EXCEPT ![r] = RequestIdle]
          /\ UNCHANGED status
    /\ UNCHANGED <<approvalRequestID, resumeApprovalID, ctxDone, queue,
                   worker, guard, beat, ticker, restarts>>

DenyCancel(r) ==
    /\ request[r].pc = "cancel"
    /\ ctxDone' = [ctxDone EXCEPT ![request[r].task] = TRUE]
    /\ request' = [request EXCEPT ![r] = RequestIdle]
    /\ UNCHANGED <<status, approvalRequestID, resumeApprovalID, queue,
                   worker, guard, beat, ticker, restarts>>

(* Variant: the status of the approval is not compared with approved.      *)
ResumeLookupUnchecked(r, a) ==
    /\ request[r].pc = "idle"
    /\ record[a] # "none"
    /\ request' = [request EXCEPT ![r] = [RequestIdle EXCEPT !.pc = "enqueueResume", !.approval = a]]
    /\ UNCHANGED <<store, worker, guard, beat, ticker, restarts>>

ResumeLookup(r, a) ==
    /\ request[r].pc = "idle"
    /\ record[a] = "approved"
    /\ request' = [request EXCEPT ![r] = [RequestIdle EXCEPT !.pc = "enqueueResume", !.approval = a]]
    /\ UNCHANGED <<store, worker, guard, beat, ticker, restarts>>

(* A waiting task that is already queued for resume is refused.            *)
Resumable(t) == resumeApprovalID[t] = NoApproval

ResumeEnqueue(r) ==
    /\ request[r].pc = "enqueueResume"
    /\ \/ \E t \in WaitingFor(request[r].approval) :
             /\ Resumable(t)
             /\ Len(queue) < MaxQueue
             /\ resumeApprovalID' = [resumeApprovalID EXCEPT ![t] = request[r].approval]
             /\ queue' = Append(queue, t)
       \/ /\ \/ WaitingFor(request[r].approval) = {}
             \/ \E t \in WaitingFor(request[r].approval) : ~Resumable(t)
             \/ Len(queue) >= MaxQueue
          /\ UNCHANGED <<resumeApprovalID, queue>>
    /\ request' = [request EXCEPT ![r] = RequestIdle]
    /\ UNCHANGED <<status, approvalRequestID, ctxDone,
                   worker, guard, beat, ticker, restarts>>

-----------------------------------------------------------------------------
(* heartbeatutil.State                                                     *)

EndFailure ==
    /\ hbRunning' = FALSE
    /\ hbFailures' = (hbFailures + 1) % HeartbeatFailureThreshold

EndSuccess == hbRunning' = FALSE /\ hbFailures' = 0

EndSkipped == hbRunning' = FALSE /\ UNCHANGED hbFailures

(* The heartbeat goroutine: Start on a tick, build the prompt, enqueue.    *)
TickStart ==
    /\ ticker.pc = "idle"
    /\ ~hbRunning
    /\ hbRunning' = TRUE
    /\ ticker' = [ticker EXCEPT !.pc = "build"]
    /\ UNCHANGED <<store, worker, guard, hbFailures, request, restarts>>

(* Variant: the early return does not end the heartbeat.                   *)
TickBuildErrorForgets ==
    /\ ticker.pc = "build"
    /\ ticker' = TickerIdle
    /\ UNCHANGED <<store, worker, guard, beat, request, restarts>>

TickBuildError ==
    /\ ticker.pc = "build"
    /\ EndFailure
    /\ ticker' = TickerIdle
    /\ UNCHANGED <<store, worker, guard, request, restarts>>

TickInsert ==
    /\ ticker.pc = "build"
    /\ \E t \in Heartbeats :
          /\ EnqueueInsert(t)
          /\ ticker' = [pc |-> "send", task |-> t]
    /\ UNCHANGED <<worker, guard, beat, request, restarts>>

TickSend ==
    /\ ticker.pc = "send"
    /\ \/ EnqueueSend(ticker.task) /\ ticker' = TickerIdle
       \/ EnqueueFull(ticker.task) /\ ticker' = [TickerIdle EXCEPT !.pc = "skip"]
    /\ UNCHANGED <<worker, guard, beat, request, restarts>>

TickSkip ==
    /\ ticker.pc = "skip"
    /\ EndSkipped
    /\ ticker' = TickerIdle
    /\ UNCHANGED <<store, worker, guard, request, restarts>>

-----------------------------------------------------------------------------
(* The worker goroutine.                                                   *)

WorkerNext ==
    /\ worker.pc = "next"
    /\ queue # <<>>
    /\ queue' = Tail(queue)
    /\ worker' = [WorkerIdle EXCEPT !.pc = "start", !.task = Head(queue),
                                    !.resume = resumeApprovalID[Head(queue)]]
    /\ UNCHANGED <<status, approvalRequestID, resumeApprovalID, ctxDone,
                   guard, beat, ticker, request, restarts>>

(* Update to running; a resume also clears the marker (outside the lock,   *)
(* but a running task is not matched by any handler that reads it).        *)
WorkerStart ==
    /\ worker.pc = "start"
    /\ status' = [status EXCEPT ![worker.task] = "running"]
    /\ resumeApprovalID' = [resumeApprovalID EXCEPT ![worker.task] = NoApproval]
    /\ worker' = [worker EXCEPT !.pc = IF worker.resume = NoApproval THEN "run" ELSE "resume",
                                !.hasCtx = worker.resume = NoApproval]
    /\ UNCHANGED <<approvalRequestID, ctxDone, queue, guard, beat, ticker, request, restarts>>

(* Engine.Resume before its loop: an expired approval is an error; one that *)
(* is not approved returns a pending Final and a nil *agent.Context.       *)
EngineResume ==
    /\ worker.pc = "resume"
    /\ worker' =
         IF lapsed[worker.resume] THEN [worker EXCEPT !.pc = "error"]
         ELSE IF record[worker.resume] = "approved"
              THEN [worker EXCEPT !.pc = "run", !.hasCtx = TRUE]
              ELSE [worker EXCEPT !.pc = "paused", !.asked = worker.resume]
    /\ UNCHANGED <<store, guard, beat, ticker, request, restarts>>

(* Variant: the approval record is not saved before the run pauses.        *)
EngineAskUnsaved(a) ==
    /\ worker.pc = "run"
    /\ record[a] = "none"
    /\ worker' = [worker EXCEPT !.pc = "paused", !.asked = a]
    /\ UNCHANGED <<store, guard, beat, ticker, request, restarts>>

(* The run reaches an action that needs approval: the record is durable    *)
(* before the run returns pending.                                         *)
EngineAsk(a) ==
    /\ worker.pc = "run"
    /\ record[a] = "none"
    /\ record' = [record EXCEPT ![a] = "pending"]
    /\ worker' = [worker EXCEPT !.pc = "paused", !.asked = a]
    /\ UNCHANGED <<store, lapsed, beat, ticker, request, restarts>>

EngineReturn ==
    /\ worker.pc = "run"
    /\ worker' = [worker EXCEPT !.pc = "done"]
    /\ UNCHANGED <<store, guard, beat, ticker, request, restarts>>

EngineError ==
    /\ worker.pc = "run"
    /\ worker' = [worker EXCEPT !.pc = "error"]
    /\ UNCHANGED <<store, guard, beat, ticker, request, restarts>>

(* A run that paused: a heartbeat is closed as a failure first...          *)
WorkerPause ==
    /\ worker.pc = "paused"
    /\ IF worker.task \in Heartbeats THEN EndFailure ELSE UNCHANGED beat
    /\ worker' = [worker EXCEPT !.pc = "park"]
    /\ UNCHANGED <<store, guard, ticker, request, restarts>>

(* ... then the task is parked; reading runCtx.Metrics of a nil context    *)
(* panics and takes the daemon down.                                       *)
WorkerPark ==
    /\ worker.pc = "park"
    /\ IF worker.hasCtx
       THEN /\ status' = [status EXCEPT ![worker.task] = "pending"]
            /\ approvalRequestID' = [approvalRequestID EXCEPT ![worker.task] = worker.asked]
            /\ worker' = WorkerIdle
       ELSE /\ worker' = [worker EXCEPT !.pc = "panicked"]
            /\ UNCHANGED <<status, approvalRequestID>>
    /\ UNCHANGED <<resumeApprovalID, ctxDone, queue, guard, beat, ticker, request, restarts>>

(* errorsIsContextDeadline: a dead context, or an error text that says so. *)
WorkerFinish ==
    /\ worker.pc \in {"done", "error"}
    /\ \E s \in Finished :
          /\ s = "done" <=> worker.pc = "done"
          /\ s = "failed" => ~ctxDone[worker.task]
          /\ status' = [status EXCEPT ![worker.task] = s]
    /\ worker' = [worker EXCEPT !.pc = IF worker.pc = "done" THEN "endOk" ELSE "endErr"]
    /\ UNCHANGED <<approvalRequestID, resumeApprovalID, ctxDone, queue,
                   guard, beat, ticker, request, restarts>>

WorkerEnd ==
    /\ worker.pc \in {"endOk", "endErr"}
    /\ IF worker.task \in Heartbeats
       THEN IF worker.pc = "endOk" THEN EndSuccess ELSE EndFailure
       ELSE UNCHANGED beat
    /\ ctxDone' = [ctxDone EXCEPT ![worker.task] = TRUE]
    /\ worker' = WorkerIdle
    /\ UNCHANGED <<status, approvalRequestID, resumeApprovalID, queue,
                   guard, ticker, request, restarts>>

-----------------------------------------------------------------------------
(* The world: clocks run out, the process dies and comes back.             *)

TaskTimeout(t) ==
    /\ status[t] \in InMap
    /\ ~ctxDone[t]
    /\ ctxDone' = [ctxDone EXCEPT ![t] = TRUE]
    /\ UNCHANGED <<status, approvalRequestID, resumeApprovalID, queue,
                   worker, guard, beat, ticker, request, restarts>>

ApprovalTimeout(a) ==
    /\ record[a] # "none"
    /\ ~lapsed[a]
    /\ lapsed' = [lapsed EXCEPT ![a] = TRUE]
    /\ UNCHANGED <<store, worker, record, beat, ticker, request, restarts>>

Restart ==
    /\ restarts < MaxRestarts
    /\ restarts' = restarts + 1
    /\ status' = [t \in Tasks |-> IF status[t] = "unborn" THEN "unborn" ELSE "dropped"]
    /\ approvalRequestID' = [t \in Tasks |-> NoApproval]
    /\ resumeApprovalID' = [t \in Tasks |-> NoApproval]
    /\ ctxDone' = [t \in Tasks |-> FALSE]
    /\ queue' = <<>>
    /\ worker' = WorkerIdle
    /\ hbRunning' = FALSE /\ hbFailures' = 0
    /\ ticker' = TickerIdle
    /\ request' = [r \in Requests |-> RequestIdle]
    /\ UNCHANGED guard

HandlerStep(r) ==
    \/ SubmitSend(r) \/ DenyFailPending(r) \/ DenyCancel(r) \/ ResumeEnqueue(r)

HandlerStart(r) ==
    \/ SubmitInsert(r)
    \/ \E a \in Approvals : DenyResolve(r, a) \/ ResumeLookup(r, a)

TickerStep == TickBuildError \/ TickInsert \/ TickSend \/ TickSkip

WorkerStep ==
    \/ WorkerNext \/ WorkerStart \/ EngineResume \/ WorkerPause
    \/ WorkerPark \/ WorkerFinish \/ WorkerEnd

EngineStep == EngineReturn \/ EngineError \/ \E a \in Approvals : EngineAsk(a)

Next ==
    \/ \E r \in Requests : HandlerStart(r) \/ HandlerStep(r)
    \/ \E a \in Approvals : Approve(a) \/ ApprovalTimeout(a)
    \/ \E t \in Tasks : TaskTimeout(t)
    \/ TickStart \/ TickerStep
    \/ WorkerStep \/ EngineStep
    \/ Restart

Spec == Init /\ [][Next]_vars

(* The Go scheduler runs every goroutine that can run, deadlines pass, and *)
(* a run whose context is dead returns (its next step, its LLM call or its *)
(* tool returns the context's error).                                      *)
EngineStopsWhenDead == worker.pc = "run" /\ ctxDone[worker.task] /\ EngineStep

Fairness ==
    /\ WF_vars(WorkerStep) /\ WF_vars(TickerStep)
    /\ WF_vars(EngineStopsWhenDead)
    /\ \A t \in Tasks : WF_vars(TaskTimeout(t))
    /\ \A r \in Requests : WF_vars(HandlerStep(r))

FairSpec == Spec /\ Fairness

-----------------------------------------------------------------------------
WorkerStates ==
    [pc : {"next", "start", "resume", "run", "paused", "park",
           "done", "error", "endOk", "endErr", "panicked"},
     task : Tasks \cup {NoTask}, resume : Approvals \cup {NoApproval},
     asked : Approvals \cup {NoApproval}, hasCtx : BOOLEAN]

TickerStates == [pc : {"idle", "build", "send", "skip"}, task : Tasks \cup {NoTask}]

RequestStates ==
    [pc : {"idle", "send", "failPending", "cancel", "enqueueResume"},
     task : Tasks \cup {NoTask}, approval : Approvals \cup {NoApproval}]

(* Every variable has the type its Go declaration and its use give it.     *)
TypeOK ==
    /\ status \in [Tasks -> Statuses]
    /\ approvalRequestID \in [Tasks -> Approvals \cup {NoApproval}]
    /\ resumeApprovalID \in [Tasks -> Approvals \cup {NoApproval}]
    /\ ctxDone \in [Tasks -> BOOLEAN]
    /\ queue \in Seq(Tasks)
    /\ worker \in WorkerStates
    /\ record \in [Approvals -> Resolutions]
    /\ lapsed \in [Approvals -> BOOLEAN]
    /\ hbRunning \in BOOLEAN /\ hbFailures \in 0..(HeartbeatFailureThreshold - 1)
    /\ ticker \in TickerStates
    /\ request \in [Requests -> RequestStates]
    /\ restarts \in 0..MaxRestarts

(* A task is never in the queue twice, and never in the queue while the    *)
(* worker has it: one approval cannot make a paused run execute twice.     *)
QueuedAtMostOnce ==
    /\ NoRepeats(queue)
    /\ worker.task # NoTask => ~InQueue(worker.task)

(* The worker never parks a task whose engine returned no context, i.e.    *)
(* the nil runCtx that Engine.Resume returns for an unapproved request is  *)
(* never dereferenced, whatever approve, deny and resume calls race.       *)
NilContextNeverRead ==
    /\ worker.pc # "panicked"
    /\ worker.pc \in {"paused", "park"} => worker.hasCtx

(* A parked task waits for an approval that exists on disk, and no two     *)
(* tasks wait for the same one: approving one action releases one task.    *)
PendingOwnsItsApproval ==
    \A t \in Tasks : status[t] = "pending" =>
        /\ approvalRequestID[t] \in Approvals
        /\ record[approvalRequestID[t]] # "none"
        /\ WaitingFor(approvalRequestID[t]) = {t}

(* The heartbeat flag is never left set by nobody: while it is set, the    *)
(* ticker is preparing a heartbeat or some heartbeat task is still to end. *)
HeartbeatNotWedged ==
    hbRunning => \/ ticker.pc # "idle"
                 \/ \E t \in Heartbeats : InQueue(t)
                 \/ worker.task \in Heartbeats /\ worker.pc # "park"

(* A task parked on a denied approval never runs again: a deny that comes  *)
(* before the worker has parked the task still stops the run for good.     *)
DeniedNeverRuns ==
    [][\A t \in Tasks :
          (status[t] = "pending" /\ record[approvalRequestID[t]] = "denied")
             => status'[t] \in {"pending", "failed", "dropped"}]_vars

(* A task that is done or canceled stays so until the process dies (a      *)
(* failed one need not: see the README on deny against a queued resume).   *)
CompletedIsFinal ==
    [][\A t \in Tasks : status[t] \in {"done", "canceled"}
          => status'[t] \in {status[t], "dropped"}]_vars

(* `submit --wait` polls while the status is queued or running: it gets an *)
(* answer, since every accepted task is parked, finished or lost.          *)
AcceptedTaskSettles ==
    \A t \in Tasks : (status[t] \in {"queued", "running"})
        ~> (status[t] \in Finished \cup {"pending", "dropped"})

(* A heartbeat in progress always ends, so that later ticks are not all    *)
(* skipped.                                                                *)
HeartbeatReleased == hbRunning ~> ~hbRunning

(* What makes the invariants above inductive.  First the queue: who holds  *)
(* a task that is on its way into the queue, in it, or out of it.          *)
Sending(r) == request[r].pc = "send"

SendersHoldNewTasks ==
    /\ \A r \in Requests : Sending(r) =>
          /\ request[r].task \in Tasks \ Heartbeats
          /\ status[request[r].task] = "queued"
          /\ ~InQueue(request[r].task) /\ worker.task # request[r].task
    /\ \A r, s \in Requests : Sending(r) /\ Sending(s) /\ request[r].task = request[s].task => r = s
    /\ ticker.pc = "send" =>
          /\ ticker.task \in Heartbeats
          /\ status[ticker.task] = "queued"
          /\ ~InQueue(ticker.task) /\ worker.task # ticker.task

QueuedTasksAreKnown ==
    \A t \in Tasks : InQueue(t) \/ (worker.task = t /\ worker.pc = "start") =>
        \/ status[t] = "queued" /\ resumeApprovalID[t] = NoApproval
        \/ status[t] \in {"pending", "failed"} /\ resumeApprovalID[t] # NoApproval

(* Then the worker: its place says what it holds.                          *)
WorkerHoldsItsTask ==
    /\ worker.pc = "next" <=> worker.task = NoTask
    /\ worker.pc = "start" => worker.resume = resumeApprovalID[worker.task]
    /\ worker.pc \in {"resume", "run", "paused", "park", "done", "error"}
         => status[worker.task] = "running"
    /\ worker.pc \in {"endOk", "endErr"} => status[worker.task] \in Finished
    /\ worker.pc \notin {"next", "start"} => resumeApprovalID[worker.task] = NoApproval
    /\ worker.pc = "resume" => worker.resume # NoApproval
    /\ worker.pc \in {"run", "paused", "park"} => worker.hasCtx

(* Then the approvals: every resume under way has been approved, and the   *)
(* request of a run that is being parked is on disk and nobody else's.     *)
ResumesAreApproved ==
    /\ \A t \in Tasks : resumeApprovalID[t] # NoApproval =>
          /\ record[resumeApprovalID[t]] = "approved"
          /\ status[t] \in {"pending", "failed"}
          /\ status[t] = "pending" => resumeApprovalID[t] = approvalRequestID[t]
    /\ worker.resume # NoApproval => record[worker.resume] = "approved"
    /\ \A r \in Requests : request[r].pc = "enqueueResume" =>
          request[r].approval \in Approvals /\ record[request[r].approval] = "approved"

AskedIsFresh ==
    worker.pc \in {"paused", "park"} =>
        /\ worker.asked \in Approvals
        /\ record[worker.asked] # "none"
        /\ \A t \in Tasks : status[t] = "pending" => approvalRequestID[t] # worker.asked

IInv ==
    /\ TypeOK /\ QueuedAtMostOnce /\ NilContextNeverRead /\ PendingOwnsItsApproval
    /\ HeartbeatNotWedged /\ SendersHoldNewTasks /\ QueuedTasksAreKnown
    /\ WorkerHoldsItsTask /\ ResumesAreApproved /\ AskedIsFresh
=============================================================================
