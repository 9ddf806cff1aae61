---------------------------- MODULE DaemonProofs ----------------------------
(* Proofs about the task daemon, for every number of tasks, approvals,       *)
(* handlers, queue capacity and restarts.                                    *)
(*                                                                           *)
(* Then about the files it and the other commands keep: the invariant of     *)
(* FileStore is inductive, every step of it is a step of AtomicStore or a    *)
(* stutter, and of the logs that share a state directory with it no          *)
(* acknowledged line is lost or doubled.                                     *)
EXTENDS TaskDaemon, Storage, FiniteSetTheorems, SequenceTheorems, TLAPS

(* What a channel send does to the queue.                                  *)
LEMMA AppendQueue ==
    ASSUME NEW S, NEW q \in Seq(S), NEW t \in S
    PROVE  /\ Append(q, t) \in Seq(S)
           /\ \A x : Occurs(x, Append(q, t)) <=> Occurs(x, q) \/ x = t
           /\ NoRepeats(q) /\ ~Occurs(t, q) => NoRepeats(Append(q, t))
<1>1. /\ Append(q, t) \in Seq(S)
      /\ DOMAIN Append(q, t) = 1..(Len(q) + 1)
      /\ \A i \in 1..Len(q) : Append(q, t)[i] = q[i]
      /\ Append(q, t)[Len(q) + 1] = t
      /\ DOMAIN q = 1..Len(q) /\ Len(q) \in Nat
  OBVIOUS
<1>2. \A x : Occurs(x, Append(q, t)) <=> Occurs(x, q) \/ x = t
  BY <1>1 DEF Occurs
<1>3. NoRepeats(q) /\ ~Occurs(t, q) => NoRepeats(Append(q, t))
  BY <1>1 DEF Occurs, NoRepeats
<1> QED BY <1>1, <1>2, <1>3

(* What a channel receive does to the queue.                               *)
LEMMA TailQueue ==
    ASSUME NEW S, NEW q \in Seq(S), q # <<>>
    PROVE  /\ Tail(q) \in Seq(S)
           /\ Head(q) \in S
           /\ Occurs(Head(q), q)
           /\ \A x : Occurs(x, q) <=> Occurs(x, Tail(q)) \/ x = Head(q)
           /\ NoRepeats(q) => NoRepeats(Tail(q)) /\ ~Occurs(Head(q), Tail(q))
<1>1. /\ Tail(q) \in Seq(S) /\ Head(q) \in S /\ Head(q) = q[1]
      /\ Len(q) \in Nat \ {0} /\ DOMAIN q = 1..Len(q)
      /\ DOMAIN Tail(q) = 1..(Len(q) - 1)
      /\ \A i \in 1..(Len(q) - 1) : Tail(q)[i] = q[i + 1]
  OBVIOUS
<1>2. Occurs(Head(q), q)
  BY <1>1 DEF Occurs
<1>3. \A x : Occurs(x, q) <=> Occurs(x, Tail(q)) \/ x = Head(q)
  <2>1. ASSUME NEW x, Occurs(x, q) PROVE Occurs(x, Tail(q)) \/ x = Head(q)
    <3>1. PICK i \in 1..Len(q) : q[i] = x BY <1>1, <2>1 DEF Occurs
    <3>2. CASE i = 1 BY <1>1, <3>1, <3>2
    <3>3. CASE i # 1
      <4>1. i - 1 \in DOMAIN Tail(q) /\ Tail(q)[i - 1] = x BY <1>1, <3>1, <3>3
      <4> QED BY <4>1 DEF Occurs
    <3> QED BY <3>2, <3>3
  <2>2. ASSUME NEW x, Occurs(x, Tail(q)) PROVE Occurs(x, q)
    <3>1. PICK i \in 1..(Len(q) - 1) : q[i + 1] = x BY <1>1, <2>2 DEF Occurs
    <3>2. i + 1 \in DOMAIN q BY <1>1
    <3> QED BY <3>1, <3>2 DEF Occurs
  <2> QED BY <1>2, <2>1, <2>2
<1>4. NoRepeats(q) => NoRepeats(Tail(q)) /\ ~Occurs(Head(q), Tail(q))
  BY <1>1 DEF Occurs, NoRepeats
<1> QED BY <1>1, <1>2, <1>3, <1>4

(* Type correctness, one step per action and under it one per variable     *)
(* that the action changes.                                                *)
LEMMA IdleStates ==
    WorkerIdle \in WorkerStates /\ TickerIdle \in TickerStates /\ RequestIdle \in RequestStates
  BY DEF WorkerIdle, WorkerStates, TickerIdle, TickerStates, RequestIdle, RequestStates

LEMMA TypeInit == Init => TypeOK
<1> SUFFICES ASSUME Init PROVE TypeOK OBVIOUS
<1>1. worker \in WorkerStates BY IdleStates DEF Init
<1>2. ticker \in TickerStates BY IdleStates DEF Init
<1>3. request \in [Requests -> RequestStates] BY IdleStates DEF Init
<1>4. queue \in Seq(Tasks) BY DEF Init
<1>5. hbFailures \in 0..(HeartbeatFailureThreshold - 1) BY DEF Init, HeartbeatFailureThreshold
<1>6. restarts \in 0..MaxRestarts BY TaskConstants DEF Init
<1> QED BY <1>1, <1>2, <1>3, <1>4, <1>5, <1>6 DEF Init, TypeOK, Statuses, InMap, Resolutions

LEMMA TypeStep == TypeOK /\ SendersHoldNewTasks /\ [Next]_vars => TypeOK'
<1> SUFFICES ASSUME TypeOK, SendersHoldNewTasks, [Next]_vars PROVE TypeOK' OBVIOUS
<1>1. ASSUME NEW r \in Requests, SubmitInsert(r) PROVE TypeOK'
  <2>1. request' \in [Requests -> RequestStates]
    <3>1. PICK t \in Tasks :
             request' = [request EXCEPT ![r] = [RequestIdle EXCEPT !.pc = "send", !.task = t]]
      BY <1>1 DEF SubmitInsert
    <3>2. [RequestIdle EXCEPT !.pc = "send", !.task = t] \in RequestStates
      BY DEF RequestIdle, RequestStates
    <3> QED BY <3>1, <3>2 DEF TypeOK
  <2>2. status' \in [Tasks -> Statuses]
    BY <1>1 DEF SubmitInsert, EnqueueInsert, TypeOK, Statuses, InMap, Finished
  <2> QED BY <2>1, <2>2, <1>1 DEF SubmitInsert, TypeOK, store, guard, beat, EnqueueInsert
<1>2. ASSUME NEW r \in Requests, SubmitSend(r) PROVE TypeOK'
  <2>1. request' \in [Requests -> RequestStates]
    BY <1>2 DEF SubmitSend, EnqueueSend, EnqueueFull, TypeOK, RequestStates, RequestIdle
  <2>2. queue' \in Seq(Tasks)
    <3>1. CASE EnqueueSend(request[r].task)
      <4>1. request[r].task \in Tasks BY <1>2 DEF SubmitSend, SendersHoldNewTasks, Sending
      <4> QED BY <3>1, <4>1, AppendQueue DEF EnqueueSend, TypeOK
    <3>2. CASE EnqueueFull(request[r].task)
      BY <3>2 DEF EnqueueFull, TypeOK
    <3> QED BY <1>2, <3>1, <3>2 DEF SubmitSend
  <2>3. status' \in [Tasks -> Statuses]
    BY <1>2 DEF SubmitSend, EnqueueSend, EnqueueFull, TypeOK, Statuses, InMap, Finished
  <2>4. ctxDone' \in [Tasks -> BOOLEAN]
    BY <1>2 DEF SubmitSend, EnqueueSend, EnqueueFull, TypeOK
  <2> QED BY <2>1, <2>2, <2>3, <2>4, <1>2 DEF SubmitSend, TypeOK, store, guard, beat,
      EnqueueSend, EnqueueFull
<1>3. ASSUME NEW r \in Requests, NEW a \in Approvals, DenyResolve(r, a) PROVE TypeOK'
  <2>1. record' \in [Approvals -> Resolutions]
    BY <1>3 DEF DenyResolve, Resolve, TypeOK, Resolutions
  <2>2. request' \in [Requests -> RequestStates]
    BY <1>3 DEF DenyResolve, Resolve, TypeOK, RequestStates, RequestIdle
  <2> QED BY <2>1, <2>2, <1>3 DEF DenyResolve, TypeOK, store, guard, beat, Resolve
<1>4. ASSUME NEW r \in Requests, DenyFailPending(r) PROVE TypeOK'
  <2>1. status' \in [Tasks -> Statuses]
    <3>1. CASE \E t \in Tasks : status' = [status EXCEPT ![t] = "failed"]
      BY <3>1 DEF TypeOK, Statuses, InMap
    <3>2. CASE UNCHANGED status
      BY <3>2 DEF TypeOK
    <3> QED BY <1>4, <3>1, <3>2 DEF DenyFailPending, WaitingFor
  <2>2. request' \in [Requests -> RequestStates]
    <3>1. CASE \E t \in Tasks :
                  request' = [request EXCEPT ![r] = [RequestIdle EXCEPT !.pc = "cancel", !.task = t]]
      <4>1. PICK t \in Tasks :
               request' = [request EXCEPT ![r] = [RequestIdle EXCEPT !.pc = "cancel", !.task = t]]
        BY <3>1
      <4>2. [RequestIdle EXCEPT !.pc = "cancel", !.task = t] \in RequestStates
        BY DEF RequestIdle, RequestStates
      <4> QED BY <4>1, <4>2 DEF TypeOK
    <3>2. CASE request' = [request EXCEPT ![r] = RequestIdle]
      BY <3>2 DEF TypeOK, RequestStates, RequestIdle
    <3> QED BY <1>4, <3>1, <3>2 DEF DenyFailPending, WaitingFor
  <2> QED BY <2>1, <2>2, <1>4 DEF DenyFailPending, TypeOK, store, guard, beat
<1>5. ASSUME NEW r \in Requests, DenyCancel(r) PROVE TypeOK'
  <2>1. ctxDone' \in [Tasks -> BOOLEAN]
    BY <1>5 DEF DenyCancel, TypeOK
  <2>2. request' \in [Requests -> RequestStates]
    BY <1>5 DEF DenyCancel, TypeOK, RequestStates, RequestIdle
  <2> QED BY <2>1, <2>2, <1>5 DEF DenyCancel, TypeOK, store, guard, beat
<1>6. ASSUME NEW r \in Requests, NEW a \in Approvals, ResumeLookup(r, a) PROVE TypeOK'
  <2>1. request' \in [Requests -> RequestStates]
    BY <1>6 DEF ResumeLookup, TypeOK, RequestStates, RequestIdle
  <2> QED BY <2>1, <1>6 DEF ResumeLookup, TypeOK, store, guard, beat
<1>7. ASSUME NEW r \in Requests, ResumeEnqueue(r) PROVE TypeOK'
  <2>1. queue' \in Seq(Tasks)
    <3>1. CASE \E t \in Tasks : queue' = Append(queue, t)
      BY <3>1, AppendQueue DEF TypeOK
    <3>2. CASE UNCHANGED queue
      BY <3>2 DEF TypeOK
    <3> QED BY <1>7, <3>1, <3>2 DEF ResumeEnqueue, WaitingFor
  <2>2. resumeApprovalID' \in [Tasks -> Approvals \cup {NoApproval}]
    BY <1>7 DEF ResumeEnqueue, TypeOK, RequestStates
  <2>3. request' \in [Requests -> RequestStates]
    BY <1>7 DEF ResumeEnqueue, TypeOK, RequestStates, RequestIdle
  <2> QED BY <2>1, <2>2, <2>3, <1>7 DEF ResumeEnqueue, TypeOK, store, guard, beat
<1>8. ASSUME NEW a \in Approvals, Approve(a) PROVE TypeOK'
  <2>1. record' \in [Approvals -> Resolutions]
    BY <1>8 DEF Approve, Resolve, TypeOK, Resolutions
  <2> QED BY <2>1, <1>8 DEF Approve, TypeOK, store, guard, beat, Resolve
<1>9. ASSUME NEW a \in Approvals, ApprovalTimeout(a) PROVE TypeOK'
  BY <1>9 DEF ApprovalTimeout, TypeOK, store, guard, beat
<1>10. ASSUME NEW t \in Tasks, TaskTimeout(t) PROVE TypeOK'
  <2>1. ctxDone' \in [Tasks -> BOOLEAN]
    BY <1>10 DEF TaskTimeout, TypeOK
  <2> QED BY <2>1, <1>10 DEF TaskTimeout, TypeOK, store, guard, beat
<1>11. ASSUME TickStart PROVE TypeOK'
  <2>1. ticker' \in TickerStates
    BY <1>11 DEF TickStart, TypeOK, TickerStates
  <2> QED BY <2>1, <1>11 DEF TickStart, TypeOK, store, guard, beat
<1>12. ASSUME TickBuildError PROVE TypeOK'
  <2>1. hbFailures' \in 0..(HeartbeatFailureThreshold - 1)
    BY <1>12 DEF TickBuildError, EndFailure, TypeOK, HeartbeatFailureThreshold
  <2>2. ticker' \in TickerStates
    BY <1>12 DEF TickBuildError, EndFailure, TypeOK, TickerStates, TickerIdle
  <2> QED BY <2>1, <2>2, <1>12 DEF TickBuildError, TypeOK, store, guard, beat, EndFailure
<1>13. ASSUME TickInsert PROVE TypeOK'
  <2>1. status' \in [Tasks -> Statuses]
    BY <1>13 DEF TickInsert, EnqueueInsert, TypeOK, Statuses, InMap, Finished
  <2>2. ticker' \in TickerStates
    BY <1>13, TaskConstants DEF TickInsert, TickerStates
  <2> QED BY <2>1, <2>2, <1>13 DEF TickInsert, TypeOK, store, guard, beat, EnqueueInsert
<1>14. ASSUME TickSend PROVE TypeOK'
  <2>1. queue' \in Seq(Tasks)
    <3>1. CASE EnqueueSend(ticker.task)
      <4>1. ticker.task \in Tasks BY <1>14, TaskConstants DEF TickSend, SendersHoldNewTasks
      <4> QED BY <3>1, <4>1, AppendQueue DEF EnqueueSend, TypeOK
    <3>2. CASE EnqueueFull(ticker.task)
      BY <3>2 DEF EnqueueFull, TypeOK
    <3> QED BY <1>14, <3>1, <3>2 DEF TickSend
  <2>2. status' \in [Tasks -> Statuses]
    BY <1>14 DEF TickSend, EnqueueSend, EnqueueFull, TypeOK, Statuses, InMap, Finished
  <2>3. ctxDone' \in [Tasks -> BOOLEAN]
    BY <1>14 DEF TickSend, EnqueueSend, EnqueueFull, TypeOK
  <2>4. ticker' \in TickerStates
    BY <1>14 DEF TickSend, EnqueueSend, EnqueueFull, TypeOK, TickerStates, TickerIdle
  <2> QED BY <2>1, <2>2, <2>3, <2>4, <1>14 DEF TickSend, TypeOK, store, guard, beat,
      EnqueueSend, EnqueueFull
<1>15. ASSUME TickSkip PROVE TypeOK'
  <2>1. ticker' \in TickerStates
    BY <1>15 DEF TickSkip, EndSkipped, TypeOK, TickerStates, TickerIdle
  <2> QED BY <2>1, <1>15 DEF TickSkip, TypeOK, store, guard, beat, EndSkipped
<1>16. ASSUME WorkerNext PROVE TypeOK'
  <2>1. queue' \in Seq(Tasks)
    BY <1>16, TailQueue DEF WorkerNext, TypeOK
  <2>2. worker' \in WorkerStates
    <3>1. Head(queue) \in Tasks BY <1>16, TailQueue DEF WorkerNext, TypeOK
    <3> QED BY <1>16, <3>1 DEF WorkerNext, TypeOK, WorkerStates, WorkerIdle
  <2> QED BY <2>1, <2>2, <1>16 DEF WorkerNext, TypeOK, store, guard, beat
<1>17. ASSUME WorkerStart PROVE TypeOK'
  <2>1. status' \in [Tasks -> Statuses]
    BY <1>17 DEF WorkerStart, TypeOK, Statuses, InMap, Finished
  <2>2. resumeApprovalID' \in [Tasks -> Approvals \cup {NoApproval}]
    BY <1>17 DEF WorkerStart, TypeOK, RequestStates
  <2>3. worker' \in WorkerStates
    BY <1>17 DEF WorkerStart, TypeOK, WorkerStates
  <2> QED BY <2>1, <2>2, <2>3, <1>17 DEF WorkerStart, TypeOK, store, guard, beat
<1>18. ASSUME EngineResume PROVE TypeOK'
  <2>1. worker' \in WorkerStates
    BY <1>18 DEF EngineResume, TypeOK, WorkerStates
  <2> QED BY <2>1, <1>18 DEF EngineResume, TypeOK, store, guard, beat
<1>19. ASSUME NEW a \in Approvals, EngineAsk(a) PROVE TypeOK'
  <2>1. record' \in [Approvals -> Resolutions]
    BY <1>19 DEF EngineAsk, TypeOK, Resolutions
  <2>2. worker' \in WorkerStates
    BY <1>19 DEF EngineAsk, TypeOK, WorkerStates
  <2> QED BY <2>1, <2>2, <1>19 DEF EngineAsk, TypeOK, store, guard, beat
<1>20. ASSUME EngineReturn PROVE TypeOK'
  <2>1. worker' \in WorkerStates
    BY <1>20 DEF EngineReturn, TypeOK, WorkerStates
  <2> QED BY <2>1, <1>20 DEF EngineReturn, TypeOK, store, guard, beat
<1>21. ASSUME EngineError PROVE TypeOK'
  <2>1. worker' \in WorkerStates
    BY <1>21 DEF EngineError, TypeOK, WorkerStates
  <2> QED BY <2>1, <1>21 DEF EngineError, TypeOK, store, guard, beat
<1>22. ASSUME WorkerPause PROVE TypeOK'
  <2>1. hbFailures' \in 0..(HeartbeatFailureThreshold - 1)
    <3>1. CASE worker.task \in Heartbeats
      BY <1>22, <3>1 DEF WorkerPause, EndFailure, TypeOK, HeartbeatFailureThreshold
    <3>2. CASE worker.task \notin Heartbeats
      BY <1>22, <3>2 DEF WorkerPause, beat, TypeOK
    <3> QED BY <3>1, <3>2
  <2>2. worker' \in WorkerStates
    BY <1>22 DEF WorkerPause, EndFailure, TypeOK, WorkerStates
  <2> QED BY <2>1, <2>2, <1>22 DEF WorkerPause, TypeOK, store, guard, beat, EndFailure
<1>23. ASSUME WorkerPark PROVE TypeOK'
  <2>1. status' \in [Tasks -> Statuses]
    BY <1>23 DEF WorkerPark, TypeOK, Statuses, InMap, Finished
  <2>2. approvalRequestID' \in [Tasks -> Approvals \cup {NoApproval}]
    BY <1>23 DEF WorkerPark, TypeOK, WorkerStates
  <2>3. worker' \in WorkerStates
    <3>1. CASE worker.hasCtx
      BY <1>23, <3>1, IdleStates DEF WorkerPark
    <3>2. CASE ~worker.hasCtx
      BY <1>23, <3>2 DEF WorkerPark, TypeOK, WorkerStates
    <3> QED BY <3>1, <3>2
  <2> QED BY <2>1, <2>2, <2>3, <1>23 DEF WorkerPark, TypeOK, store, guard, beat
<1>24. ASSUME WorkerFinish PROVE TypeOK'
  <2>1. status' \in [Tasks -> Statuses]
    BY <1>24 DEF WorkerFinish, TypeOK, Statuses, InMap, Finished
  <2>2. worker' \in WorkerStates
    BY <1>24 DEF WorkerFinish, TypeOK, WorkerStates
  <2> QED BY <2>1, <2>2, <1>24 DEF WorkerFinish, TypeOK, store, guard, beat
<1>25. ASSUME WorkerEnd PROVE TypeOK'
  <2>1. hbFailures' \in 0..(HeartbeatFailureThreshold - 1)
    <3>1. CASE worker.task \in Heartbeats
      BY <1>25, <3>1 DEF WorkerEnd, EndFailure, EndSuccess, TypeOK, HeartbeatFailureThreshold
    <3>2. CASE worker.task \notin Heartbeats
      BY <1>25, <3>2 DEF WorkerEnd, beat, TypeOK
    <3> QED BY <3>1, <3>2
  <2>2. ctxDone' \in [Tasks -> BOOLEAN]
    BY <1>25 DEF WorkerEnd, EndFailure, EndSuccess, TypeOK
  <2>3. worker' \in WorkerStates
    BY <1>25 DEF WorkerEnd, EndFailure, EndSuccess, TypeOK, WorkerStates, WorkerIdle
  <2> QED BY <2>1, <2>2, <2>3, <1>25 DEF WorkerEnd, TypeOK, store, guard, beat, EndFailure,
      EndSuccess
<1>26. ASSUME Restart PROVE TypeOK'
  <2>1. status' \in [Tasks -> Statuses]
    BY <1>26 DEF Restart, TypeOK, Statuses, InMap, Finished
  <2>2. approvalRequestID' \in [Tasks -> Approvals \cup {NoApproval}]
    BY <1>26 DEF Restart, TypeOK, WorkerStates
  <2>3. resumeApprovalID' \in [Tasks -> Approvals \cup {NoApproval}]
    BY <1>26 DEF Restart, TypeOK, RequestStates
  <2>4. ctxDone' \in [Tasks -> BOOLEAN]
    BY <1>26 DEF Restart, TypeOK
  <2>5. queue' \in Seq(Tasks)
    BY <1>26 DEF Restart
  <2>6. worker' \in WorkerStates
    BY <1>26 DEF Restart, TypeOK, WorkerStates, WorkerIdle, TickerIdle, RequestIdle
  <2>7. ticker' \in TickerStates
    BY <1>26 DEF Restart, TypeOK, TickerStates, WorkerIdle, TickerIdle, RequestIdle
  <2>8. request' \in [Requests -> RequestStates]
    BY <1>26 DEF Restart, TypeOK, RequestStates, WorkerIdle, TickerIdle, RequestIdle
  <2>9. hbFailures' \in 0..(HeartbeatFailureThreshold - 1)
    BY <1>26 DEF Restart, TypeOK, HeartbeatFailureThreshold
  <2>10. restarts' \in 0..MaxRestarts
    BY <1>26, TaskConstants DEF Restart, TypeOK
  <2> QED BY <2>1, <2>2, <2>3, <2>4, <2>5, <2>6, <2>7, <2>8, <2>9, <2>10, <1>26, TaskConstants
      DEF Restart, TypeOK, store, guard, beat
<1>27. CASE UNCHANGED vars
  BY <1>27 DEF TypeOK, vars, store, guard, beat
<1> QED
  BY <1>1, <1>2, <1>3, <1>4, <1>5, <1>6, <1>7, <1>8, <1>9, <1>10, <1>11, <1>12, <1>13,
    <1>14, <1>15, <1>16, <1>17, <1>18, <1>19, <1>20, <1>21, <1>22, <1>23, <1>24, <1>25,
    <1>26, <1>27 DEF Next, HandlerStart, HandlerStep, TickerStep, WorkerStep, EngineStep

(* The inductive invariant.  First what the two channel operations do to   *)
(* InQueue, so that no later step looks inside the queue.                  *)
LEMMA SendStep ==
    ASSUME TypeOK, QueuedAtMostOnce, NEW t \in Tasks, queue' = Append(queue, t), ~InQueue(t)
    PROVE  NoRepeats(queue') /\ \A u : InQueue(u)' <=> InQueue(u) \/ u = t
<1>1. queue \in Seq(Tasks) /\ queue' = Append(queue, t) /\ NoRepeats(queue) /\ ~Occurs(t, queue)
  BY DEF TypeOK, QueuedAtMostOnce, InQueue
<1> QED BY <1>1, AppendQueue DEF InQueue

LEMMA ReceiveStep ==
    ASSUME TypeOK, QueuedAtMostOnce, WorkerNext
    PROVE  /\ Head(queue) \in Tasks /\ InQueue(Head(queue))
           /\ NoRepeats(queue')
           /\ \A u : InQueue(u)' <=> InQueue(u) /\ u # Head(queue)
<1>1. queue \in Seq(Tasks) /\ queue # <<>> /\ queue' = Tail(queue) /\ NoRepeats(queue)
  BY DEF TypeOK, QueuedAtMostOnce, WorkerNext
<1> QED BY <1>1, TailQueue DEF InQueue

(* A step that leaves the queue alone leaves InQueue alone.                *)
LEMMA QueueUnchanged ==
    ASSUME UNCHANGED queue PROVE \A u : InQueue(u)' <=> InQueue(u)
  BY DEF InQueue

LEMMA InvInit == Init => IInv
<1> SUFFICES ASSUME Init PROVE IInv OBVIOUS
<1>1. TypeOK BY TypeInit
<1>2. \A t : ~InQueue(t) BY DEF Init, InQueue, Occurs
<1>3. NoRepeats(queue) BY DEF Init, NoRepeats
<1>4. \A t \in Tasks : status[t] = "unborn" BY DEF Init
<1> QED
  BY <1>1, <1>2, <1>3, <1>4, TaskConstants DEF Init, IInv, QueuedAtMostOnce, NilContextNeverRead,
    PendingOwnsItsApproval, HeartbeatNotWedged, SendersHoldNewTasks, QueuedTasksAreKnown,
    WorkerHoldsItsTask, ResumesAreApproved, AskedIsFresh, Sending, WorkerIdle, TickerIdle, RequestIdle

(* A task that no handler has inserted yet is known to nobody.             *)
LEMMA UnbornIsNowhere ==
    ASSUME IInv, NEW t \in Tasks, status[t] = "unborn"
    PROVE  ~InQueue(t) /\ worker.task # t /\ resumeApprovalID[t] = NoApproval
<1>1. ~InQueue(t) /\ ~(worker.task = t /\ worker.pc = "start")
  BY DEF IInv, QueuedTasksAreKnown
<1>2. resumeApprovalID[t] = NoApproval
  BY DEF IInv, ResumesAreApproved
<1>3. worker.task # t
  <2> SUFFICES ASSUME worker.task = t PROVE FALSE OBVIOUS
  <2>1. worker.pc \in {"next", "start", "resume", "run", "paused", "park",
                       "done", "error", "endOk", "endErr", "panicked"}
    BY DEF IInv, TypeOK, WorkerStates
  <2>2. worker.pc # "next" BY TaskConstants DEF IInv, WorkerHoldsItsTask
  <2>3. worker.pc \notin {"resume", "run", "paused", "park", "done", "error"}
    BY DEF IInv, WorkerHoldsItsTask
  <2>4. worker.pc \notin {"endOk", "endErr"}
    BY DEF IInv, WorkerHoldsItsTask, Finished
  <2>5. worker.pc # "panicked" BY DEF IInv, NilContextNeverRead
  <2> QED BY <1>1, <2>1, <2>2, <2>3, <2>4, <2>5
<1> QED BY <1>1, <1>2, <1>3

LEMMA InvStep == IInv /\ [Next]_vars => IInv'
<1> SUFFICES ASSUME IInv, [Next]_vars PROVE IInv' OBVIOUS
<1>0. TypeOK' BY TypeStep DEF IInv
<1>1. ASSUME NEW r \in Requests, SubmitInsert(r) PROVE IInv'
  <2>1. \A u : InQueue(u)' <=> InQueue(u)
    BY <1>1, QueueUnchanged DEF SubmitInsert, EnqueueInsert
  <2>2. PICK t \in Tasks \ Heartbeats :
           /\ EnqueueInsert(t)
           /\ request' = [request EXCEPT ![r] = [RequestIdle EXCEPT !.pc = "send", !.task = t]]
    BY <1>1 DEF SubmitInsert
  <2>3. ~InQueue(t) /\ worker.task # t /\ resumeApprovalID[t] = NoApproval
    BY <2>2, UnbornIsNowhere, TaskConstants DEF EnqueueInsert
  <2>4. status' = [status EXCEPT ![t] = "queued"] /\ status[t] = "unborn"
        /\ UNCHANGED <<approvalRequestID, resumeApprovalID, queue, worker, record, beat, ticker>>
    BY <1>1, <2>2 DEF SubmitInsert, EnqueueInsert, guard
  <2>5. /\ request'[r].pc = "send" /\ request'[r].task = t
        /\ \A s \in Requests : s # r => request'[s] = request[s]
    BY <2>2 DEF RequestIdle, IInv, TypeOK
  <2>6. QueuedAtMostOnce' /\ NilContextNeverRead' /\ PendingOwnsItsApproval' /\ HeartbeatNotWedged'
        /\ SendersHoldNewTasks' /\ QueuedTasksAreKnown' /\ WorkerHoldsItsTask'
        /\ ResumesAreApproved' /\ AskedIsFresh'
    BY <2>1, <2>3, <2>4, <2>5, TaskConstants, SMTT(30) DEF IInv, TypeOK,
      QueuedAtMostOnce, NilContextNeverRead, PendingOwnsItsApproval, WaitingFor,
        HeartbeatNotWedged, SendersHoldNewTasks, Sending, QueuedTasksAreKnown,
        WorkerHoldsItsTask, ResumesAreApproved, AskedIsFresh, store, guard, beat
  <2> QED BY <1>0, <2>6 DEF IInv
<1>2. ASSUME NEW r \in Requests, SubmitSend(r) PROVE IInv'
  <2>1. PICK t \in Tasks \ Heartbeats : /\ t = request[r].task /\ status[t] = "queued"
                                       /\ ~InQueue(t) /\ worker.task # t
    BY <1>2 DEF SubmitSend, IInv, SendersHoldNewTasks, Sending
  <2>2. /\ request[r].pc = "send" /\ request'[r].pc = "idle"
        /\ \A s \in Requests : s # r => request'[s] = request[s]
        /\ UNCHANGED <<worker, record, beat, ticker>>
    BY <1>2 DEF SubmitSend, RequestIdle, IInv, TypeOK, guard
  <2>3. CASE EnqueueSend(t)
    <3>1. NoRepeats(queue') /\ \A u : InQueue(u)' <=> InQueue(u) \/ u = t
      BY <2>1, <2>3, SendStep DEF IInv, EnqueueSend
    <3>2. UNCHANGED <<status, approvalRequestID, resumeApprovalID>>
      BY <2>3 DEF EnqueueSend
    <3>3. QueuedAtMostOnce' /\ NilContextNeverRead' /\ PendingOwnsItsApproval' /\ HeartbeatNotWedged'
        /\ SendersHoldNewTasks' /\ QueuedTasksAreKnown' /\ WorkerHoldsItsTask'
        /\ ResumesAreApproved' /\ AskedIsFresh'
      BY <2>1, <2>2, <3>1, <3>2, TaskConstants, SMTT(30) DEF IInv, TypeOK,
        QueuedAtMostOnce, NilContextNeverRead, PendingOwnsItsApproval, WaitingFor,
        HeartbeatNotWedged, SendersHoldNewTasks, Sending, QueuedTasksAreKnown,
        WorkerHoldsItsTask, ResumesAreApproved, AskedIsFresh, store, guard, beat
    <3> QED BY <1>0, <3>3 DEF IInv
  <2>4. CASE EnqueueFull(t)
    <3>1. \A u : InQueue(u)' <=> InQueue(u)
      BY <2>4, QueueUnchanged DEF EnqueueFull
    <3>2. /\ status' = [status EXCEPT ![t] = "dropped"]
          /\ UNCHANGED <<approvalRequestID, resumeApprovalID, queue>>
      BY <2>4 DEF EnqueueFull
    <3>3. QueuedAtMostOnce' /\ NilContextNeverRead' /\ PendingOwnsItsApproval' /\ HeartbeatNotWedged'
        /\ SendersHoldNewTasks' /\ QueuedTasksAreKnown' /\ WorkerHoldsItsTask'
        /\ ResumesAreApproved' /\ AskedIsFresh'
      BY <2>1, <2>2, <3>1, <3>2, TaskConstants, SMTT(30) DEF Finished, IInv, TypeOK,
        QueuedAtMostOnce, NilContextNeverRead, PendingOwnsItsApproval, WaitingFor,
        HeartbeatNotWedged, SendersHoldNewTasks, Sending, QueuedTasksAreKnown,
        WorkerHoldsItsTask, ResumesAreApproved, AskedIsFresh, store, guard, beat
    <3> QED BY <1>0, <3>3 DEF IInv
  <2> QED BY <1>2, <2>1, <2>3, <2>4 DEF SubmitSend
<1>3. ASSUME NEW r \in Requests, NEW a \in Approvals, DenyResolve(r, a) PROVE IInv'
  <2>1. \A u : InQueue(u)' <=> InQueue(u)
    BY <1>3, QueueUnchanged DEF DenyResolve, store, Resolve
  <2>2. QueuedAtMostOnce' /\ NilContextNeverRead' /\ PendingOwnsItsApproval' /\
        HeartbeatNotWedged' /\ SendersHoldNewTasks' /\ QueuedTasksAreKnown' /\
        WorkerHoldsItsTask' /\ ResumesAreApproved' /\ AskedIsFresh'
    BY <1>3, <2>1, TaskConstants, SMTT(30) DEF DenyResolve, IInv, TypeOK,
      QueuedAtMostOnce, NilContextNeverRead, PendingOwnsItsApproval, WaitingFor,
      HeartbeatNotWedged, SendersHoldNewTasks, Sending, QueuedTasksAreKnown,
      WorkerHoldsItsTask, ResumesAreApproved, AskedIsFresh, Resolve, RequestIdle, store,
      guard, beat
  <2> QED BY <1>0, <2>2 DEF IInv
<1>4. ASSUME NEW r \in Requests, DenyFailPending(r) PROVE IInv'
  <2>1. \A u : InQueue(u)' <=> InQueue(u)
    BY <1>4, QueueUnchanged DEF DenyFailPending
  <2>2. /\ request'[r].pc \in {"cancel", "idle"}
        /\ \A s \in Requests : s # r => request'[s] = request[s]
        /\ UNCHANGED <<approvalRequestID, resumeApprovalID, queue, worker, record, beat, ticker>>
    <3>1. UNCHANGED <<approvalRequestID, resumeApprovalID, queue, worker, record, beat, ticker>>
      BY <1>4 DEF DenyFailPending, guard
    <3>2. CASE \E t \in Tasks :
                  request' = [request EXCEPT ![r] = [RequestIdle EXCEPT !.pc = "cancel", !.task = t]]
      BY <3>1, <3>2 DEF RequestIdle, IInv, TypeOK
    <3>3. CASE request' = [request EXCEPT ![r] = RequestIdle]
      BY <3>1, <3>3 DEF RequestIdle, IInv, TypeOK
    <3> QED BY <1>4, <3>2, <3>3 DEF DenyFailPending, WaitingFor
  <2>3. CASE UNCHANGED status
    BY <2>1, <2>2, <2>3, <1>0, TaskConstants, SMTT(30) DEF IInv, TypeOK,
      QueuedAtMostOnce, NilContextNeverRead, PendingOwnsItsApproval, WaitingFor,
        HeartbeatNotWedged, SendersHoldNewTasks, Sending, QueuedTasksAreKnown,
        WorkerHoldsItsTask, ResumesAreApproved, AskedIsFresh, store, guard, beat
  <2>4. CASE \E t \in Tasks : status[t] = "pending" /\ status' = [status EXCEPT ![t] = "failed"]
    <3>1. PICK t \in Tasks : status[t] = "pending" /\ status' = [status EXCEPT ![t] = "failed"]
      BY <2>4
    <3>2. QueuedAtMostOnce' /\ NilContextNeverRead' /\ PendingOwnsItsApproval' /\ HeartbeatNotWedged'
        /\ SendersHoldNewTasks' /\ QueuedTasksAreKnown' /\ WorkerHoldsItsTask'
        /\ ResumesAreApproved' /\ AskedIsFresh'
      BY <2>1, <2>2, <3>1, TaskConstants, SMTT(30) DEF Finished, IInv, TypeOK,
        QueuedAtMostOnce, NilContextNeverRead, PendingOwnsItsApproval, WaitingFor,
        HeartbeatNotWedged, SendersHoldNewTasks, Sending, QueuedTasksAreKnown,
        WorkerHoldsItsTask, ResumesAreApproved, AskedIsFresh, store, guard, beat
    <3> QED BY <1>0, <3>2 DEF IInv
  <2> QED BY <1>4, <2>3, <2>4 DEF DenyFailPending, WaitingFor
<1>5. ASSUME NEW r \in Requests, DenyCancel(r) PROVE IInv'
  <2>1. \A u : InQueue(u)' <=> InQueue(u)
    BY <1>5, QueueUnchanged DEF DenyCancel, store
  <2>2. QueuedAtMostOnce' /\ NilContextNeverRead' /\ PendingOwnsItsApproval' /\
        HeartbeatNotWedged' /\ SendersHoldNewTasks' /\ QueuedTasksAreKnown' /\
        WorkerHoldsItsTask' /\ ResumesAreApproved' /\ AskedIsFresh'
    BY <1>5, <2>1, TaskConstants, SMTT(30) DEF DenyCancel, IInv, TypeOK, QueuedAtMostOnce,
      NilContextNeverRead, PendingOwnsItsApproval, WaitingFor, HeartbeatNotWedged,
      SendersHoldNewTasks, Sending, QueuedTasksAreKnown, WorkerHoldsItsTask,
      ResumesAreApproved, AskedIsFresh, RequestIdle, store, guard, beat
  <2> QED BY <1>0, <2>2 DEF IInv
<1>6. ASSUME NEW r \in Requests, NEW a \in Approvals, ResumeLookup(r, a) PROVE IInv'
  <2>1. \A u : InQueue(u)' <=> InQueue(u)
    BY <1>6, QueueUnchanged DEF ResumeLookup, store
  <2>2. QueuedAtMostOnce' /\ NilContextNeverRead' /\ PendingOwnsItsApproval' /\
        HeartbeatNotWedged' /\ SendersHoldNewTasks' /\ QueuedTasksAreKnown' /\
        WorkerHoldsItsTask' /\ ResumesAreApproved' /\ AskedIsFresh'
    BY <1>6, <2>1, TaskConstants, SMTT(30) DEF ResumeLookup, IInv, TypeOK,
      QueuedAtMostOnce, NilContextNeverRead, PendingOwnsItsApproval, WaitingFor,
      HeartbeatNotWedged, SendersHoldNewTasks, Sending, QueuedTasksAreKnown,
      WorkerHoldsItsTask, ResumesAreApproved, AskedIsFresh, RequestIdle, store, guard, beat
  <2> QED BY <1>0, <2>2 DEF IInv
<1>7. ASSUME NEW r \in Requests, ResumeEnqueue(r) PROVE IInv'
  <2>1. /\ request'[r].pc = "idle" /\ request[r].pc = "enqueueResume"
        /\ \A s \in Requests : s # r => request'[s] = request[s]
        /\ UNCHANGED <<status, approvalRequestID, worker, record, beat, ticker>>
    BY <1>7 DEF ResumeEnqueue, RequestIdle, IInv, TypeOK, guard
  <2>2. CASE UNCHANGED <<resumeApprovalID, queue>>
    <3>1. \A u : InQueue(u)' <=> InQueue(u)
      BY <2>2, QueueUnchanged
    <3> QED
      BY <1>0, <2>1, <2>2, <3>1, TaskConstants, SMTT(30) DEF IInv, TypeOK,
        QueuedAtMostOnce, NilContextNeverRead, PendingOwnsItsApproval, WaitingFor,
        HeartbeatNotWedged, SendersHoldNewTasks, Sending, QueuedTasksAreKnown,
        WorkerHoldsItsTask, ResumesAreApproved, AskedIsFresh, store, guard, beat
  <2>3. CASE \E t \in WaitingFor(request[r].approval) :
             /\ Resumable(t) /\ Len(queue) < MaxQueue
             /\ resumeApprovalID' = [resumeApprovalID EXCEPT ![t] = request[r].approval]
             /\ queue' = Append(queue, t)
    <3>1. PICK t \in Tasks :
             /\ status[t] = "pending" /\ approvalRequestID[t] = request[r].approval
             /\ resumeApprovalID[t] = NoApproval
             /\ resumeApprovalID' = [resumeApprovalID EXCEPT ![t] = request[r].approval]
             /\ queue' = Append(queue, t) /\ Len(queue) < MaxQueue
      BY <2>3 DEF WaitingFor, Resumable
    <3>2. ~InQueue(t) /\ worker.task # t
      BY <3>1, TaskConstants DEF IInv, TypeOK, WorkerStates, QueuedTasksAreKnown,
        WorkerHoldsItsTask, NilContextNeverRead, Finished
    <3>3. NoRepeats(queue') /\ \A u : InQueue(u)' <=> InQueue(u) \/ u = t
      BY <3>1, <3>2, SendStep DEF IInv
    <3>4. QueuedAtMostOnce' /\ NilContextNeverRead' /\ PendingOwnsItsApproval' /\ HeartbeatNotWedged'
        /\ SendersHoldNewTasks' /\ QueuedTasksAreKnown' /\ WorkerHoldsItsTask'
        /\ ResumesAreApproved' /\ AskedIsFresh'
      BY <2>1, <3>1, <3>2, <3>3, TaskConstants, SMTT(30) DEF IInv, TypeOK,
        QueuedAtMostOnce, NilContextNeverRead, PendingOwnsItsApproval, WaitingFor,
        HeartbeatNotWedged, SendersHoldNewTasks, Sending, QueuedTasksAreKnown,
        WorkerHoldsItsTask, ResumesAreApproved, AskedIsFresh, store, guard, beat
    <3> QED BY <1>0, <3>4 DEF IInv
  <2> QED BY <1>7, <2>2, <2>3 DEF ResumeEnqueue
<1>8. ASSUME NEW a \in Approvals, Approve(a) PROVE IInv'
  <2>1. \A u : InQueue(u)' <=> InQueue(u)
    BY <1>8, QueueUnchanged DEF Approve, store, Resolve
  <2>2. QueuedAtMostOnce' /\ NilContextNeverRead' /\ PendingOwnsItsApproval' /\
        HeartbeatNotWedged' /\ SendersHoldNewTasks' /\ QueuedTasksAreKnown' /\
        WorkerHoldsItsTask' /\ ResumesAreApproved' /\ AskedIsFresh'
    BY <1>8, <2>1, TaskConstants, SMTT(30) DEF Approve, IInv, TypeOK, QueuedAtMostOnce,
      NilContextNeverRead, PendingOwnsItsApproval, WaitingFor, HeartbeatNotWedged,
      SendersHoldNewTasks, Sending, QueuedTasksAreKnown, WorkerHoldsItsTask,
      ResumesAreApproved, AskedIsFresh, Resolve, store, guard, beat
  <2> QED BY <1>0, <2>2 DEF IInv
<1>9. ASSUME NEW a \in Approvals, ApprovalTimeout(a) PROVE IInv'
  <2>1. \A u : InQueue(u)' <=> InQueue(u)
    BY <1>9, QueueUnchanged DEF ApprovalTimeout, store
  <2>2. QueuedAtMostOnce' /\ NilContextNeverRead' /\ PendingOwnsItsApproval' /\
        HeartbeatNotWedged' /\ SendersHoldNewTasks' /\ QueuedTasksAreKnown' /\
        WorkerHoldsItsTask' /\ ResumesAreApproved' /\ AskedIsFresh'
    BY <1>9, <2>1, TaskConstants, SMTT(30) DEF ApprovalTimeout, IInv, TypeOK,
      QueuedAtMostOnce, NilContextNeverRead, PendingOwnsItsApproval, WaitingFor,
      HeartbeatNotWedged, SendersHoldNewTasks, Sending, QueuedTasksAreKnown,
      WorkerHoldsItsTask, ResumesAreApproved, AskedIsFresh, store, guard, beat
  <2> QED BY <1>0, <2>2 DEF IInv
<1>10. ASSUME NEW t \in Tasks, TaskTimeout(t) PROVE IInv'
  <2>1. \A u : InQueue(u)' <=> InQueue(u)
    BY <1>10, QueueUnchanged DEF TaskTimeout, store
  <2>2. QueuedAtMostOnce' /\ NilContextNeverRead' /\ PendingOwnsItsApproval' /\
        HeartbeatNotWedged' /\ SendersHoldNewTasks' /\ QueuedTasksAreKnown' /\
        WorkerHoldsItsTask' /\ ResumesAreApproved' /\ AskedIsFresh'
    BY <1>10, <2>1, TaskConstants, SMTT(30) DEF TaskTimeout, IInv, TypeOK,
      QueuedAtMostOnce, NilContextNeverRead, PendingOwnsItsApproval, WaitingFor,
      HeartbeatNotWedged, SendersHoldNewTasks, Sending, QueuedTasksAreKnown,
      WorkerHoldsItsTask, ResumesAreApproved, AskedIsFresh, store, guard, beat
  <2> QED BY <1>0, <2>2 DEF IInv
<1>11. ASSUME TickStart PROVE IInv'
  <2>1. \A u : InQueue(u)' <=> InQueue(u)
    BY <1>11, QueueUnchanged DEF TickStart, store
  <2>2. QueuedAtMostOnce' /\ NilContextNeverRead' /\ PendingOwnsItsApproval' /\
        HeartbeatNotWedged' /\ SendersHoldNewTasks' /\ QueuedTasksAreKnown' /\
        WorkerHoldsItsTask' /\ ResumesAreApproved' /\ AskedIsFresh'
    BY <1>11, <2>1, TaskConstants, SMTT(30) DEF TickStart, IInv, TypeOK, QueuedAtMostOnce,
      NilContextNeverRead, PendingOwnsItsApproval, WaitingFor, HeartbeatNotWedged,
      SendersHoldNewTasks, Sending, QueuedTasksAreKnown, WorkerHoldsItsTask,
      ResumesAreApproved, AskedIsFresh, store, guard, beat
  <2> QED BY <1>0, <2>2 DEF IInv
<1>12. ASSUME TickBuildError PROVE IInv'
  <2>1. \A u : InQueue(u)' <=> InQueue(u)
    BY <1>12, QueueUnchanged DEF TickBuildError, store, EndFailure
  <2>2. QueuedAtMostOnce' /\ NilContextNeverRead' /\ PendingOwnsItsApproval' /\
        HeartbeatNotWedged' /\ SendersHoldNewTasks' /\ QueuedTasksAreKnown' /\
        WorkerHoldsItsTask' /\ ResumesAreApproved' /\ AskedIsFresh'
    BY <1>12, <2>1, TaskConstants, SMTT(30) DEF TickBuildError, IInv, TypeOK,
      QueuedAtMostOnce, NilContextNeverRead, PendingOwnsItsApproval, WaitingFor,
      HeartbeatNotWedged, SendersHoldNewTasks, Sending, QueuedTasksAreKnown,
      WorkerHoldsItsTask, ResumesAreApproved, AskedIsFresh, EndFailure, TickerIdle, store,
      guard, beat
  <2> QED BY <1>0, <2>2 DEF IInv
<1>13. ASSUME TickInsert PROVE IInv'
  <2>1. \A u : InQueue(u)' <=> InQueue(u)
    BY <1>13, QueueUnchanged DEF TickInsert, EnqueueInsert
  <2>2. PICK t \in Heartbeats : EnqueueInsert(t) /\ ticker' = [pc |-> "send", task |-> t]
    BY <1>13 DEF TickInsert
  <2>3. ~InQueue(t) /\ worker.task # t /\ resumeApprovalID[t] = NoApproval
    BY <2>2, UnbornIsNowhere, TaskConstants DEF EnqueueInsert
  <2>4. status' = [status EXCEPT ![t] = "queued"] /\ status[t] = "unborn"
        /\ UNCHANGED <<approvalRequestID, resumeApprovalID, queue, worker, record, beat, request>>
    BY <1>13, <2>2 DEF TickInsert, EnqueueInsert, guard
  <2>5. ticker'.pc = "send" /\ ticker'.task = t
    BY <2>2
  <2>6. QueuedAtMostOnce' /\ NilContextNeverRead' /\ PendingOwnsItsApproval' /\ HeartbeatNotWedged'
        /\ SendersHoldNewTasks' /\ QueuedTasksAreKnown' /\ WorkerHoldsItsTask'
        /\ ResumesAreApproved' /\ AskedIsFresh'
    BY <2>1, <2>3, <2>4, <2>5, TaskConstants, SMTT(30) DEF IInv, TypeOK,
      QueuedAtMostOnce, NilContextNeverRead, PendingOwnsItsApproval, WaitingFor,
        HeartbeatNotWedged, SendersHoldNewTasks, Sending, QueuedTasksAreKnown,
        WorkerHoldsItsTask, ResumesAreApproved, AskedIsFresh, store, guard, beat
  <2> QED BY <1>0, <2>6 DEF IInv
<1>14. ASSUME TickSend PROVE IInv'
  <2>1. PICK t \in Heartbeats : /\ t = ticker.task /\ status[t] = "queued"
                               /\ ~InQueue(t) /\ worker.task # t /\ t \in Tasks
    BY <1>14, TaskConstants DEF TickSend, IInv, SendersHoldNewTasks
  <2>2. ticker.pc = "send" /\ ticker'.pc \in {"idle", "skip"} /\ UNCHANGED <<worker, record, beat, request>>
    BY <1>14 DEF TickSend, TickerIdle, guard
  <2>3. CASE EnqueueSend(t)
    <3>1. NoRepeats(queue') /\ \A u : InQueue(u)' <=> InQueue(u) \/ u = t
      BY <2>1, <2>3, SendStep DEF IInv, EnqueueSend
    <3>2. UNCHANGED <<status, approvalRequestID, resumeApprovalID>>
      BY <2>3 DEF EnqueueSend
    <3>3. QueuedAtMostOnce' /\ NilContextNeverRead' /\ PendingOwnsItsApproval' /\ HeartbeatNotWedged'
        /\ SendersHoldNewTasks' /\ QueuedTasksAreKnown' /\ WorkerHoldsItsTask'
        /\ ResumesAreApproved' /\ AskedIsFresh'
      BY <2>1, <2>2, <3>1, <3>2, TaskConstants, SMTT(30) DEF IInv, TypeOK,
        QueuedAtMostOnce, NilContextNeverRead, PendingOwnsItsApproval, WaitingFor,
        HeartbeatNotWedged, SendersHoldNewTasks, Sending, QueuedTasksAreKnown,
        WorkerHoldsItsTask, ResumesAreApproved, AskedIsFresh, store, guard, beat
    <3> QED BY <1>0, <3>3 DEF IInv
  <2>4. EnqueueFull(t) /\ ticker' = [TickerIdle EXCEPT !.pc = "skip"] => IInv'
    <3> SUFFICES ASSUME EnqueueFull(t), ticker' = [TickerIdle EXCEPT !.pc = "skip"] PROVE IInv'
      OBVIOUS
    <3>1. \A u : InQueue(u)' <=> InQueue(u)
      BY QueueUnchanged DEF EnqueueFull
    <3>2. /\ status' = [status EXCEPT ![t] = "dropped"] /\ ticker'.pc = "skip"
          /\ UNCHANGED <<approvalRequestID, resumeApprovalID, queue>>
      BY DEF EnqueueFull, TickerIdle
    <3>3. QueuedAtMostOnce' /\ NilContextNeverRead' /\ PendingOwnsItsApproval' /\ HeartbeatNotWedged'
        /\ SendersHoldNewTasks' /\ QueuedTasksAreKnown' /\ WorkerHoldsItsTask'
        /\ ResumesAreApproved' /\ AskedIsFresh'
      BY <2>1, <2>2, <3>1, <3>2, TaskConstants, SMTT(30) DEF Finished, IInv, TypeOK,
        QueuedAtMostOnce, NilContextNeverRead, PendingOwnsItsApproval, WaitingFor,
        HeartbeatNotWedged, SendersHoldNewTasks, Sending, QueuedTasksAreKnown,
        WorkerHoldsItsTask, ResumesAreApproved, AskedIsFresh, store, guard, beat
    <3> QED BY <1>0, <3>3 DEF IInv
  <2> QED BY <1>14, <2>1, <2>3, <2>4 DEF TickSend
<1>15. ASSUME TickSkip PROVE IInv'
  <2>1. \A u : InQueue(u)' <=> InQueue(u)
    BY <1>15, QueueUnchanged DEF TickSkip, store, EndSkipped
  <2>2. QueuedAtMostOnce' /\ NilContextNeverRead' /\ PendingOwnsItsApproval' /\
        HeartbeatNotWedged' /\ SendersHoldNewTasks' /\ QueuedTasksAreKnown' /\
        WorkerHoldsItsTask' /\ ResumesAreApproved' /\ AskedIsFresh'
    BY <1>15, <2>1, TaskConstants, SMTT(30) DEF TickSkip, IInv, TypeOK, QueuedAtMostOnce,
      NilContextNeverRead, PendingOwnsItsApproval, WaitingFor, HeartbeatNotWedged,
      SendersHoldNewTasks, Sending, QueuedTasksAreKnown, WorkerHoldsItsTask,
      ResumesAreApproved, AskedIsFresh, EndSkipped, TickerIdle, store, guard, beat
  <2> QED BY <1>0, <2>2 DEF IInv
<1>16. ASSUME WorkerNext PROVE IInv'
  <2>1. PICK t \in Tasks : /\ t = Head(queue) /\ InQueue(t) /\ NoRepeats(queue')
                          /\ \A u : InQueue(u)' <=> InQueue(u) /\ u # t
    BY <1>16, ReceiveStep DEF IInv
  <2>2. /\ worker.pc = "next" /\ worker'.pc = "start" /\ worker'.task = t
        /\ worker'.resume = resumeApprovalID[t]
        /\ UNCHANGED <<status, approvalRequestID, resumeApprovalID, record, beat, ticker, request>>
    BY <1>16, <2>1 DEF WorkerNext, WorkerIdle, guard
  <2>3. QueuedAtMostOnce' /\ NilContextNeverRead' /\ PendingOwnsItsApproval' /\ HeartbeatNotWedged'
        /\ SendersHoldNewTasks' /\ QueuedTasksAreKnown' /\ WorkerHoldsItsTask'
        /\ ResumesAreApproved' /\ AskedIsFresh'
    BY <2>1, <2>2, TaskConstants, SMTT(30) DEF IInv, TypeOK,
      QueuedAtMostOnce, NilContextNeverRead, PendingOwnsItsApproval, WaitingFor,
        HeartbeatNotWedged, SendersHoldNewTasks, Sending, QueuedTasksAreKnown,
        WorkerHoldsItsTask, ResumesAreApproved, AskedIsFresh, store, guard, beat
  <2> QED BY <1>0, <2>3 DEF IInv
<1>17. ASSUME WorkerStart PROVE IInv'
  <2>1. \A u : InQueue(u)' <=> InQueue(u)
    BY <1>17, QueueUnchanged DEF WorkerStart
  <2>2. PICK t \in Tasks : t = worker.task /\ ~InQueue(t)
    BY <1>17 DEF WorkerStart, IInv, TypeOK, WorkerStates, WorkerHoldsItsTask, QueuedAtMostOnce
  <2>3. /\ worker.pc = "start" /\ worker'.task = t /\ worker'.resume = worker.resume
        /\ worker'.pc = IF worker.resume = NoApproval THEN "run" ELSE "resume"
        /\ worker'.hasCtx = (worker.resume = NoApproval)
        /\ status' = [status EXCEPT ![t] = "running"]
        /\ resumeApprovalID' = [resumeApprovalID EXCEPT ![t] = NoApproval]
        /\ UNCHANGED <<approvalRequestID, queue, record, beat, ticker, request>>
    BY <1>17, <2>2 DEF WorkerStart, IInv, TypeOK, WorkerStates, guard
  <2>4. worker'.pc \in {"run", "resume"} /\ t # NoTask
    BY <2>3, TaskConstants
  <2>5. QueuedAtMostOnce' /\ NilContextNeverRead' /\ HeartbeatNotWedged'
    BY <2>1, <2>2, <2>3, <2>4 DEF IInv, QueuedAtMostOnce, NilContextNeverRead, HeartbeatNotWedged, beat
  <2>6. PendingOwnsItsApproval' /\ AskedIsFresh'
    BY <2>2, <2>3, <2>4 DEF IInv, TypeOK, PendingOwnsItsApproval, AskedIsFresh, WaitingFor
  <2>7. SendersHoldNewTasks' /\ QueuedTasksAreKnown'
    BY <2>1, <2>2, <2>3, <2>4 DEF IInv, TypeOK, SendersHoldNewTasks, Sending, QueuedTasksAreKnown
  <2>8. WorkerHoldsItsTask'
    BY <2>2, <2>3, <2>4 DEF IInv, TypeOK, WorkerHoldsItsTask
  <2>9. ResumesAreApproved'
    BY <2>2, <2>3 DEF IInv, TypeOK, ResumesAreApproved
  <2> QED BY <1>0, <2>5, <2>6, <2>7, <2>8, <2>9 DEF IInv
<1>18. ASSUME EngineResume PROVE IInv'
  <2>1. \A u : InQueue(u)' <=> InQueue(u)
    BY <1>18, QueueUnchanged DEF EngineResume, store
  <2>2. QueuedAtMostOnce' /\ NilContextNeverRead' /\ PendingOwnsItsApproval' /\
        HeartbeatNotWedged' /\ SendersHoldNewTasks' /\ QueuedTasksAreKnown' /\
        WorkerHoldsItsTask' /\ ResumesAreApproved' /\ AskedIsFresh'
    BY <1>18, <2>1, TaskConstants, SMTT(30) DEF EngineResume, IInv, TypeOK,
      QueuedAtMostOnce, NilContextNeverRead, PendingOwnsItsApproval, WaitingFor,
      HeartbeatNotWedged, SendersHoldNewTasks, Sending, QueuedTasksAreKnown,
      WorkerHoldsItsTask, ResumesAreApproved, AskedIsFresh, store, guard, beat
  <2> QED BY <1>0, <2>2 DEF IInv
<1>19. ASSUME NEW a \in Approvals, EngineAsk(a) PROVE IInv'
  <2>1. \A u : InQueue(u)' <=> InQueue(u)
    BY <1>19, QueueUnchanged DEF EngineAsk, store
  <2>2. QueuedAtMostOnce' /\ NilContextNeverRead' /\ PendingOwnsItsApproval' /\
        HeartbeatNotWedged' /\ SendersHoldNewTasks' /\ QueuedTasksAreKnown' /\
        WorkerHoldsItsTask' /\ ResumesAreApproved' /\ AskedIsFresh'
    BY <1>19, <2>1, TaskConstants, SMTT(30) DEF EngineAsk, IInv, TypeOK, QueuedAtMostOnce,
      NilContextNeverRead, PendingOwnsItsApproval, WaitingFor, HeartbeatNotWedged,
      SendersHoldNewTasks, Sending, QueuedTasksAreKnown, WorkerHoldsItsTask,
      ResumesAreApproved, AskedIsFresh, store, guard, beat
  <2> QED BY <1>0, <2>2 DEF IInv
<1>20. ASSUME EngineReturn PROVE IInv'
  <2>1. \A u : InQueue(u)' <=> InQueue(u)
    BY <1>20, QueueUnchanged DEF EngineReturn, store
  <2>2. QueuedAtMostOnce' /\ NilContextNeverRead' /\ PendingOwnsItsApproval' /\
        HeartbeatNotWedged' /\ SendersHoldNewTasks' /\ QueuedTasksAreKnown' /\
        WorkerHoldsItsTask' /\ ResumesAreApproved' /\ AskedIsFresh'
    BY <1>20, <2>1, TaskConstants, SMTT(30) DEF EngineReturn, IInv, TypeOK,
      QueuedAtMostOnce, NilContextNeverRead, PendingOwnsItsApproval, WaitingFor,
      HeartbeatNotWedged, SendersHoldNewTasks, Sending, QueuedTasksAreKnown,
      WorkerHoldsItsTask, ResumesAreApproved, AskedIsFresh, store, guard, beat
  <2> QED BY <1>0, <2>2 DEF IInv
<1>21. ASSUME EngineError PROVE IInv'
  <2>1. \A u : InQueue(u)' <=> InQueue(u)
    BY <1>21, QueueUnchanged DEF EngineError, store
  <2>2. QueuedAtMostOnce' /\ NilContextNeverRead' /\ PendingOwnsItsApproval' /\
        HeartbeatNotWedged' /\ SendersHoldNewTasks' /\ QueuedTasksAreKnown' /\
        WorkerHoldsItsTask' /\ ResumesAreApproved' /\ AskedIsFresh'
    BY <1>21, <2>1, TaskConstants, SMTT(30) DEF EngineError, IInv, TypeOK,
      QueuedAtMostOnce, NilContextNeverRead, PendingOwnsItsApproval, WaitingFor,
      HeartbeatNotWedged, SendersHoldNewTasks, Sending, QueuedTasksAreKnown,
      WorkerHoldsItsTask, ResumesAreApproved, AskedIsFresh, store, guard, beat
  <2> QED BY <1>0, <2>2 DEF IInv
<1>22. ASSUME WorkerPause PROVE IInv'
  <2>1. \A u : InQueue(u)' <=> InQueue(u)
    BY <1>22, QueueUnchanged DEF WorkerPause, store, EndFailure
  <2>2. QueuedAtMostOnce' /\ NilContextNeverRead' /\ PendingOwnsItsApproval' /\
        HeartbeatNotWedged' /\ SendersHoldNewTasks' /\ QueuedTasksAreKnown' /\
        WorkerHoldsItsTask' /\ ResumesAreApproved' /\ AskedIsFresh'
    BY <1>22, <2>1, TaskConstants, SMTT(30) DEF WorkerPause, IInv, TypeOK,
      QueuedAtMostOnce, NilContextNeverRead, PendingOwnsItsApproval, WaitingFor,
      HeartbeatNotWedged, SendersHoldNewTasks, Sending, QueuedTasksAreKnown,
      WorkerHoldsItsTask, ResumesAreApproved, AskedIsFresh, EndFailure, store, guard, beat
  <2> QED BY <1>0, <2>2 DEF IInv
<1>23. ASSUME WorkerPark PROVE IInv'
  <2>1. \A u : InQueue(u)' <=> InQueue(u)
    BY <1>23, QueueUnchanged DEF WorkerPark, store
  <2>2. QueuedAtMostOnce' /\ NilContextNeverRead' /\ PendingOwnsItsApproval' /\
        HeartbeatNotWedged' /\ SendersHoldNewTasks' /\ QueuedTasksAreKnown' /\
        WorkerHoldsItsTask' /\ ResumesAreApproved' /\ AskedIsFresh'
    BY <1>23, <2>1, TaskConstants, SMTT(30) DEF WorkerPark, IInv, TypeOK,
      QueuedAtMostOnce, NilContextNeverRead, PendingOwnsItsApproval, WaitingFor,
      HeartbeatNotWedged, SendersHoldNewTasks, Sending, QueuedTasksAreKnown,
      WorkerHoldsItsTask, ResumesAreApproved, AskedIsFresh, WorkerIdle, store, guard, beat
  <2> QED BY <1>0, <2>2 DEF IInv
<1>24. ASSUME WorkerFinish PROVE IInv'
  <2>1. \A u : InQueue(u)' <=> InQueue(u)
    BY <1>24, QueueUnchanged DEF WorkerFinish
  <2>2. PICK t \in Tasks : t = worker.task /\ ~InQueue(t)
    BY <1>24 DEF WorkerFinish, IInv, TypeOK, WorkerStates, WorkerHoldsItsTask, QueuedAtMostOnce
  <2>3. PICK s \in Finished : status' = [status EXCEPT ![t] = s]
    BY <1>24, <2>2 DEF WorkerFinish
  <2>4. /\ worker.pc \in {"done", "error"} /\ worker'.pc \in {"endOk", "endErr"}
        /\ worker'.task = t /\ worker'.resume = worker.resume
        /\ UNCHANGED <<approvalRequestID, resumeApprovalID, queue, record, beat, ticker, request>>
    BY <1>24, <2>2 DEF WorkerFinish, IInv, TypeOK, WorkerStates, guard
  <2>5. QueuedAtMostOnce' /\ NilContextNeverRead' /\ PendingOwnsItsApproval' /\ HeartbeatNotWedged'
        /\ SendersHoldNewTasks' /\ QueuedTasksAreKnown' /\ WorkerHoldsItsTask'
        /\ ResumesAreApproved' /\ AskedIsFresh'
    BY <2>1, <2>2, <2>3, <2>4, TaskConstants, SMTT(30) DEF Finished, IInv, TypeOK,
      QueuedAtMostOnce, NilContextNeverRead, PendingOwnsItsApproval, WaitingFor,
        HeartbeatNotWedged, SendersHoldNewTasks, Sending, QueuedTasksAreKnown,
        WorkerHoldsItsTask, ResumesAreApproved, AskedIsFresh, store, guard, beat
  <2> QED BY <1>0, <2>5 DEF IInv
<1>25. ASSUME WorkerEnd PROVE IInv'
  <2>1. \A u : InQueue(u)' <=> InQueue(u)
    BY <1>25, QueueUnchanged DEF WorkerEnd, store, EndFailure, EndSuccess
  <2>2. QueuedAtMostOnce' /\ NilContextNeverRead' /\ PendingOwnsItsApproval' /\
        HeartbeatNotWedged' /\ SendersHoldNewTasks' /\ QueuedTasksAreKnown' /\
        WorkerHoldsItsTask' /\ ResumesAreApproved' /\ AskedIsFresh'
    BY <1>25, <2>1, TaskConstants, SMTT(30) DEF WorkerEnd, IInv, TypeOK, QueuedAtMostOnce,
      NilContextNeverRead, PendingOwnsItsApproval, WaitingFor, HeartbeatNotWedged,
      SendersHoldNewTasks, Sending, QueuedTasksAreKnown, WorkerHoldsItsTask,
      ResumesAreApproved, AskedIsFresh, EndFailure, EndSuccess, WorkerIdle, store, guard,
      beat
  <2> QED BY <1>0, <2>2 DEF IInv
<1>26. ASSUME Restart PROVE IInv'
  <2>1. /\ queue' = <<>> /\ worker' = WorkerIdle /\ ticker' = TickerIdle /\ hbRunning' = FALSE
        /\ \A r \in Requests : request'[r].pc = "idle"
        /\ \A t \in Tasks : status'[t] \in {"unborn", "dropped"} /\ resumeApprovalID'[t] = NoApproval
        /\ UNCHANGED record
    BY <1>26 DEF Restart, RequestIdle, guard
  <2>2. NoRepeats(queue') /\ \A u : ~InQueue(u)'
    BY <2>1 DEF NoRepeats, InQueue, Occurs
  <2>3. QueuedAtMostOnce' /\ NilContextNeverRead' /\ PendingOwnsItsApproval' /\ HeartbeatNotWedged'
        /\ SendersHoldNewTasks' /\ QueuedTasksAreKnown' /\ WorkerHoldsItsTask'
        /\ ResumesAreApproved' /\ AskedIsFresh'
    BY <2>1, <2>2, TaskConstants, SMTT(30) DEF WorkerIdle, TickerIdle, IInv, TypeOK,
      QueuedAtMostOnce, NilContextNeverRead, PendingOwnsItsApproval, WaitingFor,
        HeartbeatNotWedged, SendersHoldNewTasks, Sending, QueuedTasksAreKnown,
        WorkerHoldsItsTask, ResumesAreApproved, AskedIsFresh, store, guard, beat
  <2> QED BY <1>0, <2>3 DEF IInv
<1>27. CASE UNCHANGED vars
  BY <1>27
  DEF vars, store, guard, beat, IInv, TypeOK, QueuedAtMostOnce, NilContextNeverRead,
      PendingOwnsItsApproval, WaitingFor, HeartbeatNotWedged, SendersHoldNewTasks, Sending,
      QueuedTasksAreKnown, WorkerHoldsItsTask, ResumesAreApproved, AskedIsFresh, InQueue
<1> QED
  BY <1>1, <1>2, <1>3, <1>4, <1>5, <1>6, <1>7, <1>8, <1>9, <1>10, <1>11, <1>12, <1>13,
    <1>14, <1>15, <1>16, <1>17, <1>18, <1>19, <1>20, <1>21, <1>22, <1>23, <1>24, <1>25,
    <1>26, <1>27 DEF Next, HandlerStart, HandlerStep, TickerStep, WorkerStep, EngineStep

(* The invariant holds in every reachable state of every daemon.           *)
THEOREM Invariance == Spec => []IInv
  BY InvInit, InvStep, PTL DEF Spec

(* TaskStore, worker, ticker and handlers keep their variables in type.    *)
THEOREM TypeCorrect == Spec => []TypeOK
<1>1. IInv => TypeOK BY DEF IInv
<1> QED BY <1>1, Invariance, PTL

(* A task is never queued twice, nor queued while the worker has it.       *)
THEOREM SingleEntry == Spec => []QueuedAtMostOnce
<1>1. IInv => QueuedAtMostOnce BY DEF IInv
<1> QED BY <1>1, Invariance, PTL

(* The worker never reads the nil context of an unapproved resume.         *)
THEOREM NoNilContext == Spec => []NilContextNeverRead
<1>1. IInv => NilContextNeverRead BY DEF IInv
<1> QED BY <1>1, Invariance, PTL

(* A parked task has an approval on disk that no other task waits for.     *)
THEOREM OwnApproval == Spec => []PendingOwnsItsApproval
<1>1. IInv => PendingOwnsItsApproval BY DEF IInv
<1> QED BY <1>1, Invariance, PTL

(* The heartbeat flag is set only while somebody is left to clear it.      *)
THEOREM HeartbeatFlag == Spec => []HeartbeatNotWedged
<1>1. IInv => HeartbeatNotWedged BY DEF IInv
<1> QED BY <1>1, Invariance, PTL

(* How one step may change the status of one task: every action but        *)
(* Restart names the status it starts from.                                *)
LEMMA StatusStep ==
    ASSUME IInv, [Next]_vars, NEW t \in Tasks, status'[t] # status[t]
    PROVE  \/ status'[t] = "dropped"
           \/ status[t] = "unborn" /\ status'[t] = "queued"
           \/ status[t] = "pending" /\ status'[t] = "failed"
           \/ status'[t] = "running" /\ worker.pc = "start" /\ worker.task = t
           \/ status[t] = "running" /\ status'[t] \in Finished \cup {"pending"}
<1>0. status \in [Tasks -> Statuses] /\ worker \in WorkerStates BY DEF IInv, TypeOK
<1>1. ASSUME NEW r \in Requests, SubmitInsert(r)
      PROVE status[t] = "unborn" /\ status'[t] = "queued"
  BY <1>0, <1>1 DEF SubmitInsert, EnqueueInsert
<1>2. ASSUME NEW r \in Requests, SubmitSend(r) PROVE status'[t] = "dropped"
  BY <1>0, <1>2 DEF SubmitSend, EnqueueSend, EnqueueFull
<1>3. ASSUME NEW r \in Requests, DenyFailPending(r)
      PROVE status[t] = "pending" /\ status'[t] = "failed"
  BY <1>0, <1>3 DEF DenyFailPending, WaitingFor
<1>4. ASSUME TickInsert PROVE status[t] = "unborn" /\ status'[t] = "queued"
  BY <1>0, <1>4 DEF TickInsert, EnqueueInsert
<1>5. ASSUME TickSend PROVE status'[t] = "dropped"
  BY <1>0, <1>5 DEF TickSend, EnqueueSend, EnqueueFull
<1>6. ASSUME WorkerStart
      PROVE status'[t] = "running" /\ worker.pc = "start" /\ worker.task = t
  BY <1>0, <1>6 DEF WorkerStart
<1>7. ASSUME WorkerPark PROVE status[t] = "running" /\ status'[t] = "pending"
  <2>1. worker.hasCtx /\ status' = [status EXCEPT ![worker.task] = "pending"]
    BY <1>7 DEF WorkerPark
  <2>2. status[worker.task] = "running" BY <1>7 DEF WorkerPark, IInv, WorkerHoldsItsTask
  <2> QED BY <1>0, <2>1, <2>2
<1>8. ASSUME WorkerFinish PROVE status[t] = "running" /\ status'[t] \in Finished
  <2>1. PICK s \in Finished : status' = [status EXCEPT ![worker.task] = s]
    BY <1>8 DEF WorkerFinish
  <2>2. status[worker.task] = "running" BY <1>8 DEF WorkerFinish, IInv, WorkerHoldsItsTask
  <2> QED BY <1>0, <2>1, <2>2
<1>9. ASSUME Restart PROVE status'[t] = "dropped"
  BY <1>9 DEF Restart
<1>10. CASE UNCHANGED status
  BY <1>10
<1> QED
  BY <1>1, <1>2, <1>3, <1>4, <1>5, <1>6, <1>7, <1>8, <1>9, <1>10
  DEF Next, HandlerStart, HandlerStep, TickerStep, WorkerStep, EngineStep, vars, store, guard,
    DenyResolve, DenyCancel, ResumeLookup, ResumeEnqueue, Approve, ApprovalTimeout, TaskTimeout,
    TickStart, TickBuildError, TickSkip, WorkerNext, EngineResume, EngineAsk, EngineReturn,
    EngineError, WorkerPause, WorkerEnd

(* A task parked on a denied approval never runs again, in whatever order  *)
(* the denial, the parking and any resume of the task happened.            *)
THEOREM DenialHolds == Spec => DeniedNeverRuns
<1>1. ASSUME IInv, [Next]_vars, NEW t \in Tasks, status[t] = "pending",
             record[approvalRequestID[t]] = "denied"
      PROVE  status'[t] \in {"pending", "failed", "dropped"}
  <2>1. ~(worker.pc = "start" /\ worker.task = t)
    BY <1>1 DEF IInv, QueuedTasksAreKnown, ResumesAreApproved
  <2> QED BY <1>1, <2>1, StatusStep
<1>2. IInv /\ [Next]_vars =>
        [\A t \in Tasks :
          (status[t] = "pending" /\ record[approvalRequestID[t]] = "denied")
             => status'[t] \in {"pending", "failed", "dropped"}]_vars
  BY <1>1
<1> QED BY <1>2, Invariance, PTL DEF Spec, DeniedNeverRuns

(* A done or canceled task is never run, failed or parked again.           *)
THEOREM Finality == Spec => CompletedIsFinal
<1>1. ASSUME IInv, [Next]_vars, NEW t \in Tasks, status[t] \in {"done", "canceled"}
      PROVE  status'[t] \in {status[t], "dropped"}
  <2>1. ~(worker.pc = "start" /\ worker.task = t)
    BY <1>1 DEF IInv, QueuedTasksAreKnown
  <2> QED BY <1>1, <2>1, StatusStep
<1>2. IInv /\ [Next]_vars =>
        [\A t \in Tasks : status[t] \in {"done", "canceled"}
          => status'[t] \in {status[t], "dropped"}]_vars
  BY <1>1
<1> QED BY <1>2, Invariance, PTL DEF Spec, CompletedIsFinal
------------------------------------------------------------------------------
USE NoProcAssumption, NoOpAssumption DEF Contents, Holding, EmptyTemp, Outcomes

(* A call that returns leaves the calls of the other processes, and the lock *)
(* one of them may hold, as they are.                                        *)
LEMMA ReturnKeepsIInv ==
  ASSUME StoreInv, NEW p \in Procs, pc[p] # "idle",
         NEW result \in {"ok", "failed", "lost"}, Return(p, result),
         survivors' \in {survivors, {file}}, UNCHANGED <<file, temp>>
  PROVE  StoreInv'
<1>0. StoreTypeOK /\ Exclusive /\ SnapshotIsCurrent /\ CallsArePending /\ CallsAreDistinct
      /\ NewOpsAreAbsent
  BY DEF StoreInv
<1>1. call[p] \in Ops /\ outcome[call[p]] = "pending"
  BY <1>0 DEF CallsArePending
<1>2. /\ pc' = [pc EXCEPT ![p] = "idle"]
      /\ call' = [call EXCEPT ![p] = NoOp]
      /\ outcome' = [outcome EXCEPT ![call[p]] = result]
      /\ lock' = IF lock = p THEN NoProc ELSE lock
  BY DEF Return
<1>3. StoreTypeOK'
  <2>1. pc' \in [Procs -> {"idle", "lock"} \union Holding] /\ lock' \in Procs \union {NoProc}
    BY <1>0, <1>2 DEF StoreTypeOK
  <2>2. call' \in [Procs -> Ops \union {NoOp}]
    BY <1>0, <1>2 DEF StoreTypeOK
  <2>3. outcome' \in [Ops -> Outcomes]
    BY <1>0, <1>1, <1>2 DEF StoreTypeOK
  <2>4. file' \in Contents /\ survivors' \in SUBSET Contents
        /\ temp' \in [Procs -> [content : Contents, synced : BOOLEAN]]
    BY <1>0 DEF StoreTypeOK
  <2>5. QED
    BY <2>1, <2>2, <2>3, <2>4 DEF StoreTypeOK
<1>4. \A q \in Procs : pc'[q] # "idle" => /\ q # p /\ pc'[q] = pc[q] /\ call'[q] = call[q]
                                          /\ temp'[q] = temp[q]
  BY <1>0, <1>2 DEF StoreTypeOK
<1>5. Exclusive'
  BY <1>0, <1>2, <1>4 DEF Exclusive
<1>6. SnapshotIsCurrent'
  BY <1>0, <1>4 DEF SnapshotIsCurrent
<1>7. CallsArePending'
  <2> SUFFICES ASSUME NEW q \in Procs, pc'[q] # "idle"
               PROVE  /\ call'[q] \in Ops /\ outcome'[call'[q]] = "pending"
                      /\ pc'[q] # "renamed" => call'[q] \notin file'
                      /\ pc'[q] = "renamed" => call'[q] \in file'
    BY DEF CallsArePending
  <2>1. call[q] # call[p]
    BY <1>0, <1>4 DEF CallsAreDistinct
  <2>2. QED
    BY <1>0, <1>1, <1>2, <1>4, <2>1 DEF CallsArePending, StoreTypeOK
<1>8. CallsAreDistinct'
  BY <1>0, <1>4 DEF CallsAreDistinct
<1>9. NewOpsAreAbsent'
  <2> SUFFICES ASSUME NEW op \in Ops, outcome'[op] = "new"
               PROVE  op \notin file' /\ \A v \in survivors' : op \notin v
    BY DEF NewOpsAreAbsent
  <2>1. outcome[op] = "new"
    BY <1>0, <1>1, <1>2 DEF StoreTypeOK
  <2>2. QED
    BY <1>0, <2>1 DEF NewOpsAreAbsent
<1>10. QED
  BY <1>3, <1>5, <1>6, <1>7, <1>8, <1>9 DEF StoreInv

(* A step of a process inside its call that moves on to the next place and   *)
(* may change its temporary file, which then is what the place requires.     *)
LEMMA AdvanceKeepsIInv ==
  ASSUME StoreInv, NEW p \in Procs, NEW next \in Holding \ {"renamed"}, NEW t,
         t \in [content : Contents, synced : BOOLEAN],
         pc[p] \in {"lock"} \union (Holding \ {"renamed"}),
         pc' = [pc EXCEPT ![p] = next],
         temp' = [temp EXCEPT ![p] = t],
         lock' = p, \/ lock = p \/ lock = NoProc,
         next = "mutate" => t.content = file,
         next \in {"written", "synced"} => t.content = file \union {call[p]},
         next = "synced" => t.synced,
         UNCHANGED <<file, survivors, call, outcome>>
  PROVE  StoreInv'
<1>0. StoreTypeOK /\ Exclusive /\ SnapshotIsCurrent /\ CallsArePending /\ CallsAreDistinct
      /\ NewOpsAreAbsent
  BY DEF StoreInv
<1>1. StoreTypeOK'
  BY <1>0 DEF StoreTypeOK
<1>2. pc'[p] = next /\ temp'[p] = t
  BY <1>0 DEF StoreTypeOK
<1>3. \A q \in Procs : q # p => pc'[q] = pc[q] /\ temp'[q] = temp[q]
  BY <1>0 DEF StoreTypeOK
<1>4. \A q \in Procs : q # p => pc[q] \notin Holding
  BY <1>0 DEF Exclusive
<1>5. Exclusive'
  BY <1>3, <1>4 DEF Exclusive
<1>6. SnapshotIsCurrent'
  BY <1>2, <1>3, <1>4 DEF SnapshotIsCurrent
<1>7. CallsArePending'
  BY <1>0, <1>2, <1>3 DEF CallsArePending
<1>8. CallsAreDistinct'
  BY <1>0, <1>2, <1>3 DEF CallsAreDistinct
<1>9. NewOpsAreAbsent'
  BY <1>0 DEF NewOpsAreAbsent
<1>10. QED
  BY <1>1, <1>5, <1>6, <1>7, <1>8, <1>9 DEF StoreInv

LEMMA BeginKeepsIInv ==
  ASSUME StoreInv, NEW p \in Procs, Begin(p)
  PROVE  StoreInv'
<1>0. StoreTypeOK /\ Exclusive /\ SnapshotIsCurrent /\ CallsArePending /\ CallsAreDistinct
      /\ NewOpsAreAbsent
  BY DEF StoreInv
<1>1. PICK op \in Ops : /\ outcome[op] = "new"
                        /\ call' = [call EXCEPT ![p] = op]
                        /\ outcome' = [outcome EXCEPT ![op] = "pending"]
  BY DEF Begin
<1>2. /\ pc[p] = "idle" /\ pc' = [pc EXCEPT ![p] = "lock"]
      /\ UNCHANGED <<lock, file, survivors, temp>>
  BY DEF Begin
<1>3. StoreTypeOK'
  BY <1>0, <1>1, <1>2 DEF StoreTypeOK
<1>4. pc'[p] = "lock" /\ call'[p] = op
  BY <1>0, <1>1, <1>2 DEF StoreTypeOK
<1>5. \A q \in Procs : q # p => pc'[q] = pc[q] /\ call'[q] = call[q]
  BY <1>0, <1>1, <1>2 DEF StoreTypeOK
<1>6. \A q \in Procs : pc[q] # "idle" => call[q] # op
  BY <1>0, <1>1 DEF CallsArePending
<1>7. Exclusive'
  BY <1>0, <1>2, <1>4, <1>5 DEF Exclusive
<1>8. SnapshotIsCurrent'
  BY <1>0, <1>2, <1>4, <1>5 DEF SnapshotIsCurrent
<1>9. CallsArePending'
  <2> SUFFICES ASSUME NEW q \in Procs, pc'[q] # "idle"
               PROVE  /\ call'[q] \in Ops /\ outcome'[call'[q]] = "pending"
                      /\ pc'[q] # "renamed" => call'[q] \notin file'
                      /\ pc'[q] = "renamed" => call'[q] \in file'
    BY DEF CallsArePending
  <2>1. CASE q = p
    BY <1>0, <1>1, <1>2, <1>4, <2>1 DEF NewOpsAreAbsent, StoreTypeOK
  <2>2. CASE q # p
    BY <1>0, <1>1, <1>2, <1>5, <1>6, <2>2 DEF CallsArePending, StoreTypeOK
  <2>3. QED
    BY <2>1, <2>2
<1>10. CallsAreDistinct'
  BY <1>0, <1>4, <1>5, <1>6 DEF CallsAreDistinct
<1>11. NewOpsAreAbsent'
  BY <1>0, <1>1, <1>2 DEF NewOpsAreAbsent, StoreTypeOK
<1>12. QED
  BY <1>3, <1>7, <1>8, <1>9, <1>10, <1>11 DEF StoreInv

LEMMA RenameKeepsIInv ==
  ASSUME StoreInv, NEW p \in Procs, Rename(p)
  PROVE  StoreInv' /\ file' = file \union {call[p]} /\ survivors' = survivors \union {file'}
<1>0. StoreTypeOK /\ Exclusive /\ SnapshotIsCurrent /\ CallsArePending /\ CallsAreDistinct
      /\ NewOpsAreAbsent
  BY DEF StoreInv
<1>1. pc[p] = "synced" /\ pc' = [pc EXCEPT ![p] = "renamed"] /\ UNCHANGED <<lock, call, temp, outcome>>
  BY DEF Rename
<1>2. temp[p].content = file \union {call[p]} /\ temp[p].synced
  BY <1>0, <1>1 DEF SnapshotIsCurrent
<1>3. file' = file \union {call[p]} /\ survivors' = survivors \union {file'}
  BY <1>2 DEF Rename
<1>4. call[p] \in Ops /\ outcome[call[p]] = "pending"
  BY <1>0, <1>1 DEF CallsArePending
<1>5. StoreTypeOK'
  BY <1>0, <1>1, <1>3, <1>4 DEF StoreTypeOK
<1>6. pc'[p] = "renamed" /\ \A q \in Procs : q # p => pc'[q] = pc[q] /\ pc[q] \notin Holding
  BY <1>0, <1>1 DEF StoreTypeOK, Exclusive
<1>7. Exclusive'
  BY <1>0, <1>1, <1>6 DEF Exclusive
<1>8. SnapshotIsCurrent'
  BY <1>6 DEF SnapshotIsCurrent
<1>9. CallsArePending'
  <2> SUFFICES ASSUME NEW q \in Procs, pc'[q] # "idle"
               PROVE  /\ call'[q] \in Ops /\ outcome'[call'[q]] = "pending"
                      /\ pc'[q] # "renamed" => call'[q] \notin file'
                      /\ pc'[q] = "renamed" => call'[q] \in file'
    BY DEF CallsArePending
  <2>1. CASE q = p
    BY <1>1, <1>3, <1>4, <1>6, <2>1
  <2>2. CASE q # p
    <3>1. pc[q] # "idle" /\ pc[q] # "renamed" /\ call[q] # call[p]
      BY <1>0, <1>1, <1>6, <2>2 DEF CallsAreDistinct
    <3>2. QED
      BY <1>0, <1>1, <1>3, <1>6, <2>2, <3>1 DEF CallsArePending
  <2>3. QED
    BY <2>1, <2>2
<1>10. CallsAreDistinct'
  BY <1>0, <1>1, <1>6 DEF CallsAreDistinct
<1>11. NewOpsAreAbsent'
  BY <1>0, <1>1, <1>3, <1>4 DEF NewOpsAreAbsent
<1>12. QED
  BY <1>3, <1>5, <1>7, <1>8, <1>9, <1>10, <1>11 DEF StoreInv

LEMMA PowerLossKeepsIInv == StoreInv /\ PowerLoss => StoreInv'
<1> SUFFICES ASSUME StoreInv, PowerLoss PROVE StoreInv'
  OBVIOUS
<1>0. StoreTypeOK /\ NewOpsAreAbsent
  BY DEF StoreInv
<1>1. /\ file' \in survivors /\ survivors' = {file'} /\ lock' = NoProc /\ temp' = temp
      /\ pc' = [q \in Procs |-> "idle"] /\ call' = [q \in Procs |-> NoOp]
      /\ outcome' = [op \in Ops |-> IF outcome[op] = "pending" THEN "lost" ELSE outcome[op]]
  BY DEF PowerLoss
<1>2. StoreTypeOK'
  BY <1>0, <1>1 DEF StoreTypeOK
<1>3. \A q \in Procs : pc'[q] = "idle"
  BY <1>1
<1>4. Exclusive' /\ SnapshotIsCurrent' /\ CallsArePending' /\ CallsAreDistinct'
  BY <1>3 DEF Exclusive, SnapshotIsCurrent, CallsArePending, CallsAreDistinct
<1>5. NewOpsAreAbsent'
  BY <1>0, <1>1 DEF NewOpsAreAbsent, StoreTypeOK
<1>6. QED
  BY <1>2, <1>4, <1>5 DEF StoreInv

LEMMA StepKeepsIInv ==
  ASSUME StoreInv, NEW p \in Procs, Step(p) \/ Kill(p)
  PROVE  StoreInv'
<1>0. /\ StoreTypeOK /\ Exclusive /\ SnapshotIsCurrent /\ CallsArePending
  BY DEF StoreInv
<1>1. CASE Begin(p)
  BY <1>1, BeginKeepsIInv
<1>2. CASE LockFile(p)
  <2>1. temp' = [temp EXCEPT ![p] = temp[p]]
    BY <1>0, <1>2 DEF LockFile, StoreTypeOK
  <2>2. temp[p] \in [content : Contents, synced : BOOLEAN]
    BY <1>0 DEF StoreTypeOK
  <2>3. QED
    BY <1>2, <2>1, <2>2, AdvanceKeepsIInv DEF LockFile
<1>3. CASE LockFails(p)
  BY <1>3, ReturnKeepsIInv DEF LockFails
<1>4. CASE ReadIndex(p)
  <2> DEFINE t == [content |-> file, synced |-> FALSE]
  <2>1. t \in [content : Contents, synced : BOOLEAN]
    BY <1>0 DEF StoreTypeOK
  <2>2. lock = p
    BY <1>0, <1>4 DEF ReadIndex, Exclusive
  <2>3. QED
    BY <1>4, <2>1, <2>2, AdvanceKeepsIInv DEF ReadIndex
<1>5. CASE WriteTemp(p)
  <2> DEFINE t == [content |-> temp[p].content \union {call[p]}, synced |-> FALSE]
  <2>1. t \in [content : Contents, synced : BOOLEAN]
    BY <1>0, <1>5 DEF StoreTypeOK, WriteTemp, CallsArePending
  <2>2. lock = p /\ temp[p].content = file
    BY <1>0, <1>5 DEF WriteTemp, Exclusive, SnapshotIsCurrent
  <2>3. temp' = [temp EXCEPT ![p] = t]
    BY <1>0, <1>5 DEF StoreTypeOK, WriteTemp
  <2>4. QED
    BY <1>5, <2>1, <2>2, <2>3, AdvanceKeepsIInv DEF WriteTemp
<1>6. CASE SyncTemp(p)
  <2> DEFINE t == [temp[p] EXCEPT !.synced = TRUE]
  <2>1. temp[p] \in [content : Contents, synced : BOOLEAN]
    BY <1>0 DEF StoreTypeOK
  <2>2. /\ t \in [content : Contents, synced : BOOLEAN]
        /\ t.content = temp[p].content /\ t.synced = TRUE
    BY <2>1
  <2>3. lock = p /\ temp[p].content = file \union {call[p]}
    BY <1>0, <1>6 DEF SyncTemp, Exclusive, SnapshotIsCurrent
  <2>4. temp' = [temp EXCEPT ![p] = t]
    BY <1>6 DEF SyncTemp
  <2> HIDE DEF t
  <2>5. QED
    BY <1>6, <2>2, <2>3, <2>4, AdvanceKeepsIInv DEF SyncTemp
<1>7. CASE Rename(p)
  BY <1>7, RenameKeepsIInv
<1>8. CASE SyncDir(p)
  BY <1>8, ReturnKeepsIInv DEF SyncDir
<1>9. CASE StepFails(p)
  BY <1>9, ReturnKeepsIInv DEF StepFails
<1>10. CASE Kill(p)
  BY <1>10, ReturnKeepsIInv DEF Kill
<1>11. QED
  BY <1>1, <1>2, <1>3, <1>4, <1>5, <1>6, <1>7, <1>8, <1>9, <1>10 DEF Step

(* The invariant of the store holds in every state: whoever is between its   *)
(* read and its rename holds the lock file, what it is about to write is what *)
(* is there plus its own entry, and calls in progress are distinct.          *)
THEOREM StoreInvariant == StoreSpec => []StoreInv
<1>1. StoreInit => StoreInv
  <2> SUFFICES ASSUME StoreInit PROVE StoreInv
    OBVIOUS
  <2>1. StoreTypeOK
    BY DEF StoreInit, StoreTypeOK
  <2>2. Exclusive /\ SnapshotIsCurrent /\ CallsArePending /\ CallsAreDistinct /\ NewOpsAreAbsent
    BY DEF StoreInit, Exclusive, SnapshotIsCurrent, CallsArePending, CallsAreDistinct, NewOpsAreAbsent
  <2>3. QED
    BY <2>1, <2>2 DEF StoreInv
<1>2. StoreInv /\ [StoreNext]_fvars => StoreInv'
  <2> SUFFICES ASSUME StoreInv, [StoreNext]_fvars PROVE StoreInv'
    OBVIOUS
  <2>1. CASE StoreNext
    BY <2>1, StepKeepsIInv, PowerLossKeepsIInv DEF StoreNext
  <2>2. CASE UNCHANGED fvars
    BY <2>2 DEF fvars, StoreInv, StoreTypeOK, Exclusive, SnapshotIsCurrent, CallsArePending,
                CallsAreDistinct, NewOpsAreAbsent
  <2>3. QED
    BY <2>1, <2>2
<1>3. QED
  BY <1>1, <1>2, PTL DEF StoreSpec

(* A step of one process is one step of the promise, or none.                *)
LEMMA StepRefines ==
  ASSUME StoreInv, NEW p \in Procs, Step(p) \/ Kill(p)
  PROVE  [Promise!Next]_(Promise!avars)
<1>0. StoreTypeOK /\ SnapshotIsCurrent /\ CallsArePending
  BY DEF StoreInv
<1>1. CASE Begin(p)
  <2>1. PICK op \in Ops : outcome[op] = "new" /\ outcome' = [outcome EXCEPT ![op] = "pending"]
    BY <1>1 DEF Begin
  <2>2. Promise!Start(op)
    BY <1>1, <2>1 DEF Begin, Promise!Start
  <2>3. QED
    BY <2>2 DEF Promise!Next
<1>2. CASE LockFile(p) \/ ReadIndex(p) \/ WriteTemp(p) \/ SyncTemp(p)
  BY <1>2 DEF LockFile, ReadIndex, WriteTemp, SyncTemp, Promise!avars
<1>3. CASE LockFails(p) \/ StepFails(p)
  <2>1. call[p] \in Ops /\ outcome[call[p]] = "pending" /\ call[p] \notin file
    BY <1>0, <1>3 DEF CallsArePending, LockFails, StepFails
  <2>2. Promise!Fail(call[p])
    BY <1>3, <2>1 DEF LockFails, StepFails, Return, Promise!Fail
  <2>3. QED
    BY <2>1, <2>2 DEF Promise!Next
<1>4. CASE Rename(p)
  <2>1. call[p] \in Ops /\ outcome[call[p]] = "pending" /\ call[p] \notin file
    BY <1>0, <1>4 DEF CallsArePending, Rename
  <2>2. Promise!Apply(call[p])
    BY <1>4, <2>1, RenameKeepsIInv DEF Rename, Promise!Apply
  <2>3. QED
    BY <2>1, <2>2 DEF Promise!Next
<1>5. CASE SyncDir(p)
  <2>1. call[p] \in Ops /\ outcome[call[p]] = "pending" /\ call[p] \in file
    BY <1>0, <1>5 DEF CallsArePending, SyncDir
  <2>2. Promise!Succeed(call[p])
    BY <1>5, <2>1 DEF SyncDir, Return, Promise!Succeed
  <2>3. QED
    BY <2>1, <2>2 DEF Promise!Next
<1>6. CASE Kill(p)
  <2>1. call[p] \in Ops /\ outcome[call[p]] = "pending"
    BY <1>0, <1>6 DEF CallsArePending, Kill
  <2>2. Promise!Die(call[p])
    BY <1>6, <2>1 DEF Kill, Return, Promise!Die
  <2>3. QED
    BY <2>1, <2>2 DEF Promise!Next
<1>7. QED
  BY <1>1, <1>2, <1>3, <1>4, <1>5, <1>6 DEF Step

(* Refinement. Whatever the processes and wherever a kill, an error or a     *)
(* power loss falls, the index file is updated as AtomicStore promises: each *)
(* update in one step, none lost to another, an error changes nothing.       *)
THEOREM StoreIsAtomic == StoreSpec => AtomicUpdates
<1>1. StoreInit => Promise!Init
  BY DEF StoreInit, Promise!Init
<1>2. StoreInv /\ [StoreNext]_fvars => [Promise!Next]_(Promise!avars)
  <2> SUFFICES ASSUME StoreInv, [StoreNext]_fvars PROVE [Promise!Next]_(Promise!avars)
    OBVIOUS
  <2>1. CASE \E p \in Procs : Step(p) \/ Kill(p)
    BY <2>1, StepRefines
  <2>2. CASE PowerLoss
    <3>1. Promise!PowerLoss
      BY <2>2 DEF PowerLoss, Promise!PowerLoss
    <3>2. QED
      BY <3>1 DEF Promise!Next
  <2>3. CASE UNCHANGED fvars
    BY <2>3 DEF fvars, Promise!avars
  <2>4. QED
    BY <2>1, <2>2, <2>3 DEF StoreNext
<1>3. QED
  BY <1>1, <1>2, StoreInvariant, PTL DEF StoreSpec, AtomicUpdates, Promise!Spec
------------------------------------------------------------------------------
(* The logs. The values of a file's lines and of a writer, where a process   *)
(* holds the log's lock file, and the lines whose append has ended.          *)
Text == Lines \union {TornLine}
Handle == [state : WriterStates, file : Nat, size : Nat]
Locked == {"append", "stat", "move", "open", "write"}
Done == {l \in Lines : told[l] \notin {"new", "pending"}}

\* Where a line is: in which file ever created, and at which place of it.
Places(l) == {a \in Nat \X Nat :
  /\ a[1] \in 1..Len(inode)
  /\ a[2] \in 1..Len(inode[a[1]])
  /\ inode[a[1]][a[2]] = l}

LogTyped ==
  /\ inode \in Seq(Seq(Text)) /\ Len(inode) <= MaxInodes
  /\ dir \in [Names -> 0..Len(inode)]
  /\ llock \in Procs \union {NoProc}
  /\ writer \in [Procs -> Handle]
  /\ lpc \in [Procs -> {"idle", "lock"} \union Locked]
  /\ line \in [Procs -> Lines \union {NoLine}]
  /\ target \in [Procs -> Names]
  /\ told \in [Lines -> {"new", "pending", "ok", "failed", "lost"}]

\* The log's lock file, and one call of a process at a time.
LogLocked == \A p \in Procs : lpc[p] \in Locked => llock = p
OneCall == \A p \in Procs : pc[p] = "idle" \/ lpc[p] = "idle"

\* No file loses its name, since a rename never replaces one.
AllLinked == \A k \in 1..Len(inode) : \E n \in Names : dir[n] = k
FreeName == \A p \in Procs :
  /\ lpc[p] \in {"stat", "move"} => target[p] # Current
  /\ lpc[p] = "move" => dir[target[p]] = 0
OnFile == \A p \in Procs :
  /\ writer[p].file <= Len(inode)
  /\ writer[p].state \in {"open", "stuck"} => writer[p].file >= 1

\* Each append in progress is of a line of its own, not yet in any file.
Appending == \A p \in Procs :
  lpc[p] # "idle" => line[p] \in Lines /\ told[line[p]] = "pending"
ApartLines == \A p, q \in Procs :
  lpc[p] # "idle" /\ lpc[q] # "idle" /\ line[p] = line[q] => p = q
Kept == \A l \in Lines :
  /\ told[l] = "ok" => Places(l) # {}
  /\ \A a, b \in Places(l) : a = b
  /\ Places(l) # {} => told[l] \in {"ok", "lost"}
Sized ==
  /\ \A k \in 1..Len(inode) : Len(inode[k]) <= Cardinality(Done)
  /\ \A p \in Procs : writer[p].size <= Cardinality(Done)

LogIInv == /\ LogTyped /\ LogLocked /\ OneCall /\ AllLinked /\ FreeName /\ OnFile
           /\ Appending /\ ApartLines /\ Kept /\ Sized

LEMMA NewFile ==
  ASSUME inode \in Seq(Seq(Text)), inode' = Append(inode, <<>>)
  PROVE  /\ inode' \in Seq(Seq(Text)) /\ Len(inode') = Len(inode) + 1
         /\ \A k \in 1..Len(inode) : inode'[k] = inode[k]
         /\ inode'[Len(inode) + 1] = <<>>
         /\ \A l : Places(l)' = Places(l)
<1>1. <<>> \in Seq(Text)
  OBVIOUS
<1>2. /\ inode' \in Seq(Seq(Text)) /\ Len(inode') = Len(inode) + 1 /\ Len(inode) \in Nat
      /\ \A k \in 1..Len(inode) : inode'[k] = inode[k]
      /\ inode'[Len(inode) + 1] = <<>>
  BY <1>1
<1>3. Len(inode'[Len(inode) + 1]) = 0
  BY <1>2
<1>4. ASSUME NEW l, NEW a \in Nat \X Nat
      PROVE  a \in Places(l)' <=> a \in Places(l)
  <2>1. a[1] \in Nat /\ a[2] \in Nat
    OBVIOUS
  <2>2. CASE a[1] = Len(inode) + 1
    BY <2>1, <2>2, <1>2, <1>3 DEF Places
  <2>3. CASE a[1] # Len(inode) + 1
    BY <2>1, <2>3, <1>2 DEF Places
  <2> QED BY <2>2, <2>3
<1>5. \A l : Places(l)' = Places(l)
  BY <1>4 DEF Places
<1> QED BY <1>2, <1>5

LEMMA Written ==
  ASSUME inode \in Seq(Seq(Text)), NEW f \in 1..Len(inode), NEW x \in Text,
         inode' = [inode EXCEPT ![f] = Append(@, x)]
  PROVE  /\ inode' \in Seq(Seq(Text)) /\ Len(inode') = Len(inode)
         /\ \A k \in 1..Len(inode) \ {f} : inode'[k] = inode[k]
         /\ Len(inode'[f]) = Len(inode[f]) + 1
         /\ Places(x)' = Places(x) \union {<<f, Len(inode[f]) + 1>>}
         /\ \A l : l # x => Places(l)' = Places(l)
<1>1. inode[f] \in Seq(Text) /\ Len(inode) \in Nat /\ f \in Nat
  OBVIOUS
<1>2. /\ Append(inode[f], x) \in Seq(Text) /\ Len(inode[f]) \in Nat
      /\ Len(Append(inode[f], x)) = Len(inode[f]) + 1
      /\ \A i \in 1..Len(inode[f]) : Append(inode[f], x)[i] = inode[f][i]
      /\ Append(inode[f], x)[Len(inode[f]) + 1] = x
  BY <1>1
<1>3. /\ inode' \in Seq(Seq(Text)) /\ Len(inode') = Len(inode)
      /\ \A k \in 1..Len(inode) \ {f} : inode'[k] = inode[k]
      /\ inode'[f] = Append(inode[f], x)
  BY <1>1, <1>2
<1>4. ASSUME NEW l, NEW a \in Nat \X Nat
      PROVE  a \in Places(l)' <=>
               a \in Places(l) \/ (l = x /\ a[1] = f /\ a[2] = Len(inode[f]) + 1)
  <2>1. a[1] \in Nat /\ a[2] \in Nat
    OBVIOUS
  <2>2. CASE a[1] = f
    BY <2>1, <2>2, <1>1, <1>2, <1>3 DEF Places
  <2>3. CASE a[1] # f
    BY <2>1, <2>3, <1>1, <1>3 DEF Places
  <2> QED BY <2>2, <2>3
<1>5. \A l : l # x => Places(l)' = Places(l)
  BY <1>4 DEF Places
<1>6. Places(x)' = Places(x) \union {<<f, Len(inode[f]) + 1>>}
  <2>1. \A a \in Nat \X Nat : a = <<f, Len(inode[f]) + 1>> <=> a[1] = f /\ a[2] = Len(inode[f]) + 1
    OBVIOUS
  <2>2. <<f, Len(inode[f]) + 1>> \in Nat \X Nat
    BY <1>1, <1>2
  <2> QED BY <1>4, <2>1, <2>2 DEF Places
<1>7. Len(inode'[f]) = Len(inode[f]) + 1
  BY <1>2, <1>3
<1> QED BY <1>3, <1>5, <1>6, <1>7

\* A power loss leaves a beginning of each file.
LEMMA CutOff ==
  ASSUME inode \in Seq(Seq(Text)), NEW keep \in [1..Len(inode) -> 0..Cardinality(Lines)],
         \A k \in 1..Len(inode) : keep[k] <= Len(inode[k]),
         inode' = [k \in 1..Len(inode) |-> SubSeq(inode[k], 1, keep[k])]
  PROVE  /\ inode' \in Seq(Seq(Text)) /\ Len(inode') = Len(inode)
         /\ \A k \in 1..Len(inode) : Len(inode'[k]) <= Len(inode[k])
         /\ \A l : Places(l)' \subseteq Places(l)
<1>1. Cardinality(Lines) \in Nat /\ Len(inode) \in Nat
  BY LineAssumption, FS_CardinalityType
<1>2. ASSUME NEW k \in 1..Len(inode)
      PROVE  /\ SubSeq(inode[k], 1, keep[k]) \in Seq(Text)
             /\ Len(SubSeq(inode[k], 1, keep[k])) = keep[k]
             /\ keep[k] \in Nat /\ keep[k] <= Len(inode[k])
             /\ \A i \in 1..keep[k] : SubSeq(inode[k], 1, keep[k])[i] = inode[k][i]
  <2>1. inode[k] \in Seq(Text) /\ keep[k] \in 0..Cardinality(Lines) /\ keep[k] <= Len(inode[k])
    OBVIOUS
  <2>2. keep[k] \in Nat
    BY <1>1, <2>1
  <2>3. SubSeq(inode[k], 1, keep[k]) \in Seq(Text)
    BY <2>1, <2>2
  <2>4. Len(SubSeq(inode[k], 1, keep[k])) = keep[k]
    BY <2>1, <2>2
  <2>5. \A i \in 1..keep[k] : SubSeq(inode[k], 1, keep[k])[i] = inode[k][i]
    BY <2>1, <2>2
  <2> QED BY <2>1, <2>2, <2>3, <2>4, <2>5
<1>3. inode' \in Seq(Seq(Text)) /\ Len(inode') = Len(inode)
      /\ \A k \in 1..Len(inode) : inode'[k] = SubSeq(inode[k], 1, keep[k])
  <2>1. \A k \in 1..Len(inode) : SubSeq(inode[k], 1, keep[k]) \in Seq(Text)
    BY <1>2
  <2> QED BY <1>1, <2>1
<1>4. \A k \in 1..Len(inode) : Len(inode'[k]) <= Len(inode[k])
  BY <1>2, <1>3
<1>5. ASSUME NEW l, NEW a \in Nat \X Nat, a \in Places(l)'
      PROVE  a \in Places(l)
  <2>1. a[1] \in 1..Len(inode) /\ a[2] \in 1..Len(inode'[a[1]]) /\ inode'[a[1]][a[2]] = l
    BY <1>3, <1>5 DEF Places
  <2>2. Len(inode'[a[1]]) = keep[a[1]] /\ a[2] \in 1..keep[a[1]]
    BY <1>2, <1>3, <2>1
  <2>3. inode[a[1]][a[2]] = l
    BY <1>2, <1>3, <2>1, <2>2
  <2>4. a[2] \in 1..Len(inode[a[1]])
    BY <1>2, <2>1, <2>2
  <2> QED BY <2>1, <2>3, <2>4 DEF Places
<1>6. \A l : Places(l)' \subseteq Places(l)
  BY <1>5 DEF Places
<1> QED BY <1>3, <1>4, <1>6

LEMMA DoneSize ==
  IsFiniteSet(Done) /\ Cardinality(Done) \in Nat /\ Cardinality(Done) <= Cardinality(Lines)
<1>1. Done \subseteq Lines
  BY DEF Done
<1> QED BY <1>1, LineAssumption, FS_Subset, FS_CardinalityType

\* A line that is in a file has been told of, or its writer was killed.
LEMMA SamePlaces ==
  ASSUME Kept, \A l \in Lines : Places(l)' = Places(l),
         \A l \in Lines : \/ told'[l] = told[l]
                          \/ told[l] \in {"new", "pending"} /\ told'[l] \in {"pending", "failed", "lost"}
  PROVE  Kept'
<1> SUFFICES ASSUME NEW l \in Lines
             PROVE  /\ told'[l] = "ok" => Places(l)' # {}
                    /\ \A a, b \in Places(l)' : a = b
                    /\ Places(l)' # {} => told'[l] \in {"ok", "lost"}
  BY Zenon DEF Kept
<1>1. /\ told[l] = "ok" => Places(l) # {}
      /\ \A a, b \in Places(l) : a = b
      /\ Places(l) # {} => told[l] \in {"ok", "lost"}
  BY Zenon DEF Kept
<1>2. Places(l)' = Places(l)
  OBVIOUS
<1> QED BY <1>1, <1>2

LEMMA Ends ==
  ASSUME LogIInv, NEW p \in Procs, lpc[p] # "idle", NEW result \in {"ok", "failed", "lost"},
         Finish(p, result)
  PROVE  /\ llock' \in Procs \union {NoProc}
         /\ told' \in [Lines -> {"new", "pending", "ok", "failed", "lost"}]
         /\ line' \in [Procs -> Lines \union {NoLine}]
         /\ lpc' \in [Procs -> {"idle", "lock"} \union Locked]
         /\ lpc'[p] = "idle" /\ \A q \in Procs \ {p} : lpc'[q] = lpc[q]
         /\ LogLocked' /\ Appending' /\ ApartLines'
         /\ line[p] \in Lines /\ told[line[p]] = "pending" /\ told'[line[p]] = result
         /\ \A l \in Lines \ {line[p]} : told'[l] = told[l]
         /\ Cardinality(Done)' = Cardinality(Done) + 1
<1>1. LogTyped /\ LogLocked /\ Appending /\ ApartLines
  BY DEF LogIInv
<1>2. line[p] \in Lines /\ told[line[p]] = "pending"
  BY <1>1 DEF Appending
<1>3. /\ llock' = IF llock = p THEN NoProc ELSE llock
      /\ told' = [told EXCEPT ![line[p]] = result]
      /\ line' = [line EXCEPT ![p] = NoLine]
      /\ lpc' = [lpc EXCEPT ![p] = "idle"]
  BY DEF Finish
<1>4. /\ llock' \in Procs \union {NoProc}
      /\ line' \in [Procs -> Lines \union {NoLine}]
      /\ lpc' \in [Procs -> {"idle", "lock"} \union Locked]
      /\ lpc'[p] = "idle" /\ \A q \in Procs \ {p} : lpc'[q] = lpc[q] /\ line'[q] = line[q]
  BY <1>1, <1>3 DEF LogTyped
<1>5. /\ told' \in [Lines -> {"new", "pending", "ok", "failed", "lost"}]
      /\ told'[line[p]] = result /\ \A l \in Lines \ {line[p]} : told'[l] = told[l]
  BY <1>1, <1>2, <1>3 DEF LogTyped
<1>6. LogLocked'
  BY <1>1, <1>3, <1>4 DEF LogLocked, Locked
<1>7. Appending'
  <2> SUFFICES ASSUME NEW q \in Procs, lpc'[q] # "idle"
               PROVE  line'[q] \in Lines /\ told'[line'[q]] = "pending"
    BY DEF Appending
  <2>1. q # p /\ lpc[q] # "idle" /\ line'[q] = line[q]
    BY <1>4
  <2>2. line[q] \in Lines /\ told[line[q]] = "pending" /\ line[q] # line[p]
    BY <1>1, <2>1 DEF Appending, ApartLines
  <2> QED BY <1>5, <2>1, <2>2
<1>8. ApartLines'
  BY <1>1, <1>4 DEF ApartLines
<1>9. Done' = Done \union {line[p]} /\ line[p] \notin Done
  BY <1>2, <1>5 DEF Done
<1>10. Cardinality(Done)' = Cardinality(Done) + 1
  <2>1. Cardinality(Done)' = Cardinality(Done \union {line[p]})
    BY <1>9
  <2> QED BY <1>9, <2>1, DoneSize, FS_AddElement
<1> QED BY <1>2, <1>4, <1>5, <1>6, <1>7, <1>8, <1>10

(* An append that fails, or whose process dies: no file has its line.        *)
LEMMA Fails ==
  ASSUME LogIInv, NEW p \in Procs, lpc[p] # "idle", NEW result \in {"failed", "lost"},
         Finish(p, result),
         NEW w \in Handle, writer' = [writer EXCEPT ![p] = w],
         w.size <= Cardinality(Done) + 1, w.file <= Len(inode),
         w.state \in {"open", "stuck"} => w.file >= 1,
         inode' \in Seq(Seq(Text)), Len(inode') = Len(inode),
         \A k \in 1..Len(inode) : Len(inode'[k]) <= Len(inode[k]) + 1,
         \A l \in Lines : Places(l)' = Places(l),
         UNCHANGED <<dir, target, pc>>
  PROVE  LogIInv'
<1>1. LogTyped /\ OneCall /\ AllLinked /\ FreeName /\ OnFile /\ Kept /\ Sized
  BY DEF LogIInv
<1>2. /\ llock' \in Procs \union {NoProc}
      /\ told' \in [Lines -> {"new", "pending", "ok", "failed", "lost"}]
      /\ line' \in [Procs -> Lines \union {NoLine}]
      /\ lpc' \in [Procs -> {"idle", "lock"} \union Locked]
      /\ lpc'[p] = "idle" /\ \A q \in Procs \ {p} : lpc'[q] = lpc[q]
      /\ line[p] \in Lines /\ told[line[p]] = "pending" /\ told'[line[p]] = result
      /\ \A l \in Lines \ {line[p]} : told'[l] = told[l]
  BY Ends
<1>3. LogLocked' /\ Appending' /\ ApartLines' /\ Cardinality(Done)' = Cardinality(Done) + 1
  BY Ends
<1>4. writer' \in [Procs -> Handle] /\ writer'[p] = w
      /\ \A q \in Procs \ {p} : writer'[q] = writer[q]
  BY <1>1 DEF LogTyped
<1>5. LogTyped'
  BY <1>1, <1>2, <1>4 DEF LogTyped
<1>6. OneCall'
  BY <1>1, <1>2 DEF OneCall
<1>7. AllLinked'
  BY <1>1 DEF AllLinked
<1>8. FreeName'
  BY <1>1, <1>2 DEF FreeName
<1>9. OnFile'
  BY <1>1, <1>4 DEF OnFile
<1>10. Kept'
  <2>1. ASSUME NEW l \in Lines
        PROVE  \/ told'[l] = told[l]
               \/ told[l] \in {"new", "pending"} /\ told'[l] \in {"pending", "failed", "lost"}
    <3>1. CASE l = line[p]
      BY <1>2, <3>1
    <3>2. CASE l # line[p]
      BY <1>2, <3>2
    <3> QED BY <3>1, <3>2
  <2> QED BY <1>1, <2>1, SamePlaces
<1>11. Sized'
  <2>1. ASSUME NEW k \in 1..Len(inode) PROVE Len(inode'[k]) <= Cardinality(Done) + 1
    <3>1. inode[k] \in Seq(Text) /\ inode'[k] \in Seq(Text)
      BY <1>1 DEF LogTyped
    <3>2. Len(inode[k]) \in Nat /\ Len(inode'[k]) \in Nat
      BY <3>1
    <3>3. Len(inode[k]) <= Cardinality(Done) /\ Len(inode'[k]) <= Len(inode[k]) + 1
      BY <1>1 DEF Sized
    <3> QED BY <3>2, <3>3, DoneSize
  <2>2. ASSUME NEW q \in Procs PROVE writer'[q].size <= Cardinality(Done) + 1
    <3>1. writer[q].size <= Cardinality(Done) /\ writer[q].size \in Nat
      BY <1>1 DEF Sized, LogTyped, Handle
    <3> QED BY <1>4, <3>1, DoneSize
  <2> QED BY <1>3, <2>1, <2>2 DEF Sized
<1> QED BY <1>3, <1>5, <1>6, <1>7, <1>8, <1>9, <1>10, <1>11 DEF LogIInv

\* A step that tells nobody anything and writes to no file.
LEMMA Moves ==
  ASSUME LogIInv, NEW p \in Procs, NEW w \in Handle,
         w.size <= Cardinality(Done), w.file <= Len(inode),
         w.state \in {"open", "stuck"} => w.file >= 1,
         NEW at \in {"idle", "lock"} \union Locked, NEW n \in Names,
         writer' = [writer EXCEPT ![p] = w], lpc' = [lpc EXCEPT ![p] = at],
         target' = [target EXCEPT ![p] = n],
         llock' = llock \/ (llock = NoProc /\ llock' = p),
         at \in Locked => llock' = p,
         at # "idle" => lpc[p] # "idle",
         at \in {"stat", "move"} => n # Current,
         at = "move" => dir[n] = 0,
         UNCHANGED <<inode, dir, line, told, pc>>
  PROVE  LogIInv'
<1>1. LogTyped /\ LogLocked /\ OneCall /\ AllLinked /\ FreeName /\ OnFile
      /\ Appending /\ ApartLines /\ Kept /\ Sized
  BY DEF LogIInv
<1>2. /\ lpc'[p] = at /\ writer'[p] = w /\ target'[p] = n
      /\ \A q \in Procs \ {p} : lpc'[q] = lpc[q] /\ writer'[q] = writer[q] /\ target'[q] = target[q]
  BY <1>1 DEF LogTyped
<1>3. LogTyped'
  <2>1. lpc' \in [Procs -> {"idle", "lock"} \union Locked] /\ target' \in [Procs -> Names]
    BY <1>1 DEF LogTyped
  <2>2. writer' \in [Procs -> Handle] /\ llock' \in Procs \union {NoProc}
    BY <1>1 DEF LogTyped
  <2> QED BY <1>1, <2>1, <2>2 DEF LogTyped
<1>4. LogLocked'
  BY <1>1, <1>2 DEF LogLocked
<1>5. OneCall'
  BY <1>1, <1>2 DEF OneCall
<1>6. AllLinked'
  BY <1>1 DEF AllLinked
<1>7. FreeName'
  BY <1>1, <1>2 DEF FreeName
<1>8. OnFile'
  BY <1>1, <1>2 DEF OnFile
<1>9. Appending' /\ ApartLines'
  BY <1>1, <1>2 DEF Appending, ApartLines
<1>10. Kept'
  <2>1. \A l \in Lines : Places(l)' = Places(l)
    BY DEF Places
  <2> QED BY <1>1, <2>1, SamePlaces
<1>11. Sized'
  <2>1. Cardinality(Done)' = Cardinality(Done)
    BY DEF Done
  <2> QED BY <1>1, <1>2, <2>1 DEF Sized
<1> QED BY <1>3, <1>4, <1>5, <1>6, <1>7, <1>8, <1>9, <1>10, <1>11 DEF LogIInv

\* openLocked, whether the file is there or not.
LEMMA Opens ==
  ASSUME LogIInv, NEW p \in Procs, OpenLocked(p), told' = told
  PROVE  /\ inode' \in Seq(Seq(Text)) /\ Len(inode') <= MaxInodes
         /\ dir' \in [Names -> 0..Len(inode')]
         /\ \A n \in Names \ {Current} : dir'[n] = dir[n]
         /\ writer' \in [Procs -> Handle]
         /\ AllLinked' /\ OnFile' /\ Kept' /\ Sized'
<1>1. LogTyped /\ AllLinked /\ OnFile /\ Kept /\ Sized
  BY DEF LogIInv
<1>2. Current \in Names /\ dir[Current] \in 0..Len(inode) /\ Len(inode) \in Nat
  BY <1>1, LineAssumption DEF LogTyped, Names, Current
<1>3. Cardinality(Done)' = Cardinality(Done) /\ Cardinality(Done) \in Nat
  BY DoneSize DEF Done
<1>4. CASE dir[Current] # 0
  <2> DEFINE w == [state |-> "open", file |-> dir[Current], size |-> Len(inode[dir[Current]])]
  <2>1. writer' = [writer EXCEPT ![p] = w] /\ UNCHANGED <<inode, dir>>
    BY <1>4 DEF OpenLocked
  <2>2. inode[dir[Current]] \in Seq(Text) /\ dir[Current] \in 1..Len(inode)
    BY <1>1, <1>2, <1>4 DEF LogTyped
  <2>3. Len(inode[dir[Current]]) \in Nat /\ Len(inode[dir[Current]]) <= Cardinality(Done)
    BY <1>1, <2>2 DEF Sized
  <2>4. w \in Handle /\ w.file = dir[Current] /\ w.size <= Cardinality(Done)
    BY <2>2, <2>3 DEF Handle, WriterStates
  <2> HIDE DEF w
  <2>5. writer' \in [Procs -> Handle] /\ writer'[p] = w
        /\ \A q \in Procs \ {p} : writer'[q] = writer[q]
    BY <1>1, <2>1, <2>4 DEF LogTyped
  <2>6. OnFile'
    BY <1>1, <2>1, <2>2, <2>4, <2>5 DEF OnFile
  <2>7. Sized'
    BY <1>1, <1>3, <2>1, <2>4, <2>5 DEF Sized
  <2>8. Kept'
    <3>1. \A l \in Lines : Places(l)' = Places(l)
      BY <2>1 DEF Places
    <3> QED BY <1>1, <3>1, SamePlaces
  <2>9. AllLinked'
    BY <1>1, <2>1 DEF AllLinked
  <2> QED BY <1>1, <2>1, <2>5, <2>6, <2>7, <2>8, <2>9 DEF LogTyped
<1>5. CASE dir[Current] = 0
  <2> DEFINE w == [state |-> "open", file |-> Len(inode'), size |-> 0]
  <2>1. /\ Len(inode) < MaxInodes /\ inode' = Append(inode, <<>>)
        /\ dir' = [dir EXCEPT ![Current] = Len(inode')]
        /\ writer' = [writer EXCEPT ![p] = w]
    BY <1>5 DEF OpenLocked
  <2>2. /\ inode' \in Seq(Seq(Text)) /\ Len(inode') = Len(inode) + 1
        /\ \A k \in 1..Len(inode) : inode'[k] = inode[k]
        /\ inode'[Len(inode) + 1] = <<>>
        /\ \A l : Places(l)' = Places(l)
    BY <1>1, <2>1, NewFile DEF LogTyped
  <2>3. w \in Handle /\ w.file = Len(inode) + 1 /\ w.size = 0
    BY <1>2, <2>2 DEF Handle, WriterStates
  <2> HIDE DEF w
  <2>4. writer' \in [Procs -> Handle] /\ writer'[p] = w
        /\ \A q \in Procs \ {p} : writer'[q] = writer[q]
    BY <1>1, <2>1, <2>3 DEF LogTyped
  <2>5. dir' \in [Names -> 0..Len(inode')] /\ dir'[Current] = Len(inode) + 1
        /\ \A n \in Names \ {Current} : dir'[n] = dir[n]
    BY <1>1, <1>2, <2>1, <2>2 DEF LogTyped
  <2>6. Len(inode') <= MaxInodes
    BY <1>2, <2>1, <2>2, LineAssumption
  <2>7. AllLinked'
    <3> SUFFICES ASSUME NEW k \in 1..Len(inode') PROVE \E n \in Names : dir'[n] = k
      BY DEF AllLinked
    <3>1. CASE k = Len(inode) + 1
      BY <1>2, <2>5, <3>1
    <3>2. CASE k # Len(inode) + 1
      <4>1. k \in 1..Len(inode)
        BY <1>2, <2>2, <3>2
      <4>2. PICK n \in Names : dir[n] = k
        BY <1>1, <4>1 DEF AllLinked
      <4>3. n # Current
        BY <1>5, <4>1, <4>2
      <4> QED BY <2>5, <4>2, <4>3
    <3> QED BY <3>1, <3>2
  <2>8. OnFile'
    <3> SUFFICES ASSUME NEW q \in Procs
                 PROVE  /\ writer'[q].file <= Len(inode')
                        /\ writer'[q].state \in {"open", "stuck"} => writer'[q].file >= 1
      BY DEF OnFile
    <3>1. CASE q = p
      BY <1>2, <2>2, <2>3, <2>4, <3>1
    <3>2. CASE q # p
      <4>1. writer[q].file \in Nat /\ writer[q].file <= Len(inode)
            /\ (writer[q].state \in {"open", "stuck"} => writer[q].file >= 1)
        BY <1>1 DEF OnFile, LogTyped, Handle
      <4> QED BY <1>2, <2>2, <2>4, <3>2, <4>1
    <3> QED BY <3>1, <3>2
  <2>9. Kept'
    BY <1>1, <2>2, SamePlaces
  <2>10. Sized'
    <3>1. ASSUME NEW k \in 1..Len(inode') PROVE Len(inode'[k]) <= Cardinality(Done)
      <4>1. CASE k = Len(inode) + 1
        BY <1>3, <2>2, <4>1
      <4>2. CASE k # Len(inode) + 1
        <5>1. k \in 1..Len(inode) /\ inode'[k] = inode[k]
          BY <1>2, <2>2, <4>2
        <5>2. Len(inode[k]) <= Cardinality(Done)
          BY <1>1, <5>1 DEF Sized
        <5> QED BY <5>1, <5>2
      <4> QED BY <4>1, <4>2
    <3>2. ASSUME NEW q \in Procs PROVE writer'[q].size <= Cardinality(Done)
      BY <1>1, <1>3, <2>3, <2>4 DEF Sized
    <3> QED BY <1>3, <3>1, <3>2 DEF Sized
  <2> QED BY <2>2, <2>4, <2>5, <2>6, <2>7, <2>8, <2>9, <2>10
<1> QED BY <1>4, <1>5

LEMMA AppendJSONKeeps ==
  ASSUME LogIInv, NEW p \in Procs, AppendJSON(p), pc[p] = "idle", UNCHANGED pc
  PROVE  LogIInv'
<1>1. LogTyped /\ LogLocked /\ OneCall /\ AllLinked /\ FreeName /\ OnFile
      /\ Appending /\ ApartLines /\ Kept /\ Sized
  BY DEF LogIInv
<1>2. PICK l \in Lines : /\ told[l] = "new"
                         /\ line' = [line EXCEPT ![p] = l]
                         /\ told' = [told EXCEPT ![l] = "pending"]
  BY DEF AppendJSON
<1>3. lpc[p] = "idle" /\ lpc' = [lpc EXCEPT ![p] = "lock"]
      /\ UNCHANGED <<inode, dir, llock, writer, target>>
  BY DEF AppendJSON
<1>4. /\ lpc'[p] = "lock" /\ line'[p] = l /\ told'[l] = "pending"
      /\ \A q \in Procs \ {p} : lpc'[q] = lpc[q] /\ line'[q] = line[q]
      /\ \A m \in Lines \ {l} : told'[m] = told[m]
  BY <1>1, <1>2, <1>3 DEF LogTyped
<1>5. LogTyped'
  <2>1. lpc' \in [Procs -> {"idle", "lock"} \union Locked]
    BY <1>1, <1>3 DEF LogTyped
  <2>2. line' \in [Procs -> Lines \union {NoLine}]
    BY <1>1, <1>2 DEF LogTyped
  <2>3. told' \in [Lines -> {"new", "pending", "ok", "failed", "lost"}]
    BY <1>1, <1>2 DEF LogTyped
  <2> QED BY <1>1, <1>3, <2>1, <2>2, <2>3 DEF LogTyped
<1>6. LogLocked'
  BY <1>1, <1>3, <1>4 DEF LogLocked, Locked
<1>7. OneCall'
  BY <1>1, <1>4 DEF OneCall
<1>8. AllLinked' /\ FreeName' /\ OnFile'
  BY <1>1, <1>3, <1>4 DEF AllLinked, FreeName, OnFile
<1>9. \A q \in Procs : lpc[q] # "idle" => line[q] # l
  BY <1>1, <1>2 DEF Appending
<1>10. Appending'
  BY <1>1, <1>3, <1>4, <1>9 DEF Appending
<1>11. ApartLines'
  BY <1>1, <1>3, <1>4, <1>9 DEF ApartLines
<1>12. Kept'
  <2>1. \A m \in Lines : Places(m)' = Places(m)
    BY <1>3 DEF Places
  <2>2. ASSUME NEW m \in Lines
        PROVE  \/ told'[m] = told[m]
               \/ told[m] \in {"new", "pending"} /\ told'[m] \in {"pending", "failed", "lost"}
    BY <1>2, <1>4
  <2> QED BY <1>1, <2>1, <2>2, SamePlaces
<1>13. Sized'
  <2>1. Done' = Done
    BY <1>2, <1>4 DEF Done
  <2>2. Cardinality(Done)' = Cardinality(Done)
    BY <2>1
  <2> QED BY <1>1, <1>3, <2>2 DEF Sized
<1> QED BY <1>5, <1>6, <1>7, <1>8, <1>10, <1>11, <1>12, <1>13 DEF LogIInv

\* The rename: the name it takes is free still, for only the holder of the
\* lock file gives a file another name than the log's own.
LEMMA MoveCurrentKeeps ==
  ASSUME LogIInv, NEW p \in Procs, MoveCurrent(p), UNCHANGED pc
  PROVE  LogIInv'
<1>1. LogTyped /\ LogLocked /\ OneCall /\ AllLinked /\ FreeName /\ OnFile
      /\ Appending /\ ApartLines /\ Kept /\ Sized
  BY DEF LogIInv
<1>2. /\ lpc[p] = "move" /\ lpc' = [lpc EXCEPT ![p] = "open"]
      /\ dir' = IF dir[Current] = 0 THEN dir
                ELSE [dir EXCEPT ![target[p]] = dir[Current], ![Current] = 0]
      /\ UNCHANGED <<inode, llock, writer, line, target, told>>
  BY DEF MoveCurrent
<1>3. Current \in Names /\ target[p] \in Names /\ target[p] # Current /\ dir[target[p]] = 0
  BY <1>1, <1>2, LineAssumption DEF LogTyped, Names, Current, FreeName
<1>4. lpc'[p] = "open" /\ \A q \in Procs \ {p} : lpc'[q] = lpc[q] /\ lpc[q] \notin Locked
  BY <1>1, <1>2 DEF LogTyped, LogLocked, Locked
<1>5. LogTyped'
  <2>1. lpc' \in [Procs -> {"idle", "lock"} \union Locked]
    BY <1>1, <1>2 DEF LogTyped, Locked
  <2>2. dir' \in [Names -> 0..Len(inode)]
    <3>1. 0 \in 0..Len(inode) /\ dir[Current] \in 0..Len(inode)
      BY <1>1, <1>3 DEF LogTyped
    <3> QED BY <1>1, <1>2, <1>3, <3>1 DEF LogTyped
  <2> QED BY <1>1, <1>2, <2>1, <2>2 DEF LogTyped
<1>6. LogLocked'
  BY <1>1, <1>2, <1>4 DEF LogLocked, Locked
<1>7. OneCall'
  BY <1>1, <1>2, <1>4 DEF OneCall
<1>8. AllLinked'
  <2> SUFFICES ASSUME NEW k \in 1..Len(inode) PROVE \E n \in Names : dir'[n] = k
    BY <1>2 DEF AllLinked
  <2>1. PICK n \in Names : dir[n] = k
    BY <1>1 DEF AllLinked
  <2>2. CASE n = Current
    <3>1. dir'[target[p]] = k
      BY <1>1, <1>2, <1>3, <2>1, <2>2 DEF LogTyped
    <3> QED BY <1>3, <3>1
  <2>3. CASE n # Current
    <3>1. n # target[p]
      BY <1>3, <2>1
    <3>2. dir'[n] = k
      BY <1>1, <1>2, <1>3, <2>1, <2>3, <3>1 DEF LogTyped
    <3> QED BY <3>2
  <2> QED BY <2>2, <2>3
<1>9. FreeName'
  BY <1>4 DEF FreeName, Locked
<1>10. OnFile'
  BY <1>1, <1>2 DEF OnFile
<1>11. Appending' /\ ApartLines'
  BY <1>1, <1>2, <1>4 DEF Appending, ApartLines
<1>12. Kept' /\ Sized'
  <2>1. \A l \in Lines : Places(l)' = Places(l)
    BY <1>2 DEF Places
  <2>2. Kept'
    BY <1>1, <1>2, <2>1, SamePlaces
  <2>3. Cardinality(Done)' = Cardinality(Done)
    BY <1>2 DEF Done
  <2> QED BY <1>1, <1>2, <2>2, <2>3 DEF Sized
<1> QED BY <1>5, <1>6, <1>7, <1>8, <1>9, <1>10, <1>11, <1>12 DEF LogIInv

LEMMA OpensKeeps ==
  ASSUME LogIInv, NEW p \in Procs, NewWriter(p) \/ Reopen(p), UNCHANGED pc
  PROVE  LogIInv'
<1>1. LogTyped /\ LogLocked /\ OneCall /\ FreeName /\ Appending /\ ApartLines
  BY DEF LogIInv
<1>2. /\ OpenLocked(p) /\ UNCHANGED <<llock, line, target, told>>
      /\ lpc' = lpc \/ (lpc[p] = "open" /\ lpc' = [lpc EXCEPT ![p] = "write"])
  <2>1. CASE NewWriter(p)
    BY <2>1, Zenon DEF NewWriter
  <2>2. CASE Reopen(p)
    BY <2>2, Zenon DEF Reopen
  <2> QED BY <2>1, <2>2
<1>3. /\ inode' \in Seq(Seq(Text)) /\ Len(inode') <= MaxInodes
      /\ dir' \in [Names -> 0..Len(inode')]
      /\ \A n \in Names \ {Current} : dir'[n] = dir[n]
      /\ writer' \in [Procs -> Handle]
      /\ AllLinked' /\ OnFile' /\ Kept' /\ Sized'
  BY <1>2, Opens
<1>4. lpc' \in [Procs -> {"idle", "lock"} \union Locked]
  BY <1>1, <1>2 DEF LogTyped, Locked
<1>5. \A q \in Procs : \/ lpc'[q] = lpc[q]
                       \/ lpc[q] = "open" /\ lpc'[q] = "write"
  BY <1>1, <1>2 DEF LogTyped
<1>6. LogTyped'
  BY <1>1, <1>2, <1>3, <1>4 DEF LogTyped
<1>7. LogLocked'
  BY <1>1, <1>2, <1>5 DEF LogLocked, Locked
<1>8. OneCall'
  BY <1>1, <1>5 DEF OneCall
<1>9. FreeName'
  <2> SUFFICES ASSUME NEW q \in Procs, lpc'[q] \in {"stat", "move"}
               PROVE  target'[q] # Current /\ (lpc'[q] = "move" => dir'[target'[q]] = 0)
    BY DEF FreeName
  <2>1. lpc'[q] = lpc[q] /\ target'[q] = target[q]
    BY <1>2, <1>5
  <2>2. target[q] \in Names /\ target[q] # Current /\ (lpc[q] = "move" => dir[target[q]] = 0)
    BY <1>1, <2>1 DEF FreeName, LogTyped
  <2> QED BY <1>3, <2>1, <2>2
<1>10. Appending' /\ ApartLines'
  BY <1>1, <1>2, <1>5 DEF Appending, ApartLines
<1> QED BY <1>3, <1>6, <1>7, <1>8, <1>9, <1>10 DEF LogIInv

\* The line lands in one file, at one place, and in no other.
LEMMA WriteLineKeeps ==
  ASSUME LogIInv, NEW p \in Procs, WriteLine(p), UNCHANGED pc
  PROVE  LogIInv'
<1>1. LogTyped /\ OneCall /\ AllLinked /\ FreeName /\ OnFile /\ Kept /\ Sized
  BY DEF LogIInv
<1>2. lpc[p] = "write" /\ writer[p].state = "open" /\ Finish(p, "ok") /\ UNCHANGED <<dir, target>>
  BY DEF WriteLine
<1>3. /\ llock' \in Procs \union {NoProc}
      /\ told' \in [Lines -> {"new", "pending", "ok", "failed", "lost"}]
      /\ line' \in [Procs -> Lines \union {NoLine}]
      /\ lpc' \in [Procs -> {"idle", "lock"} \union Locked]
      /\ lpc'[p] = "idle" /\ \A q \in Procs \ {p} : lpc'[q] = lpc[q]
      /\ LogLocked' /\ Appending' /\ ApartLines'
      /\ line[p] \in Lines /\ told[line[p]] = "pending" /\ told'[line[p]] = "ok"
      /\ \A l \in Lines \ {line[p]} : told'[l] = told[l]
      /\ Cardinality(Done)' = Cardinality(Done) + 1
  BY <1>2, Ends
<1>4. PICK f \in Nat : f = writer[p].file
  BY <1>1 DEF LogTyped, Handle
<1>4a. PICK x \in Lines : x = line[p]
  BY <1>3
<1>5. f \in 1..Len(inode) /\ x \in Text
  BY <1>1, <1>2, <1>4 DEF LogTyped, OnFile, Text
<1>6. inode' = [inode EXCEPT ![f] = Append(@, x)]
  BY <1>4, <1>4a DEF WriteLine
<1>7. /\ inode' \in Seq(Seq(Text)) /\ Len(inode') = Len(inode)
      /\ \A k \in 1..Len(inode) \ {f} : inode'[k] = inode[k]
      /\ Len(inode'[f]) = Len(inode[f]) + 1
      /\ Places(x)' = Places(x) \union {<<f, Len(inode[f]) + 1>>}
      /\ \A l : l # x => Places(l)' = Places(l)
  BY <1>1, <1>5, <1>6, Written DEF LogTyped
<1>8. /\ writer' \in [Procs -> Handle]
      /\ writer'[p].size = writer[p].size + 1 /\ writer'[p].file = writer[p].file
      /\ writer'[p].state = "open"
      /\ \A q \in Procs \ {p} : writer'[q] = writer[q]
  <2> DEFINE w == [writer[p] EXCEPT !.size = @ + 1]
  <2>1. writer' = [writer EXCEPT ![p] = w]
    BY DEF WriteLine
  <2>2. writer[p] \in Handle /\ writer[p].size + 1 \in Nat
    BY <1>1 DEF LogTyped, Handle
  <2>3. w \in Handle /\ w.size = writer[p].size + 1 /\ w.file = writer[p].file /\ w.state = "open"
    BY <1>2, <2>2 DEF Handle
  <2> HIDE DEF w
  <2> QED BY <1>1, <2>1, <2>3 DEF LogTyped
<1>9. LogTyped'
  BY <1>1, <1>2, <1>3, <1>7, <1>8 DEF LogTyped
<1>10. OneCall' /\ FreeName'
  BY <1>1, <1>2, <1>3 DEF OneCall, FreeName
<1>11. AllLinked'
  BY <1>1, <1>2, <1>7 DEF AllLinked
<1>12. OnFile'
  BY <1>1, <1>2, <1>7, <1>8 DEF OnFile
<1>13. Kept'
  <2> SUFFICES ASSUME NEW l \in Lines
               PROVE  /\ told'[l] = "ok" => Places(l)' # {}
                      /\ \A a, b \in Places(l)' : a = b
                      /\ Places(l)' # {} => told'[l] \in {"ok", "lost"}
    BY Zenon DEF Kept
  <2>1. /\ told[l] = "ok" => Places(l) # {}
        /\ \A a, b \in Places(l) : a = b
        /\ Places(l) # {} => told[l] \in {"ok", "lost"}
    BY <1>1, Zenon DEF Kept
  <2>2. CASE l = x
    <3>1. Places(l) = {}
      BY <1>3, <1>4a, <2>1, <2>2
    <3>2. Places(l)' = {<<f, Len(inode[f]) + 1>>}
      BY <1>7, <2>2, <3>1
    <3> QED BY <1>3, <1>4a, <2>2, <3>2
  <2>3. CASE l # x
    BY <1>3, <1>4a, <1>7, <2>1, <2>3
  <2> QED BY <2>2, <2>3
<1>14. Sized'
  <2>1. ASSUME NEW k \in 1..Len(inode) PROVE Len(inode'[k]) <= Cardinality(Done) + 1
    <3>1. inode[k] \in Seq(Text)
      BY <1>1 DEF LogTyped
    <3>2. Len(inode[k]) \in Nat /\ Len(inode[k]) <= Cardinality(Done)
      BY <1>1, <3>1 DEF Sized
    <3>3. Len(inode'[k]) = Len(inode[k]) \/ Len(inode'[k]) = Len(inode[k]) + 1
      BY <1>7
    <3> QED BY <3>2, <3>3, DoneSize
  <2>2. ASSUME NEW q \in Procs PROVE writer'[q].size <= Cardinality(Done) + 1
    <3>1. writer[q].size <= Cardinality(Done) /\ writer[q].size \in Nat
      BY <1>1 DEF Sized, LogTyped, Handle
    <3> QED BY <1>8, <3>1, DoneSize
  <2> QED BY <1>3, <1>7, <2>1, <2>2 DEF Sized
<1> QED BY <1>3, <1>9, <1>10, <1>11, <1>12, <1>13, <1>14 DEF LogIInv

LEMMA LogStepKeeps ==
  ASSUME LogIInv, NEW p \in Procs, (LogStep(p) /\ pc[p] = "idle") \/ LogKill(p), UNCHANGED pc
  PROVE  LogIInv'
<1>1. LogTyped /\ LogLocked /\ FreeName /\ OnFile /\ Sized
  BY DEF LogIInv
<1>2. PICK w : w = writer[p]
  OBVIOUS
<1>3. /\ w \in Handle /\ w.size \in Nat /\ w.size <= Cardinality(Done) /\ w.file <= Len(inode)
      /\ w.state \in {"open", "stuck"} => w.file >= 1
      /\ writer = [writer EXCEPT ![p] = w]
      /\ Cardinality(Done) \in Nat /\ w.file \in Nat /\ Len(inode) \in Nat
  BY <1>1, <1>2, DoneSize DEF LogTyped, OnFile, Sized, Handle
<1>4. /\ NoWriter \in Handle /\ NoWriter.size = 0 /\ NoWriter.file = 0
      /\ NoWriter.state = "none"
  BY DEF NoWriter, Handle, WriterStates
<1>5. lpc[p] \in {"idle", "lock"} \union Locked /\ target[p] \in Names
      /\ target = [target EXCEPT ![p] = target[p]]
  BY <1>1 DEF LogTyped
<1>6. CASE NewWriter(p) \/ Reopen(p)
  BY <1>6, OpensKeeps
<1>7. CASE CloseWriter(p)
  <2>1. /\ writer' = [writer EXCEPT ![p] = NoWriter] /\ lpc' = [lpc EXCEPT ![p] = "idle"]
        /\ target' = [target EXCEPT ![p] = target[p]]
        /\ UNCHANGED <<inode, dir, llock, line, told>>
    BY <1>1, <1>7 DEF CloseWriter, LogTyped
  <2>2. NoWriter.size <= Cardinality(Done) /\ NoWriter.file <= Len(inode)
    BY <1>3, <1>4
  <2>3. "idle" \notin Locked \union {"stat", "move"}
    BY DEF Locked
  <2> QED BY <1>4, <1>5, <2>1, <2>2, <2>3, Moves
<1>8. CASE AppendJSON(p)
  <2>1. pc[p] = "idle"
    BY <1>8 DEF AppendJSON, LogKill
  <2> QED BY <1>8, <2>1, AppendJSONKeeps
<1>9. CASE LockLog(p)
  BY <1>3, <1>5, <1>9, Moves DEF LockLog, Locked
<1>10. CASE Rotate(p)
  <2> DEFINE v == [writer[p] EXCEPT !.state = "shut", !.file = 0]
  <2>1. writer' = [writer EXCEPT ![p] = v]
    BY <1>10 DEF Rotate
  <2>2. v \in Handle /\ v.size = w.size /\ v.file = 0 /\ v.state = "shut"
    BY <1>2, <1>3 DEF Handle, WriterStates
  <2> HIDE DEF v
  <2>3. 1 \in Names /\ 1 # Current
    BY LineAssumption DEF Names, Current
  <2>4. llock = p
    BY <1>1, <1>10 DEF Rotate, LogLocked, Locked
  <2>5. v.size <= Cardinality(Done) /\ v.file <= Len(inode)
    BY <1>3, <2>2
  <2>6. /\ lpc[p] = "append" /\ lpc' = [lpc EXCEPT ![p] = "stat"]
        /\ target' = [target EXCEPT ![p] = 1]
        /\ UNCHANGED <<inode, dir, llock, line, told>>
    BY <1>10 DEF Rotate
  <2>7. "stat" \in Locked
    BY DEF Locked
  <2> QED BY <2>1, <2>2, <2>3, <2>4, <2>5, <2>6, <2>7, Moves
<1>11. CASE NoRotation(p)
  <2>1. llock = p
    BY <1>1, <1>11 DEF NoRotation, LogLocked, Locked
  <2> QED BY <1>3, <1>5, <1>11, <2>1, Moves DEF NoRotation, Locked
<1>12. CASE StatName(p)
  <2>1. llock = p /\ target[p] # Current /\ lpc[p] = "stat" /\ lpc = [lpc EXCEPT ![p] = "stat"]
        /\ UNCHANGED <<inode, dir, llock, writer, line, told>>
    BY <1>1, <1>12 DEF StatName, LogLocked, FreeName, Locked, LogTyped
  <2>2. CASE dir[target[p]] # 0
    <3>1. /\ target[p] <= MaxInodes /\ target' = [target EXCEPT ![p] = target[p] + 1]
          /\ lpc' = [lpc EXCEPT ![p] = "stat"]
      BY <1>12, <2>1, <2>2 DEF StatName
    <3>2. target[p] + 1 \in Names /\ target[p] + 1 # Current
      BY <1>5, <3>1, LineAssumption DEF Names, Current
    <3> QED BY <1>3, <2>1, <3>1, <3>2, Moves DEF Locked
  <2>3. CASE dir[target[p]] = 0
    <3>1. lpc' = [lpc EXCEPT ![p] = "move"] /\ target' = [target EXCEPT ![p] = target[p]]
      BY <1>5, <1>12, <2>3 DEF StatName
    <3> QED BY <1>3, <1>5, <2>1, <2>3, <3>1, Moves DEF Locked
  <2> QED BY <2>2, <2>3
<1>13. CASE MoveCurrent(p)
  BY <1>13, MoveCurrentKeeps
<1>14. \A k \in 1..Len(inode) : Len(inode[k]) \in Nat /\ Len(inode[k]) <= Len(inode[k]) + 1
  <2> SUFFICES ASSUME NEW k \in 1..Len(inode)
               PROVE  Len(inode[k]) \in Nat /\ Len(inode[k]) <= Len(inode[k]) + 1
    OBVIOUS
  <2>1. inode[k] \in Seq(Text)
    BY <1>1 DEF LogTyped
  <2> QED BY <2>1
<1>15. ASSUME UNCHANGED <<inode, dir, target>>, lpc[p] # "idle",
              NEW result \in {"failed", "lost"}, Finish(p, result),
              NEW v \in Handle, writer' = [writer EXCEPT ![p] = v],
              v.size <= Cardinality(Done) + 1, v.file <= Len(inode),
              v.state \in {"open", "stuck"} => v.file >= 1
       PROVE  LogIInv'
  <2>1. inode' \in Seq(Seq(Text)) /\ Len(inode') = Len(inode)
        /\ \A k \in 1..Len(inode) : Len(inode'[k]) <= Len(inode[k]) + 1
    BY <1>1, <1>14, <1>15 DEF LogTyped
  <2>2. \A l \in Lines : Places(l)' = Places(l)
    BY <1>15 DEF Places
  <2> QED BY <1>15, <2>1, <2>2, Fails
<1>16. CASE MoveFails(p) \/ StuckWrite(p)
  <2>1. /\ UNCHANGED <<inode, dir, target>> /\ lpc[p] # "idle" /\ Finish(p, "failed")
        /\ writer' = [writer EXCEPT ![p] = w]
    BY <1>3, <1>16 DEF MoveFails, StuckWrite
  <2>2. w.size <= Cardinality(Done) + 1
    BY <1>3
  <2> QED BY <1>3, <1>15, <2>1, <2>2
<1>17. CASE ReopenFails(p)
  <2> DEFINE v == [state |-> "nil", file |-> 0, size |-> 0]
  <2>1. v \in Handle /\ v.size <= Cardinality(Done) + 1 /\ v.file <= Len(inode) /\ v.state = "nil"
    BY <1>3 DEF Handle, WriterStates
  <2>2. /\ UNCHANGED <<inode, dir, target>> /\ lpc[p] # "idle" /\ Finish(p, "failed")
        /\ writer' = [writer EXCEPT ![p] = v]
    BY <1>17 DEF ReopenFails
  <2> HIDE DEF v
  <2> QED BY <1>15, <2>1, <2>2
<1>18. CASE WriteLine(p)
  BY <1>18, WriteLineKeeps
<1>19. CASE FlushFails(p)
  <2> DEFINE v == [writer[p] EXCEPT !.state = "stuck", !.size = @ + 1]
  <2>1. /\ lpc[p] # "idle" /\ writer[p].state = "open" /\ Finish(p, "failed")
        /\ writer' = [writer EXCEPT ![p] = v] /\ UNCHANGED <<dir, target>>
    BY <1>19 DEF FlushFails
  <2>2. w.size + 1 \in Nat
    BY <1>3
  <2>3. v \in Handle /\ v.size = w.size + 1 /\ v.file = w.file /\ v.state = "stuck"
    BY <1>2, <1>3, <2>2 DEF Handle, WriterStates
  <2> HIDE DEF v
  <2>4. v.size <= Cardinality(Done) + 1 /\ v.file <= Len(inode) /\ v.file >= 1
    BY <1>2, <1>3, <2>1, <2>3
  <2>5. CASE UNCHANGED inode
    BY <1>15, <2>1, <2>3, <2>4, <2>5
  <2>6. CASE inode' = [inode EXCEPT ![writer[p].file] = Append(@, TornLine)]
    <3>1. PICK f \in 1..Len(inode) : f = writer[p].file
      BY <1>2, <1>3, <2>1
    <3>2. PICK x \in Text : x = TornLine /\ inode' = [inode EXCEPT ![f] = Append(@, x)]
      BY <2>6, <3>1 DEF Text
    <3>3. /\ inode' \in Seq(Seq(Text)) /\ Len(inode') = Len(inode)
          /\ \A k \in 1..Len(inode) \ {f} : inode'[k] = inode[k]
          /\ Len(inode'[f]) = Len(inode[f]) + 1
          /\ \A l : l # x => Places(l)' = Places(l)
      BY <1>1, <3>2, Written DEF LogTyped
    <3>4. \A k \in 1..Len(inode) : Len(inode'[k]) <= Len(inode[k]) + 1
      <4> SUFFICES ASSUME NEW k \in 1..Len(inode) PROVE Len(inode'[k]) <= Len(inode[k]) + 1
        OBVIOUS
      <4>1. CASE k = f
        BY <1>14, <3>3, <4>1
      <4>2. CASE k # f
        BY <1>14, <3>3, <4>2
      <4> QED BY <4>1, <4>2
    <3>5. \A l \in Lines : Places(l)' = Places(l)
      BY <3>2, <3>3, LineAssumption
    <3> QED BY <2>1, <2>3, <2>4, <3>3, <3>4, <3>5, Fails
  <2> QED BY <1>19, <2>5, <2>6 DEF FlushFails
<1>20. CASE LogKill(p)
  <2>1. /\ UNCHANGED <<inode, dir, target>> /\ lpc[p] # "idle" /\ Finish(p, "lost")
        /\ writer' = [writer EXCEPT ![p] = NoWriter]
    BY <1>20 DEF LogKill
  <2>2. NoWriter.size <= Cardinality(Done) + 1 /\ NoWriter.file <= Len(inode)
    BY <1>3, <1>4
  <2> QED BY <1>4, <1>15, <2>1, <2>2
<1>21. \/ NewWriter(p) \/ Reopen(p) \/ CloseWriter(p) \/ AppendJSON(p) \/ LockLog(p) \/ Rotate(p)
       \/ NoRotation(p) \/ StatName(p) \/ MoveCurrent(p) \/ MoveFails(p) \/ StuckWrite(p)
       \/ ReopenFails(p) \/ WriteLine(p) \/ FlushFails(p) \/ LogKill(p)
  BY Zenon DEF LogStep
<1> QED
  BY <1>6, <1>7, <1>8, <1>9, <1>10, <1>11, <1>12, <1>13, <1>16, <1>17, <1>18, <1>19, <1>20, <1>21,
     Zenon

\* A step of the index file moves no process but its own.
LEMMA StepIsLocal ==
  ASSUME StoreTypeOK, NEW p \in Procs, Step(p) \/ Kill(p)
  PROVE  \A q \in Procs \ {p} : pc'[q] = pc[q]
<1>1. \E at : pc' = [pc EXCEPT ![p] = at]
  <2>1. CASE Begin(p)
    BY <2>1, Zenon DEF Begin
  <2>2. CASE LockFile(p) \/ LockFails(p) \/ ReadIndex(p) \/ WriteTemp(p)
    BY <2>2, Zenon DEF LockFile, LockFails, ReadIndex, WriteTemp, Return
  <2>3. CASE SyncTemp(p) \/ Rename(p) \/ SyncDir(p) \/ StepFails(p) \/ Kill(p)
    BY <2>3, Zenon DEF SyncTemp, Rename, SyncDir, StepFails, Kill, Return
  <2> QED BY <2>1, <2>2, <2>3, Zenon DEF Step
<1> QED BY <1>1 DEF StoreTypeOK

LEMMA IndexKeeps ==
  ASSUME LogIInv, StoreTypeOK, NEW p \in Procs, IndexCall(p) \/ KilledInIndex(p)
  PROVE  LogIInv'
<1>1. LogTyped /\ LogLocked /\ OneCall /\ AllLinked /\ FreeName /\ OnFile
      /\ Appending /\ ApartLines /\ Kept /\ Sized
  BY DEF LogIInv
<1>2. lpc[p] = "idle" /\ (Step(p) \/ Kill(p)) /\ UNCHANGED <<inode, dir, llock, lpc, line, target, told>>
  <2>1. CASE IndexCall(p)
    BY <2>1 DEF IndexCall, lvars
  <2>2. CASE KilledInIndex(p)
    <3>1. Kill(p) /\ UNCHANGED <<inode, dir, llock, lpc, line, target, told>>
      BY <2>2, Zenon DEF KilledInIndex
    <3>2. pc[p] # "idle"
      BY <3>1, Zenon DEF Kill
    <3> QED BY <1>1, <3>1, <3>2 DEF OneCall
  <2> QED BY <2>1, <2>2
<1>3. \A q \in Procs \ {p} : pc'[q] = pc[q]
  BY <1>2, StepIsLocal
<1>4. OneCall'
  BY <1>1, <1>2, <1>3 DEF OneCall
<1>5. \/ writer' = writer
      \/ writer' = [writer EXCEPT ![p] = NoWriter]
  BY Zenon DEF IndexCall, KilledInIndex, lvars
<1>6. NoWriter \in Handle /\ NoWriter.size = 0 /\ NoWriter.file = 0 /\ NoWriter.state = "none"
  BY DEF NoWriter, Handle, WriterStates
<1>7. writer' \in [Procs -> Handle]
  BY <1>1, <1>5, <1>6 DEF LogTyped
<1>8. \A q \in Procs : writer'[q] = writer[q] \/ writer'[q] = NoWriter
  BY <1>1, <1>5 DEF LogTyped
<1>9. LogTyped'
  BY <1>1, <1>2, <1>7 DEF LogTyped
<1>10. LogLocked' /\ AllLinked' /\ FreeName' /\ Appending' /\ ApartLines'
  BY <1>1, <1>2 DEF LogLocked, AllLinked, FreeName, Appending, ApartLines
<1>11. OnFile'
  <2>1. Len(inode) \in Nat
    BY <1>1 DEF LogTyped
  <2> QED BY <1>1, <1>2, <1>6, <1>8, <2>1 DEF OnFile
<1>12. Kept'
  <2>1. \A l \in Lines : Places(l)' = Places(l)
    BY <1>2 DEF Places
  <2> QED BY <1>1, <1>2, <2>1, SamePlaces
<1>13. Sized'
  <2>1. Cardinality(Done)' = Cardinality(Done)
    BY <1>2 DEF Done
  <2> QED BY <1>1, <1>2, <1>6, <1>8, <2>1, DoneSize DEF Sized
<1> QED BY <1>4, <1>9, <1>10, <1>11, <1>12, <1>13 DEF LogIInv

LEMMA LogPowerLossKeeps ==
  ASSUME LogIInv, PowerLoss, LogPowerLoss
  PROVE  LogIInv'
<1>1. LogTyped /\ AllLinked /\ Kept /\ Sized
  BY DEF LogIInv
<1>2. PICK keep \in [1..Len(inode) -> 0..Cardinality(Lines)] :
        /\ \A k \in 1..Len(inode) : keep[k] <= Len(inode[k])
        /\ inode' = [k \in 1..Len(inode) |-> SubSeq(inode[k], 1, keep[k])]
  BY Zenon DEF LogPowerLoss
<1>3. /\ inode' \in Seq(Seq(Text)) /\ Len(inode') = Len(inode)
      /\ \A k \in 1..Len(inode) : Len(inode'[k]) <= Len(inode[k])
      /\ \A l : Places(l)' \subseteq Places(l)
  BY <1>1, <1>2, CutOff DEF LogTyped
<1>4. /\ llock' = NoProc /\ writer' = [p \in Procs |-> NoWriter]
      /\ lpc' = [p \in Procs |-> "idle"] /\ line' = [p \in Procs |-> NoLine]
      /\ told' = [l \in Lines |-> IF told[l] = "new" THEN "new" ELSE "lost"]
      /\ UNCHANGED <<dir, target>>
  BY Zenon DEF LogPowerLoss
<1>5. NoWriter \in Handle /\ NoWriter.size = 0 /\ NoWriter.file = 0 /\ NoWriter.state = "none"
  BY DEF NoWriter, Handle, WriterStates
<1>6. LogTyped'
  <2>1. told' \in [Lines -> {"new", "pending", "ok", "failed", "lost"}]
    BY <1>4
  <2>2. lpc' \in [Procs -> {"idle", "lock"} \union Locked] /\ line' \in [Procs -> Lines \union {NoLine}]
        /\ writer' \in [Procs -> Handle]
    BY <1>4, <1>5
  <2> QED BY <1>1, <1>3, <1>4, <2>1, <2>2 DEF LogTyped
<1>7. LogLocked' /\ OneCall' /\ FreeName' /\ Appending' /\ ApartLines'
  BY <1>4 DEF LogLocked, OneCall, FreeName, Appending, ApartLines, Locked
<1>8. AllLinked'
  BY <1>1, <1>3, <1>4 DEF AllLinked
<1>9. OnFile'
  BY <1>3, <1>4, <1>5 DEF OnFile
<1>10. Kept'
  <2> SUFFICES ASSUME NEW l \in Lines
               PROVE  /\ told'[l] = "ok" => Places(l)' # {}
                      /\ \A a, b \in Places(l)' : a = b
                      /\ Places(l)' # {} => told'[l] \in {"ok", "lost"}
    BY Zenon DEF Kept
  <2>1. /\ \A a, b \in Places(l) : a = b
        /\ Places(l) # {} => told[l] \in {"ok", "lost"}
    BY <1>1, Zenon DEF Kept
  <2>2. told'[l] = IF told[l] = "new" THEN "new" ELSE "lost"
    BY <1>4
  <2>3. Places(l)' \subseteq Places(l)
    BY <1>3
  <2> QED BY <2>1, <2>2, <2>3
<1>11. Sized'
  <2>1. Done \subseteq Done'
    BY <1>4 DEF Done
  <2>2. Done' \subseteq Lines
    BY DEF Done
  <2>3. /\ Cardinality(Done) \in Nat /\ Cardinality(Done') \in Nat
        /\ Cardinality(Done) <= Cardinality(Done')
    BY <2>1, <2>2, DoneSize, LineAssumption, FS_Subset, FS_CardinalityType
  <2>4. ASSUME NEW k \in 1..Len(inode) PROVE Len(inode'[k]) <= Cardinality(Done')
    <3>1. inode[k] \in Seq(Text) /\ inode'[k] \in Seq(Text)
      BY <1>1, <1>3 DEF LogTyped
    <3>2. Len(inode[k]) \in Nat /\ Len(inode'[k]) \in Nat
      BY <3>1
    <3>3. Len(inode[k]) <= Cardinality(Done) /\ Len(inode'[k]) <= Len(inode[k])
      BY <1>1, <1>3 DEF Sized
    <3> QED BY <2>3, <3>2, <3>3
  <2>5. \A p \in Procs : writer'[p].size <= Cardinality(Done')
    BY <1>4, <1>5, <2>3
  <2>6. Cardinality(Done)' = Cardinality(Done')
    OBVIOUS
  <2> QED BY <1>3, <2>4, <2>5, <2>6 DEF Sized
<1> QED BY <1>6, <1>7, <1>8, <1>9, <1>10, <1>11 DEF LogIInv

LEMMA LogInitHolds == StorageInit => LogIInv
<1> SUFFICES ASSUME StorageInit PROVE LogIInv
  OBVIOUS
<1>1. /\ inode = <<>> /\ dir = [n \in Names |-> 0] /\ llock = NoProc
      /\ writer = [p \in Procs |-> NoWriter] /\ lpc = [p \in Procs |-> "idle"]
      /\ line = [p \in Procs |-> NoLine] /\ target = [p \in Procs |-> Current]
      /\ told = [l \in Lines |-> "new"]
  BY DEF StorageInit, LogInit
<1>2. Len(inode) = 0 /\ inode \in Seq(Seq(Text)) /\ 0 <= MaxInodes
  BY <1>1, LineAssumption
<1>3. NoWriter \in Handle /\ NoWriter.size = 0 /\ NoWriter.file = 0 /\ NoWriter.state = "none"
  BY DEF NoWriter, Handle, WriterStates
<1>4. Current \in Names
  BY LineAssumption DEF Current, Names
<1>5. LogTyped
  <2>1. dir \in [Names -> 0..Len(inode)] /\ target \in [Procs -> Names]
    BY <1>1, <1>2, <1>4
  <2>2. writer \in [Procs -> Handle] /\ lpc \in [Procs -> {"idle", "lock"} \union Locked]
    BY <1>1, <1>3
  <2>3. line \in [Procs -> Lines \union {NoLine}]
        /\ told \in [Lines -> {"new", "pending", "ok", "failed", "lost"}]
    BY <1>1
  <2> QED BY <1>1, <1>2, <2>1, <2>2, <2>3 DEF LogTyped
<1>6. LogLocked /\ OneCall /\ FreeName /\ Appending /\ ApartLines
  BY <1>1 DEF LogLocked, OneCall, FreeName, Appending, ApartLines, Locked
<1>7. AllLinked /\ OnFile
  BY <1>1, <1>2, <1>3 DEF AllLinked, OnFile
<1>8. Kept
  <2>1. \A l : Places(l) = {}
    BY <1>2 DEF Places
  <2> QED BY <1>1, <2>1 DEF Kept
<1>9. Sized
  BY <1>1, <1>2, <1>3, DoneSize DEF Sized
<1> QED BY <1>5, <1>6, <1>7, <1>8, <1>9 DEF LogIInv

LEMMA LogStutters ==
  ASSUME LogIInv, UNCHANGED svars
  PROVE  LogIInv'
<1>1. UNCHANGED <<inode, dir, llock, writer, lpc, line, target, told, pc>>
  BY DEF svars, fvars, lvars
<1>2. Done' = Done /\ \A l : Places(l)' = Places(l)
  BY <1>1 DEF Done, Places
<1>3. Kept' /\ Sized'
  BY <1>1, <1>2 DEF LogIInv, Kept, Sized
<1> QED BY <1>1, <1>3 DEF LogIInv, LogTyped, LogLocked, OneCall, AllLinked, FreeName, OnFile,
                          Appending, ApartLines

\* Every step of the directory is a step of its index file or leaves it alone.
LEMMA StorageStepsAreStoreSteps == [StorageNext]_svars => [StoreNext]_fvars
<1> SUFFICES ASSUME [StorageNext]_svars PROVE [StoreNext]_fvars
  OBVIOUS
<1>1. CASE UNCHANGED svars
  BY <1>1 DEF svars
<1>2. ASSUME NEW p \in Procs, IndexCall(p) \/ LogCall(p) \/ KilledInIndex(p) \/ KilledInLog(p)
      PROVE  [StoreNext]_fvars
  <2>1. Step(p) \/ Kill(p) \/ UNCHANGED fvars
    BY <1>2, Zenon DEF IndexCall, LogCall, KilledInIndex, KilledInLog
  <2> QED BY <2>1, Zenon DEF StoreNext
<1>3. CASE PowerLoss /\ LogPowerLoss
  BY <1>3 DEF StoreNext
<1> QED BY <1>1, <1>2, <1>3, Zenon DEF StorageNext

LEMMA LogInvariant == StorageSpec => [](StoreInv /\ LogIInv)
<1>1. StorageSpec => StoreSpec
  <2>1. StorageInit => StoreInit
    BY DEF StorageInit
  <2> QED BY <2>1, StorageStepsAreStoreSteps, PTL DEF StorageSpec, StoreSpec
<1>2. StoreInv => StoreTypeOK
  BY DEF StoreInv
<1>3. LogIInv /\ StoreTypeOK /\ [StorageNext]_svars => LogIInv'
  <2> SUFFICES ASSUME LogIInv, StoreTypeOK, [StorageNext]_svars PROVE LogIInv'
    OBVIOUS
  <2>1. CASE UNCHANGED svars
    BY <2>1, LogStutters
  <2>2. ASSUME NEW p \in Procs, IndexCall(p) \/ LogCall(p) \/ KilledInIndex(p) \/ KilledInLog(p)
        PROVE  LogIInv'
    <3>1. CASE IndexCall(p) \/ KilledInIndex(p)
      BY <3>1, IndexKeeps
    <3>2. CASE LogCall(p)
      <4>1. LogStep(p) /\ pc[p] = "idle" /\ UNCHANGED pc
        BY <3>2, Zenon DEF LogCall, fvars
      <4> QED BY <4>1, LogStepKeeps
    <3>3. CASE KilledInLog(p)
      <4>1. LogKill(p) /\ UNCHANGED pc
        BY <3>3, Zenon DEF KilledInLog, fvars
      <4> QED BY <4>1, LogStepKeeps
    <3> QED BY <2>2, <3>1, <3>2, <3>3
  <2>3. CASE PowerLoss /\ LogPowerLoss
    BY <2>3, LogPowerLossKeeps
  <2> QED BY <2>1, <2>2, <2>3, Zenon DEF StorageNext
<1> QED BY <1>1, <1>2, <1>3, LogInitHolds, StoreInvariant, PTL DEF StorageSpec

(* Types of a whole state directory, its index file and its logs.            *)
THEOREM StorageTypes == StorageSpec => []StorageTypeOK
<1>1. StoreInv /\ LogIInv => StorageTypeOK
  <2> SUFFICES ASSUME StoreInv, LogIInv PROVE StorageTypeOK
    OBVIOUS
  <2>1. StoreTypeOK /\ LogTyped /\ OnFile /\ Sized
    BY DEF StoreInv, LogIInv
  <2>2. \A k \in 1..Len(inode) : inode[k] \in Seq(Lines \union {TornLine})
    BY <2>1 DEF LogTyped, Text
  <2>3. ASSUME NEW p \in Procs
        PROVE  /\ writer[p].state \in WriterStates
               /\ writer[p].file \in 0..Len(inode)
               /\ writer[p].size \in 0..Cardinality(Lines)
    <3>1. writer[p].state \in WriterStates /\ writer[p].file \in Nat /\ writer[p].size \in Nat
      BY <2>1 DEF LogTyped, Handle
    <3>2. writer[p].file <= Len(inode) /\ writer[p].size <= Cardinality(Done)
      BY <2>1 DEF OnFile, Sized
    <3>3. Cardinality(Lines) \in Nat /\ Len(inode) \in Nat
      BY <2>1, LineAssumption, FS_CardinalityType DEF LogTyped
    <3> QED BY <3>1, <3>2, <3>3, DoneSize
  <2>4. lpc \in [Procs -> {"idle", "lock", "append", "stat", "move", "open", "write"}]
    BY <2>1 DEF LogTyped, Locked
  <2>5. LogTypeOK
    BY <2>1, <2>2, <2>3, <2>4 DEF LogTyped, LogTypeOK
  <2> QED BY <2>1, <2>5 DEF StorageTypeOK
<1> QED BY <1>1, LogInvariant, PTL

(* Safety. Whatever writers append to a log, rotate it, fail, are killed or  *)
(* lose power: a line whose append succeeded is in one file the directory    *)
(* still names, once, and a line whose append failed is in none.             *)
THEOREM NoLineIsLost == StorageSpec => []NoLineLost
<1>1. StoreInv /\ LogIInv => NoLineLost
  <2> SUFFICES ASSUME LogIInv, NEW l \in Lines
               PROVE  /\ told[l] = "ok" => Cardinality(Copies(l)) = 1
                      /\ told[l] = "failed" => Copies(l) = {}
    BY DEF NoLineLost
  <2>1. LogTyped /\ AllLinked /\ Kept /\ Sized
    BY DEF LogIInv
  <2>2. Cardinality(Lines) \in Nat
    BY LineAssumption, FS_CardinalityType
  <2>3. Linked = 1..Len(inode)
    BY <2>1 DEF Linked, AllLinked, LogTyped
  <2>4. Copies(l) = Places(l)
    <3>1. ASSUME NEW a \in Places(l) PROVE a \in Copies(l)
      <4>1. a \in Nat \X Nat /\ a[1] \in 1..Len(inode) /\ a[2] \in 1..Len(inode[a[1]])
            /\ inode[a[1]][a[2]] = l
        BY DEF Places
      <4>2. inode[a[1]] \in Seq(Text)
        BY <2>1, <4>1 DEF LogTyped
      <4>3. Len(inode[a[1]]) \in Nat /\ Len(inode[a[1]]) <= Cardinality(Done)
        BY <2>1, <4>1, <4>2 DEF Sized
      <4>4. a[2] \in 1..Cardinality(Lines) /\ a[2] <= Len(inode[a[1]])
        BY <2>2, <4>1, <4>3, DoneSize
      <4>5. a \in Linked \X (1..Cardinality(Lines))
        BY <2>3, <4>1, <4>4
      <4> QED BY <4>1, <4>4, <4>5 DEF Copies
    <3>2. ASSUME NEW a \in Copies(l) PROVE a \in Places(l)
      <4>1. a \in (1..Len(inode)) \X (1..Cardinality(Lines)) /\ a[2] <= Len(inode[a[1]])
            /\ inode[a[1]][a[2]] = l
        BY <2>3 DEF Copies
      <4>2. inode[a[1]] \in Seq(Text) /\ a[1] \in 1..Len(inode) /\ a[2] \in 1..Cardinality(Lines)
        BY <2>1, <4>1 DEF LogTyped
      <4>3. a \in Nat \X Nat /\ a[2] \in 1..Len(inode[a[1]])
        BY <2>1, <2>2, <4>1, <4>2 DEF LogTyped
      <4> QED BY <4>1, <4>2, <4>3 DEF Places
    <3> QED BY <3>1, <3>2
  <2>5. /\ told[l] = "ok" => Places(l) # {}
        /\ \A a, b \in Places(l) : a = b
        /\ Places(l) # {} => told[l] \in {"ok", "lost"}
    BY <2>1, Zenon DEF Kept
  <2>6. ASSUME told[l] = "ok" PROVE Cardinality(Copies(l)) = 1
    <3>1. PICK a : Places(l) = {a}
      BY <2>5, <2>6
    <3> QED BY <2>4, <3>1, FS_Singleton
  <2>7. told[l] = "failed" => Copies(l) = {}
    BY <2>4, <2>5
  <2> QED BY <2>6, <2>7
<1> QED BY <1>1, LogInvariant, PTL

(* Refinement. The index file of a directory that processes share with its   *)
(* logs, and that dies with them, is updated as AtomicStore promises.        *)
THEOREM StorageIsAtomic == StorageSpec => AtomicUpdates
<1>1. StorageInit => StoreInit
  BY DEF StorageInit
<1> QED BY <1>1, StorageStepsAreStoreSteps, StoreIsAtomic, PTL DEF StorageSpec, StoreSpec
==============================================================================
