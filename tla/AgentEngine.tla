---------------------------- MODULE AgentEngine ----------------------------
(***************************************************************************)
(* One run of agent.Engine: the loop of model rounds and tool calls, the   *)
(* guard's verdict on every tool call, the pause for an approval with its   *)
(* durable snapshot, and the resume from it.  The model, the tools and the *)
(* person who approves are the environment; their answers are enumerated.  *)
(* The guard is enabled: with Denied and Gated empty it changes no step.   *)
(***************************************************************************)
EXTENDS PlanStatus, FiniteSets

CONSTANTS
    Calls,        \* tool calls: a tool with its parameters
    Missing,      \* calls of tools that are not in the registry
    Denied,       \* calls the guard denies
    Gated,        \* calls the guard lets through with an approval only
    Stopping,     \* calls of tools with StopAfterSuccess
    PlanCreate,   \* the call of plan_create
    Batches,      \* the tool calls that one response may hold
    Plans,        \* the plans a response, or plan_create, may give
    FilesAsked,   \* the task names files that must be written
    MaxSteps, ParseRetries,
    Approvals, NoApproval, NoCall

ASSUME EngineConstants ==
    /\ Missing \subseteq Calls /\ Denied \subseteq Calls /\ Gated \subseteq Calls
    /\ Stopping \subseteq Calls /\ NoCall \notin Calls
    /\ Batches \subseteq Seq(Calls) /\ <<>> \notin Batches
    /\ Plans \subseteq Seq(GivenStatuses) /\ <<>> \notin Plans
    /\ FilesAsked \in BOOLEAN
    /\ MaxSteps \in Nat /\ ParseRetries \in Nat
    /\ NoApproval \notin Approvals

toolRepeatLimit == 3
NoPlan == <<>>

VARIABLES
    place,     \* where the run is: see Places
    run,       \* the part of engineLoopState that the snapshot keeps
    batch,     \* the tool calls of the response at hand still to be made
    pending,   \* st.pendingTool is set: the batch comes from a snapshot
    approved,  \* st.approvedPendingTool
    tools,     \* st.tools: the model is offered the registry's tools
    last,      \* st.lastToolSig and st.lastToolRepeat
    record,    \* the approval records
    asked,     \* the approval the paused run waits for
    report     \* the last PlanStepUpdate

loop == <<batch, pending, approved, tools, last>>
vars == <<place, run, loop, record, asked, report>>

Places == {"loop", "batch", "force", "paused", "final", "error"}

FreshRun == [step |-> 0, parseFailures |-> 0, rounds |-> 0,
             exchanges |-> <<>>,    \* assistant messages with tool calls, each
                                    \* with the tool messages that follow it
             steps |-> <<>>,        \* agentCtx.Steps
             plan |-> NoPlan]
NoRepeat == [call |-> NoCall, times |-> 0]
NoRecord == [status |-> "none", action |-> NoCall, run |-> FreshRun, batch |-> <<>>]

Init ==
    /\ place = "loop" /\ run = FreshRun /\ batch = <<>>
    /\ pending = FALSE /\ approved = FALSE /\ tools = TRUE /\ last = NoRepeat
    /\ record = [a \in Approvals |-> NoRecord]
    /\ asked = NoApproval /\ report = NoReport

-----------------------------------------------------------------------------
(* The head of the loop and the model's round.                             *)

NextStep(r) == [r EXCEPT !.step = @ + 1]
Round(r)    == [r EXCEPT !.rounds = @ + 1]

StepsExhausted ==
    /\ place = "loop"
    /\ run.step >= MaxSteps
    /\ place' = "force"
    /\ UNCHANGED <<run, loop, record, asked, report>>

InLoop == place = "loop" /\ run.step < MaxSteps

(* A dead context, a hook's error, or an error of the model's call.        *)
RoundFails ==
    /\ InLoop
    /\ place' = "error"
    /\ UNCHANGED <<run, loop, record, asked, report>>

(* A resumed run takes its response from the snapshot; the assistant       *)
(* message is in the saved messages already (AssistantTextAdded).          *)
ReplayPending ==
    /\ InLoop /\ pending
    /\ place' = "batch"
    /\ UNCHANGED <<run, loop, record, asked, report>>

AsksModel == InLoop /\ ~pending

OverBudget ==
    /\ AsksModel
    /\ run' = Round(run)
    /\ place' = "force"
    /\ UNCHANGED <<loop, record, asked, report>>

BadResponse ==
    /\ AsksModel
    /\ LET failed == [Round(run) EXCEPT !.parseFailures = @ + 1] IN
       IF failed.parseFailures > ParseRetries
       THEN place' = "force" /\ run' = failed
       ELSE run' = NextStep(failed) /\ UNCHANGED place
    /\ UNCHANGED <<loop, record, asked, report>>

Parsed == [Round(run) EXCEPT !.parseFailures = 0]

PlanResponse ==
    /\ AsksModel
    /\ \E p \in Plans : run' = NextStep([Parsed EXCEPT !.plan = NormalizePlanSteps(p)])
    /\ UNCHANGED <<place, loop, record, asked, report>>

(* A final response while a requested file is missing: the plan has been   *)
(* completed by then, and the run goes on.                                 *)
FilesMissing ==
    /\ AsksModel
    /\ FilesAsked
    /\ run' = NextStep([Parsed EXCEPT !.plan = CompleteAllPlanSteps(@)])
    /\ UNCHANGED <<place, loop, record, asked, report>>

FinalResponse ==
    /\ AsksModel
    /\ run' = [Parsed EXCEPT !.plan = CompleteAllPlanSteps(@)]
    /\ place' = "final"
    /\ UNCHANGED <<loop, record, asked, report>>

ToolResponse ==
    /\ AsksModel
    /\ \E b \in Batches :
          /\ batch' = b
          /\ run' = [Parsed EXCEPT !.exchanges = Append(@, [calls |-> b, answers |-> <<>>])]
    /\ place' = "batch"
    /\ UNCHANGED <<pending, approved, tools, last, record, asked, report>>

-----------------------------------------------------------------------------
(* The tool calls of a response, one at a time.                            *)

Call == Head(batch)
HasCall == place = "batch" /\ batch # <<>>

RecordStep(r, outcome) ==
    [r EXCEPT !.steps = Append(@, [call |-> Call, outcome |-> outcome])]

Answered(r) ==
    [r EXCEPT !.exchanges[Len(r.exchanges)].answers = Append(@, Call)]

(* Not found, blocked by the guard, or the approval could not be requested. *)
CallRefused ==
    /\ HasCall
    /\ Call \in Missing \cup Denied \cup Gated
    /\ approved => Call \in Missing \cup Denied
    /\ run' = Answered(RecordStep(run, "refused"))
    /\ last' = NoRepeat
    /\ batch' = Tail(batch)
    /\ report' = NoReport
    /\ UNCHANGED <<place, pending, approved, tools, record, asked>>

(* Variant: the snapshot keeps the calls after the one that pauses only.   *)
SnapshotRest == Tail(batch)

(* The call that pauses and RemainingToolCalls.                            *)
Snapshot == batch

Pause(a) ==
    /\ HasCall
    /\ Call \in Gated \ (Missing \cup Denied)
    /\ ~approved
    /\ record[a].status = "none"
    /\ record' = [record EXCEPT ![a] =
                    [status |-> "pending", action |-> Call, run |-> run, batch |-> Snapshot]]
    /\ asked' = a
    /\ place' = "paused"
    /\ UNCHANGED <<run, loop, report>>

MayRun ==
    /\ HasCall
    /\ Call \notin Missing \cup Denied
    /\ Call \in Gated => approved

CallFails ==
    /\ MayRun
    /\ run' = Answered(RecordStep(run, "failed"))
    /\ last' = NoRepeat
    /\ batch' = Tail(batch)
    /\ report' = NoReport
    /\ UNCHANGED <<place, pending, approved, tools, record, asked>>

(* What a success does to the plan: plan_create gives one to a run that    *)
(* has none (unless its observation cannot be parsed), another call        *)
(* advances the one there is.                                              *)
PlanOutcomes ==
    IF Call # PlanCreate THEN {AdvancePlanOnSuccess(run.plan)}
    ELSE {[plan |-> p, report |-> NoReport] :
             p \in IF run.plan = NoPlan THEN {NoPlan} \cup {NormalizePlanSteps(q) : q \in Plans}
                                        ELSE {run.plan}}

Repeats(call) ==
    [call |-> call, times |-> IF last.call = call THEN last.times + 1 ELSE 1]

CallSucceeds ==
    /\ MayRun
    /\ \E outcome \in PlanOutcomes :
          /\ report' = outcome.report
          /\ LET done == [RecordStep(run, "ok") EXCEPT !.plan = outcome.plan] IN
             IF Call \in Stopping
             THEN /\ run' = done
                  /\ place' = "final"
                  /\ UNCHANGED last
             ELSE /\ run' = Answered(done)
                  /\ last' = Repeats(Call)
                  /\ place' = IF Repeats(Call).times >= toolRepeatLimit THEN "force" ELSE "batch"
    /\ batch' = Tail(batch)
    /\ UNCHANGED <<pending, approved, tools, record, asked>>

(* Variant: the approval stays in force for the next responses.            *)
BatchDoneStaysApproved ==
    /\ place = "batch" /\ batch = <<>>
    /\ pending' = FALSE
    /\ run' = NextStep(run)
    /\ place' = "loop"
    /\ UNCHANGED <<batch, approved, tools, last, record, asked, report>>

BatchDone ==
    /\ place = "batch" /\ batch = <<>>
    /\ pending' = FALSE /\ approved' = FALSE
    /\ run' = NextStep(run)
    /\ place' = "loop"
    /\ UNCHANGED <<batch, tools, last, record, asked, report>>

(* Variant: a failed forced round sends the run back to the loop.          *)
ForceConclusionRetries ==
    /\ place = "force"
    /\ \/ run' = Round(run) /\ place' = "final"
       \/ place' = "loop" /\ UNCHANGED run
    /\ UNCHANGED <<loop, record, asked, report>>

(* forceConclusion: one more round, without an error whatever comes back.  *)
ForceConclusion ==
    /\ place = "force"
    /\ run' \in {run, Round(run)}
    /\ place' = "final"
    /\ UNCHANGED <<loop, record, asked, report>>

-----------------------------------------------------------------------------
(* Approvals, and the caller that resumes the run it has parked.           *)

Decide(a) ==
    /\ record[a].status = "pending"
    /\ \E s \in {"approved", "denied"} : record' = [record EXCEPT ![a].status = s]
    /\ UNCHANGED <<place, run, loop, asked, report>>

(* Variant: the steps recorded so far are not in the snapshot.             *)
RestoredWithoutSteps(saved) == [saved EXCEPT !.steps = <<>>]

(* contextFromSnapshot and the fields Resume copies.                       *)
Restored(saved) == saved

(* Engine.Resume of an approved request; the tools are not offered again,  *)
(* the repeat count starts over.                                           *)
Resume ==
    /\ place = "paused"
    /\ record[asked].status = "approved"
    /\ place' = "loop"
    /\ run' = Restored(record[asked].run)
    /\ batch' = record[asked].batch
    /\ pending' = TRUE /\ approved' = TRUE /\ tools' = FALSE /\ last' = NoRepeat
    /\ asked' = NoApproval
    /\ UNCHANGED <<record, report>>

(* The approval has expired (or its record cannot be used).                *)
ResumeFails ==
    /\ place = "paused"
    /\ record[asked].status # "none"
    /\ place' = "error" /\ asked' = NoApproval
    /\ UNCHANGED <<run, loop, record, report>>

EngineStep ==
    \/ StepsExhausted \/ RoundFails \/ ReplayPending
    \/ OverBudget \/ BadResponse \/ PlanResponse \/ FilesMissing \/ FinalResponse \/ ToolResponse
    \/ CallRefused \/ CallFails \/ CallSucceeds \/ BatchDone
    \/ \E a \in Approvals : Pause(a)
    \/ ForceConclusion

Next ==
    \/ EngineStep
    \/ \E a \in Approvals : Decide(a)
    \/ Resume \/ ResumeFails

Spec == Init /\ [][Next]_vars

(* A run goes on: the model answers or its request times out, tools return. *)
FairSpec == Spec /\ WF_vars(EngineStep)

-----------------------------------------------------------------------------
Outcomes  == {"ok", "failed", "refused"}
Exchanges == [calls : Seq(Calls), answers : Seq(Calls)]
Steps     == [call : Calls, outcome : Outcomes]
Runs == [step : 0..MaxSteps, parseFailures : 0..(ParseRetries + 1), rounds : 0..(MaxSteps + 1),
         exchanges : Seq(Exchanges), steps : Seq(Steps), plan : Seq(StepStatuses)]
Repetitions == [call : Calls \cup {NoCall}, times : 0..toolRepeatLimit]
Records == [status : {"none", "pending", "approved", "denied"}, action : Calls \cup {NoCall},
            run : Runs, batch : Seq(Calls)]

(* Types, and with them the bounds that a run keeps across its pauses: the  *)
(* loop makes at most max_steps rounds and one forced one, the retries of a *)
(* response that does not parse end, and the repeat limit stops the loop.  *)
TypeOK ==
    /\ place \in Places /\ run \in Runs /\ batch \in Seq(Calls)
    /\ pending \in BOOLEAN /\ approved \in BOOLEAN /\ tools \in BOOLEAN
    /\ last \in Repetitions
    /\ record \in [Approvals -> Records]
    /\ asked \in Approvals \cup {NoApproval}
    /\ report \in [completed : Nat \cup {-1}, started : Nat \cup {-1}]

LastExchange(r) == r.exchanges[Len(r.exchanges)]
Complete(e) == e.answers = e.calls

(* The responses before the last are answered, call by call; of the last   *)
(* one, the calls are those answered and those still to be made.           *)
AnsweredSoFar(r, b) ==
    /\ \A i \in DOMAIN r.exchanges : i < Len(r.exchanges) => Complete(r.exchanges[i])
    /\ r.exchanges # <<>> => LastExchange(r).calls = LastExchange(r).answers \o b

CutByRepeatLimit == place = "force" /\ last.times >= toolRepeatLimit

(* While a response's calls are made, its answers so far and its calls     *)
(* still to be made are its calls, each once and in their order: a pause   *)
(* and a resume between two calls neither lose, nor repeat, nor reorder    *)
(* one.  And when the model is asked again no call is left without its     *)
(* answer, in the forced round too, but for one case: the repeat limit     *)
(* ends a response in its middle, and the forced round that follows is     *)
(* sent with the rest of its calls unanswered.                             *)
EveryCallAnswered ==
    /\ place \in {"loop", "batch", "force"} => AnsweredSoFar(run, batch)
    /\ AsksModel \/ place = "force" => batch = <<>> \/ CutByRepeatLimit

(* A gated call is only ever made for a response whose pending request was *)
(* approved: an approval does not outlive the response it was given for.   *)
RunsCall(c) == \E o \in {"ok", "failed"} :
                  run'.steps = Append(run.steps, [call |-> c, outcome |-> o])

GatedNeedsApproval ==
    [][\A c \in Gated : RunsCall(c) =>
          \E a \in Approvals :
              /\ record[a].status = "approved"
              /\ Len(record[a].run.exchanges) = Len(run.exchanges)]_vars

(* max_steps bounds the rounds of a run however often it is paused: a      *)
(* resumed run goes on at the step where it stopped.                       *)
RoundsBounded ==
    /\ place = "loop" => run.rounds <= run.step + (IF pending THEN 1 ELSE 0)
    /\ run.rounds <= MaxSteps + (IF place = "final" THEN 1 ELSE 0)

(* No call that needs no approval succeeds more than toolRepeatLimit times *)
(* in a row, although a pause starts the count over.                       *)
RepeatsStopped ==
    \A i \in DOMAIN run.steps :
        LET row == i..(i + toolRepeatLimit) IN
        (row \subseteq DOMAIN run.steps /\ \A j \in row : run.steps[j] = run.steps[i])
            => run.steps[i].outcome # "ok" \/ run.steps[i].call \in Gated

(* Whatever a run needs to go on is in the snapshot it resumes from: the   *)
(* record of its steps only grows, so that it neither forgets nor makes    *)
(* again what it had done, and its limits hold over all its parts together.*)
ResumeForgetsNothing ==
    [][/\ \E k \in 0..1 : /\ Len(run'.steps) = Len(run.steps) + k
                         /\ SubSeq(run'.steps, 1, Len(run.steps)) = run.steps
       /\ RoundsBounded' /\ RepeatsStopped']_vars

(* "Ensure exactly one in_progress step if there are incomplete steps."    *)
OneStepInProgress ==
    Unfinished(run.plan) =>
        \E i \in DOMAIN run.plan :
            /\ run.plan[i] = "in_progress"
            /\ \A j \in DOMAIN run.plan : run.plan[j] = "in_progress" => j = i

(* A success of a tool takes an unfinished plan exactly one step further,  *)
(* nothing but a new plan takes a completed step back, and an unfinished   *)
(* plan always has exactly one step in progress.                           *)
Done(p) == {i \in DOMAIN p : p[i] = "completed"}
Succeeds == \E c \in Calls \ {PlanCreate} :
               run'.steps = Append(run.steps, [call |-> c, outcome |-> "ok"])

PlanAdvances ==
    [][/\ OneStepInProgress'
       /\ Succeeds /\ run.plan # NoPlan =>
             /\ Done(run.plan) \subseteq Done(run'.plan)
             /\ Unfinished(run.plan) =>
                   Cardinality(Done(run'.plan)) = Cardinality(Done(run.plan)) + 1]_vars

(* Every run, and every resumed run, returns: with a final, a pending      *)
(* output or an error.                                                     *)
RunReturns == place \in {"loop", "batch", "force"} ~> place \in {"paused", "final", "error"}

-----------------------------------------------------------------------------
(* What the documents say and the code does not do: TLC violates each.     *)

(* docs/feat/feat_20260201_guard.md 7.2, "approvals must bind to a         *)
(* specific action snapshot": a gated call is made because a request for   *)
(* this very call, in this response, was approved.                         *)
ApprovalCoversItsAction ==
    [][\A c \in Gated : RunsCall(c) =>
          \E a \in Approvals :
              /\ record[a].status = "approved" /\ record[a].action = c
              /\ Len(record[a].run.exchanges) = Len(run.exchanges)]_vars

(* docs/feat/feat_20260201_guard.md 8, example C, "the engine continues    *)
(* from the paused step": the model of a resumed run can still call tools. *)
ToolsAlwaysOffered == AsksModel => tools

(* prompts/plan_progress_system.tmpl, "include the completed step and, if  *)
(* present, the next step": a report names steps that did change so.       *)
ReportsAreTrue ==
    [][Len(run'.steps) > Len(run.steps) => Truthful(report', run.plan, run'.plan)]_vars
=============================================================================
