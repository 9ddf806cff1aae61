----------------------------- MODULE PlanStatus -----------------------------
(* The statuses of a plan's steps, as agent/plan_status.go keeps them: a    *)
(* plan is the sequence of its steps' statuses, the texts are left out.     *)
EXTENDS Integers, Sequences

StepStatuses == {"pending", "in_progress", "completed"}
GivenStatuses == StepStatuses \cup {"other"}   \* what a model may write

(* An unknown status counts as pending.                                    *)
Known(p) == [i \in DOMAIN p |-> IF p[i] \in StepStatuses THEN p[i] ELSE "pending"]

FirstOf(p, s, i) == p[i] = s /\ \A j \in DOMAIN p : j < i => p[j] # s
None(p, s) == \A i \in DOMAIN p : p[i] # s

(* The first step in progress stays, others are demoted to pending; when    *)
(* there is none, the first pending step is started.                       *)
NormalizePlanSteps(given) ==
    LET p == Known(given) IN
    [i \in DOMAIN p |->
        CASE p[i] = "in_progress" /\ ~FirstOf(p, "in_progress", i) -> "pending"
          [] None(p, "in_progress") /\ FirstOf(p, "pending", i) -> "in_progress"
          [] OTHER -> p[i]]

(* Variant: the next step starts, the one in progress does not complete.   *)
AdvancedUncompleted(p) ==
    [i \in DOMAIN p |-> IF FirstOf(p, "pending", i) THEN "in_progress" ELSE p[i]]

(* The step in progress completes and the first pending one starts.        *)
Advanced(p) ==
    [i \in DOMAIN p |->
        CASE p[i] = "in_progress" -> "completed"
          [] FirstOf(p, "pending", i) -> "in_progress"
          [] OTHER -> p[i]]

(* AdvancePlanOnSuccess: the plan it leaves and what it reports.  Go's named *)
(* results are 0 until they are assigned, so a report that completes or     *)
(* starts nothing names step 0, the first one, and not -1.                 *)
IndexOf(p, s) == IF None(p, s) THEN 0 ELSE (CHOOSE i \in DOMAIN p : FirstOf(p, s, i)) - 1

Report(p) == [completed |-> IndexOf(p, "in_progress"), started |-> IndexOf(p, "pending")]
NoReport  == [completed |-> -1, started |-> -1]

AdvancePlanOnSuccess(given) ==
    LET p == NormalizePlanSteps(given) IN
    IF given = <<>> THEN [plan |-> given, report |-> NoReport]
    ELSE [plan |-> Advanced(p), report |-> Report(p)]

CompleteAllPlanSteps(p) == [i \in DOMAIN p |-> "completed"]

(* What a reader of a report takes it to say about the plan before and after. *)
Truthful(report, before, after) ==
    \A i \in DOMAIN after :
        /\ report.completed = i - 1 => before[i] # "completed" /\ after[i] = "completed"
        /\ report.started = i - 1 => before[i] # "in_progress" /\ after[i] = "in_progress"

Unfinished(p) == \E i \in DOMAIN p : p[i] # "completed"
=============================================================================
