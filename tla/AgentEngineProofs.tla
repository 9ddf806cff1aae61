------------------------- MODULE AgentEngineProofs -------------------------
(***************************************************************************)
(* For any calls, responses, plans, limits and approvals: the run of the   *)
(* agent's engine keeps its types and bounds, and the safety properties of *)
(* AgentEngine hold of every run, however often it is paused and resumed.  *)
(***************************************************************************)
EXTENDS AgentEngine, SequenceTheorems, FiniteSetTheorems, TLAPS

-----------------------------------------------------------------------------
(* Plans (PlanStatus).                                                     *)

(* A set of numbers that is not empty has a least one.                     *)
LessThan == {d \in Nat \X Nat : d[1] < d[2]}

LEMMA Least ==
    ASSUME NEW T \in SUBSET Nat, T # {}
    PROVE  \E x \in T : \A y \in T : x <= y
<1>1. LessThan = OpToRel(<, Nat) BY DEF LessThan, OpToRel
<1>2. IsWellFoundedOn(LessThan, Nat) BY <1>1, NatLessThanWellFounded
<1>3. PICK x \in T : \A y \in T : <<y, x>> \notin LessThan BY <1>2, WFMin
<1>4. ASSUME NEW y \in T PROVE x <= y
  <2>1. x \in Nat /\ y \in Nat OBVIOUS
  <2>2. <<y, x>> \notin LessThan BY <1>3, <1>4
  <2>3. ~(y < x) BY <2>1, <2>2 DEF LessThan
  <2> QED BY <2>1, <2>3
<1> QED BY <1>4

LEMMA MapsToSeq ==
    ASSUME NEW S, NEW n \in Nat, NEW f \in [1..n -> S]
    PROVE  f \in Seq(S) /\ Len(f) = n /\ DOMAIN f = 1..n
<1>1. f \in Seq(S) BY SeqDef
<1> QED BY <1>1, LenProperties

LEMMA FirstExists ==
    ASSUME NEW S, NEW p \in Seq(S), NEW s, ~None(p, s)
    PROVE  \E i \in DOMAIN p : FirstOf(p, s, i)
<1> DEFINE T == {i \in DOMAIN p : p[i] = s}
<1>1. DOMAIN p = 1..Len(p) /\ Len(p) \in Nat BY LenProperties
<1>2. T \in SUBSET Nat /\ T # {} BY <1>1 DEF None
<1> HIDE DEF T
<1>3. PICK i \in T : \A j \in T : i <= j BY <1>2, Least
<1>4. ASSUME NEW j \in DOMAIN p, j < i PROVE p[j] # s
  BY <1>1, <1>2, <1>3, <1>4 DEF T
<1> QED BY <1>3, <1>4 DEF T, FirstOf

LEMMA FirstUnique ==
    ASSUME NEW S, NEW p \in Seq(S), NEW s, NEW i \in DOMAIN p, NEW j \in DOMAIN p,
           FirstOf(p, s, i), FirstOf(p, s, j)
    PROVE  i = j
<1>1. DOMAIN p = 1..Len(p) /\ Len(p) \in Nat BY LenProperties
<1> QED BY <1>1 DEF FirstOf

(* An unfinished plan has exactly one step in progress.                    *)
OneOf(p) ==
    Unfinished(p) =>
        \E i \in DOMAIN p : /\ p[i] = "in_progress"
                            /\ \A j \in DOMAIN p : p[j] = "in_progress" => j = i

LEMMA KnownType ==
    ASSUME NEW p \in Seq(GivenStatuses)
    PROVE  /\ Known(p) \in Seq(StepStatuses) /\ DOMAIN Known(p) = DOMAIN p
           /\ Len(Known(p)) = Len(p)
<1>1. DOMAIN p = 1..Len(p) /\ Len(p) \in Nat BY LenProperties
<1>2. Known(p) \in [1..Len(p) -> StepStatuses] BY <1>1 DEF Known, StepStatuses
<1> QED BY <1>1, <1>2, MapsToSeq

LEMMA NormalizedPlan ==
    ASSUME NEW given \in Seq(GivenStatuses)
    PROVE  /\ NormalizePlanSteps(given) \in Seq(StepStatuses)
           /\ OneOf(NormalizePlanSteps(given))
<1> DEFINE p == Known(given)
           q == [i \in DOMAIN p |->
                   CASE p[i] = "in_progress" /\ ~FirstOf(p, "in_progress", i) -> "pending"
                     [] None(p, "in_progress") /\ FirstOf(p, "pending", i) -> "in_progress"
                     [] OTHER -> p[i]]
<1>1. NormalizePlanSteps(given) = q BY DEF NormalizePlanSteps
<1>2. p \in Seq(StepStatuses) BY KnownType
<1> HIDE DEF p
<1>3. DOMAIN p = 1..Len(p) /\ Len(p) \in Nat /\ \A i \in DOMAIN p : p[i] \in StepStatuses
  BY <1>2, LenProperties
<1>4. q \in [1..Len(p) -> StepStatuses]
  <2>1. \A i \in DOMAIN p : q[i] \in StepStatuses BY <1>3 DEF StepStatuses
  <2> QED BY <1>3, <2>1
<1>5. q \in Seq(StepStatuses) BY <1>3, <1>4, MapsToSeq
<1>6. OneOf(q)
  <2>1. CASE ~None(p, "in_progress")
    <3>1. PICK i \in DOMAIN p : FirstOf(p, "in_progress", i) BY <1>2, <2>1, FirstExists
    <3>2. q[i] = "in_progress" BY <2>1, <3>1 DEF FirstOf
    <3>3. ASSUME NEW j \in DOMAIN p, q[j] = "in_progress" PROVE j = i
      <4>1. FirstOf(p, "in_progress", j) BY <2>1, <3>3
      <4> QED BY <1>2, <3>1, <4>1, FirstUnique
    <3> QED BY <1>3, <1>4, <3>2, <3>3 DEF OneOf
  <2>2. CASE None(p, "in_progress") /\ ~None(p, "pending")
    <3>1. PICK i \in DOMAIN p : FirstOf(p, "pending", i) BY <1>2, <2>2, FirstExists
    <3>2. q[i] = "in_progress" BY <2>2, <3>1 DEF FirstOf
    <3>3. ASSUME NEW j \in DOMAIN p, q[j] = "in_progress" PROVE j = i
      <4>1. FirstOf(p, "pending", j) BY <2>2, <3>3 DEF None
      <4> QED BY <1>2, <3>1, <4>1, FirstUnique
    <3> QED BY <1>3, <1>4, <3>2, <3>3 DEF OneOf
  <2>3. CASE None(p, "in_progress") /\ None(p, "pending")
    <3>1. \A i \in DOMAIN p : p[i] = "completed" BY <1>3, <2>3 DEF None, StepStatuses
    <3>2. \A i \in DOMAIN p : q[i] = "completed" BY <2>3, <3>1 DEF FirstOf
    <3> QED BY <1>3, <1>4, <3>2 DEF OneOf, Unfinished
  <2> QED BY <2>1, <2>2, <2>3
<1> QED BY <1>1, <1>5, <1>6

(* A plan that is kept needs no repair.                                    *)
LEMMA NormalizedSame ==
    ASSUME NEW p \in Seq(StepStatuses), OneOf(p)
    PROVE  NormalizePlanSteps(p) = p
<1>1. DOMAIN p = 1..Len(p) /\ Len(p) \in Nat /\ \A i \in DOMAIN p : p[i] \in StepStatuses
  BY LenProperties
<1>2. p \in [1..Len(p) -> StepStatuses] BY LenProperties
<1>3. Known(p) = p BY <1>1, <1>2 DEF Known
<1>4. ASSUME NEW i \in DOMAIN p, p[i] = "in_progress" PROVE FirstOf(p, "in_progress", i)
  <2>1. Unfinished(p) BY <1>4 DEF Unfinished
  <2>2. \A j \in DOMAIN p : p[j] = "in_progress" => j = i BY <1>4, <2>1 DEF OneOf
  <2> QED BY <1>1, <1>4, <2>2 DEF FirstOf
<1>5. ASSUME NEW i \in DOMAIN p, p[i] = "pending" PROVE ~None(p, "in_progress")
  <2>1. Unfinished(p) BY <1>5 DEF Unfinished
  <2> QED BY <2>1 DEF OneOf, None
<1>6. \A i \in DOMAIN p :
         /\ ~(p[i] = "in_progress" /\ ~FirstOf(p, "in_progress", i))
         /\ ~(None(p, "in_progress") /\ FirstOf(p, "pending", i))
  BY <1>4, <1>5 DEF FirstOf
<1>7. NormalizePlanSteps(p) = [i \in DOMAIN p |-> p[i]] BY <1>3, <1>6 DEF NormalizePlanSteps
<1> QED BY <1>2, <1>7

(* A plan advances by one step.                                            *)
LEMMA AdvancedPlan ==
    ASSUME NEW p \in Seq(StepStatuses), OneOf(p)
    PROVE  /\ Advanced(p) \in Seq(StepStatuses)
           /\ OneOf(Advanced(p))
           /\ Unfinished(p) => \E i \in DOMAIN p \ Done(p) : Done(Advanced(p)) = Done(p) \cup {i}
           /\ ~Unfinished(p) => Advanced(p) = p
<1> DEFINE q == [i \in DOMAIN p |->
                   CASE p[i] = "in_progress" -> "completed"
                     [] FirstOf(p, "pending", i) -> "in_progress"
                     [] OTHER -> p[i]]
<1>1. Advanced(p) = q BY DEF Advanced
<1>2. DOMAIN p = 1..Len(p) /\ Len(p) \in Nat /\ \A i \in DOMAIN p : p[i] \in StepStatuses
  BY LenProperties
<1>3. \A i \in DOMAIN p :
         /\ p[i] = "in_progress" => q[i] = "completed"
         /\ p[i] = "pending" /\ FirstOf(p, "pending", i) => q[i] = "in_progress"
         /\ p[i] = "pending" /\ ~FirstOf(p, "pending", i) => q[i] = "pending"
         /\ p[i] = "completed" => q[i] = "completed"
  BY DEF FirstOf
<1>4. DOMAIN q = DOMAIN p /\ \A i \in DOMAIN p : q[i] \in StepStatuses
  BY <1>2, <1>3 DEF StepStatuses
<1>5. q \in [1..Len(p) -> StepStatuses] BY <1>2, <1>4
<1>6. q \in Seq(StepStatuses) BY <1>2, <1>5, MapsToSeq
<1>7. p \in [1..Len(p) -> StepStatuses] BY LenProperties
<1> HIDE DEF q
<1>8. OneOf(q)
  <2>1. CASE None(p, "pending")
    <3>1. \A i \in DOMAIN q : q[i] = "completed" BY <1>2, <1>3, <1>4, <2>1 DEF None, StepStatuses
    <3> QED BY <3>1 DEF OneOf, Unfinished
  <2>2. CASE ~None(p, "pending")
    <3>1. PICK i \in DOMAIN p : FirstOf(p, "pending", i) BY <2>2, FirstExists
    <3>2. q[i] = "in_progress" BY <1>3, <3>1 DEF FirstOf
    <3>3. ASSUME NEW j \in DOMAIN p, q[j] = "in_progress" PROVE j = i
      <4>1. FirstOf(p, "pending", j) BY <1>2, <1>3, <3>3 DEF StepStatuses
      <4> QED BY <3>1, <4>1, FirstUnique
    <3> QED BY <1>4, <3>2, <3>3 DEF OneOf
  <2> QED BY <2>1, <2>2
<1>9. ASSUME Unfinished(p) PROVE \E i \in DOMAIN p \ Done(p) : Done(q) = Done(p) \cup {i}
  <2>1. PICK i \in DOMAIN p : /\ p[i] = "in_progress"
                              /\ \A j \in DOMAIN p : p[j] = "in_progress" => j = i
    BY <1>9 DEF OneOf
  <2>2. \A j \in DOMAIN p : q[j] = "completed" <=> p[j] = "completed" \/ j = i
    BY <1>2, <1>3, <2>1 DEF StepStatuses
  <2>3. i \notin Done(p) BY <2>1 DEF Done
  <2>4. Done(q) = Done(p) \cup {i} BY <1>4, <2>2 DEF Done
  <2> QED BY <2>3, <2>4
<1>10. ASSUME ~Unfinished(p) PROVE q = p
  <2>1. \A i \in DOMAIN p : q[i] = p[i] BY <1>3, <1>10 DEF Unfinished
  <2> QED BY <1>5, <1>7, <1>2, <2>1
<1> QED BY <1>1, <1>6, <1>8, <1>9, <1>10

LEMMA ReportType ==
    ASSUME NEW p \in Seq(StepStatuses)
    PROVE  Report(p) \in [completed : Nat \cup {-1}, started : Nat \cup {-1}]
<1>1. ASSUME NEW s PROVE IndexOf(p, s) \in Nat
  <2>1. CASE None(p, s) BY <2>1 DEF IndexOf
  <2>2. CASE ~None(p, s)
    <3>1. \E i \in DOMAIN p : FirstOf(p, s, i) BY <2>2, FirstExists
    <3>2. (CHOOSE i \in DOMAIN p : FirstOf(p, s, i)) \in DOMAIN p BY <3>1
    <3>3. DOMAIN p = 1..Len(p) /\ Len(p) \in Nat BY LenProperties
    <3> QED BY <2>2, <3>2, <3>3 DEF IndexOf
  <2> QED BY <2>1, <2>2
<1> QED BY <1>1 DEF Report

LEMMA CompletedPlan ==
    ASSUME NEW p \in Seq(StepStatuses)
    PROVE  CompleteAllPlanSteps(p) \in Seq(StepStatuses) /\ OneOf(CompleteAllPlanSteps(p))
<1>1. DOMAIN p = 1..Len(p) /\ Len(p) \in Nat BY LenProperties
<1>2. CompleteAllPlanSteps(p) \in [1..Len(p) -> StepStatuses]
  BY <1>1 DEF CompleteAllPlanSteps, StepStatuses
<1>3. ~Unfinished(CompleteAllPlanSteps(p)) BY DEF CompleteAllPlanSteps, Unfinished
<1> QED BY <1>1, <1>2, <1>3, MapsToSeq DEF OneOf
-----------------------------------------------------------------------------
(* The run's record, one field at a time.                                  *)
LEMMA RunFields ==
    ASSUME NEW r \in Runs
    PROVE  /\ r.step \in 0..MaxSteps /\ r.parseFailures \in 0..(ParseRetries + 1)
           /\ r.rounds \in 0..(MaxSteps + 1) /\ r.exchanges \in Seq(Exchanges)
           /\ r.steps \in Seq(Steps) /\ r.plan \in Seq(StepStatuses)
BY DEF Runs

LEMMA NextStepFacts ==
    ASSUME NEW r \in Runs, r.step < MaxSteps
    PROVE  /\ NextStep(r) \in Runs /\ NextStep(r).step = r.step + 1
           /\ NextStep(r).parseFailures = r.parseFailures /\ NextStep(r).rounds = r.rounds
           /\ NextStep(r).exchanges = r.exchanges /\ NextStep(r).steps = r.steps
           /\ NextStep(r).plan = r.plan
<1>1. r.step + 1 \in 0..MaxSteps BY RunFields, EngineConstants
<1> QED BY <1>1 DEF Runs, NextStep

LEMMA RoundFacts ==
    ASSUME NEW r \in Runs, r.rounds <= MaxSteps
    PROVE  /\ Round(r) \in Runs /\ Round(r).rounds = r.rounds + 1
           /\ Round(r).parseFailures = r.parseFailures /\ Round(r).step = r.step
           /\ Round(r).exchanges = r.exchanges /\ Round(r).steps = r.steps
           /\ Round(r).plan = r.plan
<1>1. r.rounds + 1 \in 0..(MaxSteps + 1) BY RunFields, EngineConstants
<1> QED BY <1>1 DEF Runs, Round

LEMMA FailuresFacts ==
    ASSUME NEW r \in Runs, NEW n \in 0..(ParseRetries + 1)
    PROVE  LET s == [r EXCEPT !.parseFailures = n] IN
           /\ s \in Runs /\ s.parseFailures = n /\ s.rounds = r.rounds /\ s.step = r.step
           /\ s.exchanges = r.exchanges /\ s.steps = r.steps /\ s.plan = r.plan
BY DEF Runs

LEMMA PlanFacts ==
    ASSUME NEW r \in Runs, NEW p \in Seq(StepStatuses)
    PROVE  LET s == [r EXCEPT !.plan = p] IN
           /\ s \in Runs /\ s.parseFailures = r.parseFailures /\ s.rounds = r.rounds
           /\ s.step = r.step /\ s.exchanges = r.exchanges /\ s.steps = r.steps /\ s.plan = p
BY DEF Runs

LEMMA ExchangesFacts ==
    ASSUME NEW r \in Runs, NEW x \in Seq(Exchanges)
    PROVE  LET s == [r EXCEPT !.exchanges = x] IN
           /\ s \in Runs /\ s.parseFailures = r.parseFailures /\ s.rounds = r.rounds
           /\ s.step = r.step /\ s.exchanges = x /\ s.steps = r.steps /\ s.plan = r.plan
BY DEF Runs

LEMMA StepsFacts ==
    ASSUME NEW r \in Runs, NEW x \in Seq(Steps)
    PROVE  LET s == [r EXCEPT !.steps = x] IN
           /\ s \in Runs /\ s.parseFailures = r.parseFailures /\ s.rounds = r.rounds
           /\ s.step = r.step /\ s.exchanges = r.exchanges /\ s.steps = x /\ s.plan = r.plan
BY DEF Runs

(* The call at hand is recorded, and answered in the last exchange.        *)
LEMMA RecordStepFacts ==
    ASSUME NEW r \in Runs, NEW o \in Outcomes, Call \in Calls
    PROVE  LET s == RecordStep(r, o) IN
           /\ s \in Runs /\ s.parseFailures = r.parseFailures /\ s.rounds = r.rounds
           /\ s.step = r.step /\ s.exchanges = r.exchanges /\ s.plan = r.plan
           /\ s.steps = Append(r.steps, [call |-> Call, outcome |-> o])
<1>1. [call |-> Call, outcome |-> o] \in Steps BY DEF Steps
<1>2. r.steps \in Seq(Steps) BY RunFields
<1>3. Append(r.steps, [call |-> Call, outcome |-> o]) \in Seq(Steps)
  BY <1>1, <1>2, AppendProperties
<1> QED BY <1>3, StepsFacts DEF RecordStep

LEMMA AnsweredFacts ==
    ASSUME NEW r \in Runs, r.exchanges # <<>>, Call \in Calls
    PROVE  LET s == Answered(r) IN
           /\ s \in Runs /\ s.parseFailures = r.parseFailures /\ s.rounds = r.rounds
           /\ s.step = r.step /\ s.steps = r.steps /\ s.plan = r.plan
           /\ Len(s.exchanges) = Len(r.exchanges) /\ s.exchanges # <<>>
           /\ \A i \in 1..Len(r.exchanges) : i < Len(r.exchanges) => s.exchanges[i] = r.exchanges[i]
           /\ LastExchange(s).calls = LastExchange(r).calls
           /\ LastExchange(s).answers = Append(LastExchange(r).answers, Call)
<1> DEFINE n == Len(r.exchanges)
           e == r.exchanges[n]
           f == [e EXCEPT !.answers = Append(@, Call)]
           x == [r.exchanges EXCEPT ![n] = f]
<1>1. r.exchanges \in Seq(Exchanges) BY RunFields
<1>2. n \in Nat \ {0} BY <1>1, EmptySeq
<1>3. e \in Exchanges BY <1>1, <1>2, ElementOfSeq
<1>4. Append(e.answers, Call) \in Seq(Calls) BY <1>3, AppendProperties DEF Exchanges
<1>5. f \in Exchanges /\ f.calls = e.calls /\ f.answers = Append(e.answers, Call)
  BY <1>3, <1>4 DEF Exchanges
<1>6. Answered(r) = [r EXCEPT !.exchanges = x] BY DEF Answered
<1> HIDE DEF f
<1>7. /\ x \in Seq(Exchanges) /\ Len(x) = n
      /\ \A i \in 1..n : x[i] = IF i = n THEN f ELSE r.exchanges[i]
  BY <1>1, <1>2, <1>5, ExceptSeq
<1>8. x # <<>> BY <1>2, <1>7, EmptySeq
<1>9. e = LastExchange(r) BY DEF LastExchange
<1> HIDE DEF x, n, e
<1>10. [r EXCEPT !.exchanges = x].exchanges = x BY <1>7, ExchangesFacts
<1>11. LastExchange(Answered(r)) = f BY <1>2, <1>6, <1>7, <1>10 DEF LastExchange
<1>12. Answered(r).exchanges = x BY <1>6, <1>10
<1>13. /\ Answered(r) \in Runs /\ Answered(r).parseFailures = r.parseFailures
       /\ Answered(r).rounds = r.rounds /\ Answered(r).step = r.step
       /\ Answered(r).steps = r.steps /\ Answered(r).plan = r.plan
  BY <1>6, <1>7, ExchangesFacts
<1>14. \A i \in 1..n : i < n => x[i] = r.exchanges[i] BY <1>2, <1>7
<1> QED BY <1>5, <1>7, <1>8, <1>9, <1>11, <1>12, <1>13, <1>14 DEF n

(* A call moves from those to be made to those answered.                   *)
LEMMA CallMoves ==
    ASSUME NEW s \in Seq(Calls), NEW b \in Seq(Calls), b # <<>>
    PROVE  s \o b = Append(s, Head(b)) \o Tail(b)
<1>1. /\ Head(b) \in Calls /\ Tail(b) \in Seq(Calls) /\ Len(Tail(b)) = Len(b) - 1
      /\ \A i \in 1..Len(Tail(b)) : Tail(b)[i] = b[i + 1]
  BY HeadTailProperties
<1>2. Len(b) \in Nat \ {0} /\ Len(s) \in Nat /\ Head(b) = b[1] BY EmptySeq, LenProperties
<1> DEFINE t == Append(s, Head(b))
<1>3. /\ t \in Seq(Calls) /\ Len(t) = Len(s) + 1 /\ t[Len(s) + 1] = b[1]
      /\ \A i \in 1..Len(s) : t[i] = s[i]
  BY <1>1, <1>2, AppendProperties
<1> HIDE DEF t
<1>4. /\ s \o b \in Seq(Calls) /\ Len(s \o b) = Len(s) + Len(b)
      /\ \A i \in 1..(Len(s) + Len(b)) : (s \o b)[i] = IF i <= Len(s) THEN s[i] ELSE b[i - Len(s)]
  BY ConcatProperties
<1>5. /\ t \o Tail(b) \in Seq(Calls) /\ Len(t \o Tail(b)) = Len(t) + Len(Tail(b))
      /\ \A i \in 1..(Len(t) + Len(Tail(b))) :
            (t \o Tail(b))[i] = IF i <= Len(t) THEN t[i] ELSE Tail(b)[i - Len(t)]
  BY <1>1, <1>3, ConcatProperties
<1>6. Len(t) + Len(Tail(b)) = Len(s) + Len(b) BY <1>1, <1>2, <1>3
<1>7. ASSUME NEW i \in 1..Len(s \o b) PROVE (s \o b)[i] = (t \o Tail(b))[i]
  <2>0. i \in 1..(Len(s) + Len(b)) /\ i \in 1..(Len(t) + Len(Tail(b))) BY <1>4, <1>6
  <2>1. CASE i <= Len(s) BY <1>2, <1>3, <1>4, <1>5, <2>0, <2>1
  <2>2. CASE i = Len(s) + 1
    <3>1. (s \o b)[i] = b[i - Len(s)] BY <1>2, <1>4, <2>0, <2>2
    <3>2. (t \o Tail(b))[i] = t[i] BY <1>2, <1>3, <1>5, <2>0, <2>2
    <3>3. i - Len(s) = 1 BY <1>2, <2>2
    <3> QED BY <1>3, <2>2, <3>1, <3>2, <3>3
  <2>3. CASE i > Len(s) + 1
    <3>1. (s \o b)[i] = b[i - Len(s)] BY <1>2, <1>4, <2>0, <2>3
    <3>2. (t \o Tail(b))[i] = Tail(b)[i - Len(t)] BY <1>2, <1>3, <1>5, <2>0, <2>3
    <3>3. i - Len(t) \in 1..Len(Tail(b)) /\ (i - Len(t)) + 1 = i - Len(s)
      BY <1>1, <1>2, <1>3, <2>0, <2>3
    <3> QED BY <1>1, <3>1, <3>2, <3>3
  <2> QED BY <1>2, <2>0, <2>1, <2>2, <2>3
<1> QED BY <1>4, <1>5, <1>6, <1>7, SeqEqual DEF t
-----------------------------------------------------------------------------
(* The invariant.  A run at the head of the loop has answered all calls    *)
(* and made no more rounds than steps; one at a call has one round more,   *)
(* and its calls are those answered and those still to be made.            *)
AtHead(r) ==
    /\ r.rounds <= r.step /\ r.parseFailures <= ParseRetries
    /\ \A i \in 1..Len(r.exchanges) : Complete(r.exchanges[i])

AtCall(r, b) ==
    /\ r.step < MaxSteps /\ r.rounds <= r.step + 1 /\ r.parseFailures <= ParseRetries
    /\ r.exchanges # <<>>
    /\ \A i \in 1..Len(r.exchanges) : i < Len(r.exchanges) => Complete(r.exchanges[i])
    /\ LastExchange(r).calls = LastExchange(r).answers \o b

RunsGated(b) == b # <<>> /\ Head(b) \in Gated \ (Missing \cup Denied)

OnItsWay ==
    /\ place = "loop" /\ ~pending => AtHead(run) /\ batch = <<>>
    /\ place = "loop" /\ pending => AtCall(run, batch)
    /\ place = "batch" => AtCall(run, batch)
    /\ place = "force" => AnsweredSoFar(run, batch) /\ (batch = <<>> \/ CutByRepeatLimit)
    /\ run.rounds <= MaxSteps + (IF place = "final" THEN 1 ELSE 0)

(* A paused run is the one its approval record keeps.                      *)
Parked ==
    place = "paused" =>
        /\ AtCall(run, batch) /\ RunsGated(batch)
        /\ asked \in Approvals /\ record[asked].status # "none"
        /\ record[asked].run = run /\ record[asked].batch = batch

(* An approval in force was given for the response at hand.                *)
Covers(a, r) == record[a].status = "approved" /\ Len(record[a].run.exchanges) = Len(r.exchanges)
Covered == approved => pending /\ \E a \in Approvals : Covers(a, run)

(* The count of repetitions covers the row of equal successes the run ends *)
(* in, unless the run has just been resumed: then a gated call is next.    *)
InRow(steps, i) ==
    LET n == Len(steps) IN
    /\ steps[n].outcome = "ok" /\ steps[n].call \notin Gated
    /\ \A j \in i..n : steps[j] = steps[n]

CountedBy(rep, steps) ==
    \A i \in 1..Len(steps) :
        InRow(steps, i) => rep.call = steps[Len(steps)].call /\ (Len(steps) - i) + 1 <= rep.times

Streak ==
    /\ RepeatsStopped
    /\ place \in {"loop", "batch"} =>
          /\ last.times < toolRepeatLimit
          /\ CountedBy(last, run.steps) \/ (approved /\ RunsGated(batch))

IInv == TypeOK /\ OnItsWay /\ Parked /\ Covered /\ Streak /\ OneOf(run.plan)

(* Both places answer for the calls so far.                                *)
LEMMA AtHeadAnswered ==
    ASSUME NEW r \in Runs, AtHead(r)
    PROVE  AnsweredSoFar(r, <<>>)
<1>1. /\ r.exchanges \in Seq(Exchanges) /\ Len(r.exchanges) \in Nat
      /\ DOMAIN r.exchanges = 1..Len(r.exchanges)
  BY RunFields, LenProperties
<1>2. ASSUME r.exchanges # <<>>
      PROVE  LastExchange(r).calls = LastExchange(r).answers \o <<>>
  <2>1. Len(r.exchanges) \in Nat \ {0} BY <1>1, <1>2, EmptySeq
  <2>2. LastExchange(r) \in Exchanges BY <1>1, <2>1, ElementOfSeq DEF LastExchange
  <2>3. LastExchange(r).answers \in Seq(Calls) BY <2>2 DEF Exchanges
  <2>4. LastExchange(r).answers = LastExchange(r).calls
    BY <1>1, <2>1 DEF AtHead, Complete, LastExchange
  <2> QED BY <2>3, <2>4, ConcatEmptySeq
<1> QED BY <1>1, <1>2 DEF AtHead, AnsweredSoFar

LEMMA AtCallAnswered ==
    ASSUME NEW r \in Runs, NEW b, AtCall(r, b)
    PROVE  AnsweredSoFar(r, b)
<1>1. DOMAIN r.exchanges = 1..Len(r.exchanges) BY RunFields, LenProperties
<1> QED BY <1>1 DEF AtCall, AnsweredSoFar

LEMMA InitHolds == Init => IInv
<1> SUFFICES ASSUME Init PROVE IInv OBVIOUS
<1> USE EngineConstants DEF Init
<1>1. /\ run.step = 0 /\ run.rounds = 0 /\ run.parseFailures = 0
      /\ run.exchanges = <<>> /\ run.steps = <<>> /\ run.plan = <<>>
      /\ FreshRun \in Runs
  BY DEF FreshRun, Runs, NoPlan
<1>2. TypeOK
  <2>1. NoRecord \in Records BY <1>1 DEF NoRecord, Records
  <2>2. NoRepeat \in Repetitions BY DEF NoRepeat, Repetitions, toolRepeatLimit
  <2>3. record \in [Approvals -> Records] BY <2>1
  <2>4. report \in [completed : Nat \cup {-1}, started : Nat \cup {-1}] BY DEF NoReport
  <2>5. batch \in Seq(Calls) /\ run \in Runs /\ place \in Places BY <1>1 DEF Places
  <2>6. asked \in Approvals \cup {NoApproval} /\ last \in Repetitions BY <2>2
  <2> QED BY <2>3, <2>4, <2>5, <2>6 DEF TypeOK
<1>3. OnItsWay
  <2>1. AtHead(run) BY <1>1 DEF AtHead
  <2> QED BY <1>1, <2>1 DEF OnItsWay
<1>4. Parked /\ Covered BY DEF Parked, Covered
<1>5. Streak
  <2>1. RepeatsStopped BY <1>1 DEF RepeatsStopped
  <2>2. CountedBy(last, run.steps) BY <1>1 DEF CountedBy
  <2>3. last.times < toolRepeatLimit BY DEF NoRepeat, toolRepeatLimit
  <2> QED BY <2>1, <2>2, <2>3 DEF Streak
<1>6. OneOf(run.plan) BY <1>1 DEF OneOf, Unfinished
<1> QED BY <1>2, <1>3, <1>4, <1>5, <1>6 DEF IInv

LEMMA TypeFacts ==
    ASSUME IInv
    PROVE  /\ run \in Runs /\ run.step \in Nat /\ run.rounds \in Nat /\ run.parseFailures \in Nat
           /\ MaxSteps \in Nat /\ ParseRetries \in Nat /\ batch \in Seq(Calls)
           /\ run.exchanges \in Seq(Exchanges) /\ run.steps \in Seq(Steps)
           /\ run.plan \in Seq(StepStatuses)
<1>1. run \in Runs /\ batch \in Seq(Calls) BY DEF IInv, TypeOK
<1> QED BY <1>1, RunFields, EngineConstants

(* The run only moves to another place.                                    *)
LEMMA MovesOn ==
    ASSUME IInv, StepsExhausted \/ RoundFails \/ ReplayPending \/ ResumeFails
    PROVE  IInv'
<1> USE DEF loop
<1>1. /\ UNCHANGED <<run, loop, record, report>> /\ asked' \in {asked, NoApproval}
      /\ place' \in Places /\ place # "final" /\ place' \notin {"final", "paused", "loop"}
      /\ place' = "batch" => place = "loop" /\ pending
  BY DEF StepsExhausted, RoundFails, ReplayPending, ResumeFails, InLoop, Places
<1>2. TypeOK' BY <1>1 DEF IInv, TypeOK
<1>3. OnItsWay'
  <2>1. place' = "batch" => AtCall(run, batch) BY <1>1 DEF IInv, OnItsWay
  <2>2. place' = "force" => AnsweredSoFar(run, <<>>) /\ batch = <<>>
    <3>1. SUFFICES ASSUME place' = "force" PROVE AnsweredSoFar(run, <<>>) /\ batch = <<>>
      OBVIOUS
    <3>2. place = "loop" /\ ~(run.step < MaxSteps)
      BY <3>1, TypeFacts DEF StepsExhausted, RoundFails, ReplayPending, ResumeFails
    <3>3. ~pending BY <3>2 DEF IInv, OnItsWay, AtCall
    <3>4. AtHead(run) /\ batch = <<>> BY <3>2, <3>3 DEF IInv, OnItsWay
    <3> QED BY <3>4, TypeFacts, AtHeadAnswered
  <2>3. run.rounds <= MaxSteps BY <1>1, TypeFacts DEF IInv, OnItsWay
  <2>4. place' = "force" => AnsweredSoFar(run', batch') /\ batch' = <<>> BY <1>1, <2>2
  <2>5. place' = "batch" => AtCall(run', batch') BY <1>1, <2>1
  <2> QED BY <1>1, <2>3, <2>4, <2>5, TypeFacts DEF OnItsWay
<1>4. Parked' BY <1>1 DEF Parked
<1>5. Covered' BY <1>1 DEF IInv, Covered, Covers
<1>6. RepeatsStopped' BY <1>1 DEF IInv, Streak, RepeatsStopped
<1>7. Streak' BY <1>1, <1>6 DEF IInv, Streak, CountedBy, InRow, RunsGated
<1>8. OneOf(run.plan)' BY <1>1 DEF IInv, OneOf, Unfinished
<1> QED BY <1>2, <1>3, <1>4, <1>5, <1>7, <1>8 DEF IInv

(* What any round of the model that brings no tool call does.              *)
LEMMA ModelRoundFacts ==
    ASSUME IInv, OverBudget \/ BadResponse \/ PlanResponse \/ FilesMissing \/ FinalResponse
    PROVE  /\ run' \in Runs /\ run'.exchanges = run.exchanges /\ run'.steps = run.steps
           /\ run'.rounds = run.rounds + 1 /\ OneOf(run'.plan)
           /\ place' \in {"loop", "force", "final"}
           /\ place' = "loop" => /\ run'.step = run.step + 1
                                 /\ run'.parseFailures <= ParseRetries
<1>0. /\ place = "loop" /\ ~pending /\ run.step < MaxSteps /\ AtHead(run)
      /\ run \in Runs /\ run.step \in Nat /\ run.rounds \in Nat /\ run.parseFailures \in Nat
      /\ MaxSteps \in Nat /\ ParseRetries \in Nat /\ OneOf(run.plan)
  BY TypeFacts DEF IInv, OnItsWay, OverBudget, BadResponse, PlanResponse, FilesMissing,
     FinalResponse, AsksModel, InLoop
<1>1. run.rounds <= MaxSteps /\ run.parseFailures <= ParseRetries BY <1>0 DEF AtHead
<1> DEFINE r == Round(run)
<1>2. /\ r \in Runs /\ r.rounds = run.rounds + 1 /\ r.parseFailures = run.parseFailures
      /\ r.step = run.step /\ r.exchanges = run.exchanges /\ r.steps = run.steps
      /\ r.plan = run.plan
  BY <1>0, <1>1, RoundFacts
<1>3. CASE OverBudget BY <1>0, <1>2, <1>3 DEF OverBudget
<1> HIDE DEF r
<1>4. CASE BadResponse
  <2> DEFINE failed == [r EXCEPT !.parseFailures = r.parseFailures + 1]
  <2>1. r.parseFailures + 1 \in 0..(ParseRetries + 1) BY <1>0, <1>1, <1>2
  <2>2. /\ failed \in Runs /\ failed.parseFailures = run.parseFailures + 1
        /\ failed.rounds = run.rounds + 1 /\ failed.step = run.step
        /\ failed.exchanges = run.exchanges /\ failed.steps = run.steps /\ failed.plan = run.plan
    BY <1>2, <2>1, FailuresFacts
  <2>3. IF failed.parseFailures > ParseRetries THEN place' = "force" /\ run' = failed
        ELSE run' = NextStep(failed) /\ UNCHANGED place
    BY <1>4 DEF BadResponse, r
  <2> HIDE DEF failed
  <2>4. CASE failed.parseFailures > ParseRetries BY <1>0, <2>2, <2>3, <2>4
  <2>5. CASE ~(failed.parseFailures > ParseRetries)
    <3>1. failed.parseFailures <= ParseRetries BY <1>0, <2>2, <2>5
    <3> QED BY <1>0, <2>2, <2>3, <2>5, <3>1, NextStepFacts
  <2> QED BY <2>4, <2>5
<1> DEFINE p == [r EXCEPT !.parseFailures = 0]
<1>5. /\ p \in Runs /\ p.parseFailures = 0 /\ p.rounds = run.rounds + 1 /\ p.step = run.step
      /\ p.exchanges = run.exchanges /\ p.steps = run.steps /\ p.plan = run.plan
      /\ Parsed = p
  BY <1>0, <1>2, FailuresFacts DEF Parsed, r
<1> HIDE DEF p
<1>6. CASE PlanResponse
  <2>1. PICK q \in Plans : run' = NextStep([Parsed EXCEPT !.plan = NormalizePlanSteps(q)])
    BY <1>6 DEF PlanResponse
  <2>2. NormalizePlanSteps(q) \in Seq(StepStatuses) /\ OneOf(NormalizePlanSteps(q))
    BY EngineConstants, NormalizedPlan
  <2> DEFINE d == [p EXCEPT !.plan = NormalizePlanSteps(q)]
  <2>3. /\ d \in Runs /\ d.parseFailures = 0 /\ d.rounds = run.rounds + 1 /\ d.step = run.step
        /\ d.exchanges = run.exchanges /\ d.steps = run.steps /\ d.plan = NormalizePlanSteps(q)
    BY <1>5, <2>2, PlanFacts
  <2>4. run' = NextStep(d) BY <1>5, <2>1
  <2> HIDE DEF d
  <2>5. UNCHANGED place BY <1>6 DEF PlanResponse
  <2> QED BY <1>0, <2>2, <2>3, <2>4, <2>5, NextStepFacts
<1>7. CASE FilesMissing \/ FinalResponse
  <2>1. run.plan \in Seq(StepStatuses) BY TypeFacts
  <2>2. /\ CompleteAllPlanSteps(run.plan) \in Seq(StepStatuses)
        /\ OneOf(CompleteAllPlanSteps(run.plan))
    BY <2>1, CompletedPlan
  <2> DEFINE d == [p EXCEPT !.plan = CompleteAllPlanSteps(run.plan)]
  <2>3. /\ d \in Runs /\ d.parseFailures = 0 /\ d.rounds = run.rounds + 1 /\ d.step = run.step
        /\ d.exchanges = run.exchanges /\ d.steps = run.steps
        /\ d.plan = CompleteAllPlanSteps(run.plan)
    BY <1>5, <2>2, PlanFacts
  <2>4. [Parsed EXCEPT !.plan = CompleteAllPlanSteps(@)] = d BY <1>5
  <2>5. \/ run' = NextStep(d) /\ UNCHANGED place
        \/ run' = d /\ place' = "final"
    BY <1>7, <2>4 DEF FilesMissing, FinalResponse
  <2> HIDE DEF d
  <2> QED BY <1>0, <2>2, <2>3, <2>5, NextStepFacts
<1> QED BY <1>3, <1>4, <1>6, <1>7
(* A step that leaves the loop's own state to the model keeps the rest.    *)
LEMMA ModelRoundKept ==
    ASSUME IInv, OverBudget \/ BadResponse \/ PlanResponse \/ FilesMissing \/ FinalResponse
    PROVE  IInv'
<1> USE DEF loop
<1>1. /\ run' \in Runs /\ run'.exchanges = run.exchanges /\ run'.steps = run.steps
      /\ run'.rounds = run.rounds + 1 /\ OneOf(run'.plan)
      /\ place' \in {"loop", "force", "final"}
      /\ place' = "loop" => run'.step = run.step + 1 /\ run'.parseFailures <= ParseRetries
  BY ModelRoundFacts
<1>2. /\ UNCHANGED <<loop, record, asked, report>>
      /\ place = "loop" /\ ~pending /\ run.step < MaxSteps
  BY DEF OverBudget, BadResponse, PlanResponse, FilesMissing, FinalResponse, AsksModel, InLoop
<1>3. AtHead(run) /\ batch = <<>> /\ ~approved BY <1>2 DEF IInv, OnItsWay, Covered
<1>4. /\ run.step \in Nat /\ run.rounds \in Nat /\ MaxSteps \in Nat /\ run'.step \in Nat
      /\ run.rounds <= run.step
  BY <1>1, <1>3, TypeFacts, RunFields DEF AtHead
<1>5. TypeOK' BY <1>1, <1>2 DEF IInv, TypeOK, Places
<1>6. OnItsWay'
  <2>1. ASSUME place' = "loop" PROVE AtHead(run')
    BY <1>1, <1>3, <1>4, <2>1 DEF AtHead
  <2>2. run'.rounds <= MaxSteps BY <1>1, <1>2, <1>4
  <2>3. AnsweredSoFar(run', batch')
    <3>1. AnsweredSoFar(run, batch) BY <1>3, TypeFacts, AtHeadAnswered
    <3> QED BY <1>1, <1>2, <3>1 DEF AnsweredSoFar, LastExchange
  <2> QED BY <1>1, <1>2, <1>3, <1>4, <2>1, <2>2, <2>3 DEF OnItsWay
<1>7. Parked' BY <1>1 DEF Parked
<1>8. Covered' BY <1>2, <1>3 DEF Covered
<1>9. RepeatsStopped' BY <1>1 DEF IInv, Streak, RepeatsStopped
<1>10. Streak' BY <1>1, <1>2, <1>3, <1>9 DEF IInv, Streak, CountedBy, InRow
<1> QED BY <1>1, <1>5, <1>6, <1>7, <1>8, <1>10 DEF IInv

LEMMA ToolResponseKept ==
    ASSUME IInv, ToolResponse
    PROVE  IInv'
<1>1. PICK b \in Batches :
         /\ batch' = b
         /\ run' = [Parsed EXCEPT !.exchanges = Append(@, [calls |-> b, answers |-> <<>>])]
  BY DEF ToolResponse
<1>2. /\ UNCHANGED <<pending, approved, tools, last, record, asked, report>> /\ place' = "batch"
      /\ place = "loop" /\ ~pending /\ run.step < MaxSteps
  BY DEF ToolResponse, AsksModel, InLoop
<1>3. AtHead(run) /\ batch = <<>> /\ ~approved BY <1>2 DEF IInv, OnItsWay, Covered
<1>4. /\ run \in Runs /\ run.step \in Nat /\ run.rounds \in Nat /\ MaxSteps \in Nat
      /\ run.rounds <= run.step /\ run.exchanges \in Seq(Exchanges) /\ ParseRetries \in Nat
  BY <1>3, TypeFacts DEF AtHead
<1> DEFINE r == Round(run)
           p == [r EXCEPT !.parseFailures = 0]
           e == [calls |-> b, answers |-> <<>>]
           x == Append(run.exchanges, e)
<1>5. r \in Runs /\ r.rounds = run.rounds + 1 /\ r.step = run.step /\ r.exchanges = run.exchanges
      /\ r.steps = run.steps /\ r.plan = run.plan
  BY <1>2, <1>4, RoundFacts
<1> HIDE DEF r
<1>6. /\ p \in Runs /\ p.parseFailures = 0 /\ p.rounds = run.rounds + 1 /\ p.step = run.step
      /\ p.exchanges = run.exchanges /\ p.steps = run.steps /\ p.plan = run.plan
  BY <1>4, <1>5, FailuresFacts
<1>7. Parsed = p BY DEF Parsed, r
<1> HIDE DEF p
<1>8. b \in Seq(Calls) /\ e \in Exchanges BY EngineConstants DEF Exchanges
<1>0. e.calls = b /\ e.answers = <<>> OBVIOUS
<1> HIDE DEF e
<1>9. /\ x \in Seq(Exchanges) /\ x # <<>> /\ Len(x) = Len(run.exchanges) + 1
      /\ \A i \in 1..Len(run.exchanges) : x[i] = run.exchanges[i]
      /\ x[Len(run.exchanges) + 1] = e /\ Len(run.exchanges) \in Nat
  BY <1>4, <1>8, AppendProperties, LenProperties
<1>10. run' = [p EXCEPT !.exchanges = x] BY <1>1, <1>6, <1>7 DEF e
<1> HIDE DEF x
<1>11. /\ run' \in Runs /\ run'.parseFailures = 0 /\ run'.rounds = run.rounds + 1
       /\ run'.step = run.step /\ run'.exchanges = x /\ run'.steps = run.steps
       /\ run'.plan = run.plan
  BY <1>6, <1>9, <1>10, ExchangesFacts
<1>12. TypeOK' BY <1>1, <1>2, <1>8, <1>11 DEF IInv, TypeOK, Places
<1>13. AtCall(run', batch')
  <2>1. LastExchange(run') = e BY <1>9, <1>11 DEF LastExchange
  <2>2. <<>> \o b = b BY <1>8, ConcatEmptySeq
  <2>3. \A i \in 1..Len(x) : i < Len(x) => Complete(x[i])
    BY <1>3, <1>9 DEF AtHead, Complete
  <2>4. LastExchange(run').calls = LastExchange(run').answers \o b BY <1>0, <2>1, <2>2
  <2>5. /\ run'.step < MaxSteps /\ run'.rounds <= run'.step + 1 /\ run'.parseFailures <= ParseRetries
        /\ run'.exchanges # <<>>
    BY <1>2, <1>4, <1>9, <1>11
  <2> QED BY <1>1, <1>11, <2>3, <2>4, <2>5 DEF AtCall
<1>14. OnItsWay' BY <1>2, <1>4, <1>11, <1>13 DEF OnItsWay
<1>15. Parked' BY <1>2 DEF Parked
<1>16. Covered' BY <1>2, <1>3 DEF Covered
<1>17. RepeatsStopped' BY <1>11 DEF IInv, Streak, RepeatsStopped
<1>18. Streak' BY <1>2, <1>3, <1>11, <1>17 DEF IInv, Streak, CountedBy, InRow
<1>19. OneOf(run.plan)' BY <1>11 DEF IInv
<1> QED BY <1>12, <1>14, <1>15, <1>16, <1>18, <1>19 DEF IInv

(* A row of equal successes grows with the count that stops it.            *)
LEMMA StreakGrows ==
    ASSUME IInv, HasCall, NEW o \in Outcomes,
           run'.steps = Append(run.steps, [call |-> Call, outcome |-> o]),
           approved' = approved,
           Call \in Gated => o # "ok" \/ approved,
           place' \in {"loop", "batch"} => last'.times < toolRepeatLimit,
           o = "ok" /\ place' \in {"loop", "batch"} => last' = Repeats(Call)
    PROVE  Streak'
<1> DEFINE s == [call |-> Call, outcome |-> o]
           n == Len(run.steps)
           t == run'.steps
<1>1. place = "batch" /\ batch # <<>> BY DEF HasCall
<1>2. run.steps \in Seq(Steps) /\ batch \in Seq(Calls) BY TypeFacts
<1>3. Call \in Calls BY <1>1, <1>2, HeadTailProperties DEF Call
<1>4. s \in Steps BY <1>3 DEF Steps
<1>5. n \in Nat /\ DOMAIN run.steps = 1..n BY <1>2, LenProperties
<1>6. /\ t \in Seq(Steps) /\ Len(t) = n + 1 /\ t[n + 1] = s
      /\ \A i \in 1..n : t[i] = run.steps[i]
  BY <1>2, <1>4, <1>5, AppendProperties
<1>7. DOMAIN t = 1..(n + 1) BY <1>6, LenProperties
<1>8. s.call = Call /\ s.outcome = o OBVIOUS
<1>9. RepeatsStopped /\ last \in Repetitions /\ last.times \in Nat /\ last.times < toolRepeatLimit
  BY <1>1 DEF IInv, Streak, TypeOK, Repetitions
<1>10. CountedBy(last, run.steps) \/ Call \in Gated
  BY <1>1 DEF IInv, Streak, RunsGated, Call
<1> HIDE DEF s, n, t
<1>11. ASSUME NEW i \in 1..n, o = "ok", Call \notin Gated, \A j \in i..(n + 1) : t[j] = s
       PROVE  last.call = Call /\ (n - i) + 1 <= last.times
  <2>1. \A j \in i..n : run.steps[j] = s BY <1>5, <1>6, <1>11
  <2>2. run.steps[n] = s BY <1>5, <1>11, <2>1
  <2>3. InRow(run.steps, i) BY <1>8, <1>11, <2>1, <2>2 DEF InRow, n
  <2> QED BY <1>8, <1>10, <1>11, <2>2, <2>3 DEF CountedBy, n
<1>12. ASSUME NEW i \in 1..(n + 1), i..(i + toolRepeatLimit) \subseteq 1..(n + 1),
              \A j \in i..(i + toolRepeatLimit) : t[j] = t[i]
       PROVE  t[i].outcome # "ok" \/ t[i].call \in Gated
  <2>1. i + 3 <= n + 1 BY <1>5, <1>12 DEF toolRepeatLimit
  <2>2. CASE i + 3 <= n
    <3>1. i \in DOMAIN run.steps /\ i..(i + toolRepeatLimit) \subseteq DOMAIN run.steps
      BY <1>5, <2>2 DEF toolRepeatLimit
    <3>2. \A j \in i..(i + toolRepeatLimit) : run.steps[j] = run.steps[i]
      BY <1>5, <1>6, <1>12, <3>1
    <3>3. run.steps[i].outcome # "ok" \/ run.steps[i].call \in Gated
      BY <1>9, <3>1, <3>2 DEF RepeatsStopped
    <3> QED BY <1>5, <1>6, <3>1, <3>3
  <2>3. CASE i + 3 = n + 1
    <3>1. i \in 1..n BY <1>5, <2>3
    <3>2. n + 1 \in i..(i + toolRepeatLimit) BY <1>5, <2>3 DEF toolRepeatLimit
    <3>3. t[i] = s BY <1>6, <1>12, <3>2
    <3>4. \A j \in i..(n + 1) : t[j] = s BY <1>12, <2>3, <3>3 DEF toolRepeatLimit
    <3>5. SUFFICES ASSUME o = "ok", Call \notin Gated PROVE FALSE BY <1>8, <3>3
    <3>6. (n - i) + 1 <= last.times BY <1>11, <3>1, <3>4, <3>5
    <3> QED BY <1>5, <1>9, <2>3, <3>6 DEF toolRepeatLimit
  <2> QED BY <1>5, <2>1, <2>2, <2>3
<1>13. RepeatsStopped' BY <1>7, <1>12 DEF RepeatsStopped, t
<1>14. ASSUME place' \in {"loop", "batch"} PROVE CountedBy(last', t)
  <2>1. ASSUME NEW i \in 1..(n + 1), InRow(t, i)
        PROVE  last'.call = Call /\ ((n + 1) - i) + 1 <= last'.times
    <3>1. o = "ok" /\ Call \notin Gated /\ \A j \in i..(n + 1) : t[j] = s
      BY <1>6, <1>8, <2>1 DEF InRow
    <3>2. last' = [call |-> Call, times |-> IF last.call = Call THEN last.times + 1 ELSE 1]
      BY <1>14, <3>1 DEF Repeats
    <3>3. CASE i = n + 1 BY <1>5, <1>9, <3>2, <3>3
    <3>4. CASE i \in 1..n
      <4>1. last.call = Call /\ (n - i) + 1 <= last.times BY <1>11, <3>1, <3>4
      <4> QED BY <1>5, <1>9, <3>2, <3>4, <4>1
    <3> QED BY <1>5, <3>3, <3>4
  <2> QED BY <1>6, <1>8, <2>1 DEF CountedBy
<1> QED BY <1>13, <1>14 DEF Streak, t
(* A call is recorded, answered and taken from the batch.                  *)
LEMMA AnswerKept ==
    ASSUME IInv, HasCall, NEW o \in Outcomes, NEW r \in Runs,
           r.step = run.step, r.rounds = run.rounds, r.parseFailures = run.parseFailures,
           r.exchanges = run.exchanges, OneOf(r.plan),
           r.steps = Append(run.steps, [call |-> Call, outcome |-> o]),
           run' = Answered(r), batch' = Tail(batch), place' \in {"batch", "force"},
           UNCHANGED <<pending, approved, tools, record, asked>>,
           last' \in Repetitions,
           report' \in [completed : Nat \cup {-1}, started : Nat \cup {-1}],
           Call \in Gated => o # "ok" \/ approved,
           place' = "batch" => last'.times < toolRepeatLimit,
           place' = "force" => last'.times >= toolRepeatLimit,
           o = "ok" /\ place' = "batch" => last' = Repeats(Call)
    PROVE  IInv'
<1>1. place = "batch" /\ batch # <<>> /\ AtCall(run, batch) BY DEF HasCall, IInv, OnItsWay
<1>2. batch \in Seq(Calls) BY TypeFacts
<1>3. Call \in Calls /\ Tail(batch) \in Seq(Calls) BY <1>1, <1>2, HeadTailProperties DEF Call
<1>4. r.exchanges # <<>> BY <1>1 DEF AtCall
<1>5. LET s == Answered(r) IN
      /\ s \in Runs /\ s.parseFailures = r.parseFailures /\ s.rounds = r.rounds
      /\ s.step = r.step /\ s.steps = r.steps /\ s.plan = r.plan
      /\ Len(s.exchanges) = Len(r.exchanges) /\ s.exchanges # <<>>
      /\ \A i \in 1..Len(r.exchanges) : i < Len(r.exchanges) => s.exchanges[i] = r.exchanges[i]
      /\ LastExchange(s).calls = LastExchange(r).calls
      /\ LastExchange(s).answers = Append(LastExchange(r).answers, Call)
  BY <1>3, <1>4, AnsweredFacts
<1>6. TypeOK' BY <1>3, <1>5 DEF IInv, TypeOK, Places
<1>7. AtCall(run', batch')
  <2>1. r.exchanges \in Seq(Exchanges) BY RunFields
  <2>2. Len(r.exchanges) \in Nat \ {0} BY <1>4, <2>1, EmptySeq
  <2>3. LastExchange(r) \in Exchanges BY <2>1, <2>2, ElementOfSeq DEF LastExchange
  <2>4. LastExchange(r).answers \in Seq(Calls) BY <2>3 DEF Exchanges
  <2>5. LastExchange(r) = LastExchange(run) BY DEF LastExchange
  <2>6. LastExchange(r).calls = LastExchange(r).answers \o batch BY <1>1, <2>5 DEF AtCall
  <2>7. LastExchange(r).answers \o batch = Append(LastExchange(r).answers, Call) \o Tail(batch)
    BY <1>1, <1>2, <2>4, CallMoves DEF Call
  <2>8. LastExchange(run').calls = LastExchange(run').answers \o batch' BY <1>5, <2>6, <2>7
  <2>9. \A i \in 1..Len(run'.exchanges) : i < Len(run'.exchanges) => Complete(run'.exchanges[i])
    BY <1>1, <1>5 DEF AtCall
  <2> QED BY <1>1, <1>5, <2>8, <2>9 DEF AtCall
<1>8. OnItsWay'
  <2>1. run'.rounds <= MaxSteps BY <1>1, <1>5, TypeFacts DEF AtCall
  <2>2. place' = "force" => AnsweredSoFar(run', batch') /\ CutByRepeatLimit'
    BY <1>7, <1>5, AtCallAnswered DEF CutByRepeatLimit
  <2> QED BY <1>7, <2>1, <2>2, TypeFacts DEF OnItsWay
<1>9. Parked' BY DEF Parked
<1>10. Covered' BY <1>5 DEF IInv, Covered, Covers
<1>11. Streak' BY <1>5, StreakGrows
<1>12. OneOf(run.plan)' BY <1>5
<1> QED BY <1>6, <1>8, <1>9, <1>10, <1>11, <1>12 DEF IInv

LEMMA NoRepeatFacts ==
    /\ NoRepeat \in Repetitions /\ NoRepeat.times = 0
    /\ NoReport \in [completed : Nat \cup {-1}, started : Nat \cup {-1}]
BY DEF NoRepeat, Repetitions, NoReport, toolRepeatLimit

LEMMA CallAtHand ==
    ASSUME IInv, HasCall
    PROVE  /\ Call \in Calls /\ batch \in Seq(Calls) /\ Tail(batch) \in Seq(Calls)
           /\ run \in Runs /\ place = "batch" /\ run.plan \in Seq(StepStatuses)
<1>1. batch # <<>> /\ place = "batch" BY DEF HasCall
<1> QED BY <1>1, TypeFacts, HeadTailProperties DEF Call

LEMMA RefusedKept ==
    ASSUME IInv, CallRefused \/ CallFails
    PROVE  IInv'
<1>1. PICK o \in {"refused", "failed"} : run' = Answered(RecordStep(run, o))
  BY DEF CallRefused, CallFails
<1>2. /\ HasCall /\ last' = NoRepeat /\ batch' = Tail(batch) /\ report' = NoReport
      /\ UNCHANGED <<place, pending, approved, tools, record, asked>>
  BY DEF CallRefused, CallFails, MayRun
<1>3. o \in Outcomes /\ o # "ok" BY DEF Outcomes
<1>4. Call \in Calls /\ run \in Runs /\ place = "batch" BY <1>2, CallAtHand
<1> DEFINE r == RecordStep(run, o)
<1>5. /\ r \in Runs /\ r.parseFailures = run.parseFailures /\ r.rounds = run.rounds
      /\ r.step = run.step /\ r.exchanges = run.exchanges /\ r.plan = run.plan
      /\ r.steps = Append(run.steps, [call |-> Call, outcome |-> o])
  BY <1>3, <1>4, RecordStepFacts
<1>6. run' = Answered(r) BY <1>1
<1> HIDE DEF r
<1>7. OneOf(r.plan) BY <1>5 DEF IInv
<1>8. 0 < toolRepeatLimit BY DEF toolRepeatLimit
<1> QED BY <1>2, <1>3, <1>4, <1>5, <1>6, <1>7, <1>8, NoRepeatFacts, AnswerKept

(* What a success may do to the plan and report of it.                     *)
LEMMA PlanOutcomeFacts ==
    ASSUME IInv, HasCall, NEW outcome \in PlanOutcomes
    PROVE  /\ outcome.plan \in Seq(StepStatuses) /\ OneOf(outcome.plan)
           /\ outcome.report \in [completed : Nat \cup {-1}, started : Nat \cup {-1}]
<1>1. run.plan \in Seq(StepStatuses) /\ OneOf(run.plan) BY TypeFacts DEF IInv
<1>2. CASE Call # PlanCreate
  <2>1. outcome = AdvancePlanOnSuccess(run.plan) BY <1>2 DEF PlanOutcomes
  <2>2. NormalizePlanSteps(run.plan) = run.plan BY <1>1, NormalizedSame
  <2>3. CASE run.plan = <<>>
    <3>1. outcome = [plan |-> run.plan, report |-> NoReport]
      BY <2>1, <2>3 DEF AdvancePlanOnSuccess
    <3> QED BY <1>1, <3>1, NoRepeatFacts
  <2>4. CASE run.plan # <<>>
    <3>1. outcome = [plan |-> Advanced(run.plan), report |-> Report(run.plan)]
      BY <2>1, <2>2, <2>4 DEF AdvancePlanOnSuccess
    <3> QED BY <1>1, <3>1, AdvancedPlan, ReportType
  <2> QED BY <2>3, <2>4
<1>3. CASE Call = PlanCreate
  <2>1. PICK p \in IF run.plan = NoPlan THEN {NoPlan} \cup {NormalizePlanSteps(q) : q \in Plans}
                                        ELSE {run.plan} :
           outcome = [plan |-> p, report |-> NoReport]
    BY <1>3 DEF PlanOutcomes
  <2>2. p \in Seq(StepStatuses) /\ OneOf(p)
    <3>1. CASE p = run.plan BY <1>1, <3>1
    <3>2. CASE p = NoPlan
      <4>1. OneOf(<<>>) BY DEF OneOf, Unfinished
      <4> QED BY <3>2, <4>1 DEF NoPlan
    <3>3. CASE \E q \in Plans : p = NormalizePlanSteps(q)
      BY <3>3, EngineConstants, NormalizedPlan
    <3> QED BY <2>1, <3>1, <3>2, <3>3
  <2> QED BY <2>1, <2>2, NoRepeatFacts
<1> QED BY <1>2, <1>3

LEMMA SucceedsKept ==
    ASSUME IInv, CallSucceeds
    PROVE  IInv'
<1>1. PICK outcome \in PlanOutcomes :
         /\ report' = outcome.report
         /\ LET done == [RecordStep(run, "ok") EXCEPT !.plan = outcome.plan] IN
            IF Call \in Stopping
            THEN run' = done /\ place' = "final" /\ UNCHANGED last
            ELSE /\ run' = Answered(done) /\ last' = Repeats(Call)
                 /\ place' = IF Repeats(Call).times >= toolRepeatLimit THEN "force" ELSE "batch"
  BY DEF CallSucceeds
<1>2. /\ HasCall /\ (Call \in Gated => approved) /\ batch' = Tail(batch)
      /\ UNCHANGED <<pending, approved, tools, record, asked>>
  BY DEF CallSucceeds, MayRun
<1>3. /\ Call \in Calls /\ run \in Runs /\ place = "batch" /\ Tail(batch) \in Seq(Calls)
  BY <1>2, CallAtHand
<1>4. /\ outcome.plan \in Seq(StepStatuses) /\ OneOf(outcome.plan)
      /\ outcome.report \in [completed : Nat \cup {-1}, started : Nat \cup {-1}]
  BY <1>2, PlanOutcomeFacts
<1>5. "ok" \in Outcomes BY DEF Outcomes
<1> DEFINE q == RecordStep(run, "ok")
           r == [q EXCEPT !.plan = outcome.plan]
<1>6. /\ q \in Runs /\ q.parseFailures = run.parseFailures /\ q.rounds = run.rounds
      /\ q.step = run.step /\ q.exchanges = run.exchanges
      /\ q.steps = Append(run.steps, [call |-> Call, outcome |-> "ok"])
  BY <1>3, <1>5, RecordStepFacts
<1>7. r = [RecordStep(run, "ok") EXCEPT !.plan = outcome.plan] OBVIOUS
<1> HIDE DEF q
<1>8. /\ r \in Runs /\ r.parseFailures = run.parseFailures /\ r.rounds = run.rounds
      /\ r.step = run.step /\ r.exchanges = run.exchanges /\ r.plan = outcome.plan
      /\ r.steps = Append(run.steps, [call |-> Call, outcome |-> "ok"])
  BY <1>4, <1>6, PlanFacts
<1> HIDE DEF r
<1>9. last \in Repetitions /\ last.times \in Nat /\ last.times < toolRepeatLimit
  BY <1>3 DEF IInv, Streak, TypeOK, Repetitions
<1>10. CASE Call \in Stopping
  <2>1. run' = r /\ place' = "final" /\ UNCHANGED last BY <1>1, <1>7, <1>10
  <2>2. TypeOK' BY <1>1, <1>2, <1>3, <1>4, <1>8, <2>1 DEF IInv, TypeOK, Places
  <2>3. run.rounds <= MaxSteps BY <1>3, TypeFacts DEF IInv, OnItsWay
  <2>4. OnItsWay' BY <1>8, <2>1, <2>3, TypeFacts DEF OnItsWay
  <2>5. Parked' BY <2>1 DEF Parked
  <2>6. Covered' BY <1>2, <1>8, <2>1 DEF IInv, Covered, Covers
  <2>7. Streak' BY <1>2, <1>5, <1>8, <2>1, StreakGrows
  <2> QED BY <1>4, <1>8, <2>1, <2>2, <2>4, <2>5, <2>6, <2>7 DEF IInv
<1>11. CASE Call \notin Stopping
  <2>1. /\ run' = Answered(r) /\ last' = Repeats(Call)
        /\ place' = IF Repeats(Call).times >= toolRepeatLimit THEN "force" ELSE "batch"
    BY <1>1, <1>7, <1>11
  <2>2. /\ last' \in Repetitions
        /\ place' = "batch" => last'.times < toolRepeatLimit
        /\ place' = "force" => last'.times >= toolRepeatLimit
    BY <1>3, <1>9, <2>1 DEF Repeats, Repetitions, toolRepeatLimit
  <2>3. place' \in {"batch", "force"} BY <2>1
  <2>4. report' \in [completed : Nat \cup {-1}, started : Nat \cup {-1}] BY <1>1, <1>4
  <2>5. OneOf(r.plan) BY <1>4, <1>8
  <2> QED BY <1>2, <1>5, <1>8, <2>1, <2>2, <2>3, <2>4, <2>5, AnswerKept
<1> QED BY <1>10, <1>11

(* The run pauses, and its record keeps it as it is.                       *)
LEMMA PauseKept ==
    ASSUME IInv, NEW a \in Approvals, Pause(a)
    PROVE  IInv'
<1> DEFINE new == [status |-> "pending", action |-> Call, run |-> run, batch |-> batch]
<1>1. /\ HasCall /\ Call \in Gated \ (Missing \cup Denied) /\ ~approved
      /\ record' = [record EXCEPT ![a] = new]
      /\ asked' = a /\ place' = "paused"
      /\ UNCHANGED <<run, batch, pending, approved, tools, last, report>>
  BY DEF Pause, Snapshot, loop
<1>2. /\ Call \in Calls /\ batch \in Seq(Calls) /\ run \in Runs /\ place = "batch"
  BY <1>1, CallAtHand
<1>3. record \in [Approvals -> Records] BY DEF IInv, TypeOK
<1>4. new \in Records BY <1>2 DEF Records
<1>5. new.status = "pending" /\ new.run = run /\ new.batch = batch OBVIOUS
<1> HIDE DEF new
<1>6. record' \in [Approvals -> Records] /\ record'[a] = new BY <1>1, <1>3, <1>4
<1>7. AtCall(run, batch) /\ RunsGated(batch)
  BY <1>1, <1>2 DEF IInv, OnItsWay, HasCall, RunsGated, Call
<1>8. TypeOK' BY <1>1, <1>6 DEF IInv, TypeOK, Places
<1>9. OnItsWay' BY <1>1, <1>2 DEF IInv, OnItsWay
<1>10. Parked'
  <2>1. AtCall(run', batch') /\ RunsGated(batch') BY <1>1, <1>7
  <2> QED BY <1>1, <1>5, <1>6, <2>1 DEF Parked
<1>11. Covered' BY <1>1 DEF Covered
<1>12. RepeatsStopped' BY <1>1 DEF IInv, Streak, RepeatsStopped
<1>13. Streak' BY <1>1, <1>12 DEF Streak
<1>14. OneOf(run.plan)' BY <1>1 DEF IInv
<1> QED BY <1>8, <1>9, <1>10, <1>11, <1>13, <1>14 DEF IInv

(* All the calls of a response are made: the run returns to its head.      *)
LEMMA BatchDoneKept ==
    ASSUME IInv, BatchDone
    PROVE  IInv'
<1>1. /\ place = "batch" /\ batch = <<>> /\ pending' = FALSE /\ approved' = FALSE
      /\ run' = NextStep(run) /\ place' = "loop"
      /\ UNCHANGED <<batch, tools, last, record, asked, report>>
  BY DEF BatchDone
<1>2. AtCall(run, batch) BY <1>1 DEF IInv, OnItsWay
<1>3. /\ run' \in Runs /\ run'.step = run.step + 1 /\ run'.parseFailures = run.parseFailures
      /\ run'.rounds = run.rounds /\ run'.exchanges = run.exchanges /\ run'.steps = run.steps
      /\ run'.plan = run.plan
  BY <1>1, <1>2, TypeFacts, NextStepFacts DEF AtCall
<1>4. TypeOK' BY <1>1, <1>3 DEF IInv, TypeOK, Places
<1>5. AtHead(run')
  <2>1. run.exchanges \in Seq(Exchanges) /\ run.exchanges # <<>> BY <1>2, TypeFacts DEF AtCall
  <2>2. Len(run.exchanges) \in Nat \ {0} BY <2>1, EmptySeq
  <2>3. LastExchange(run) \in Exchanges BY <2>1, <2>2, ElementOfSeq DEF LastExchange
  <2>4. LastExchange(run).answers \in Seq(Calls) BY <2>3 DEF Exchanges
  <2>5. LastExchange(run).calls = LastExchange(run).answers
    BY <1>1, <1>2, <2>4, ConcatEmptySeq DEF AtCall
  <2>6. \A i \in 1..Len(run.exchanges) : Complete(run.exchanges[i])
    BY <1>2, <2>2, <2>5 DEF AtCall, LastExchange, Complete
  <2> QED BY <1>2, <1>3, <2>6, TypeFacts DEF AtCall, AtHead
<1>6. OnItsWay'
  <2>1. run'.rounds <= MaxSteps BY <1>1, <1>3, TypeFacts DEF IInv, OnItsWay
  <2> QED BY <1>1, <1>5, <2>1, TypeFacts DEF OnItsWay
<1>7. Parked' BY <1>1 DEF Parked
<1>8. Covered' BY <1>1 DEF Covered
<1>9. RepeatsStopped' BY <1>3 DEF IInv, Streak, RepeatsStopped
<1>10. last.times < toolRepeatLimit /\ CountedBy(last, run.steps)
  BY <1>1 DEF IInv, Streak, RunsGated
<1>11. Streak' BY <1>1, <1>3, <1>9, <1>10 DEF Streak
<1>12. OneOf(run.plan)' BY <1>3 DEF IInv
<1> QED BY <1>4, <1>6, <1>7, <1>8, <1>11, <1>12 DEF IInv

LEMMA ForceConclusionKept ==
    ASSUME IInv, ForceConclusion
    PROVE  IInv'
<1> USE DEF loop
<1>1. /\ place = "force" /\ run' \in {run, Round(run)} /\ place' = "final"
      /\ UNCHANGED <<loop, record, asked, report>>
  BY DEF ForceConclusion
<1>2. run.rounds <= MaxSteps BY <1>1, TypeFacts DEF IInv, OnItsWay
<1>3. /\ run' \in Runs /\ run'.rounds \in {run.rounds, run.rounds + 1}
      /\ run'.exchanges = run.exchanges /\ run'.steps = run.steps /\ run'.plan = run.plan
  BY <1>1, <1>2, TypeFacts, RoundFacts
<1>4. TypeOK' BY <1>1, <1>3 DEF IInv, TypeOK, Places
<1>5. OnItsWay'
  <2>1. run.rounds \in Nat /\ MaxSteps \in Nat BY TypeFacts
  <2>2. run'.rounds <= MaxSteps + 1 BY <1>2, <1>3, <2>1
  <2> QED BY <1>1, <2>2 DEF OnItsWay
<1>6. Parked' BY <1>1 DEF Parked
<1>7. Covered' BY <1>1, <1>3 DEF IInv, Covered, Covers
<1>8. RepeatsStopped' BY <1>3 DEF IInv, Streak, RepeatsStopped
<1>9. Streak' BY <1>1, <1>8 DEF Streak
<1>10. OneOf(run.plan)' BY <1>3 DEF IInv
<1> QED BY <1>4, <1>5, <1>6, <1>7, <1>9, <1>10 DEF IInv

(* A decision changes the status of a pending record and nothing else.     *)
LEMMA DecideKept ==
    ASSUME IInv, NEW a \in Approvals, Decide(a)
    PROVE  IInv'
<1> USE DEF loop
<1>1. PICK s \in {"approved", "denied"} : record' = [record EXCEPT ![a].status = s]
  BY DEF Decide
<1>2. record[a].status = "pending" /\ UNCHANGED <<place, run, loop, asked, report>>
  BY DEF Decide
<1>3. record \in [Approvals -> Records] BY DEF IInv, TypeOK
<1> DEFINE new == [record[a] EXCEPT !.status = s]
<1>4. /\ new \in Records /\ new.status = s /\ new.run = record[a].run
      /\ new.batch = record[a].batch
  BY <1>3 DEF Records
<1>5. record' = [record EXCEPT ![a] = new] BY <1>1
<1> HIDE DEF new
<1>6. /\ record' \in [Approvals -> Records]
      /\ \A b \in Approvals : record'[b] = IF b = a THEN new ELSE record[b]
  BY <1>3, <1>4, <1>5
<1>7. \A b \in Approvals : record'[b].run = record[b].run /\ record'[b].batch = record[b].batch
  BY <1>4, <1>6
<1>8. TypeOK' BY <1>2, <1>6 DEF IInv, TypeOK
<1>9. OnItsWay' BY <1>2 DEF IInv, OnItsWay, AnsweredSoFar, CutByRepeatLimit
<1>10. Parked'
  <2>1. SUFFICES ASSUME place' = "paused"
                 PROVE  /\ AtCall(run', batch') /\ RunsGated(batch')
                        /\ asked' \in Approvals /\ record'[asked'].status # "none"
                        /\ record'[asked'].run = run' /\ record'[asked'].batch = batch'
    BY DEF Parked
  <2>2. /\ AtCall(run, batch) /\ RunsGated(batch) /\ asked \in Approvals
        /\ record[asked].status # "none" /\ record[asked].run = run /\ record[asked].batch = batch
    BY <1>2, <2>1 DEF IInv, Parked
  <2>3. record'[asked].status # "none" BY <1>4, <1>6, <2>2
  <2>4. AtCall(run', batch') /\ RunsGated(batch') BY <1>2, <2>2
  <2> QED BY <1>2, <1>7, <2>2, <2>3, <2>4
<1>11. Covered'
  <2>1. SUFFICES ASSUME approved PROVE pending' /\ \E b \in Approvals : Covers(b, run)'
    BY <1>2 DEF Covered
  <2>2. pending /\ \E b \in Approvals : Covers(b, run) BY <2>1 DEF IInv, Covered
  <2>3. PICK b \in Approvals : Covers(b, run) BY <2>2
  <2>4. b # a BY <1>2, <2>3 DEF Covers
  <2>5. record'[b] = record[b] BY <1>6, <2>4
  <2>6. Covers(b, run)' BY <1>2, <2>3, <2>5 DEF Covers
  <2> QED BY <1>2, <2>2, <2>6
<1>12. RepeatsStopped' BY <1>2 DEF IInv, Streak, RepeatsStopped
<1>13. Streak' BY <1>2, <1>12 DEF IInv, Streak
<1>14. OneOf(run.plan)' BY <1>2 DEF IInv
<1> QED BY <1>8, <1>9, <1>10, <1>11, <1>13, <1>14 DEF IInv

(* The resumed run is the run that was parked.                             *)
LEMMA ResumedRun ==
    ASSUME IInv, Resume
    PROVE  /\ UNCHANGED <<run, batch, record, report>> /\ place = "paused" /\ place' = "loop"
           /\ pending' = TRUE /\ approved' = TRUE /\ tools' = FALSE /\ last' = NoRepeat
           /\ asked' = NoApproval /\ asked \in Approvals /\ record[asked].status = "approved"
           /\ record[asked].run = run /\ AtCall(run, batch) /\ RunsGated(batch)
BY DEF IInv, Parked, Resume, Restored

LEMMA ResumeKept ==
    ASSUME IInv, Resume
    PROVE  IInv'
<1>1. /\ UNCHANGED <<run, batch, record, report>> /\ place = "paused" /\ place' = "loop"
      /\ pending' = TRUE /\ approved' = TRUE /\ tools' = FALSE /\ last' = NoRepeat
      /\ asked' = NoApproval /\ asked \in Approvals /\ record[asked].status = "approved"
      /\ record[asked].run = run /\ AtCall(run, batch) /\ RunsGated(batch)
  BY ResumedRun
<1>2. TypeOK' BY <1>1, NoRepeatFacts DEF IInv, TypeOK, Places
<1>3. AtCall(run', batch') /\ RunsGated(batch') BY <1>1
<1>4. OnItsWay' BY <1>1, <1>3 DEF IInv, OnItsWay
<1>5. Parked' BY <1>1 DEF Parked
<1>6. Covered'
  <2>1. record'[asked].status = "approved"
        /\ Len(record'[asked].run.exchanges) = Len(run'.exchanges)
    BY <1>1
  <2> QED BY <1>1, <2>1 DEF Covered, Covers
<1>7. RepeatsStopped' BY <1>1 DEF IInv, Streak, RepeatsStopped
<1>8. 0 < toolRepeatLimit BY DEF toolRepeatLimit
<1>9. Streak' BY <1>1, <1>3, <1>7, <1>8, NoRepeatFacts DEF Streak
<1>10. OneOf(run.plan)' BY <1>1 DEF IInv
<1> QED BY <1>2, <1>4, <1>5, <1>6, <1>9, <1>10 DEF IInv

LEMMA StutterKept ==
    ASSUME IInv, UNCHANGED vars
    PROVE  IInv'
BY DEF IInv, TypeOK, OnItsWay, AnsweredSoFar, CutByRepeatLimit, Parked, Covered, Covers, Streak,
       RepeatsStopped, vars, loop

LEMMA Kept == IInv /\ [Next]_vars => IInv'
<1> SUFFICES ASSUME IInv, [Next]_vars PROVE IInv' OBVIOUS
<1>1. CASE StepsExhausted \/ RoundFails \/ ReplayPending \/ ResumeFails BY <1>1, MovesOn
<1>2. CASE OverBudget \/ BadResponse \/ PlanResponse \/ FilesMissing \/ FinalResponse
  BY <1>2, ModelRoundKept
<1>3. CASE ToolResponse BY <1>3, ToolResponseKept
<1>4. CASE CallRefused \/ CallFails BY <1>4, RefusedKept
<1>5. CASE CallSucceeds BY <1>5, SucceedsKept
<1>6. CASE BatchDone BY <1>6, BatchDoneKept
<1>7. CASE \E a \in Approvals : Pause(a) BY <1>7, PauseKept
<1>8. CASE ForceConclusion BY <1>8, ForceConclusionKept
<1>9. CASE \E a \in Approvals : Decide(a) BY <1>9, DecideKept
<1>10. CASE Resume BY <1>10, ResumeKept
<1>11. CASE UNCHANGED vars BY <1>11, StutterKept
<1> QED
  BY <1>1, <1>2, <1>3, <1>4, <1>5, <1>6, <1>7, <1>8, <1>9, <1>10, <1>11 DEF Next, EngineStep

LEMMA Invariance == Spec => []IInv
<1>1. Init => IInv BY InitHolds
<1>2. IInv /\ [Next]_vars => IInv' BY Kept
<1> QED BY <1>1, <1>2, PTL DEF Spec
-----------------------------------------------------------------------------
(* Types, and the bounds of a run's steps, rounds and retries.             *)
THEOREM TypeCorrect == Spec => []TypeOK
<1>1. IInv => TypeOK BY DEF IInv
<1> QED BY <1>1, Invariance, PTL

(* No pause, no resume and no failure loses, repeats or reorders a call of *)
(* a response: at every request to the model all calls before are          *)
(* answered, unless the repeat limit has cut the last response.            *)
THEOREM CallsAnswered == Spec => []EveryCallAnswered
<1>1. IInv => EveryCallAnswered
  <2>1. SUFFICES ASSUME IInv PROVE EveryCallAnswered OBVIOUS
  <2>2. run \in Runs BY <2>1, TypeFacts
  <2>3. CASE place = "loop" /\ ~pending
    <3>1. AtHead(run) /\ batch = <<>> BY <2>1, <2>3 DEF IInv, OnItsWay
    <3> QED BY <2>2, <2>3, <3>1, AtHeadAnswered DEF EveryCallAnswered
  <2>4. CASE (place = "loop" /\ pending) \/ place = "batch"
    <3>1. AtCall(run, batch) BY <2>1, <2>4 DEF IInv, OnItsWay
    <3>2. ~AsksModel BY <2>4 DEF AsksModel, InLoop
    <3> QED BY <2>2, <2>4, <3>1, <3>2, AtCallAnswered DEF EveryCallAnswered
  <2>5. CASE place = "force" BY <2>1, <2>5 DEF IInv, OnItsWay, EveryCallAnswered, AsksModel, InLoop
  <2>6. CASE place \notin {"loop", "batch", "force"}
    BY <2>6 DEF EveryCallAnswered, AsksModel, InLoop
  <2> QED BY <2>1, <2>3, <2>4, <2>5, <2>6 DEF IInv, TypeOK
<1> QED BY <1>1, Invariance, PTL

(* max_steps bounds the rounds of all the parts of a run together.         *)
LEMMA BoundedNow == IInv => RoundsBounded
<1> SUFFICES ASSUME IInv PROVE RoundsBounded OBVIOUS
<1>1. place = "loop" => run.rounds <= run.step + (IF pending THEN 1 ELSE 0)
  BY TypeFacts DEF IInv, TypeOK, OnItsWay, AtHead, AtCall
<1> QED BY <1>1 DEF IInv, OnItsWay, RoundsBounded

THEOREM RoundsStayBounded == Spec => []RoundsBounded
BY BoundedNow, Invariance, PTL

(* However it is paused, a run does not repeat a call for ever: a row of   *)
(* equal successes that needs no approval ends at toolRepeatLimit.         *)
THEOREM RepeatsAreStopped == Spec => []RepeatsStopped
<1>1. IInv => RepeatsStopped BY DEF IInv, Streak
<1> QED BY <1>1, Invariance, PTL

(* "Ensure exactly one in_progress step if there are incomplete steps."    *)
THEOREM OneInProgress == Spec => []OneStepInProgress
<1>1. IInv => OneStepInProgress BY DEF IInv, OneOf, OneStepInProgress
<1> QED BY <1>1, Invariance, PTL
-----------------------------------------------------------------------------
(* What a step does to the record of the calls made: nothing, or it adds   *)
(* the call at hand.                                                       *)
LEMMA AppendOnce ==
    ASSUME NEW S, NEW s \in Seq(S), NEW x \in S, NEW y \in S
    PROVE  /\ Append(s, x) # s
           /\ Append(s, x) = Append(s, y) => x = y
           /\ Len(Append(s, x)) = Len(s) + 1 /\ SubSeq(Append(s, x), 1, Len(s)) = s
<1>1. /\ Len(s) \in Nat /\ Len(Append(s, x)) = Len(s) + 1 /\ Append(s, x)[Len(s) + 1] = x
      /\ Append(s, y)[Len(s) + 1] = y /\ Append(s, x) \in Seq(S)
      /\ \A i \in 1..Len(s) : Append(s, x)[i] = s[i]
  BY AppendProperties, LenProperties
<1>2. Append(s, x) # s BY <1>1
<1> DEFINE t == Append(s, x)
           u == SubSeq(t, 1, Len(s))
<1>3. \A i \in 1..Len(s) : t[i] \in S BY <1>1, ElementOfSeq
<1>4. /\ u \in Seq(S) /\ Len(u) = IF 1 <= Len(s) THEN Len(s) - 1 + 1 ELSE 0
      /\ \A i \in 1..(Len(s) - 1 + 1) : u[i] = t[1 + i - 1]
  BY <1>1, <1>3, SubSeqProperties
<1>5. u = s
  <2>1. Len(u) = Len(s) BY <1>1, <1>4
  <2>2. \A i \in 1..Len(u) : u[i] = s[i] BY <1>1, <1>4, <2>1
  <2> QED BY <1>4, <2>1, <2>2, SeqEqual
<1>6. ASSUME Append(s, x) = Append(s, y) PROVE x = y BY <1>1, <1>6
<1> QED BY <1>1, <1>2, <1>5, <1>6

(* A success adds the call and leaves the plan of its outcome.             *)
LEMMA SuccessFacts ==
    ASSUME IInv, CallSucceeds
    PROVE  \E outcome \in PlanOutcomes :
              /\ run'.plan = outcome.plan
              /\ run'.steps = Append(run.steps, [call |-> Call, outcome |-> "ok"])
<1>1. HasCall BY DEF CallSucceeds, MayRun
<1>2. PICK outcome \in PlanOutcomes :
         LET done == [RecordStep(run, "ok") EXCEPT !.plan = outcome.plan] IN
         run' = done \/ run' = Answered(done)
  BY DEF CallSucceeds
<1>3. Call \in Calls /\ run \in Runs /\ AtCall(run, batch) BY <1>1, CallAtHand DEF IInv, OnItsWay
<1>4. outcome.plan \in Seq(StepStatuses) BY <1>1, PlanOutcomeFacts
<1> DEFINE q == RecordStep(run, "ok")
           r == [q EXCEPT !.plan = outcome.plan]
<1>5. /\ q \in Runs /\ q.exchanges = run.exchanges
      /\ q.steps = Append(run.steps, [call |-> Call, outcome |-> "ok"])
  BY <1>3, RecordStepFacts DEF Outcomes
<1>6. run' = r \/ run' = Answered(r) BY <1>2
<1> HIDE DEF q
<1>7. /\ r \in Runs /\ r.exchanges = run.exchanges /\ r.plan = outcome.plan
      /\ r.steps = Append(run.steps, [call |-> Call, outcome |-> "ok"])
  BY <1>4, <1>5, PlanFacts
<1> HIDE DEF r
<1>8. r.exchanges # <<>> BY <1>3, <1>7 DEF AtCall
<1>9. run'.plan = r.plan /\ run'.steps = r.steps BY <1>3, <1>6, <1>7, <1>8, AnsweredFacts
<1> QED BY <1>7, <1>9

LEMMA WhatIsRecorded ==
    ASSUME IInv, [Next]_vars
    PROVE  \/ run'.steps = run.steps
           \/ \E o \in Outcomes :
                 /\ Call \in Calls
                 /\ run'.steps = Append(run.steps, [call |-> Call, outcome |-> o])
                 /\ o # "refused" => MayRun
                 /\ o = "ok" => CallSucceeds
<1>1. CASE StepsExhausted \/ RoundFails \/ ReplayPending \/ ResumeFails
  BY <1>1 DEF StepsExhausted, RoundFails, ReplayPending, ResumeFails
<1>2. CASE OverBudget \/ BadResponse \/ PlanResponse \/ FilesMissing \/ FinalResponse
  BY <1>2, ModelRoundFacts
<1>3. CASE ToolResponse
  <2>1. PICK b \in Batches :
          run' = [Parsed EXCEPT !.exchanges = Append(@, [calls |-> b, answers |-> <<>>])]
    BY <1>3 DEF ToolResponse
  <2>2. run \in Runs BY TypeFacts
  <2> QED BY <2>1, <2>2 DEF Parsed, Round, Runs
<1>4. ASSUME NEW o \in Outcomes, HasCall, run' = Answered(RecordStep(run, o))
      PROVE  Call \in Calls /\ run'.steps = Append(run.steps, [call |-> Call, outcome |-> o])
  <2>1. Call \in Calls /\ run \in Runs /\ AtCall(run, batch)
    BY <1>4, CallAtHand DEF IInv, OnItsWay
  <2> DEFINE r == RecordStep(run, o)
  <2>2. /\ r \in Runs /\ r.exchanges = run.exchanges
        /\ r.steps = Append(run.steps, [call |-> Call, outcome |-> o])
    BY <2>1, RecordStepFacts
  <2>3. run' = Answered(r) BY <1>4
  <2> HIDE DEF r
  <2>4. run'.steps = r.steps BY <2>1, <2>2, <2>3, AnsweredFacts DEF AtCall
  <2> QED BY <2>1, <2>2, <2>4
<1>5. CASE CallRefused
  BY <1>4, <1>5 DEF CallRefused, Outcomes
<1>6. CASE CallFails
  <2>1. MayRun /\ HasCall /\ run' = Answered(RecordStep(run, "failed"))
    BY <1>6 DEF CallFails, MayRun
  <2> QED BY <1>4, <2>1 DEF Outcomes
<1>7. CASE CallSucceeds
  <2>1. HasCall /\ MayRun BY <1>7 DEF CallSucceeds, MayRun
  <2>2. Call \in Calls /\ run \in Runs /\ AtCall(run, batch)
    BY <2>1, CallAtHand DEF IInv, OnItsWay
  <2>3. "ok" \in Outcomes BY DEF Outcomes
  <2>4. run'.steps = Append(run.steps, [call |-> Call, outcome |-> "ok"])
    BY <1>7, SuccessFacts
  <2> QED BY <1>7, <2>1, <2>2, <2>3, <2>4
<1>8. CASE BatchDone
  <2>1. AtCall(run, batch) BY <1>8 DEF BatchDone, IInv, OnItsWay
  <2> QED BY <1>8, <2>1, TypeFacts, NextStepFacts DEF BatchDone, AtCall
<1>9. CASE \E a \in Approvals : Pause(a) BY <1>9 DEF Pause
<1>10. CASE ForceConclusion
  <2>1. run.rounds <= MaxSteps BY <1>10, TypeFacts DEF IInv, OnItsWay, ForceConclusion
  <2> QED BY <1>10, <2>1, TypeFacts, RoundFacts DEF ForceConclusion
<1>11. CASE \E a \in Approvals : Decide(a) BY <1>11 DEF Decide
<1>12. CASE Resume BY <1>12, ResumedRun
<1>13. CASE UNCHANGED vars BY <1>13 DEF vars
<1> QED
  BY <1>1, <1>2, <1>3, <1>5, <1>6, <1>7, <1>8, <1>9, <1>10, <1>11, <1>12, <1>13
  DEF Next, EngineStep
-----------------------------------------------------------------------------
(* A call that needs an approval is made only while the approval of a      *)
(* pause in this response is in force, whatever was approved before it.    *)
THEOREM ApprovalNeeded == Spec => GatedNeedsApproval
<1>1. ASSUME IInv, [Next]_vars, NEW c \in Gated, RunsCall(c)
      PROVE  \E a \in Approvals : Covers(a, run)
  <2>1. PICK o \in {"ok", "failed"} :
          run'.steps = Append(run.steps, [call |-> c, outcome |-> o])
    BY <1>1 DEF RunsCall
  <2>2. c \in Calls BY EngineConstants
  <2>3. run.steps \in Seq(Steps) /\ [call |-> c, outcome |-> o] \in Steps
    BY <1>1, <2>2, TypeFacts DEF Steps, Outcomes
  <2>4. run'.steps # run.steps BY <2>1, <2>3, AppendOnce
  <2>5. PICK p \in Outcomes :
          /\ Call \in Calls
          /\ run'.steps = Append(run.steps, [call |-> Call, outcome |-> p])
          /\ p # "refused" => MayRun
    BY <1>1, <2>4, WhatIsRecorded
  <2>6. [call |-> Call, outcome |-> p] \in Steps BY <2>5 DEF Steps
  <2>7. [call |-> Call, outcome |-> p] = [call |-> c, outcome |-> o]
    BY <2>1, <2>3, <2>5, <2>6, AppendOnce
  <2>8. Call = c /\ p = o BY <2>7
  <2>9. approved BY <2>1, <2>5, <2>8 DEF MayRun
  <2> QED BY <1>1, <2>9 DEF IInv, Covered
<1>2. IInv /\ [Next]_vars =>
        [\A c \in Gated : RunsCall(c) =>
           \E a \in Approvals :
              /\ record[a].status = "approved"
              /\ Len(record[a].run.exchanges) = Len(run.exchanges)]_vars
  BY <1>1 DEF Covers
<1> QED BY <1>2, Invariance, PTL DEF Spec, GatedNeedsApproval

(* A run, paused and resumed or not, keeps the record of all its calls.    *)
THEOREM NothingForgotten == Spec => ResumeForgetsNothing
<1>1. ASSUME IInv, [Next]_vars
      PROVE  \E k \in 0..1 : /\ Len(run'.steps) = Len(run.steps) + k
                             /\ SubSeq(run'.steps, 1, Len(run.steps)) = run.steps
  <2>1. run.steps \in Seq(Steps) /\ Len(run.steps) \in Nat BY <1>1, TypeFacts, LenProperties
  <2>2. CASE run'.steps = run.steps
    <3>1. SubSeq(run.steps, 1, Len(run.steps)) = run.steps BY <2>1, SubSeqFull
    <3>2. Len(run'.steps) = Len(run.steps) + 0 BY <2>1, <2>2
    <3> QED BY <2>2, <3>1, <3>2
  <2>3. CASE run'.steps # run.steps
    <3>1. PICK o \in Outcomes :
            Call \in Calls /\ run'.steps = Append(run.steps, [call |-> Call, outcome |-> o])
      BY <1>1, <2>3, WhatIsRecorded
    <3>2. [call |-> Call, outcome |-> o] \in Steps BY <3>1 DEF Steps
    <3>3. /\ Len(run'.steps) = Len(run.steps) + 1
          /\ SubSeq(run'.steps, 1, Len(run.steps)) = run.steps
      BY <2>1, <3>1, <3>2, AppendOnce
    <3> QED BY <3>3
  <2> QED BY <2>2, <2>3
<1>2. IInv => RoundsBounded /\ RepeatsStopped BY BoundedNow DEF IInv, Streak
<1>3. IInv /\ IInv' /\ [Next]_vars =>
        [/\ \E k \in 0..1 : /\ Len(run'.steps) = Len(run.steps) + k
                           /\ SubSeq(run'.steps, 1, Len(run.steps)) = run.steps
         /\ RoundsBounded' /\ RepeatsStopped']_vars
  <2>1. IInv' => RoundsBounded' /\ RepeatsStopped' BY <1>2, PTL
  <2> QED BY <1>1, <2>1
<1> QED BY <1>3, Invariance, PTL DEF Spec, ResumeForgetsNothing

(* A success of a tool completes exactly one more step of an unfinished    *)
(* plan, and takes none back.                                              *)
THEOREM PlanMovesForward == Spec => PlanAdvances
<1>1. ASSUME IInv, [Next]_vars, Succeeds, run.plan # NoPlan
      PROVE  run'.plan = Advanced(run.plan)
  <2>1. PICK c \in Calls \ {PlanCreate} :
          run'.steps = Append(run.steps, [call |-> c, outcome |-> "ok"])
    BY <1>1 DEF Succeeds
  <2>2. run.steps \in Seq(Steps) /\ [call |-> c, outcome |-> "ok"] \in Steps
    BY <1>1, TypeFacts DEF Steps, Outcomes
  <2>3. run'.steps # run.steps BY <2>1, <2>2, AppendOnce
  <2>4. PICK o \in Outcomes :
          /\ Call \in Calls
          /\ run'.steps = Append(run.steps, [call |-> Call, outcome |-> o])
          /\ o = "ok" => CallSucceeds
    BY <1>1, <2>3, WhatIsRecorded
  <2>5. [call |-> Call, outcome |-> o] \in Steps BY <2>4 DEF Steps
  <2>6. [call |-> Call, outcome |-> o] = [call |-> c, outcome |-> "ok"]
    BY <2>1, <2>2, <2>4, <2>5, AppendOnce
  <2>7. Call = c /\ o = "ok" BY <2>6
  <2>8. PICK outcome \in PlanOutcomes : run'.plan = outcome.plan
    BY <1>1, <2>4, <2>7, SuccessFacts
  <2>9. outcome = AdvancePlanOnSuccess(run.plan) BY <2>7, <2>8 DEF PlanOutcomes
  <2>10. NormalizePlanSteps(run.plan) = run.plan
    BY <1>1, TypeFacts, NormalizedSame DEF IInv
  <2>11. outcome = [plan |-> Advanced(run.plan), report |-> Report(run.plan)]
    BY <1>1, <2>9, <2>10 DEF AdvancePlanOnSuccess, NoPlan
  <2> QED BY <2>8, <2>11
<1>2. ASSUME IInv, [Next]_vars, Succeeds, run.plan # NoPlan
      PROVE  /\ Done(run.plan) \subseteq Done(run'.plan)
             /\ Unfinished(run.plan) =>
                   Cardinality(Done(run'.plan)) = Cardinality(Done(run.plan)) + 1
  <2>1. run'.plan = Advanced(run.plan) BY <1>1, <1>2
  <2>2. run.plan \in Seq(StepStatuses) /\ OneOf(run.plan) BY <1>2, TypeFacts DEF IInv
  <2>3. CASE ~Unfinished(run.plan)
    <3>1. run'.plan = run.plan BY <2>1, <2>2, <2>3, AdvancedPlan
    <3> QED BY <2>3, <3>1
  <2>4. CASE Unfinished(run.plan)
    <3>1. PICK i \in DOMAIN run.plan \ Done(run.plan) :
            Done(Advanced(run.plan)) = Done(run.plan) \cup {i}
      BY <2>2, <2>4, AdvancedPlan
    <3>2. DOMAIN run.plan = 1..Len(run.plan) /\ Len(run.plan) \in Nat
      BY <2>2, LenProperties
    <3>3. IsFiniteSet(DOMAIN run.plan) BY <3>2, FS_Interval
    <3>4. Done(run.plan) \subseteq DOMAIN run.plan BY DEF Done
    <3>5. IsFiniteSet(Done(run.plan)) BY <3>3, <3>4, FS_Subset
    <3>6. Cardinality(Done(run.plan) \cup {i}) = Cardinality(Done(run.plan)) + 1
      BY <3>1, <3>5, FS_AddElement
    <3> QED BY <2>1, <3>1, <3>6
  <2> QED BY <2>3, <2>4
<1>3. IInv => OneStepInProgress BY DEF IInv, OneOf, OneStepInProgress
<1>4. IInv /\ IInv' /\ [Next]_vars =>
        [/\ OneStepInProgress'
         /\ Succeeds /\ run.plan # NoPlan =>
               /\ Done(run.plan) \subseteq Done(run'.plan)
               /\ Unfinished(run.plan) =>
                     Cardinality(Done(run'.plan)) = Cardinality(Done(run.plan)) + 1]_vars
  <2>1. IInv' => OneStepInProgress' BY <1>3, PTL
  <2> QED BY <1>2, <2>1
<1> QED BY <1>4, Invariance, PTL DEF Spec, PlanAdvances
=============================================================================
