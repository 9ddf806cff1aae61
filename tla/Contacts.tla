------------------------------- MODULE Contacts -------------------------------
(***************************************************************************)
(* The contacts book (contacts/service.go over contacts/file_store.go).    *)
(* Every actor is a call of a command, a tool or the Telegram runtime,     *)
(* each with a FileStore of its own: only the lock file state.main orders  *)
(* their writes, and nothing orders their reads.  A call reads contacts,   *)
(* works on its copies (perhaps over the network) and puts them back one   *)
(* by one.  A put rewrites active.md, then inactive.md, under the lock.    *)
(*                                                                         *)
(* Left out: which contacts score best (the choice is open), the fields no *)
(* decision here depends on, and the audit events, whose failures the code *)
(* ignores.                                                                *)
(***************************************************************************)
EXTENDS Naturals, FiniteSets, FiniteSetsExt

CONSTANTS
    Actors,      \* the processes (or goroutines with a store of their own)
    People,      \* contact ids, naturals in the order of the ids
    MaxActive,   \* DefaultMaxActiveContacts
    MaxTargets,  \* DefaultMaxTargetsPerTick
    FailureDays, \* the service's failureCooldown
    FreshDays,   \* DefaultFreshnessWindow
    Interests,   \* bound: the interest of the sessions a run starts with
    Books,       \* bound: where each contact is when a run starts
    Horizon,     \* bound: the last day of a run
    MaxCalls     \* bound: the calls made in a run

ASSUME ContactsAssumption ==
    /\ People \subseteq Nat /\ IsFiniteSet(People)
    /\ IsFiniteSet(Actors) /\ "nobody" \notin Actors
    /\ {MaxActive, MaxTargets} \subseteq Nat \ {0}
    /\ {FailureDays, FreshDays, Horizon, MaxCalls} \subseteq Nat
    /\ Interests \subseteq 0 .. 100
    /\ Books \subseteq [People -> {"active", "inactive", "absent"}]

VARIABLES
    active, inactive, \* active.md and inactive.md: a record per contact, or NoOne
    sessions,         \* interest of the session with each contact, in hundredths
    candidate,        \* the day the newest share candidate was created
    lock,             \* who holds state.main, or Nobody
    today,            \* the clock, in days
    do,               \* what each actor is doing, and its copies
    calls,            \* calls made so far
    \* history, which no action depends on:
    sent,    \* per contact, the messages delivered to it
    quiet,   \* per contact, the day until which it is to be left alone
    excused, \* contacts with a write lost to a stale copy, a fresh record or a cut
    torn     \* contacts one of whose puts was cut between the two files

files == <<active, inactive>>
history == <<sent, quiet, excused, torn>>
vars == <<files, sessions, candidate, lock, today, do, calls, history>>

Nobody == "nobody"
NoOne == [cool |-> 0, shares |-> 0, on |-> "absent"]
Contact(on) == [NoOne EXCEPT !.on = on]
Days == 0 .. Horizon + Max({FailureDays, 3})
Records == [cool: Days, shares: 0 .. MaxCalls * MaxTargets, on: {"active", "inactive", "absent"}]
Known(file) == {c \in People : file[c] # NoOne}

Ticks == {"tick", "rank"}
Feedback == {"positive", "neutral", "negative"}
Creating == {"upsert", "sync", "edit", "observe"}
Ops == Ticks \cup Feedback \cup Creating \cup {"status", "send", "refresh"}
Stages == {"single", "nicknames", "preferences", "sends", "keeps"}
Idle == [op |-> "none", pc |-> "idle", who |-> 0, at |-> 0, stage |-> "single",
         copy |-> [c \in People |-> NoOne], todo |-> {}, level |-> 0,
         stale |-> {}] \* stale is history: the contacts others wrote since they were read

Init ==
    /\ \E on \in Books :
         /\ active = [c \in People |-> IF on[c] = "active" THEN Contact("active") ELSE NoOne]
         /\ inactive = [c \in People |-> IF on[c] = "inactive" THEN Contact("inactive") ELSE NoOne]
    /\ \E i \in Interests : sessions = [c \in People |-> i]
    /\ candidate = 0
    /\ lock = Nobody
    /\ today = 0
    /\ do = [a \in Actors |-> Idle]
    /\ calls = 0
    /\ sent = [c \in People |-> 0]
    /\ quiet = [c \in People |-> 0]
    /\ excused = {}
    /\ torn = {}

-----------------------------------------------------------------------------
(* A call starts: a command, a tool called by the model, or the Telegram   *)
(* runtime on an inbound message or the end of a session.                  *)

Start(a, op, pc, c) ==
    /\ do[a] = Idle
    /\ calls < MaxCalls
    /\ calls' = calls + 1
    /\ do' = [do EXCEPT ![a] = [Idle EXCEPT !.op = op, !.pc = pc, !.who = c, !.at = today]]
    /\ UNCHANGED <<files, sessions, candidate, lock, today, history>>

Contacting(a, op) == \E c \in People : Start(a, op, "get", c)

UpsertCommand(a) == Contacting(a, "upsert")
SetStatusCommand(a) == Contacting(a, "status")
SyncMAEP(a) == Contacting(a, "sync")
TickCommand(a) == Start(a, "tick", "list", 0)
UpsertTool(a) == Contacting(a, "edit")
SendTool(a) == Contacting(a, "send")
RankTool(a) == Start(a, "rank", "list", 0)
ObserveTelegram(a) == Contacting(a, "observe")
ObserveMAEP(a) == Contacting(a, "observe")
TelegramFeedback(a) == Contacting(a, "positive")
MAEPFeedback(a) == \E signal \in Feedback : Contacting(a, signal)
SessionEnd(a) == Contacting(a, "refresh")

(* AddCandidate reads and writes the candidates under the lock.            *)
AddCandidate(a) ==
    /\ do[a] = Idle
    /\ calls < MaxCalls
    /\ lock = Nobody
    /\ candidate # today
    /\ calls' = calls + 1
    /\ candidate' = today
    /\ UNCHANGED <<files, sessions, lock, today, do, history>>

Finish(a) == do' = [do EXCEPT ![a] = Idle]

(* GetContact reads active.md and then inactive.md, without the lock.      *)
Take(a, rec) == do' = [do EXCEPT ![a] = [@ EXCEPT !.copy[do[a].who] = rec, !.pc = "act"]]

GetActive(a) ==
    /\ do[a].pc = "get"
    /\ IF active[do[a].who] # NoOne
       THEN Take(a, active[do[a].who])
       ELSE do' = [do EXCEPT ![a].pc = "more"]
    /\ UNCHANGED <<files, sessions, candidate, lock, today, calls, history>>

GetInactive(a) ==
    /\ do[a].pc = "more"
    /\ IF inactive[do[a].who] = NoOne /\ do[a].op \notin Creating
       THEN Finish(a)
       ELSE Take(a, inactive[do[a].who])
    /\ UNCHANGED <<files, sessions, candidate, lock, today, calls, history>>

-----------------------------------------------------------------------------
(* PutContact: with the lock held, both files are read, the contact is     *)
(* taken out of both and added to one, active.md is saved and then         *)
(* inactive.md.                                                            *)

Put(a, c, rec) ==
    do' = [do EXCEPT ![a] =
             IF do[a].op \in Ticks
             THEN [do[a] EXCEPT !.who = c, !.copy[c] = rec, !.pc = "put", !.todo = @ \ {c}]
             ELSE [Idle EXCEPT !.op = "write", !.who = c, !.copy[c] = rec, !.pc = "put",
                               !.stale = do[a].stale]]
In(file, rec) == IF rec.on = file THEN rec ELSE NoOne

(* The step of a, seen by the others whose copy of c it makes stale.       *)
Wrote(a, c, mine) ==
    do' = [b \in Actors |->
             IF b = a THEN mine
             ELSE IF do[b].pc \in {"idle", "get", "list"} THEN do[b]
             ELSE [do[b] EXCEPT !.stale = @ \cup {c}]]

SaveActive(a) ==
    /\ do[a].pc = "put"
    /\ lock = Nobody
    /\ LET c == do[a].who IN
       /\ active' = [active EXCEPT ![c] = In("active", do[a].copy[c])]
       /\ lock' = a
       /\ Wrote(a, c, [do[a] EXCEPT !.pc = "save"])
       /\ excused' = IF c \in do[a].stale THEN excused \cup {c} ELSE excused
    /\ UNCHANGED <<inactive, sessions, candidate, today, calls, sent, quiet, torn>>

Resumed(a, c) ==
    [do[a] EXCEPT !.pc = "act", !.who = 0,
                  !.copy[c] = IF do[a].stage \in {"sends", "keeps"} THEN NoOne ELSE @]

(* Variant: a contact that became active is left in inactive.md.           *)
SaveInactiveAdds(a) ==
    /\ do[a].pc = "save"
    /\ LET c == do[a].who IN
       /\ inactive' = IF do[a].copy[c].on = "inactive" THEN [inactive EXCEPT ![c] = do[a].copy[c]] ELSE inactive
       /\ torn' = torn \ {c}
       /\ Wrote(a, c, IF do[a].op \in Ticks THEN Resumed(a, c) ELSE Idle)
    /\ lock' = Nobody
    /\ UNCHANGED <<active, sessions, candidate, today, calls, sent, quiet, excused>>

SaveInactive(a) ==
    /\ do[a].pc = "save"
    /\ LET c == do[a].who IN
       /\ inactive' = [inactive EXCEPT ![c] = In("inactive", do[a].copy[c])]
       /\ torn' = torn \ {c}
       /\ Wrote(a, c, IF do[a].op \in Ticks THEN Resumed(a, c) ELSE Idle)
    /\ lock' = Nobody
    /\ UNCHANGED <<active, sessions, candidate, today, calls, sent, quiet, excused>>

(* The call fails or its process is killed: the lock goes with it, and     *)
(* what it had not yet put is lost.                                        *)
Cut(a) ==
    /\ do[a] # Idle
    /\ lock' = IF lock = a THEN Nobody ELSE lock
    /\ torn' = IF do[a].pc = "save" THEN torn \cup {do[a].who} ELSE torn
    /\ excused' = IF do[a].pc \in {"session", "put", "save"}
                  THEN excused \cup {do[a].who} ELSE excused
    /\ Finish(a)
    /\ UNCHANGED <<files, sessions, candidate, today, calls, sent, quiet>>

-----------------------------------------------------------------------------
(* The calls about one contact, once it has been read.                     *)

Acts(a, op) == do[a].pc = "act" /\ do[a].op = op
Mine(a) == do[a].copy[do[a].who]

(* The command and sync-maep give UpsertContact a record of their own: it  *)
(* keeps the texts and the creation time of the record found, and nothing  *)
(* else of it.  sync-maep makes every contact it imports active.           *)
Upsert(a) ==
    /\ do[a].pc = "act"
    /\ \/ do[a].op = "upsert" /\ \E on \in {"active", "inactive"} : Put(a, do[a].who, Contact(on))
       \/ do[a].op = "sync" /\ Put(a, do[a].who, Contact("active"))
    /\ excused' = excused \cup {do[a].who}
    /\ UNCHANGED <<files, sessions, candidate, lock, today, calls, sent, quiet, torn>>

(* contacts_upsert and the observers change a copy of the record they      *)
(* find; only the tool can change its status.                              *)
Edit(a) ==
    /\ do[a].pc = "act"
    /\ \/ /\ do[a].op \in {"edit", "observe"}
          /\ Put(a, do[a].who, IF Mine(a) = NoOne THEN Contact("active") ELSE Mine(a))
       \/ /\ do[a].op = "edit"
          /\ \E on \in {"active", "inactive"} :
                Put(a, do[a].who, IF Mine(a) = NoOne THEN Contact(on) ELSE [Mine(a) EXCEPT !.on = on])
    /\ UNCHANGED <<files, sessions, candidate, lock, today, calls, history>>

SetStatus(a) ==
    /\ Acts(a, "status")
    /\ \E on \in {"active", "inactive"} : Put(a, do[a].who, [Mine(a) EXCEPT !.on = on])
    /\ UNCHANGED <<files, sessions, candidate, lock, today, calls, history>>

(* RefreshContactPreferences puts the contact when the extractor changes   *)
(* a preference; the record keeps what is modelled here.                   *)
Refresh(a) ==
    /\ Acts(a, "refresh")
    /\ Put(a, do[a].who, Mine(a)) \/ Finish(a)
    /\ UNCHANGED <<files, sessions, candidate, lock, today, calls, history>>

(* Variant: the cooldown is not looked at.                                 *)
EligibleWhenActive(rec, now) == rec.on = "active"
Eligible(rec, now) == rec.on = "active" /\ rec.cool <= now

(* Variant: the share is not counted.                                      *)
DeliverUncounted(a, c, rec) ==
    /\ Put(a, c, rec)
    /\ sent' = [sent EXCEPT ![c] = @ + 1]
    /\ UNCHANGED quiet

(* A message goes out or fails, and the copy is marked to be put.          *)
Deliver(a, c, rec) ==
    \/ /\ Put(a, c, [rec EXCEPT !.shares = @ + 1])
       /\ sent' = [sent EXCEPT ![c] = @ + 1]
       /\ UNCHANGED quiet
    \/ /\ Put(a, c, [rec EXCEPT !.cool = do[a].at + FailureDays])
       /\ quiet' = [quiet EXCEPT ![c] = do[a].at + FailureDays]
       /\ UNCHANGED sent

SendDecision(a) ==
    /\ Acts(a, "send")
    /\ IF Eligible(Mine(a), do[a].at)
       THEN Deliver(a, do[a].who, Mine(a))
       ELSE Finish(a) /\ UNCHANGED <<sent, quiet>>
    /\ UNCHANGED <<files, sessions, candidate, lock, today, calls, excused, torn>>

(* UpdateFeedback: the session is read, moved by the signal and put, and   *)
(* then the contact, which a negative signal in a session of low interest  *)
(* sets aside for one to three days.                                       *)
Moved(level, signal) ==
    CASE signal = "positive" -> Min({100, level + 15})
      [] signal = "neutral"  -> IF level < 2 THEN 0 ELSE level - 2
      [] signal = "negative" -> IF level < 20 THEN 0 ELSE level - 20

(* negativeCooldownDuration.  On a bound the sum of the binary fractions   *)
(* may lie on either side.                                                 *)
CooldownDays(level) ==
    (IF level <= 10 THEN {3} ELSE {}) \cup
    (IF 10 <= level /\ level <= 20 THEN {2} ELSE {}) \cup
    (IF 20 <= level /\ level <= 30 THEN {1} ELSE {}) \cup
    (IF 30 <= level THEN {0} ELSE {})

UpdateFeedback(a) ==
    /\ do[a].op \in Feedback /\ do[a].pc = "act"
    /\ LET c == do[a].who
           level == Moved(sessions[c], do[a].op)
       IN \E days \in IF do[a].op = "negative" THEN CooldownDays(level) ELSE {0} :
             LET until == IF days = 0 THEN Mine(a).cool ELSE do[a].at + days IN
             /\ do' = [do EXCEPT ![a] = [@ EXCEPT !.op = "write", !.level = level, !.at = 0,
                                                  !.copy[c].cool = until, !.pc = "session"]]
             /\ quiet' = IF days = 0 THEN quiet ELSE [quiet EXCEPT ![c] = until]
    /\ UNCHANGED <<files, sessions, candidate, lock, today, calls, sent, excused, torn>>

PutSession(a) ==
    /\ do[a].pc = "session"
    /\ lock = Nobody
    /\ sessions' = [sessions EXCEPT ![do[a].who] = do[a].level]
    /\ do' = [do EXCEPT ![a] = [@ EXCEPT !.pc = "put", !.level = 0]]
    /\ UNCHANGED <<files, candidate, lock, today, calls, history>>

-----------------------------------------------------------------------------
(* RunTick, by the tick command (sending or dry) and by the tool           *)
(* contacts_candidate_rank.  Its copies are those of the first reading;    *)
(* what comes last, the rebalancing, reads again.                          *)

At(a, stage) == do[a].pc = "act" /\ do[a].op \in Ticks /\ do[a].stage = stage
Enter(a, stage, todo) == \* with the copies of todo
    do' = [do EXCEPT ![a] =
             [@ EXCEPT !.stage = stage, !.todo = todo,
                       !.copy = [c \in People |-> IF c \in todo THEN do[a].copy[c] ELSE NoOne]]]

ListContacts(a) ==
    /\ do[a].pc = "list"
    /\ do' = [do EXCEPT ![a] =
                [@ EXCEPT !.pc = "act", !.copy = active, !.stage = "nicknames",
                          !.todo = IF do[a].op = "rank" THEN {} ELSE Known(active)]]
    /\ UNCHANGED <<files, sessions, candidate, lock, today, calls, history>>

(* Contacts are taken in the order of their ids; those passed over keep    *)
(* their nickname, or their preferences.                                   *)
Rewrite(a, stage) ==
    /\ At(a, stage)
    /\ \E c \in do[a].todo :
          do' = [do EXCEPT ![a] = [@ EXCEPT !.who = c, !.pc = "put",
                                            !.todo = {d \in do[a].todo : d > c}]]
    /\ UNCHANGED <<files, sessions, candidate, lock, today, calls, history>>

AssignNickname(a) == Rewrite(a, "nicknames")
ApplyPreferences(a) == Rewrite(a, "preferences")

Fresh(now) == candidate + FreshDays >= now
Chosen(a) == {c \in People : Eligible(do[a].copy[c], do[a].at)}

(* The candidates are read; without a fresh one nothing is extracted and   *)
(* nothing is decided.                                                     *)
ReadCandidates(a) ==
    /\ At(a, "nicknames")
    /\ IF Fresh(do[a].at) THEN Enter(a, "preferences", Chosen(a)) ELSE Enter(a, "sends", {})
    /\ UNCHANGED <<files, sessions, candidate, lock, today, calls, history>>

Decide(a) ==
    /\ At(a, "preferences")
    /\ IF do[a].op = "tick"
       THEN \E d \in SUBSET Chosen(a) : Cardinality(d) <= MaxTargets /\ Enter(a, "sends", d)
       ELSE Enter(a, "sends", {})
    /\ UNCHANGED <<files, sessions, candidate, lock, today, calls, history>>

SendNext(a) ==
    /\ At(a, "sends")
    /\ \E c \in do[a].todo : Deliver(a, c, do[a].copy[c])
    /\ UNCHANGED <<files, sessions, candidate, lock, today, calls, excused, torn>>

(* Variant: one contact more than MaxActive may stay.                      *)
RebalanceOneMore(a) ==
    /\ At(a, "sends") /\ do[a].todo = {}
    /\ IF Cardinality(Known(active)) <= MaxActive
       THEN Finish(a)
       ELSE \E best \in kSubset(MaxActive + 1, Known(active)) :
              do' = [do EXCEPT ![a] =
                       [@ EXCEPT !.stage = "keeps", !.todo = Known(active), !.stale = {}, !.at = 0,
                                 !.copy = [c \in People |->
                         IF c \in Known(active) \ best THEN [active[c] EXCEPT !.on = "inactive"]
                         ELSE active[c]]]]
    /\ UNCHANGED <<files, sessions, candidate, lock, today, calls, history>>

(* rebalanceActiveContacts: no more than MaxActive contacts stay active.   *)
(* The list asked for is that of all contacts, and the one given is that   *)
(* of the active ones.                                                     *)
Rebalance(a) ==
    /\ At(a, "sends") /\ do[a].todo = {}
    /\ IF Cardinality(Known(active)) <= MaxActive
       THEN Finish(a)
       ELSE \E best \in kSubset(MaxActive, Known(active)) :
              do' = [do EXCEPT ![a] =
                       [@ EXCEPT !.stage = "keeps", !.todo = Known(active), !.stale = {}, !.at = 0,
                                 !.copy = [c \in People |->
                         IF c \in Known(active) \ best THEN [active[c] EXCEPT !.on = "inactive"]
                         ELSE active[c]]]]
    /\ UNCHANGED <<files, sessions, candidate, lock, today, calls, history>>

KeepNext(a) ==
    /\ At(a, "keeps")
    /\ \/ \E c \in do[a].todo : Put(a, c, do[a].copy[c])
       \/ do[a].todo = {} /\ Finish(a)
    /\ UNCHANGED <<files, sessions, candidate, lock, today, calls, history>>

NextDay ==
    /\ today < Horizon
    /\ today' = today + 1
    /\ UNCHANGED <<files, sessions, candidate, lock, do, calls, history>>

Next ==
    \/ NextDay
    \/ \E a \in Actors :
         \/ UpsertCommand(a) \/ SetStatusCommand(a) \/ SyncMAEP(a) \/ TickCommand(a)
         \/ UpsertTool(a) \/ SendTool(a) \/ RankTool(a)
         \/ ObserveTelegram(a) \/ ObserveMAEP(a)
         \/ TelegramFeedback(a) \/ MAEPFeedback(a) \/ SessionEnd(a)
         \/ AddCandidate(a) \/ GetActive(a) \/ GetInactive(a)
         \/ SaveActive(a) \/ SaveInactive(a) \/ Cut(a)
         \/ Upsert(a) \/ Edit(a) \/ SetStatus(a) \/ Refresh(a) \/ SendDecision(a)
         \/ UpdateFeedback(a) \/ PutSession(a)
         \/ ListContacts(a) \/ AssignNickname(a) \/ ReadCandidates(a)
         \/ ApplyPreferences(a) \/ Decide(a) \/ SendNext(a) \/ Rebalance(a) \/ KeepNext(a)

Spec == Init /\ [][Next]_vars

-----------------------------------------------------------------------------
(* Types; the lock is held by the one call between its two saves.          *)
ContactsTypeOK ==
    /\ {active, inactive} \subseteq [People -> Records]
    /\ sessions \in [People -> 0 .. 100]
    /\ candidate \in 0 .. Horizon /\ today \in 0 .. Horizon /\ calls \in 0 .. MaxCalls
    /\ \A a \in Actors :
         /\ do[a].op \in Ops \cup {"none", "write"}
         /\ do[a].pc \in {"idle", "get", "more", "list", "act", "session", "put", "save"}
         /\ do[a].stage \in Stages /\ do[a].todo \subseteq People /\ do[a].at <= today
         /\ do[a].copy \in [People -> Records]
    /\ {a \in Actors : do[a].pc = "save"} = IF lock = Nobody THEN {} ELSE {lock}

(* A contact is never in both files, and never in the wrong one, while     *)
(* nobody is writing, unless a put of it was cut between the two saves.    *)
OneFileEach ==
    lock = Nobody =>
      \A c \in People \ torn :
        /\ active[c].on # "inactive" /\ inactive[c].on # "active"
        /\ active[c] = NoOne \/ inactive[c] = NoOne

(* A message that went out is counted: the record's share count is the     *)
(* number of messages delivered, but for a send not yet put and for a      *)
(* contact that a stale copy, an upsert or a cut call wrote over.          *)
Record(c) == IF active[c] # NoOne THEN active[c] ELSE inactive[c]
Pending(c) == \E a \in Actors : do[a].who = c /\ do[a].pc \in {"put", "save"}
SharesAreCounted ==
    \A c \in People \ (excused \cup torn) : ~Pending(c) => Record(c).shares = sent[c]

(* After a failed delivery, or a negative signal in a session of low       *)
(* interest, nothing is delivered to the contact by a call made before the *)
(* day set, unless the record was lost as above or the sender's copy is    *)
(* older than the decision.                                                *)
LeftAlone ==
    [][\A c \in People, a \in Actors :
         sent'[c] # sent[c] /\ do'[a] # do[a]
           => \/ do[a].at >= quiet[c]
              \/ c \in excused \cup do[a].stale
              \/ \E b \in Actors \ {a} : do[b].who = c /\ do[b].pc \in {"session", "put", "save"}]_vars

(* A tick that nobody interferes with leaves at most MaxActive contacts    *)
(* active.                                                                 *)
ActiveIsBounded ==
    [][\A a \in Actors :
         At(a, "keeps") /\ do'[a] = Idle /\ do[a].todo = {} /\ do[a].stale = {}
           => Cardinality(Known(active)) <= MaxActive]_vars

(* docs/tools.md, contacts_candidate_rank: it only returns decisions; it   *)
(* sends nothing and changes no state.  No step of a rank's own (its puts  *)
(* hold the lock before or after them) changes a contact in the files or   *)
(* sends a message; what others do meanwhile is not its doing.             *)
RankSteps(a) == do[a].op = "rank" /\ do'[a] # do[a] /\ a \in {lock, lock'}
RankChangesNothing ==
    [][\A a \in Actors : RankSteps(a) => UNCHANGED <<files, sent>>]_vars
=============================================================================
