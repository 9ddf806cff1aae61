---------------------------- MODULE MaepDialogue ----------------------------
(***************************************************************************)
(* Two Telegram bots with embedded MAEP nodes that answer each other's     *)
(* pushes automatically (telegramcmd/command.go, `withMAEP`).  Every reply *)
(* is itself a push the peer answers: only the limits of the session - its *)
(* turns, the classified interest of the peer, and a cooldown - end the    *)
(* exchange.  Both bots see one session (a session id, or the scope of the *)
(* dialogue topics).                                                       *)
(*                                                                         *)
(* Interest levels are in units of 0.05.  The texts, the contacts and the  *)
(* memory a reply touches are left out; the push itself is in MaepPush.    *)
(***************************************************************************)
EXTENDS Integers

CONSTANTS
    Ada, Bob,
    MaxTurns,      \* contacts.proactive.max_turns_per_session (6 in the code)
    Cooldown,      \* contacts.proactive.session_cooldown
    EventCap,      \* of maepEventCh (64 in the code)
    Deltas,        \* what a classification may do to the interest
    MaxKicks,      \* bound: pushes that are no automatic replies
    MaxLost,       \* bound: replies of a bot that arrive though the push fails
    MaxTime        \* bound on the clock

Bots == {Ada, Bob}
Peer(b) == IF b = Ada THEN Bob ELSE Ada

ASSUME DialogueConstants ==
    /\ Ada # Bob
    /\ MaxTurns \in Nat \ {0} /\ Cooldown \in Nat \ {0} /\ EventCap \in Nat \ {0}
    /\ Deltas \subseteq -8..7
    /\ MaxKicks \in Nat /\ MaxLost \in Nat /\ MaxTime \in Nat \ {0}

VARIABLES
    now,
    events,     \* how many events wait in a bot's channel
    worker,     \* the goroutine that answers them
    session,    \* its maepSessionState
    kicks,      \* pushes by a user, a heartbeat or the command line, so far
    replies,    \* ghost: replies of a bot that reached its peer's node
    lost,       \* ghost: those of them whose push failed at the sender
    blocks      \* ghost: events a bot's session left unanswered

ghosts == <<kicks, replies, lost, blocks>>
vars == <<now, events, worker, session, ghosts>>

DefaultInterest == 12
StopThreshold == 6
LowRoundsLimit == 2

NewSession(level) ==
    [turns |-> 0, until |-> 0, interest |-> level, low |-> 0, synced |-> FALSE]
Zero == [b \in Bots |-> 0]

Init ==
    /\ now = 1
    /\ events = Zero
    /\ worker = [b \in Bots |-> "idle"]
    /\ session = [b \in Bots |-> NewSession(0)]
    /\ kicks = 0 /\ replies = Zero /\ lost = Zero /\ blocks = Zero

-----------------------------------------------------------------------------
(* The session's arithmetic.  A level of 0 reads as "not set"; rounds past *)
(* the limit are not told apart.                                           *)

Clamp(level) == IF level < 0 THEN 0 ELSE IF level > 20 THEN 20 ELSE level
OrDefault(level) == IF level = 0 THEN DefaultInterest ELSE level

ApplyFeedback(s, delta) ==
    LET level == Clamp(OrDefault(s.interest) + delta) IN
    [s EXCEPT !.interest = level,
              !.low = IF level >= StopThreshold THEN 0
                      ELSE IF s.low < LowRoundsLimit THEN s.low + 1 ELSE LowRoundsLimit]

Cools(s) == [s EXCEPT !.until = now + Cooldown]

LimitedByFeedback(s, wrapUp) == wrapUp \/ s.low >= LowRoundsLimit

Cooling(s) == s.until # 0 /\ now < s.until

(* A cooldown that is over starts the session anew. *)
Renewed(s) ==
    IF s.until # 0 /\ now >= s.until
    THEN NewSession(DefaultInterest)
    ELSE s

TurnsUsedUp(s) == s.turns >= MaxTurns

-----------------------------------------------------------------------------
(* A push arrives: OnDataPush drops the event when the channel is full.    *)
Arrives(b) ==
    events' = IF events[b] < EventCap THEN [events EXCEPT ![b] = @ + 1] ELSE events

Kick(b) ==
    /\ kicks < MaxKicks
    /\ kicks' = kicks + 1
    /\ Arrives(b)
    /\ UNCHANGED <<now, worker, session, replies, lost, blocks>>

(* Variant: the last event waits for another one. *)
TakeAllButOne(b) ==
    /\ worker[b] = "idle" /\ events[b] > 1
    /\ events' = [events EXCEPT ![b] = @ - 1]
    /\ worker' = [worker EXCEPT ![b] = "classify"]
    /\ UNCHANGED <<now, session, ghosts>>

Take(b) ==
    /\ worker[b] = "idle" /\ events[b] > 0
    /\ events' = [events EXCEPT ![b] = @ - 1]
    /\ worker' = [worker EXCEPT ![b] = "classify"]
    /\ UNCHANGED <<now, session, ghosts>>

(* The event is left unanswered; the first time, the contact's preferences *)
(* are refreshed with a call of the model.                                 *)
Block(b, s) ==
    /\ session' = [session EXCEPT ![b] = [s EXCEPT !.synced = TRUE]]
    /\ worker' = [worker EXCEPT ![b] = IF s.synced THEN "idle" ELSE "refresh"]
    /\ blocks' = [blocks EXCEPT ![b] = @ + 1]

Allow(b, s) ==
    /\ session' = [session EXCEPT ![b] = [s EXCEPT !.interest = OrDefault(@)]]
    /\ worker' = [worker EXCEPT ![b] = "run"]
    /\ UNCHANGED blocks

(* The model classified the peer's message (an error counts as no change), *)
(* then, in one critical section: the feedback, its limits, the cooldown   *)
(* and the turns.                                                          *)
Decide(b) ==
    /\ worker[b] = "classify"
    /\ \E delta \in Deltas \cup {0}, wrapUp \in BOOLEAN :
          LET s == ApplyFeedback(session[b], delta) IN
          \/ LimitedByFeedback(s, wrapUp) /\ Block(b, Cools(s))
          \/ /\ ~LimitedByFeedback(s, wrapUp)
             /\ \/ Cooling(s) /\ Block(b, s)
                \/ ~Cooling(s) /\ TurnsUsedUp(Renewed(s)) /\ Block(b, Cools(Renewed(s)))
                \/ ~Cooling(s) /\ ~TurnsUsedUp(Renewed(s)) /\ Allow(b, Renewed(s))
    /\ UNCHANGED <<now, events, kicks, replies, lost>>

Becomes(b, pc) == worker' = [worker EXCEPT ![b] = pc]

Refresh(b) ==
    /\ worker[b] = "refresh" /\ Becomes(b, "idle")
    /\ UNCHANGED <<now, events, session, ghosts>>

(* The agent fails, runs out of time or says nothing; or there is a reply. *)
Run(b) ==
    /\ worker[b] = "run" /\ \E pc \in {"idle", "push"} : Becomes(b, pc)
    /\ UNCHANGED <<now, events, session, ghosts>>

CountTurn(b) == session' = [session EXCEPT ![b].turns = @ + 1]

(* PushData succeeds: only now the turn counts. *)
PushOk(b) ==
    /\ worker[b] = "push" /\ Becomes(b, "idle")
    /\ Arrives(Peer(b))
    /\ CountTurn(b)
    /\ replies' = [replies EXCEPT ![b] = @ + 1]
    /\ UNCHANGED <<now, kicks, lost, blocks>>

(* PushData fails, before or after the peer has got the reply. *)
PushFails(b) ==
    /\ worker[b] = "push" /\ Becomes(b, "idle")
    /\ \/ UNCHANGED <<events, replies, lost>>
       \/ /\ lost[b] < MaxLost
          /\ Arrives(Peer(b))
          /\ replies' = [replies EXCEPT ![b] = @ + 1]
          /\ lost' = [lost EXCEPT ![b] = @ + 1]
    /\ UNCHANGED <<now, session, kicks, blocks>>

Tick == now < MaxTime /\ now' = now + 1 /\ UNCHANGED <<events, worker, session, ghosts>>

WorkerStep(b) ==
    Take(b) \/ Decide(b) \/ Refresh(b) \/ Run(b) \/ PushOk(b) \/ PushFails(b)

Next == Tick \/ \E b \in Bots : Kick(b) \/ WorkerStep(b)

Spec == Init /\ [][Next]_vars

(* The goroutines run, and every call they make has a timeout.             *)
FairSpec == Spec /\ \A b \in Bots : WF_vars(WorkerStep(b))

-----------------------------------------------------------------------------
Sessions ==
    [turns : 0..MaxTurns, until : 0..(MaxTime + Cooldown), interest : 0..20,
     low : 0..LowRoundsLimit, synced : BOOLEAN]

(* Types; the turns of a session stay within the limit.                    *)
TypeOK ==
    /\ now \in 1..MaxTime
    /\ events \in [Bots -> 0..EventCap]
    /\ worker \in [Bots -> {"idle", "classify", "run", "push", "refresh"}]
    /\ session \in [Bots -> Sessions]
    /\ kicks \in 0..MaxKicks
    /\ replies \in [Bots -> Nat] /\ lost \in [Bots -> 0..MaxLost] /\ blocks \in [Bots -> Nat]

(* The exchange is bounded by what others start, not by what the two bots  *)
(* say to each other: each sends at most max_turns_per_session replies for *)
(* every push from outside, however cooldowns expire in between - and one  *)
(* more for each reply whose push failed after it had arrived.             *)
ConversationBounded == \A b \in Bots : replies[b] <= MaxTurns * kicks + lost[b]

(* Two bots left alone fall silent.                                        *)
Silent == \A b \in Bots : events[b] = 0 /\ worker[b] = "idle"

DialogueStops == <>[]Silent

-----------------------------------------------------------------------------
(* What makes ConversationBounded inductive.  A message on its way, or in  *)
(* hand, descends from a push of its own that no session has left          *)
(* unanswered yet...                                                       *)
InHand(b) == IF worker[b] \in {"classify", "run", "push"} THEN 1 ELSE 0
Chains(b) == blocks[b] + events[b] + InHand(b)

ChainsFromKicks == Chains(Ada) + Chains(Bob) <= kicks

(* ... a session that cools has used at most all its turns since the last  *)
(* block, and one that does not is still within its present turns, which   *)
(* it has only while a push more was made than it has left unanswered.     *)
TurnsPerBlock(b) ==
    LET s == session[b] IN
    /\ s.synced <=> s.until # 0
    /\ worker[b] \in {"run", "push"} => s.until = 0 /\ s.turns < MaxTurns
    /\ s.until # 0 => replies[b] <= MaxTurns * blocks[b] + lost[b] /\ blocks[b] > 0
    /\ s.until = 0 => replies[b] <= MaxTurns * blocks[b] + s.turns + lost[b]
    /\ s.until = 0 /\ s.turns > 0 => blocks[b] < kicks

IInv == TypeOK /\ ChainsFromKicks /\ \A b \in Bots : TurnsPerBlock(b)
=============================================================================
