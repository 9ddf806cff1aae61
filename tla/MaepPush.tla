------------------------------ MODULE MaepPush ------------------------------
(***************************************************************************)
(* agent.data.push between two MAEP nodes (maep/node.go): the calls of one *)
(* client node, each on a stream of its own, and the handlers they start   *)
(* on the server node.  The negotiated session each side remembers and the *)
(* rate window are in memory; the server's dedupe records and inbox, and   *)
(* the client's outbox, are files.  One peer and one topic; of a payload   *)
(* only its idempotency key is kept, and payloads are well formed.         *)
(***************************************************************************)
EXTENDS Naturals, FiniteSets

CONSTANTS
    Calls,        \* calls of PushData, each made at most once
    Notifying,    \* the ones made as notifications, without a request id
    Keys,         \* idempotency keys
    NoKey,
    RateLimit,    \* DataPushPerMinute
    DedupeMax,    \* DedupeMaxEntries
    MaxStreams,   \* bound: handlers at work at one time
    MaxMinute,    \* bound: the clock
    MaxLosses,    \* bound: sessions the server loses
    Expiry,       \* bound: dedupe records may reach their TTL
    DiskFails,    \* bound: an access to the server's files may fail
    Restarts      \* bound: the server node may stop and start again

ASSUME PushConstants ==
    /\ Notifying \subseteq Calls /\ NoKey \notin Keys
    /\ RateLimit \in Nat \ {0} /\ DedupeMax \in Nat \ {0} /\ MaxStreams \in Nat
    /\ MaxMinute \in Nat /\ MaxLosses \in Nat
    /\ {Expiry, DiskFails, Restarts} \subseteq BOOLEAN

VARIABLES
    call,           \* the client's side of each call
    clientSession,  \* the client holds a fresh session with the server
    outbox,         \* the calls recorded in the client's outbox
    handler,        \* the server's side of each call
    serverSession,  \* the server holds a fresh session with the client
    allowed,        \* the server's contact for the client is not blocked
    window,         \* pushRateWindows[client]
    dedupe,         \* when the live dedupe record of a key was made, 0: none
    forgotten,      \* keys whose record was evicted or has expired
    unsure,         \* keys of which a look-up could not see an earlier push
    inbox,          \* inbox messages of a key
    delivered,      \* OnDataPush events of a key
    minute,         \* the clock, in minutes
    stamps,         \* and its order: how many times the handlers read it
    passed,         \* pushes let through of each minute, since the server started
    late,           \* and how many pushes came when the window was a later minute's
    losses          \* sessions lost by the server

client == <<call, clientSession, outbox>>
rate   == <<window, passed, late>>
memory == <<handler, serverSession, rate>>
dedupes == <<dedupe, forgotten, unsure>>
files  == <<dedupes, inbox, delivered>>
world  == <<allowed, minute, stamps, losses>>
pushVars == <<client, memory, files, world>>

NewCall == [pc |-> "idle", key |-> NoKey, retried |-> FALSE, result |-> "none"]
NoHandler == [pc |-> "idle", key |-> NoKey, minute |-> 0, stamp |-> 0, result |-> "none"]
NewWindow(m) == [minute |-> m, count |-> 0]

(* Handlers that have not finished. *)
Working == {c \in Calls : handler[c].pc \notin {"idle", "reply"}}

PushInit ==
    /\ call = [c \in Calls |-> NewCall]
    /\ clientSession = FALSE /\ outbox = {}
    /\ handler = [c \in Calls |-> NoHandler]
    /\ serverSession = FALSE /\ allowed = TRUE
    /\ window = NewWindow(0) /\ passed = [m \in 0..MaxMinute |-> 0] /\ late = 0
    /\ dedupe = [k \in Keys |-> 0] /\ forgotten = {} /\ unsure = {}
    /\ inbox = [k \in Keys |-> 0] /\ delivered = [k \in Keys |-> 0]
    /\ minute = 0 /\ stamps = 0 /\ losses = 0

-----------------------------------------------------------------------------
(* The client: PushData, callRPCResolved, DialHello.                       *)

Goes(c, pc) == call' = [call EXCEPT ![c].pc = pc]
Returns(c, result) == call' = [call EXCEPT ![c].pc = "returned", ![c].result = result]

PushData(c) ==
    /\ call[c].pc = "idle"
    /\ \E k \in Keys : call' = [call EXCEPT ![c].pc = "start", ![c].key = k]
    /\ UNCHANGED <<clientSession, outbox, memory, files, world>>

StartCall(c) ==
    /\ call[c].pc = "start"
    /\ Goes(c, IF clientSession THEN "send" ELSE "hello")
    /\ UNCHANGED <<clientSession, outbox, memory, files, world>>

(* Variant: a lost session is not negotiated again.                      *)
ShouldNeverRetry(c) == FALSE

ShouldRetry(c) == ~call[c].retried

(* The server refuses a blocked peer, and records the session before it    *)
(* answers; an answer may be lost.  A call that negotiates again after an  *)
(* ERR_UNSUPPORTED_PROTOCOL starts over, the first time it goes on.        *)
DialHello(c) ==
    /\ call[c].pc \in {"hello", "redial"}
    /\ \/ /\ allowed /\ serverSession' = TRUE
          /\ \/ /\ clientSession' = TRUE
                /\ Goes(c, IF call[c].pc = "redial" THEN "start" ELSE "send")
             \/ Returns(c, "error") /\ UNCHANGED clientSession
       \/ Returns(c, "error") /\ UNCHANGED <<clientSession, serverSession>>
    /\ UNCHANGED <<outbox, handler, rate, files, world>>

(* The request is written on a new stream and may not arrive.  A           *)
(* notification expects nothing more: it goes to the outbox as accepted.   *)
Send(c) ==
    /\ call[c].pc = "send" /\ Cardinality(Working) < MaxStreams
    /\ IF c \in Notifying
       THEN Returns(c, "accepted") /\ outbox' = outbox \cup {c}
       ELSE Goes(c, "wait") /\ UNCHANGED outbox
    /\ \/ handler' = [handler EXCEPT ![c] = [NoHandler EXCEPT !.pc = "session",
                                                              !.key = call[c].key]]
       \/ UNCHANGED handler
    /\ UNCHANGED <<clientSession, serverSession, rate, files, world>>

(* The response: a success is recorded in the outbox (if the file can be   *)
(* written); an unsupported protocol is negotiated again, once.            *)
Receive(c) ==
    /\ call[c].pc = "wait" /\ handler[c].pc = "reply"
    /\ LET result == handler[c].result IN
       \/ /\ result \in {"accepted", "deduped"} /\ Returns(c, result)
          /\ outbox' \in {outbox, outbox \cup {c}}
       \/ /\ result = "unsupported" /\ ShouldRetry(c)
          /\ call' = [call EXCEPT ![c].pc = "redial", ![c].retried = TRUE]
          /\ UNCHANGED outbox
       \/ /\ result \notin {"accepted", "deduped"}
          /\ ~(result = "unsupported" /\ ShouldRetry(c))
          /\ Returns(c, result) /\ UNCHANGED outbox
    /\ handler' = [handler EXCEPT ![c] = NoHandler]
    /\ UNCHANGED <<clientSession, serverSession, rate, files, world>>

(* No connection, a stream that was reset, or no response in RPCTimeout.   *)
CallFails(c) ==
    /\ call[c].pc \in {"send", "wait"} /\ Returns(c, "error")
    /\ UNCHANGED <<clientSession, outbox, memory, files, world>>

-----------------------------------------------------------------------------
(* The server: handleRPCStream and the agent.data.push case of             *)
(* handleRPCMethod, one step for each access to what handlers share.       *)

At(c, pc) == handler[c].pc = pc
Moves(c, pc) == handler' = [handler EXCEPT ![c].pc = pc]

(* A notification is never answered, whatever became of it. *)
Answers(c, result) ==
    handler' = [handler EXCEPT ![c] =
                    IF c \in Notifying THEN NoHandler
                    ELSE [NoHandler EXCEPT !.pc = "reply", !.result = result]]

CheckSession(c) ==
    /\ At(c, "session")
    /\ IF serverSession THEN Moves(c, "allowed") ELSE Answers(c, "unsupported")
    /\ UNCHANGED <<client, serverSession, rate, files, world>>

(* ensurePeerAllowed, then the handler reads the clock. *)
CheckAllowed(c) ==
    /\ At(c, "allowed")
    /\ \/ /\ allowed /\ stamps' = stamps + 1
          /\ handler' = [handler EXCEPT ![c].pc = "rate", ![c].minute = minute,
                                        ![c].stamp = stamps + 1]
       \/ (~allowed \/ DiskFails) /\ Answers(c, "unauthorized") /\ UNCHANGED stamps
    /\ UNCHANGED <<client, serverSession, rate, files, allowed, minute, losses>>

(* Variant: every push has a window of its own.                          *)
WindowOfNone(c) == NewWindow(handler[c].minute)

(* allowDataPush: the window is the one of the handler's own minute.       *)
WindowOf(c) == IF window.minute = handler[c].minute THEN window ELSE NewWindow(handler[c].minute)

AllowDataPush(c) ==
    /\ At(c, "rate")
    /\ LET w == WindowOf(c) IN
       IF w.count >= RateLimit
       THEN window' = w /\ Answers(c, "rate_limited") /\ UNCHANGED passed
       ELSE /\ window' = [w EXCEPT !.count = @ + 1] /\ Moves(c, "lookup")
            /\ passed' = [passed EXCEPT ![handler[c].minute] = @ + 1]
    /\ late' = IF handler[c].minute < window.minute THEN late + 1 ELSE late
    /\ UNCHANGED <<client, serverSession, files, world>>

(* Another handler of the key is between its look-up and its record. *)
BeingRecorded(k) == \E c \in Calls : At(c, "put") /\ handler[c].key = k

(* A record that cannot be read counts as none. *)
GetDedupeRecord(c) ==
    /\ At(c, "lookup")
    /\ LET k == handler[c].key IN
       \/ dedupe[k] # 0 /\ Answers(c, "deduped") /\ UNCHANGED unsure
       \/ /\ dedupe[k] = 0 \/ DiskFails
          /\ Moves(c, "put")
          /\ unsure' = IF dedupe[k] # 0 \/ BeingRecorded(k) THEN unsure \cup {k} ELSE unsure
    /\ UNCHANGED <<client, serverSession, rate, dedupe, forgotten, inbox, delivered, world>>

PutDedupeRecord(c) ==
    /\ At(c, "put") /\ Moves(c, "prune")
    /\ \/ /\ dedupe' = [dedupe EXCEPT ![handler[c].key] = handler[c].stamp]
          /\ UNCHANGED unsure
       \/ /\ DiskFails /\ unsure' = unsure \cup {handler[c].key}
          /\ UNCHANGED dedupe
    /\ UNCHANGED <<client, serverSession, rate, forgotten, inbox, delivered, world>>

(* The newest DedupeMax records stay.                                      *)
Newer(k) == {j \in Keys : dedupe[j] > dedupe[k]}
Kept(k) == dedupe[k] # 0 /\ Cardinality(Newer(k)) < DedupeMax

PruneDedupeRecords(c) ==
    /\ At(c, "prune") /\ Moves(c, "append")
    /\ \/ /\ dedupe' = [k \in Keys |-> IF Kept(k) THEN dedupe[k] ELSE 0]
          /\ forgotten' = forgotten \cup {k \in Keys : dedupe[k] # 0 /\ ~Kept(k)}
       \/ DiskFails /\ UNCHANGED <<dedupe, forgotten>>
    /\ UNCHANGED <<client, serverSession, rate, unsure, inbox, delivered, world>>

(* Variant: a failing inbox fails a push whose key is recorded.          *)
AppendInboxMessageOrFail(c) ==
    /\ At(c, "append")
    /\ \/ inbox' = [inbox EXCEPT ![handler[c].key] = @ + 1] /\ Moves(c, "deliver")
       \/ DiskFails /\ UNCHANGED inbox /\ Answers(c, "error")
    /\ UNCHANGED <<client, serverSession, rate, dedupes, delivered, world>>

AppendInboxMessage(c) ==
    /\ At(c, "append") /\ Moves(c, "deliver")
    /\ \/ inbox' = [inbox EXCEPT ![handler[c].key] = @ + 1]
       \/ DiskFails /\ UNCHANGED inbox
    /\ UNCHANGED <<client, serverSession, rate, dedupes, delivered, world>>

(* OnDataPush, then the result. *)
Deliver(c) ==
    /\ At(c, "deliver")
    /\ delivered' = [delivered EXCEPT ![handler[c].key] = @ + 1]
    /\ Answers(c, "accepted")
    /\ UNCHANGED <<client, serverSession, rate, dedupes, inbox, world>>

HandlerStep(c) ==
    \/ CheckSession(c) \/ CheckAllowed(c) \/ AllowDataPush(c) \/ GetDedupeRecord(c)
    \/ PutDedupeRecord(c) \/ PruneDedupeRecords(c) \/ AppendInboxMessage(c) \/ Deliver(c)

-----------------------------------------------------------------------------
(* What happens to the two nodes.                                          *)

(* A session is fresh for sessionFreshWindow after its hello. *)
ClientSessionExpires ==
    /\ clientSession /\ clientSession' = FALSE
    /\ UNCHANGED <<call, outbox, memory, files, world>>

ServerSessionExpires ==
    /\ serverSession /\ losses < MaxLosses
    /\ serverSession' = FALSE /\ losses' = losses + 1
    /\ UNCHANGED <<client, handler, rate, files, allowed, minute, stamps>>

(* Variant: the dedupe records are kept in memory only.                  *)
RestartWithoutRecords ==
    /\ Restarts /\ losses < MaxLosses
    /\ serverSession' = FALSE /\ losses' = losses + 1
    /\ handler' = [c \in Calls |-> NoHandler]
    /\ window' = NewWindow(0) /\ passed' = [m \in 0..MaxMinute |-> 0] /\ late' = 0
    /\ dedupe' = [k \in Keys |-> 0]
    /\ UNCHANGED <<client, forgotten, unsure, inbox, delivered, allowed, minute, stamps>>

(* The server node stops and starts again: its files are all it keeps.     *)
Restart ==
    /\ Restarts /\ losses < MaxLosses
    /\ serverSession' = FALSE /\ losses' = losses + 1
    /\ handler' = [c \in Calls |-> NoHandler]
    /\ window' = NewWindow(0) /\ passed' = [m \in 0..MaxMinute |-> 0] /\ late' = 0
    /\ UNCHANGED <<client, files, allowed, minute, stamps>>

(* The contact becomes revoked or conflicted. *)
BlockPeer ==
    /\ allowed /\ allowed' = FALSE
    /\ UNCHANGED <<client, memory, files, minute, stamps, losses>>

RecordExpires(k) ==
    /\ Expiry /\ dedupe[k] # 0
    /\ dedupe' = [dedupe EXCEPT ![k] = 0] /\ forgotten' = forgotten \cup {k}
    /\ UNCHANGED <<client, memory, unsure, inbox, delivered, world>>

NextMinute ==
    /\ minute < MaxMinute /\ minute' = minute + 1
    /\ UNCHANGED <<client, memory, files, allowed, stamps, losses>>

PushNext ==
    \/ \E c \in Calls :
          \/ PushData(c) \/ StartCall(c) \/ DialHello(c) \/ Send(c) \/ Receive(c) \/ CallFails(c)
          \/ HandlerStep(c)
    \/ ClientSessionExpires \/ ServerSessionExpires \/ Restart \/ BlockPeer \/ NextMinute
    \/ \E k \in Keys : RecordExpires(k)

PushSpec == PushInit /\ [][PushNext]_pushVars

-----------------------------------------------------------------------------
Results == {"none", "accepted", "deduped", "unsupported", "unauthorized", "rate_limited", "error"}

CallStates ==
    [pc : {"idle", "start", "hello", "redial", "send", "wait", "returned"},
     key : Keys \cup {NoKey}, retried : BOOLEAN, result : Results]
HandlerPlaces == {"session", "allowed", "rate", "lookup", "put", "prune", "append", "deliver"}
HandlerStates ==
    [pc : HandlerPlaces \cup {"idle", "reply"}, key : Keys \cup {NoKey},
     minute : 0..MaxMinute, stamp : Nat, result : Results]

(* Every part of the state has its type, the window never counts more than *)
(* the limit, and a handler works for the key its call was made with.      *)
PushTypeOK ==
    /\ call \in [Calls -> CallStates] /\ handler \in [Calls -> HandlerStates]
    /\ \A c \in Calls : call[c].pc # "idle" => call[c].key \in Keys
    /\ \A c \in Working : handler[c].key = call[c].key /\ call[c].pc # "idle"
    /\ clientSession \in BOOLEAN /\ serverSession \in BOOLEAN /\ allowed \in BOOLEAN
    /\ outbox \subseteq Calls
    /\ window \in [minute : 0..MaxMinute, count : 0..RateLimit]
    /\ dedupe \in [Keys -> Nat] /\ forgotten \subseteq Keys /\ unsure \subseteq Keys /\ inbox \in [Keys -> Nat] /\ delivered \in [Keys -> Nat]
    /\ minute \in 0..MaxMinute /\ stamps \in Nat
    /\ passed \in [0..MaxMinute -> Nat] /\ late \in Nat /\ losses \in 0..MaxLosses

(* docs/feat/feat_20260206_maep.md 8, "do not process again": a key is     *)
(* delivered to the agent once, however often it is pushed, retried or     *)
(* interrupted by a restart, and with any number of handlers at work.  Of  *)
(* the ways to deliver it again these are all: its record reached its age  *)
(* or was pushed out by newer ones (forgotten); or a look-up did not see   *)
(* the earlier push, because another handler was between its own look-up   *)
(* and its record, or the file could not be read or written (unsure).      *)
DeliveredOnce == \A k \in Keys \ (forgotten \cup unsure) : delivered[k] <= 1

(* The same section, "First receipt: process and record dedupe key": a     *)
(* push answered as accepted, or as a duplicate of one that was, has been  *)
(* delivered, or a handler that recorded its key is about to deliver it.   *)
AboutToDeliver(k) ==
    \E c \in Working : handler[c].key = k /\ handler[c].pc \in {"prune", "append", "deliver"}

AcceptedIsDelivered ==
    \A c \in Calls \ Notifying :
        call[c].result \in {"accepted", "deduped"} =>
            delivered[call[c].key] > 0 \/ AboutToDeliver(call[c].key)

(* 4.3, "rate_limit_data_push_per_peer = 120/min": the limit holds for the  *)
(* pushes that pass in a minute, counted since the node started (a restart *)
(* starts the window anew), but for what concurrent handlers undo: a push  *)
(* that comes to the window when it is a later minute's already takes it   *)
(* back to its own minute, and so starts the count of both anew.  Each     *)
(* such push is worth one more limit and no more.                          *)
RateLimited == \A m \in 0..MaxMinute : passed[m] <= RateLimit * (1 + late)

(* A client call survives a session the server lost, by negotiating once   *)
(* again: it fails for want of a session only if that is lost twice.       *)
DriftIsHealed == \A c \in Calls : call[c].result = "unsupported" => losses >= 2

=============================================================================
