------------------------------- MODULE Delivery -------------------------------
(* One message on its way to a contact: from the contacts_send tool through  *)
(* the contacts service and the routing sender to a Telegram chat or, as an  *)
(* envelope, through the MAEP node to the peer's node; or from the command   *)
(* "maep push" to the node directly. Each stage validates for itself.        *)
EXTENDS Integers, Sequences, FiniteSets, Functions

CONSTANTS Cases,  \* what is sent (origin, topic, texts, payload) and along which
                  \* route (contact, source chat, permissions, addresses)
          NoPayload

VARIABLES input, route,
          stage,    \* the handler that has it next, or how it ended
          payload,  \* the payload as it stands
          target,   \* the Telegram target the router found
          dial,     \* the addresses still to be tried
          tried     \* the addresses tried

vars == <<input, route, stage, payload, target, dial, tried>>

\* What a field of a JSON object may hold: nothing, a blank string, a string,
\* or a value of another type; a session is a uuid of version 7 or some other
\* text, a time is one or not.
IsText(v) == v \notin {"absent", "not text"}
Present(v) == IsText(v) /\ v # "blank"

Envelope(id, text, session, reply) ==
  [json |-> TRUE, id |-> id, text |-> text, alt |-> "absent", sent |-> "time",
   session |-> session, reply |-> reply]

Stages == {"called", "service", "router", "telegram", "sender", "node", "dial", "peer",
           "in chat", "in inbox", "refused by caller", "refused by service",
           "refused by router", "refused by sender", "refused by node",
           "refused by peer", "not reached"}

TypeOK ==
  /\ stage \in Stages
  /\ payload = NoPayload \/ DOMAIN payload = DOMAIN Envelope("said", "said", "v7", "given")
  /\ dial \in Seq({"direct", "relay"}) /\ tried \in Seq({"direct", "relay"})

NoTarget == [ok |-> FALSE, chat |-> 0, type |-> ""]

Init ==
  /\ \E c \in Cases : input = c.input /\ route = c.route
  /\ stage = "called"
  /\ payload = NoPayload /\ target = NoTarget /\ dial = <<>> /\ tried = <<>>

Kept(v) == IF Present(v) THEN v ELSE "absent"

\* resolveSendPayload, the part for message_text; newPushCmd builds the same.
TextAccepted(in) == /\ Present(in.text)
                    /\ in.session # "other"
                    /\ in.dialogue => Present(in.session)

\* resolveSendPayload, the part for payload_base64: the strings must be there
\* but may be blank, and the session is looked at for dialogue topics only.
PayloadAccepted(in) ==
  /\ in.origin = "tool" /\ ~Present(in.text) /\ in.session # "other"
  /\ in.payload # NoPayload
  /\ in.payload.json
  /\ IsText(in.payload.id) /\ IsText(in.payload.text)
  /\ in.payload.sent = "time"
  /\ in.dialogue => in.payload.session = "v7"

Accept ==
  /\ stage = "called"
  /\ \/ /\ TextAccepted(input)
        /\ payload' = Envelope("said", "said", Kept(input.session),
                               IF input.origin = "tool" THEN Kept(input.reply) ELSE "absent")
     \/ /\ PayloadAccepted(input)
        /\ payload' = input.payload
  /\ stage' = IF input.origin = "tool" THEN "service" ELSE "node"
  /\ UNCHANGED <<input, route, target, dial, tried>>

RefusedByCaller ==
  /\ stage = "called"
  /\ ~TextAccepted(input) /\ ~PayloadAccepted(input)
  /\ stage' = "refused by caller"
  /\ UNCHANGED <<input, route, payload, target, dial, tried>>

\* What "tg:id:" and "tg:@" are followed by: a number, a negative one, no number;
\* a name or none.
TelegramIds == {"tg number", "tg negative", "tg junk", "tg name", "tg no name"}
HasTelegramTarget(c) == \E i \in 1..2 : c.ids[i] \in TelegramIds

\* contactAllowedForProactiveReason, with the options SendDecision gives it
Eligible(c) == /\ c.active /\ ~c.cooling
               /\ IF c.human THEN HasTelegramTarget(c) ELSE c.peer /\ c.trusted

SendDecision ==
  /\ stage = "service"
  /\ stage' = IF Eligible(route.contact) THEN "router" ELSE "refused by service"
  /\ UNCHANGED <<input, route, payload, target, dial, tried>>

\* The first element of a sequence that is in a set.
FirstIn(seq, set) ==
  seq[CHOOSE i \in DOMAIN seq : seq[i] \in set /\ \A j \in 1..(i - 1) : seq[j] \notin set]

\* preferredChatByDecision: the source chat, one of the source's type, a
\* private one, any one. Those of the first kind that there are:
PreferredChats(c, r) ==
  LET chats == Range(c.chats)
      byId == {x \in chats : r.sourceId # 0 /\ x.id = r.sourceId}
      byType == {x \in chats : r.sourceType # "" /\ x.type = r.sourceType}
      private == {x \in chats : x.type = "private"}
  IN IF byId # {} THEN byId ELSE IF byType # {} THEN byType ELSE IF private # {} THEN private
     ELSE {x \in chats : x.id # 0}

ChatTarget(x) == [ok |-> TRUE, chat |-> x.id, type |-> x.type]

FirstTelegramId(c) ==
  LET ids == TelegramIds \intersect Range(c.ids)
  IN IF ids = {} THEN "none" ELSE FirstIn(c.ids, ids)

\* ResolveTelegramTarget: the first id that looks like Telegram's decides. Any
\* number is taken for that of a user's chat, a group's negative one too; a name
\* is one of a user.
Resolve(c, r) ==
  LET chats == PreferredChats(c, r)
      id == FirstTelegramId(c)
  IN CASE chats # {} -> ChatTarget(FirstIn(c.chats, chats))
       [] chats = {} /\ id = "tg number" -> [ok |-> TRUE, chat |-> 1, type |-> "private"]
       [] chats = {} /\ id = "tg negative" -> [ok |-> TRUE, chat |-> -7, type |-> "private"]
       [] chats = {} /\ id = "tg name" -> [ok |-> TRUE, chat |-> 2, type |-> ""]
       [] OTHER -> NoTarget

IsGroup(type) == type \in {"group", "supergroup"}

(* Variant: the type of a chat alone says whether it is public. *)
IsPublicByType(c, r, t) == IsGroup(t.type)

\* IsPublicTelegramTarget. Groups have negative numbers; a name is no number.
IsPublic(c, r, t) ==
  LET same == {x \in Range(c.chats) : x.id = r.sourceId}
  IN \/ IsGroup(t.type)
     \/ /\ t.type # "private"
        /\ \/ t.chat \in Int /\ t.chat < 0
           \/ IF r.sourceId # 0 /\ same # {} THEN IsGroup(FirstIn(c.chats, same).type)
              ELSE IsGroup(r.sourceType)

\* RoutingSender.Send: whoever has a Telegram target is sent to there, and an
\* id that is malformed leaves the contact to MAEP.
Send ==
  /\ stage = "router"
  /\ LET t == Resolve(route.contact, route)
     IN /\ target' = t
        /\ stage' = IF ~t.ok THEN "sender"
                    ELSE IF ~route.allowHuman \/ (~route.allowPublic /\ IsPublic(route.contact, route, t))
                      THEN "refused by router" ELSE "telegram"
  /\ UNCHANGED <<input, route, payload, dial, tried>>

\* decodeEnvelopeTextAndExtras: the extras come with the first field that has a
\* text; without one the object itself is the text, and they are lost.
HasText(p) == Present(p.text) \/ Present(p.alt)

(* Variant: a payload without an id is taken for a plain text. *)
ExtraWithId(p, v) == IF p.json /\ HasText(p) /\ Present(p.id) THEN Kept(v) ELSE "absent"

Extra(p, v) == IF p.json /\ HasText(p) THEN Kept(v) ELSE "absent"

SendTelegram ==
  /\ stage = "telegram"
  /\ stage' \in {"in chat", "not reached"}
  /\ UNCHANGED <<input, route, payload, target, dial, tried>>

\* buildEnvelopePayload: an envelope of the sender's own with its own id.
SendMAEP ==
  /\ stage = "sender"
  /\ LET session == Extra(payload, payload.session)
     IN IF (input.dialogue /\ session = "absent") \/ session \notin {"absent", "v7"}
          THEN stage' = "refused by sender" /\ UNCHANGED payload
          ELSE /\ payload' = Envelope("said", "said", session, Extra(payload, payload.reply))
               /\ stage' = "node"
  /\ UNCHANGED <<input, route, target, dial, tried>>

\* extractAndValidateSessionForTopic, by the sending and by the receiving node
ValidEnvelope(p) ==
  /\ p.json
  /\ Present(p.id) /\ Present(p.text) /\ p.sent = "time"
  /\ p.session # "not text" /\ p.reply # "not text"
  /\ input.dialogue => Present(p.session)
  /\ Present(p.session) => p.session = "v7"

\* resolveDialTarget: the addresses given, or the ones known of the peer.
Addresses == IF route.given # <<>> THEN route.given ELSE route.known

\* splitDialAddresses: direct ones before those through a relay.
DialOrder(addresses) ==
  LET direct == Cardinality({i \in DOMAIN addresses : addresses[i] = "direct"})
  IN [i \in DOMAIN addresses |-> IF i <= direct THEN "direct" ELSE "relay"]

\* PushData, to a peer that is known and trusted.
PushData ==
  /\ stage = "node"
  /\ IF ValidEnvelope(payload) /\ route.contact.peer /\ route.allowed /\ Addresses # <<>>
       THEN stage' = "dial" /\ dial' = DialOrder(Addresses)
       ELSE stage' = "refused by node" /\ UNCHANGED dial
  /\ UNCHANGED <<input, route, payload, target, tried>>

\* connect: one address after the other until one answers.
Connect ==
  /\ stage = "dial" /\ dial # <<>>
  /\ tried' = Append(tried, Head(dial))
  /\ dial' = Tail(dial)
  /\ stage' \in {"dial", "peer"}
  /\ UNCHANGED <<input, route, payload, target>>

NotConnected ==
  /\ stage = "dial" /\ dial = <<>>
  /\ stage' = "not reached"
  /\ UNCHANGED <<input, route, payload, target, dial, tried>>

\* handleRPCMethod: validated again before it reaches the inbox.
Receive ==
  /\ stage = "peer"
  /\ stage' \in IF ValidEnvelope(payload) THEN {"in inbox", "not reached"} ELSE {"refused by peer"}
  /\ UNCHANGED <<input, route, payload, target, dial, tried>>

Next == \/ Accept \/ RefusedByCaller \/ SendDecision \/ Send \/ SendTelegram \/ SendMAEP
        \/ PushData \/ Connect \/ NotConnected \/ Receive

Spec == Init /\ [][Next]_vars
------------------------------------------------------------------------------
Meant(f) == IF Present(input.text) THEN input[f] ELSE input.payload[f]

(* Safety. What the tool or the command accepts is not refused for its form   *)
(* later on: a message with a text, and a session of version 7 or, on a topic *)
(* that needs none, no session, reaches the peer unless the network fails,    *)
(* with the session and the reply-to it was given.                            *)
NeverRefusedLate ==
  LET wellFormed == /\ stage # "refused by caller"
                    /\ Present(Meant("text"))
                    /\ IF input.dialogue THEN Meant("session") = "v7"
                       ELSE ~Present(Meant("session")) \/ Meant("session") = "v7"
  IN /\ stage # "refused by peer"
     /\ stage = "refused by sender" => ~wellFormed
     /\ stage = "refused by node" => \/ ~route.contact.peer
                                     \/ ~route.allowed
                                     \/ route.given = <<>> /\ route.known = <<>>
     /\ stage = "in inbox" /\ wellFormed =>
          /\ Kept(payload.session) = Kept(Meant("session"))
          /\ input.origin = "tool" => Kept(payload.reply) = Kept(Meant("reply"))
          /\ \A i, j \in 1..Len(tried) : tried[i] = "relay" /\ tried[j] = "direct" => j < i

(* Safety. A person is written to only where human sends are allowed, and in  *)
(* a group only where public ones are, however the chat was chosen among the  *)
(* contact's chats. One way round it is excepted: the contact has no chat to  *)
(* choose and its id is the group's number itself, taken for a user's.        *)
NamedByNumber(c, r) == PreferredChats(c, r) = {} /\ FirstTelegramId(c) = "tg negative"
GroupNeedsConsent ==
  stage = "in chat" =>
    /\ route.allowHuman
    /\ target.chat < 0 => route.allowPublic \/ NamedByNumber(route.contact, route)

(* "If false, proactive --send avoids public contexts (e.g. Telegram group/   *)
(* supergroup)" (assets/config/config.example.yaml, public_enabled), without  *)
(* the exception. No run checks it: the code breaks it by the excepted case.  *)
GroupsAvoided == stage = "in chat" /\ target.chat < 0 => route.allowPublic
==============================================================================
