----------------------------- MODULE MaepProofs -----------------------------
(***************************************************************************)
(* Proofs about three parts of a MAEP node that share nothing: the push of *)
(* data to another node (MaepPush), its contact list (MaepContacts) and    *)
(* the conversations of its bot (MaepDialogue).                            *)
(*                                                                         *)
(* Pushes, for any calls, keys, limits and tables: what is answered as     *)
(* accepted is delivered, a lost session is negotiated again, and with any  *)
(* number of handlers at work a key is delivered twice, or a minute's      *)
(* limit passed, only where a look-up could not see the earlier push, or a *)
(* push came to the window late, as often as that happened and no more.    *)
(*                                                                         *)
(* Contacts, for any peers, uuids and number of processes: the contact     *)
(* list keeps its type, and no interleaving makes a contact verified under *)
(* a uuid no user verified.  The invariant adds to VerifiedWasVerified     *)
(* what the operations hold to write: a contact to be written as verified  *)
(* is one a user has verified, because its state came from the file or     *)
(* from a verification, with its uuid.  Two contacts get one uuid only     *)
(* where its look-up raced with a write of it, and a blocked contact is    *)
(* unblocked only by an old copy.  The invariant adds what operations may  *)
(* still write: who holds a uuid and who may write it are one peer, and    *)
(* what is to be written follows from the contact, unless it was overtaken. *)
(*                                                                         *)
(* Dialogue, for any limits, cooldown, channel size and number of pushes   *)
(* from outside: each of two bots that answer each other keeps its bound.  *)
(***************************************************************************)
EXTENDS MaepContacts, MaepDialogue, MaepPush, FiniteSetTheorems, TLAPS

HeldWasVerified ==
    \A q \in Procs :
        (op[q].pc = "put" /\ op[q].contact.trust = "verified") =>
            op[q].contact.uuid \in verifiedAs[op[q].target]

(* The type invariant, but for the history of races. *)
ListTypes ==
    /\ contacts \in [Peers -> Contact \cup {NoContact}]
    /\ audit \in [Peers -> TrustStates \cup {"none"}]
    /\ verifiedAs \in [Peers -> SUBSET UUIDs]
    /\ op \in [Procs -> Ops]
    /\ \A q \in Procs : Given(op[q])

ContactsInv == ListTypes /\ VerifiedWasVerified /\ HeldWasVerified

ProcStep(q) ==
    \/ StartImport(q) \/ LookUpUUID(q) \/ LookUpPeer(q)
    \/ StartVerify(q) \/ ReadForVerify(q)
    \/ PutContact(q) \/ AppendAuditEvent(q) \/ Stop(q)

(* A known contact, with another trust state, is a contact. *)
LEMMA ContactFacts ==
    ASSUME NEW c \in Contact, NEW t \in TrustStates
    PROVE  /\ [c EXCEPT !.trust = t] \in Contact
           /\ [c EXCEPT !.trust = t].trust = t
           /\ [c EXCEPT !.trust = t].uuid = c.uuid
           /\ Preserved(c) \in TrustStates
           /\ Preserved(c) = "verified" => c.trust = "verified"
BY DEF Contact, TrustStates, Preserved

(* To write contact c of peer p is right if it is a contact and, where     *)
(* verified, a verified one.                                               *)
LEMMA WritesPreserves ==
    ASSUME ContactsInv, NEW q \in Procs, NEW p \in Peers, NEW c \in Contact,
           Writes(q, p, c), UNCHANGED <<contacts, audit>>,
           verifiedAs' \in [Peers -> SUBSET UUIDs],
           \A r \in Peers : verifiedAs[r] \subseteq verifiedAs'[r],
           c.trust = "verified" => c.uuid \in verifiedAs'[p]
    PROVE  ContactsInv'
<1>1. ListTypes'
  <2>1. p # NoContact /\ c # NoContact BY ContactConstants
  <2> DEFINE o == [op[q] EXCEPT !.pc = "put", !.target = p, !.contact = c]
  <2>2. op[q] \in Ops BY DEF ContactsInv, ListTypes
  <2>3. o \in Ops /\ Given(o) BY <2>1, <2>2 DEF Ops, Given
  <2>4. op' = [op EXCEPT ![q] = o] BY DEF Writes
  <2> HIDE DEF o
  <2>5. op' \in [Procs -> Ops] BY <2>3, <2>4 DEF ContactsInv, ListTypes
  <2>6. \A r \in Procs : Given(op'[r]) BY <2>3, <2>4 DEF ContactsInv, ListTypes
  <2> QED BY <2>5, <2>6 DEF ContactsInv, ListTypes
<1>2. VerifiedWasVerified' BY DEF ContactsInv, ListTypes, Ops, Given,
    VerifiedWasVerified
<1>3. HeldWasVerified'
  <2>1. ASSUME NEW r \in Procs, op'[r].pc = "put", op'[r].contact.trust = "verified"
        PROVE  op'[r].contact.uuid \in verifiedAs'[op'[r].target]
    <3>1. CASE r = q BY <2>1, <3>1 DEF ContactsInv, ListTypes, Ops, Given, Writes
    <3>2. CASE r # q
      <4>1. op'[r] = op[r] BY <3>2 DEF ContactsInv, ListTypes, Ops, Given, Writes
      <4>2. op[r].target \in Peers
        BY <2>1, <4>1 DEF ContactsInv, ListTypes, Ops, Given
      <4> QED BY <2>1, <4>1, <4>2 DEF ContactsInv, HeldWasVerified
    <3> QED BY <3>1, <3>2
  <2> QED BY <2>1 DEF HeldWasVerified
<1> QED BY <1>1, <1>2, <1>3 DEF ContactsInv

(* A step that leaves the list alone and writes nothing.                   *)
LEMMA LooksPreserves ==
    ASSUME ContactsInv, UNCHANGED <<contacts, audit, verifiedAs>>, ListTypes',
           \A q \in Procs : op'[q].pc = "put" => op'[q] = op[q]
    PROVE  ContactsInv'
BY DEF ContactsInv, VerifiedWasVerified, HeldWasVerified

LEMMA InitHolds == ContactsInit => ContactsInv
BY DEF ContactsInit, ContactsInv, ListTypes, Ops, Given, VerifiedWasVerified,
   HeldWasVerified, NoOp

LEMMA ProcPreserves ==
    ASSUME ContactsInv, NEW q \in Procs, ProcStep(q)
    PROVE  ContactsInv'
<1>1. CASE StartImport(q)
  <2>1. PICK p \in Peers, u \in UUIDs :
           op' = [op EXCEPT ![q] = [NoOp EXCEPT !.pc = "uuid", !.peer = p, !.uuid = u]]
    BY <1>1 DEF StartImport, Starts, history
  <2> DEFINE o == [NoOp EXCEPT !.pc = "uuid", !.peer = p, !.uuid = u]
  <2>2. o \in Ops /\ Given(o) /\ o.pc = "uuid" BY ContactConstants DEF NoOp, Ops, Given
  <2> HIDE DEF o
  <2>3. ListTypes' BY <1>1, <2>1, <2>2 DEF StartImport, Starts, history, ContactsInv,
      ListTypes, o
  <2>4. \A r \in Procs : op'[r].pc = "put" => op'[r] = op[r]
    BY <2>1, <2>2 DEF ContactsInv, ListTypes, o
  <2> QED BY <1>1, <2>3, <2>4, LooksPreserves DEF StartImport, Starts, history
<1>2. CASE StartVerify(q)
  <2>1. PICK p \in Peers : op' = [op EXCEPT ![q] = [NoOp EXCEPT !.pc = "verify", !.peer = p]]
    BY <1>2 DEF StartVerify, Starts, history
  <2> DEFINE o == [NoOp EXCEPT !.pc = "verify", !.peer = p]
  <2>2. o \in Ops /\ Given(o) /\ o.pc = "verify"
    BY ContactConstants DEF NoOp, Ops, Given
  <2> HIDE DEF o
  <2>3. ListTypes' BY <1>2, <2>1, <2>2 DEF StartVerify, Starts, history, ContactsInv,
      ListTypes, o
  <2>4. \A r \in Procs : op'[r].pc = "put" => op'[r] = op[r]
    BY <2>1, <2>2 DEF ContactsInv, ListTypes, o
  <2> QED BY <1>2, <2>3, <2>4, LooksPreserves DEF StartVerify, Starts, history
<1>3. CASE LookUpUUID(q)
  <2> DEFINE holders == {p \in Peers : contacts[p] # NoContact /\ contacts[p].uuid = op[q].uuid}
  <2>1. CASE \E p \in holders \ {op[q].peer} :
                 Writes(q, p, [contacts[p] EXCEPT !.trust = "conflicted"])
    <3>1. PICK p \in holders : Writes(q, p, [contacts[p] EXCEPT !.trust = "conflicted"])
      BY <2>1
    <3>2. p \in Peers /\ contacts[p] \in Contact
      BY DEF ContactsInv, ListTypes, Ops, Given
    <3>3. "conflicted" \in TrustStates BY DEF TrustStates
    <3>4. UNCHANGED <<contacts, audit, verifiedAs>> BY <1>3 DEF LookUpUUID
    <3> DEFINE c == [contacts[p] EXCEPT !.trust = "conflicted"]
    <3>5. c \in Contact /\ c.trust = "conflicted" BY <3>2, <3>3, ContactFacts
    <3>6. verifiedAs' \in [Peers -> SUBSET UUIDs]
      BY <3>4 DEF ContactsInv, ListTypes
    <3> HIDE DEF c
    <3> QED BY <3>1, <3>2, <3>4, <3>5, <3>6, WritesPreserves DEF c
  <2>2. CASE op' = [op EXCEPT ![q].pc = "peer"]
    BY <1>3, <2>2, LooksPreserves DEF LookUpUUID, ContactsInv, ListTypes, Ops,
       Given
  <2> QED BY <1>3, <2>1, <2>2 DEF LookUpUUID
<1>4. CASE LookUpPeer(q)
  <2> DEFINE p == op[q].peer
             u == op[q].uuid
             known == contacts[p]
  <2>1. /\ p \in Peers /\ u \in UUIDs /\ known \in Contact \cup {NoContact}
        /\ UNCHANGED <<contacts, audit, verifiedAs>>
    BY <1>4 DEF LookUpPeer, history, ContactsInv, ListTypes, Ops, Given
  <2>2. \A t \in TrustStates : [uuid |-> u, trust |-> t] \in Contact BY <2>1 DEF Contact
  <2>3. {"tofu", "conflicted"} \subseteq TrustStates BY DEF TrustStates
  <2>4. CASE known = NoContact /\ Writes(q, p, [uuid |-> u, trust |-> "tofu"])
    <3> HIDE DEF p, u, known
    <3> QED BY <2>1, <2>2, <2>3, <2>4, WritesPreserves DEF ContactsInv,
        ListTypes, Ops, Given
  <2>5. CASE known # NoContact /\ Writes(q, p, [known EXCEPT !.trust = "conflicted"])
    <3> DEFINE c == [known EXCEPT !.trust = "conflicted"]
    <3>1. c \in Contact /\ c.trust = "conflicted" BY <2>1, <2>3, <2>5, ContactFacts
    <3>2. verifiedAs' \in [Peers -> SUBSET UUIDs]
      BY <2>1 DEF ContactsInv, ListTypes
    <3>3. Writes(q, p, c) BY <2>5
    <3> HIDE DEF p, u, known, c
    <3> QED BY <2>1, <3>1, <3>2, <3>3, WritesPreserves
  <2>6. CASE /\ known # NoContact /\ known.uuid = u
             /\ Writes(q, p, [uuid |-> u, trust |-> Preserved(known)])
    <3>1. Preserved(known) = "verified" => u \in verifiedAs[p]
      BY <2>1, <2>6, ContactFacts DEF ContactsInv, VerifiedWasVerified, Preserved
    <3>2. Preserved(known) \in TrustStates BY DEF Preserved, TrustStates
    <3> HIDE DEF p, u, known
    <3> QED BY <2>1, <2>2, <2>6, <3>1, <3>2, WritesPreserves DEF ContactsInv,
        ListTypes, Ops, Given
  <2> QED BY <1>4, <2>4, <2>5, <2>6 DEF LookUpPeer, history
<1>5. CASE ReadForVerify(q)
  <2> DEFINE p == op[q].peer
             known == contacts[p]
  <2>1. CASE op' = [op EXCEPT ![q] = NoOp] /\ UNCHANGED verifiedAs
    BY <1>5, <2>1, LooksPreserves DEF ReadForVerify, ContactsInv, ListTypes,
       Ops, Given, NoOp
  <2>2. CASE /\ known # NoContact
             /\ Writes(q, p, [known EXCEPT !.trust = "verified"])
             /\ verifiedAs' = [verifiedAs EXCEPT ![p] = @ \cup {known.uuid}]
    <3>1. p \in Peers /\ known \in Contact /\ UNCHANGED <<contacts, audit>>
      BY <1>5, <2>2 DEF ReadForVerify, ContactsInv, ListTypes, Ops, Given
    <3>2. known.uuid \in UUIDs BY <3>1 DEF Contact
    <3>3. "verified" \in TrustStates BY DEF TrustStates
    <3> HIDE DEF p, known
    <3>4. /\ verifiedAs' \in [Peers -> SUBSET UUIDs] /\ known.uuid \in verifiedAs'[p]
          /\ \A r \in Peers : verifiedAs[r] \subseteq verifiedAs'[r]
      BY <2>2, <3>1, <3>2 DEF ContactsInv, ListTypes, Ops, Given
    <3> QED BY <2>2, <3>1, <3>3, <3>4, ContactFacts, WritesPreserves
  <2> QED BY <1>5, <2>1, <2>2 DEF ReadForVerify
<1>6. CASE PutContact(q)
  <2>1. op[q].target \in Peers /\ op[q].contact \in Contact
    BY <1>6 DEF PutContact, ContactsInv, ListTypes, Ops, Given
  <2>2. ListTypes' BY <1>6, <2>1 DEF PutContact, ContactsInv, ListTypes,
      Ops, Given
  <2>3. VerifiedWasVerified'
    BY <1>6, <2>1 DEF PutContact, ContactsInv, ListTypes, Ops, Given,
       VerifiedWasVerified, HeldWasVerified
  <2>4. HeldWasVerified' BY <1>6 DEF PutContact, ContactsInv, ListTypes, Ops,
      Given, HeldWasVerified
  <2> QED BY <2>2, <2>3, <2>4 DEF ContactsInv
<1>7. CASE AppendAuditEvent(q)
  <2>1. op[q].contact.trust \in TrustStates
    BY <1>7 DEF AppendAuditEvent, history, ContactsInv, ListTypes, Ops, Given, Contact
  <2>2. ListTypes' BY <1>7, <2>1 DEF AppendAuditEvent, history, ContactsInv,
      ListTypes, Ops, Given, NoOp
  <2>3. VerifiedWasVerified' BY <1>7 DEF AppendAuditEvent, history, ContactsInv,
      VerifiedWasVerified
  <2>4. HeldWasVerified' BY <1>7 DEF AppendAuditEvent, history, ContactsInv, ListTypes,
      Ops, Given, HeldWasVerified, NoOp
  <2> QED BY <2>2, <2>3, <2>4 DEF ContactsInv
<1>8. CASE Stop(q)
  BY <1>8, LooksPreserves DEF Stop, ContactsInv, ListTypes, Ops, Given, NoOp
<1> QED BY <1>1, <1>2, <1>3, <1>4, <1>5, <1>6, <1>7, <1>8 DEF ProcStep

LEMMA RevokePreserves ==
    ASSUME ContactsInv, NEW p \in Peers, Revoke(p)
    PROVE  ContactsInv'
<1>1. contacts[p] \in Contact /\ "revoked" \in TrustStates
  BY DEF Revoke, history, ContactsInv, ListTypes, Ops, Given, TrustStates
<1>2. contacts'[p] \in Contact /\ contacts'[p].trust = "revoked"
  BY <1>1, ContactFacts DEF Revoke, history, ContactsInv, ListTypes, Ops, Given
<1>3. ListTypes' BY <1>1, <1>2 DEF Revoke, history, ContactsInv, ListTypes, Ops, Given
<1>4. VerifiedWasVerified' BY <1>2 DEF Revoke, history, ContactsInv, ListTypes, Ops,
    Given, VerifiedWasVerified
<1>5. HeldWasVerified' BY DEF Revoke, history, ContactsInv, HeldWasVerified
<1> QED BY <1>3, <1>4, <1>5 DEF ContactsInv

LEMMA StutterPreserves == ContactsInv /\ UNCHANGED contactVars => ContactsInv'
BY DEF ContactsInv, ListTypes, Ops, Given, VerifiedWasVerified, HeldWasVerified,
   contactVars, history

LEMMA ContactsInvariance == ContactsSpec => []ContactsInv
<1>1. ContactsInv /\ [ContactsNext]_contactVars => ContactsInv'
  BY ProcPreserves, RevokePreserves, StutterPreserves DEF ContactsNext, ProcStep
<1> QED BY InitHolds, <1>1, PTL DEF ContactsSpec

(* "tofu is not verified" (docs/feat/feat_20260206_maep.md 9.2): however   *)
(* many processes import and verify at once, fail or are killed, a contact *)
(* is verified only under a node uuid a user verified it under.            *)
THEOREM OnlyUsersVerify == ContactsSpec => []VerifiedWasVerified
<1>1. ContactsInv => VerifiedWasVerified BY DEF ContactsInv
<1> QED BY ContactsInvariance, <1>1, PTL
-----------------------------------------------------------------------------
(* Operations that race.  A uuid is claimed for a peer by the list, and by *)
(* an operation that may still write it; where no look-up has raced, all   *)
(* who claim a uuid claim it for one peer.  What an operation is about to  *)
(* write of a peer follows from the contact in the list, as long as no     *)
(* other operation has written that contact.                               *)

Claimed(p, u) == Holds(p, u) \/ \E q \in Procs : MayWrite(op[q], p, u)

OneClaim ==
    \A u \in UUIDs \ raced : \A p, r \in Peers : Claimed(p, u) /\ Claimed(r, u) => p = r

Follows(o) == o.pc = "put" => (Blocked(contacts[o.target]) => Blocked(o.contact))

RaceInv ==
    /\ raced \subseteq UUIDs /\ overtaken \subseteq Procs
    /\ OneClaim
    /\ \A q \in Procs \ overtaken : Follows(op[q])

(* One process goes on, the list stays, and no uuid is newly claimed.      *)
LEMMA GoesOn ==
    ASSUME ContactsInv, RaceInv, NEW q \in Procs, NEW o \in Ops, op' = [op EXCEPT ![q] = o],
           contacts' = contacts, raced' = raced,
           overtaken' = overtaken \/ overtaken' = overtaken \ {q},
           \A p \in Peers, u \in UUIDs : MayWrite(o, p, u) => Claimed(p, u),
           Follows(o)
    PROVE  RaceInv'
<1>1. op \in [Procs -> Ops] BY DEF ContactsInv, ListTypes
<1>2. op'[q] = o /\ \A r \in Procs \ {q} : op'[r] = op[r] BY <1>1
<1>3. ASSUME NEW p \in Peers, NEW u \in UUIDs, Claimed(p, u)' PROVE Claimed(p, u)
  <2>1. Holds(p, u) \/ \E r \in Procs : MayWrite(op'[r], p, u)
    BY <1>3 DEF Claimed, Holds, MayWrite
  <2>2. ASSUME NEW r \in Procs, MayWrite(op'[r], p, u) PROVE Claimed(p, u)
    <3>1. CASE r = q BY <1>2, <2>2, <3>1
    <3>2. CASE r # q BY <1>2, <2>2, <3>2 DEF Claimed
    <3> QED BY <3>1, <3>2
  <2> QED BY <2>1, <2>2 DEF Claimed
<1>4. OneClaim' BY <1>3 DEF RaceInv, OneClaim
<1>5. ASSUME NEW r \in Procs \ overtaken' PROVE Follows(op[r])'
  <2>1. Follows(op'[r])
    <3>1. CASE r = q BY <1>2, <3>1
    <3>2. CASE r # q BY <1>2, <1>5, <3>2 DEF RaceInv
    <3> QED BY <3>1, <3>2
  <2> QED BY <2>1 DEF Follows, Blocked
<1> QED BY <1>4, <1>5 DEF RaceInv

(* An operation is about to write contact c of peer p, which it has read.  *)
LEMMA WritesRace ==
    ASSUME ContactsInv, RaceInv, NEW q \in Procs,
           NEW p \in Peers, NEW c \in Contact,
           Writes(q, p, c), UNCHANGED <<contacts, raced, overtaken>>,
           Claimed(p, c.uuid),
           Blocked(contacts[p]) => Blocked(c)
    PROVE  RaceInv'
<1> DEFINE o == [op[q] EXCEPT !.pc = "put", !.target = p, !.contact = c]
<1>1. op[q] \in Ops BY DEF ContactsInv, ListTypes
<1>2. o \in Ops /\ o.pc = "put" /\ o.target = p /\ o.contact = c BY <1>1 DEF Ops
<1>3. op' = [op EXCEPT ![q] = o] BY DEF Writes
<1> HIDE DEF o
<1>4. Follows(o) BY <1>2 DEF Follows
<1>5. \A r \in Peers, u \in UUIDs : MayWrite(o, r, u) => Claimed(r, u) BY <1>2 DEF MayWrite
<1> QED BY <1>2, <1>3, <1>4, <1>5, GoesOn

LEMMA ProcRace ==
    ASSUME ContactsInv, RaceInv, NEW q \in Procs, ProcStep(q)
    PROVE  RaceInv'
<1>0. op \in [Procs -> Ops] /\ contacts \in [Peers -> Contact \cup {NoContact}] /\ Given(op[q])
  BY DEF ContactsInv, ListTypes
<1>a. NoOp \in Ops /\ Follows(NoOp) /\ \A p \in Peers, u \in UUIDs : ~MayWrite(NoOp, p, u)
  BY DEF NoOp, Ops, Follows, MayWrite
<1>1. CASE StartImport(q)
  <2>1. PICK p \in Peers, u \in UUIDs :
           op' = [op EXCEPT ![q] = [NoOp EXCEPT !.pc = "uuid", !.peer = p, !.uuid = u]]
    BY <1>1 DEF StartImport
  <2> DEFINE o == [NoOp EXCEPT !.pc = "uuid", !.peer = p, !.uuid = u]
  <2>2. o \in Ops /\ o.pc = "uuid" BY DEF NoOp, Ops
  <2>3. Follows(o) /\ \A r \in Peers, v \in UUIDs : ~MayWrite(o, r, v)
    BY <2>2 DEF Follows, MayWrite
  <2>4. op' = [op EXCEPT ![q] = o] BY <2>1
  <2> HIDE DEF o
  <2> QED BY <1>1, <2>2, <2>3, <2>4, GoesOn DEF StartImport, Starts, history
<1>2. CASE StartVerify(q)
  <2>1. PICK p \in Peers : op' = [op EXCEPT ![q] = [NoOp EXCEPT !.pc = "verify", !.peer = p]]
    BY <1>2 DEF StartVerify
  <2> DEFINE o == [NoOp EXCEPT !.pc = "verify", !.peer = p]
  <2>2. o \in Ops /\ o.pc = "verify" BY DEF NoOp, Ops
  <2>3. Follows(o) /\ \A r \in Peers, v \in UUIDs : ~MayWrite(o, r, v)
    BY <2>2 DEF Follows, MayWrite
  <2>4. op' = [op EXCEPT ![q] = o] BY <2>1
  <2> HIDE DEF o
  <2> QED BY <1>2, <2>2, <2>3, <2>4, GoesOn DEF StartVerify, Starts, history
<1>3. CASE LookUpUUID(q)
  <2> DEFINE holders == {p \in Peers : contacts[p] # NoContact /\ contacts[p].uuid = op[q].uuid}
  <2>0. /\ op[q].pc = "uuid" /\ UNCHANGED <<contacts, overtaken>>
        /\ op[q].peer \in Peers /\ op[q].uuid \in UUIDs
    BY <1>0, <1>3 DEF LookUpUUID, Given, Ops
  <2>1. CASE (\E p \in holders \ {op[q].peer} :
                 Writes(q, p, [contacts[p] EXCEPT !.trust = "conflicted"])) /\ UNCHANGED raced
    <3>1. PICK p \in holders : Writes(q, p, [contacts[p] EXCEPT !.trust = "conflicted"])
      BY <2>1
    <3>2. p \in Peers /\ contacts[p] \in Contact BY <1>0
    <3> DEFINE c == [contacts[p] EXCEPT !.trust = "conflicted"]
    <3>3. c \in Contact /\ c.trust = "conflicted" /\ c.uuid = contacts[p].uuid
      BY <3>2, ContactFacts DEF TrustStates
    <3>4. Blocked(c) BY <3>3, ContactConstants DEF Blocked
    <3>5. contacts[p] # NoContact BY <3>1
    <3>6. Writes(q, p, c) BY <3>1
    <3> HIDE DEF c, holders
    <3>7. Claimed(p, c.uuid) BY <3>3, <3>5 DEF Claimed, Holds
    <3> QED BY <2>0, <2>1, <3>2, <3>3, <3>4, <3>6, <3>7, WritesRace
  <2>2. CASE /\ holders = {} \/ op[q].peer \in holders
             /\ op' = [op EXCEPT ![q].pc = "peer"]
             /\ raced' = IF RacedWith(q) THEN raced \cup {op[q].uuid} ELSE raced
    <3> DEFINE o == [op[q] EXCEPT !.pc = "peer"]
    <3>1. /\ o \in Ops /\ o.pc = "peer" /\ o.peer = op[q].peer /\ o.uuid = op[q].uuid
          /\ op' = [op EXCEPT ![q] = o]
      BY <1>0, <2>2 DEF Ops
    <3> HIDE DEF o
    <3>2. op'[q] = o /\ \A r \in Procs \ {q} : op'[r] = op[r] BY <1>0, <3>1
    <3>3. ASSUME NEW p \in Peers, NEW u \in UUIDs, Claimed(p, u)'
          PROVE  Claimed(p, u) \/ (p = op[q].peer /\ u = op[q].uuid)
      <4>1. Holds(p, u) \/ \E r \in Procs : MayWrite(op'[r], p, u)
        BY <2>0, <3>3 DEF Claimed, Holds, MayWrite
      <4>2. ASSUME NEW r \in Procs, MayWrite(op'[r], p, u)
            PROVE  Claimed(p, u) \/ (p = op[q].peer /\ u = op[q].uuid)
        <5>1. CASE r = q BY <3>1, <3>2, <4>2, <5>1 DEF MayWrite
        <5>2. CASE r # q BY <3>2, <4>2, <5>2 DEF Claimed
        <5> QED BY <5>1, <5>2
      <4> QED BY <4>1, <4>2 DEF Claimed
    <3>4. ASSUME op[q].uuid \notin raced', NEW p \in Peers, Claimed(p, op[q].uuid)
          PROVE  p = op[q].peer
      <4>1. ~RacedWith(q) /\ op[q].uuid \notin raced BY <2>2, <3>4
      <4>2. CASE Holds(p, op[q].uuid)
        <5>1. op[q].peer \in holders BY <2>2, <4>2 DEF Holds
        <5>2. Claimed(op[q].peer, op[q].uuid) BY <5>1 DEF Claimed, Holds
        <5> QED BY <2>0, <3>4, <4>1, <5>2 DEF RaceInv, OneClaim
      <4>3. CASE \E r \in Procs : MayWrite(op[r], p, op[q].uuid)
        BY <4>1, <4>3 DEF RacedWith
      <4> QED BY <3>4, <4>2, <4>3 DEF Claimed
    <3>5. OneClaim'
      <4> SUFFICES ASSUME NEW u \in UUIDs \ raced', NEW p \in Peers, NEW r \in Peers,
                          Claimed(p, u)', Claimed(r, u)'
                   PROVE  p = r
        BY DEF OneClaim
      <4>1. u \notin raced BY <2>2
      <4>2. CASE u = op[q].uuid
        <5>1. p = op[q].peer BY <3>3, <3>4, <4>2
        <5>2. r = op[q].peer BY <3>3, <3>4, <4>2
        <5> QED BY <5>1, <5>2
      <4>3. CASE u # op[q].uuid
        <5>1. Claimed(p, u) /\ Claimed(r, u) BY <3>3, <4>3
        <5> QED BY <4>1, <5>1 DEF RaceInv, OneClaim
      <4> QED BY <4>2, <4>3
    <3>6. ASSUME NEW r \in Procs \ overtaken' PROVE Follows(op[r])'
      <4>1. Follows(op'[r])
        <5>1. CASE r = q BY <3>1, <3>2, <5>1 DEF Follows
        <5>2. CASE r # q BY <2>0, <3>2, <3>6, <5>2 DEF RaceInv
        <5> QED BY <5>1, <5>2
      <4> QED BY <2>0, <4>1 DEF Follows, Blocked
    <3>7. raced' \subseteq UUIDs /\ overtaken' \subseteq Procs BY <2>0, <2>2 DEF RaceInv
    <3> QED BY <3>5, <3>6, <3>7 DEF RaceInv
  <2> QED BY <1>3, <2>1, <2>2 DEF LookUpUUID
<1>4. CASE LookUpPeer(q)
  <2> DEFINE p == op[q].peer
             u == op[q].uuid
             known == contacts[p]
  <2>1. /\ p \in Peers /\ u \in UUIDs /\ known \in Contact \cup {NoContact}
        /\ op[q].pc = "peer" /\ UNCHANGED <<contacts, raced, overtaken>>
    BY <1>0, <1>4 DEF LookUpPeer, Ops, Given, history
  <2>2. Claimed(p, u) BY <2>1 DEF Claimed, MayWrite
  <2>3. CASE known = NoContact /\ Writes(q, p, [uuid |-> u, trust |-> "tofu"])
    <3>1. [uuid |-> u, trust |-> "tofu"] \in Contact BY <2>1 DEF Contact, TrustStates
    <3>2. ~Blocked(contacts[p]) BY <2>3 DEF Blocked
    <3> HIDE DEF p, u, known
    <3> QED BY <2>1, <2>2, <2>3, <3>1, <3>2, WritesRace
  <2>4. CASE known # NoContact /\ Writes(q, p, [known EXCEPT !.trust = "conflicted"])
    <3> DEFINE c == [known EXCEPT !.trust = "conflicted"]
    <3>1. c \in Contact /\ c.trust = "conflicted" /\ c.uuid = known.uuid
      BY <2>1, <2>4, ContactFacts DEF TrustStates
    <3>2. Blocked(c) BY <3>1, ContactConstants DEF Blocked
    <3>3. Writes(q, p, c) BY <2>4
    <3>4. known = contacts[p] OBVIOUS
    <3> HIDE DEF p, u, known, c
    <3>5. Claimed(p, c.uuid) BY <2>4, <3>1, <3>4 DEF Claimed, Holds
    <3> QED BY <2>1, <3>1, <3>2, <3>3, <3>5, WritesRace
  <2>5. CASE /\ known # NoContact /\ known.uuid = u
             /\ Writes(q, p, [uuid |-> u, trust |-> Preserved(known)])
    <3> DEFINE c == [uuid |-> u, trust |-> Preserved(known)]
    <3>1. c \in Contact /\ c.uuid = u /\ c.trust = Preserved(known)
      BY <2>1 DEF Contact, Preserved, TrustStates
    <3>2. Blocked(known) => Blocked(c) BY <3>1, ContactConstants DEF Blocked, Preserved
    <3>3. Writes(q, p, c) BY <2>5
    <3>4. known = contacts[p] OBVIOUS
    <3> HIDE DEF p, u, known, c
    <3> QED BY <2>1, <2>2, <3>1, <3>2, <3>3, <3>4, WritesRace
  <2> QED BY <1>4, <2>3, <2>4, <2>5 DEF LookUpPeer
<1>5. CASE ReadForVerify(q)
  <2> DEFINE p == op[q].peer
             known == contacts[p]
  <2>0. op[q].pc = "verify" /\ UNCHANGED <<contacts, raced, overtaken>> /\ p \in Peers
    BY <1>0, <1>5 DEF ReadForVerify, Given, Ops
  <2>1. CASE op' = [op EXCEPT ![q] = NoOp] BY <1>a, <2>0, <2>1, GoesOn
  <2>2. CASE /\ ~(known = NoContact \/ Blocked(known))
             /\ Writes(q, p, [known EXCEPT !.trust = "verified"])
    <3> DEFINE c == [known EXCEPT !.trust = "verified"]
    <3>0. known \in Contact /\ "verified" \in TrustStates
      BY <1>0, <2>0, <2>2 DEF TrustStates
    <3>1. c \in Contact /\ c.uuid = known.uuid BY <3>0, ContactFacts
    <3>3. Writes(q, p, c) BY <2>2
    <3>4. known = contacts[p] OBVIOUS
    <3> HIDE DEF p, known, c
    <3>5. Claimed(p, c.uuid) BY <2>2, <3>1, <3>4 DEF Claimed, Holds
    <3> QED BY <2>0, <2>2, <3>1, <3>3, <3>4, <3>5, WritesRace
  <2> QED BY <1>5, <2>1, <2>2 DEF ReadForVerify
<1>6. CASE PutContact(q)
  <2> DEFINE o == [op[q] EXCEPT !.pc = "audit"]
             t == op[q].target
             c == op[q].contact
  <2>1. /\ op' = [op EXCEPT ![q] = o] /\ o.pc = "audit" /\ op[q].pc = "put"
        /\ contacts' = [contacts EXCEPT ![t] = c] /\ raced' = raced
        /\ overtaken' = (overtaken \ {q}) \cup
              {r \in Procs \ {q} : op[r].pc = "put" /\ op[r].target = t}
        /\ t \in Peers /\ c \in Contact
    BY <1>0, <1>6 DEF PutContact, Ops, Given
  <2>2. op'[q].pc = "audit" /\ \A r \in Procs \ {q} : op'[r] = op[r] BY <1>0, <2>1
  <2>3. Claimed(t, c.uuid) BY <2>1 DEF Claimed, MayWrite
  <2> HIDE DEF o, t, c
  <2>4. contacts'[t] = c /\ \A r \in Peers \ {t} : contacts'[r] = contacts[r] BY <1>0, <2>1
  <2>5. ASSUME NEW p \in Peers, NEW u \in UUIDs, Claimed(p, u)' PROVE Claimed(p, u)
    <3>1. Holds(p, u)' \/ \E r \in Procs : MayWrite(op'[r], p, u)
      BY <2>5 DEF Claimed, MayWrite
    <3>2. CASE Holds(p, u)'
      <4>1. CASE p = t BY <2>3, <2>4, <3>2, <4>1 DEF Holds
      <4>2. CASE p # t BY <2>4, <3>2, <4>2 DEF Claimed, Holds
      <4> QED BY <4>1, <4>2
    <3>3. ASSUME NEW r \in Procs, MayWrite(op'[r], p, u) PROVE Claimed(p, u)
      BY <2>2, <3>3 DEF MayWrite, Claimed
    <3> QED BY <3>1, <3>2, <3>3
  <2>6. OneClaim' BY <2>1, <2>5 DEF RaceInv, OneClaim
  <2>7. ASSUME NEW r \in Procs \ overtaken' PROVE Follows(op[r])'
    <3>1. CASE r = q BY <2>2, <3>1 DEF Follows
    <3>2. CASE r # q
      <4>1. op'[r] = op[r] /\ Follows(op[r]) BY <2>1, <2>2, <2>7, <3>2 DEF RaceInv
      <4>2. op[r].pc = "put" => op[r].target \in Peers \ {t}
        BY <2>1, <2>7, <3>2 DEF ContactsInv, ListTypes, Given, Ops
      <4> QED BY <2>4, <4>1, <4>2 DEF Follows, Blocked
    <3> QED BY <3>1, <3>2
  <2>8. raced' \subseteq UUIDs /\ overtaken' \subseteq Procs BY <2>1 DEF RaceInv
  <2> QED BY <2>6, <2>7, <2>8 DEF RaceInv
<1>7. CASE AppendAuditEvent(q) \/ Stop(q)
  <2>1. /\ op' = [op EXCEPT ![q] = NoOp] /\ UNCHANGED <<contacts, raced>>
        /\ overtaken' = overtaken \/ overtaken' = overtaken \ {q}
    BY <1>7 DEF AppendAuditEvent, Stop, history
  <2> QED BY <1>a, <2>1, GoesOn
<1> QED BY <1>1, <1>2, <1>3, <1>4, <1>5, <1>6, <1>7 DEF ProcStep

LEMMA RevokeRace ==
    ASSUME ContactsInv, RaceInv, NEW p \in Peers, Revoke(p)
    PROVE  RaceInv'
<1>1. /\ contacts \in [Peers -> Contact \cup {NoContact}] /\ contacts[p] \in Contact
      /\ "revoked" \in TrustStates
  BY DEF ContactsInv, ListTypes, Revoke, TrustStates
<1> DEFINE c == [contacts[p] EXCEPT !.trust = "revoked"]
<1>a. c \in Contact /\ c.uuid = contacts[p].uuid BY <1>1, ContactFacts
<1>b. contacts' = [contacts EXCEPT ![p] = c] BY DEF Revoke
<1> HIDE DEF c
<1>2. \A r \in Peers, u \in UUIDs : Holds(r, u)' => Holds(r, u)
  BY <1>1, <1>a, <1>b, ContactConstants DEF Holds
<1>3. UNCHANGED <<op, raced, overtaken>> /\ \A q \in Procs : op[q].pc = "idle"
  BY DEF Revoke, history
<1>4. \A r \in Peers, u \in UUIDs : Claimed(r, u)' => Claimed(r, u)
  BY <1>2, <1>3 DEF Claimed, MayWrite
<1>5. OneClaim' BY <1>3, <1>4 DEF RaceInv, OneClaim
<1>6. \A q \in Procs : Follows(op[q])' BY <1>3 DEF Follows
<1> QED BY <1>3, <1>5, <1>6 DEF RaceInv

LEMMA RaceInvHolds == ContactsSpec => [](ContactsInv /\ RaceInv)
<1>1. ContactsInit => RaceInv
  BY DEF ContactsInit, RaceInv, OneClaim, Claimed, Holds, MayWrite, Follows, NoOp
<1>2. ContactsInv /\ RaceInv /\ [ContactsNext]_contactVars => RaceInv'
  <2>1. ASSUME ContactsInv, RaceInv, UNCHANGED contactVars PROVE RaceInv'
    BY <2>1 DEF RaceInv, OneClaim, Claimed, Holds, MayWrite, Follows, Blocked,
       contactVars, history
  <2> QED BY <2>1, ProcRace, RevokeRace DEF ContactsNext, ProcStep
<1> QED BY ContactsInvariance, <1>1, <1>2, PTL DEF ContactsSpec

(* Only writing a contact back changes it, and a revocation.               *)
LEMMA BlockedInStep ==
    ASSUME ContactsInv, RaceInv, [ContactsNext]_contactVars,
           NEW p \in Peers, Blocked(contacts[p])
    PROVE  Blocked(contacts'[p]) \/ WritesOldCopy(p)
<1>0. op \in [Procs -> Ops] /\ contacts \in [Peers -> Contact \cup {NoContact}]
  BY DEF ContactsInv, ListTypes
<1>1. CASE contacts' = contacts BY <1>1
<1>2. ASSUME NEW q \in Procs, PutContact(q) PROVE Blocked(contacts'[p]) \/ WritesOldCopy(p)
  <2> DEFINE t == op[q].target
  <2>1. op[q].pc = "put" /\ op'[q].pc = "audit" /\ contacts' = [contacts EXCEPT ![t] = op[q].contact]
    BY <1>0, <1>2 DEF PutContact
  <2>2. CASE q \notin overtaken
    <3>1. Follows(op[q]) BY <2>2 DEF RaceInv
    <3> QED BY <1>0, <2>1, <3>1 DEF Follows
  <2>3. CASE q \in overtaken
    <3>1. CASE t = p BY <2>1, <2>3, <3>1 DEF WritesOldCopy
    <3>2. CASE t # p BY <1>0, <2>1, <3>2
    <3> QED BY <3>1, <3>2
  <2> QED BY <2>2, <2>3
<1>3. ASSUME NEW r \in Peers, Revoke(r) PROVE Blocked(contacts'[p])
  <2>1. contacts[r] \in Contact /\ "revoked" \in TrustStates
    BY <1>0, <1>3 DEF Revoke, TrustStates
  <2> DEFINE c == [contacts[r] EXCEPT !.trust = "revoked"]
  <2>a. c \in Contact /\ c.trust = "revoked" BY <2>1, ContactFacts
  <2>b. contacts' = [contacts EXCEPT ![r] = c] BY <1>3 DEF Revoke
  <2> HIDE DEF c
  <2>2. contacts'[r] \in Contact /\ contacts'[r].trust = "revoked" BY <1>0, <2>a, <2>b
  <2>3. Blocked(contacts'[r]) BY <2>2, ContactConstants DEF Blocked
  <2>4. r # p => contacts'[p] = contacts[p] BY <1>0, <1>3 DEF Revoke
  <2> QED BY <2>3, <2>4
<1>4. \/ contacts' = contacts
      \/ \E q \in Procs : PutContact(q)
      \/ \E r \in Peers : Revoke(r)
  BY DEF ContactsNext, contactVars, StartImport, StartVerify, Starts, LookUpUUID, LookUpPeer,
     ReadForVerify,
         AppendAuditEvent, Stop
<1> QED BY <1>1, <1>2, <1>3, <1>4

(* docs/feat/feat_20260206_maep.md 5.3, "forbid automatic overwrite": for  *)
(* any number of imports and verifications at work at one time, wherever   *)
(* they stop, no two contacts have one node uuid, but for a uuid that an   *)
(* import looked up while another operation had still to write it into     *)
(* the contact of another peer.                                            *)
THEOREM NoUUIDTwice == ContactsSpec => []OnePeerPerUUID
<1>1. RaceInv => OnePeerPerUUID BY DEF RaceInv, OneClaim, Claimed, OnePeerPerUUID
<1> QED BY RaceInvHolds, <1>1, PTL

(* The same document, 9.2: no import, conflict, verification or revocation *)
(* takes a contact out of conflicted and revoked, but an operation that    *)
(* writes a copy back which another operation's write had made an old one. *)
THEOREM BlockedIsKept == ContactsSpec => BlockedStays
<1>1. ContactsInv /\ RaceInv /\ [ContactsNext]_contactVars =>
        [\A p \in Peers :
           Blocked(contacts[p]) => Blocked(contacts'[p]) \/ WritesOldCopy(p)]_contactVars
  BY BlockedInStep
<1> QED BY RaceInvHolds, <1>1, PTL DEF ContactsSpec, BlockedStays

(* The contact list, the operations at work on it and the history of their *)
(* races keep their types.                                                 *)
THEOREM ContactsTypeCorrect == ContactsSpec => []ContactsTypeOK
<1>1. ContactsInv /\ RaceInv => ContactsTypeOK
  BY DEF ContactsInv, RaceInv, ListTypes, ContactsTypeOK
<1> QED BY RaceInvHolds, <1>1, PTL
-----------------------------------------------------------------------------
(* The arithmetic of a session keeps its type, and what it leaves alone.   *)
LEMMA FeedbackType ==
    ASSUME NEW s \in Sessions, NEW delta \in Deltas \cup {0}
    PROVE  /\ ApplyFeedback(s, delta) \in Sessions
           /\ ApplyFeedback(s, delta).turns = s.turns
           /\ ApplyFeedback(s, delta).until = s.until
           /\ ApplyFeedback(s, delta).synced = s.synced
<1>1. delta \in -8..7 BY DialogueConstants
<1> DEFINE level == Clamp(OrDefault(s.interest) + delta)
           low == IF level >= StopThreshold THEN 0
                  ELSE IF s.low < LowRoundsLimit THEN s.low + 1 ELSE LowRoundsLimit
<1>2. level \in 0..20
  BY <1>1 DEF Sessions, Clamp, OrDefault, DefaultInterest
<1>3. low \in 0..LowRoundsLimit
  BY <1>2 DEF Sessions, LowRoundsLimit, StopThreshold
<1>4. ApplyFeedback(s, delta) = [s EXCEPT !.interest = level, !.low = low]
  BY DEF ApplyFeedback
<1> HIDE DEF level, low
<1> QED BY <1>2, <1>3, <1>4 DEF Sessions

LEMMA CoolsType ==
    ASSUME NEW s \in Sessions, now \in 1..MaxTime
    PROVE  /\ Cools(s) \in Sessions /\ Cools(s).turns = s.turns
           /\ Cools(s).until # 0 /\ Cools(s).synced = s.synced
<1>1. now + Cooldown \in 0..(MaxTime + Cooldown) /\ now + Cooldown # 0
  BY DialogueConstants
<1> QED BY <1>1 DEF Cools, Sessions

LEMMA RenewedType ==
    ASSUME NEW s \in Sessions, now \in 1..MaxTime, ~Cooling(s)
    PROVE  /\ Renewed(s) \in Sessions /\ Renewed(s).until = 0
           /\ \/ s.until = 0 /\ Renewed(s) = s
              \/ s.until # 0 /\ Renewed(s).turns = 0 /\ ~Renewed(s).synced
<1>1. CASE s.until = 0 BY <1>1 DEF Renewed
<1>2. CASE s.until # 0
  <2> DEFINE r == NewSession(DefaultInterest)
  <2>1. r \in Sessions /\ r.until = 0 /\ r.turns = 0 /\ ~r.synced
    BY DialogueConstants DEF NewSession, DefaultInterest, Sessions, LowRoundsLimit
  <2>2. Renewed(s) = r
    BY <1>2, DialogueConstants DEF Renewed, Cooling, Sessions
  <2> QED BY <1>2, <2>1, <2>2
<1> QED BY <1>1, <1>2

LEMMA TypeInit == Init => TypeOK
<1> SUFFICES ASSUME Init PROVE TypeOK OBVIOUS
<1>1. NewSession(0) \in Sessions
  BY DialogueConstants DEF NewSession, Sessions, LowRoundsLimit
<1>2. session \in [Bots -> Sessions] BY <1>1 DEF Init
<1> QED BY <1>2, DialogueConstants DEF Init, TypeOK, Zero

(* What a decision leaves: a session whose cooldown runs, or a new turn.   *)
LEMMA Decision ==
    ASSUME IInv, NEW b \in Bots, Decide(b)
    PROVE  \E s \in Sessions :
              /\ session' = [session EXCEPT ![b] = s]
              /\ \/ /\ s.until # 0 /\ s.synced
                    /\ worker' \in {[worker EXCEPT ![b] = "idle"], [worker EXCEPT ![b] = "refresh"]}
                    /\ blocks' = [blocks EXCEPT ![b] = @ + 1]
                 \/ /\ s.until = 0 /\ ~s.synced /\ s.turns < MaxTurns
                    /\ \/ session[b].until = 0 /\ s.turns = session[b].turns
                       \/ session[b].until # 0 /\ s.turns = 0
                    /\ worker' = [worker EXCEPT ![b] = "run"]
                    /\ blocks' = blocks
<1>1. session[b] \in Sessions /\ now \in 1..MaxTime /\ (session[b].synced <=> session[b].until # 0)
  BY DEF IInv, TypeOK, TurnsPerBlock
<1>2. PICK delta \in Deltas \cup {0}, wrapUp \in BOOLEAN :
         LET s == ApplyFeedback(session[b], delta) IN
          \/ LimitedByFeedback(s, wrapUp) /\ Block(b, Cools(s))
          \/ /\ ~LimitedByFeedback(s, wrapUp)
             /\ \/ Cooling(s) /\ Block(b, s)
                \/ ~Cooling(s) /\ TurnsUsedUp(Renewed(s)) /\ Block(b, Cools(Renewed(s)))
                \/ ~Cooling(s) /\ ~TurnsUsedUp(Renewed(s)) /\ Allow(b, Renewed(s))
  BY DEF Decide
<1> DEFINE f == ApplyFeedback(session[b], delta)
<1>3. f \in Sessions /\ f.turns = session[b].turns /\ f.until = session[b].until
      /\ f.synced = session[b].synced
  BY <1>1, FeedbackType
<1>4. ASSUME NEW r \in Sessions, r.until # 0, Block(b, r)
      PROVE  \E s \in Sessions :
                /\ session' = [session EXCEPT ![b] = s] /\ s.until # 0 /\ s.synced
                /\ worker' \in {[worker EXCEPT ![b] = "idle"], [worker EXCEPT ![b] = "refresh"]}
                /\ blocks' = [blocks EXCEPT ![b] = @ + 1]
  <2>1. [r EXCEPT !.synced = TRUE] \in Sessions /\ [r EXCEPT !.synced = TRUE].until # 0
        /\ [r EXCEPT !.synced = TRUE].synced
    BY <1>4 DEF Sessions
  <2>2. worker' \in {[worker EXCEPT ![b] = "idle"], [worker EXCEPT ![b] = "refresh"]}
    BY <1>4 DEF Block
  <2> QED BY <1>4, <2>1, <2>2 DEF Block
<1> HIDE DEF f
<1>5. CASE Block(b, Cools(f)) BY <1>1, <1>3, <1>4, <1>5, CoolsType
<1>6. CASE Cooling(f) /\ Block(b, f) BY <1>3, <1>4, <1>6 DEF Cooling
<1>7. CASE ~Cooling(f) /\ Block(b, Cools(Renewed(f)))
  BY <1>1, <1>3, <1>4, <1>7, RenewedType, CoolsType
<1>8. CASE ~Cooling(f) /\ ~TurnsUsedUp(Renewed(f)) /\ Allow(b, Renewed(f))
  <2> DEFINE r == Renewed(f)
             s == [r EXCEPT !.interest = OrDefault(r.interest)]
  <2>1. r \in Sessions /\ r.until = 0 /\ ~(r.turns >= MaxTurns)
    BY <1>1, <1>3, <1>8, RenewedType DEF TurnsUsedUp
  <2>2. /\ session[b].until = 0 => r.turns = session[b].turns /\ ~r.synced
        /\ session[b].until # 0 => r.turns = 0 /\ ~r.synced
    BY <1>1, <1>3, <1>8, RenewedType
  <2>3. session' = [session EXCEPT ![b] = s] /\ worker' = [worker EXCEPT ![b] = "run"]
        /\ blocks' = blocks
    BY <1>8 DEF Allow
  <2> HIDE DEF r
  <2>4. s \in Sessions /\ s.until = 0 /\ ~s.synced /\ s.turns = r.turns /\ s.turns < MaxTurns
    BY <2>1, <2>2, DialogueConstants DEF Sessions, OrDefault, DefaultInterest
  <2> HIDE DEF s
  <2> QED BY <2>2, <2>3, <2>4
<1> QED BY <1>2, <1>5, <1>6, <1>7, <1>8 DEF f

LEMMA TypeStep == IInv /\ [Next]_vars => TypeOK'
<1> SUFFICES ASSUME IInv, [Next]_vars PROVE TypeOK' OBVIOUS
<1>0. TypeOK BY DEF IInv
<1>a. ASSUME NEW b \in Bots, Arrives(b) PROVE events' \in [Bots -> 0..EventCap]
  BY <1>0, <1>a, DialogueConstants DEF TypeOK, Arrives
<1>b. \A b \in Bots : Peer(b) \in Bots BY DEF Bots, Peer
<1>1. CASE Tick
  BY <1>0, <1>1, DialogueConstants DEF Tick, TypeOK, ghosts
<1>2. ASSUME NEW b \in Bots, Kick(b) PROVE TypeOK'
  BY <1>0, <1>a, <1>2, DialogueConstants DEF Kick, TypeOK
<1>3. ASSUME NEW b \in Bots, Take(b) PROVE TypeOK'
  BY <1>0, <1>3, DialogueConstants DEF Take, TypeOK, ghosts
<1>4. ASSUME NEW b \in Bots, Decide(b) PROVE TypeOK'
  <2>1. session' \in [Bots -> Sessions] BY <1>0, <1>4, Decision DEF TypeOK
  <2>2. worker' \in [Bots -> {"idle", "classify", "run", "push", "refresh"}]
    BY <1>0, <1>4, Decision DEF TypeOK
  <2>3. blocks' \in [Bots -> Nat] BY <1>0, <1>4, Decision DEF TypeOK
  <2>4. UNCHANGED <<now, events, kicks, replies, lost>> BY <1>4 DEF Decide
  <2> QED BY <1>0, <2>1, <2>2, <2>3, <2>4 DEF TypeOK
<1>5. ASSUME NEW b \in Bots, Refresh(b) \/ Run(b) PROVE TypeOK'
  BY <1>0, <1>5 DEF Refresh, Run, Becomes, TypeOK, ghosts
<1>6. ASSUME NEW b \in Bots, PushOk(b) PROVE TypeOK'
  <2>1. session[b] \in Sessions /\ session[b].turns < MaxTurns
    BY <1>0, <1>6 DEF PushOk, IInv, TypeOK, TurnsPerBlock
  <2>2. [session[b] EXCEPT !.turns = @ + 1] \in Sessions
    BY <2>1, DialogueConstants DEF Sessions
  <2>3. session' \in [Bots -> Sessions]
    BY <1>0, <1>6, <2>2 DEF PushOk, CountTurn, TypeOK
  <2>4. events' \in [Bots -> 0..EventCap] BY <1>a, <1>b, <1>6 DEF PushOk
  <2>5. replies' \in [Bots -> Nat] BY <1>0, <1>6 DEF PushOk, TypeOK
  <2>6. worker' \in [Bots -> {"idle", "classify", "run", "push", "refresh"}]
    BY <1>0, <1>6 DEF PushOk, Becomes, TypeOK
  <2>7. UNCHANGED <<now, kicks, lost, blocks>> BY <1>6 DEF PushOk
  <2> QED BY <1>0, <2>3, <2>4, <2>5, <2>6, <2>7 DEF TypeOK
<1>7. ASSUME NEW b \in Bots, PushFails(b) PROVE TypeOK'
  <2>1. events' \in [Bots -> 0..EventCap]
    BY <1>0, <1>a, <1>b, <1>7 DEF PushFails, TypeOK
  <2>2. replies' \in [Bots -> Nat] /\ lost' \in [Bots -> 0..MaxLost]
    BY <1>0, <1>7, DialogueConstants DEF PushFails, TypeOK
  <2>3. worker' \in [Bots -> {"idle", "classify", "run", "push", "refresh"}]
    BY <1>0, <1>7 DEF PushFails, Becomes, TypeOK
  <2>4. UNCHANGED <<now, session, kicks, blocks>> BY <1>7 DEF PushFails
  <2> QED BY <1>0, <2>1, <2>2, <2>3, <2>4 DEF TypeOK
<1>8. CASE UNCHANGED vars BY <1>0, <1>8 DEF vars, ghosts, TypeOK
<1> QED BY <1>1, <1>2, <1>3, <1>4, <1>5, <1>6, <1>7, <1>8 DEF Next, WorkerStep

(* Who is who.                                                             *)
LEMMA TwoBots ==
    /\ \A b \in Bots : Peer(b) \in Bots /\ Peer(b) # b
    /\ \A b, c \in Bots : b # c => c = Peer(b)
  BY DialogueConstants DEF Bots, Peer

(* The descendants of pushes from outside, added up over both bots.        *)
LEMMA ChainsSum ==
    ASSUME TypeOK, NEW b \in Bots
    PROVE  /\ ChainsFromKicks <=> Chains(b) + Chains(Peer(b)) <= kicks
           /\ Chains(b) \in Nat /\ Chains(Peer(b)) \in Nat /\ blocks[b] + InHand(b) <= Chains(b)
<1>1. \A c \in Bots : Chains(c) \in Nat /\ blocks[c] + InHand(c) <= Chains(c)
  BY DEF Chains, InHand, TypeOK
<1>2. Ada \in Bots /\ Bob \in Bots BY DEF Bots
<1>3. Chains(b) + Chains(Peer(b)) = Chains(Ada) + Chains(Bob)
  BY <1>1, <1>2, DialogueConstants DEF Bots, Peer
<1> QED BY <1>1, <1>3, TwoBots DEF ChainsFromKicks

LEMMA InvInit == Init => IInv
<1> SUFFICES ASSUME Init PROVE IInv OBVIOUS
<1>1. TypeOK BY TypeInit
<1>2. ChainsFromKicks
  BY DEF Init, ChainsFromKicks, Chains, InHand, Zero, Bots
<1>3. ASSUME NEW b \in Bots PROVE TurnsPerBlock(b)
  <2>1. session[b].until = 0 /\ session[b].turns = 0 /\ ~session[b].synced
    BY DEF Init, NewSession
  <2>2. replies[b] = 0 /\ lost[b] = 0 /\ blocks[b] = 0 /\ worker[b] = "idle"
    BY DEF Init, Zero
  <2>3. MaxTurns * 0 = 0 BY DialogueConstants
  <2> QED BY <2>1, <2>2, <2>3 DEF TurnsPerBlock
<1> QED BY <1>1, <1>2, <1>3 DEF IInv

(* How much a step of b may add to the chains of b and of its peer.        *)
LEMMA ChainsStep == IInv /\ [Next]_vars => ChainsFromKicks'
<1> SUFFICES ASSUME IInv, [Next]_vars PROVE ChainsFromKicks' OBVIOUS
<1>0. TypeOK /\ TypeOK' /\ ChainsFromKicks BY TypeStep DEF IInv
<1>a. \A c \in Bots : Chains(c) \in Int /\ Chains(c)' \in Int
  BY <1>0 DEF Chains, InHand, TypeOK
<1>b. Ada \in Bots /\ Bob \in Bots /\ kicks \in Int /\ kicks' \in Int
  BY <1>0 DEF Bots, TypeOK
<1>c. ASSUME NEW b \in Bots, NEW n \in Int, NEW m \in Int,
             Chains(b)' <= Chains(b) + n, Chains(Peer(b))' <= Chains(Peer(b)) + m,
             n + m <= kicks' - kicks
      PROVE  ChainsFromKicks'
  <2>1. Chains(Ada) + Chains(Bob) <= kicks BY <1>0 DEF ChainsFromKicks
  <2>2. Chains(Ada)' + Chains(Bob)' <= Chains(Ada) + Chains(Bob) + n + m
    <3>1. CASE b = Ada /\ Peer(b) = Bob BY <1>a, <1>b, <1>c, <3>1
    <3>2. CASE b = Bob /\ Peer(b) = Ada BY <1>a, <1>b, <1>c, <3>2
    <3> QED BY <3>1, <3>2, DialogueConstants DEF Bots, Peer
  <2>3. Chains(Ada)' + Chains(Bob)' <= kicks'
    <3>1. \A x, y, i, j \in Int : x <= i /\ y <= x + n + m /\ n + m <= j - i => y <= j
      OBVIOUS
    <3>2. Chains(Ada) + Chains(Bob) \in Int /\ Chains(Ada)' + Chains(Bob)' \in Int
      BY <1>a, <1>b
    <3> QED BY <1>b, <1>c, <2>1, <2>2, <3>1, <3>2
  <2> QED BY <2>3 DEF ChainsFromKicks
<1>d. ASSUME NEW b \in Bots, Arrives(b)
      PROVE  events'[b] <= events[b] + 1 /\ \A c \in Bots : c # b => events'[c] = events[c]
  BY <1>0, <1>d DEF Arrives, TypeOK
<1>1. ASSUME UNCHANGED <<events, worker, blocks, kicks>> PROVE ChainsFromKicks'
  BY <1>0, <1>1 DEF ChainsFromKicks, Chains, InHand
<1>2. ASSUME NEW b \in Bots, Kick(b) PROVE ChainsFromKicks'
  <2>1. kicks' = kicks + 1 /\ UNCHANGED <<worker, blocks>> BY <1>2 DEF Kick
  <2>2. Chains(b)' <= Chains(b) + 1
    BY <1>0, <1>2, <1>d, <2>1 DEF Kick, Chains, InHand, TypeOK
  <2>3. Chains(Peer(b))' <= Chains(Peer(b)) + 0
    BY <1>0, <1>2, <1>d, <2>1, TwoBots DEF Kick, Chains, InHand, TypeOK
  <2> QED BY <1>b, <1>c, <2>1, <2>2, <2>3
<1>3. ASSUME NEW b \in Bots, Take(b) \/ Refresh(b) \/ Run(b) PROVE ChainsFromKicks'
  <2>1. UNCHANGED <<kicks, blocks>> BY <1>3 DEF Take, Refresh, Run, ghosts
  <2>2. Chains(b)' <= Chains(b) + 0
    <3>1. CASE Take(b)
      BY <1>0, <2>1, <3>1 DEF Take, Chains, InHand, TypeOK
    <3>2. CASE Refresh(b) \/ Run(b)
      BY <1>0, <2>1, <3>2 DEF Refresh, Run, Becomes, Chains, InHand, TypeOK
    <3> QED BY <1>3, <3>1, <3>2
  <2>3. Chains(Peer(b))' <= Chains(Peer(b)) + 0
    <3>1. events'[Peer(b)] = events[Peer(b)] /\ worker'[Peer(b)] = worker[Peer(b)]
      BY <1>0, <1>3, TwoBots DEF Take, Refresh, Run, Becomes, TypeOK
    <3> QED BY <1>a, <2>1, <3>1, TwoBots DEF Chains, InHand
  <2> QED BY <1>b, <1>c, <2>1, <2>2, <2>3
<1>4. ASSUME NEW b \in Bots, Decide(b) PROVE ChainsFromKicks'
  <2>1. UNCHANGED <<kicks, events>> /\ worker[b] = "classify" BY <1>4 DEF Decide
  <2>2. \/ /\ worker' \in {[worker EXCEPT ![b] = "idle"], [worker EXCEPT ![b] = "refresh"]}
           /\ blocks' = [blocks EXCEPT ![b] = @ + 1]
        \/ worker' = [worker EXCEPT ![b] = "run"] /\ blocks' = blocks
    BY <1>4, Decision
  <2>3. Chains(b)' <= Chains(b) + 0
    BY <1>0, <2>1, <2>2 DEF Chains, InHand, TypeOK
  <2>4. Chains(Peer(b))' <= Chains(Peer(b)) + 0
    <3>1. blocks'[Peer(b)] = blocks[Peer(b)] /\ worker'[Peer(b)] = worker[Peer(b)]
      BY <1>0, <2>2, TwoBots DEF TypeOK
    <3> QED BY <1>a, <2>1, <3>1, TwoBots DEF Chains, InHand
  <2> QED BY <1>b, <1>c, <2>1, <2>3, <2>4
<1>5. ASSUME NEW b \in Bots, PushOk(b) \/ PushFails(b) PROVE ChainsFromKicks'
  <2>1. UNCHANGED <<kicks, blocks>> /\ worker[b] = "push" /\ worker' = [worker EXCEPT ![b] = "idle"]
        /\ (Arrives(Peer(b)) \/ events' = events)
    BY <1>5 DEF PushOk, PushFails, Becomes
  <2>2. events'[Peer(b)] <= events[Peer(b)] + 1 /\ events'[b] = events[b]
    BY <1>0, <1>d, <2>1, TwoBots DEF TypeOK
  <2>3. Chains(b)' <= Chains(b) + (-1)
    BY <1>0, <2>1, <2>2 DEF Chains, InHand, TypeOK
  <2>4. Chains(Peer(b))' <= Chains(Peer(b)) + 1
    <3>1. worker'[Peer(b)] = worker[Peer(b)] BY <1>0, <2>1, TwoBots DEF TypeOK
    <3> QED BY <1>0, <2>1, <2>2, <3>1, TwoBots DEF Chains, InHand, TypeOK
  <2> QED BY <1>b, <1>c, <2>1, <2>3, <2>4
<1> QED
  BY <1>1, <1>2, <1>3, <1>4, <1>5 DEF Next, WorkerStep, Tick, vars, ghosts

(* Whether one bot's turns stay within its blocks, whichever bot moves.    *)
LEMMA TurnsStep == IInv /\ [Next]_vars => \A c \in Bots : TurnsPerBlock(c)'
<1> SUFFICES ASSUME IInv, [Next]_vars, NEW c \in Bots PROVE TurnsPerBlock(c)' OBVIOUS
<1> DEFINE k == MaxTurns * blocks[c]
<1>0. TypeOK /\ TypeOK' /\ TurnsPerBlock(c) BY TypeStep DEF IInv
<1>a. /\ session[c].turns \in Nat /\ session[c].until \in Nat /\ MaxTurns \in Nat \ {0}
      /\ session[c] \in Sessions /\ blocks[c] \in Nat /\ kicks \in Nat /\ kicks' \in Nat
      /\ replies[c] \in Nat /\ lost[c] \in Nat /\ k \in Nat
  BY <1>0, DialogueConstants DEF TypeOK, Sessions
<1>b. blocks[c] + InHand(c) <= kicks
  <2>1. Chains(c) \in Nat /\ Chains(Peer(c)) \in Nat /\ blocks[c] + InHand(c) <= Chains(c)
        /\ Chains(c) + Chains(Peer(c)) <= kicks
    BY <1>0, ChainsSum DEF IInv
  <2>2. InHand(c) \in Nat BY DEF InHand
  <2> QED BY <1>a, <2>1, <2>2
<1>c. ASSUME session'[c] = session[c], replies'[c] = replies[c], lost'[c] = lost[c],
             blocks'[c] = blocks[c], kicks' >= kicks,
             worker'[c] = worker[c] \/ worker'[c] \notin {"run", "push"}
      PROVE  TurnsPerBlock(c)'
  <2>1. (MaxTurns * blocks[c])' = k BY <1>c
  <2> HIDE DEF k
  <2> QED BY <1>0, <1>a, <1>c, <2>1 DEF TurnsPerBlock, k
<1>1. CASE Tick \/ UNCHANGED vars
  BY <1>1, <1>a, <1>c DEF Tick, vars, ghosts
<1>2. ASSUME NEW b \in Bots, Kick(b) PROVE TurnsPerBlock(c)'
  BY <1>2, <1>a, <1>c DEF Kick
<1>3. ASSUME NEW b \in Bots, Take(b) PROVE TurnsPerBlock(c)'
  BY <1>0, <1>3, <1>a, <1>c DEF Take, ghosts, TypeOK
<1>4. ASSUME NEW b \in Bots, Refresh(b) PROVE TurnsPerBlock(c)'
  BY <1>0, <1>4, <1>a, <1>c DEF Refresh, Becomes, ghosts, TypeOK
<1>5. ASSUME NEW b \in Bots, Run(b) PROVE TurnsPerBlock(c)'
  <2>1. worker[b] = "run" /\ UNCHANGED <<session, ghosts>>
        /\ (worker' = [worker EXCEPT ![b] = "idle"] \/ worker' = [worker EXCEPT ![b] = "push"])
    BY <1>5 DEF Run, Becomes
  <2>2. worker'[c] \in {"run", "push"} => worker[c] \in {"run", "push"}
    BY <1>0, <2>1 DEF TypeOK
  <2>3. (MaxTurns * blocks[c])' = k BY <2>1 DEF ghosts
  <2> HIDE DEF k
  <2> QED BY <1>0, <2>1, <2>2, <2>3 DEF TurnsPerBlock, ghosts, k
<1>6. ASSUME NEW b \in Bots, Decide(b) PROVE TurnsPerBlock(c)'
  <2>0. UNCHANGED <<events, kicks, replies, lost>> /\ worker[b] = "classify"
    BY <1>6 DEF Decide
  <2>1. CASE b # c BY <1>0, <1>6, <1>a, <1>c, <2>0, <2>1, Decision DEF TypeOK
  <2>2. CASE b = c
    <3>1. PICK s \in Sessions :
              /\ session' = [session EXCEPT ![b] = s]
              /\ \/ /\ s.until # 0 /\ s.synced
                    /\ worker' \in {[worker EXCEPT ![b] = "idle"], [worker EXCEPT ![b] = "refresh"]}
                    /\ blocks' = [blocks EXCEPT ![b] = @ + 1]
                 \/ /\ s.until = 0 /\ ~s.synced /\ s.turns < MaxTurns
                    /\ \/ session[b].until = 0 /\ s.turns = session[b].turns
                       \/ session[b].until # 0 /\ s.turns = 0
                    /\ worker' = [worker EXCEPT ![b] = "run"]
                    /\ blocks' = blocks
      BY <1>6, Decision
    <3>2. session'[c] = s BY <1>0, <2>2, <3>1 DEF TypeOK
    <3>3. blocks[c] < kicks BY <1>a, <1>b, <2>0, <2>2 DEF InHand
    <3>4. session[c].turns <= MaxTurns /\ s.turns \in Nat BY <1>a DEF Sessions
    <3>5. CASE s.until # 0
      <4>1. blocks'[c] = blocks[c] + 1 /\ worker'[c] \notin {"run", "push"} /\ s.synced
        BY <1>0, <2>2, <3>1, <3>5 DEF TypeOK
      <4>2. MaxTurns * blocks'[c] = k + MaxTurns BY <1>a, <4>1
      <4> HIDE DEF k
      <4>3. replies[c] <= k + MaxTurns + lost[c]
        BY <1>0, <1>a, <3>4 DEF TurnsPerBlock, k
      <4> QED BY <1>a, <2>0, <3>2, <3>5, <4>1, <4>2, <4>3 DEF TurnsPerBlock
    <3>6. CASE s.until = 0
      <4>1. blocks'[c] = blocks[c] /\ ~s.synced /\ s.turns < MaxTurns
            /\ \/ session[c].until = 0 /\ s.turns = session[c].turns
               \/ session[c].until # 0 /\ s.turns = 0
        BY <2>2, <3>1, <3>6
      <4>2. MaxTurns * blocks'[c] = k BY <4>1
      <4> HIDE DEF k
      <4>3. replies[c] <= k + s.turns + lost[c]
        BY <1>0, <1>a, <4>1 DEF TurnsPerBlock, k
      <4> QED BY <1>a, <2>0, <3>2, <3>3, <3>6, <4>1, <4>2, <4>3 DEF TurnsPerBlock
    <3> QED BY <3>5, <3>6
  <2> QED BY <2>1, <2>2
<1>7. ASSUME NEW b \in Bots, PushOk(b) PROVE TurnsPerBlock(c)'
  <2>1. /\ worker[b] = "push" /\ worker' = [worker EXCEPT ![b] = "idle"]
        /\ replies' = [replies EXCEPT ![b] = @ + 1] /\ UNCHANGED <<kicks, lost, blocks>>
    BY <1>7 DEF PushOk, Becomes
  <2>2. CASE b # c BY <1>0, <1>7, <1>a, <1>c, <2>1, <2>2 DEF PushOk, CountTurn, TypeOK
  <2>3. CASE b = c
    <3>1. session[c].until = 0 /\ ~session[c].synced /\ blocks[c] < kicks
      BY <1>0, <1>a, <1>b, <2>1, <2>3 DEF TurnsPerBlock, InHand
    <3>2. session'[c] = [session[c] EXCEPT !.turns = @ + 1]
      BY <1>0, <1>7, <2>3 DEF PushOk, CountTurn, TypeOK
    <3>3. session'[c].turns = session[c].turns + 1 /\ session'[c].until = 0 /\ ~session'[c].synced
      BY <1>a, <3>1, <3>2 DEF Sessions
    <3>4. replies'[c] = replies[c] + 1 /\ worker'[c] = "idle"
      BY <1>0, <2>1, <2>3 DEF TypeOK
    <3>5. MaxTurns * blocks'[c] = k BY <2>1
    <3> HIDE DEF k
    <3>6. replies[c] <= k + session[c].turns + lost[c]
      BY <1>0, <3>1 DEF TurnsPerBlock, k
    <3> QED BY <1>a, <2>1, <3>1, <3>3, <3>4, <3>5, <3>6 DEF TurnsPerBlock
  <2> QED BY <2>2, <2>3
<1>8. ASSUME NEW b \in Bots, PushFails(b) PROVE TurnsPerBlock(c)'
  <2>1. worker[b] = "push" /\ worker' = [worker EXCEPT ![b] = "idle"]
        /\ UNCHANGED <<session, kicks, blocks>>
        /\ \/ UNCHANGED <<replies, lost>>
           \/ /\ replies' = [replies EXCEPT ![b] = @ + 1]
              /\ lost' = [lost EXCEPT ![b] = @ + 1]
    BY <1>8 DEF PushFails, Becomes
  <2>2. \/ replies'[c] = replies[c] /\ lost'[c] = lost[c]
        \/ replies'[c] = replies[c] + 1 /\ lost'[c] = lost[c] + 1
    BY <1>0, <2>1 DEF TypeOK
  <2>3. worker'[c] \in {"run", "push"} => worker[c] \in {"run", "push"}
    BY <1>0, <2>1 DEF TypeOK
  <2>4. (MaxTurns * blocks[c])' = k BY <2>1
  <2> HIDE DEF k
  <2> QED BY <1>0, <1>a, <2>1, <2>2, <2>3, <2>4 DEF TurnsPerBlock, k
<1> QED BY <1>1, <1>2, <1>3, <1>4, <1>5, <1>6, <1>7, <1>8 DEF Next, WorkerStep

-----------------------------------------------------------------------------
(* IInv holds in every reachable state.                                    *)
THEOREM Invariance == Spec => []IInv
<1>1. Init => IInv BY InvInit
<1>2. IInv /\ [Next]_vars => IInv'
  BY TypeStep, ChainsStep, TurnsStep DEF IInv
<1> QED BY <1>1, <1>2, PTL DEF Spec

(* Every variable keeps its type, and a session its limit of turns.        *)
THEOREM TypeCorrect == Spec => []TypeOK
<1>1. IInv => TypeOK BY DEF IInv
<1> QED BY <1>1, Invariance, PTL

(* Two bots that answer each other send at most MaxTurns replies each for  *)
(* every push from outside, besides those whose acknowledgement is lost.   *)
THEOREM Bounded == Spec => []ConversationBounded
<1>1. IInv => ConversationBounded
  <2> SUFFICES ASSUME IInv, NEW b \in Bots PROVE replies[b] <= MaxTurns * kicks + lost[b]
    BY DEF ConversationBounded
  <2> DEFINE k == MaxTurns * blocks[b]
  <2>1. /\ session[b] \in Sessions /\ blocks[b] \in Nat /\ kicks \in Nat
        /\ replies[b] \in Nat /\ lost[b] \in Nat /\ MaxTurns \in Nat /\ k \in Nat
    BY DialogueConstants DEF IInv, TypeOK
  <2>2. blocks[b] <= kicks
    <3>1. Chains(b) \in Nat /\ Chains(Peer(b)) \in Nat /\ blocks[b] + InHand(b) <= Chains(b)
          /\ Chains(b) + Chains(Peer(b)) <= kicks
      BY ChainsSum DEF IInv
    <3>2. InHand(b) \in Nat BY DEF InHand
    <3> QED BY <2>1, <3>1, <3>2
  <2>3. k <= MaxTurns * kicks /\ (blocks[b] < kicks => k + MaxTurns <= MaxTurns * kicks)
    <3>1. PICK d \in Nat : kicks = blocks[b] + d
      <4>1. kicks - blocks[b] \in Nat BY <2>1, <2>2
      <4> QED BY <2>1, <4>1
    <3>2. MaxTurns * kicks = k + MaxTurns * d BY <2>1, <3>1
    <3>3. MaxTurns * d \in Nat /\ (d > 0 => MaxTurns * d >= MaxTurns)
      <4>1. CASE d = 0 BY <2>1, <4>1
      <4>2. CASE d > 0
        <5>1. d - 1 \in Nat BY <3>1, <4>2
        <5>2. MaxTurns * (d - 1) \in Nat BY <2>1, <5>1
        <5>3. MaxTurns * d = MaxTurns * (d - 1) + MaxTurns BY <2>1, <3>1
        <5> QED BY <2>1, <5>2, <5>3
      <4> QED BY <3>1, <4>1, <4>2
    <3> HIDE DEF k
    <3> QED BY <2>1, <3>1, <3>2, <3>3
  <2>4. session[b].turns \in Nat /\ session[b].turns <= MaxTurns BY <2>1 DEF Sessions
  <2>5. /\ session[b].until # 0 => replies[b] <= k + lost[b]
        /\ session[b].until = 0 => replies[b] <= k + session[b].turns + lost[b]
        /\ session[b].until = 0 /\ session[b].turns > 0 => blocks[b] < kicks
    BY DEF IInv, TurnsPerBlock
  <2>6. MaxTurns * kicks \in Nat BY <2>1
  <2> DEFINE n == MaxTurns * kicks
  <2> HIDE DEF k, n
  <2>7. n \in Nat /\ k <= n /\ (blocks[b] < kicks => k + MaxTurns <= n)
    BY <2>3, <2>6 DEF n
  <2>8. replies[b] <= n + lost[b] BY <2>1, <2>4, <2>5, <2>7
  <2> QED BY <2>8 DEF n
<1> QED BY <1>1, Invariance, PTL

-----------------------------------------------------------------------------
(* The push of data between two nodes (MaepPush).                          *)
USE DEF rate, dedupes

(* What each way to change a call or a handler leaves behind.              *)
LEMMA GoesFacts ==
    ASSUME PushTypeOK, NEW c \in Calls, NEW pc \in {"start", "hello", "send", "wait"}, Goes(c, pc)
    PROVE  /\ call' \in [Calls -> CallStates]
           /\ call'[c].pc = pc
           /\ \A d \in Calls : /\ d # c => call'[d] = call[d]
                               /\ call'[d].key = call[d].key
                               /\ call'[d].retried = call[d].retried
                               /\ call'[d].result = call[d].result
<1> DEFINE s == [call[c] EXCEPT !.pc = pc]
<1>1. call[c] \in CallStates BY DEF PushTypeOK
<1>2. /\ s \in CallStates /\ s.pc = pc /\ s.result = call[c].result
      /\ s.key = call[c].key /\ s.retried = call[c].retried
  BY <1>1 DEF CallStates
<1>3. call' = [call EXCEPT ![c] = s] BY DEF Goes
<1> HIDE DEF s
<1> QED BY <1>2, <1>3 DEF PushTypeOK

LEMMA ReturnsFacts ==
    ASSUME PushTypeOK, NEW c \in Calls, NEW r \in Results, Returns(c, r)
    PROVE  /\ call' \in [Calls -> CallStates]
           /\ call'[c].pc = "returned" /\ call'[c].result = r
           /\ \A d \in Calls : /\ d # c => call'[d] = call[d]
                               /\ call'[d].key = call[d].key
                               /\ call'[d].retried = call[d].retried
<1> DEFINE s == [call[c] EXCEPT !.pc = "returned", !.result = r]
<1>1. call[c] \in CallStates BY DEF PushTypeOK
<1>2. /\ s \in CallStates /\ s.pc = "returned" /\ s.result = r
      /\ s.key = call[c].key /\ s.retried = call[c].retried
  BY <1>1 DEF CallStates
<1>3. call' = [call EXCEPT ![c] = s] BY DEF Returns
<1> HIDE DEF s
<1> QED BY <1>2, <1>3 DEF PushTypeOK

LEMMA MovesFacts ==
    ASSUME PushTypeOK, NEW c \in Calls, NEW pc \in HandlerPlaces, Moves(c, pc)
    PROVE  /\ handler' \in [Calls -> HandlerStates]
           /\ handler'[c].pc = pc
           /\ handler'[c] = [handler[c] EXCEPT !.pc = pc]
           /\ \A d \in Calls : d # c => handler'[d] = handler[d]
           /\ \A d \in Calls : handler'[d].key = handler[d].key
<1> DEFINE s == [handler[c] EXCEPT !.pc = pc]
<1>1. handler[c] \in HandlerStates BY DEF PushTypeOK
<1>2. s \in HandlerStates /\ s.pc = pc /\ s.key = handler[c].key
  BY <1>1 DEF HandlerStates
<1>3. handler' = [handler EXCEPT ![c] = s] BY DEF Moves
<1> HIDE DEF s
<1>4. handler'[c] = s BY <1>3 DEF PushTypeOK
<1> QED BY <1>2, <1>3, <1>4 DEF PushTypeOK, s

LEMMA AnswersFacts ==
    ASSUME PushTypeOK, NEW c \in Calls, NEW r \in Results, Answers(c, r)
    PROVE  /\ handler' \in [Calls -> HandlerStates]
           /\ handler'[c].pc \in {"idle", "reply"}
           /\ handler'[c].pc = "reply" => handler'[c].result = r
           /\ \A d \in Calls : d # c => handler'[d] = handler[d]
<1> DEFINE s == [NoHandler EXCEPT !.pc = "reply", !.result = r]
<1>1. 0 \in 0..MaxMinute BY PushConstants
<1>2. NoHandler \in HandlerStates /\ NoHandler.pc = "idle"
  BY <1>1 DEF NoHandler, HandlerStates, Results
<1>3. s = [NoHandler EXCEPT !.pc = "reply", !.result = r] OBVIOUS
<1>4. s \in HandlerStates /\ s.pc = "reply" /\ s.result = r
  BY <1>1, <1>2, <1>3 DEF HandlerStates
<1>5. handler' = [handler EXCEPT ![c] = IF c \in Notifying THEN NoHandler ELSE s] BY DEF Answers
<1> HIDE DEF s
<1> QED BY <1>2, <1>4, <1>5 DEF PushTypeOK

(* A handler step that answers or moves on keeps the handlers' type.       *)
HandlersOK == /\ handler \in [Calls -> HandlerStates]
              /\ \A c \in Working : handler[c].key = call[c].key /\ call[c].pc # "idle"

LEMMA HandlersKept ==
    ASSUME PushTypeOK, NEW c \in Working, UNCHANGED call,
           \/ \E pc \in HandlerPlaces : Moves(c, pc)
           \/ \E r \in Results : Answers(c, r)
    PROVE  HandlersOK'
<1>1. c \in Calls BY DEF Working
<1>2. CASE \E pc \in HandlerPlaces : Moves(c, pc)
  <2>1. PICK pc \in HandlerPlaces : Moves(c, pc) BY <1>2
  <2>2. \A d \in Working' : d \in Working BY <1>1, <2>1, MovesFacts DEF Working
  <2> QED BY <1>1, <2>1, <2>2, MovesFacts DEF HandlersOK, PushTypeOK, Working
<1>3. CASE \E r \in Results : Answers(c, r)
  <2>1. PICK r \in Results : Answers(c, r) BY <1>3
  <2>2. \A d \in Working' : d \in Working /\ d # c BY <1>1, <2>1, AnswersFacts DEF Working
  <2> QED BY <1>1, <2>1, <2>2, AnswersFacts DEF HandlersOK, PushTypeOK, Working
<1> QED BY <1>2, <1>3

(* The calls keep their type, whatever becomes of the handlers.            *)
CallsOK == /\ call \in [Calls -> CallStates]
           /\ \A c \in Calls : call[c].pc # "idle" => call[c].key \in Keys

(* Nothing but calls, sessions and outbox changes: the client's half of    *)
(* the type.                                                               *)
LEMMA ClientKept ==
    ASSUME PushTypeOK, CallsOK', UNCHANGED <<handler, rate, files, world>>,
           clientSession' \in BOOLEAN, serverSession' \in BOOLEAN, outbox' \subseteq Calls,
           \A c \in Calls : call[c].pc # "idle" => call'[c].pc # "idle" /\ call'[c].key = call[c].key
    PROVE  PushTypeOK'
<1>1. Working' = Working BY DEF Working
<1>2. Working \subseteq Calls BY DEF Working
<1> QED BY <1>1, <1>2 DEF PushTypeOK, CallsOK, files, world

LEMMA ClientTypes ==
    ASSUME PushTypeOK, NEW c \in Calls,
           PushData(c) \/ StartCall(c) \/ DialHello(c) \/ CallFails(c)
    PROVE  PushTypeOK'
<1> USE DEF memory
<1>1. CASE PushData(c)
  <2>1. PICK k \in Keys : call' = [call EXCEPT ![c].pc = "start", ![c].key = k]
    BY <1>1 DEF PushData
  <2> DEFINE s == [call[c] EXCEPT !.pc = "start", !.key = k]
  <2>2. call[c] \in CallStates BY DEF PushTypeOK
  <2>3. s \in CallStates /\ s.pc = "start" /\ s.key = k BY <2>2 DEF CallStates
  <2>4. call' = [call EXCEPT ![c] = s] BY <2>1
  <2> HIDE DEF s
  <2>5. CallsOK' BY <2>3, <2>4 DEF PushTypeOK, CallsOK
  <2>6. \A d \in Calls : call[d].pc # "idle" => call'[d].pc # "idle" /\ call'[d].key = call[d].key
    BY <1>1, <2>3, <2>4 DEF PushTypeOK, PushData
  <2> QED BY <1>1, <2>5, <2>6, ClientKept DEF PushData, PushTypeOK, files, world
<1>2. CASE StartCall(c)
  <2>1. Goes(c, "send") \/ Goes(c, "hello") BY <1>2 DEF StartCall
  <2>2. /\ CallsOK'
        /\ \A d \in Calls : call[d].pc # "idle" => call'[d].pc # "idle" /\ call'[d].key = call[d].key
    BY <1>2, <2>1, GoesFacts DEF StartCall, CallsOK, PushTypeOK
  <2> QED BY <1>2, <2>2, ClientKept DEF StartCall, PushTypeOK, files, world
<1>3. CASE DialHello(c)
  <2>1. Goes(c, "send") \/ Goes(c, "start") \/ Returns(c, "error") BY <1>3 DEF DialHello
  <2>2. "error" \in Results BY DEF Results
  <2>3. /\ CallsOK'
        /\ \A d \in Calls : call[d].pc # "idle" => call'[d].pc # "idle" /\ call'[d].key = call[d].key
    <3>1. call[c].key \in Keys /\ \A d \in Calls : call[d].pc # "idle" => call[d].key \in Keys
      BY <1>3 DEF DialHello, PushTypeOK
    <3>2. \E pc \in {"start", "send", "returned"} : call'[c].pc = pc /\ call'[c].key = call[c].key
      BY <2>1, <2>2, GoesFacts, ReturnsFacts
    <3>3. call' \in [Calls -> CallStates] /\ \A d \in Calls : d # c => call'[d] = call[d]
      BY <2>1, <2>2, GoesFacts, ReturnsFacts
    <3> QED BY <3>1, <3>2, <3>3 DEF CallsOK
  <2> QED BY <1>3, <2>3, ClientKept DEF DialHello, PushTypeOK, files, world
<1>4. CASE CallFails(c)
  <2>1. Returns(c, "error") /\ "error" \in Results BY <1>4 DEF CallFails, Results
  <2>2. /\ CallsOK'
        /\ \A d \in Calls : call[d].pc # "idle" => call'[d].pc # "idle" /\ call'[d].key = call[d].key
    BY <1>4, <2>1, ReturnsFacts DEF CallFails, CallsOK, PushTypeOK
  <2> QED BY <1>4, <2>2, ClientKept DEF CallFails, PushTypeOK, files, world
<1> QED BY <1>1, <1>2, <1>3, <1>4

(* Sending starts a handler for the call's key, or loses the request.      *)
LEMMA SendTypes == ASSUME PushTypeOK, NEW c \in Calls, Send(c) PROVE PushTypeOK'
<1> DEFINE s == [NoHandler EXCEPT !.pc = "session", !.key = call[c].key]
<1>1. 0 \in 0..MaxMinute BY PushConstants
<1>2. call[c].key \in Keys BY DEF Send, PushTypeOK
<1>3. s \in HandlerStates /\ s.pc = "session" /\ s.key = call[c].key
  BY <1>1, <1>2 DEF NoHandler, HandlerStates, HandlerPlaces, Results
<1>4. handler' = [handler EXCEPT ![c] = s] \/ UNCHANGED handler BY DEF Send
<1> HIDE DEF s
<1>5. Goes(c, "wait") \/ Returns(c, "accepted") BY DEF Send
<1>6. "accepted" \in Results BY DEF Results
<1>7. /\ CallsOK'
      /\ \A d \in Calls : call[d].pc # "idle" => call'[d].pc # "idle" /\ call'[d].key = call[d].key
      /\ call'[c].pc # "idle"
  <2>1. call[c].key \in Keys /\ call[c].pc = "send" BY DEF Send, PushTypeOK
  <2>2. CASE Goes(c, "wait") BY <2>1, <2>2, GoesFacts DEF CallsOK, PushTypeOK
  <2>3. CASE Returns(c, "accepted") BY <1>6, <2>1, <2>3, ReturnsFacts DEF CallsOK, PushTypeOK
  <2> QED BY <1>5, <2>2, <2>3
<1>8. handler' \in [Calls -> HandlerStates] BY <1>3, <1>4 DEF PushTypeOK
<1>9. ASSUME NEW d \in Working' PROVE handler'[d].key = call'[d].key /\ call'[d].pc # "idle"
  <2>1. d \in Calls /\ handler'[d].pc \notin {"idle", "reply"} BY DEF Working
  <2>2. CASE d = c /\ handler' = [handler EXCEPT ![c] = s]
    <3>1. handler'[d].key = call[c].key BY <1>3, <2>2 DEF PushTypeOK
    <3> QED BY <1>7, <2>2, <3>1 DEF Send
  <2>3. CASE d # c \/ UNCHANGED handler
    <3>1. handler'[d] = handler[d] BY <1>4, <2>1, <2>3 DEF PushTypeOK
    <3>2. d \in Working BY <2>1, <3>1 DEF Working
    <3> QED BY <1>7, <2>1, <3>1, <3>2 DEF PushTypeOK
  <2> QED BY <1>4, <2>2, <2>3
<1>10. UNCHANGED <<clientSession, serverSession, rate, files, world>> /\ outbox' \subseteq Calls
  BY DEF Send, PushTypeOK
<1> QED BY <1>7, <1>8, <1>9, <1>10 DEF PushTypeOK, CallsOK, files, world

LEMMA ReceiveTypes == ASSUME PushTypeOK, NEW c \in Calls, Receive(c) PROVE PushTypeOK'
<1> DEFINE s == [call[c] EXCEPT !.pc = "redial", !.retried = TRUE]
<1>1. call[c] \in CallStates /\ handler[c].result \in Results BY DEF PushTypeOK, HandlerStates
<1>2. s \in CallStates /\ s.pc = "redial" /\ s.key = call[c].key BY <1>1 DEF CallStates
<1>3. Returns(c, handler[c].result) \/ call' = [call EXCEPT ![c] = s] BY DEF Receive
<1> HIDE DEF s
<1>4. /\ CallsOK'
      /\ \A d \in Calls : call[d].pc # "idle" => call'[d].pc # "idle" /\ call'[d].key = call[d].key
  <2>1. CASE Returns(c, handler[c].result)
    <3>1. call[c].key \in Keys /\ \A d \in Calls : call[d].pc # "idle" => call[d].key \in Keys
      BY DEF PushTypeOK, Receive
    <3>2. /\ call' \in [Calls -> CallStates] /\ call'[c].pc = "returned"
          /\ \A d \in Calls : (d # c => call'[d] = call[d]) /\ call'[d].key = call[d].key
      BY <1>1, <2>1, ReturnsFacts
    <3> QED BY <3>1, <3>2 DEF CallsOK
  <2>2. CASE call' = [call EXCEPT ![c] = s]
    <3>1. call[c].key \in Keys BY DEF PushTypeOK, Receive
    <3> QED BY <1>2, <2>2, <3>1 DEF CallsOK, PushTypeOK
  <2> QED BY <1>3, <2>1, <2>2
<1>5. 0 \in 0..MaxMinute BY PushConstants
<1>6. NoHandler \in HandlerStates /\ NoHandler.pc = "idle"
  BY <1>5 DEF NoHandler, HandlerStates, Results
<1>7. handler' \in [Calls -> HandlerStates] /\ Working' \subseteq Working \ {c}
  BY <1>6 DEF Receive, PushTypeOK, Working
<1>8. \A d \in Working' : handler'[d].key = call'[d].key /\ call'[d].pc # "idle"
  BY <1>4, <1>7 DEF PushTypeOK, Receive, Working
<1>9. UNCHANGED <<clientSession, serverSession, rate, files, world>> /\ outbox' \subseteq Calls
  BY DEF Receive, PushTypeOK
<1> QED BY <1>4, <1>7, <1>8, <1>9 DEF PushTypeOK, CallsOK, files, world

LEMMA HandlerTypes == ASSUME PushTypeOK, NEW c \in Calls, HandlerStep(c) PROVE PushTypeOK'
<1>1. c \in Working BY DEF HandlerStep, CheckSession, CheckAllowed, AllowDataPush, GetDedupeRecord,
        PutDedupeRecord, PruneDedupeRecords, AppendInboxMessage, Deliver, At, Working
<1>2. handler[c] \in HandlerStates /\ handler[c].key \in Keys BY <1>1 DEF PushTypeOK, Working
<1>3. Results = {"none", "accepted", "deduped", "unsupported", "unauthorized", "rate_limited", "error"}
  BY DEF Results
<1>4. CASE CheckSession(c)
  <2>1. HandlersOK' BY <1>1, <1>3, <1>4, HandlersKept DEF CheckSession, HandlerPlaces, client
  <2> QED BY <1>4, <2>1 DEF CheckSession, PushTypeOK, HandlersOK, client, files, world
<1>5. CASE CheckAllowed(c)
  <2>1. CASE Answers(c, "unauthorized") /\ UNCHANGED stamps
    <3>1. HandlersOK' BY <1>1, <1>3, <1>5, <2>1, HandlersKept DEF CheckAllowed, client
    <3> QED BY <1>5, <2>1, <3>1 DEF CheckAllowed, PushTypeOK, HandlersOK, client, files
  <2>2. CASE /\ stamps' = stamps + 1
             /\ handler' = [handler EXCEPT ![c].pc = "rate", ![c].minute = minute,
                                           ![c].stamp = stamps + 1]
    <3> DEFINE s == [handler[c] EXCEPT !.pc = "rate", !.minute = minute, !.stamp = stamps + 1]
    <3>1. minute \in 0..MaxMinute /\ stamps + 1 \in Nat BY DEF PushTypeOK
    <3>2. s \in HandlerStates /\ s.pc = "rate" /\ s.key = handler[c].key
      BY <1>2, <3>1 DEF HandlerStates, HandlerPlaces
    <3>3. handler' = [handler EXCEPT ![c] = s] BY <2>2
    <3> HIDE DEF s
    <3>4. handler' \in [Calls -> HandlerStates] BY <3>2, <3>3 DEF PushTypeOK
    <3>5. \A d \in Working' : d \in Working /\ handler'[d].key = handler[d].key
      BY <1>1, <3>2, <3>3 DEF PushTypeOK, Working
    <3> QED BY <1>5, <2>2, <3>1, <3>4, <3>5 DEF CheckAllowed, PushTypeOK, client, files
  <2> QED BY <1>5, <2>1, <2>2 DEF CheckAllowed
<1>6. CASE AllowDataPush(c)
  <2> DEFINE w == WindowOf(c)
  <2>1. w \in [minute : 0..MaxMinute, count : 0..RateLimit]
    BY <1>2, PushConstants DEF WindowOf, NewWindow, PushTypeOK, HandlerStates
  <2>2. HandlersOK' BY <1>1, <1>3, <1>6, HandlersKept DEF AllowDataPush, HandlerPlaces, client
  <2>5. late' \in Nat BY <1>6 DEF AllowDataPush, PushTypeOK
  <2>3. CASE w.count >= RateLimit
    <3>1. window' = w /\ UNCHANGED passed BY <1>6, <2>3 DEF AllowDataPush
    <3> HIDE DEF w
    <3> QED BY <1>6, <2>1, <2>2, <2>5, <3>1 DEF AllowDataPush, PushTypeOK, HandlersOK, client, files, world
  <2>4. CASE ~(w.count >= RateLimit)
    <3>1. /\ window' = [w EXCEPT !.count = @ + 1]
          /\ passed' = [passed EXCEPT ![handler[c].minute] = @ + 1]
      BY <1>6, <2>4 DEF AllowDataPush
    <3> HIDE DEF w
    <3>2. window' \in [minute : 0..MaxMinute, count : 0..RateLimit]
      BY <2>1, <2>4, <3>1, PushConstants
    <3>3. passed' \in [0..MaxMinute -> Nat] BY <1>2, <3>1 DEF PushTypeOK, HandlerStates
    <3> QED BY <1>6, <2>2, <2>5, <3>2, <3>3 DEF AllowDataPush, PushTypeOK, HandlersOK, client, files, world
  <2> QED BY <2>3, <2>4
<1>7. CASE GetDedupeRecord(c)
  <2>1. HandlersOK' BY <1>1, <1>3, <1>7, HandlersKept DEF GetDedupeRecord, HandlerPlaces, client
  <2>2. unsure' \subseteq Keys BY <1>2, <1>7 DEF GetDedupeRecord, PushTypeOK
  <2>3. UNCHANGED <<call, clientSession, outbox, serverSession, rate, dedupe, forgotten, inbox,
                    delivered, world>>
    BY <1>7 DEF GetDedupeRecord, client
  <2>4. UNCHANGED <<call, clientSession, outbox, serverSession>> /\ UNCHANGED <<rate, dedupe>>
        /\ UNCHANGED <<forgotten, inbox, delivered>> /\ UNCHANGED <<allowed, minute, stamps, losses>>
    BY <2>3 DEF world
  <2>5. UNCHANGED <<window, passed, late>> BY <2>4 DEF rate
  <2> QED BY <2>1, <2>2, <2>4, <2>5 DEF PushTypeOK, HandlersOK
<1>8. CASE PutDedupeRecord(c)
  <2>1. HandlersOK' BY <1>1, <1>8, HandlersKept DEF PutDedupeRecord, HandlerPlaces, client
  <2>2. handler[c].stamp \in Nat BY <1>2 DEF HandlerStates
  <2>3. dedupe' \in [Keys -> Nat] BY <1>2, <1>8, <2>2 DEF PutDedupeRecord, PushTypeOK
  <2>4. unsure' \subseteq Keys BY <1>2, <1>8 DEF PutDedupeRecord, PushTypeOK
  <2>5. UNCHANGED <<call, clientSession, outbox, serverSession>> /\ UNCHANGED <<window, passed, late>>
        /\ UNCHANGED <<forgotten, inbox, delivered>> /\ UNCHANGED <<allowed, minute, stamps, losses>>
    BY <1>8 DEF PutDedupeRecord, client, rate, world
  <2> QED BY <2>1, <2>3, <2>4, <2>5 DEF PushTypeOK, HandlersOK
<1>9. CASE PruneDedupeRecords(c)
  <2>1. HandlersOK' BY <1>1, <1>9, HandlersKept DEF PruneDedupeRecords, HandlerPlaces, client
  <2>2. dedupe' \in [Keys -> Nat]
    <3>1. \A k \in Keys : (IF Kept(k) THEN dedupe[k] ELSE 0) \in Nat BY DEF PushTypeOK
    <3>2. [k \in Keys |-> IF Kept(k) THEN dedupe[k] ELSE 0] \in [Keys -> Nat] BY <3>1, Zenon
    <3> QED BY <1>9, <3>2 DEF PruneDedupeRecords, PushTypeOK
  <2> QED BY <1>9, <2>1, <2>2 DEF PruneDedupeRecords, PushTypeOK, HandlersOK, client, world
<1>10. CASE AppendInboxMessage(c)
  <2>1. HandlersOK' BY <1>1, <1>10, HandlersKept DEF AppendInboxMessage, HandlerPlaces, client
  <2>2. inbox' \in [Keys -> Nat]
    <3> DEFINE k == handler[c].key
    <3>1. inbox' = inbox \/ inbox' = [inbox EXCEPT ![k] = @ + 1]
      BY <1>10 DEF AppendInboxMessage
    <3>2. inbox \in [Keys -> Nat] BY DEF PushTypeOK
    <3> HIDE DEF k
    <3> QED BY <3>1, <3>2
  <2> QED BY <1>10, <2>1, <2>2 DEF AppendInboxMessage, PushTypeOK, HandlersOK, client, world
<1>11. CASE Deliver(c)
  <2>1. HandlersOK' BY <1>1, <1>3, <1>11, HandlersKept DEF Deliver, client
  <2>2. delivered' \in [Keys -> Nat] BY <1>2, <1>11 DEF Deliver, PushTypeOK
  <2> QED BY <1>11, <2>1, <2>2 DEF Deliver, PushTypeOK, HandlersOK, client, world
<1> QED BY <1>4, <1>5, <1>6, <1>7, <1>8, <1>9, <1>10, <1>11 DEF HandlerStep

(* What happens to the nodes, and a step that changes nothing.             *)
NodeStep ==
    \/ ClientSessionExpires \/ ServerSessionExpires \/ Restart \/ BlockPeer \/ NextMinute
    \/ \E k \in Keys : RecordExpires(k)

LEMMA NodeTypes == ASSUME PushTypeOK, NodeStep \/ UNCHANGED pushVars PROVE PushTypeOK'
<1> USE PushConstants DEF PushTypeOK, Working, client, memory, files, world
<1>1. CASE ClientSessionExpires BY <1>1 DEF ClientSessionExpires
<1>2. CASE ServerSessionExpires
  <2>1. losses' \in 0..MaxLosses BY <1>2 DEF ServerSessionExpires
  <2> QED BY <1>2, <2>1 DEF ServerSessionExpires
<1>3. CASE Restart
  <2>1. NoHandler \in HandlerStates /\ NoHandler.pc = "idle"
    BY DEF NoHandler, HandlerStates, Results
  <2>2. NewWindow(0) \in [minute : 0..MaxMinute, count : 0..RateLimit] BY DEF NewWindow
  <2>3. handler' \in [Calls -> HandlerStates] /\ Working' = {} BY <1>3, <2>1 DEF Restart
  <2>4. passed' \in [0..MaxMinute -> Nat] /\ losses' \in 0..MaxLosses BY <1>3 DEF Restart
  <2> QED BY <1>3, <2>2, <2>3, <2>4 DEF Restart
<1>4. CASE BlockPeer BY <1>4 DEF BlockPeer
<1>5. CASE NextMinute BY <1>5 DEF NextMinute
<1>6. CASE \E k \in Keys : RecordExpires(k) BY <1>6 DEF RecordExpires
<1>7. CASE UNCHANGED pushVars BY <1>7 DEF pushVars
<1> QED BY <1>1, <1>2, <1>3, <1>4, <1>5, <1>6, <1>7 DEF NodeStep

LEMMA PushTypeInit == PushInit => PushTypeOK
<1> USE PushConstants
<1>1. NoHandler \in HandlerStates /\ NoHandler.pc = "idle"
  BY DEF NoHandler, HandlerStates, Results
<1>2. NewCall \in CallStates /\ NewCall.pc = "idle" BY DEF NewCall, CallStates, Results
<1>3. NewWindow(0) \in [minute : 0..MaxMinute, count : 0..RateLimit] BY DEF NewWindow
<1> SUFFICES ASSUME PushInit PROVE PushTypeOK OBVIOUS
<1>5. /\ call \in [Calls -> CallStates] /\ handler \in [Calls -> HandlerStates]
      /\ Working = {} /\ \A c \in Calls : call[c].pc = "idle"
  BY <1>1, <1>2 DEF PushInit, Working
<1>6. /\ minute \in 0..MaxMinute /\ losses \in 0..MaxLosses /\ stamps \in Nat
      /\ passed \in [0..MaxMinute -> Nat]
  BY DEF PushInit
<1>7. dedupe \in [Keys -> Nat] /\ inbox \in [Keys -> Nat] /\ delivered \in [Keys -> Nat]
  BY DEF PushInit
<1> QED BY <1>3, <1>5, <1>6, <1>7 DEF PushInit, PushTypeOK

LEMMA PushTypeStep == PushTypeOK /\ [PushNext]_pushVars => PushTypeOK'
BY ClientTypes, SendTypes, ReceiveTypes, HandlerTypes, NodeTypes DEF PushNext, NodeStep

(* Calls, handlers, sessions, window and files keep their types, and every *)
(* handler works for the key its call was made with.                       *)
THEOREM PushTypeCorrect == PushSpec => []PushTypeOK
BY PushTypeInit, PushTypeStep, PTL DEF PushSpec

-----------------------------------------------------------------------------
(* The losses of sessions a call has met so far: none of them is forgotten *)
(* between its first request, its second hello and its second request.     *)
Preparing == {"idle", "start", "hello", "redial", "send"}

NoStaleHandler == \A c \in Calls : call[c].pc \in Preparing => handler[c].pc = "idle"

HasSession(n) == serverSession \/ losses >= n

DriftMet(c) ==
    /\ call[c].pc = "idle" => ~call[c].retried
    /\ call[c].retried => losses >= 1
    /\ call[c].retried /\ call[c].pc \in {"start", "hello", "send", "wait"} => HasSession(2)
    /\ call[c].pc \in {"send", "wait"} => HasSession(1)
    /\ call[c].pc = "wait" /\ handler[c].pc = "reply" /\ handler[c].result = "unsupported" =>
          losses >= 1 /\ (call[c].retried => losses >= 2)
    /\ call[c].result = "unsupported" => losses >= 2

DriftInv ==
    /\ NoStaleHandler
    /\ clientSession => HasSession(1)
    /\ \A c \in Calls : DriftMet(c)

LEMMA DriftInit == PushInit => DriftInv
<1> SUFFICES ASSUME PushInit PROVE DriftInv OBVIOUS
<1>1. \A c \in Calls : /\ call[c].pc = "idle" /\ ~call[c].retried /\ call[c].result = "none"
                       /\ handler[c].pc = "idle"
  BY DEF PushInit, NewCall, NoHandler
<1>2. ~clientSession BY DEF PushInit
<1> QED BY <1>1, <1>2 DEF DriftInv, NoStaleHandler, DriftMet

(* A step of one call leaves the others as they are. *)
LEMMA DriftOfOthers ==
    ASSUME PushTypeOK, DriftInv, NEW c \in Calls, NEW d \in Calls, d # c,
           call'[d] = call[d], handler'[d] = handler[d], losses' = losses,
           serverSession => serverSession'
    PROVE  DriftMet(d)' /\ (call'[d].pc \in Preparing => handler'[d].pc = "idle")
BY DEF DriftInv, NoStaleHandler, DriftMet, HasSession

(* A handler changes only itself, and answers "unsupported" only for want  *)
(* of a session.                                                           *)
LEMMA HandlerResults ==
    ASSUME PushTypeOK, NEW c \in Calls, HandlerStep(c)
    PROVE  /\ \A d \in Calls : d # c => handler'[d] = handler[d]
           /\ handler'[c].pc = "reply" /\ handler'[c].result = "unsupported" => ~serverSession
<1>1. \/ \E pc \in HandlerPlaces : Moves(c, pc)
      \/ handler' = [handler EXCEPT ![c].pc = "rate", ![c].minute = minute, ![c].stamp = stamps + 1]
      \/ Answers(c, "unsupported") /\ ~serverSession
      \/ \E r \in Results \ {"unsupported"} : Answers(c, r)
  BY DEF HandlerStep, CheckSession, CheckAllowed, AllowDataPush, GetDedupeRecord, PutDedupeRecord,
     PruneDedupeRecords, AppendInboxMessage, Deliver, HandlerPlaces, Results
<1>2. CASE \E pc \in HandlerPlaces : Moves(c, pc)
  BY <1>2, MovesFacts DEF HandlerPlaces
<1>3. CASE handler' = [handler EXCEPT ![c].pc = "rate", ![c].minute = minute, ![c].stamp = stamps + 1]
  <2> DEFINE s == [handler[c] EXCEPT !.pc = "rate", !.minute = minute, !.stamp = stamps + 1]
  <2>1. handler[c] \in HandlerStates BY DEF PushTypeOK
  <2>2. s.pc = "rate" BY <2>1 DEF HandlerStates
  <2>3. handler' = [handler EXCEPT ![c] = s] BY <1>3
  <2> HIDE DEF s
  <2> QED BY <2>2, <2>3 DEF PushTypeOK
<1>4. CASE Answers(c, "unsupported") /\ ~serverSession
  BY <1>4, AnswersFacts DEF Results
<1>5. CASE \E r \in Results \ {"unsupported"} : Answers(c, r)
  BY <1>5, AnswersFacts
<1> QED BY <1>1, <1>2, <1>3, <1>4, <1>5

LEMMA DriftStep ==
    ASSUME PushTypeOK, DriftInv, NEW c \in Calls,
           PushData(c) \/ StartCall(c) \/ DialHello(c) \/ Send(c) \/ Receive(c) \/ CallFails(c)
             \/ HandlerStep(c)
    PROVE  DriftInv'
<1> USE DEF memory, world
<1>1. DriftMet(c) /\ (call[c].pc \in Preparing => handler[c].pc = "idle") /\ (clientSession => HasSession(1))
  BY DEF DriftInv, NoStaleHandler
<1>2. losses \in Nat BY PushConstants DEF PushTypeOK
<1>3. SUFFICES /\ DriftMet(c)' /\ (call'[c].pc \in Preparing => handler'[c].pc = "idle")
               /\ (clientSession => HasSession(1))'
               /\ losses' = losses /\ (serverSession => serverSession')
               /\ \A d \in Calls : d # c => call'[d] = call[d] /\ handler'[d] = handler[d]
  BY DriftOfOthers DEF DriftInv, NoStaleHandler
<1>4. CASE PushData(c)
  <2>1. PICK k \in Keys : call' = [call EXCEPT ![c].pc = "start", ![c].key = k]
    BY <1>4 DEF PushData
  <2> DEFINE s == [call[c] EXCEPT !.pc = "start", !.key = k]
  <2>2. call[c] \in CallStates BY DEF PushTypeOK
  <2>3. s.pc = "start" /\ s.retried = call[c].retried /\ s.result = call[c].result
    BY <2>2 DEF CallStates
  <2>4. call' = [call EXCEPT ![c] = s] BY <2>1
  <2> HIDE DEF s
  <2>5. call'[c] = s /\ \A d \in Calls : d # c => call'[d] = call[d] BY <2>4 DEF PushTypeOK
  <2>6. UNCHANGED <<clientSession, memory, losses>> /\ call[c].pc = "idle" BY <1>4 DEF PushData
  <2> QED BY <1>1, <2>3, <2>5, <2>6 DEF DriftMet, HasSession, Preparing
<1>5. CASE StartCall(c)
  <2>1. /\ (Goes(c, "send") /\ clientSession) \/ Goes(c, "hello")
        /\ UNCHANGED <<clientSession, memory, losses>> /\ call[c].pc = "start"
    BY <1>5 DEF StartCall
  <2>2. CASE Goes(c, "send") /\ clientSession
    BY <1>1, <2>1, <2>2, GoesFacts DEF DriftMet, HasSession, Preparing
  <2>3. CASE Goes(c, "hello")
    BY <1>1, <2>1, <2>3, GoesFacts DEF DriftMet, HasSession, Preparing
  <2> QED BY <2>1, <2>2, <2>3
<1>6. CASE DialHello(c)
  <2>1. /\ UNCHANGED <<handler, losses>> /\ call[c].pc \in {"hello", "redial"}
        /\ "error" \in Results
    BY <1>6 DEF DialHello, Results
  <2>2. CASE (Goes(c, "send") \/ Goes(c, "start")) /\ serverSession'
    <3>1. PICK pc \in {"send", "start"} : Goes(c, pc) BY <2>2
    <3> QED BY <1>1, <2>1, <2>2, <3>1, GoesFacts DEF DriftMet, HasSession, Preparing
  <2>3. CASE Returns(c, "error") /\ UNCHANGED clientSession /\ (serverSession => serverSession')
    BY <1>1, <2>1, <2>3, ReturnsFacts DEF DriftMet, HasSession, Preparing
  <2> QED BY <1>6, <2>2, <2>3 DEF DialHello
<1>7. CASE Send(c)
  <2> DEFINE s == [NoHandler EXCEPT !.pc = "session", !.key = call[c].key]
  <2>1. s.pc = "session" BY DEF NoHandler
  <2>2. handler' = [handler EXCEPT ![c] = s] \/ UNCHANGED handler BY <1>7 DEF Send
  <2> HIDE DEF s
  <2>3. /\ call[c].pc = "send" /\ UNCHANGED <<clientSession, serverSession, losses>>
        /\ "accepted" \in Results
    BY <1>7 DEF Send, Results
  <2>4. /\ handler'[c].pc # "reply" /\ \A d \in Calls : d # c => handler'[d] = handler[d]
    BY <1>1, <2>1, <2>2, <2>3 DEF PushTypeOK, Preparing
  <2>5. CASE Goes(c, "wait")
    BY <1>1, <2>3, <2>4, <2>5, GoesFacts DEF DriftMet, HasSession, Preparing
  <2>6. CASE Returns(c, "accepted")
    BY <1>1, <2>3, <2>4, <2>6, ReturnsFacts DEF DriftMet, HasSession, Preparing
  <2> QED BY <1>7, <2>5, <2>6 DEF Send
<1>8. CASE Receive(c)
  <2> DEFINE s == [call[c] EXCEPT !.pc = "redial", !.retried = TRUE]
  <2>1. call[c] \in CallStates /\ handler[c].result \in Results BY DEF PushTypeOK, HandlerStates
  <2>2. s.pc = "redial" /\ s.retried = TRUE /\ s.result = call[c].result BY <2>1 DEF CallStates
  <2>3. /\ call[c].pc = "wait" /\ handler[c].pc = "reply"
        /\ UNCHANGED <<clientSession, serverSession, losses>>
    BY <1>8 DEF Receive
  <2>4. NoHandler.pc = "idle" BY DEF NoHandler
  <2>5. handler'[c].pc = "idle" /\ \A d \in Calls : d # c => handler'[d] = handler[d]
    BY <1>8, <2>4 DEF Receive, PushTypeOK
  <2>6. \/ Returns(c, handler[c].result) /\ (handler[c].result = "unsupported" => call[c].retried)
        \/ call' = [call EXCEPT ![c] = s] /\ handler[c].result = "unsupported"
    BY <1>8, <2>1 DEF Receive, ShouldRetry, CallStates
  <2> HIDE DEF s
  <2>7. CASE Returns(c, handler[c].result) /\ (handler[c].result = "unsupported" => call[c].retried)
    BY <1>1, <2>1, <2>3, <2>5, <2>7, ReturnsFacts DEF DriftMet, HasSession, Preparing
  <2>8. CASE call' = [call EXCEPT ![c] = s] /\ handler[c].result = "unsupported"
    <3>1. call'[c] = s /\ \A d \in Calls : d # c => call'[d] = call[d] BY <2>8 DEF PushTypeOK
    <3> QED BY <1>1, <2>2, <2>3, <2>5, <2>8, <3>1 DEF DriftMet, HasSession, Preparing
  <2> QED BY <2>6, <2>7, <2>8
<1>9. CASE CallFails(c)
  <2>1. Returns(c, "error") /\ "error" \in Results /\ UNCHANGED <<clientSession, memory, losses>>
    BY <1>9 DEF CallFails, Results
  <2>2. call[c].pc # "idle" BY <1>9 DEF CallFails
  <2> QED BY <1>1, <2>1, <2>2, ReturnsFacts DEF DriftMet, HasSession, Preparing
<1>10. CASE HandlerStep(c)
  <2>1. /\ UNCHANGED <<call, clientSession, serverSession, losses>>
        /\ handler[c].pc \notin {"idle", "reply"}
    BY <1>10 DEF HandlerStep, CheckSession, CheckAllowed, AllowDataPush, GetDedupeRecord,
       PutDedupeRecord, PruneDedupeRecords, AppendInboxMessage, Deliver, At, client
  <2>2. /\ \A d \in Calls : d # c => handler'[d] = handler[d]
        /\ handler'[c].pc = "reply" /\ handler'[c].result = "unsupported" => ~serverSession
    BY <1>10, HandlerResults DEF PushTypeOK
  <2> QED BY <1>1, <1>2, <2>1, <2>2 DEF DriftMet, HasSession, Preparing
<1> QED BY <1>4, <1>5, <1>6, <1>7, <1>8, <1>9, <1>10

LEMMA DriftOfNodes ==
    ASSUME PushTypeOK, DriftInv, NodeStep \/ UNCHANGED pushVars
    PROVE  DriftInv'
<1> USE DEF client, memory, world
<1>1. losses \in Nat BY PushConstants DEF PushTypeOK
<1>2. /\ UNCHANGED call /\ (clientSession' => clientSession)
      /\ \/ serverSession' = serverSession /\ losses' = losses /\ UNCHANGED handler
         \/ losses' = losses + 1 /\ (UNCHANGED handler \/ \A c \in Calls : handler'[c].pc = "idle")
  <2>1. NoHandler.pc = "idle" BY DEF NoHandler
  <2> QED BY <2>1 DEF NodeStep, ClientSessionExpires, ServerSessionExpires, Restart, BlockPeer, NextMinute,
             RecordExpires, pushVars

<1>3. CASE serverSession' = serverSession /\ losses' = losses /\ UNCHANGED handler
  BY <1>2, <1>3 DEF DriftInv, NoStaleHandler, DriftMet, HasSession
<1>4. CASE losses' = losses + 1 /\ (UNCHANGED handler \/ \A c \in Calls : handler'[c].pc = "idle")
  <2>1. NoStaleHandler' BY <1>2, <1>4 DEF DriftInv, NoStaleHandler
  <2>2. (clientSession => HasSession(1))' BY <1>1, <1>2, <1>4 DEF HasSession
  <2>3. ASSUME NEW c \in Calls PROVE DriftMet(c)'
    BY <1>1, <1>2, <1>4 DEF DriftInv, DriftMet, HasSession
  <2> QED BY <2>1, <2>2, <2>3 DEF DriftInv
<1> QED BY <1>2, <1>3, <1>4

LEMMA DriftKept == PushTypeOK /\ DriftInv /\ [PushNext]_pushVars => DriftInv'
BY DriftStep, DriftOfNodes DEF PushNext, NodeStep

(* maep/node.go, "handles session drift (for example remote node restart)  *)
(* by renegotiating once": a call fails as unsupported only when the       *)
(* server has lost its sessions twice.                                     *)
THEOREM DriftHealed == PushSpec => []DriftIsHealed
<1>1. DriftInv => DriftIsHealed BY DEF DriftInv, DriftMet, DriftIsHealed
<1> QED BY PushTypeInit, PushTypeStep, DriftInit, DriftKept, <1>1, PTL DEF PushSpec

-----------------------------------------------------------------------------
(* A key is promised once it is delivered or a handler is past recording   *)
(* it; without restarts a promise is never taken back.                     *)
Late == {"prune", "append", "deliver"}
Promised(k) == delivered[k] > 0 \/ AboutToDeliver(k)

LEMMA PromisedAlt ==
    ASSUME NEW k
    PROVE  /\ AboutToDeliver(k) <=> \E c \in Calls : handler[c].key = k /\ handler[c].pc \in Late
           /\ AboutToDeliver(k)' <=> \E c \in Calls : handler'[c].key = k /\ handler'[c].pc \in Late
BY DEF AboutToDeliver, Working, Late

(* The handlers a step leaves alone keep their promises. *)
LEMMA OthersPromise ==
    ASSUME PushTypeOK, UNCHANGED delivered,
           \A c \in Calls : handler[c].pc \in Late => handler'[c] = handler[c]
    PROVE  \A k \in Keys : Promised(k) => Promised(k)'
BY PromisedAlt DEF Promised

LEMMA PromiseKept ==
    ASSUME PushTypeOK, DriftInv, Restarts = FALSE, [PushNext]_pushVars
    PROVE  \A k \in Keys : Promised(k) => Promised(k)'
<1> USE DEF memory, files, client
<1>1. ASSUME NEW c \in Calls, PushData(c) \/ StartCall(c) \/ DialHello(c) \/ CallFails(c)
      PROVE  UNCHANGED <<handler, delivered>>
  BY <1>1 DEF PushData, StartCall, DialHello, CallFails
<1>2. ASSUME NEW c \in Calls, Send(c) \/ Receive(c)
      PROVE  /\ UNCHANGED delivered
             /\ \A d \in Calls : handler[d].pc \in Late => handler'[d] = handler[d]
  <2>1. handler[c].pc \notin Late /\ UNCHANGED delivered
    BY <1>2 DEF Send, Receive, DriftInv, NoStaleHandler, Preparing, Late
  <2>2. \A d \in Calls : d # c => handler'[d] = handler[d]
    BY <1>2 DEF Send, Receive, PushTypeOK
  <2> QED BY <2>1, <2>2
<1>3. ASSUME NEW c \in Calls, HandlerStep(c)
      PROVE  \A k \in Keys : Promised(k) => Promised(k)'
  <2>1. \A d \in Calls : d # c => handler'[d] = handler[d] BY <1>3, HandlerResults
  <2>2. CASE handler[c].pc \notin Late
    <3>1. UNCHANGED delivered
      BY <1>3, <2>2 DEF HandlerStep, CheckSession, CheckAllowed, AllowDataPush, GetDedupeRecord,
         PutDedupeRecord, PruneDedupeRecords, AppendInboxMessage, Deliver, At, Late
    <3> QED BY <2>1, <2>2, <3>1, OthersPromise
  <2>3. CASE handler[c].pc \in {"prune", "append"}
    <3>1. UNCHANGED delivered /\ (Moves(c, "append") \/ Moves(c, "deliver"))
      BY <1>3, <2>3 DEF HandlerStep, CheckSession, CheckAllowed, AllowDataPush, GetDedupeRecord,
         PutDedupeRecord, PruneDedupeRecords, AppendInboxMessage, Deliver, At
    <3>2. handler'[c].key = handler[c].key /\ handler'[c].pc \in Late
      BY <3>1, MovesFacts DEF HandlerPlaces, Late
    <3> QED BY <2>1, <3>1, <3>2, PromisedAlt DEF Promised
  <2>4. CASE handler[c].pc = "deliver"
    <3>1. delivered' = [delivered EXCEPT ![handler[c].key] = @ + 1]
      BY <1>3, <2>4 DEF HandlerStep, CheckSession, CheckAllowed, AllowDataPush, GetDedupeRecord,
         PutDedupeRecord, PruneDedupeRecords, AppendInboxMessage, Deliver, At
    <3>2. \A k \in Keys : delivered'[k] >= delivered[k] /\ (k = handler[c].key => delivered'[k] > 0)
      BY <3>1 DEF PushTypeOK
    <3>3. ASSUME NEW k \in Keys, Promised(k) PROVE Promised(k)'
      <4>1. CASE delivered[k] > 0
        <5>1. delivered[k] \in Nat /\ delivered'[k] \in Nat BY <3>1 DEF PushTypeOK
        <5> QED BY <3>2, <4>1, <5>1 DEF Promised
      <4>2. CASE AboutToDeliver(k)
        <5>1. PICK d \in Calls : handler[d].key = k /\ handler[d].pc \in Late
          BY <4>2, PromisedAlt
        <5> QED BY <2>1, <3>2, <5>1, PromisedAlt DEF Promised
      <4> QED BY <3>3, <4>1, <4>2 DEF Promised
    <3> QED BY <3>3
  <2> QED BY <2>2, <2>3, <2>4 DEF Late
<1>4. ASSUME NodeStep \/ UNCHANGED pushVars PROVE UNCHANGED <<handler, delivered>>
  BY <1>4 DEF NodeStep, ClientSessionExpires, ServerSessionExpires, Restart, BlockPeer, NextMinute,
     RecordExpires, pushVars
<1> QED BY <1>1, <1>2, <1>3, <1>4, OthersPromise DEF PushNext, NodeStep

(* Every record, and every answer that tells of a delivery, is a promise.  *)
Positive == {"accepted", "deduped"}
Answered(c) ==
    /\ call[c].pc = "idle" => call[c].result = "none"
    /\ call[c].pc = "wait" /\ handler[c].pc = "reply" /\ handler[c].result \in Positive =>
          Promised(call[c].key)
    /\ call[c].result \in Positive => Promised(call[c].key)
AcceptInv ==
    /\ \A k \in Keys : dedupe[k] # 0 => Promised(k)
    /\ \A c \in Calls \ Notifying : Answered(c)

LEMMA AcceptInit == PushInit => AcceptInv
<1> SUFFICES ASSUME PushInit PROVE AcceptInv OBVIOUS
<1>1. \A c \in Calls : call[c].pc = "idle" /\ call[c].result = "none"
  BY DEF PushInit, NewCall
<1> QED BY <1>1 DEF PushInit, AcceptInv, Answered, Positive

(* A handler records a key when it is about to deliver it, and answers     *)
(* that it has delivered, or that there is a record.                       *)
LEMMA HandlerPromises ==
    ASSUME PushTypeOK, NEW c \in Calls, HandlerStep(c)
    PROVE  /\ \A k \in Keys : dedupe'[k] # 0 => dedupe[k] # 0 \/ Promised(k)'
           /\ handler'[c].pc = "reply" /\ handler'[c].result \in Positive =>
                 dedupe[handler[c].key] # 0 \/ delivered'[handler[c].key] > 0
<1> USE DEF files
<1>1. CASE CheckSession(c) \/ CheckAllowed(c) \/ AllowDataPush(c)
  <2>1. UNCHANGED dedupe BY <1>1 DEF CheckSession, CheckAllowed, AllowDataPush
  <2>2. \/ \E pc \in HandlerPlaces : Moves(c, pc)
        \/ handler' = [handler EXCEPT ![c].pc = "rate", ![c].minute = minute, ![c].stamp = stamps + 1]
        \/ \E r \in Results \ Positive : Answers(c, r)
    BY <1>1 DEF CheckSession, CheckAllowed, AllowDataPush, HandlerPlaces, Results, Positive
  <2>3. CASE \E pc \in HandlerPlaces : Moves(c, pc)
    BY <2>1, <2>3, MovesFacts DEF HandlerPlaces
  <2>4. CASE handler' = [handler EXCEPT ![c].pc = "rate", ![c].minute = minute, ![c].stamp = stamps + 1]
    <3> DEFINE s == [handler[c] EXCEPT !.pc = "rate", !.minute = minute, !.stamp = stamps + 1]
    <3>1. handler[c] \in HandlerStates BY DEF PushTypeOK
    <3>2. s.pc = "rate" BY <3>1 DEF HandlerStates
    <3>3. handler' = [handler EXCEPT ![c] = s] BY <2>4
    <3> HIDE DEF s
    <3> QED BY <2>1, <3>2, <3>3 DEF PushTypeOK
  <2>5. CASE \E r \in Results \ Positive : Answers(c, r)
    BY <2>1, <2>5, AnswersFacts
  <2> QED BY <2>2, <2>3, <2>4, <2>5
<1>2. CASE GetDedupeRecord(c)
  <2>1. UNCHANGED dedupe /\ (dedupe[handler[c].key] # 0 \/ Moves(c, "put"))
    BY <1>2 DEF GetDedupeRecord
  <2> QED BY <2>1, MovesFacts DEF HandlerPlaces
<1>3. CASE PutDedupeRecord(c)
  <2>1. Moves(c, "prune") BY <1>3 DEF PutDedupeRecord
  <2>2. handler'[c].key = handler[c].key /\ handler'[c].pc = "prune"
    BY <2>1, MovesFacts DEF HandlerPlaces
  <2>3. Promised(handler[c].key)' BY <2>2, PromisedAlt DEF Promised, Late
  <2>4. \A k \in Keys : k # handler[c].key => dedupe'[k] = dedupe[k]
    BY <1>3 DEF PutDedupeRecord, PushTypeOK
  <2> QED BY <2>2, <2>3, <2>4
<1>4. CASE PruneDedupeRecords(c)
  <2>1. handler'[c].pc = "append" BY <1>4, MovesFacts DEF PruneDedupeRecords, HandlerPlaces
  <2>2. ASSUME NEW k \in Keys, dedupe'[k] # 0 PROVE dedupe[k] # 0
    BY <1>4, <2>2 DEF PruneDedupeRecords, Kept
  <2> QED BY <2>1, <2>2
<1>5. CASE AppendInboxMessage(c)
  BY <1>5, MovesFacts DEF AppendInboxMessage, HandlerPlaces
<1>6. CASE Deliver(c)
  <2>1. UNCHANGED dedupe /\ delivered' = [delivered EXCEPT ![handler[c].key] = @ + 1]
    BY <1>6 DEF Deliver
  <2>2. c \in Working BY <1>6 DEF Deliver, At, Working
  <2>3. handler[c].key \in Keys BY <2>2 DEF PushTypeOK, Working
  <2>4. delivered[handler[c].key] \in Nat /\ delivered \in [Keys -> Nat] BY <2>3 DEF PushTypeOK
  <2>5. delivered'[handler[c].key] > 0 BY <2>1, <2>3, <2>4
  <2> QED BY <2>1, <2>5
<1> QED BY <1>1, <1>2, <1>3, <1>4, <1>5, <1>6 DEF HandlerStep

LEMMA AcceptStep ==
    ASSUME PushTypeOK, DriftInv, AcceptInv, Restarts = FALSE, [PushNext]_pushVars
    PROVE  AcceptInv'
<1> USE DEF client, memory, files, world
<1>1. \A k \in Keys : Promised(k) => Promised(k)' BY PromiseKept
<1>2. \A c \in Calls : call[c].pc # "idle" => call[c].key \in Keys BY DEF PushTypeOK
<1>3. ASSUME NEW c \in Calls \ Notifying, UNCHANGED <<call[c], handler[c]>>
      PROVE  Answered(c)'
  BY <1>1, <1>2, <1>3 DEF AcceptInv, Answered, Positive
<1>4. ASSUME NEW c \in Calls, PushData(c) \/ StartCall(c) \/ DialHello(c) \/ CallFails(c)
      PROVE  AcceptInv'
  <2>1. UNCHANGED <<handler, dedupe>> BY <1>4 DEF PushData, StartCall, DialHello, CallFails
  <2>2. \A d \in Calls : d # c => call'[d] = call[d]
    BY <1>4 DEF PushData, StartCall, DialHello, CallFails, Goes, Returns, PushTypeOK
  <2>3. /\ call'[c].pc \notin {"idle", "wait"} /\ call'[c].result \in {call[c].result, "error"}
        /\ call[c].pc # "idle" => call'[c].key = call[c].key
    <3>1. call[c] \in CallStates /\ "error" \in Results BY DEF PushTypeOK, Results
    <3>2. CASE PushData(c)
      <4>1. PICK k \in Keys : call' = [call EXCEPT ![c].pc = "start", ![c].key = k]
        BY <3>2 DEF PushData
      <4> DEFINE s == [call[c] EXCEPT !.pc = "start", !.key = k]
      <4>2. s.pc = "start" /\ s.result = call[c].result BY <3>1 DEF CallStates
      <4>3. call' = [call EXCEPT ![c] = s] BY <4>1
      <4> HIDE DEF s
      <4> QED BY <3>2, <4>2, <4>3 DEF PushData, PushTypeOK
    <3>3. CASE StartCall(c)
      <4>1. Goes(c, "send") \/ Goes(c, "hello") BY <3>3 DEF StartCall
      <4>2. CASE Goes(c, "send") BY <4>2, GoesFacts
      <4>3. CASE Goes(c, "hello") BY <4>3, GoesFacts
      <4> QED BY <4>1, <4>2, <4>3
    <3>4. CASE DialHello(c) \/ CallFails(c)
      <4>1. Goes(c, "send") \/ Goes(c, "start") \/ Returns(c, "error")
        BY <3>4 DEF DialHello, CallFails
      <4>2. CASE Goes(c, "send") BY <4>2, GoesFacts
      <4>3. CASE Goes(c, "start") BY <4>3, GoesFacts
      <4>4. CASE Returns(c, "error") BY <3>1, <4>4, ReturnsFacts
      <4> QED BY <4>1, <4>2, <4>3, <4>4
    <3> QED BY <1>4, <3>2, <3>3, <3>4
  <2>4. c \notin Notifying => Answered(c)'
    BY <1>1, <1>2, <2>3 DEF AcceptInv, Answered, Positive
  <2> QED BY <1>1, <1>3, <2>1, <2>2, <2>4 DEF AcceptInv
<1>5. ASSUME NEW c \in Calls, Send(c) PROVE AcceptInv'
  <2>1. UNCHANGED dedupe /\ call[c].pc = "send" /\ handler[c].pc = "idle"
    BY <1>5 DEF Send, DriftInv, NoStaleHandler, Preparing
  <2>2. \A d \in Calls : d # c => call'[d] = call[d] /\ handler'[d] = handler[d]
    BY <1>5 DEF Send, Goes, Returns, PushTypeOK
  <2>3. c \notin Notifying => Goes(c, "wait") BY <1>5 DEF Send
  <2> DEFINE s == [NoHandler EXCEPT !.pc = "session", !.key = call[c].key]
  <2>4. s.pc = "session" BY DEF NoHandler
  <2>5. handler' = [handler EXCEPT ![c] = s] \/ UNCHANGED handler BY <1>5 DEF Send
  <2> HIDE DEF s
  <2>6. handler'[c].pc # "reply" BY <2>1, <2>4, <2>5 DEF PushTypeOK
  <2>7. c \notin Notifying => Answered(c)'
    BY <1>1, <1>2, <2>1, <2>3, <2>6, GoesFacts DEF AcceptInv, Answered, Positive
  <2> QED BY <1>1, <1>3, <2>1, <2>2, <2>7 DEF AcceptInv
<1>6. ASSUME NEW c \in Calls, Receive(c) PROVE AcceptInv'
  <2>1. UNCHANGED dedupe /\ call[c].pc = "wait" /\ handler[c].pc = "reply"
    BY <1>6 DEF Receive
  <2>2. \A d \in Calls : d # c => call'[d] = call[d] /\ handler'[d] = handler[d]
    BY <1>6 DEF Receive, Returns, PushTypeOK
  <2>3. handler[c].result \in Results /\ call[c] \in CallStates BY DEF PushTypeOK, HandlerStates
  <2> DEFINE s == [call[c] EXCEPT !.pc = "redial", !.retried = TRUE]
  <2>4. s.pc = "redial" /\ s.key = call[c].key /\ s.result = call[c].result BY <2>3 DEF CallStates
  <2>5. Returns(c, handler[c].result) \/ call' = [call EXCEPT ![c] = s] BY <1>6 DEF Receive
  <2> HIDE DEF s
  <2>6. CASE Returns(c, handler[c].result)
    <3>1. c \notin Notifying => Answered(c)'
      BY <1>1, <1>2, <2>1, <2>3, <2>6, ReturnsFacts DEF AcceptInv, Answered, Positive
    <3> QED BY <1>1, <1>3, <2>1, <2>2, <3>1 DEF AcceptInv
  <2>7. CASE call' = [call EXCEPT ![c] = s]
    <3>1. call'[c] = s BY <2>7 DEF PushTypeOK
    <3>2. c \notin Notifying => Answered(c)'
      BY <1>1, <1>2, <2>1, <2>4, <3>1 DEF AcceptInv, Answered, Positive
    <3> QED BY <1>1, <1>3, <2>1, <2>2, <3>2 DEF AcceptInv
  <2> QED BY <2>5, <2>6, <2>7
<1>7. ASSUME NEW c \in Calls, HandlerStep(c) PROVE AcceptInv'
  <2>1. UNCHANGED call /\ c \in Working
    BY <1>7 DEF HandlerStep, CheckSession, CheckAllowed, AllowDataPush, GetDedupeRecord,
       PutDedupeRecord, PruneDedupeRecords, AppendInboxMessage, Deliver, At, Working
  <2>2. handler[c].key = call[c].key /\ call[c].key \in Keys BY <2>1 DEF PushTypeOK
  <2>3. \A k \in Keys : dedupe'[k] # 0 => Promised(k)'
    BY <1>1, <1>7, HandlerPromises DEF AcceptInv
  <2>4. handler'[c].pc = "reply" /\ handler'[c].result \in Positive => Promised(call[c].key)'
    <3>1. SUFFICES ASSUME handler'[c].pc = "reply" /\ handler'[c].result \in Positive
                   PROVE  Promised(call[c].key)'
      OBVIOUS
    <3>2. dedupe[handler[c].key] # 0 \/ delivered'[handler[c].key] > 0
      BY <1>7, <3>1, HandlerPromises
    <3> QED BY <1>1, <2>1, <2>2, <3>2 DEF AcceptInv, Promised
  <2>5. c \notin Notifying => Answered(c)'
    BY <1>1, <1>2, <2>1, <2>4 DEF AcceptInv, Answered, Positive
  <2>6. \A d \in Calls : d # c => handler'[d] = handler[d] BY <1>7, HandlerResults
  <2> QED BY <1>3, <2>1, <2>3, <2>5, <2>6 DEF AcceptInv
<1>8. ASSUME NodeStep \/ UNCHANGED pushVars PROVE AcceptInv'
  <2>1. /\ UNCHANGED <<call, handler>>
        /\ UNCHANGED dedupe \/ \E k \in Keys : dedupe' = [dedupe EXCEPT ![k] = 0]
    BY <1>8 DEF NodeStep, ClientSessionExpires, ServerSessionExpires, Restart, BlockPeer, NextMinute,
       RecordExpires, pushVars
  <2>2. \A k \in Keys : dedupe'[k] # 0 => dedupe[k] # 0 BY <2>1 DEF PushTypeOK
  <2> QED BY <1>1, <1>3, <2>1, <2>2 DEF AcceptInv
<1> QED BY <1>4, <1>5, <1>6, <1>7, <1>8 DEF PushNext, NodeStep

(* docs/feat/feat_20260206_maep.md 8, "First receipt: process and record   *)
(* dedupe key": while the server does not restart, a push answered as      *)
(* accepted or as a duplicate is delivered or just about to be, whatever   *)
(* file access fails and whatever record expires or is evicted.            *)
THEOREM AcceptedDelivered ==
    ASSUME Restarts = FALSE
    PROVE  PushSpec => []AcceptedIsDelivered
<1>1. AcceptInv => AcceptedIsDelivered
  BY DEF AcceptInv, Answered, Positive, Promised, AcceptedIsDelivered
<1>2. PushTypeOK /\ DriftInv /\ AcceptInv /\ [PushNext]_pushVars => AcceptInv' BY AcceptStep
<1> QED BY PushTypeInit, PushTypeStep, DriftInit, DriftKept, AcceptInit, <1>1, <1>2, PTL DEF PushSpec
-----------------------------------------------------------------------------
(* What any step does to the handlers, the window and the files.  A step   *)
(* is at rest where it takes no handler into the part of its work that     *)
(* looks at them.                                                          *)
Resting == {"idle", "session", "allowed", "reply"}
AtRest == \A d \in Calls : handler'[d] = handler[d] \/ handler'[d].pc \in Resting

LEMMA StepsAtRest ==
    ASSUME PushTypeOK, [PushNext]_pushVars
    PROVE  \/ AtRest /\ UNCHANGED <<rate, files>> /\ minute <= minute'
           \/ Restart
           \/ \E k \in Keys : RecordExpires(k)
           \/ \E c \in Working :
                 \/ CheckAllowed(c) \/ AllowDataPush(c) \/ GetDedupeRecord(c) \/ PutDedupeRecord(c)
                 \/ PruneDedupeRecords(c) \/ AppendInboxMessage(c) \/ Deliver(c)
<1> USE DEF memory, world
<1>0. minute \in Nat BY PushConstants DEF PushTypeOK
<1>1. ASSUME NEW c \in Calls, Send(c) \/ Receive(c)
      PROVE  AtRest /\ UNCHANGED <<rate, files, minute>>
  <2> DEFINE s == [NoHandler EXCEPT !.pc = "session", !.key = call[c].key]
  <2>1. s.pc = "session" /\ NoHandler.pc = "idle" BY DEF NoHandler
  <2>2. \/ handler' = [handler EXCEPT ![c] = s]
        \/ handler' = [handler EXCEPT ![c] = NoHandler]
        \/ UNCHANGED handler
    BY <1>1 DEF Send, Receive
  <2> HIDE DEF s
  <2>3. AtRest BY <2>1, <2>2 DEF AtRest, Resting, PushTypeOK
  <2> QED BY <1>1, <2>3 DEF Send, Receive
<1>2. ASSUME NEW c \in Calls, CheckSession(c)
      PROVE  AtRest /\ UNCHANGED <<rate, files, minute>>
  <2>1. CASE Moves(c, "allowed")
    BY <1>2, <2>1, MovesFacts DEF CheckSession, AtRest, Resting, HandlerPlaces
  <2>2. CASE Answers(c, "unsupported")
    BY <1>2, <2>2, AnswersFacts DEF CheckSession, AtRest, Resting, Results
  <2> QED BY <1>2, <2>1, <2>2 DEF CheckSession
<1>3. ASSUME NEW c \in Calls, PushData(c) \/ StartCall(c) \/ DialHello(c) \/ CallFails(c)
      PROVE  AtRest /\ UNCHANGED <<rate, files, minute>>
  BY <1>3 DEF PushData, StartCall, DialHello, CallFails, AtRest
<1>4. ASSUME ClientSessionExpires \/ ServerSessionExpires \/ BlockPeer \/ NextMinute \/ UNCHANGED pushVars
      PROVE  AtRest /\ UNCHANGED <<rate, files>> /\ minute <= minute'
  BY <1>0, <1>4 DEF ClientSessionExpires, ServerSessionExpires, BlockPeer, NextMinute, pushVars, AtRest
<1>5. ASSUME NEW c \in Calls, HandlerStep(c), ~CheckSession(c)
      PROVE  \E d \in Working :
                 \/ CheckAllowed(d) \/ AllowDataPush(d) \/ GetDedupeRecord(d) \/ PutDedupeRecord(d)
                 \/ PruneDedupeRecords(d) \/ AppendInboxMessage(d) \/ Deliver(d)
  <2>1. c \in Working
    BY <1>5 DEF HandlerStep, CheckAllowed, AllowDataPush, GetDedupeRecord,
       PutDedupeRecord, PruneDedupeRecords, AppendInboxMessage, Deliver, At, Working
  <2> QED BY <1>5, <2>1 DEF HandlerStep
<1> QED BY <1>0, <1>1, <1>2, <1>3, <1>4, <1>5 DEF PushNext
-----------------------------------------------------------------------------
(* What may have passed of a minute: of the window's own what it counts,   *)
(* of an earlier one a whole limit, of a later one nothing yet; and one    *)
(* limit more for each late push, that took the window back.               *)
Counted(m) == IF m > window.minute THEN 0
              ELSE IF m = window.minute THEN window.count ELSE RateLimit

RateInv == \A m \in 0..MaxMinute : passed[m] <= RateLimit * late + Counted(m)

LEMMA RateTypes ==
    ASSUME PushTypeOK
    PROVE  /\ RateLimit \in Nat \ {0} /\ MaxMinute \in Nat /\ late \in Nat
           /\ window.minute \in 0..MaxMinute /\ window.count \in 0..RateLimit
           /\ passed \in [0..MaxMinute -> Nat]
           /\ RateLimit * late \in Nat /\ RateLimit * (late + 1) = RateLimit * late + RateLimit
<1>1. RateLimit \in Nat \ {0} /\ late \in Nat BY PushConstants DEF PushTypeOK
<1>2. RateLimit * late \in Nat /\ RateLimit * (late + 1) = RateLimit * late + RateLimit BY <1>1
<1> QED BY <1>1, <1>2, PushConstants DEF PushTypeOK

LEMMA RateAllow ==
    ASSUME PushTypeOK, RateInv, NEW c \in Working, AllowDataPush(c)
    PROVE  RateInv'
<1> DEFINE m == handler[c].minute
           w == WindowOf(c)
           X == RateLimit * late
           Y == RateLimit * late'
<1>1. m \in 0..MaxMinute
  <2>1. handler[c] \in HandlerStates BY DEF PushTypeOK, Working
  <2> QED BY <2>1 DEF HandlerStates
<1>2. /\ RateLimit \in Nat \ {0} /\ MaxMinute \in Nat /\ late \in Nat
      /\ window.minute \in 0..MaxMinute /\ window.count \in 0..RateLimit
      /\ passed \in [0..MaxMinute -> Nat] /\ X \in Nat
  BY RateTypes
<1>3. late' = IF m < window.minute THEN late + 1 ELSE late BY DEF AllowDataPush
<1>4. Y = IF m < window.minute THEN X + RateLimit ELSE X BY <1>3, RateTypes
<1>5. w.minute = m /\ w.count = IF window.minute = m THEN window.count ELSE 0
  BY DEF WindowOf, NewWindow
<1>6. \/ w.count >= RateLimit /\ window' = w /\ passed' = passed
      \/ /\ window' = [w EXCEPT !.count = @ + 1]
         /\ passed' = [passed EXCEPT ![m] = @ + 1]
  BY DEF AllowDataPush
<1>7. w \in [minute : 0..MaxMinute, count : 0..RateLimit]
  BY <1>1, <1>2 DEF WindowOf, NewWindow, PushTypeOK
<1> HIDE DEF w, m, X, Y
<1>8. \/ w.count >= RateLimit /\ window'.minute = m /\ window'.count = w.count /\ passed' = passed
      \/ /\ window'.minute = m /\ window'.count = w.count + 1
         /\ passed' = [passed EXCEPT ![m] = @ + 1]
  BY <1>5, <1>6, <1>7
<1>9. ASSUME NEW n \in 0..MaxMinute PROVE passed'[n] <= Y + Counted(n)'
  <2>1. passed[n] <= X + Counted(n) /\ passed[n] \in Nat BY <1>2 DEF RateInv, X
  <2>2. passed'[n] = passed[n] \/ (n = m /\ passed'[n] = passed[n] + 1 /\ window'.count = w.count + 1)
    BY <1>1, <1>2, <1>8
  <2>3. Counted(n)' = IF n > m THEN 0 ELSE IF n = m THEN window'.count ELSE RateLimit
    BY <1>8 DEF Counted
  <2>4. Counted(n) = IF n > window.minute THEN 0
                     ELSE IF n = window.minute THEN window.count ELSE RateLimit
    BY DEF Counted
  <2>5. /\ n \in Nat /\ m \in Nat /\ window.minute \in Nat /\ window.count \in Nat
        /\ w.count \in Nat /\ window'.count \in {w.count, w.count + 1}
    BY <1>1, <1>2, <1>5, <1>8
  <2>8. CASE n = m
    <3>1. CASE m < window.minute
      BY <1>2, <1>4, <1>5, <2>1, <2>2, <2>3, <2>4, <2>5, <2>8, <3>1
    <3>2. CASE m = window.minute
      BY <1>2, <1>4, <1>5, <1>8, <2>1, <2>2, <2>3, <2>4, <2>5, <2>8, <3>2
    <3>3. CASE m > window.minute
      BY <1>2, <1>4, <1>5, <1>8, <2>1, <2>2, <2>3, <2>4, <2>5, <2>8, <3>3
    <3> QED BY <2>5, <3>1, <3>2, <3>3
  <2>9. CASE n # m
    <3>1. passed'[n] = passed[n] BY <2>2, <2>9
    <3>2. CASE m < window.minute BY <1>2, <1>4, <2>1, <2>3, <2>4, <2>5, <2>9, <3>1, <3>2
    <3>3. CASE m >= window.minute BY <1>2, <1>4, <2>1, <2>3, <2>4, <2>5, <2>9, <3>1, <3>3
    <3> QED BY <2>5, <3>2, <3>3
  <2> QED BY <2>8, <2>9
<1> QED BY <1>9 DEF RateInv, Y

LEMMA RateStep ==
    ASSUME PushTypeOK, RateInv, [PushNext]_pushVars
    PROVE  RateInv'
<1>1. ASSUME UNCHANGED rate PROVE RateInv' BY <1>1 DEF RateInv, Counted
<1>2. CASE Restart
  <2>1. passed' = [m \in 0..MaxMinute |-> 0] /\ late' = 0 /\ window' = NewWindow(0)
    BY <1>2 DEF Restart
  <2>2. RateLimit * late' = 0 /\ RateLimit \in Nat BY <2>1, RateTypes
  <2> QED BY <2>1, <2>2 DEF RateInv, Counted, NewWindow
<1>3. ASSUME NEW c \in Working, AllowDataPush(c) PROVE RateInv' BY <1>3, RateAllow
<1>4. ASSUME NEW c \in Working,
             CheckAllowed(c) \/ GetDedupeRecord(c) \/ PutDedupeRecord(c) \/ PruneDedupeRecords(c)
               \/ AppendInboxMessage(c) \/ Deliver(c)
      PROVE  UNCHANGED rate
  BY <1>4 DEF CheckAllowed, GetDedupeRecord, PutDedupeRecord, PruneDedupeRecords,
     AppendInboxMessage, Deliver
<1>5. ASSUME NEW k \in Keys, RecordExpires(k) PROVE UNCHANGED rate
  BY <1>5 DEF RecordExpires, memory
<1> QED BY <1>1, <1>2, <1>3, <1>4, <1>5, StepsAtRest

LEMMA RateInit == PushInit => RateInv
<1> SUFFICES ASSUME PushInit PROVE RateInv OBVIOUS
<1>1. RateLimit * late = 0 /\ RateLimit \in Nat BY PushConstants DEF PushInit
<1> QED BY <1>1 DEF PushInit, RateInv, Counted, NewWindow

(* docs/feat/feat_20260206_maep.md 4.3, "rate_limit_data_push_per_peer =   *)
(* 120/min": with any number of handlers at work, no more pushes of one    *)
(* minute pass, since the node started, than the limit, and once more the  *)
(* limit for each that came to a window which was a later minute's.        *)
THEOREM NeverAboveTheRate == PushSpec => []RateLimited
<1>1. PushTypeOK /\ RateInv => RateLimited
  <2> SUFFICES ASSUME PushTypeOK, RateInv, NEW m \in 0..MaxMinute
               PROVE  passed[m] <= RateLimit * (1 + late)
    BY DEF RateLimited
  <2>1. passed[m] <= RateLimit * late + Counted(m) /\ passed[m] \in Nat
    BY RateTypes DEF RateInv
  <2>2. Counted(m) \in 0..RateLimit BY RateTypes DEF Counted
  <2>3. RateLimit * (1 + late) = RateLimit * late + RateLimit BY RateTypes
  <2> QED BY <2>1, <2>2, <2>3, RateTypes
<1>2. PushTypeOK /\ RateInv /\ [PushNext]_pushVars => RateInv' BY RateStep
<1> QED BY PushTypeInit, PushTypeStep, RateInit, <1>1, <1>2, PTL DEF PushSpec
-----------------------------------------------------------------------------
(* The handlers of a key from a look-up that found no record on: there is  *)
(* at most one of a key all earlier pushes of which were seen; it has not  *)
(* recorded the key yet, or has and is about to deliver it for the first   *)
(* time.  A delivered key has its record.                                  *)
Holding(c, k) == handler[c].key = k /\ handler[c].pc \in {"put"} \cup Late

SeenOnce(k) ==
    /\ \A c, d \in Calls : Holding(c, k) /\ Holding(d, k) => c = d
    /\ \A c \in Calls : Holding(c, k) /\ handler[c].pc = "put" => dedupe[k] = 0
    /\ \A c \in Calls : Holding(c, k) /\ handler[c].pc \in Late => dedupe[k] # 0 /\ delivered[k] = 0
    /\ delivered[k] # 0 => dedupe[k] # 0
    /\ delivered[k] <= 1

Clean == Keys \ (forgotten \cup unsure)
Stamped == \A c \in Calls : handler[c].pc \in {"rate", "lookup", "put"} => handler[c].stamp # 0

DeliverInv == Stamped /\ \A k \in Clean : SeenOnce(k)

(* A key whose handlers and record a step leaves alone. *)
LEMMA SeenOfOthers ==
    ASSUME NEW k, SeenOnce(k), dedupe'[k] = dedupe[k], delivered'[k] = delivered[k],
           \A d \in Calls : Holding(d, k)' => handler'[d] = handler[d]
    PROVE  SeenOnce(k)'
BY DEF SeenOnce, Holding

(* A step that leaves the files alone, or only forgets of them.            *)
LEMMA DeliverAtRest ==
    ASSUME PushTypeOK, DeliverInv, AtRest,
           \A k \in Clean' : k \in Clean /\ dedupe'[k] = dedupe[k] /\ delivered'[k] = delivered[k]
    PROVE  DeliverInv'
<1>1. Stamped' BY DEF DeliverInv, Stamped, AtRest, Resting
<1>2. ASSUME NEW k \in Clean' PROVE SeenOnce(k)'
  <2>1. k \in Clean /\ dedupe'[k] = dedupe[k] /\ delivered'[k] = delivered[k] BY <1>2
  <2>2. \A d \in Calls : Holding(d, k)' => handler'[d] = handler[d]
    BY DEF Holding, AtRest, Resting, Late
  <2> QED BY <2>1, <2>2, SeenOfOthers DEF DeliverInv
<1> QED BY <1>1, <1>2 DEF DeliverInv

(* A step of the handler of one key that changes no other key's files.     *)
LEMMA DeliverOfKey ==
    ASSUME PushTypeOK, DeliverInv, NEW c \in Calls, NEW j, j = handler[c].key,
           \A d \in Calls : d # c => handler'[d] = handler[d],
           handler'[c].key = j,
           handler'[c].pc \in {"rate", "lookup", "put"} => handler'[c].stamp # 0,
           \A k \in Clean' : /\ k \in Clean
                             /\ k # j => dedupe'[k] = dedupe[k] /\ delivered'[k] = delivered[k],
           j \in Clean' => SeenOnce(j)'
    PROVE  DeliverInv'
<1>1. Stamped' BY DEF DeliverInv, Stamped
<1>2. ASSUME NEW k \in Clean', k # j PROVE SeenOnce(k)'
  <2>1. \A d \in Calls : Holding(d, k)' => handler'[d] = handler[d] BY <1>2 DEF Holding
  <2> QED BY <1>2, <2>1, SeenOfOthers DEF DeliverInv
<1> QED BY <1>1, <1>2 DEF DeliverInv

LEMMA DeliverStep ==
    ASSUME PushTypeOK, DeliverInv, [PushNext]_pushVars
    PROVE  DeliverInv'
<1> USE DEF memory, files
<1>0. \A c \in Working : c \in Calls /\ handler[c].key \in Keys /\ handler[c] \in HandlerStates
  BY DEF Working, PushTypeOK
<1>a. dedupe \in [Keys -> Nat] /\ delivered \in [Keys -> Nat] BY DEF PushTypeOK
<1>b. ASSUME AtRest, UNCHANGED files PROVE DeliverInv' BY <1>b, DeliverAtRest DEF Clean
<1>1. CASE AtRest /\ UNCHANGED files BY <1>1, <1>b
<1>2. CASE Restart
  <2>1. AtRest /\ UNCHANGED files BY <1>2 DEF Restart, AtRest, Resting, NoHandler
  <2> QED BY <2>1, <1>b
<1>3. ASSUME NEW k \in Keys, RecordExpires(k) PROVE DeliverInv'
  <2>1. /\ UNCHANGED <<handler, delivered, unsure>> /\ forgotten' = forgotten \cup {k}
        /\ dedupe' = [dedupe EXCEPT ![k] = 0]
    BY <1>3 DEF RecordExpires
  <2>2. \A j \in Clean' : j \in Clean /\ dedupe'[j] = dedupe[j] BY <1>a, <2>1 DEF Clean
  <2> QED BY <2>1, <2>2, DeliverAtRest DEF AtRest
<1>c. ASSUME NEW c \in Working, NEW r \in Results, Answers(c, r) PROVE AtRest
  BY <1>0, <1>c, AnswersFacts DEF AtRest, Resting
<1>d. ASSUME NEW c \in Working, NEW pc \in HandlerPlaces, Moves(c, pc)
      PROVE  /\ handler'[c].pc = pc /\ handler'[c].key = handler[c].key
             /\ handler'[c].stamp = handler[c].stamp
             /\ \A d \in Calls : d # c => handler'[d] = handler[d]
  <2>1. /\ handler'[c].pc = pc /\ handler'[c].key = handler[c].key
        /\ handler'[c] = [handler[c] EXCEPT !.pc = pc]
        /\ \A d \in Calls : d # c => handler'[d] = handler[d]
    BY <1>0, <1>d, MovesFacts
  <2>2. handler'[c].stamp = handler[c].stamp BY <1>0, <2>1 DEF HandlerStates
  <2> QED BY <2>1, <2>2
<1>4. ASSUME NEW c \in Working, CheckAllowed(c) PROVE DeliverInv'
  <2>1. c \in Calls /\ UNCHANGED files BY <1>4 DEF CheckAllowed, Working
  <2>2. CASE Answers(c, "unauthorized") BY <1>b, <1>c, <2>1, <2>2 DEF Results
  <2>3. CASE handler' = [handler EXCEPT ![c].pc = "rate", ![c].minute = minute, ![c].stamp = stamps + 1]
    <3> DEFINE s == [handler[c] EXCEPT !.pc = "rate", !.minute = minute, !.stamp = stamps + 1]
    <3>1. s.pc = "rate" /\ s.key = handler[c].key /\ s.stamp = stamps + 1
      BY <1>0 DEF HandlerStates
    <3>2. handler' = [handler EXCEPT ![c] = s] BY <2>3
    <3>3. stamps + 1 # 0 BY DEF PushTypeOK
    <3> HIDE DEF s
    <3>4. handler'[c] = s /\ \A d \in Calls : d # c => handler'[d] = handler[d]
      BY <2>1, <3>2 DEF PushTypeOK
    <3>5. Clean' = Clean BY <2>1 DEF Clean
    <3>6. ASSUME NEW k \in Clean PROVE SeenOnce(k)'
      <4>1. \A d \in Calls : Holding(d, k)' => handler'[d] = handler[d]
        BY <3>1, <3>4 DEF Holding, Late
      <4> QED BY <2>1, <4>1, SeenOfOthers DEF DeliverInv
    <3>7. handler'[c].key = handler[c].key /\ handler'[c].stamp # 0 BY <3>1, <3>3, <3>4
    <3> QED BY <2>1, <3>4, <3>5, <3>6, <3>7, DeliverOfKey DEF Stamped
  <2> QED BY <1>4, <2>2, <2>3 DEF CheckAllowed
<1>5. ASSUME NEW c \in Working, AllowDataPush(c) PROVE DeliverInv'
  <2>1. handler[c].pc = "rate" /\ UNCHANGED files BY <1>5 DEF AllowDataPush, At
  <2>2. CASE Moves(c, "lookup")
    <3>1. /\ handler'[c].pc = "lookup" /\ handler'[c].key = handler[c].key
          /\ handler'[c].stamp = handler[c].stamp
          /\ \A d \in Calls : d # c => handler'[d] = handler[d]
      BY <1>d, <2>2 DEF HandlerPlaces
    <3>2. Clean' = Clean BY <2>1 DEF Clean
    <3>3. ASSUME NEW k \in Clean PROVE SeenOnce(k)'
      <4>1. \A d \in Calls : Holding(d, k)' => handler'[d] = handler[d]
        BY <3>1 DEF Holding, Late
      <4> QED BY <2>1, <4>1, SeenOfOthers DEF DeliverInv
    <3>4. handler'[c].stamp # 0 BY <1>0, <2>1, <3>1 DEF DeliverInv, Stamped
    <3> QED BY <1>0, <2>1, <3>1, <3>2, <3>3, <3>4, DeliverOfKey
  <2>3. CASE Answers(c, "rate_limited") BY <1>b, <1>c, <2>1, <2>3 DEF Results
  <2> QED BY <1>5, <2>2, <2>3 DEF AllowDataPush
<1>6. ASSUME NEW c \in Working, GetDedupeRecord(c) PROVE DeliverInv'
  <2>0. PICK k \in Keys : k = handler[c].key BY <1>0
  <2>1. /\ handler[c].pc = "lookup" /\ UNCHANGED <<dedupe, forgotten, delivered>>
        /\ \/ Answers(c, "deduped") /\ UNCHANGED unsure
           \/ /\ Moves(c, "put")
              /\ unsure' = IF dedupe[k] # 0 \/ BeingRecorded(k) THEN unsure \cup {k} ELSE unsure
    BY <1>6, <2>0 DEF GetDedupeRecord, At
  <2>2. CASE Answers(c, "deduped") /\ UNCHANGED unsure
    <3>1. AtRest BY <1>c, <2>2 DEF Results
    <3> QED BY <2>0, <2>1, <2>2, <3>1, DeliverAtRest DEF Clean
  <2>3. CASE /\ Moves(c, "put")
             /\ unsure' = IF dedupe[k] # 0 \/ BeingRecorded(k) THEN unsure \cup {k} ELSE unsure
    <3>1. /\ handler'[c].pc = "put" /\ handler'[c].key = k
          /\ handler'[c].stamp = handler[c].stamp
          /\ \A d \in Calls : d # c => handler'[d] = handler[d]
      BY <1>d, <2>0, <2>3 DEF HandlerPlaces
    <3>2. handler'[c].stamp # 0 BY <2>0, <1>0, <2>1, <3>1 DEF DeliverInv, Stamped
    <3>3. Clean' \subseteq Clean /\ (k \in Clean' => dedupe[k] = 0 /\ ~BeingRecorded(k))
      BY <2>0, <2>1, <2>3 DEF Clean
    <3>4. ASSUME k \in Clean' PROVE SeenOnce(k)'
      <4>1. SeenOnce(k) /\ dedupe[k] = 0 /\ ~BeingRecorded(k) BY <3>3, <3>4 DEF DeliverInv
      <4>2. \A d \in Calls : ~Holding(d, k)
        BY <4>1 DEF SeenOnce, Holding, BeingRecorded, At
      <4>3. \A d \in Calls : Holding(d, k)' => d = c BY <3>1, <4>2 DEF Holding
      <4> QED BY <2>0, <2>1, <3>1, <4>1, <4>3 DEF SeenOnce, Late
    <3> QED BY <2>0, <1>0, <2>1, <3>1, <3>2, <3>3, <3>4, DeliverOfKey
  <2> QED BY <2>0, <2>1, <2>2, <2>3
<1>7. ASSUME NEW c \in Working, PutDedupeRecord(c) PROVE DeliverInv'
  <2>0. PICK k \in Keys : k = handler[c].key BY <1>0
  <2>1. /\ handler[c].pc = "put" /\ Moves(c, "prune") /\ UNCHANGED <<forgotten, delivered>>
        /\ \/ dedupe' = [dedupe EXCEPT ![k] = handler[c].stamp] /\ UNCHANGED unsure
           \/ UNCHANGED dedupe /\ unsure' = unsure \cup {k}
    BY <1>7, <2>0 DEF PutDedupeRecord, At
  <2>2. /\ handler'[c].pc = "prune" /\ handler'[c].key = k
        /\ \A d \in Calls : d # c => handler'[d] = handler[d]
    BY <2>0, <1>d, <2>1 DEF HandlerPlaces
  <2>3. handler[c].stamp # 0 /\ k \in Keys /\ c \in Calls BY <2>0, <1>0, <2>1 DEF DeliverInv, Stamped
  <2>4. /\ Clean' \subseteq Clean /\ \A j \in Keys : j # k => dedupe'[j] = dedupe[j]
        /\ k \in Clean' => dedupe'[k] # 0
    BY <2>0, <1>a, <2>1, <2>3 DEF Clean
  <2>5. ASSUME k \in Clean' PROVE SeenOnce(k)'
    <3>1. SeenOnce(k) /\ dedupe'[k] # 0 BY <2>4, <2>5 DEF DeliverInv
    <3>2. Holding(c, k) BY <2>0, <2>1 DEF Holding
    <3>3. \A d \in Calls : Holding(d, k)' => d = c BY <2>0, <2>2, <2>3, <3>1, <3>2 DEF SeenOnce, Holding
    <3>4. dedupe[k] = 0 /\ delivered'[k] = 0 BY <2>0, <2>1, <2>3, <3>1, <3>2 DEF SeenOnce
    <3> QED BY <2>2, <3>1, <3>3, <3>4 DEF SeenOnce, Late
  <2> QED BY <2>0, <2>1, <2>2, <2>3, <2>4, <2>5, DeliverOfKey DEF Clean
<1>8. ASSUME NEW c \in Working,
             \/ PruneDedupeRecords(c) /\ UNCHANGED unsure
             \/ AppendInboxMessage(c)
      PROVE  DeliverInv'
  <2>0. PICK k \in Keys : k = handler[c].key BY <1>0
  <2>1. /\ handler[c].pc \in Late /\ UNCHANGED delivered
        /\ \E pc \in {"append", "deliver"} : Moves(c, pc)
    BY <1>8 DEF PruneDedupeRecords, AppendInboxMessage, At, Late
  <2>2. \A j \in Clean' : j \in Clean /\ dedupe'[j] = dedupe[j]
    BY <1>8 DEF PruneDedupeRecords, AppendInboxMessage, Kept, Clean
  <2>3. /\ handler'[c].pc \in {"append", "deliver"} /\ handler'[c].key = k
        /\ \A d \in Calls : d # c => handler'[d] = handler[d]
    BY <2>0, <1>d, <2>1 DEF HandlerPlaces
  <2>4. ASSUME k \in Clean' PROVE SeenOnce(k)'
    <3>1. SeenOnce(k) /\ dedupe'[k] = dedupe[k] BY <2>2, <2>4 DEF DeliverInv
    <3>2. Holding(c, k) /\ c \in Calls BY <2>0, <1>0, <2>1 DEF Holding
    <3>3. \A d \in Calls : Holding(d, k)' => Holding(d, k) BY <2>0, <2>3, <3>2 DEF Holding
    <3>4. \A d \in Calls : Holding(d, k)' => d = c BY <3>1, <3>2, <3>3 DEF SeenOnce
    <3>5. dedupe'[k] # 0 /\ delivered'[k] = 0 BY <2>0, <2>1, <3>1, <3>2 DEF SeenOnce
    <3> QED BY <2>3, <3>4, <3>5 DEF SeenOnce, Late
  <2> QED BY <2>0, <1>0, <2>1, <2>2, <2>3, <2>4, DeliverOfKey
<1>9. ASSUME NEW c \in Working, Deliver(c) PROVE DeliverInv'
  <2>0. PICK k \in Keys : k = handler[c].key BY <1>0
  <2>1. /\ handler[c].pc \in Late /\ UNCHANGED <<dedupe, forgotten, unsure>>
        /\ Answers(c, "accepted") /\ delivered' = [delivered EXCEPT ![k] = @ + 1]
    BY <1>9, <2>0 DEF Deliver, At, Late
  <2>2. k \in Keys /\ c \in Calls /\ "accepted" \in Results BY <1>0 DEF Results
  <2>3. AtRest /\ handler'[c].pc \in {"idle", "reply"} /\ Clean' = Clean
    BY <2>0, <1>c, <2>1, <2>2, AnswersFacts DEF Clean
  <2>4. ASSUME k \in Clean PROVE SeenOnce(k)'
    <3>1. SeenOnce(k) /\ Holding(c, k) BY <2>0, <2>1, <2>4 DEF DeliverInv, Holding
    <3>2. dedupe[k] # 0 /\ delivered[k] = 0 BY <2>0, <2>1, <2>2, <3>1 DEF SeenOnce
    <3>3. delivered'[k] = 1 BY <2>0, <1>a, <2>1, <2>2, <3>2
    <3>4. \A d \in Calls : ~Holding(d, k)'
      <4>1. ASSUME NEW d \in Calls, d # c PROVE ~Holding(d, k)'
        <5>1. ~Holding(d, k) BY <2>2, <3>1, <4>1 DEF SeenOnce
        <5> QED BY <2>3, <5>1 DEF Holding, AtRest, Resting, Late
      <4> QED BY <2>3, <4>1 DEF Holding, Late
    <3> QED BY <2>0, <2>1, <3>2, <3>3, <3>4 DEF SeenOnce
  <2>5. ASSUME NEW j \in Clean, j # k PROVE SeenOnce(j)'
    <3>1. delivered'[j] = delivered[j] /\ dedupe'[j] = dedupe[j] BY <2>0, <1>a, <2>1, <2>5 DEF Clean
    <3>2. \A d \in Calls : Holding(d, j)' => handler'[d] = handler[d]
      BY <2>3 DEF Holding, AtRest, Resting, Late
    <3> QED BY <3>1, <3>2, SeenOfOthers DEF DeliverInv
  <2>6. Stamped' BY <2>3 DEF DeliverInv, Stamped, AtRest, Resting
  <2> QED BY <2>3, <2>4, <2>5, <2>6 DEF DeliverInv
<1>10. ASSUME NEW c \in Working, PruneDedupeRecords(c) PROVE UNCHANGED unsure
  BY <1>10 DEF PruneDedupeRecords
<1> QED BY <1>1, <1>2, <1>3, <1>4, <1>5, <1>6, <1>7, <1>8, <1>9, <1>10, StepsAtRest

LEMMA DeliverInit == PushInit => DeliverInv
<1> SUFFICES ASSUME PushInit PROVE DeliverInv OBVIOUS
<1>1. \A c \in Calls : handler[c].pc = "idle" BY DEF PushInit, NoHandler
<1>2. \A k \in Keys : delivered[k] = 0 BY DEF PushInit
<1> QED BY <1>1, <1>2 DEF DeliverInv, Stamped, Clean, SeenOnce, Holding, Late

(* docs/feat/feat_20260206_maep.md 8, "do not process again": with any     *)
(* number of handlers at work, whatever access to the files fails and      *)
(* however often the server restarts, a key is delivered once unless its   *)
(* record was dropped, or a look-up could not see the earlier push: the    *)
(* file failed, or its handler was between its own look-up and its record. *)
THEOREM NeverDeliveredTwice == PushSpec => []DeliveredOnce
<1>1. DeliverInv => DeliveredOnce BY DEF DeliverInv, Clean, SeenOnce, DeliveredOnce
<1>2. PushTypeOK /\ DeliverInv /\ [PushNext]_pushVars => DeliverInv' BY DeliverStep
<1> QED BY PushTypeInit, PushTypeStep, DeliverInit, <1>1, <1>2, PTL DEF PushSpec
=============================================================================
