---------------------------- MODULE MaepContacts ----------------------------
(***************************************************************************)
(* The contact list of a MAEP node (maep/service.go, maep/file_store.go):  *)
(* processes (`mistermorph maep contacts import` and `verify`) import      *)
(* contact cards and verify contacts.  They read the file, decide, and     *)
(* write one contact back; each access of the file is locked, the whole    *)
(* operation is not.  A contact is its node_uuid and its trust state.      *)
(***************************************************************************)
EXTENDS Naturals, FiniteSets

CONSTANTS
    Peers,      \* peer ids
    UUIDs,      \* node uuids
    NoContact,
    Procs,      \* processes at work on the list
    Stops,      \* bound: an operation may fail or be killed half way
    Revokes     \* bound: the file may be edited to revoke a contact

VARIABLES
    contacts,    \* the contact of each peer id in the file
    audit,       \* the trust state the last audit event of a peer tells
    op,          \* the operation of each process
    \* history, which no action depends on:
    verifiedAs,  \* the node uuids a user verified a peer under
    raced,       \* uuids looked up while a write of them for another peer was due
    overtaken    \* processes about to write a contact written since they read it

history == <<verifiedAs, raced, overtaken>>
contactVars == <<contacts, audit, op, history>>

TrustStates == {"tofu", "verified", "conflicted", "revoked"}
Contact == [uuid : UUIDs, trust : TrustStates]

ASSUME ContactConstants ==
    NoContact \notin Peers \cup UUIDs \cup Contact /\ {Stops, Revokes} \subseteq BOOLEAN

Blocked(c) == c # NoContact /\ c.trust \in {"conflicted", "revoked"}

(* peer and uuid are those of the card; target and contact what is written. *)
NoOp == [pc |-> "idle", peer |-> NoContact, uuid |-> NoContact,
         target |-> NoContact, contact |-> NoContact]

ContactsInit ==
    /\ contacts = [p \in Peers |-> NoContact]
    /\ audit = [p \in Peers |-> "none"]
    /\ op = [q \in Procs |-> NoOp]
    /\ verifiedAs = [p \in Peers |-> {}]
    /\ raced = {} /\ overtaken = {}

-----------------------------------------------------------------------------
(* A process is started for one operation. *)
Starts(q) == op[q].pc = "idle" /\ UNCHANGED <<contacts, audit, history>>

StartImport(q) ==
    /\ Starts(q)
    /\ \E p \in Peers, u \in UUIDs :
          op' = [op EXCEPT ![q] = [NoOp EXCEPT !.pc = "uuid", !.peer = p, !.uuid = u]]

StartVerify(q) ==
    /\ Starts(q)
    /\ \E p \in Peers : op' = [op EXCEPT ![q] = [NoOp EXCEPT !.pc = "verify", !.peer = p]]

Writes(q, p, c) ==
    op' = [op EXCEPT ![q].pc = "put", ![q].target = p, ![q].contact = c]

(* Variant: a conflict is not preserved.                                 *)
PreservedUnlessConflicted(c) == IF c.trust \in {"verified", "revoked"} THEN c.trust ELSE "tofu"

(* preserveTrustState: a new card does not change what is known of a peer. *)
Preserved(c) == IF c.trust \in {"verified", "conflicted", "revoked"} THEN c.trust ELSE "tofu"

(* Variant: the uuid is not looked up among the contacts.                *)
LookUpUUIDOfPeer(q) ==
    /\ op[q].pc = "uuid" /\ op' = [op EXCEPT ![q].pc = "peer"]
    /\ UNCHANGED <<contacts, audit, history>>

(* An operation that may still write uuid u into the contact of peer p.    *)
MayWrite(o, p, u) ==
    \/ o.pc = "peer" /\ o.peer = p /\ o.uuid = u
    \/ o.pc = "put" /\ o.target = p /\ o.contact.uuid = u

RacedWith(q) == \E r \in Procs, p \in Peers \ {op[q].peer} : MayWrite(op[r], p, op[q].uuid)

(* The card's uuid belongs to another peer: that contact is in conflict.   *)
LookUpUUID(q) ==
    /\ op[q].pc = "uuid"
    /\ LET holders == {p \in Peers : contacts[p] # NoContact /\ contacts[p].uuid = op[q].uuid} IN
       \/ \E p \in holders \ {op[q].peer} :
             Writes(q, p, [contacts[p] EXCEPT !.trust = "conflicted"]) /\ UNCHANGED raced
       \/ /\ holders = {} \/ op[q].peer \in holders
          /\ op' = [op EXCEPT ![q].pc = "peer"]
          /\ raced' = IF RacedWith(q) THEN raced \cup {op[q].uuid} ELSE raced
    /\ UNCHANGED <<contacts, audit, verifiedAs, overtaken>>

(* Variant: the uuid of a known peer is replaced.                        *)
LookUpPeerOnly(q) ==
    /\ op[q].pc = "peer"
    /\ LET known == contacts[op[q].peer] IN
       \/ /\ known = NoContact
          /\ Writes(q, op[q].peer, [uuid |-> op[q].uuid, trust |-> "tofu"])
       \/ /\ known # NoContact
          /\ Writes(q, op[q].peer, [uuid |-> op[q].uuid, trust |-> Preserved(known)])
    /\ UNCHANGED <<contacts, audit, history>>

(* The peer is known: under another uuid it is in conflict, under this one *)
(* it is updated; or it is new.                                            *)
LookUpPeer(q) ==
    /\ op[q].pc = "peer"
    /\ LET known == contacts[op[q].peer] IN
       \/ /\ known = NoContact
          /\ Writes(q, op[q].peer, [uuid |-> op[q].uuid, trust |-> "tofu"])
       \/ /\ known # NoContact /\ known.uuid # op[q].uuid
          /\ Writes(q, op[q].peer, [known EXCEPT !.trust = "conflicted"])
       \/ /\ known # NoContact /\ known.uuid = op[q].uuid
          /\ Writes(q, op[q].peer, [uuid |-> op[q].uuid, trust |-> Preserved(known)])
    /\ UNCHANGED <<contacts, audit, history>>

(* MarkContactVerified: an unknown or a blocked contact is refused.        *)
ReadForVerify(q) ==
    /\ op[q].pc = "verify"
    /\ LET known == contacts[op[q].peer] IN
       IF known = NoContact \/ Blocked(known)
       THEN op' = [op EXCEPT ![q] = NoOp] /\ UNCHANGED verifiedAs
       ELSE /\ Writes(q, op[q].peer, [known EXCEPT !.trust = "verified"])
            /\ verifiedAs' = [verifiedAs EXCEPT ![op[q].peer] = @ \cup {known.uuid}]
    /\ UNCHANGED <<contacts, audit, raced, overtaken>>

PutContact(q) ==
    /\ op[q].pc = "put"
    /\ contacts' = [contacts EXCEPT ![op[q].target] = op[q].contact]
    /\ op' = [op EXCEPT ![q].pc = "audit"]
    /\ overtaken' = (overtaken \ {q}) \cup
          {r \in Procs \ {q} : op[r].pc = "put" /\ op[r].target = op[q].target}
    /\ UNCHANGED <<audit, verifiedAs, raced>>

AppendAuditEvent(q) ==
    /\ op[q].pc = "audit"
    /\ audit' = [audit EXCEPT ![op[q].target] = op[q].contact.trust]
    /\ op' = [op EXCEPT ![q] = NoOp]
    /\ UNCHANGED <<contacts, history>>

(* An access fails and the operation returns, or the process is killed.    *)
Stop(q) ==
    /\ Stops /\ op[q].pc # "idle"
    /\ op' = [op EXCEPT ![q] = NoOp]
    /\ overtaken' = overtaken \ {q}
    /\ UNCHANGED <<contacts, audit, verifiedAs, raced>>

(* No operation revokes a contact, all respect one that is revoked.        *)
Revoke(p) ==
    /\ Revokes /\ contacts[p] # NoContact /\ \A q \in Procs : op[q].pc = "idle"
    /\ contacts' = [contacts EXCEPT ![p].trust = "revoked"]
    /\ audit' = [audit EXCEPT ![p] = "revoked"]
    /\ UNCHANGED <<op, history>>

ContactsNext ==
    \/ \E q \in Procs :
          \/ StartImport(q) \/ LookUpUUID(q) \/ LookUpPeer(q)
          \/ StartVerify(q) \/ ReadForVerify(q)
          \/ PutContact(q) \/ AppendAuditEvent(q) \/ Stop(q)
    \/ \E p \in Peers : Revoke(p)

ContactsSpec == ContactsInit /\ [][ContactsNext]_contactVars

-----------------------------------------------------------------------------
(* A contact is a uuid and a trust state, and an operation at work on the  *)
(* list holds what it was given and what it is about to write.             *)
Ops == [pc : {"idle", "uuid", "peer", "verify", "put", "audit"},
        peer : Peers \cup {NoContact}, uuid : UUIDs \cup {NoContact},
        target : Peers \cup {NoContact}, contact : Contact \cup {NoContact}]

Given(o) ==
    /\ o.pc \in {"uuid", "peer"} => o.peer # NoContact /\ o.uuid # NoContact
    /\ o.pc = "verify" => o.peer # NoContact
    /\ o.pc \in {"put", "audit"} => o.target # NoContact /\ o.contact # NoContact

ContactsTypeOK ==
    /\ contacts \in [Peers -> Contact \cup {NoContact}]
    /\ audit \in [Peers -> TrustStates \cup {"none"}]
    /\ verifiedAs \in [Peers -> SUBSET UUIDs] /\ raced \subseteq UUIDs /\ overtaken \subseteq Procs
    /\ op \in [Procs -> Ops]
    /\ \A q \in Procs : Given(op[q])

(* docs/feat/feat_20260206_maep.md 5.3, "forbid automatic overwrite": no    *)
(* two contacts have one node uuid, however many imports and verifications *)
(* are at work at one time and wherever they stop.  One race is excepted,  *)
(* uuid by uuid: an import found no other holder of it while another       *)
(* operation had still to write it into the contact of another peer.       *)
Holds(p, u) == contacts[p] # NoContact /\ contacts[p].uuid = u
OnePeerPerUUID ==
    \A u \in UUIDs \ raced : \A p, r \in Peers : Holds(p, u) /\ Holds(r, u) => p = r

(* "revoked and conflicted must block business communication" (9.2), and   *)
(* nothing takes a contact out of them: a blocked contact stays blocked,   *)
(* unless an operation writes a copy back that was read before another     *)
(* operation wrote the contact.                                            *)
WritesOldCopy(p) == \E q \in overtaken : op[q].pc = "put" /\ op[q].target = p /\ op'[q] # op[q]
BlockedStays ==
    [][\A p \in Peers :
         Blocked(contacts[p]) => Blocked(contacts'[p]) \/ WritesOldCopy(p)]_contactVars

(* "tofu is not verified" (9.2): a contact counts as verified only under   *)
(* the very node uuid a user verified it under.                            *)
VerifiedWasVerified ==
    \A p \in Peers :
        (contacts[p] # NoContact /\ contacts[p].trust = "verified") =>
            contacts[p].uuid \in verifiedAs[p]

=============================================================================
