---------------------------- MODULE ContactsProofs ----------------------------
(***************************************************************************)
(* For any contacts, actors, limits and days: what the calls of the        *)
(* contacts book leave in its two files, however they interleave, fail or  *)
(* are killed.                                                             *)
(***************************************************************************)
EXTENDS Contacts, FiniteSetTheorems, TLAPS

-----------------------------------------------------------------------------
(* Calls.                                                                  *)

Kept == {"active", "inactive"}
Recs == {r \in [cool : Days, shares : Nat, on : Kept \cup {"absent"}] :
           r.on = "absent" => r = NoOne}
Calls == [op : Ops \cup {"none", "write"},
          pc : {"idle", "get", "more", "list", "act", "session", "put", "save"},
          who : Nat, at : 0 .. Horizon, stage : Stages, copy : [People -> Recs],
          todo : SUBSET People, level : 0 .. 100, stale : SUBSET People]

(* What the place a call has reached says of it.                           *)
Single == Feedback \cup Creating \cup {"status", "send", "refresh"}
Reached(d) ==
    /\ d.pc = "idle" => d = Idle
    /\ d.pc \in {"get", "more"} =>
         d.op \in Single /\ d.who \in People /\ d.stage = "single"
    /\ d.pc = "list" => d.op \in Ticks /\ d.stage = "single"
    /\ d.pc = "act" =>
         \/ d.op \in Ticks /\ d.stage # "single"
         \/ /\ d.op \in Single /\ d.who \in People /\ d.stage = "single"
            /\ d.op \in Creating \/ d.copy[d.who] # NoOne
    /\ d.pc = "session" =>
         d.op = "write" /\ d.who \in People /\ d.stage = "single" /\ d.copy[d.who] # NoOne
    /\ d.pc \in {"put", "save"} =>
         /\ d.who \in People /\ d.copy[d.who] # NoOne
         /\ \/ d.op = "write" /\ d.stage = "single"
            \/ d.op \in Ticks /\ d.stage # "single" /\ d.who \notin d.todo
    /\ d.pc = "get" => d.stale = {}
    /\ d.pc = "list" => d.stale = {}
    /\ d.op \in Ticks => \A c \in d.todo : d.copy[c] # NoOne
    /\ d.op \in Ticks /\ d.stage = "sends" => \A c \in d.todo : d.copy[c].cool <= d.at

Typed ==
    /\ {active, inactive} \subseteq [People -> Recs]
    /\ sessions \in [People -> 0 .. 100]
    /\ candidate \in 0 .. Horizon /\ today \in 0 .. Horizon /\ calls \in 0 .. MaxCalls
    /\ lock \in Actors \cup {Nobody}
    /\ do \in [Actors -> Calls]
    /\ {sent, quiet} \subseteq [People -> Nat]
    /\ {excused, torn} \subseteq SUBSET People
    /\ torn \subseteq excused
    /\ \A a \in Actors : do[a].at <= today /\ Reached(do[a])

(* The lock is that of the call between its two saves.                     *)
Locked == \A a \in Actors : do[a].pc = "save" <=> lock = a

(* What the files hold of a contact: the right records, one, except where  *)
(* a put is half done or was cut.                                          *)
HalfPut(c) == lock # Nobody /\ do[lock].who = c
Filed ==
    \A c \in People :
      /\ active[c].on # "inactive" /\ inactive[c].on # "active"
      /\ c \in torn \/ HalfPut(c) \/ active[c] = NoOne \/ inactive[c] = NoOne
      /\ HalfPut(c) => active[c] = In("active", do[lock].copy[c])

(* A call whose place is in W has a change of c to make; a call may come to *)
(* change c after what it has read of it.                                  *)
Changes(d, c, W) == d.who = c /\ d.pc \in W
Holds(d, c) ==
    /\ d.pc \in {"act", "session", "put", "save"} /\ c \notin d.stale
    /\ \/ d.op \notin Ticks /\ d.who = c
       \/ d.op \in Ticks /\ d.copy[c] # NoOne
Missed(d, c) == d.pc = "more" /\ d.who = c /\ c \notin d.stale

(* With R the records of c that are right: nobody changes c and what is    *)
(* filed and held of it is right, or a call with the right record does, or *)
(* two calls do, or one does whose copy is stale.                          *)
Filing(act, ina, c) == IF act[c] # NoOne THEN act[c] ELSE ina[c]
Settled(D, act, ina, c, W, R) ==
    \/ \E b \in Actors : Changes(D[b], c, W) /\ c \in D[b].stale /\ D[b].pc # "save"
    \/ \E b, e \in Actors : b # e /\ Changes(D[b], c, W) /\ Changes(D[e], c, W)
    \/ \E b \in Actors : Changes(D[b], c, W) /\ D[b].copy[c] \in R
    \/ /\ \A b \in Actors : ~Changes(D[b], c, W)
       /\ Filing(act, ina, c) \in R
       /\ \A b \in Actors : Holds(D[b], c) => D[b].copy[c] \in R
       /\ \A b \in Actors : Missed(D[b], c) => act[c] = NoOne

(* The right records: those that count the messages that went out, and     *)
(* those that keep the contact alone for as long as it was set aside.      *)
Counting(c) == {r \in Recs : r.shares = sent[c]}
Warning(c) == {r \in Recs : r.cool >= quiet[c]}
Putting == {"put", "save"}
Changing == {"session", "put", "save"}
Counted == \A c \in People \ excused : Settled(do, active, inactive, c, Putting, Counting(c))
Warned == \A c \in People \ excused : Settled(do, active, inactive, c, Changing, Warning(c))

(* The contacts that a tick at its last stage will move away, and what is  *)
(* left when it has.                                                       *)
Going(d) == {c \in People : /\ c \in d.todo \/ (d.pc = "put" /\ d.who = c)
                            /\ d.copy[c].on = "inactive"}
Rebalanced(d, act) ==
    d.op \in Ticks /\ d.stage = "keeps" /\ d.stale = {} =>
      /\ d.todo \subseteq Known(act)
      /\ d.pc = "put" => d.who \in Known(act)
      /\ Cardinality(Known(act) \ Going(d)) <= MaxActive
Bounded == \A a \in Actors : Rebalanced(do[a], active)

(* A call that may still send to c, once.                                  *)
MaySend(d, c) ==
    \/ d.op = "send" /\ d.who = c
    \/ d.op \in Ticks /\ (d.stage \notin {"sends", "keeps"} \/ (d.stage = "sends" /\ c \in d.todo))
Senders(D, c) == {a \in Actors : MaySend(D[a], c)}
Few ==
    \A c \in People :
      /\ active[c].shares <= sent[c] /\ inactive[c].shares <= sent[c]
      /\ \A a \in Actors : do[a].copy[c].shares <= sent[c]
      /\ sent[c] + Cardinality(Senders(do, c)) <= calls

IInv == Typed /\ Locked /\ Filed /\ Counted /\ Warned /\ Bounded /\ Few
-----------------------------------------------------------------------------
(* Numbers and records.                                                    *)

LEMMA MaxOfTwo ==
    ASSUME NEW m \in Nat, NEW n \in Nat
    PROVE  Max({m, n}) \in Nat /\ Max({m, n}) >= m /\ Max({m, n}) >= n
<1>1. \E x \in {m, n} : \A y \in {m, n} : x >= y OBVIOUS
<1>2. Max({m, n}) \in {m, n} /\ \A y \in {m, n} : Max({m, n}) >= y
  BY <1>1 DEF Max
<1> QED BY <1>2

LEMMA MinOfTwo ==
    ASSUME NEW m \in Nat, NEW n \in Nat
    PROVE  Min({m, n}) \in {m, n} /\ Min({m, n}) <= m /\ Min({m, n}) <= n
<1>1. \E x \in {m, n} : \A y \in {m, n} : x <= y OBVIOUS
<1> QED BY <1>1 DEF Min

LEMMA DaysFacts ==
    /\ 0 .. Horizon \subseteq Days
    /\ \A n \in 0 .. Horizon : {n + FailureDays, n + 1, n + 2, n + 3} \subseteq Days
    /\ Days \subseteq Nat
<1>1. FailureDays \in Nat /\ Horizon \in Nat BY ContactsAssumption
<1>2. Max({FailureDays, 3}) \in Nat /\ Max({FailureDays, 3}) >= FailureDays /\ Max({FailureDays, 3}) >= 3
  BY <1>1, MaxOfTwo
<1> QED BY <1>1, <1>2 DEF Days

LEMMA ConstantFacts ==
    /\ People \subseteq Nat /\ IsFiniteSet(People)
    /\ IsFiniteSet(Actors) /\ Nobody \notin Actors
    /\ MaxActive \in Nat /\ MaxActive >= 1 /\ MaxTargets \in Nat /\ MaxTargets >= 1
    /\ FailureDays \in Nat /\ FreshDays \in Nat /\ Horizon \in Nat /\ MaxCalls \in Nat
    /\ Interests \subseteq 0 .. 100
BY ContactsAssumption DEF Nobody

(* Records, and what the code makes of one.                                *)
LEMMA RecFacts ==
    /\ NoOne \in Recs /\ NoOne.shares = 0 /\ NoOne.cool = 0 /\ NoOne.on = "absent"
    /\ \A on \in Kept : /\ Contact(on) \in Recs /\ Contact(on) # NoOne /\ Contact(on).on = on
                        /\ Contact(on).shares = 0 /\ Contact(on).cool = 0
    /\ \A r \in Recs : /\ r.cool \in Days /\ r.shares \in Nat /\ r.on \in Kept \cup {"absent"}
                       /\ r # NoOne => r.on \in Kept
                       /\ {In("active", r), In("inactive", r)} \subseteq Recs
    /\ \A r \in Recs, on \in Kept :
         /\ [r EXCEPT !.on = on] \in Recs /\ [r EXCEPT !.on = on] # NoOne
         /\ [r EXCEPT !.on = on].on = on
         /\ [r EXCEPT !.on = on].shares = r.shares /\ [r EXCEPT !.on = on].cool = r.cool
    /\ \A r \in Recs, n \in Nat : r # NoOne =>
         /\ [r EXCEPT !.shares = n] \in Recs /\ [r EXCEPT !.shares = n] # NoOne
         /\ [r EXCEPT !.shares = n].shares = n /\ [r EXCEPT !.shares = n].cool = r.cool
    /\ \A r \in Recs, n \in Days : r # NoOne =>
         /\ [r EXCEPT !.cool = n] \in Recs /\ [r EXCEPT !.cool = n] # NoOne
         /\ [r EXCEPT !.cool = n].shares = r.shares /\ [r EXCEPT !.cool = n].cool = n
<1>0. 0 \in Days BY DaysFacts, ConstantFacts
<1>1. NoOne \in Recs /\ NoOne.shares = 0 /\ NoOne.cool = 0 /\ NoOne.on = "absent"
  BY <1>0 DEF NoOne, Recs
<1>2. ASSUME NEW on \in Kept
      PROVE  /\ Contact(on) \in Recs /\ Contact(on) # NoOne /\ Contact(on).on = on
             /\ Contact(on).shares = 0 /\ Contact(on).cool = 0
  BY <1>0, <1>2 DEF Contact, NoOne, Recs, Kept
<1>3. ASSUME NEW r \in Recs
      PROVE  /\ r.cool \in Days /\ r.shares \in Nat /\ r.on \in Kept \cup {"absent"}
             /\ r # NoOne => r.on \in Kept
             /\ {In("active", r), In("inactive", r)} \subseteq Recs
  BY <1>1, <1>3 DEF Recs, In
<1>4. ASSUME NEW r \in Recs, NEW on \in Kept
      PROVE  /\ [r EXCEPT !.on = on] \in Recs /\ [r EXCEPT !.on = on] # NoOne
             /\ [r EXCEPT !.on = on].on = on
             /\ [r EXCEPT !.on = on].shares = r.shares /\ [r EXCEPT !.on = on].cool = r.cool
  BY <1>1, <1>4 DEF Recs, Kept
<1>5. ASSUME NEW r \in Recs, NEW n \in Nat, r # NoOne
      PROVE  /\ [r EXCEPT !.shares = n] \in Recs /\ [r EXCEPT !.shares = n] # NoOne
             /\ [r EXCEPT !.shares = n].shares = n /\ [r EXCEPT !.shares = n].cool = r.cool
  BY <1>1, <1>5 DEF Recs, Kept
<1>6. ASSUME NEW r \in Recs, NEW n \in Days, r # NoOne
      PROVE  /\ [r EXCEPT !.cool = n] \in Recs /\ [r EXCEPT !.cool = n] # NoOne
             /\ [r EXCEPT !.cool = n].shares = r.shares /\ [r EXCEPT !.cool = n].cool = n
  BY <1>1, <1>6 DEF Recs, Kept
<1> QED BY <1>1, <1>2, <1>3, <1>4, <1>5, <1>6

(* What goes to one file does not go to the other.                         *)
LEMMA OneFile ==
    ASSUME NEW r \in Recs
    PROVE  /\ In("active", r).on # "inactive" /\ In("inactive", r).on # "active"
           /\ In("active", r) = NoOne \/ In("inactive", r) = NoOne
           /\ r # NoOne => (IF In("active", r) # NoOne THEN In("active", r)
                                                      ELSE In("inactive", r)) = r
BY RecFacts DEF In, Kept

-----------------------------------------------------------------------------
(* Who changes a contact, from one state of the calls to the next.         *)

(* A call goes on that does not change c: what it holds of c is as right   *)
(* as what it held, or what is filed.                                      *)
LEMMA Quietly ==
    ASSUME NEW D, NEW act, NEW ina, NEW c, NEW W, NEW R, NEW a \in Actors, NEW E,
           Settled(D, act, ina, c, W, R),
           \A b \in Actors \ {a} : E[b] = D[b],
           ~Changes(D[a], c, W), ~Changes(E[a], c, W),
           Holds(E[a], c) => \/ Holds(D[a], c) /\ (D[a].copy[c] \in R => E[a].copy[c] \in R)
                             \/ Filing(act, ina, c) \in R => E[a].copy[c] \in R
                             \/ Missed(D[a], c) /\ E[a].copy[c] = ina[c],
           Missed(E[a], c) => act[c] = NoOne
    PROVE  Settled(E, act, ina, c, W, R)
<1>1. CASE \E b \in Actors : Changes(D[b], c, W) /\ c \in D[b].stale /\ D[b].pc # "save"
  BY <1>1 DEF Settled
<1>2. CASE \E b, e \in Actors : b # e /\ Changes(D[b], c, W) /\ Changes(D[e], c, W)
  <2>1. PICK b \in Actors, e \in Actors : b # e /\ Changes(D[b], c, W) /\ Changes(D[e], c, W)
    BY <1>2
  <2>2. b # a /\ e # a BY <2>1
  <2>3. Changes(E[b], c, W) /\ Changes(E[e], c, W) BY <2>1, <2>2
  <2> QED BY <2>1, <2>3 DEF Settled
<1>3. CASE \E b \in Actors : Changes(D[b], c, W) /\ D[b].copy[c] \in R
  BY <1>3 DEF Settled
<1>4. CASE /\ \A b \in Actors : ~Changes(D[b], c, W)
           /\ Filing(act, ina, c) \in R
           /\ \A b \in Actors : Holds(D[b], c) => D[b].copy[c] \in R
           /\ \A b \in Actors : Missed(D[b], c) => act[c] = NoOne
  <2>1. \A b \in Actors : ~Changes(E[b], c, W) BY <1>4
  <2>2. \A b \in Actors : Missed(E[b], c) => act[c] = NoOne BY <1>4
  <2>3. ASSUME NEW b \in Actors, Holds(E[b], c) PROVE E[b].copy[c] \in R
    <3>1. CASE b # a BY <1>4, <2>3, <3>1
    <3>2. CASE b = a
      <4>1. CASE Missed(D[a], c) /\ E[a].copy[c] = ina[c]
        BY <1>4, <3>2, <4>1 DEF Filing
      <4> QED BY <1>4, <2>3, <3>2, <4>1
    <3> QED BY <3>1, <3>2
  <2> QED BY <1>4, <2>1, <2>2, <2>3 DEF Settled
<1> QED BY <1>1, <1>2, <1>3, <1>4 DEF Settled

(* A call comes to change c.                                               *)
LEMMA Begins ==
    ASSUME NEW D, NEW act, NEW ina, NEW c, NEW W, NEW R, NEW T, NEW a \in Actors, NEW E,
           Settled(D, act, ina, c, W, R),
           \A b \in Actors \ {a} : E[b] = D[b],
           ~Changes(D[a], c, W), Changes(E[a], c, W), E[a].pc # "save",
           c \in E[a].stale \/ (Holds(D[a], c) /\ (D[a].copy[c] \in R => E[a].copy[c] \in T))
    PROVE  Settled(E, act, ina, c, W, T)
<1>1. CASE \E b \in Actors : Changes(D[b], c, W)
  <2>1. PICK b \in Actors : Changes(D[b], c, W) BY <1>1
  <2>2. b # a /\ Changes(E[b], c, W) BY <2>1
  <2> QED BY <2>2 DEF Settled
<1>2. CASE ~\E b \in Actors : Changes(D[b], c, W)
  BY <1>2 DEF Settled
<1> QED BY <1>1, <1>2

(* A call goes on changing c.                                              *)
LEMMA Continues ==
    ASSUME NEW D, NEW act, NEW ina, NEW c, NEW W, NEW R, NEW a \in Actors, NEW E,
           Settled(D, act, ina, c, W, R),
           \A b \in Actors \ {a} : E[b] = D[b],
           Changes(D[a], c, W), Changes(E[a], c, W), E[a].pc # "save",
           E[a].stale = D[a].stale, E[a].copy[c] = D[a].copy[c]
    PROVE  Settled(E, act, ina, c, W, R)
<1>1. \A b \in Actors : Changes(D[b], c, W) => Changes(E[b], c, W) OBVIOUS
<1>2. CASE \E b \in Actors : Changes(D[b], c, W) /\ c \in D[b].stale /\ D[b].pc # "save"
  BY <1>1, <1>2 DEF Settled
<1>3. CASE \E b, e \in Actors : b # e /\ Changes(D[b], c, W) /\ Changes(D[e], c, W)
  BY <1>1, <1>3 DEF Settled
<1>4. CASE \E b \in Actors : Changes(D[b], c, W) /\ D[b].copy[c] \in R
  BY <1>1, <1>4 DEF Settled
<1> QED BY <1>2, <1>3, <1>4 DEF Settled

(* What a save of x leaves of the calls: E is D seen by a's save.          *)
Seen(D, E, a, x) ==
    \A b \in Actors \ {a} :
        E[b] = IF D[b].pc \in {"idle", "get", "list"} THEN D[b]
               ELSE [D[b] EXCEPT !.stale = @ \cup {x}]

SeenBy(d, e, x) ==
    /\ e \in Calls
    /\ e.op = d.op /\ e.pc = d.pc /\ e.who = d.who /\ e.at = d.at /\ e.stage = d.stage
    /\ e.copy = d.copy /\ e.todo = d.todo /\ e.level = d.level
    /\ IF d.pc \in {"idle", "get", "list"} THEN e = d ELSE e.stale = d.stale \cup {x}

LEMMA SeenFacts ==
    ASSUME NEW D \in [Actors -> Calls], NEW E, NEW a \in Actors, NEW x \in People,
           Seen(D, E, a, x), NEW b \in Actors, b # a
    PROVE  SeenBy(D[b], E[b], x)
<1>1. D[b] \in Calls OBVIOUS
<1>2. E[b] = IF D[b].pc \in {"idle", "get", "list"} THEN D[b]
             ELSE [D[b] EXCEPT !.stale = @ \cup {x}]
  BY DEF Seen
<1>3. CASE D[b].pc \in {"idle", "get", "list"}
  BY <1>1, <1>2, <1>3 DEF SeenBy
<1>4. CASE D[b].pc \notin {"idle", "get", "list"}
  <2>1. E[b] = [D[b] EXCEPT !.stale = @ \cup {x}] BY <1>2, <1>4
  <2> QED BY <1>1, <1>4, <2>1 DEF SeenBy, Calls
<1> QED BY <1>3, <1>4

(* A save of another contact.                                              *)
LEMMA Elsewhere ==
    ASSUME NEW D \in [Actors -> Calls], NEW E, NEW a \in Actors, NEW x \in People,
           NEW c \in People, c # x, NEW W, NEW R,
           NEW act, NEW ina, NEW act2, NEW ina2, act2[c] = act[c], ina2[c] = ina[c],
           Seen(D, E, a, x), Settled(D, act, ina, c, W, R),
           ~Changes(D[a], c, W), ~Changes(E[a], c, W), ~Missed(E[a], c),
           Holds(E[a], c) => Holds(D[a], c) /\ E[a].copy[c] = D[a].copy[c]
    PROVE  Settled(E, act2, ina2, c, W, R)
<1>1. ASSUME NEW b \in Actors, b # a
      PROVE  /\ Changes(E[b], c, W) <=> Changes(D[b], c, W)
             /\ E[b].pc = D[b].pc /\ E[b].copy = D[b].copy
             /\ c \in E[b].stale <=> c \in D[b].stale
             /\ Holds(E[b], c) => Holds(D[b], c)
             /\ Missed(E[b], c) => Missed(D[b], c)
  <2>1. SeenBy(D[b], E[b], x) BY <1>1, SeenFacts
  <2> QED BY <2>1 DEF SeenBy, Changes, Holds, Missed
<1>2. CASE \E b \in Actors : Changes(D[b], c, W) /\ c \in D[b].stale /\ D[b].pc # "save"
  BY <1>1, <1>2 DEF Settled
<1>3. CASE \E b, e \in Actors : b # e /\ Changes(D[b], c, W) /\ Changes(D[e], c, W)
  <2>1. PICK b \in Actors, e \in Actors : b # e /\ Changes(D[b], c, W) /\ Changes(D[e], c, W)
    BY <1>3
  <2>2. b # a /\ e # a BY <2>1
  <2>3. Changes(E[b], c, W) /\ Changes(E[e], c, W) BY <1>1, <2>1, <2>2
  <2> QED BY <2>1, <2>3 DEF Settled
<1>4. CASE \E b \in Actors : Changes(D[b], c, W) /\ D[b].copy[c] \in R
  BY <1>1, <1>4 DEF Settled
<1>5. CASE /\ \A b \in Actors : ~Changes(D[b], c, W)
           /\ Filing(act, ina, c) \in R
           /\ \A b \in Actors : Holds(D[b], c) => D[b].copy[c] \in R
           /\ \A b \in Actors : Missed(D[b], c) => act[c] = NoOne
  <2>1. \A b \in Actors : ~Changes(E[b], c, W) BY <1>1, <1>5
  <2>2. \A b \in Actors : Holds(E[b], c) => E[b].copy[c] \in R BY <1>1, <1>5
  <2>3. \A b \in Actors : Missed(E[b], c) => act2[c] = NoOne BY <1>1, <1>5
  <2>4. Filing(act2, ina2, c) \in R BY <1>5 DEF Filing
  <2> QED BY <2>1, <2>2, <2>3, <2>4 DEF Settled
<1> QED BY <1>2, <1>3, <1>4, <1>5 DEF Settled

(* A call saves active.md with its c.                                      *)
LEMMA HalfSaved ==
    ASSUME NEW D \in [Actors -> Calls], NEW E, NEW a \in Actors, NEW c \in People,
           NEW W, NEW R, NEW act, NEW ina, NEW act2,
           Seen(D, E, a, c), Settled(D, act, ina, c, W, R), Putting \subseteq W, W \subseteq Changing,
           D[a].pc = "put", D[a].who = c, c \notin D[a].stale,
           E[a].pc = "save", E[a].who = c, E[a].copy = D[a].copy,
           \A b \in Actors : D[b].pc # "save"
    PROVE  Settled(E, act2, ina, c, W, R)
<1>1. Changes(D[a], c, W) /\ Changes(E[a], c, W) BY DEF Changes, Putting
<1>2. ASSUME NEW b \in Actors, b # a, Changes(D[b], c, W)
      PROVE  Changes(E[b], c, W) /\ c \in E[b].stale /\ E[b].pc # "save"
  <2>1. SeenBy(D[b], E[b], c) BY <1>2, SeenFacts
  <2> QED BY <1>2, <2>1 DEF SeenBy, Changes, Changing
<1>3. CASE \E b \in Actors : b # a /\ Changes(D[b], c, W)
  BY <1>2, <1>3 DEF Settled
<1>4. CASE \A b \in Actors : Changes(D[b], c, W) => b = a
  <2>1. D[a].copy[c] \in R BY <1>1, <1>4 DEF Settled
  <2> QED BY <1>1, <2>1 DEF Settled
<1> QED BY <1>3, <1>4

(* ... and then inactive.md: every other copy of c is stale now.           *)
LEMMA WholeSaved ==
    ASSUME NEW D \in [Actors -> Calls], NEW E, NEW a \in Actors, NEW c \in People,
           NEW W, NEW R, NEW act, NEW ina, NEW ina2,
           Seen(D, E, a, c), Settled(D, act, ina, c, W, R), Putting \subseteq W, W \subseteq Changing,
           D[a].pc = "save", D[a].who = c, \A b \in Actors : D[b].pc = "save" => b = a,
           ~Changes(E[a], c, W), ~Missed(E[a], c),
           Holds(E[a], c) => E[a].copy[c] = D[a].copy[c],
           Filing(act, ina2, c) = D[a].copy[c]
    PROVE  Settled(E, act, ina2, c, W, R)
<1>1. Changes(D[a], c, W) BY DEF Changes, Putting
<1>2. ASSUME NEW b \in Actors, b # a
      PROVE  /\ Changes(D[b], c, W) => Changes(E[b], c, W) /\ c \in E[b].stale /\ E[b].pc # "save"
             /\ Changes(E[b], c, W) => Changes(D[b], c, W)
             /\ ~Holds(E[b], c) /\ ~Missed(E[b], c)
  <2>1. SeenBy(D[b], E[b], c) BY <1>2, SeenFacts
  <2> QED BY <1>2, <2>1 DEF SeenBy, Changes, Changing, Holds, Missed
<1>3. CASE \E b \in Actors : b # a /\ Changes(D[b], c, W)
  BY <1>2, <1>3 DEF Settled
<1>4. CASE \A b \in Actors : Changes(D[b], c, W) => b = a
  <2>1. D[a].copy[c] \in R BY <1>1, <1>4 DEF Settled
  <2>2. \A b \in Actors : ~Changes(E[b], c, W) BY <1>2, <1>4
  <2>3. \A b \in Actors : Holds(E[b], c) => E[b].copy[c] \in R BY <1>2, <2>1
  <2>4. \A b \in Actors : ~Missed(E[b], c) BY <1>2
  <2> QED BY <2>1, <2>2, <2>3, <2>4 DEF Settled
<1> QED BY <1>3, <1>4

-----------------------------------------------------------------------------
(* One call goes on, and no file is written.                               *)

LEMMA RecordFacts ==
    ASSUME Typed, NEW a \in Actors, NEW c \in People
    PROVE  /\ active[c] \in Recs /\ inactive[c] \in Recs /\ do[a].copy[c] \in Recs
           /\ Filing(active, inactive, c) \in Recs
           /\ sent[c] \in Nat /\ quiet[c] \in Nat
BY DEF Typed, Calls, Filing

LEMMA Thinking ==
    ASSUME IInv, NEW a \in Actors, UNCHANGED <<active, inactive, lock, torn>>,
           do' = [do EXCEPT ![a] = do'[a]],
           do[a].pc # "save", do'[a].pc # "save", Rebalanced(do'[a], active)
    PROVE  Locked' /\ Filed' /\ Bounded'
<1>1. \A b \in Actors : b # a => do'[b] = do[b] BY DEF IInv, Typed
<1>2. Locked'
  BY <1>1 DEF IInv, Locked
<1>3. lock # a BY DEF IInv, Locked
<1>4. lock # Nobody => lock \in Actors BY DEF IInv, Typed
<1>5. lock # Nobody => do'[lock] = do[lock] BY <1>1, <1>3, <1>4
<1>6. Filed'
  BY <1>5 DEF IInv, Filed, HalfPut
<1>7. Bounded'
  BY <1>1 DEF IInv, Bounded
<1> QED BY <1>2, <1>6, <1>7

LEMMA Typing ==
    ASSUME Typed, NEW a \in Actors, UNCHANGED <<active, inactive, candidate, today>>,
           do' = [do EXCEPT ![a] = do'[a]],
           do'[a] \in Calls, Reached(do'[a]), do'[a].at <= today,
           sessions' \in [People -> 0 .. 100], calls' \in 0 .. MaxCalls,
           sent' \in [People -> Nat], quiet' \in [People -> Nat],
           lock' \in Actors \cup {Nobody}, excused' \subseteq People, torn' \subseteq excused'
    PROVE  Typed'
<1>1. do' \in [Actors -> Calls] BY DEF Typed
<1>2. ASSUME NEW b \in Actors PROVE do'[b].at <= today' /\ Reached(do'[b])
  <2>1. CASE b = a BY <2>1
  <2>2. CASE b # a
    <3>1. do'[b] = do[b] BY <2>2 DEF Typed
    <3> QED BY <3>1 DEF Typed
  <2> QED BY <2>1, <2>2
<1> QED BY <1>1, <1>2 DEF Typed

(* Nothing is sent, and nobody comes to send.                              *)
LEMMA StillFew ==
    ASSUME IInv, NEW a \in Actors, UNCHANGED <<active, inactive, sent, calls>>,
           do' = [do EXCEPT ![a] = do'[a]],
           \A c \in People : do'[a].copy[c].shares <= sent[c],
           \A c \in People : MaySend(do'[a], c) => MaySend(do[a], c)
    PROVE  Few'
<1>1. \A b \in Actors : b # a => do'[b] = do[b] BY DEF IInv, Typed
<1>2. ASSUME NEW c \in People
      PROVE  Cardinality(Senders(do', c)) <= Cardinality(Senders(do, c))
  <2>1. Senders(do', c) \subseteq Senders(do, c) BY <1>1 DEF Senders
  <2>2. IsFiniteSet(Senders(do, c)) BY ConstantFacts, FS_Subset DEF Senders
  <2> QED BY <2>1, <2>2, FS_Subset
<1>3. ASSUME NEW c \in People
      PROVE  /\ Cardinality(Senders(do, c)) \in Nat /\ Cardinality(Senders(do', c)) \in Nat
             /\ sent[c] \in Nat
  <2>1. IsFiniteSet(Senders(do, c)) BY ConstantFacts, FS_Subset DEF Senders
  <2>2. IsFiniteSet(Senders(do', c)) BY ConstantFacts, FS_Subset DEF Senders
  <2> QED BY <2>1, <2>2, FS_CardinalityType DEF IInv, Typed
<1>4. calls \in Nat BY ConstantFacts DEF IInv, Typed
<1>5. ASSUME NEW c \in People PROVE sent'[c] + Cardinality(Senders(do', c)) <= calls'
  <2>1. sent[c] + Cardinality(Senders(do, c)) <= calls BY DEF IInv, Few
  <2> QED BY <1>2, <1>3, <1>4, <2>1
<1>6. ASSUME NEW c \in People, NEW b \in Actors PROVE do'[b].copy[c].shares <= sent'[c]
  BY <1>1 DEF IInv, Few
<1> QED BY <1>5, <1>6 DEF IInv, Few

(* A call that changes nothing yet reads, chooses or ends.                 *)
Same(r, q) == r.shares = q.shares /\ r.cool = q.cool
Reads(d, s) ==
    /\ d.pc \notin Changing /\ s.pc \notin Changing
    /\ \A c \in People :
         /\ Holds(s, c) => \/ Holds(d, c) /\ Same(s.copy[c], d.copy[c])
                           \/ Same(s.copy[c], Filing(active, inactive, c))
                           \/ Missed(d, c) /\ s.copy[c] = inactive[c]
         /\ Missed(s, c) => active[c] = NoOne

LEMMA Reading ==
    ASSUME IInv, NEW a \in Actors, UNCHANGED <<active, inactive, sent, quiet, excused>>,
           do' = [do EXCEPT ![a] = do'[a]], do'[a] \in Calls,
           Reads(do[a], do'[a])
    PROVE  Counted' /\ Warned'
<1>1. \A b \in Actors \ {a} : do'[b] = do[b] BY DEF IInv, Typed
<1>2. ASSUME NEW c \in People
      PROVE  /\ do[a].copy[c] \in Recs /\ do'[a].copy[c] \in Recs
             /\ Filing(active, inactive, c) \in Recs
  BY RecordFacts DEF IInv, Calls
<1>3. ASSUME NEW c \in People \ excused
      PROVE  Settled(do', active, inactive, c, Putting, Counting(c))
  <2>1. ~Changes(do[a], c, Putting) /\ ~Changes(do'[a], c, Putting)
    BY DEF Reads, Changes, Changing, Putting
  <2>2. Settled(do, active, inactive, c, Putting, Counting(c)) BY DEF IInv, Counted
  <2>3. Holds(do'[a], c) =>
          \/ Holds(do[a], c) /\ (do[a].copy[c] \in Counting(c) => do'[a].copy[c] \in Counting(c))
          \/ Filing(active, inactive, c) \in Counting(c) => do'[a].copy[c] \in Counting(c)
          \/ Missed(do[a], c) /\ do'[a].copy[c] = inactive[c]
    BY <1>2 DEF Reads, Same, Counting
  <2>4. Missed(do'[a], c) => active[c] = NoOne BY DEF Reads
  <2> HIDE DEF Reads
  <2> QED BY <1>1, <2>1, <2>2, <2>3, <2>4, Quietly
<1>4. ASSUME NEW c \in People \ excused
      PROVE  Settled(do', active, inactive, c, Changing, Warning(c))
  <2>1. ~Changes(do[a], c, Changing) /\ ~Changes(do'[a], c, Changing)
    BY DEF Reads, Changes
  <2>2. Settled(do, active, inactive, c, Changing, Warning(c)) BY DEF IInv, Warned
  <2>3. Holds(do'[a], c) =>
          \/ Holds(do[a], c) /\ (do[a].copy[c] \in Warning(c) => do'[a].copy[c] \in Warning(c))
          \/ Filing(active, inactive, c) \in Warning(c) => do'[a].copy[c] \in Warning(c)
          \/ Missed(do[a], c) /\ do'[a].copy[c] = inactive[c]
    BY <1>2 DEF Reads, Same, Warning
  <2>4. Missed(do'[a], c) => active[c] = NoOne BY DEF Reads
  <2> QED BY <1>1, <2>1, <2>2, <2>3, <2>4, Quietly
<1> QED BY <1>3, <1>4 DEF Counted, Warned, Counting, Warning

(* A call that changed nothing comes to change x, perhaps with a new       *)
(* record.                                                                 *)
LEMMA Beginning ==
    ASSUME IInv, NEW a \in Actors, UNCHANGED <<active, inactive>>, excused \subseteq excused',
           do' = [do EXCEPT ![a] = do'[a]], do'[a] \in Calls,
           NEW x \in People, do[a].pc = "act",
           x \in do[a].stale \/ Holds(do[a], x), do'[a].stale = do[a].stale,
           do'[a].pc \in {"put", "session"}, do'[a].who = x,
           \A c \in People \ {x} : Holds(do'[a], c) =>
               Holds(do[a], c) /\ do'[a].copy[c] = do[a].copy[c],
           \A c \in People \ {x} : sent'[c] = sent[c] /\ quiet'[c] = quiet[c],
           x \notin excused' => /\ do'[a].pc = "session" => sent'[x] = sent[x]
                                /\ do[a].copy[x].shares = sent[x] => do'[a].copy[x].shares = sent'[x]
                                /\ do[a].copy[x].cool >= quiet[x] => do'[a].copy[x].cool >= quiet'[x]
    PROVE  Counted' /\ Warned'
<1>1. \A b \in Actors \ {a} : do'[b] = do[b] BY DEF IInv, Typed
<1>2. ASSUME NEW c \in People PROVE do[a].copy[c] \in Recs /\ do'[a].copy[c] \in Recs
  BY RecordFacts DEF IInv, Calls
<1>3. \A c \in People : ~Changes(do[a], c, Putting) /\ ~Changes(do[a], c, Changing)
  BY DEF Changes, Putting, Changing
<1>4. \A c \in People : ~Missed(do'[a], c) BY DEF Missed
<1>5. ASSUME NEW c \in People \ excused', c # x
      PROVE  /\ Settled(do', active, inactive, c, Putting, Counting(c)')
             /\ Settled(do', active, inactive, c, Changing, Warning(c)')
  <2>1. /\ Settled(do, active, inactive, c, Putting, Counting(c))
        /\ Settled(do, active, inactive, c, Changing, Warning(c))
    BY DEF IInv, Counted, Warned
  <2>2. ~Changes(do'[a], c, Putting) /\ ~Changes(do'[a], c, Changing) BY <1>5 DEF Changes
  <2>3. Holds(do'[a], c) => Holds(do[a], c) /\ do'[a].copy[c] = do[a].copy[c] BY <1>5
  <2>4. Counting(c)' = Counting(c) /\ Warning(c)' = Warning(c) BY <1>5 DEF Counting, Warning
  <2>5. Settled(do', active, inactive, c, Putting, Counting(c))
    BY <1>1, <1>3, <1>4, <2>1, <2>2, <2>3, Quietly
  <2>6. Settled(do', active, inactive, c, Changing, Warning(c))
    BY <1>1, <1>3, <1>4, <2>1, <2>2, <2>3, Quietly
  <2> QED BY <2>4, <2>5, <2>6
<1>6. ASSUME x \notin excused'
      PROVE  Settled(do', active, inactive, x, Changing, Warning(x)')
  <2>1. Settled(do, active, inactive, x, Changing, Warning(x)) BY <1>6 DEF IInv, Warned
  <2>2. Changes(do'[a], x, Changing) /\ do'[a].pc # "save" BY DEF Changes, Changing
  <2>3. do[a].copy[x] \in Warning(x) => do'[a].copy[x] \in Warning(x)'
    BY <1>2, <1>6 DEF Warning
  <2>4. ~Changes(do[a], x, Changing) BY <1>3
  <2>5. \/ x \in do'[a].stale
        \/ Holds(do[a], x) /\ (do[a].copy[x] \in Warning(x) => do'[a].copy[x] \in Warning(x)')
    BY <2>3
  <2> HIDE DEF IInv
  <2> QED BY <1>1, <2>1, <2>2, <2>4, <2>5, Begins
<1>7. ASSUME x \notin excused'
      PROVE  Settled(do', active, inactive, x, Putting, Counting(x)')
  <2>1. Settled(do, active, inactive, x, Putting, Counting(x)) BY <1>7 DEF IInv, Counted
  <2>2. do[a].copy[x] \in Counting(x) => do'[a].copy[x] \in Counting(x)'
    BY <1>2, <1>7 DEF Counting
  <2>3. CASE do'[a].pc = "put"
    <3>1. Changes(do'[a], x, Putting) /\ do'[a].pc # "save" BY <2>3 DEF Changes, Putting
    <3> QED BY <1>1, <1>3, <2>1, <2>2, <3>1, Begins
  <2>4. CASE do'[a].pc = "session"
    <3>1. ~Changes(do'[a], x, Putting) BY <2>4 DEF Changes, Putting
    <3>2. Counting(x)' = Counting(x) BY <1>7, <2>4 DEF Counting
    <3>3. Holds(do'[a], x) => Holds(do[a], x) BY <2>4 DEF Holds
    <3>4. Settled(do', active, inactive, x, Putting, Counting(x))
      BY <1>1, <1>3, <1>4, <2>1, <2>2, <3>1, <3>2, <3>3, Quietly
    <3> QED BY <3>2, <3>4
  <2> QED BY <2>3, <2>4
<1>8. ASSUME NEW c \in People \ excused'
      PROVE  /\ Settled(do', active, inactive, c, Putting, Counting(c)')
             /\ Settled(do', active, inactive, c, Changing, Warning(c)')
  BY <1>5, <1>6, <1>7
<1> QED BY <1>8 DEF Counted, Warned

-----------------------------------------------------------------------------
(* The steps of a call, by what they are made of.                          *)

others == <<sessions, candidate, lock, today, calls, history>>

LEMMA IdleFacts ==
    /\ Idle \in Calls /\ Reached(Idle)
    /\ Idle.op = "none" /\ Idle.pc = "idle" /\ Idle.who = 0 /\ Idle.at = 0
    /\ Idle.stage = "single" /\ Idle.todo = {} /\ Idle.level = 0 /\ Idle.stale = {}
    /\ Idle.copy = [c \in People |-> NoOne]
    /\ \A c \in People : ~Holds(Idle, c) /\ ~Missed(Idle, c) /\ ~MaySend(Idle, c)
    /\ \A act : Rebalanced(Idle, act)
<1>1. /\ Idle.op = "none" /\ Idle.pc = "idle" /\ Idle.who = 0 /\ Idle.at = 0
      /\ Idle.stage = "single" /\ Idle.todo = {} /\ Idle.level = 0 /\ Idle.stale = {}
      /\ Idle.copy = [c \in People |-> NoOne]
  BY DEF Idle
<1>2. Idle \in Calls
  BY ConstantFacts, RecFacts DEF Idle, Calls, Stages
<1>3. Reached(Idle) BY <1>1 DEF Reached, Ticks
<1>4. \A c \in People : ~Holds(Idle, c) /\ ~Missed(Idle, c) /\ ~MaySend(Idle, c)
  BY <1>1 DEF Holds, Missed, MaySend, Ticks
<1>5. \A act : Rebalanced(Idle, act) BY <1>1 DEF Rebalanced, Ticks
<1> QED BY <1>1, <1>2, <1>3, <1>4, <1>5

(* A step that only reads.                                                 *)
LEMMA ReadStep ==
    ASSUME IInv, NEW a \in Actors, UNCHANGED <<files, others>>,
           do' = [do EXCEPT ![a] = do'[a]], do'[a] \in Calls, Reached(do'[a]), do'[a].at <= today,
           Reads(do[a], do'[a]), Rebalanced(do'[a], active),
           \A c \in People : do'[a].copy[c].shares <= sent[c],
           \A c \in People : MaySend(do'[a], c) => MaySend(do[a], c)
    PROVE  IInv'
<1>1. UNCHANGED <<active, inactive, sessions, candidate, lock, today, calls, sent, quiet, excused, torn>>
  BY DEF files, others, history
<1>2. Typed' BY <1>1, Typing DEF IInv, Typed
<1>3. do[a].pc # "save" /\ do'[a].pc # "save" BY DEF Reads, Changing
<1>4. Locked' /\ Filed' /\ Bounded' BY <1>1, <1>3, Thinking
<1>5. Few' BY <1>1, StillFew
<1>6. Counted' /\ Warned' BY <1>1, Reading
<1> QED BY <1>2, <1>4, <1>5, <1>6 DEF IInv

LEMMA Finishing ==
    ASSUME IInv, NEW a \in Actors, UNCHANGED <<files, others>>, Finish(a),
           do[a].pc \notin Changing
    PROVE  IInv'
<1>1. do' = [do EXCEPT ![a] = do'[a]] /\ do'[a] = Idle BY DEF Finish, IInv, Typed
<1>2. today \in Nat BY ConstantFacts DEF IInv, Typed
<1>3. Reads(do[a], do'[a]) BY <1>1, IdleFacts DEF Reads, Changing
<1>4. ASSUME NEW c \in People PROVE Idle.copy[c].shares <= sent[c]
  BY IdleFacts, RecFacts DEF IInv, Typed
<1>5. do'[a] \in Calls /\ Reached(do'[a]) /\ do'[a].at <= today BY <1>1, <1>2, IdleFacts
<1>6. Rebalanced(do'[a], active) BY <1>1, IdleFacts
<1>7. \A c \in People : MaySend(do'[a], c) => MaySend(do[a], c) BY <1>1, IdleFacts
<1> QED BY <1>1, <1>3, <1>4, <1>5, <1>6, <1>7, ReadStep

(* A call starts, which may come to send.                                  *)
LEMMA Starting ==
    ASSUME IInv, NEW a \in Actors, NEW op, NEW pc, NEW x \in Nat, Start(a, op, pc, x),
           \/ pc = "list" /\ op \in Ticks
           \/ pc = "get" /\ op \in Single /\ x \in People
    PROVE  IInv'
<1> DEFINE s == [Idle EXCEPT !.op = op, !.pc = pc, !.who = x, !.at = today]
<1>1. /\ do[a] = Idle /\ do' = [do EXCEPT ![a] = s] /\ calls < MaxCalls /\ calls' = calls + 1
      /\ UNCHANGED <<active, inactive, sessions, candidate, lock, today, sent, quiet, excused, torn>>
  BY DEF Start, files, history
<1>2. /\ s.op = op /\ s.pc = pc /\ s.who = x /\ s.at = today /\ s.stage = "single"
      /\ s.copy = [c \in People |-> NoOne] /\ s.todo = {} /\ s.level = 0 /\ s.stale = {}
  BY DEF Idle
<1>3. today \in 0 .. Horizon /\ calls \in 0 .. MaxCalls /\ MaxCalls \in Nat
  BY ConstantFacts DEF IInv, Typed
<1>4. s \in Calls
  <2>1. op \in Ops BY DEF Single, Ops
  <2>2. Idle \in Calls BY IdleFacts
  <2> QED BY <1>3, <2>1, <2>2 DEF Calls
<1>5. Reached(s) BY <1>2 DEF Reached, Single, Ticks, Feedback, Creating
<1> HIDE DEF s
<1>6. do'[a] = s /\ do' = [do EXCEPT ![a] = do'[a]] BY <1>1 DEF IInv, Typed
<1>7. Reads(do[a], do'[a])
  BY <1>1, <1>2, <1>6, IdleFacts DEF Reads, Changing, Holds, Missed
<1>8. Rebalanced(do'[a], active) BY <1>2, <1>6 DEF Rebalanced
<1>9. Typed' BY <1>1, <1>3, <1>4, <1>5, <1>2, <1>6, Typing DEF IInv, Typed
<1>10. Locked' /\ Filed' /\ Bounded'
  <2>1. do[a].pc # "save" /\ do'[a].pc # "save" BY <1>1, <1>2, <1>6, IdleFacts
  <2> QED BY <1>1, <1>6, <1>8, <2>1, Thinking
<1>11. Counted' /\ Warned' BY <1>1, <1>4, <1>6, <1>7, Reading
<1>12. \A b \in Actors : b # a => do'[b] = do[b] BY <1>1 DEF IInv, Typed
<1>13. ASSUME NEW c \in People
       PROVE  sent[c] + Cardinality(Senders(do', c)) <= calls + 1
  <2>1. Senders(do', c) \subseteq Senders(do, c) \cup {a} BY <1>12 DEF Senders
  <2>2. IsFiniteSet(Senders(do, c)) BY ConstantFacts, FS_Subset DEF Senders
  <2>3. a \notin Senders(do, c) BY <1>1, IdleFacts DEF Senders
  <2>4. Cardinality(Senders(do, c) \cup {a}) = Cardinality(Senders(do, c)) + 1
        /\ IsFiniteSet(Senders(do, c) \cup {a})
    BY <2>2, <2>3, FS_AddElement
  <2>5. Cardinality(Senders(do', c)) <= Cardinality(Senders(do, c) \cup {a})
        /\ IsFiniteSet(Senders(do', c))
    BY <2>1, <2>4, FS_Subset
  <2>6. Cardinality(Senders(do, c)) \in Nat /\ Cardinality(Senders(do', c)) \in Nat
    BY <2>2, <2>5, FS_CardinalityType
  <2>7. sent[c] + Cardinality(Senders(do, c)) <= calls /\ sent[c] \in Nat /\ calls \in Nat
    BY <1>3 DEF IInv, Few, Typed
  <2> QED BY <2>4, <2>5, <2>6, <2>7
<1>14. Few'
  <2>1. ASSUME NEW c \in People, NEW b \in Actors PROVE do'[b].copy[c].shares <= sent[c]
    <3>1. CASE b = a
      <4>1. do'[b].copy[c].shares = 0 BY <1>2, <1>6, <3>1, RecFacts
      <4> QED BY <4>1 DEF IInv, Typed
    <3>2. CASE b # a BY <1>12, <3>2 DEF IInv, Few
    <3> QED BY <3>1, <3>2
  <2> QED BY <1>1, <1>13, <2>1 DEF IInv, Few
<1> QED BY <1>9, <1>10, <1>11, <1>14 DEF IInv

(* What a call is when it comes to put x, a tick or another.               *)
MarkedTick(d, s, x) ==
    /\ s.op = d.op /\ s.stage = d.stage /\ s.at = d.at
    /\ s.todo \subseteq d.todo \ {x}
    /\ d.stage = "keeps" => s.todo = d.todo \ {x}
    /\ \A c \in People \ {x} : s.copy[c] = d.copy[c]
MarkedWrite(s, x) ==
    /\ s.op = "write" /\ s.stage = "single" /\ s.at = 0 /\ s.todo = {}
    /\ \A c \in People \ {x} : s.copy[c] = NoOne
Marked(d, s, x, rec) ==
    /\ s \in Calls /\ s.pc = "put" /\ s.who = x /\ s.stale = d.stale /\ s.copy[x] = rec
    /\ d.op \in Ticks => MarkedTick(d, s, x)
    /\ d.op \notin Ticks => MarkedWrite(s, x)

LEMMA PutMakes ==
    ASSUME Typed, NEW a \in Actors, NEW x \in People, NEW rec \in Recs, Put(a, x, rec)
    PROVE  do' = [do EXCEPT ![a] = do'[a]] /\ Marked(do[a], do'[a], x, rec)
<1> DEFINE t == [do[a] EXCEPT !.who = x, !.copy[x] = rec, !.pc = "put", !.todo = @ \ {x}]
           w == [Idle EXCEPT !.op = "write", !.who = x, !.copy[x] = rec, !.pc = "put",
                             !.stale = do[a].stale]
<1>1. do' = [do EXCEPT ![a] = IF do[a].op \in Ticks THEN t ELSE w] BY DEF Put
<1>2. do[a] \in Calls /\ Idle \in Calls /\ x \in Nat BY IdleFacts, ConstantFacts DEF Typed
<1>3. /\ t \in Calls /\ t.pc = "put" /\ t.who = x /\ t.stale = do[a].stale /\ t.copy[x] = rec
      /\ t.op = do[a].op /\ t.stage = do[a].stage /\ t.at = do[a].at /\ t.todo = do[a].todo \ {x}
      /\ \A c \in People \ {x} : t.copy[c] = do[a].copy[c]
  BY <1>2 DEF Calls
<1>4. /\ w \in Calls /\ w.pc = "put" /\ w.who = x /\ w.stale = do[a].stale /\ w.copy[x] = rec
      /\ w.op = "write" /\ w.stage = "single" /\ w.at = 0 /\ w.todo = {}
  BY <1>2, IdleFacts DEF Calls
<1>5. \A c \in People \ {x} : w.copy[c] = NoOne
  BY IdleFacts DEF Idle
<1> HIDE DEF t, w
<1>6. do'[a] = IF do[a].op \in Ticks THEN t ELSE w BY <1>1 DEF Typed
<1>7. do' = [do EXCEPT ![a] = do'[a]] BY <1>1, <1>6
<1>8. CASE do[a].op \in Ticks BY <1>3, <1>6, <1>7, <1>8 DEF Marked, MarkedTick, MarkedWrite
<1>9. CASE do[a].op \notin Ticks BY <1>4, <1>5, <1>6, <1>7, <1>9 DEF Marked, MarkedTick, MarkedWrite
<1> QED BY <1>8, <1>9

LEMMA PutFew ==
    ASSUME IInv, NEW a \in Actors, UNCHANGED <<active, inactive, calls>>,
           do' = [do EXCEPT ![a] = do'[a]], NEW x \in People,
           sent' \in [People -> Nat], \A c \in People \ {x} : sent'[c] = sent[c],
           \/ sent'[x] = sent[x]
           \/ sent'[x] = sent[x] + 1 /\ MaySend(do[a], x) /\ ~MaySend(do'[a], x),
           do'[a].copy[x].shares <= sent'[x],
           \A c \in People \ {x} : do'[a].copy[c].shares <= sent[c],
           \A c \in People : MaySend(do'[a], c) => MaySend(do[a], c)
    PROVE  Few'
<1>1. \A b \in Actors : b # a => do'[b] = do[b] BY DEF IInv, Typed
<1>2. \A c \in People : sent[c] \in Nat /\ sent'[c] \in Nat /\ sent[c] <= sent'[c]
  BY DEF IInv, Typed
<1>3. ASSUME NEW c \in People PROVE sent'[c] + Cardinality(Senders(do', c)) <= calls
  <2>1. Senders(do', c) \subseteq Senders(do, c) BY <1>1 DEF Senders
  <2>2. IsFiniteSet(Senders(do, c)) BY ConstantFacts, FS_Subset DEF Senders
  <2>3. IsFiniteSet(Senders(do', c)) /\ Cardinality(Senders(do', c)) <= Cardinality(Senders(do, c))
    BY <2>1, <2>2, FS_Subset
  <2>4. Cardinality(Senders(do, c)) \in Nat /\ Cardinality(Senders(do', c)) \in Nat
    BY <2>2, <2>3, FS_CardinalityType
  <2>5. sent[c] + Cardinality(Senders(do, c)) <= calls /\ calls \in Nat
    BY ConstantFacts DEF IInv, Few, Typed
  <2>6. CASE sent'[c] = sent[c] BY <1>2, <2>3, <2>4, <2>5, <2>6
  <2>7. CASE sent'[c] # sent[c]
    <3>1. c = x /\ sent'[c] = sent[c] + 1 BY <2>7
    <3>2. a \in Senders(do, c) /\ a \notin Senders(do', c) BY <3>1, <2>7 DEF Senders
    <3>3. Senders(do', c) \subseteq Senders(do, c) \ {a} BY <2>1, <3>2
    <3>4. /\ IsFiniteSet(Senders(do, c) \ {a})
          /\ Cardinality(Senders(do, c) \ {a}) = Cardinality(Senders(do, c)) - 1
      BY <2>2, <3>2, FS_RemoveElement
    <3>5. Cardinality(Senders(do', c)) <= Cardinality(Senders(do, c) \ {a})
      BY <3>3, <3>4, FS_Subset
    <3> QED BY <1>2, <2>4, <2>5, <3>1, <3>4, <3>5
  <2> QED BY <2>6, <2>7
<1>4. ASSUME NEW c \in People, NEW b \in Actors PROVE do'[b].copy[c].shares <= sent'[c]
  <2>1. CASE b = a BY <1>2, <2>1
  <2>2. CASE b # a
    <3>1. do'[b] = do[b] BY <1>1, <2>2
    <3>2. do[b].copy[c].shares <= sent[c] /\ do[b].copy[c].shares \in Nat
      BY RecordFacts, RecFacts DEF IInv, Few
    <3> QED BY <1>2, <3>1, <3>2
  <2> QED BY <2>1, <2>2
<1>5. ASSUME NEW c \in People
      PROVE  active[c].shares <= sent'[c] /\ inactive[c].shares <= sent'[c]
  <2>1. /\ active[c].shares <= sent[c] /\ inactive[c].shares <= sent[c]
        /\ active[c].shares \in Nat /\ inactive[c].shares \in Nat
    BY RecordFacts, RecFacts DEF IInv, Few, Typed
  <2> QED BY <1>2, <2>1
<1> QED BY <1>3, <1>4, <1>5 DEF Few

(* A call that has read x comes to put it with the record rec.             *)
LEMMA PutStep ==
    ASSUME IInv, NEW a \in Actors, NEW x \in People, NEW rec \in Recs, rec # NoOne,
           do[a].pc = "act",
           \/ do[a].op \in Ticks /\ x \in do[a].todo
           \/ do[a].op \in Single /\ do[a].who = x,
           do' = [do EXCEPT ![a] = do'[a]], Marked(do[a], do'[a], x, rec),
           UNCHANGED <<files, sessions, candidate, lock, today, calls, torn>>,
           excused \subseteq excused', excused' \subseteq People,
           sent' \in [People -> Nat], quiet' \in [People -> Nat],
           \A c \in People \ {x} : sent'[c] = sent[c] /\ quiet'[c] = quiet[c],
           \/ sent'[x] = sent[x]
           \/ /\ sent'[x] = sent[x] + 1
              /\ do[a].op = "send" \/ (do[a].op \in Ticks /\ do[a].stage = "sends"),
           rec.shares <= sent'[x],
           do[a].op \in Ticks /\ do[a].stage = "keeps" => rec = do[a].copy[x],
           x \notin excused' => /\ do[a].copy[x].shares = sent[x] => rec.shares = sent'[x]
                                /\ do[a].copy[x].cool >= quiet[x] => rec.cool >= quiet'[x]
    PROVE  IInv'
<1> DEFINE d == do[a]
<1>0. /\ do'[a] \in Calls /\ do'[a].pc = "put" /\ do'[a].who = x /\ do'[a].stale = d.stale
      /\ do'[a].copy[x] = rec
      /\ d.op \in Ticks => MarkedTick(d, do'[a], x)
      /\ d.op \notin Ticks => MarkedWrite(do'[a], x)
  BY DEF Marked
<1>1. /\ d \in Calls /\ Reached(d) /\ d.at <= today /\ today \in Nat /\ ~(d.op \in Single /\ d.op \in Ticks)
      /\ do'[a] \in Calls
  BY <1>0, ConstantFacts DEF IInv, Typed, Single, Ticks, Feedback, Creating
<1>2. UNCHANGED <<active, inactive>> BY DEF files
<1>3. Reached(do'[a])
  <2>1. CASE d.op \in Ticks
    <3>1. /\ d.stage # "single" /\ \A c \in d.todo : d.copy[c] # NoOne
          /\ d.stage = "sends" => \A c \in d.todo : d.copy[c].cool <= d.at
      BY <1>1, <2>1 DEF Reached
    <3>2. /\ do'[a].op = d.op /\ do'[a].stage = d.stage /\ do'[a].at = d.at /\ do'[a].pc = "put"
          /\ do'[a].who = x /\ do'[a].copy[x] = rec
          /\ do'[a].todo \subseteq d.todo \ {x}
          /\ \A c \in People \ {x} : do'[a].copy[c] = d.copy[c]
      BY <1>0, <2>1 DEF MarkedTick
    <3>3. d.todo \subseteq People BY <1>1 DEF Calls
    <3>4. \A c \in do'[a].todo : c \in d.todo /\ do'[a].copy[c] = d.copy[c] BY <3>2, <3>3
    <3> HIDE DEF d
    <3> QED BY <2>1, <3>1, <3>2, <3>4 DEF Reached
  <2>2. CASE d.op \notin Ticks
    BY <1>0, <2>2 DEF MarkedWrite, Reached, Ticks
  <2> QED BY <2>1, <2>2
<1>4. do'[a].at <= today
  <2>1. CASE d.op \in Ticks BY <1>0, <1>1, <2>1 DEF MarkedTick
  <2>2. CASE d.op \notin Ticks BY <1>0, <1>1, <2>2 DEF MarkedWrite
  <2> QED BY <2>1, <2>2
<1>5. Typed' BY <1>1, <1>2, <1>3, <1>4, Typing DEF IInv, Typed
<1>6. Rebalanced(do'[a], active)
  <2>1. SUFFICES ASSUME do'[a].op \in Ticks, do'[a].stage = "keeps", do'[a].stale = {}
                 PROVE  /\ do'[a].todo \subseteq Known(active) /\ do'[a].who \in Known(active)
                        /\ Cardinality(Known(active) \ Going(do'[a])) <= MaxActive
    BY DEF Rebalanced
  <2>2. d.op \in Ticks /\ d.stage = "keeps" /\ d.stale = {}
    BY <1>0, <2>1 DEF MarkedTick, MarkedWrite, Ticks
  <2>3. /\ d.todo \subseteq Known(active) /\ Cardinality(Known(active) \ Going(d)) <= MaxActive
    BY <2>2 DEF IInv, Bounded, Rebalanced
  <2>4. /\ do'[a].todo = d.todo \ {x} /\ do'[a].who = x /\ do'[a].pc = "put"
        /\ do'[a].copy[x] = d.copy[x] /\ \A c \in People \ {x} : do'[a].copy[c] = d.copy[c]
    BY <1>0, <2>2 DEF MarkedTick
  <2>5. x \in d.todo BY <1>1, <2>2
  <2>6. Going(do'[a]) = Going(d) BY <2>4, <2>5 DEF Going
  <2> QED BY <2>3, <2>4, <2>5, <2>6
<1>7. Locked' /\ Filed' /\ Bounded'
  <2>1. d.pc # "save" /\ do'[a].pc # "save" BY <1>0
  <2> QED BY <1>2, <1>6, <2>1, Thinking
<1>8. x \in d.stale \/ Holds(d, x)
  BY <1>1 DEF Holds, Reached
<1>9. \A c \in People \ {x} : Holds(do'[a], c) => Holds(d, c) /\ do'[a].copy[c] = d.copy[c]
  <2>1. CASE d.op \in Ticks BY <1>0, <2>1 DEF MarkedTick, Holds
  <2>2. CASE d.op \notin Ticks BY <1>0, <2>2 DEF MarkedWrite, Holds, Ticks
  <2> QED BY <2>1, <2>2
<1>10. Counted' /\ Warned'
  <2>1. /\ do'[a].stale = d.stale /\ do'[a].pc = "put" /\ do'[a].who = x /\ do'[a].copy[x] = rec
    BY <1>0
  <2> QED BY <1>1, <1>2, <1>8, <1>9, <2>1, Beginning
<1>11. Few'
  <2>1. ASSUME NEW c \in People, MaySend(do'[a], c) PROVE MaySend(d, c)
    <3>1. CASE d.op \in Ticks
      <4>1. /\ do'[a].op = d.op /\ do'[a].stage = d.stage /\ do'[a].todo \subseteq d.todo \ {x}
            /\ d.stage # "single"
        BY <1>0, <1>1, <3>1 DEF MarkedTick, Reached
      <4> QED BY <2>1, <3>1, <4>1 DEF MaySend, Ticks
    <3>2. CASE d.op \notin Ticks
      <4>1. do'[a].op = "write" BY <1>0, <3>2 DEF MarkedWrite
      <4> QED BY <2>1, <4>1 DEF MaySend, Ticks
    <3> QED BY <3>1, <3>2
  <2>2. do[a].op = "send" \/ (do[a].op \in Ticks /\ do[a].stage = "sends") =>
          MaySend(d, x) /\ ~MaySend(do'[a], x)
    <3>1. CASE d.op = "send"
      <4>1. d.op \notin Ticks BY <3>1 DEF Ticks
      <4>2. do'[a].op = "write" BY <1>0, <4>1 DEF MarkedWrite
      <4>3. d.who = x BY <1>1, <4>1
      <4> QED BY <3>1, <4>2, <4>3 DEF MaySend, Ticks
    <3>2. CASE d.op \in Ticks /\ d.stage = "sends"
      <4>1. d.op \in Ticks BY <3>2
      <4>2. do'[a].op \in Ticks /\ do'[a].stage = "sends" /\ x \notin do'[a].todo
        BY <1>0, <3>2, <4>1 DEF MarkedTick
      <4>3. x \in d.todo BY <1>1, <4>1
      <4> QED BY <3>2, <4>2, <4>3 DEF MaySend, Ticks
    <3> QED BY <3>1, <3>2
  <2>3. ASSUME NEW c \in People \ {x} PROVE do'[a].copy[c].shares <= sent[c]
    <3>1. NoOne.shares <= sent[c] BY RecFacts, RecordFacts DEF IInv
    <3>2. d.copy[c].shares <= sent[c] BY DEF IInv, Few
    <3> QED BY <1>0, <3>1, <3>2 DEF MarkedTick, MarkedWrite
  <2>4. do'[a].copy[x] = rec BY <1>0
  <2> QED BY <1>2, <2>1, <2>2, <2>3, <2>4, PutFew
<1> QED BY <1>5, <1>7, <1>10, <1>11 DEF IInv

-----------------------------------------------------------------------------
(* The actions.                                                            *)

LEMMA CallFacts ==
    ASSUME IInv, NEW a \in Actors
    PROVE  /\ do[a] \in Calls /\ Reached(do[a]) /\ do[a].at <= today /\ do[a].at \in 0 .. Horizon
           /\ today \in 0 .. Horizon /\ calls \in 0 .. MaxCalls
           /\ \A c \in People : do[a].copy[c].shares <= sent[c]
           /\ \A c \in People : active[c].shares <= sent[c] /\ inactive[c].shares <= sent[c]
           /\ do[a].op \in Single => do[a].op \notin Ticks
BY ConstantFacts DEF IInv, Typed, Few, Calls, Single, Ticks, Feedback, Creating

LEMMA Taking ==
    ASSUME IInv, NEW a \in Actors, NEW rec \in Recs, Take(a, rec), UNCHANGED <<files, others>>,
           \/ do[a].pc = "get" /\ rec # NoOne /\ rec = active[do[a].who]
           \/ /\ do[a].pc = "more" /\ rec = inactive[do[a].who]
              /\ rec # NoOne \/ do[a].op \in Creating
    PROVE  IInv'
<1> DEFINE d == do[a]
           s == [d EXCEPT !.copy[d.who] = rec, !.pc = "act"]
<1>1. /\ d \in Calls /\ d.op \in Single /\ d.op \notin Ticks /\ d.who \in People /\ d.stage = "single"
      /\ d.at <= today
  BY CallFacts DEF Reached
<1>2. do' = [do EXCEPT ![a] = s] BY <1>1 DEF Take, IInv, Typed, Calls
<1>3. /\ s \in Calls /\ s.op = d.op /\ s.pc = "act" /\ s.who = d.who /\ s.stage = "single"
      /\ s.at = d.at /\ s.stale = d.stale /\ s.todo = d.todo /\ s.copy[d.who] = rec
      /\ \A c \in People \ {d.who} : s.copy[c] = d.copy[c]
  BY <1>1 DEF Calls
<1> HIDE DEF s
<1>4. do'[a] = s /\ do' = [do EXCEPT ![a] = do'[a]] BY <1>2 DEF IInv, Typed
<1>5. Reached(s) BY <1>1, <1>3 DEF Reached
<1>6. Reads(d, s)
  <2>1. d.pc \notin Changing /\ s.pc \notin Changing BY <1>3 DEF Changing
  <2>2. ASSUME NEW c \in People, Holds(s, c)
        PROVE  Same(s.copy[c], Filing(active, inactive, c)) \/ (Missed(d, c) /\ s.copy[c] = inactive[c])
    <3>1. c = d.who /\ c \notin d.stale /\ s.copy[c] = rec BY <1>1, <1>3, <2>2 DEF Holds
    <3>2. CASE d.pc = "get" BY <3>1, <3>2 DEF Same, Filing
    <3>3. CASE d.pc = "more" BY <3>1, <3>3 DEF Missed
    <3> QED BY <3>2, <3>3
  <2>3. \A c \in People : ~Missed(s, c) BY <1>3 DEF Missed
  <2> QED BY <2>1, <2>2, <2>3 DEF Reads
<1>7. Rebalanced(s, active) BY <1>3 DEF Rebalanced
<1>8. ASSUME NEW c \in People PROVE s.copy[c].shares <= sent[c]
  BY <1>1, <1>3, CallFacts
<1>9. \A c \in People : MaySend(s, c) => MaySend(d, c) BY <1>1, <1>3 DEF MaySend, Ticks
<1> QED BY <1>1, <1>3, <1>4, <1>5, <1>6, <1>7, <1>8, <1>9, ReadStep

LEMMA GettingActive ==
    ASSUME IInv, NEW a \in Actors, GetActive(a)
    PROVE  IInv'
<1> DEFINE d == do[a]
<1>1. d \in Calls /\ d.op \in Single /\ d.op \notin Ticks /\ d.who \in People /\ d.stage = "single"
      /\ d.pc = "get" /\ d.at <= today
  BY CallFacts DEF GetActive, Reached
<1>2. UNCHANGED <<files, others>> BY DEF GetActive, others
<1>3. CASE active[d.who] # NoOne
  BY <1>1, <1>2, <1>3, Taking, RecordFacts DEF GetActive, IInv
<1>4. CASE active[d.who] = NoOne
  <2> DEFINE s == [d EXCEPT !.pc = "more"]
  <2>1. do' = [do EXCEPT ![a] = s] BY <1>4 DEF GetActive
  <2>2. /\ s \in Calls /\ s.op = d.op /\ s.pc = "more" /\ s.who = d.who /\ s.stage = "single"
        /\ s.at = d.at /\ s.stale = d.stale /\ s.todo = d.todo /\ s.copy = d.copy
    BY <1>1 DEF Calls
  <2> HIDE DEF s
  <2>3. do'[a] = s /\ do' = [do EXCEPT ![a] = do'[a]] BY <2>1 DEF IInv, Typed
  <2>4. Reached(s) BY <1>1, <2>2 DEF Reached
  <2>5. Reads(d, s)
    BY <1>1, <1>4, <2>2 DEF Reads, Changing, Holds, Missed
  <2>6. Rebalanced(s, active) BY <2>2 DEF Rebalanced
  <2>7. \A c \in People : s.copy[c].shares <= sent[c] BY <2>2, CallFacts
  <2>8. \A c \in People : MaySend(s, c) => MaySend(d, c) BY <1>1, <2>2 DEF MaySend, Ticks
  <2> QED BY <1>1, <1>2, <2>2, <2>3, <2>4, <2>5, <2>6, <2>7, <2>8, ReadStep
<1> QED BY <1>3, <1>4

LEMMA GettingInactive ==
    ASSUME IInv, NEW a \in Actors, GetInactive(a)
    PROVE  IInv'
<1>1. do[a].pc = "more" /\ do[a].who \in People BY CallFacts DEF GetInactive, Reached
<1>2. UNCHANGED <<files, others>> BY DEF GetInactive, others
<1>3. CASE inactive[do[a].who] = NoOne /\ do[a].op \notin Creating
  <2>1. Finish(a) BY <1>3 DEF GetInactive
  <2>2. do[a].pc \notin Changing BY <1>1 DEF Changing
  <2> QED BY <1>2, <2>1, <2>2, Finishing
<1>4. CASE ~(inactive[do[a].who] = NoOne /\ do[a].op \notin Creating)
  <2>1. Take(a, inactive[do[a].who]) BY <1>4 DEF GetInactive
  <2>2. inactive[do[a].who] \in Recs BY <1>1, RecordFacts DEF IInv
  <2> QED BY <1>1, <1>2, <1>4, <2>1, <2>2, Taking
<1> QED BY <1>3, <1>4

(* A call about one contact comes to put it as it should.                  *)
LEMMA SinglePut ==
    ASSUME IInv, NEW a \in Actors, NEW rec \in Recs, rec # NoOne,
           do[a].pc = "act", do[a].op \in Single, Put(a, do[a].who, rec),
           UNCHANGED <<files, sessions, candidate, lock, today, calls, sent, quiet, torn>>,
           \/ UNCHANGED excused /\ Same(rec, do[a].copy[do[a].who])
           \/ excused' = excused \cup {do[a].who} /\ rec.shares = 0
    PROVE  IInv'
<1> DEFINE x == do[a].who
<1>1. x \in People /\ do[a].op \notin Ticks BY CallFacts DEF Reached
<1>2. do' = [do EXCEPT ![a] = do'[a]] /\ Marked(do[a], do'[a], x, rec)
  BY <1>1, PutMakes DEF IInv
<1>3. sent \in [People -> Nat] /\ quiet \in [People -> Nat] /\ excused \subseteq People
  BY DEF IInv, Typed
<1>4. rec.shares <= sent[x]
  <2>1. do[a].copy[x].shares <= sent[x] /\ 0 <= sent[x] BY <1>1, <1>3, CallFacts
  <2> QED BY <2>1 DEF Same
<1>5. /\ excused \subseteq excused' /\ excused' \subseteq People
      /\ x \notin excused' => Same(rec, do[a].copy[x])
  BY <1>1, <1>3
<1>6. x \notin excused' => /\ do[a].copy[x].shares = sent[x] => rec.shares = sent'[x]
                           /\ do[a].copy[x].cool >= quiet[x] => rec.cool >= quiet'[x]
  BY <1>5 DEF Same
<1> QED BY <1>1, <1>2, <1>3, <1>4, <1>5, <1>6, PutStep

LEMMA Upserting ==
    ASSUME IInv, NEW a \in Actors, Upsert(a)
    PROVE  IInv'
<1>1. PICK on \in Kept : Put(a, do[a].who, Contact(on)) /\ do[a].op \in Single /\ do[a].pc = "act"
  BY DEF Upsert, Kept, Single, Creating
<1>2. Contact(on) \in Recs /\ Contact(on) # NoOne /\ Contact(on).shares = 0 BY RecFacts
<1>3. /\ UNCHANGED <<files, sessions, candidate, lock, today, calls, sent, quiet, torn>>
      /\ excused' = excused \cup {do[a].who}
  BY DEF Upsert
<1> QED BY <1>1, <1>2, <1>3, SinglePut

LEMMA MineFacts ==
    ASSUME IInv, NEW a \in Actors, do[a].pc = "act", do[a].op \in Single
    PROVE  /\ do[a].who \in People /\ Mine(a) = do[a].copy[do[a].who] /\ Mine(a) \in Recs
           /\ Mine(a) # NoOne \/ do[a].op \in Creating
<1>1. do[a].who \in People /\ (do[a].op \in Creating \/ do[a].copy[do[a].who] # NoOne)
  BY CallFacts DEF Reached
<1> QED BY <1>1, RecordFacts DEF Mine, IInv

LEMMA StatusOf ==
    ASSUME NEW r \in Recs, NEW on \in Kept
    PROVE  [r EXCEPT !.on = on] \in Recs /\ [r EXCEPT !.on = on] # NoOne /\ Same([r EXCEPT !.on = on], r)
<1>1. /\ [r EXCEPT !.on = on] \in Recs /\ [r EXCEPT !.on = on] # NoOne
      /\ [r EXCEPT !.on = on].shares = r.shares /\ [r EXCEPT !.on = on].cool = r.cool
  BY RecFacts
<1> QED BY <1>1 DEF Same

LEMMA Editing ==
    ASSUME IInv, NEW a \in Actors, Edit(a) \/ SetStatus(a)
    PROVE  IInv'
<1>1. /\ do[a].op \in Single /\ do[a].pc = "act" /\ UNCHANGED excused
      /\ UNCHANGED <<files, sessions, candidate, lock, today, calls, sent, quiet, torn>>
  BY DEF Edit, SetStatus, Acts, Single, Creating, history
<1>2. \E rec \in Recs : /\ Put(a, do[a].who, rec) /\ rec # NoOne
                        /\ Same(rec, do[a].copy[do[a].who])
  <2>1. Mine(a) = do[a].copy[do[a].who] /\ Mine(a) \in Recs BY <1>1, MineFacts
  <2>2. CASE Put(a, do[a].who, IF Mine(a) = NoOne THEN Contact("active") ELSE Mine(a))
    <3>1. "active" \in Kept BY DEF Kept
    <3> QED BY <2>1, <2>2, <3>1, RecFacts DEF Same
  <2>3. CASE \E on \in {"active", "inactive"} :
               Put(a, do[a].who, IF Mine(a) = NoOne THEN Contact(on) ELSE [Mine(a) EXCEPT !.on = on])
    <3>1. PICK on \in Kept :
            Put(a, do[a].who, IF Mine(a) = NoOne THEN Contact(on) ELSE [Mine(a) EXCEPT !.on = on])
      BY <2>3 DEF Kept
    <3>2. /\ [Mine(a) EXCEPT !.on = on] \in Recs /\ [Mine(a) EXCEPT !.on = on] # NoOne
          /\ Same([Mine(a) EXCEPT !.on = on], Mine(a))
      BY <2>1, StatusOf
    <3>3. /\ Contact(on) \in Recs /\ Contact(on) # NoOne /\ Same(Contact(on), NoOne)
      BY RecFacts DEF Same
    <3> QED BY <2>1, <3>1, <3>2, <3>3
  <2>4. CASE \E on \in {"active", "inactive"} : Put(a, do[a].who, [Mine(a) EXCEPT !.on = on])
    <3>1. PICK on \in Kept : Put(a, do[a].who, [Mine(a) EXCEPT !.on = on]) BY <2>4 DEF Kept
    <3>2. /\ [Mine(a) EXCEPT !.on = on] \in Recs /\ [Mine(a) EXCEPT !.on = on] # NoOne
          /\ Same([Mine(a) EXCEPT !.on = on], Mine(a))
      BY <2>1, StatusOf
    <3> QED BY <2>1, <3>1, <3>2
  <2> QED BY <2>2, <2>3, <2>4 DEF Edit, SetStatus
<1> QED BY <1>1, <1>2, SinglePut

LEMMA Refreshing ==
    ASSUME IInv, NEW a \in Actors, Refresh(a)
    PROVE  IInv'
<1>1. /\ do[a].op \in Single /\ do[a].op \notin Creating /\ do[a].pc = "act" /\ UNCHANGED excused
      /\ UNCHANGED <<files, sessions, candidate, lock, today, calls, sent, quiet, torn>>
      /\ UNCHANGED <<files, others>>
  BY DEF Refresh, Acts, Single, Creating, history, others
<1>2. Mine(a) = do[a].copy[do[a].who] /\ Mine(a) \in Recs /\ Mine(a) # NoOne BY <1>1, MineFacts
<1>3. CASE Put(a, do[a].who, Mine(a)) BY <1>1, <1>2, <1>3, SinglePut DEF Same
<1>4. CASE Finish(a) BY <1>1, <1>4, Finishing DEF Changing
<1> QED BY <1>3, <1>4 DEF Refresh

(* A message goes out, or fails to.                                        *)
LEMMA Delivering ==
    ASSUME IInv, NEW a \in Actors, NEW x \in People, do[a].pc = "act",
           \/ do[a].op = "send" /\ do[a].who = x
           \/ do[a].op \in Ticks /\ do[a].stage = "sends" /\ x \in do[a].todo,
           do[a].copy[x] # NoOne, Deliver(a, x, do[a].copy[x]),
           UNCHANGED <<files, sessions, candidate, lock, today, calls, excused, torn>>
    PROVE  IInv'
<1> DEFINE rec == do[a].copy[x]
           one == [rec EXCEPT !.shares = @ + 1]
           alone == [rec EXCEPT !.cool = do[a].at + FailureDays]
<1>1. /\ rec \in Recs /\ rec.shares \in Nat /\ do[a].at + FailureDays \in Days
      /\ do[a].at + FailureDays \in Nat
      /\ sent \in [People -> Nat] /\ quiet \in [People -> Nat] /\ excused \subseteq People
      /\ rec.shares <= sent[x]
  BY CallFacts, RecordFacts, RecFacts, DaysFacts DEF IInv, Typed
<1>2. /\ one \in Recs /\ one # NoOne /\ one.shares = rec.shares + 1 /\ one.cool = rec.cool
  <2>1. rec.shares + 1 \in Nat BY <1>1
  <2> QED BY <1>1, <2>1, RecFacts
<1>3. /\ alone \in Recs /\ alone # NoOne /\ alone.shares = rec.shares
      /\ alone.cool = do[a].at + FailureDays
  BY <1>1, RecFacts
<1>4. \/ do[a].op \in Ticks /\ x \in do[a].todo
      \/ do[a].op \in Single /\ do[a].who = x
  BY DEF Single
<1>5. ~(do[a].op \in Ticks /\ do[a].stage = "keeps") BY CallFacts DEF Single
<1>6. CASE /\ Put(a, x, one)
           /\ sent' = [sent EXCEPT ![x] = @ + 1]
           /\ UNCHANGED quiet
  <2>1. do' = [do EXCEPT ![a] = do'[a]] /\ Marked(do[a], do'[a], x, one)
    BY <1>2, <1>6, PutMakes DEF IInv
  <2>2. /\ sent' \in [People -> Nat] /\ sent'[x] = sent[x] + 1
        /\ \A c \in People \ {x} : sent'[c] = sent[c]
    BY <1>1, <1>6
  <2>3. /\ one.shares <= sent'[x]
        /\ rec.shares = sent[x] => one.shares = sent'[x]
        /\ rec.cool >= quiet[x] => one.cool >= quiet'[x]
    BY <1>1, <1>2, <1>6, <2>2
  <2> HIDE DEF rec, one, alone
  <2> QED BY <1>1, <1>2, <1>4, <1>5, <1>6, <2>1, <2>2, <2>3, PutStep DEF rec
<1>7. CASE /\ Put(a, x, alone)
           /\ quiet' = [quiet EXCEPT ![x] = do[a].at + FailureDays]
           /\ UNCHANGED sent
  <2>1. do' = [do EXCEPT ![a] = do'[a]] /\ Marked(do[a], do'[a], x, alone)
    BY <1>3, <1>7, PutMakes DEF IInv
  <2>2. /\ quiet' \in [People -> Nat] /\ quiet'[x] = do[a].at + FailureDays
        /\ \A c \in People \ {x} : quiet'[c] = quiet[c]
    BY <1>1, <1>7
  <2>3. /\ alone.shares <= sent'[x]
        /\ rec.shares = sent[x] => alone.shares = sent'[x]
        /\ rec.cool >= quiet[x] => alone.cool >= quiet'[x]
    BY <1>1, <1>3, <1>7, <2>2
  <2> HIDE DEF rec, one, alone
  <2> QED BY <1>1, <1>3, <1>4, <1>5, <1>7, <2>1, <2>2, <2>3, PutStep DEF rec
<1> QED BY <1>6, <1>7 DEF Deliver

LEMMA Sending ==
    ASSUME IInv, NEW a \in Actors, SendDecision(a)
    PROVE  IInv'
<1>1. do[a].pc = "act" /\ do[a].op = "send" /\ do[a].op \in Single /\ do[a].op \notin Creating
  BY DEF SendDecision, Acts, Single, Creating
<1>2. /\ do[a].who \in People /\ Mine(a) = do[a].copy[do[a].who] /\ Mine(a) # NoOne
  BY <1>1, MineFacts
<1>3. UNCHANGED <<files, sessions, candidate, lock, today, calls, excused, torn>>
  BY DEF SendDecision
<1>4. CASE Eligible(Mine(a), do[a].at)
  <2>1. Deliver(a, do[a].who, Mine(a)) BY <1>4 DEF SendDecision
  <2> QED BY <1>1, <1>2, <1>3, <2>1, Delivering
<1>5. CASE ~Eligible(Mine(a), do[a].at)
  <2>1. Finish(a) /\ UNCHANGED <<files, others>>
    BY <1>5 DEF SendDecision, others, history
  <2> QED BY <1>1, <2>1, Finishing DEF Changing
<1> QED BY <1>4, <1>5

LEMMA SendingNext ==
    ASSUME IInv, NEW a \in Actors, SendNext(a)
    PROVE  IInv'
<1>1. /\ do[a].pc = "act" /\ do[a].op \in Ticks /\ do[a].stage = "sends"
      /\ UNCHANGED <<files, sessions, candidate, lock, today, calls, excused, torn>>
  BY DEF SendNext, At
<1>2. PICK x \in do[a].todo : Deliver(a, x, do[a].copy[x]) BY DEF SendNext
<1>3. do[a].todo \subseteq People BY CallFacts DEF Calls
<1>4. do[a].copy[x] # NoOne BY <1>1, CallFacts DEF Reached
<1> QED BY <1>1, <1>2, <1>3, <1>4, Delivering

(* The records a tick goes through are put as they are.                    *)
LEMMA Rewriting ==
    ASSUME IInv, NEW a \in Actors, AssignNickname(a) \/ ApplyPreferences(a)
    PROVE  IInv'
<1> DEFINE d == do[a]
<1>1. /\ d.pc = "act" /\ d.op \in Ticks /\ d.stage \in {"nicknames", "preferences"}
      /\ UNCHANGED <<files, sessions, candidate, lock, today, calls, sent, quiet, excused, torn>>
  BY DEF AssignNickname, ApplyPreferences, Rewrite, At, history
<1>2. PICK x \in d.todo :
        do' = [do EXCEPT ![a] = [d EXCEPT !.who = x, !.pc = "put", !.todo = {e \in d.todo : e > x}]]
  BY DEF AssignNickname, ApplyPreferences, Rewrite
<1> DEFINE s == [d EXCEPT !.who = x, !.pc = "put", !.todo = {e \in d.todo : e > x}]
<1>3. d \in Calls /\ d.todo \subseteq People /\ x \in People /\ x \in Nat
  BY CallFacts, ConstantFacts DEF Calls
<1>4. /\ s \in Calls /\ s.who = x /\ s.pc = "put" /\ s.todo = {e \in d.todo : e > x}
      /\ s.op = d.op /\ s.stage = d.stage /\ s.at = d.at /\ s.copy = d.copy /\ s.stale = d.stale
  BY <1>3 DEF Calls
<1> HIDE DEF s
<1>5. do'[a] = s /\ do' = [do EXCEPT ![a] = do'[a]] BY <1>2 DEF s, IInv, Typed
<1>6. s.todo \subseteq d.todo \ {x} BY <1>3, <1>4, ConstantFacts
<1>7. Marked(d, s, x, d.copy[x])
  BY <1>1, <1>4, <1>6 DEF Marked, MarkedTick
<1>8. d.copy[x] \in Recs /\ d.copy[x] # NoOne /\ d.copy[x].shares <= sent[x]
  BY <1>1, <1>3, CallFacts, RecordFacts DEF Reached, IInv
<1>9. sent \in [People -> Nat] /\ quiet \in [People -> Nat] /\ excused \subseteq People
  BY DEF IInv, Typed
<1> QED BY <1>1, <1>3, <1>5, <1>7, <1>8, <1>9, PutStep

(* A tick passes to the next stage with some of its contacts.              *)
LEMMA Entering ==
    ASSUME IInv, NEW a \in Actors, NEW stage, NEW T \in SUBSET People,
           do[a].pc = "act", do[a].op \in Ticks, do[a].stage \notin {"sends", "keeps"},
           stage \in {"preferences", "sends"},
           T \subseteq Chosen(a), Enter(a, stage, T),
           UNCHANGED <<files, others>>
    PROVE  IInv'
<1> DEFINE d == do[a]
           s == [d EXCEPT !.stage = stage, !.todo = T,
                          !.copy = [c \in People |-> IF c \in T THEN d.copy[c] ELSE NoOne]]
<1>1. d \in Calls /\ d.at <= today BY CallFacts
<1>2. \A c \in T : d.copy[c] # NoOne /\ d.copy[c].cool <= d.at
  BY RecFacts DEF Chosen, Eligible
<1>3. do' = [do EXCEPT ![a] = s] BY DEF Enter
<1>4. /\ s.stage = stage /\ s.todo = T /\ s.op = d.op /\ s.pc = d.pc /\ s.who = d.who
      /\ s.at = d.at /\ s.level = d.level /\ s.stale = d.stale
      /\ s.copy = [c \in People |-> IF c \in T THEN d.copy[c] ELSE NoOne]
  BY <1>1 DEF Calls
<1>5. s \in Calls
  <2>1. [c \in People |-> IF c \in T THEN d.copy[c] ELSE NoOne] \in [People -> Recs]
    BY <1>1, RecFacts, RecordFacts DEF IInv
  <2> QED BY <1>1, <2>1 DEF Calls, Stages
<1> HIDE DEF s
<1>6. do'[a] = s /\ do' = [do EXCEPT ![a] = do'[a]] BY <1>3 DEF IInv, Typed
<1>7. \A c \in People : s.copy[c] = IF c \in T THEN d.copy[c] ELSE NoOne BY <1>4
<1>8. Reached(s) BY <1>2, <1>4, <1>7 DEF Reached
<1>9. Reads(d, s)
  <2>1. \A c \in People : Holds(s, c) => Holds(d, c) /\ s.copy[c] = d.copy[c]
    BY <1>4, <1>7 DEF Holds
  <2>2. \A c \in People : ~Missed(s, c) BY <1>4 DEF Missed
  <2> QED BY <1>4, <2>1, <2>2 DEF Reads, Same, Changing
<1>10. Rebalanced(s, active) BY <1>4 DEF Rebalanced
<1>11. ASSUME NEW c \in People PROVE s.copy[c].shares <= sent[c]
  BY <1>7, CallFacts, RecFacts, RecordFacts DEF IInv
<1>12. \A c \in People : MaySend(s, c) => MaySend(d, c) BY <1>4 DEF MaySend
<1> QED BY <1>1, <1>4, <1>5, <1>6, <1>8, <1>9, <1>10, <1>11, <1>12, ReadStep

LEMMA Choosing ==
    ASSUME IInv, NEW a \in Actors, ReadCandidates(a) \/ Decide(a)
    PROVE  IInv'
<1>1. /\ do[a].pc = "act" /\ do[a].op \in Ticks /\ do[a].stage \in {"nicknames", "preferences"}
      /\ UNCHANGED <<files, others>>
  BY DEF ReadCandidates, Decide, At, others
<1>2. \E T \in SUBSET Chosen(a) : Enter(a, "preferences", T) \/ Enter(a, "sends", T)
  BY DEF ReadCandidates, Decide
<1>3. Chosen(a) \subseteq People BY DEF Chosen
<1> QED BY <1>1, <1>2, <1>3, Entering

LEMMA Listing ==
    ASSUME IInv, NEW a \in Actors, ListContacts(a)
    PROVE  IInv'
<1> DEFINE d == do[a]
           T == IF d.op = "rank" THEN {} ELSE Known(active)
           s == [d EXCEPT !.pc = "act", !.copy = active, !.stage = "nicknames", !.todo = T]
<1>1. do' = [do EXCEPT ![a] = s] /\ d.pc = "list" /\ UNCHANGED <<files, others>>
  BY DEF ListContacts, others
<1>2. d \in Calls /\ d.at <= today /\ d.op \in Ticks /\ d.stage = "single" /\ d.stale = {}
  BY <1>1, CallFacts DEF Reached
<1>3. T \subseteq People /\ \A c \in T : active[c] # NoOne BY DEF Known
<1>4. active \in [People -> Recs] BY DEF IInv, Typed
<1> HIDE DEF T
<1>5. /\ s \in Calls /\ s.pc = "act" /\ s.copy = active /\ s.stage = "nicknames" /\ s.todo = T
      /\ s.op = d.op /\ s.at = d.at /\ s.stale = {}
  BY <1>2, <1>3, <1>4 DEF Calls, Stages
<1> HIDE DEF s
<1>6. do'[a] = s /\ do' = [do EXCEPT ![a] = do'[a]] BY <1>1 DEF IInv, Typed
<1>7. Reached(s) BY <1>2, <1>3, <1>5 DEF Reached
<1>8. Reads(d, s)
  <2>1. \A c \in People : Holds(s, c) => Same(s.copy[c], Filing(active, inactive, c))
    BY <1>2, <1>5 DEF Holds, Same, Filing
  <2>2. \A c \in People : ~Missed(s, c) BY <1>5 DEF Missed
  <2> QED BY <1>1, <1>5, <2>1, <2>2 DEF Reads, Changing
<1>9. Rebalanced(s, active) BY <1>5 DEF Rebalanced
<1>10. \A c \in People : s.copy[c].shares <= sent[c] BY <1>5, CallFacts
<1>11. \A c \in People : MaySend(s, c) => MaySend(d, c) BY <1>2 DEF MaySend
<1> QED BY <1>1, <1>2, <1>5, <1>6, <1>7, <1>8, <1>9, <1>10, <1>11, ReadStep

(* The session is moved by the signal, and the contact may be set aside.   *)
LEMMA MovedFacts ==
    ASSUME NEW level \in 0 .. 100, NEW signal \in Feedback
    PROVE  Moved(level, signal) \in 0 .. 100
<1>1. CASE signal = "positive"
  <2>1. Moved(level, signal) = Min({100, level + 15}) BY <1>1 DEF Moved
  <2>2. Min({100, level + 15}) \in {100, level + 15} /\ Min({100, level + 15}) <= 100
    BY MinOfTwo
  <2> QED BY <2>1, <2>2
<1>2. CASE signal = "neutral" BY <1>2 DEF Moved
<1>3. CASE signal = "negative" BY <1>3 DEF Moved
<1> QED BY <1>1, <1>2, <1>3 DEF Feedback

LEMMA Feeding ==
    ASSUME IInv, NEW a \in Actors, UpdateFeedback(a)
    PROVE  IInv'
<1> DEFINE d == do[a]
           x == d.who
<1>1. /\ d.pc = "act" /\ d.op \in Feedback /\ d.op \in Single /\ d.op \notin Creating
      /\ UNCHANGED <<active, inactive, sessions, candidate, lock, today, calls, sent, excused, torn>>
  BY DEF UpdateFeedback, files, Feedback, Creating, Single
<1>2. /\ d \in Calls /\ Reached(d) /\ d.at \in 0 .. Horizon /\ d.op \notin Ticks /\ d.at <= today
      /\ today \in 0 .. Horizon /\ Horizon \in Nat
  BY <1>1, CallFacts, ConstantFacts
<1>3. /\ x \in People /\ Mine(a) = d.copy[x] /\ d.copy[x] \in Recs /\ d.copy[x] # NoOne
      /\ d.stage = "single"
  BY <1>1, <1>2, MineFacts DEF Reached, Ticks, Single
<1>4. PICK days \in IF d.op = "negative" THEN CooldownDays(Moved(sessions[x], d.op)) ELSE {0} :
        LET level == Moved(sessions[x], d.op)
            until == IF days = 0 THEN Mine(a).cool ELSE d.at + days
        IN /\ do' = [do EXCEPT ![a] = [d EXCEPT !.op = "write", !.level = level, !.at = 0,
                                                !.copy[x].cool = until, !.pc = "session"]]
           /\ quiet' = IF days = 0 THEN quiet ELSE [quiet EXCEPT ![x] = until]
  BY DEF UpdateFeedback
<1>4a. days \in {0, 1, 2, 3}
  <2>1. \A level : CooldownDays(level) \subseteq {0, 1, 2, 3} BY DEF CooldownDays
  <2> QED BY <2>1
<1> DEFINE level == Moved(sessions[x], d.op)
           until == IF days = 0 THEN Mine(a).cool ELSE d.at + days
           rec == [d.copy[x] EXCEPT !.cool = until]
           copy == [d.copy EXCEPT ![x] = rec]
           s == [d EXCEPT !.op = "write", !.level = level, !.at = 0, !.copy = copy, !.pc = "session"]
<1>5. level \in 0 .. 100
  <2>1. sessions[x] \in 0 .. 100 BY <1>3 DEF IInv, Typed
  <2> QED BY <1>1, <2>1, MovedFacts
<1>6. until \in Days /\ until \in Nat
  <2>1. CASE days = 0 BY <1>3, <2>1, RecFacts, DaysFacts
  <2>2. CASE days # 0
    <3>1. days \in {1, 2, 3} BY <1>4a, <2>2
    <3>2. d.at + days \in Days BY <1>2, <3>1, DaysFacts
    <3> QED BY <2>2, <3>2, DaysFacts
  <2> QED BY <2>1, <2>2
<1>7. rec \in Recs /\ rec # NoOne /\ rec.shares = d.copy[x].shares /\ rec.cool = until
  BY <1>3, <1>6, RecFacts
<1>7a. /\ copy \in [People -> Recs] /\ copy[x] = rec
       /\ \A c \in People \ {x} : copy[c] = d.copy[c]
  BY <1>2, <1>3, <1>7 DEF Calls
<1>8. /\ do' = [do EXCEPT ![a] = s]
      /\ quiet' = IF days = 0 THEN quiet ELSE [quiet EXCEPT ![x] = until]
  BY <1>4
<1> HIDE DEF level, until, rec, copy
<1>9. /\ s \in Calls /\ s.op = "write" /\ s.pc = "session" /\ s.who = x /\ s.stage = "single"
      /\ s.at = 0 /\ s.stale = d.stale /\ s.copy[x] = rec
      /\ \A c \in People \ {x} : s.copy[c] = d.copy[c]
  <2>1. 0 \in 0 .. Horizon BY <1>2
  <2>2. d.stage = "single" BY <1>3
  <2> QED BY <1>2, <1>5, <1>7a, <2>1, <2>2 DEF Calls
<1> HIDE DEF s
<1>10. do'[a] = s /\ do' = [do EXCEPT ![a] = do'[a]] BY <1>8 DEF IInv, Typed
<1>11. /\ quiet' \in [People -> Nat] /\ \A c \in People \ {x} : quiet'[c] = quiet[c]
       /\ d.copy[x].cool >= quiet[x] => rec.cool >= quiet'[x]
  <2>1. quiet \in [People -> Nat] BY DEF IInv, Typed
  <2>2. CASE days = 0
    <3>1. until = d.copy[x].cool BY <1>3, <2>2 DEF until
    <3> QED BY <1>7, <1>8, <2>1, <2>2, <3>1
  <2>3. CASE days # 0
    <3>1. quiet' = [quiet EXCEPT ![x] = until] BY <1>8, <2>3
    <3> QED BY <1>3, <1>6, <1>7, <2>1, <3>1
  <2> QED BY <2>2, <2>3
<1>12. Reached(s) BY <1>3, <1>7, <1>9 DEF Reached, Ticks
<1>13. Typed'
  <2>1. s.at <= today BY <1>2, <1>9
  <2> QED BY <1>1, <1>9, <1>10, <1>11, <1>12, <2>1, Typing DEF IInv, Typed
<1>14. Locked' /\ Filed' /\ Bounded'
  <2>1. Rebalanced(s, active) BY <1>9 DEF Rebalanced, Ticks
  <2> QED BY <1>1, <1>9, <1>10, <2>1, Thinking
<1>15. Counted' /\ Warned'
  <2>1. x \in d.stale \/ Holds(d, x) BY <1>1, <1>2 DEF Holds
  <2>2. \A c \in People \ {x} : Holds(s, c) => Holds(d, c) /\ s.copy[c] = d.copy[c]
    BY <1>9 DEF Holds, Ticks
  <2> HIDE DEF d, x
  <2>3. \A c \in People \ {x} : sent'[c] = sent[c] /\ quiet'[c] = quiet[c] BY <1>1, <1>11
  <2>4. /\ d.copy[x].shares = sent[x] => s.copy[x].shares = sent'[x]
        /\ d.copy[x].cool >= quiet[x] => s.copy[x].cool >= quiet'[x]
    BY <1>1, <1>7, <1>9, <1>11
  <2> QED BY <1>1, <1>3, <1>9, <1>10, <2>1, <2>2, <2>3, <2>4, Beginning DEF d, x
<1>16. Few'
  <2>1. ASSUME NEW c \in People PROVE s.copy[c].shares <= sent[c]
    BY <1>7, <1>9, CallFacts
  <2>2. \A c \in People : MaySend(s, c) => MaySend(d, c) BY <1>9 DEF MaySend, Ticks
  <2> QED BY <1>1, <1>10, <2>1, <2>2, StillFew
<1> QED BY <1>13, <1>14, <1>15, <1>16 DEF IInv

LEMMA PuttingSession ==
    ASSUME IInv, NEW a \in Actors, PutSession(a)
    PROVE  IInv'
<1> DEFINE d == do[a]
           x == d.who
           s == [d EXCEPT !.pc = "put", !.level = 0]
<1>1. /\ d.pc = "session" /\ do' = [do EXCEPT ![a] = s]
      /\ sessions' = [sessions EXCEPT ![x] = d.level]
      /\ UNCHANGED <<active, inactive, candidate, lock, today, calls, sent, quiet, excused, torn>>
  BY DEF PutSession, files, history
<1>2. d \in Calls /\ Reached(d) /\ d.at <= today BY CallFacts
<1>3. d.op = "write" /\ x \in People /\ d.stage = "single" /\ d.copy[x] # NoOne
  BY <1>1, <1>2 DEF Reached
<1>4. /\ s \in Calls /\ s.op = d.op /\ s.pc = "put" /\ s.who = x /\ s.stage = d.stage
      /\ s.at = d.at /\ s.stale = d.stale /\ s.copy = d.copy
  <2>1. 0 \in 0 .. 100 OBVIOUS
  <2>2. s \in Calls BY <1>2, <2>1 DEF Calls
  <2> QED BY <1>2, <2>2 DEF Calls
<1> HIDE DEF s
<1>5. do'[a] = s /\ do' = [do EXCEPT ![a] = do'[a]] BY <1>1 DEF IInv, Typed
<1>6. Reached(s) BY <1>3, <1>4 DEF Reached, Ticks
<1>7. Typed'
  <2>1. sessions' \in [People -> 0 .. 100] BY <1>1, <1>2, <1>3 DEF IInv, Typed, Calls
  <2> QED BY <1>1, <1>2, <1>4, <1>5, <1>6, <2>1, Typing DEF IInv, Typed
<1>8. Locked' /\ Filed' /\ Bounded'
  <2>1. Rebalanced(s, active) BY <1>3, <1>4 DEF Rebalanced
  <2> QED BY <1>1, <1>4, <1>5, <2>1, Thinking
<1>9. Few'
  <2>1. \A c \in People : s.copy[c].shares <= sent[c] BY <1>4, CallFacts
  <2>2. \A c \in People : MaySend(s, c) => MaySend(d, c) BY <1>3, <1>4 DEF MaySend, Ticks
  <2> QED BY <1>1, <1>5, <2>1, <2>2, StillFew
<1>10. \A b \in Actors \ {a} : do'[b] = do[b] BY <1>5 DEF IInv, Typed
<1>11. \A c \in People : /\ Holds(do'[a], c) => Holds(d, c) /\ do'[a].copy[c] = d.copy[c]
                         /\ ~Missed(do'[a], c)
  BY <1>1, <1>4, <1>5 DEF Holds, Missed
<1>12. \A W : \A c \in People \ {x} : ~Changes(d, c, W) /\ ~Changes(do'[a], c, W)
  BY <1>4, <1>5 DEF Changes
<1>13. ASSUME NEW c \in People \ excused
       PROVE  Settled(do', active, inactive, c, Putting, Counting(c))
  <2>1. Settled(do, active, inactive, c, Putting, Counting(c)) BY DEF IInv, Counted
  <2>2. ~Changes(d, c, Putting) BY <1>1 DEF Changes, Putting
  <2>3. CASE c = x
    <3>1. Changes(do'[a], c, Putting) /\ do'[a].pc # "save"
      BY <1>4, <1>5, <2>3 DEF Changes, Putting
    <3>2. c \in do'[a].stale \/ (Holds(d, c) /\ (d.copy[c] \in Counting(c) => do'[a].copy[c] \in Counting(c)))
      BY <1>1, <1>3, <1>4, <1>5, <2>3 DEF Holds, Ticks
    <3> QED BY <1>10, <2>1, <2>2, <3>1, <3>2, Begins
  <2>4. CASE c # x
    BY <1>10, <1>11, <1>12, <2>1, <2>2, <2>4, Quietly
  <2> QED BY <2>3, <2>4
<1>14. ASSUME NEW c \in People \ excused
       PROVE  Settled(do', active, inactive, c, Changing, Warning(c))
  <2>1. Settled(do, active, inactive, c, Changing, Warning(c)) BY DEF IInv, Warned
  <2>2. CASE c = x
    <3>1. Changes(d, c, Changing) /\ Changes(do'[a], c, Changing) /\ do'[a].pc # "save"
      BY <1>1, <1>4, <1>5, <2>2 DEF Changes, Changing
    <3>2. do'[a].stale = d.stale /\ do'[a].copy[c] = d.copy[c] BY <1>4, <1>5
    <3> QED BY <1>10, <2>1, <3>1, <3>2, Continues
  <2>3. CASE c # x
    BY <1>10, <1>11, <1>12, <2>1, <2>3, Quietly
  <2> QED BY <2>2, <2>3
<1>15. Counted' /\ Warned'
  BY <1>1, <1>13, <1>14 DEF Counted, Warned, Counting, Warning
<1> QED BY <1>7, <1>8, <1>9, <1>15 DEF IInv

(* The active contacts are read again, and all but the best set aside.     *)
LEMMA Rebalancing ==
    ASSUME IInv, NEW a \in Actors, Rebalance(a)
    PROVE  IInv'
<1> DEFINE d == do[a]
<1>1. /\ d.pc = "act" /\ d.op \in Ticks /\ d.stage = "sends" /\ UNCHANGED <<files, others>>
  BY DEF Rebalance, At, others
<1>2. CASE Cardinality(Known(active)) <= MaxActive
  <2>1. Finish(a) BY <1>2 DEF Rebalance
  <2> QED BY <1>1, <2>1, Finishing DEF Changing
<1>3. CASE ~(Cardinality(Known(active)) <= MaxActive)
  <2>1. PICK best \in kSubset(MaxActive, Known(active)) :
          do' = [do EXCEPT ![a] =
                   [d EXCEPT !.stage = "keeps", !.todo = Known(active), !.stale = {}, !.at = 0,
                             !.copy = [c \in People |->
                     IF c \in Known(active) \ best THEN [active[c] EXCEPT !.on = "inactive"]
                     ELSE active[c]]]]
    BY <1>3 DEF Rebalance
  <2>2. best \subseteq Known(active) /\ Cardinality(best) = MaxActive BY DEF kSubset
  <2>3. Known(active) \subseteq People /\ \A c \in Known(active) : active[c] # NoOne BY DEF Known
  <2> DEFINE K == Known(active)
             copy == [c \in People |->
                        IF c \in K \ best THEN [active[c] EXCEPT !.on = "inactive"] ELSE active[c]]
             s == [d EXCEPT !.stage = "keeps", !.todo = K, !.stale = {}, !.at = 0, !.copy = copy]
  <2>4. do' = [do EXCEPT ![a] = s] BY <2>1
  <2>5. ASSUME NEW c \in People
        PROVE  /\ copy[c] \in Recs /\ Same(copy[c], active[c])
               /\ active[c] # NoOne => copy[c] # NoOne
               /\ active[c] = NoOne => copy[c] = NoOne
               /\ c \in K \ best => copy[c].on = "inactive"
               /\ c \notin K \ best => copy[c].on # "inactive"
    <3>1. active[c] \in Recs /\ active[c].on # "inactive" BY RecordFacts DEF IInv, Filed
    <3>2. CASE c \in K \ best
      <4>1. "inactive" \in Kept BY DEF Kept
      <4>2. copy[c] = [active[c] EXCEPT !.on = "inactive"] BY <3>2
      <4>3. copy[c].on = "inactive" BY <3>1, <4>2 DEF Recs
      <4>4. copy[c] \in Recs /\ copy[c] # NoOne /\ Same(copy[c], active[c])
        BY <3>1, <4>1, <4>2, StatusOf
      <4>5. active[c] # NoOne BY <2>3, <3>2
      <4> QED BY <3>2, <4>3, <4>4, <4>5
    <3>3. CASE c \notin K \ best
      BY <3>1, <3>3 DEF Same
    <3> QED BY <3>2, <3>3
  <2> HIDE DEF K
  <2>6. d \in Calls /\ 0 \in 0 .. Horizon /\ today \in 0 .. Horizon
    BY CallFacts, ConstantFacts
  <2>7. copy \in [People -> Recs] BY <2>5
  <2> HIDE DEF copy
  <2>8. K \subseteq People BY <2>3 DEF K
  <2>9. /\ s \in Calls /\ s.stage = "keeps" /\ s.todo = K /\ s.stale = {} /\ s.at = 0
        /\ s.copy = copy /\ s.pc = d.pc /\ s.op = d.op /\ s.who = d.who
    BY <2>6, <2>7, <2>8 DEF Calls, Stages
  <2> HIDE DEF s
  <2>10. do'[a] = s /\ do' = [do EXCEPT ![a] = do'[a]] BY <2>4 DEF IInv, Typed
  <2>11. Reached(s) BY <1>1, <2>3, <2>5, <2>8, <2>9 DEF Reached, K
  <2>12. Reads(d, s)
    <3>1. ASSUME NEW c \in People, Holds(s, c)
          PROVE  Same(s.copy[c], Filing(active, inactive, c))
      <4>1. copy[c] # NoOne BY <1>1, <2>9, <3>1 DEF Holds
      <4>2. active[c] # NoOne BY <2>5, <4>1
      <4> QED BY <2>5, <2>9, <4>2 DEF Filing
    <3>2. \A c \in People : ~Missed(s, c) BY <1>1, <2>9 DEF Missed
    <3> QED BY <1>1, <2>9, <3>1, <3>2 DEF Reads, Changing
  <2>13. Rebalanced(s, active)
    <3>1. Going(s) = K \ best
      <4>1. \A c \in Going(s) : c \in K \ best BY <1>1, <2>5, <2>8, <2>9 DEF Going
      <4>2. \A c \in K \ best : c \in Going(s) BY <2>5, <2>8, <2>9 DEF Going
      <4> QED BY <4>1, <4>2
    <3>2. K \ Going(s) = best BY <2>2, <3>1 DEF K
    <3>3. Cardinality(Known(active) \ Going(s)) <= MaxActive
      BY <2>2, <3>2, ConstantFacts DEF K
    <3> QED BY <1>1, <2>9, <3>3 DEF Rebalanced, K
  <2>14. ASSUME NEW c \in People PROVE s.copy[c].shares <= sent[c]
    BY <2>5, <2>9, CallFacts DEF Same
  <2>15. \A c \in People : ~MaySend(s, c) BY <1>1, <2>9 DEF MaySend, Ticks
  <2> QED BY <1>1, <2>6, <2>9, <2>10, <2>11, <2>12, <2>13, <2>14, <2>15, ReadStep
<1> QED BY <1>2, <1>3

LEMMA KeepingNext ==
    ASSUME IInv, NEW a \in Actors, KeepNext(a)
    PROVE  IInv'
<1>1. /\ do[a].pc = "act" /\ do[a].op \in Ticks /\ do[a].stage = "keeps"
      /\ UNCHANGED <<files, others>>
      /\ UNCHANGED <<files, sessions, candidate, lock, today, calls, sent, quiet, excused, torn>>
  BY DEF KeepNext, At, others, history
<1>2. CASE \E x \in do[a].todo : Put(a, x, do[a].copy[x])
  <2>1. PICK x \in do[a].todo : Put(a, x, do[a].copy[x]) BY <1>2
  <2>2. x \in People /\ do[a].copy[x] \in Recs /\ do[a].copy[x] # NoOne
        /\ do[a].copy[x].shares <= sent[x]
    <3>1. x \in People BY CallFacts DEF Calls
    <3> QED BY <1>1, <3>1, CallFacts, RecordFacts DEF Reached, IInv
  <2>3. do' = [do EXCEPT ![a] = do'[a]] /\ Marked(do[a], do'[a], x, do[a].copy[x])
    BY <2>1, <2>2, PutMakes DEF IInv
  <2>4. sent \in [People -> Nat] /\ quiet \in [People -> Nat] /\ excused \subseteq People
    BY DEF IInv, Typed
  <2> QED BY <1>1, <2>2, <2>3, <2>4, PutStep
<1>3. CASE Finish(a) BY <1>1, <1>3, Finishing DEF Changing
<1> QED BY <1>2, <1>3 DEF KeepNext

(* The call fails or is killed.                                            *)
LEMMA Cutting ==
    ASSUME IInv, NEW a \in Actors, Cut(a)
    PROVE  IInv'
<1> DEFINE d == do[a]
<1>1. /\ do' = [do EXCEPT ![a] = Idle]
      /\ lock' = IF lock = a THEN Nobody ELSE lock
      /\ torn' = IF d.pc = "save" THEN torn \cup {d.who} ELSE torn
      /\ excused' = IF d.pc \in Changing THEN excused \cup {d.who} ELSE excused
      /\ UNCHANGED <<active, inactive, sessions, candidate, today, calls, sent, quiet>>
  BY DEF Cut, Finish, files, Changing
<1>2. do'[a] = Idle /\ do' = [do EXCEPT ![a] = do'[a]] BY <1>1 DEF IInv, Typed
<1>3. \A b \in Actors \ {a} : do'[b] = do[b] BY <1>1 DEF IInv, Typed
<1>4. d.pc \in Changing => d.who \in People BY CallFacts DEF Reached, Changing
<1>5. Typed'
  <2>1. excused' \subseteq People /\ torn' \subseteq excused'
    BY <1>1, <1>4 DEF IInv, Typed, Changing
  <2>2. Idle.at <= today BY IdleFacts, CallFacts
  <2> QED BY <1>1, <1>2, <2>1, <2>2, IdleFacts, Typing DEF IInv, Typed
<1>6. Locked'
  <2>1. Nobody \notin Actors /\ Idle.pc # "save" BY ConstantFacts, IdleFacts
  <2>2. \A b \in Actors : do[b].pc = "save" <=> lock = b BY DEF IInv, Locked
  <2>3. \A b \in Actors : do'[b].pc = "save" <=> lock' = b BY <1>1, <1>2, <1>3, <2>1, <2>2
  <2> QED BY <2>3 DEF Locked
<1>7. Filed'
  <2>1. \A b \in Actors : do[b].pc = "save" <=> lock = b BY DEF IInv, Locked
  <2>2. lock \in Actors \cup {Nobody} /\ Nobody \notin Actors BY ConstantFacts DEF IInv, Typed
  <2>3. ASSUME NEW c \in People
        PROVE  /\ c \in torn' \/ (lock' # Nobody /\ do'[lock'].who = c)
                   \/ active[c] = NoOne \/ inactive[c] = NoOne
               /\ (lock' # Nobody /\ do'[lock'].who = c) => active[c] = In("active", do'[lock'].copy[c])
               /\ active[c].on # "inactive" /\ inactive[c].on # "active"
    <3>1. /\ active[c].on # "inactive" /\ inactive[c].on # "active"
          /\ c \in torn \/ HalfPut(c) \/ active[c] = NoOne \/ inactive[c] = NoOne
          /\ HalfPut(c) => active[c] = In("active", do[lock].copy[c])
      BY DEF IInv, Filed
    <3>2. CASE lock = a
      <4>1. lock' = Nobody /\ torn' = torn \cup {d.who} BY <1>1, <2>1, <3>2
      <4>2. HalfPut(c) => c = d.who BY <3>2 DEF HalfPut
      <4> QED BY <3>1, <4>1, <4>2
    <3>3. CASE lock # a
      <4>1. lock' = lock /\ torn' = torn BY <1>1, <2>1, <3>3
      <4>2. lock # Nobody => do'[lock] = do[lock] BY <1>3, <2>2, <3>3
      <4> QED BY <3>1, <4>1, <4>2 DEF HalfPut
    <3> QED BY <3>2, <3>3
  <2> QED BY <1>1, <2>3 DEF Filed, HalfPut
<1>8. ASSUME NEW c \in People \ excused'
      PROVE  /\ c \in People \ excused /\ ~Changes(d, c, Changing) /\ ~Changes(d, c, Putting)
             /\ ~Changes(do'[a], c, Changing) /\ ~Changes(do'[a], c, Putting)
             /\ ~Holds(do'[a], c) /\ ~Missed(do'[a], c)
  BY <1>1, <1>2, IdleFacts DEF Changes, Changing, Putting
<1>9. Counted' /\ Warned'
  <2>1. ASSUME NEW c \in People \ excused'
        PROVE  /\ Settled(do', active, inactive, c, Putting, Counting(c))
               /\ Settled(do', active, inactive, c, Changing, Warning(c))
    <3>1. /\ Settled(do, active, inactive, c, Putting, Counting(c))
          /\ Settled(do, active, inactive, c, Changing, Warning(c))
      BY <1>8 DEF IInv, Counted, Warned
    <3>2. Settled(do', active, inactive, c, Putting, Counting(c))
      BY <1>3, <1>8, <3>1, Quietly
    <3>3. Settled(do', active, inactive, c, Changing, Warning(c))
      BY <1>3, <1>8, <3>1, Quietly
    <3> QED BY <3>2, <3>3
  <2> QED BY <1>1, <2>1 DEF Counted, Warned, Counting, Warning
<1>10. Bounded'
  BY <1>1, <1>2, <1>3, IdleFacts DEF IInv, Bounded
<1>11. Few'
  <2>1. \A c \in People : Idle.copy[c].shares <= sent[c]
    BY IdleFacts, RecordFacts, RecFacts DEF IInv
  <2>2. \A c \in People : MaySend(do'[a], c) => MaySend(d, c) BY <1>2, IdleFacts
  <2>3. \A c \in People : do'[a].copy[c].shares <= sent[c] BY <1>2, <2>1
  <2>4. UNCHANGED <<active, inactive, sent, calls>> BY <1>1
  <2> QED BY <1>2, <2>2, <2>3, <2>4, StillFew
<1> QED BY <1>5, <1>6, <1>7, <1>9, <1>10, <1>11 DEF IInv

(* Steps that are of no call.                                              *)
LEMMA Passing ==
    ASSUME IInv, UNCHANGED <<files, sessions, lock, do, history>>,
           candidate' \in 0 .. Horizon, today' \in 0 .. Horizon, today <= today',
           calls' \in 0 .. MaxCalls, calls <= calls'
    PROVE  IInv'
<1>1. UNCHANGED <<active, inactive, sent, quiet, excused, torn>> BY DEF files, history
<1>2. Typed'
  <2>1. ASSUME NEW a \in Actors PROVE do'[a].at <= today' /\ Reached(do'[a])
    <3>1. today \in Nat /\ today' \in Nat /\ do[a].at \in Nat BY CallFacts, ConstantFacts
    <3> QED BY <3>1, CallFacts
  <2> QED BY <1>1, <2>1 DEF IInv, Typed
<1>3. Locked' /\ Filed' /\ Bounded' BY <1>1 DEF IInv, Locked, Filed, HalfPut, Bounded
<1>4. Counted' /\ Warned' BY <1>1 DEF IInv, Counted, Warned, Counting, Warning
<1>5. Few'
  <2>1. ASSUME NEW c \in People PROVE sent[c] + Cardinality(Senders(do, c)) <= calls'
    <3>1. IsFiniteSet(Senders(do, c)) BY ConstantFacts, FS_Subset DEF Senders
    <3>2. Cardinality(Senders(do, c)) \in Nat /\ sent[c] \in Nat /\ calls \in Nat /\ calls' \in Nat
      BY <3>1, FS_CardinalityType, ConstantFacts DEF IInv, Typed
    <3>3. sent[c] + Cardinality(Senders(do, c)) <= calls BY DEF IInv, Few
    <3> QED BY <3>2, <3>3
  <2> QED BY <1>1, <2>1 DEF IInv, Few
<1> QED BY <1>2, <1>3, <1>4, <1>5 DEF IInv

LEMMA AddingCandidate ==
    ASSUME IInv, NEW a \in Actors, AddCandidate(a)
    PROVE  IInv'
<1>1. /\ calls \in 0 .. MaxCalls /\ today \in 0 .. Horizon /\ MaxCalls \in Nat /\ Horizon \in Nat
  BY ConstantFacts DEF IInv, Typed
<1> QED BY <1>1, Passing DEF AddCandidate

LEMMA DayPassing ==
    ASSUME IInv, NextDay
    PROVE  IInv'
<1>1. /\ calls \in 0 .. MaxCalls /\ today \in 0 .. Horizon /\ candidate \in 0 .. Horizon
      /\ MaxCalls \in Nat /\ Horizon \in Nat
  BY ConstantFacts DEF IInv, Typed
<1> QED BY <1>1, Passing DEF NextDay

-----------------------------------------------------------------------------
(* The two saves of a put.                                                 *)

LEMMA SeenReached ==
    ASSUME NEW d \in Calls, NEW e, NEW x, SeenBy(d, e, x), Reached(d)
    PROVE  Reached(e)
<1>1. CASE d.pc \in {"idle", "get", "list"} BY <1>1 DEF SeenBy
<1>2. CASE d.pc \notin {"idle", "get", "list"}
  BY <1>2 DEF SeenBy, Reached
<1> QED BY <1>1, <1>2

(* What the other calls are after a save.                                  *)
LEMMA SaveSeen ==
    ASSUME IInv, NEW a \in Actors, NEW x \in People, NEW s, Wrote(a, x, s),
           s \in Calls, Reached(s), s.at <= today
    PROVE  /\ Seen(do, do', a, x) /\ do'[a] = s
           /\ do' \in [Actors -> Calls]
           /\ \A b \in Actors : do'[b].at <= today /\ Reached(do'[b])
           /\ \A b \in Actors \ {a} : SeenBy(do[b], do'[b], x)
<1>1. Seen(do, do', a, x) BY DEF Wrote, Seen
<1>2. do'[a] = s /\ DOMAIN do' = Actors /\ do' = [b \in Actors |-> do'[b]]
  BY DEF Wrote
<1>3. do \in [Actors -> Calls] BY DEF IInv, Typed
<1>4. \A b \in Actors \ {a} : SeenBy(do[b], do'[b], x) BY <1>1, <1>3, SeenFacts
<1>5. ASSUME NEW b \in Actors PROVE do'[b] \in Calls /\ do'[b].at <= today /\ Reached(do'[b])
  <2>1. CASE b = a BY <1>2, <2>1
  <2>2. CASE b # a
    <3>1. SeenBy(do[b], do'[b], x) BY <1>4, <2>2
    <3>2. do[b] \in Calls /\ do[b].at <= today /\ Reached(do[b]) BY CallFacts
    <3> QED BY <3>1, <3>2, SeenReached DEF SeenBy
  <2> QED BY <2>1, <2>2
<1>6. do' \in [Actors -> Calls] BY <1>2, <1>5
<1> QED BY <1>1, <1>2, <1>4, <1>5, <1>6

(* The other calls are as bounded, and as few, as they were.               *)
LEMMA SaveOthers ==
    ASSUME IInv, NEW a \in Actors, NEW x, \A b \in Actors \ {a} : SeenBy(do[b], do'[b], x)
    PROVE  /\ \A b \in Actors \ {a} : Rebalanced(do'[b], active')
           /\ \A b \in Actors \ {a} : do'[b].copy = do[b].copy
           /\ \A b \in Actors \ {a}, c \in People : MaySend(do'[b], c) => MaySend(do[b], c)
<1>1. ASSUME NEW b \in Actors \ {a} PROVE Rebalanced(do'[b], active')
  <2>1. SeenBy(do[b], do'[b], x) /\ Reached(do[b]) /\ do[b] \in Calls BY CallFacts
  <2>2. CASE do[b].pc \in {"idle", "get", "list"}
    <3>1. do'[b] = do[b] BY <2>1, <2>2 DEF SeenBy
    <3>2. do[b].stage = "single" BY <2>1, <2>2, IdleFacts DEF Reached
    <3> QED BY <3>1, <3>2 DEF Rebalanced
  <2>3. CASE do[b].pc \notin {"idle", "get", "list"}
    <3>1. x \in do'[b].stale BY <2>1, <2>3 DEF SeenBy
    <3> QED BY <3>1 DEF Rebalanced
  <2> QED BY <2>2, <2>3
<1>2. \A b \in Actors \ {a} : do'[b].copy = do[b].copy BY DEF SeenBy
<1>3. \A b \in Actors \ {a}, c \in People : MaySend(do'[b], c) => MaySend(do[b], c)
  BY DEF SeenBy, MaySend
<1> QED BY <1>1, <1>2, <1>3

LEMMA SaveFew ==
    ASSUME IInv, NEW a \in Actors, NEW x, \A b \in Actors \ {a} : SeenBy(do[b], do'[b], x),
           \A c \in People : /\ MaySend(do'[a], c) => MaySend(do[a], c)
                             /\ do'[a].copy[c].shares <= sent[c]
                             /\ active'[c].shares <= sent[c] /\ inactive'[c].shares <= sent[c],
           UNCHANGED <<sent, calls>>
    PROVE  Few'
<1>1. ASSUME NEW c \in People, NEW b \in Actors PROVE do'[b].copy[c].shares <= sent[c]
  <2>1. CASE b = a BY <2>1
  <2>2. CASE b # a BY <2>2, SaveOthers, CallFacts
  <2> QED BY <2>1, <2>2
<1>2. ASSUME NEW c \in People PROVE sent[c] + Cardinality(Senders(do', c)) <= calls
  <2>1. Senders(do', c) \subseteq Senders(do, c) BY SaveOthers DEF Senders
  <2>2. IsFiniteSet(Senders(do, c)) BY ConstantFacts, FS_Subset DEF Senders
  <2>3. IsFiniteSet(Senders(do', c)) /\ Cardinality(Senders(do', c)) <= Cardinality(Senders(do, c))
    BY <2>1, <2>2, FS_Subset
  <2>4. /\ Cardinality(Senders(do, c)) \in Nat /\ Cardinality(Senders(do', c)) \in Nat
        /\ sent[c] \in Nat /\ calls \in Nat
    BY <2>2, <2>3, FS_CardinalityType, ConstantFacts DEF IInv, Typed
  <2>5. sent[c] + Cardinality(Senders(do, c)) <= calls BY DEF IInv, Few
  <2> QED BY <2>3, <2>4, <2>5
<1> QED BY <1>1, <1>2 DEF Few

LEMMA SavingActive ==
    ASSUME IInv, NEW a \in Actors, SaveActive(a)
    PROVE  IInv'
<1> DEFINE d == do[a]
           x == d.who
           s == [d EXCEPT !.pc = "save"]
<1>1. /\ d.pc = "put" /\ lock = Nobody /\ lock' = a /\ Wrote(a, x, s)
      /\ active' = [active EXCEPT ![x] = In("active", d.copy[x])]
      /\ excused' = IF x \in d.stale THEN excused \cup {x} ELSE excused
      /\ UNCHANGED <<inactive, sessions, candidate, today, calls, sent, quiet, torn>>
  BY DEF SaveActive
<1>2. /\ d \in Calls /\ Reached(d) /\ d.at <= today BY CallFacts
<1>3. /\ x \in People /\ d.copy[x] # NoOne /\ d.copy[x] \in Recs
      /\ d.op \in Ticks => x \notin d.todo
  <2>1. x \in People /\ d.copy[x] # NoOne /\ (d.op \in Ticks => x \notin d.todo)
    BY <1>1, <1>2 DEF Reached, Ticks
  <2> QED BY <2>1, RecordFacts DEF IInv
<1>4. /\ s \in Calls /\ s.pc = "save" /\ s.op = d.op /\ s.who = x /\ s.at = d.at /\ s.stage = d.stage
      /\ s.copy = d.copy /\ s.todo = d.todo /\ s.stale = d.stale
  BY <1>2 DEF Calls
<1> HIDE DEF s
<1>5. Reached(s) BY <1>1, <1>2, <1>4 DEF Reached
<1>6. /\ Seen(do, do', a, x) /\ do'[a] = s
      /\ do' \in [Actors -> Calls]
      /\ \A b \in Actors : do'[b].at <= today /\ Reached(do'[b])
      /\ \A b \in Actors \ {a} : SeenBy(do[b], do'[b], x)
  <2>1. s.at <= today BY <1>2, <1>4
  <2> QED BY <1>1, <1>3, <1>4, <1>5, <2>1, SaveSeen
<1>7. /\ In("active", d.copy[x]) \in Recs /\ In("active", d.copy[x]).on # "inactive"
  BY <1>3, RecFacts, OneFile
<1>8. /\ active' \in [People -> Recs] /\ active'[x] = In("active", d.copy[x])
      /\ \A c \in People \ {x} : active'[c] = active[c]
  BY <1>1, <1>3, <1>7 DEF IInv, Typed
<1>9. Typed'
  <2>1. excused' \subseteq People /\ torn \subseteq excused' BY <1>1, <1>3 DEF IInv, Typed
  <2> QED BY <1>1, <1>6, <1>8, <2>1 DEF IInv, Typed
<1>10. \A b \in Actors : do[b].pc # "save"
  BY <1>1, ConstantFacts DEF IInv, Locked
<1>11. Locked'
  <2>1. \A b \in Actors \ {a} : do'[b].pc # "save" BY <1>6, <1>10 DEF SeenBy
  <2> QED BY <1>1, <1>4, <1>6, <2>1 DEF Locked
<1>12. Filed'
  <2>1. ASSUME NEW c \in People
        PROVE  /\ active'[c].on # "inactive" /\ inactive[c].on # "active"
               /\ c \in torn \/ x = c \/ active'[c] = NoOne \/ inactive[c] = NoOne
    <3>1. /\ active[c].on # "inactive" /\ inactive[c].on # "active"
          /\ c \in torn \/ active[c] = NoOne \/ inactive[c] = NoOne
      BY <1>1 DEF IInv, Filed, HalfPut
    <3> QED BY <1>7, <1>8, <3>1
  <2>2. \A c \in People : HalfPut(c)' <=> x = c
    BY <1>1, <1>4, <1>6, ConstantFacts DEF HalfPut
  <2>3. x \in People => active'[x] = In("active", do'[lock'].copy[x]) BY <1>1, <1>4, <1>6, <1>8
  <2> QED BY <1>1, <2>1, <2>2, <2>3 DEF Filed
<1>13. do \in [Actors -> Calls] BY DEF IInv, Typed
<1>14. ASSUME NEW c \in People \ excused'
       PROVE  /\ Settled(do', active', inactive, c, Putting, Counting(c))
              /\ Settled(do', active', inactive, c, Changing, Warning(c))
  <2>1. c \in People /\ c \notin excused BY <1>1
  <2>2. /\ Settled(do, active, inactive, c, Putting, Counting(c))
        /\ Settled(do, active, inactive, c, Changing, Warning(c))
    BY <2>1 DEF IInv, Counted, Warned
  <2>3. Putting \subseteq Changing BY DEF Putting, Changing
  <2>4. CASE c = x
    <3>1. x \notin d.stale BY <1>1, <2>4
    <3>2. /\ do'[a].pc = "save" /\ do'[a].who = x /\ do'[a].copy = d.copy BY <1>4, <1>6
    <3>3. Settled(do', active', inactive, x, Putting, Counting(c))
      BY <1>1, <1>3, <1>6, <1>10, <1>13, <2>2, <2>3, <2>4, <3>1, <3>2, HalfSaved
    <3>4. Settled(do', active', inactive, x, Changing, Warning(c))
      BY <1>1, <1>3, <1>6, <1>10, <1>13, <2>2, <2>3, <2>4, <3>1, <3>2, HalfSaved
    <3> QED BY <2>4, <3>3, <3>4
  <2>5. CASE c # x
    <3>1. \A W : ~Changes(d, c, W) /\ ~Changes(do'[a], c, W) BY <1>4, <1>6, <2>5 DEF Changes
    <3>2. ~Missed(do'[a], c) /\ (Holds(do'[a], c) => Holds(d, c) /\ do'[a].copy[c] = d.copy[c])
      BY <1>1, <1>4, <1>6 DEF Missed, Holds
    <3>3. active'[c] = active[c] BY <1>8, <2>1, <2>5
    <3>4. Settled(do', active', inactive, c, Putting, Counting(c))
      BY <1>3, <1>6, <1>13, <2>1, <2>2, <2>5, <3>1, <3>2, <3>3, Elsewhere
    <3>5. Settled(do', active', inactive, c, Changing, Warning(c))
      BY <1>3, <1>6, <1>13, <2>1, <2>2, <2>5, <3>1, <3>2, <3>3, Elsewhere
    <3> QED BY <3>4, <3>5
  <2> QED BY <2>4, <2>5
<1>15. Counted' /\ Warned'
  BY <1>1, <1>14 DEF Counted, Warned, Counting, Warning
<1>16. Rebalanced(s, active')
  <2>1. SUFFICES ASSUME d.op \in Ticks, d.stage = "keeps", d.stale = {}
                 PROVE  /\ d.todo \subseteq Known(active')
                        /\ Cardinality(Known(active') \ Going(s)) <= MaxActive
    BY <1>4 DEF Rebalanced
  <2>2. /\ d.todo \subseteq Known(active) /\ x \in Known(active)
        /\ Cardinality(Known(active) \ Going(d)) <= MaxActive
    BY <1>1, <2>1 DEF IInv, Bounded, Rebalanced
  <2>3. d.todo \subseteq Known(active') BY <1>3, <1>8, <2>1, <2>2 DEF Known
  <2>4. d.copy[x].on \in Kept BY <1>3, RecFacts
  <2>5. Known(active') \ Going(s) = Known(active) \ Going(d)
    <3>1. ASSUME NEW c \in People \ {x}
          PROVE  (c \in Known(active') <=> c \in Known(active)) /\ (c \in Going(s) <=> c \in Going(d))
      BY <1>4, <1>8, <3>1 DEF Known, Going
    <3>2. x \in Known(active') \ Going(s) <=> x \in Known(active) \ Going(d)
      <4>1. CASE d.copy[x].on = "active"
        <5>1. active'[x] = d.copy[x] BY <1>8, <4>1 DEF In
        <5> QED BY <1>3, <1>4, <2>2, <4>1, <5>1 DEF Known, Going
      <4>2. CASE d.copy[x].on = "inactive"
        <5>1. active'[x] = NoOne BY <1>8, <4>2 DEF In
        <5>2. x \notin Known(active') BY <5>1 DEF Known
        <5>3. x \in Going(d) BY <1>1, <1>3, <4>2 DEF Going
        <5> QED BY <5>2, <5>3
      <4> QED BY <2>4, <4>1, <4>2 DEF Kept
    <3>3. Known(active') \subseteq People /\ Known(active) \subseteq People BY DEF Known
    <3> QED BY <3>1, <3>2, <3>3
  <2> QED BY <2>2, <2>3, <2>5
<1>17. Bounded'
  BY <1>6, <1>16, SaveOthers DEF Bounded
<1>18. Few'
  <2>1. ASSUME NEW c \in People PROVE active'[c].shares <= sent[c]
    <3>1. CASE c = x
      <4>1. d.copy[x].shares <= sent[x] /\ NoOne.shares <= sent[x]
        BY <1>3, CallFacts, RecFacts, RecordFacts DEF IInv
      <4> QED BY <1>8, <3>1, <4>1 DEF In
    <3>2. CASE c # x BY <1>8, <3>2, CallFacts
    <3> QED BY <3>1, <3>2
  <2>2. \A c \in People : MaySend(s, c) => MaySend(d, c) BY <1>4 DEF MaySend
  <2>3. \A c \in People : s.copy[c].shares <= sent[c] /\ inactive'[c].shares <= sent[c]
    BY <1>1, <1>4, CallFacts
  <2> QED BY <1>1, <1>6, <2>1, <2>2, <2>3, SaveFew
<1> QED BY <1>9, <1>11, <1>12, <1>15, <1>17, <1>18 DEF IInv

LEMMA SavingInactive ==
    ASSUME IInv, NEW a \in Actors, SaveInactive(a)
    PROVE  IInv'
<1> DEFINE d == do[a]
           x == d.who
           rec == IF d.stage \in {"sends", "keeps"} THEN NoOne ELSE d.copy[x]
           copy == [d.copy EXCEPT ![x] = rec]
           t == [d EXCEPT !.pc = "act", !.who = 0, !.copy = copy]
           s == IF d.op \in Ticks THEN t ELSE Idle
<1>1. /\ d.pc = "save" /\ lock' = Nobody /\ torn' = torn \ {x}
      /\ inactive' = [inactive EXCEPT ![x] = In("inactive", d.copy[x])]
      /\ Wrote(a, x, IF d.op \in Ticks THEN Resumed(a, x) ELSE Idle)
      /\ UNCHANGED <<active, sessions, candidate, today, calls, sent, quiet, excused>>
  BY DEF SaveInactive
<1>2. /\ d \in Calls /\ Reached(d) /\ d.at <= today BY CallFacts
<1>3. /\ x \in People /\ d.copy[x] # NoOne /\ d.copy[x] \in Recs
      /\ d.op \in Ticks => x \notin d.todo /\ d.stage # "single"
  <2>1. /\ x \in People /\ d.copy[x] # NoOne
        /\ d.op \in Ticks => x \notin d.todo /\ d.stage # "single"
    BY <1>1, <1>2 DEF Reached, Ticks
  <2> QED BY <2>1, RecordFacts DEF IInv
<1>4. Resumed(a, x) = t BY DEF Resumed
<1>5. /\ copy \in [People -> Recs] /\ copy[x] = rec
      /\ \A c \in People \ {x} : copy[c] = d.copy[c]
  BY <1>2, <1>3, RecFacts DEF Calls
<1> HIDE DEF rec, copy
<1>6. /\ t \in Calls /\ t.pc = "act" /\ t.op = d.op /\ t.who = 0 /\ t.at = d.at
      /\ t.stage = d.stage /\ t.copy = copy /\ t.todo = d.todo /\ t.stale = d.stale
  BY <1>2, <1>5 DEF Calls
<1> HIDE DEF t
<1>8. /\ d.op \in Ticks => s = t
      /\ d.op \notin Ticks => s = Idle
  OBVIOUS
<1>9. Wrote(a, x, s) BY <1>1, <1>4
<1>10. Reached(t) \/ d.op \notin Ticks
  <2>1. SUFFICES ASSUME d.op \in Ticks PROVE Reached(t) OBVIOUS
  <2>2. /\ \A c \in d.todo : d.copy[c] # NoOne
        /\ d.stage = "sends" => \A c \in d.todo : d.copy[c].cool <= d.at
    BY <1>2, <2>1 DEF Reached
  <2>3. \A c \in d.todo : copy[c] = d.copy[c]
    <3>1. d.todo \subseteq People BY <1>2 DEF Calls
    <3> QED BY <1>3, <1>5, <2>1, <3>1
  <2> QED BY <1>3, <1>6, <2>1, <2>2, <2>3 DEF Reached
<1> HIDE DEF s
<1>11. /\ s \in Calls /\ Reached(s) /\ s.at <= today /\ s.pc \in {"act", "idle"}
  <2>1. Idle.at <= today BY IdleFacts, CallFacts
  <2> QED BY <1>2, <1>6, <1>8, <1>10, <2>1, IdleFacts
<1>12. /\ Seen(do, do', a, x) /\ do'[a] = s
       /\ do' \in [Actors -> Calls]
       /\ \A b \in Actors : do'[b].at <= today /\ Reached(do'[b])
       /\ \A b \in Actors \ {a} : SeenBy(do[b], do'[b], x)
  BY <1>3, <1>9, <1>11, SaveSeen
<1>13. /\ In("inactive", d.copy[x]) \in Recs /\ In("inactive", d.copy[x]).on # "active"
       /\ In("active", d.copy[x]) = NoOne \/ In("inactive", d.copy[x]) = NoOne
  BY <1>3, RecFacts, OneFile
<1>14. /\ inactive' \in [People -> Recs] /\ inactive'[x] = In("inactive", d.copy[x])
       /\ \A c \in People \ {x} : inactive'[c] = inactive[c]
  BY <1>1, <1>3, <1>13 DEF IInv, Typed
<1>15. Typed'
  <2>1. torn' \subseteq excused' BY <1>1 DEF IInv, Typed
  <2> QED BY <1>1, <1>12, <1>14, <2>1 DEF IInv, Typed
<1>16. lock = a /\ \A b \in Actors : do[b].pc = "save" => b = a
  BY <1>1 DEF IInv, Locked
<1>17. Locked'
  <2>1. \A b \in Actors \ {a} : do'[b].pc # "save" BY <1>12, <1>16 DEF SeenBy
  <2>2. \A b \in Actors : do'[b].pc # "save" BY <1>11, <1>12, <2>1
  <2> QED BY <1>1, <2>2, ConstantFacts DEF Locked
<1>18. active[x] = In("active", d.copy[x])
  BY <1>3, <1>16, ConstantFacts DEF IInv, Filed, HalfPut
<1>19. Filed'
  <2>1. ASSUME NEW c \in People
        PROVE  /\ active[c].on # "inactive" /\ inactive'[c].on # "active"
               /\ c \in torn' \/ active[c] = NoOne \/ inactive'[c] = NoOne
    <3>1. active[c].on # "inactive" /\ inactive[c].on # "active" BY DEF IInv, Filed
    <3>2. CASE c = x BY <1>13, <1>14, <1>18, <3>1, <3>2
    <3>3. CASE c # x
      <4>1. ~HalfPut(c) BY <1>16, <3>3 DEF HalfPut
      <4>2. c \in torn \/ active[c] = NoOne \/ inactive[c] = NoOne BY <4>1 DEF IInv, Filed
      <4> QED BY <1>1, <1>14, <3>1, <3>3, <4>2
    <3> QED BY <3>2, <3>3
  <2>2. \A c \in People : ~HalfPut(c)' BY <1>1 DEF HalfPut
  <2> QED BY <1>1, <2>1, <2>2 DEF Filed
<1>20. do \in [Actors -> Calls] BY DEF IInv, Typed
<1>21. ASSUME NEW c \in People
       PROVE  Holds(s, c) => s.copy[c] = d.copy[c] /\ (c # x => Holds(d, c))
  <2>1. CASE d.op \notin Ticks BY <1>8, <2>1, IdleFacts
  <2>2. CASE d.op \in Ticks
    <3>1. SUFFICES ASSUME Holds(t, c)
                   PROVE  t.copy[c] = d.copy[c] /\ (c # x => Holds(d, c))
      BY <1>8, <2>2
    <3>2. copy[c] # NoOne /\ c \notin d.stale BY <1>6, <2>2, <3>1 DEF Holds
    <3>3. copy[c] = d.copy[c]
      BY <1>5, <3>2 DEF rec
    <3> QED BY <1>1, <1>6, <2>2, <3>2, <3>3 DEF Holds
  <2> QED BY <2>1, <2>2
<1>22. ASSUME NEW c \in People \ excused
       PROVE  /\ Settled(do', active, inactive', c, Putting, Counting(c))
              /\ Settled(do', active, inactive', c, Changing, Warning(c))
  <2>1. /\ Settled(do, active, inactive, c, Putting, Counting(c))
        /\ Settled(do, active, inactive, c, Changing, Warning(c))
    BY DEF IInv, Counted, Warned
  <2>2. Putting \subseteq Changing BY DEF Putting, Changing
  <2>3. ~Changes(do'[a], c, Putting) /\ ~Changes(do'[a], c, Changing)
    BY <1>11, <1>12 DEF Changes, Putting, Changing
  <2>4. ~Missed(do'[a], c) BY <1>11, <1>12 DEF Missed
  <2>5. Holds(do'[a], c) => do'[a].copy[c] = d.copy[c] /\ (c # x => Holds(d, c))
    BY <1>12, <1>21
  <2>6. CASE c = x
    <3>1. Filing(active, inactive', x) = d.copy[x]
      <4>1. (IF In("active", d.copy[x]) # NoOne THEN In("active", d.copy[x])
                                                 ELSE In("inactive", d.copy[x])) = d.copy[x]
        BY <1>3, OneFile
      <4> QED BY <1>14, <1>18, <4>1 DEF Filing
    <3>2. Settled(do', active, inactive', x, Putting, Counting(c))
      BY <1>1, <1>3, <1>12, <1>16, <1>20, <2>1, <2>2, <2>3, <2>4, <2>5, <2>6, <3>1, WholeSaved
    <3>3. Settled(do', active, inactive', x, Changing, Warning(c))
      BY <1>1, <1>3, <1>12, <1>16, <1>20, <2>1, <2>2, <2>3, <2>4, <2>5, <2>6, <3>1, WholeSaved
    <3> QED BY <2>6, <3>2, <3>3
  <2>7. CASE c # x
    <3>1. \A W : ~Changes(d, c, W) BY <2>7 DEF Changes
    <3>2. inactive'[c] = inactive[c] BY <1>14, <2>7
    <3>3. Settled(do', active, inactive', c, Putting, Counting(c))
      BY <1>3, <1>12, <1>20, <2>1, <2>3, <2>4, <2>5, <2>7, <3>1, <3>2, Elsewhere
    <3>4. Settled(do', active, inactive', c, Changing, Warning(c))
      BY <1>3, <1>12, <1>20, <2>1, <2>3, <2>4, <2>5, <2>7, <3>1, <3>2, Elsewhere
    <3> QED BY <3>3, <3>4
  <2> QED BY <2>6, <2>7
<1>23. Counted' /\ Warned'
  BY <1>1, <1>22 DEF Counted, Warned, Counting, Warning
<1>24. Rebalanced(s, active)
  <2>1. CASE d.op \notin Ticks BY <1>8, <2>1, IdleFacts
  <2>2. CASE d.op \in Ticks
    <3>1. SUFFICES ASSUME d.stage = "keeps", d.stale = {}
                   PROVE  /\ d.todo \subseteq Known(active)
                          /\ Cardinality(Known(active) \ Going(t)) <= MaxActive
      BY <1>6, <1>8, <2>2 DEF Rebalanced
    <3>2. /\ d.todo \subseteq Known(active)
          /\ Cardinality(Known(active) \ Going(d)) <= MaxActive
      BY <2>2, <3>1 DEF IInv, Bounded, Rebalanced
    <3>3. Going(t) = Going(d)
      BY <1>1, <1>3, <1>5, <1>6, <2>2 DEF Going
    <3> QED BY <3>2, <3>3
  <2> QED BY <2>1, <2>2
<1>25. Bounded'
  BY <1>1, <1>12, <1>24, SaveOthers DEF Bounded
<1>26. Few'
  <2>1. ASSUME NEW c \in People PROVE inactive'[c].shares <= sent[c]
    <3>1. CASE c = x
      <4>1. d.copy[x].shares <= sent[x] /\ NoOne.shares <= sent[x]
        BY <1>3, CallFacts, RecFacts, RecordFacts DEF IInv
      <4> QED BY <1>14, <3>1, <4>1 DEF In
    <3>2. CASE c # x BY <1>14, <3>2, CallFacts
    <3> QED BY <3>1, <3>2
  <2>2. ASSUME NEW c \in People PROVE s.copy[c].shares <= sent[c]
    <3>1. NoOne.shares <= sent[c] BY RecFacts, RecordFacts DEF IInv
    <3>2. CASE d.op \notin Ticks BY <1>8, <3>1, <3>2, IdleFacts
    <3>3. CASE d.op \in Ticks
      <4>1. copy[c] \in {NoOne, d.copy[c]} BY <1>5 DEF rec
      <4>2. d.copy[c].shares <= sent[c] BY CallFacts
      <4>3. s.copy[c] = copy[c] BY <1>6, <1>8, <3>3
      <4> QED BY <3>1, <4>1, <4>2, <4>3
    <3> QED BY <3>2, <3>3
  <2>3. ASSUME NEW c \in People PROVE MaySend(s, c) => MaySend(d, c)
    <3>1. CASE d.op \notin Ticks BY <1>8, <3>1, IdleFacts
    <3>2. CASE d.op \in Ticks BY <1>6, <1>8, <3>2 DEF MaySend, Ticks
    <3> QED BY <3>1, <3>2
  <2>4. ASSUME NEW c \in People PROVE active'[c].shares <= sent[c] BY <1>1, CallFacts
  <2> QED BY <1>1, <1>12, <2>1, <2>2, <2>3, <2>4, SaveFew
<1> QED BY <1>15, <1>17, <1>19, <1>23, <1>25, <1>26 DEF IInv

-----------------------------------------------------------------------------
(* The invariant of the contacts book.                                     *)

LEMMA Initially ==
    ASSUME Init
    PROVE  IInv
<1>1. PICK on \in Books :
        /\ active = [c \in People |-> IF on[c] = "active" THEN Contact("active") ELSE NoOne]
        /\ inactive = [c \in People |-> IF on[c] = "inactive" THEN Contact("inactive") ELSE NoOne]
  BY DEF Init
<1>2. /\ candidate = 0 /\ lock = Nobody /\ today = 0 /\ calls = 0 /\ excused = {} /\ torn = {}
      /\ do = [a \in Actors |-> Idle]
      /\ sent = [c \in People |-> 0] /\ quiet = [c \in People |-> 0]
      /\ sessions \in [People -> 0 .. 100]
  BY ConstantFacts DEF Init
<1>3. ASSUME NEW c \in People
      PROVE  /\ active[c] \in Recs /\ inactive[c] \in Recs
             /\ active[c].shares = 0 /\ inactive[c].shares = 0
             /\ active[c].cool = 0 /\ inactive[c].cool = 0
             /\ active[c].on # "inactive" /\ inactive[c].on # "active"
             /\ active[c] = NoOne \/ inactive[c] = NoOne
  <2>1. {"active", "inactive"} = Kept BY DEF Kept
  <2> QED BY <1>1, <2>1, RecFacts
<1>4. \A a \in Actors : do[a] = Idle BY <1>2
<1>5. Typed
  <2>1. active \in [People -> Recs] /\ inactive \in [People -> Recs]
    BY <1>1, <1>3
  <2>2. do \in [Actors -> Calls] BY <1>2, IdleFacts
  <2>3. \A a \in Actors : do[a].at <= today /\ Reached(do[a]) BY <1>2, <1>4, IdleFacts
  <2> QED BY <1>2, <2>1, <2>2, <2>3, ConstantFacts DEF Typed
<1>6. Locked BY <1>2, <1>4, IdleFacts, ConstantFacts DEF Locked
<1>7. Filed BY <1>2, <1>3 DEF Filed, HalfPut
<1>8. Counted
  <2>1. ASSUME NEW c \in People PROVE Filing(active, inactive, c) \in Counting(c)
    BY <1>2, <1>3 DEF Filing, Counting
  <2>2. \A a \in Actors, c \in People : ~Changes(do[a], c, Putting)
    BY <1>4, IdleFacts DEF Changes, Putting
  <2> QED BY <1>4, <2>1, <2>2, IdleFacts DEF Counted, Settled
<1>9. Warned
  <2>1. ASSUME NEW c \in People PROVE Filing(active, inactive, c) \in Warning(c)
    BY <1>2, <1>3 DEF Filing, Warning
  <2>2. \A a \in Actors, c \in People : ~Changes(do[a], c, Changing)
    BY <1>4, IdleFacts DEF Changes, Changing
  <2> QED BY <1>4, <2>1, <2>2, IdleFacts DEF Warned, Settled
<1>10. Bounded BY <1>4, IdleFacts DEF Bounded
<1>11. Few
  <2>1. ASSUME NEW c \in People PROVE Cardinality(Senders(do, c)) = 0
    <3>1. Senders(do, c) = {} BY <1>4, IdleFacts DEF Senders
    <3> QED BY <3>1, FS_EmptySet
  <2>2. \A c \in People, a \in Actors : do[a].copy[c].shares = 0 BY <1>4, IdleFacts, RecFacts
  <2> QED BY <1>2, <1>3, <2>1, <2>2 DEF Few
<1> QED BY <1>5, <1>6, <1>7, <1>8, <1>9, <1>10, <1>11 DEF IInv

LEMMA Invariance ==
    Spec => []IInv
<1>1. Init => IInv BY Initially
<1>2. IInv /\ [Next]_vars => IInv'
  <2> SUFFICES ASSUME IInv, [Next]_vars PROVE IInv' OBVIOUS
  <2>1. CASE NextDay BY <2>1, DayPassing
  <2>2. ASSUME NEW a \in Actors,
               \/ UpsertCommand(a) \/ SetStatusCommand(a) \/ SyncMAEP(a) \/ TickCommand(a)
               \/ UpsertTool(a) \/ SendTool(a) \/ RankTool(a)
               \/ ObserveTelegram(a) \/ ObserveMAEP(a)
               \/ TelegramFeedback(a) \/ MAEPFeedback(a) \/ SessionEnd(a)
        PROVE  IInv'
    <3>1. \A x \in People : x \in Nat BY ConstantFacts
    <3>2. CASE \E op \in Ticks : Start(a, op, "list", 0) BY <3>2, Starting
    <3>3. CASE \E op \in Single, x \in People : Start(a, op, "get", x) BY <3>1, <3>3, Starting
    <3>4. \/ \E op \in Ticks : Start(a, op, "list", 0)
          \/ \E op \in Single, x \in People : Start(a, op, "get", x)
      BY <2>2 DEF UpsertCommand, SetStatusCommand, SyncMAEP, TickCommand, UpsertTool, SendTool,
                  RankTool, ObserveTelegram, ObserveMAEP, TelegramFeedback, MAEPFeedback,
                  SessionEnd, Contacting, Ticks, Single, Feedback, Creating
    <3> QED BY <3>2, <3>3, <3>4
  <2>3. ASSUME NEW a \in Actors,
               \/ AddCandidate(a) \/ GetActive(a) \/ GetInactive(a)
               \/ SaveActive(a) \/ SaveInactive(a) \/ Cut(a)
        PROVE  IInv'
    BY <2>3, AddingCandidate, GettingActive, GettingInactive, SavingActive, SavingInactive, Cutting
  <2>4. ASSUME NEW a \in Actors,
               \/ Upsert(a) \/ Edit(a) \/ SetStatus(a) \/ Refresh(a) \/ SendDecision(a)
               \/ UpdateFeedback(a) \/ PutSession(a)
        PROVE  IInv'
    BY <2>4, Upserting, Editing, Refreshing, Sending, Feeding, PuttingSession
  <2>5. ASSUME NEW a \in Actors,
               \/ ListContacts(a) \/ AssignNickname(a) \/ ReadCandidates(a)
               \/ ApplyPreferences(a) \/ Decide(a) \/ SendNext(a) \/ Rebalance(a) \/ KeepNext(a)
        PROVE  IInv'
    BY <2>5, Listing, Rewriting, Choosing, SendingNext, Rebalancing, KeepingNext
  <2>6. CASE UNCHANGED vars
    <3>1. UNCHANGED <<files, sessions, lock, do, history>> /\ UNCHANGED <<candidate, today, calls>>
      BY <2>6 DEF vars
    <3>2. /\ candidate \in 0 .. Horizon /\ today \in 0 .. Horizon /\ calls \in 0 .. MaxCalls
          /\ Horizon \in Nat /\ MaxCalls \in Nat
      BY ConstantFacts DEF IInv, Typed
    <3> QED BY <3>1, <3>2, Passing
  <2> QED BY <2>1, <2>2, <2>3, <2>4, <2>5, <2>6 DEF Next
<1> QED BY <1>1, <1>2, PTL DEF Spec

-----------------------------------------------------------------------------
(* Types, and the lock is that of the one call between its two saves.      *)
THEOREM TypeCorrect == Spec => []ContactsTypeOK
<1>1. ASSUME IInv PROVE ContactsTypeOK
  <2>1. ASSUME NEW r \in Recs, NEW c \in People, r.shares <= sent[c] PROVE r \in Records
    <3>1. IsFiniteSet(Senders(do, c)) BY ConstantFacts, FS_Subset DEF Senders
    <3>2. /\ Cardinality(Senders(do, c)) \in Nat /\ sent[c] \in Nat
          /\ calls \in Nat /\ calls <= MaxCalls /\ MaxCalls \in Nat
      BY <1>1, <3>1, FS_CardinalityType, ConstantFacts DEF IInv, Typed
    <3>3. sent[c] + Cardinality(Senders(do, c)) <= calls BY <1>1 DEF IInv, Few
    <3>4. sent[c] <= MaxCalls BY <3>2, <3>3
    <3>5. MaxTargets \in Nat /\ MaxTargets >= 1 BY ConstantFacts
    <3>6. MaxCalls <= MaxCalls * MaxTargets /\ MaxCalls * MaxTargets \in Nat
      <4>1. PICK n \in Nat : MaxTargets = n + 1
        <5>1. MaxTargets - 1 \in Nat /\ MaxTargets = (MaxTargets - 1) + 1 BY <3>5
        <5> QED BY <5>1
      <4>2. MaxCalls * (n + 1) = MaxCalls * n + MaxCalls /\ MaxCalls * n \in Nat BY <3>2
      <4> QED BY <3>2, <4>1, <4>2
    <3>7. r.shares \in Nat BY RecFacts
    <3>8. r.shares \in 0 .. MaxCalls * MaxTargets BY <2>1, <3>2, <3>4, <3>6, <3>7
    <3> QED BY <3>8 DEF Recs, Records, Kept
  <2>2. {active, inactive} \subseteq [People -> Records]
    <3>1. active \in [People -> Recs] /\ inactive \in [People -> Recs] BY <1>1 DEF IInv, Typed
    <3>2. \A c \in People : active[c].shares <= sent[c] /\ inactive[c].shares <= sent[c]
      BY <1>1 DEF IInv, Few
    <3>3. \A c \in People : active[c] \in Records /\ inactive[c] \in Records
      BY <2>1, <3>1, <3>2
    <3> QED BY <3>1, <3>3
  <2>3. ASSUME NEW a \in Actors
        PROVE  /\ do[a].op \in Ops \cup {"none", "write"}
               /\ do[a].pc \in {"idle", "get", "more", "list", "act", "session", "put", "save"}
               /\ do[a].stage \in Stages /\ do[a].todo \subseteq People /\ do[a].at <= today
               /\ do[a].copy \in [People -> Records]
    <3>1. do[a] \in Calls /\ do[a].at <= today BY <1>1 DEF IInv, Typed
    <3>2. do[a].copy \in [People -> Recs] BY <3>1 DEF Calls
    <3>3. \A c \in People : do[a].copy[c].shares <= sent[c] BY <1>1 DEF IInv, Few
    <3>4. \A c \in People : do[a].copy[c] \in Records BY <2>1, <3>2, <3>3
    <3>5. do[a].copy \in [People -> Records] BY <3>2, <3>4
    <3> QED BY <3>1, <3>5 DEF Calls
  <2>4. {a \in Actors : do[a].pc = "save"} = IF lock = Nobody THEN {} ELSE {lock}
    <3>1. \A a \in Actors : do[a].pc = "save" <=> lock = a BY <1>1 DEF IInv, Locked
    <3>2. lock \in Actors \cup {Nobody} /\ Nobody \notin Actors
      BY <1>1, ConstantFacts DEF IInv, Typed
    <3> QED BY <3>1, <3>2
  <2> QED BY <1>1, <2>2, <2>3, <2>4 DEF ContactsTypeOK, IInv, Typed
<1> QED BY <1>1, Invariance, PTL

(* For any number of calls, processes and kills: a contact none of whose   *)
(* puts was cut is in one file at most, and in the right one.              *)
THEOREM NeverInBoth == Spec => []OneFileEach
<1>1. IInv => OneFileEach BY DEF IInv, Filed, HalfPut, OneFileEach
<1> QED BY <1>1, Invariance, PTL

(* However calls interleave: the file counts the messages that went out to *)
(* a contact, but for those the property names.                            *)
THEOREM SharesStayCounted == Spec => []SharesAreCounted
<1>1. ASSUME IInv, NEW c \in People \ (excused \cup torn), ~Pending(c)
      PROVE  Record(c).shares = sent[c]
  <2>1. Settled(do, active, inactive, c, Putting, Counting(c)) BY <1>1 DEF IInv, Counted
  <2>2. \A b \in Actors : ~Changes(do[b], c, Putting)
    BY <1>1 DEF Pending, Changes, Putting
  <2>3. Filing(active, inactive, c) \in Counting(c) BY <2>1, <2>2 DEF Settled
  <2> QED BY <2>3 DEF Filing, Record, Counting
<1>2. IInv => SharesAreCounted BY <1>1 DEF SharesAreCounted
<1> QED BY <1>2, Invariance, PTL

(* A message goes out by a sending call, to a contact its copy lets it.    *)
LEMMA Sender ==
    ASSUME IInv, [Next]_vars, NEW c \in People, sent'[c] # sent[c]
    PROVE  \E b \in Actors :
             /\ do[b].pc = "act" /\ \A a \in Actors \ {b} : do'[a] = do[a]
             /\ \/ do[b].op = "send" /\ do[b].who = c
                \/ do[b].op \in Ticks
             /\ do[b].copy[c] # NoOne /\ do[b].copy[c].cool <= do[b].at
<1>1. PICK b \in Actors : SendDecision(b) \/ SendNext(b)
  <2>1. sent' # sent BY DEF IInv, Typed
  <2>2. ASSUME NEW b \in Actors,
               \/ UpsertCommand(b) \/ SetStatusCommand(b) \/ SyncMAEP(b) \/ TickCommand(b)
               \/ UpsertTool(b) \/ SendTool(b) \/ RankTool(b)
               \/ ObserveTelegram(b) \/ ObserveMAEP(b)
               \/ TelegramFeedback(b) \/ MAEPFeedback(b) \/ SessionEnd(b)
        PROVE  FALSE
    BY <2>1, <2>2 DEF UpsertCommand, SetStatusCommand, SyncMAEP, TickCommand, UpsertTool,
            SendTool, RankTool, ObserveTelegram, ObserveMAEP, TelegramFeedback, MAEPFeedback,
            SessionEnd, Contacting, Start, history
  <2>3. ASSUME NEW b \in Actors,
               \/ AddCandidate(b) \/ GetActive(b) \/ GetInactive(b)
               \/ SaveActive(b) \/ SaveInactive(b) \/ Cut(b)
        PROVE  FALSE
    BY <2>1, <2>3 DEF AddCandidate, GetActive, GetInactive, SaveActive, SaveInactive, Cut, history
  <2>4. ASSUME NEW b \in Actors,
               \/ Upsert(b) \/ Edit(b) \/ SetStatus(b) \/ Refresh(b)
               \/ UpdateFeedback(b) \/ PutSession(b)
        PROVE  FALSE
    BY <2>1, <2>4 DEF Upsert, Edit, SetStatus, Refresh, UpdateFeedback, PutSession, history
  <2>5. ASSUME NEW b \in Actors,
               \/ ListContacts(b) \/ AssignNickname(b) \/ ReadCandidates(b)
               \/ ApplyPreferences(b) \/ Decide(b) \/ Rebalance(b) \/ KeepNext(b)
        PROVE  FALSE
    BY <2>1, <2>5 DEF ListContacts, AssignNickname, ReadCandidates, ApplyPreferences, Rewrite,
            Decide, Rebalance, KeepNext, history
  <2>6. ~NextDay /\ ~UNCHANGED vars BY <2>1 DEF NextDay, vars, history
  <2> QED BY <2>2, <2>3, <2>4, <2>5, <2>6 DEF Next
<1>2. ASSUME NEW x \in People, NEW rec, Deliver(b, x, rec) \/ (Finish(b) /\ UNCHANGED sent)
      PROVE  c = x /\ \A a \in Actors \ {b} : do'[a] = do[a]
  <2>1. sent \in [People -> Nat] /\ do \in [Actors -> Calls] BY DEF IInv, Typed
  <2> QED BY <1>2, <2>1 DEF Deliver, Put, Finish
<1>3. CASE SendDecision(b)
  <2>1. /\ do[b].pc = "act" /\ do[b].op = "send" /\ do[b].op \in Single /\ do[b].op \notin Creating
    BY <1>3 DEF SendDecision, Acts, Single, Creating
  <2>2. do[b].who \in People /\ Mine(b) = do[b].copy[do[b].who] /\ Mine(b) # NoOne
    BY <2>1, MineFacts
  <2>3. Eligible(Mine(b), do[b].at) /\ Deliver(b, do[b].who, Mine(b))
    BY <1>3 DEF SendDecision
  <2>4. c = do[b].who /\ \A a \in Actors \ {b} : do'[a] = do[a] BY <1>2, <2>2, <2>3
  <2> QED BY <2>1, <2>2, <2>3, <2>4 DEF Eligible
<1>4. CASE SendNext(b)
  <2>1. do[b].pc = "act" /\ do[b].op \in Ticks /\ do[b].stage = "sends"
    BY <1>4 DEF SendNext, At
  <2>2. PICK x \in do[b].todo : Deliver(b, x, do[b].copy[x]) BY <1>4 DEF SendNext
  <2>3. x \in People BY CallFacts DEF Calls
  <2>4. c = x /\ \A a \in Actors \ {b} : do'[a] = do[a] BY <1>2, <2>2, <2>3
  <2>5. Reached(do[b]) BY DEF IInv, Typed
  <2>6. do[b].copy[x] # NoOne /\ do[b].copy[x].cool <= do[b].at
    BY <2>1, <2>2, <2>5 DEF Reached
  <2> QED BY <2>1, <2>4, <2>6
<1> QED BY <1>1, <1>3, <1>4

(* However calls interleave: a contact set aside gets no message from a    *)
(* call of before the day it was set aside to, but for those the property  *)
(* names.                                                                  *)
THEOREM AloneIsLeftAlone == Spec => LeftAlone
<1>1. ASSUME IInv, [Next]_vars, NEW c \in People, NEW a \in Actors,
             sent'[c] # sent[c], do'[a] # do[a]
      PROVE  \/ do[a].at >= quiet[c]
             \/ c \in excused \cup do[a].stale
             \/ \E b \in Actors \ {a} : do[b].who = c /\ do[b].pc \in {"session", "put", "save"}
  <2>1. PICK b \in Actors :
             /\ do[b].pc = "act" /\ \A e \in Actors \ {b} : do'[e] = do[e]
             /\ \/ do[b].op = "send" /\ do[b].who = c
                \/ do[b].op \in Ticks
             /\ do[b].copy[c] # NoOne /\ do[b].copy[c].cool <= do[b].at
    BY <1>1, Sender
  <2>2. b = a BY <1>1, <2>1
  <2>3. SUFFICES ASSUME c \notin excused, c \notin do[a].stale,
                        \A e \in Actors \ {a} : ~Changes(do[e], c, Changing)
                 PROVE  do[a].at >= quiet[c]
    BY DEF Changes, Changing
  <2>4. \A e \in Actors : ~Changes(do[e], c, Changing)
    BY <2>1, <2>2, <2>3 DEF Changes, Changing
  <2>5. Holds(do[a], c) BY <2>1, <2>2, <2>3 DEF Holds, Ticks
  <2>6. Settled(do, active, inactive, c, Changing, Warning(c))
    BY <1>1, <2>3 DEF IInv, Warned
  <2>7. do[a].copy[c] \in Warning(c) BY <2>4, <2>5, <2>6 DEF Settled
  <2>8. do[a].copy[c].cool >= quiet[c] /\ do[a].copy[c] \in Recs BY <2>7 DEF Warning
  <2>9. do[a].copy[c].cool \in Nat /\ do[a].at \in Nat /\ quiet[c] \in Nat
    <3>1. do[a].at \in 0 .. Horizon /\ Horizon \in Nat BY <1>1, CallFacts, ConstantFacts DEF Calls
    <3> QED BY <1>1, <2>8, <3>1, RecFacts, DaysFacts DEF IInv, Typed
  <2> QED BY <2>1, <2>2, <2>8, <2>9
<1>2. IInv /\ [Next]_vars =>
        [\A c \in People, a \in Actors :
           sent'[c] # sent[c] /\ do'[a] # do[a]
             => \/ do[a].at >= quiet[c]
                \/ c \in excused \cup do[a].stale
                \/ \E b \in Actors \ {a} : do[b].who = c /\ do[b].pc \in {"session", "put", "save"}]_vars
  BY <1>1
<1> QED BY <1>2, Invariance, PTL DEF Spec, LeftAlone

(* For any limit: a tick that nobody interferes with ends with no more     *)
(* contacts active than the limit.                                         *)
THEOREM ActiveStaysBounded == Spec => ActiveIsBounded
<1>1. ASSUME IInv, NEW a \in Actors, At(a, "keeps"), do[a].todo = {}, do[a].stale = {}
      PROVE  Cardinality(Known(active)) <= MaxActive
  <2>1. Rebalanced(do[a], active) BY <1>1 DEF IInv, Bounded
  <2>2. Going(do[a]) = {} BY <1>1 DEF At, Going
  <2>3. Known(active) \ Going(do[a]) = Known(active) BY <2>2
  <2> QED BY <1>1, <2>1, <2>3 DEF At, Rebalanced
<1>2. IInv /\ [Next]_vars =>
        [\A a \in Actors :
           At(a, "keeps") /\ do'[a] = Idle /\ do[a].todo = {} /\ do[a].stale = {}
             => Cardinality(Known(active)) <= MaxActive]_vars
  BY <1>1
<1> QED BY <1>2, Invariance, PTL DEF Spec, ActiveIsBounded
=============================================================================
