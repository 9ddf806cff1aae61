--------------------------- MODULE TelegramProofs ---------------------------
(***************************************************************************)
(* The Telegram bot, in two parts.                                         *)
(*                                                                         *)
(* Chats: for any chats, messages, resets and limits, a chat's history     *)
(* stays a transcript and what a reset removed stays forgotten.  Both rest *)
(* on the way of a message: it is at one place only, and a chat's messages *)
(* stand in the order they came, from its history to the poll loop.        *)
(*                                                                         *)
(* Memory: for any sessions, drafts, answers and limits, a heartbeat finds *)
(* the chats with open tasks, and a text that was recorded stays until a   *)
(* model drops it, unless the file was written from an outdated reading.   *)
(* Both rest on what each update has in its hands: a reading that is not   *)
(* outdated has all that is recorded, unless another update is filling the *)
(* file.  Promotions keep the dates of notes and the limits of their file: *)
(* this rests on what the merge and the cut of one file return.            *)
(***************************************************************************)
EXTENDS TelegramChat, Memory, ListTheorems, SequenceTheorems, FiniteSetTheorems, TLAPS

-----------------------------------------------------------------------------
(* Histories, as sequences of entries.                                     *)
Transcript(h) ==
    LET at(k) == {i \in 1..Len(h) : h[i].kind = k} IN
    /\ \A i \in at("user") : i < Len(h) /\ h[i + 1] = [kind |-> "answer", msg |-> h[i].msg]
    /\ \A i \in at("answer") : i = 1 \/ i - 1 \in at("user")
    /\ \A i, j \in at("answer") : i < j => h[i].msg < h[j].msg

(* Entries of heartbeats, and no others, name no message.                  *)
Named(h) == \A i \in 1..Len(h) : h[i].kind \in {"user", "answer"} <=> h[i].msg # Heartbeat

Good(h) == h \in Seq(Entries) /\ Transcript(h) /\ Named(h)

LEMMA EntryFacts ==
    ASSUME NEW h \in Seq(Entries)
    PROVE  /\ Len(h) \in Nat /\ DOMAIN h = 1..Len(h)
           /\ \A i \in 1..Len(h) : /\ h[i] \in Entries /\ h[i].msg \in 0..MaxMessages
                                   /\ h[i].kind \in {"user", "answer", "report", "alert"}
<1>1. Len(h) \in Nat /\ DOMAIN h = 1..Len(h) BY LenProperties
<1>2. \A i \in 1..Len(h) : h[i] \in Entries BY ElementOfSeq
<1> QED BY <1>1, <1>2 DEF Entries

LEMMA MessagesFacts ==
    ASSUME NEW h \in Seq(Entries)
    PROVE  /\ \A m : m \in Messages(h) <=> m # Heartbeat /\ \E i \in 1..Len(h) : h[i].msg = m
           /\ Messages(h) \subseteq 1..MaxMessages
<1>1. DOMAIN h = 1..Len(h) /\ \A i \in 1..Len(h) : h[i].msg \in 0..MaxMessages BY EntryFacts
<1>2. \A m : m \in Messages(h) <=> m # Heartbeat /\ \E i \in 1..Len(h) : h[i].msg = m
  BY <1>1 DEF Messages, ToSet
<1> QED BY <1>1, <1>2, TelegramConstants DEF Heartbeat

LEMMA EmptyGood == Good(<<>>) /\ Messages(<<>>) = {}
<1>1. <<>> \in Seq(Entries) /\ Len(<<>>) = 0 OBVIOUS
<1>2. ToSet(<<>>) = {} BY DEF ToSet
<1>3. Messages(<<>>) = {} BY <1>2 DEF Messages
<1> QED BY <1>1, <1>3 DEF Good, Transcript, Named

(* What is left of a transcript without its oldest entries is one.         *)
LEMMA SuffixGood ==
    ASSUME NEW h, Good(h), NEW t \in Seq(Entries), NEW k \in Nat,
           Len(t) = Len(h) - k, \A i \in 1..Len(t) : t[i] = h[i + k]
    PROVE  Good(t) /\ Messages(t) \subseteq Messages(h)
<1>1. h \in Seq(Entries) /\ Transcript(h) /\ Named(h) BY DEF Good
<1>2. Len(h) \in Nat /\ Len(t) \in Nat BY <1>1, EntryFacts
<1>3. \A i \in 1..Len(t) : i + k \in 1..Len(h) BY <1>2
<1>4. Named(t) BY <1>1, <1>3 DEF Named
<1>5. ASSUME NEW i \in 1..Len(t), t[i].kind = "user"
      PROVE  i < Len(t) /\ t[i + 1] = [kind |-> "answer", msg |-> t[i].msg]
  <2>1. i + k < Len(h) /\ h[(i + k) + 1] = [kind |-> "answer", msg |-> h[i + k].msg]
    BY <1>1, <1>3, <1>5 DEF Transcript
  <2>2. i < Len(t) /\ i + 1 \in 1..Len(t) /\ (i + k) + 1 = (i + 1) + k BY <1>2, <2>1
  <2>3. t[i + 1] = h[(i + k) + 1] BY <2>2
  <2> QED BY <2>1, <2>2, <2>3
<1>6. ASSUME NEW i \in 1..Len(t), t[i].kind = "answer", i # 1
      PROVE  i - 1 \in 1..Len(t) /\ t[i - 1].kind = "user"
  <2>1. h[i + k].kind = "answer" /\ i + k # 1 BY <1>6
  <2>2. h[(i + k) - 1].kind = "user" BY <1>1, <1>3, <2>1 DEF Transcript
  <2>3. i - 1 \in 1..Len(t) /\ (i - 1) + k = (i + k) - 1 BY <1>2, <1>6
  <2>4. t[i - 1] = h[(i - 1) + k] BY <2>3
  <2> QED BY <2>2, <2>3, <2>4
<1>7. ASSUME NEW i \in 1..Len(t), NEW j \in 1..Len(t), t[i].kind = "answer",
             t[j].kind = "answer", i < j
      PROVE  t[i].msg < t[j].msg
  <2>1. i + k < j + k /\ h[i + k].kind = "answer" /\ h[j + k].kind = "answer" BY <1>7
  <2>2. h[i + k].msg < h[j + k].msg BY <1>1, <1>3, <2>1 DEF Transcript
  <2> QED BY <2>2
<1>8. Transcript(t) BY <1>5, <1>6, <1>7 DEF Transcript
<1>9. ASSUME NEW m \in Messages(t) PROVE m \in Messages(h)
  <2>1. m # Heartbeat /\ \E i \in 1..Len(t) : t[i].msg = m BY <1>9, MessagesFacts
  <2>2. \E i \in 1..Len(h) : h[i].msg = m BY <1>3, <2>1
  <2> QED BY <1>1, <2>1, <2>2, MessagesFacts
<1> QED BY <1>4, <1>8, <1>9 DEF Good

LEMMA TrimGood ==
    ASSUME NEW h, Good(h)
    PROVE  /\ Good(Trim(h)) /\ Len(Trim(h)) <= HistoryMax
           /\ Messages(Trim(h)) \subseteq Messages(h)
<1>1. h \in Seq(Entries) /\ Len(h) \in Nat /\ HistoryMax \in Nat \ {0}
  BY TelegramConstants, EntryFacts DEF Good
<1>2. CASE Len(h) <= HistoryMax
  <2>1. Trim(h) = h BY <1>1, <1>2 DEF Trim
  <2> QED BY <1>2, <2>1
<1>3. CASE Len(h) > HistoryMax
  <2> DEFINE k == Len(h) - HistoryMax
             t == SubSeq(h, Len(h) - HistoryMax + 1, Len(h))
  <2>1. Trim(h) = t /\ k \in Nat BY <1>1, <1>3 DEF Trim
  <2>2. \A i \in (Len(h) - HistoryMax + 1)..Len(h) : h[i] \in Entries BY <1>1, <1>3, EntryFacts
  <2>3. Len(h) - HistoryMax + 1 \in Int /\ Len(h) \in Int BY <1>1
  <2>4. /\ t \in Seq(Entries)
        /\ Len(t) = IF Len(h) - HistoryMax + 1 <= Len(h)
                    THEN Len(h) - (Len(h) - HistoryMax + 1) + 1 ELSE 0
        /\ \A i \in 1..(Len(h) - (Len(h) - HistoryMax + 1) + 1) :
              t[i] = h[(Len(h) - HistoryMax + 1) + i - 1]
    BY <2>2, <2>3, SubSeqProperties
  <2> HIDE DEF t
  <2>5. Len(t) = HistoryMax /\ Len(t) = Len(h) - k BY <1>1, <1>3, <2>4
  <2>6. \A i \in 1..Len(t) : t[i] = h[i + k] BY <1>1, <1>3, <2>4, <2>5
  <2>7. Good(t) /\ Messages(t) \subseteq Messages(h) BY <2>1, <2>4, <2>5, <2>6, SuffixGood
  <2> QED BY <1>1, <2>1, <2>5, <2>7
<1> QED BY <1>1, <1>2, <1>3

(* An entry of a heartbeat can come anywhere at the end.                   *)
LEMMA NoteGood ==
    ASSUME NEW h, Good(h), NEW e \in Entries, e.kind \in {"report", "alert"}, e.msg = Heartbeat
    PROVE  Good(Append(h, e)) /\ Messages(Append(h, e)) = Messages(h)
<1> DEFINE t == Append(h, e)
<1>1. h \in Seq(Entries) /\ Transcript(h) /\ Named(h) /\ Len(h) \in Nat BY EntryFacts DEF Good
<1>2. /\ t \in Seq(Entries) /\ Len(t) = Len(h) + 1 /\ t[Len(h) + 1] = e
      /\ \A i \in 1..Len(h) : t[i] = h[i]
  BY <1>1, AppendProperties
<1> HIDE DEF t
<1>3. \A i \in 1..Len(t) : t[i].kind \in {"user", "answer"} => i \in 1..Len(h)
  BY <1>1, <1>2
<1>4. Named(t)
  <2>1. \A i \in 1..Len(t) : i \in 1..Len(h) \/ i = Len(h) + 1 BY <1>1, <1>2
  <2> QED BY <1>1, <1>2, <2>1 DEF Named
<1>5. Transcript(t)
  <2>1. ASSUME NEW i \in 1..Len(t), t[i].kind = "user"
        PROVE  i < Len(t) /\ t[i + 1] = [kind |-> "answer", msg |-> t[i].msg]
    <3>1. i \in 1..Len(h) /\ h[i].kind = "user" BY <1>2, <1>3, <2>1
    <3>2. i < Len(h) /\ h[i + 1] = [kind |-> "answer", msg |-> h[i].msg]
      BY <1>1, <3>1 DEF Transcript
    <3>3. i + 1 \in 1..Len(h) BY <1>1, <3>2
    <3> QED BY <1>1, <1>2, <3>1, <3>2, <3>3
  <2>2. ASSUME NEW i \in 1..Len(t), t[i].kind = "answer", i # 1
        PROVE  i - 1 \in 1..Len(t) /\ t[i - 1].kind = "user"
    <3>1. i \in 1..Len(h) /\ h[i].kind = "answer" BY <1>2, <1>3, <2>2
    <3>2. i - 1 \in 1..Len(h) /\ h[i - 1].kind = "user" BY <1>1, <2>2, <3>1 DEF Transcript
    <3> QED BY <1>1, <1>2, <3>2
  <2>3. ASSUME NEW i \in 1..Len(t), NEW j \in 1..Len(t), t[i].kind = "answer",
               t[j].kind = "answer", i < j
        PROVE  t[i].msg < t[j].msg
    <3>1. i \in 1..Len(h) /\ j \in 1..Len(h) /\ h[i].kind = "answer" /\ h[j].kind = "answer"
      BY <1>2, <1>3, <2>3
    <3>2. h[i].msg < h[j].msg BY <1>1, <2>3, <3>1 DEF Transcript
    <3> QED BY <1>2, <3>1, <3>2
  <2> QED BY <2>1, <2>2, <2>3 DEF Transcript
<1>6. \A m : m \in Messages(t) <=> m \in Messages(h)
  <2>1. \A m : m # Heartbeat => ((\E i \in 1..Len(t) : t[i].msg = m) <=> (\E i \in 1..Len(h) : h[i].msg = m))
    BY <1>1, <1>2
  <2> QED BY <1>1, <1>2, <2>1, MessagesFacts
<1> QED BY <1>2, <1>4, <1>5, <1>6 DEF Good, t

(* A message that came after all in the history, with its answer.          *)
LEMMA ExchangeGood ==
    ASSUME NEW h, Good(h), NEW m \in 0..MaxMessages,
           m # Heartbeat => \A n \in Messages(h) : n < m
    PROVE  /\ Good(h \o Exchange(m))
           /\ Messages(h \o Exchange(m)) \subseteq Messages(h) \cup {m}
<1>1. h \in Seq(Entries) /\ Transcript(h) /\ Named(h) /\ Len(h) \in Nat BY EntryFacts DEF Good
<1>2. CASE m = Heartbeat
  <2> DEFINE e == [kind |-> "report", msg |-> m]
  <2>1. e \in Entries /\ e.kind = "report" /\ e.msg = Heartbeat BY <1>2 DEF Entries
  <2>2. Exchange(m) = <<e>> BY <1>2 DEF Exchange
  <2>3. h \o <<e>> = Append(h, e) BY <1>1, <2>1, AppendIsConcat
  <2> HIDE DEF e
  <2> QED BY <2>1, <2>2, <2>3, NoteGood
<1>3. CASE m # Heartbeat
  <2> DEFINE u == [kind |-> "user", msg |-> m]
             a == [kind |-> "answer", msg |-> m]
             x == <<u, a>>
             t == h \o x
             n == Len(h)
  <2>1. u \in Entries /\ a \in Entries BY DEF Entries
  <2>2. u.kind = "user" /\ a.kind = "answer" /\ u.msg = m /\ a.msg = m OBVIOUS
  <2>3. Exchange(m) = x BY <1>3 DEF Exchange
  <2>0. a = [kind |-> "answer", msg |-> u.msg] OBVIOUS
  <2> HIDE DEF u, a
  <2>4. x \in Seq(Entries) /\ Len(x) = 2 /\ x[1] = u /\ x[2] = a BY <2>1
  <2> HIDE DEF x
  <2>5. /\ t \in Seq(Entries) /\ Len(t) = n + 2
        /\ \A i \in 1..(n + 2) : t[i] = IF i <= n THEN h[i] ELSE x[i - n]
    <3>1. h \in Seq(Entries) /\ x \in Seq(Entries) BY <1>1, <2>4
    <3>2. /\ t \in Seq(Entries) /\ Len(t) = Len(h) + Len(x)
          /\ \A i \in 1..(Len(h) + Len(x)) : t[i] = IF i <= Len(h) THEN h[i] ELSE x[i - Len(h)]
      BY ONLY <3>1, ConcatProperties DEF t
    <3>3. Len(h) + Len(x) = n + 2 BY <2>4
    <3> QED BY <3>2, <3>3
  <2> HIDE DEF t
  <2>6. /\ t[n + 1] = u /\ t[n + 2] = a
        /\ \A i \in 1..n : t[i] = h[i]
        /\ \A i \in 1..Len(t) : i \in 1..n \/ i = n + 1 \/ i = n + 2
    BY <1>1, <2>4, <2>5
  <2>7. Named(t) BY <1>1, <1>3, <2>2, <2>6 DEF Named
  <2>8. ASSUME NEW i \in 1..n, h[i].kind = "answer" PROVE h[i].msg < m
    <3>1. h[i].msg # Heartbeat BY <1>1, <2>8 DEF Named
    <3>2. h[i].msg \in Messages(h) BY <1>1, <3>1, MessagesFacts
    <3> QED BY <1>3, <3>2
  <2>9. Transcript(t)
    <3>1. ASSUME NEW i \in 1..Len(t), t[i].kind = "user"
          PROVE  i < Len(t) /\ t[i + 1] = [kind |-> "answer", msg |-> t[i].msg]
      <4>1. CASE i \in 1..n
        <5>1. i < n /\ h[i + 1] = [kind |-> "answer", msg |-> h[i].msg]
          BY <1>1, <2>6, <3>1, <4>1 DEF Transcript
        <5>2. i + 1 \in 1..n BY <1>1, <5>1
        <5> QED BY <1>1, <2>5, <2>6, <4>1, <5>1, <5>2
      <4>2. CASE i = n + 1
        <5>1. i + 1 = n + 2 BY <1>1, <4>2
        <5> QED BY <1>1, <2>0, <2>5, <2>6, <4>2, <5>1
      <4>3. CASE i = n + 2 BY <2>2, <2>6, <3>1, <4>3
      <4> QED BY <2>6, <4>1, <4>2, <4>3
    <3>2. ASSUME NEW i \in 1..Len(t), t[i].kind = "answer", i # 1
          PROVE  i - 1 \in 1..Len(t) /\ t[i - 1].kind = "user"
      <4>1. CASE i \in 1..n
        <5>1. i - 1 \in 1..n /\ h[i - 1].kind = "user"
          BY <1>1, <2>6, <3>2, <4>1 DEF Transcript
        <5> QED BY <1>1, <2>5, <2>6, <5>1
      <4>2. CASE i = n + 1 BY <2>2, <2>6, <3>2, <4>2
      <4>3. CASE i = n + 2
        <5>1. i - 1 = n + 1 /\ n + 1 \in 1..Len(t) BY <1>1, <2>5, <4>3
        <5> QED BY <2>2, <2>6, <5>1
      <4> QED BY <2>6, <4>1, <4>2, <4>3
    <3>3. ASSUME NEW i \in 1..Len(t), NEW j \in 1..Len(t), t[i].kind = "answer",
                 t[j].kind = "answer", i < j
          PROVE  t[i].msg < t[j].msg
      <4>1. i # n + 1 /\ j # n + 1 BY <2>2, <2>6, <3>3
      <4>2. i \in 1..n BY <1>1, <2>5, <2>6, <3>3, <4>1
      <4>3. CASE j \in 1..n
        <5>1. h[i].msg < h[j].msg BY <1>1, <2>6, <3>3, <4>2, <4>3 DEF Transcript
        <5> QED BY <2>6, <4>2, <4>3, <5>1
      <4>4. CASE j = n + 2
        <5>1. h[i].msg < m BY <2>6, <2>8, <3>3, <4>2
        <5> QED BY <2>2, <2>6, <4>2, <4>4, <5>1
      <4> QED BY <2>6, <4>1, <4>3, <4>4
    <3> QED BY <3>1, <3>2, <3>3 DEF Transcript
  <2>10. ASSUME NEW k \in Messages(t) PROVE k \in Messages(h) \cup {m}
    <3>1. k # Heartbeat /\ \E i \in 1..Len(t) : t[i].msg = k BY <2>5, <2>10, MessagesFacts
    <3>2. k = m \/ \E i \in 1..n : h[i].msg = k BY <2>2, <2>6, <3>1
    <3> QED BY <1>1, <3>1, <3>2, MessagesFacts
  <2> QED BY <2>3, <2>5, <2>7, <2>9, <2>10 DEF Good, t
<1> QED BY <1>2, <1>3
-----------------------------------------------------------------------------
(* The messages of a chat that are on their way: in the queue q, at the    *)
(* worker (j) or at the poll loop (s); 0 where there is none.              *)
HeldIn(q, j, s) ==
    {m \in 1..MaxMessages : m = j \/ m = s \/ \E i \in 1..Len(q) : q[i].msg = m}

(* They stand in the order they came, behind those of the history h.       *)
LineOf(q, j, s, h) ==
    /\ \A i, k \in 1..Len(q) : i < k /\ q[k].msg # Heartbeat => q[i].msg < q[k].msg
    /\ \A i \in 1..Len(q) : q[i].msg # Heartbeat => j < q[i].msg
    /\ s # Heartbeat => j < s /\ \A i \in 1..Len(q) : q[i].msg < s
    /\ \A m \in Messages(h), n \in HeldIn(q, j, s) : m < n

LEMMA QueueFacts ==
    ASSUME NEW q \in Seq(Jobs)
    PROVE  /\ Len(q) \in Nat /\ MaxMessages \in Nat
           /\ \A i \in 1..Len(q) : q[i] \in Jobs /\ q[i].msg \in 0..MaxMessages
<1>1. Len(q) \in Nat BY LenProperties
<1>2. \A i \in 1..Len(q) : q[i] \in Jobs BY ElementOfSeq
<1> QED BY <1>1, <1>2, TelegramConstants DEF Jobs

LEMMA LineSends ==
    ASSUME NEW q \in Seq(Jobs), NEW e \in Jobs, NEW j \in 0..MaxMessages,
           NEW s \in 0..MaxMessages, NEW r \in 0..MaxMessages, NEW h \in Seq(Entries),
           LineOf(q, j, s, h),
           (e.msg = s /\ r = Heartbeat) \/ (e.msg = Heartbeat /\ r = s)
    PROVE  /\ HeldIn(Append(q, e), j, r) = HeldIn(q, j, s)
           /\ LineOf(Append(q, e), j, r, h)
<1> DEFINE t == Append(q, e)
<1>1. Len(q) \in Nat /\ e.msg \in 0..MaxMessages /\ MaxMessages \in Nat
      /\ \A i \in 1..Len(q) : q[i].msg \in 0..MaxMessages
  BY QueueFacts DEF Jobs
<1>2. /\ Len(t) = Len(q) + 1 /\ t[Len(q) + 1] = e /\ \A i \in 1..Len(q) : t[i] = q[i]
      /\ \A i \in 1..Len(t) : i \in 1..Len(q) \/ i = Len(q) + 1
  BY <1>1, AppendProperties
<1> HIDE DEF t
<1>3. HeldIn(t, j, r) = HeldIn(q, j, s)
  <2>1. \A m \in 1..MaxMessages :
          (\E i \in 1..Len(t) : t[i].msg = m) <=> m = e.msg \/ \E i \in 1..Len(q) : q[i].msg = m
    <3>1. Len(q) + 1 \in 1..Len(t) /\ \A i \in 1..Len(q) : i \in 1..Len(t) BY <1>1, <1>2
    <3> QED BY <1>2, <3>1
  <2> QED BY <2>1 DEF HeldIn, Heartbeat
<1>4. ASSUME NEW i \in 1..Len(t), NEW k \in 1..Len(t), i < k, t[k].msg # Heartbeat
      PROVE  t[i].msg < t[k].msg
  <2>1. i \in 1..Len(q) BY <1>1, <1>2, <1>4
  <2>2. CASE k \in 1..Len(q)
    <3>1. q[i].msg < q[k].msg BY <1>2, <1>4, <2>1, <2>2 DEF LineOf
    <3> QED BY <1>2, <2>1, <2>2, <3>1
  <2>3. CASE k = Len(q) + 1
    <3>1. e.msg = s /\ s # Heartbeat BY <1>2, <1>4, <2>3
    <3>2. q[i].msg < s BY <2>1, <3>1 DEF LineOf
    <3> QED BY <1>2, <2>1, <2>3, <3>1, <3>2
  <2> QED BY <1>2, <2>2, <2>3
<1>5. ASSUME NEW i \in 1..Len(t), t[i].msg # Heartbeat PROVE j < t[i].msg
  <2>1. CASE i \in 1..Len(q) BY <1>2, <1>5, <2>1 DEF LineOf
  <2>2. CASE i = Len(q) + 1
    <3>1. e.msg = s /\ s # Heartbeat BY <1>2, <1>5, <2>2
    <3> QED BY <1>2, <2>2, <3>1 DEF LineOf
  <2> QED BY <1>2, <2>1, <2>2
<1>6. ASSUME r # Heartbeat PROVE j < r /\ \A i \in 1..Len(t) : t[i].msg < r
  <2>1. r = s /\ e.msg = 0 BY <1>6 DEF Heartbeat
  <2>2. j < r /\ \A i \in 1..Len(q) : q[i].msg < r BY <1>6, <2>1 DEF LineOf
  <2>3. 0 < r BY <1>6 DEF Heartbeat
  <2> QED BY <1>2, <2>1, <2>2, <2>3
<1>7. \A m \in Messages(h), n \in HeldIn(t, j, r) : m < n BY <1>3 DEF LineOf
<1> QED BY <1>3, <1>4, <1>5, <1>6, <1>7 DEF LineOf, t

LEMMA LineTakes ==
    ASSUME NEW q \in Seq(Jobs), q # <<>>, NEW s \in 0..MaxMessages, NEW h \in Seq(Entries),
           LineOf(q, Heartbeat, s, h)
    PROVE  /\ HeldIn(Tail(q), Head(q).msg, s) = HeldIn(q, Heartbeat, s)
           /\ LineOf(Tail(q), Head(q).msg, s, h)
<1> DEFINE t == Tail(q)
           n == Len(q)
<1>1. n \in Nat \ {0} /\ MaxMessages \in Nat /\ Head(q) = q[1]
      /\ \A i \in 1..n : q[i].msg \in 0..MaxMessages
  BY QueueFacts, EmptySeq
<1>2. Len(t) = n - 1 /\ \A i \in 1..Len(t) : t[i] = q[i + 1] BY HeadTailProperties
<1>3. /\ \A i \in 1..Len(t) : i + 1 \in 1..n
      /\ \A i \in 1..n : i = 1 \/ (i - 1 \in 1..Len(t) /\ q[i] = t[i - 1])
  <2>1. \A i \in 1..n : i # 1 => i - 1 \in 1..Len(t) /\ (i - 1) + 1 = i BY <1>1, <1>2
  <2> QED BY <1>1, <1>2, <2>1
<1> HIDE DEF t, n
<1>4. HeldIn(t, q[1].msg, s) = HeldIn(q, Heartbeat, s)
  <2>1. \A m \in 1..MaxMessages :
          (\E i \in 1..n : q[i].msg = m) <=> m = q[1].msg \/ \E i \in 1..Len(t) : t[i].msg = m
    <3>1. 1 \in 1..n BY <1>1
    <3> QED BY <1>2, <1>3, <3>1
  <2>2. \A m \in 1..MaxMessages : m # Heartbeat BY DEF Heartbeat
  <2> QED BY <2>1, <2>2 DEF HeldIn, n
<1>5. ASSUME NEW i \in 1..Len(t), NEW k \in 1..Len(t), i < k, t[k].msg # Heartbeat
      PROVE  t[i].msg < t[k].msg
  <2>1. i + 1 \in 1..n /\ k + 1 \in 1..n /\ i + 1 < k + 1 BY <1>3, <1>5
  <2>2. t[i] = q[i + 1] /\ t[k] = q[k + 1] BY <1>2
  <2> QED BY <1>5, <2>1, <2>2 DEF LineOf, n
<1>6. ASSUME NEW i \in 1..Len(t), t[i].msg # Heartbeat PROVE q[1].msg < t[i].msg
  <2>1. i + 1 \in 1..n /\ 1 \in 1..n /\ 1 < i + 1 BY <1>1, <1>3
  <2>2. t[i] = q[i + 1] BY <1>2
  <2> QED BY <1>6, <2>1, <2>2 DEF LineOf, n
<1>7. ASSUME s # Heartbeat PROVE q[1].msg < s /\ \A i \in 1..Len(t) : t[i].msg < s
  BY <1>1, <1>2, <1>3, <1>7 DEF LineOf, n
<1>8. \A m \in Messages(h), k \in HeldIn(t, q[1].msg, s) : m < k BY <1>4 DEF LineOf
<1> QED BY <1>1, <1>4, <1>5, <1>6, <1>7, <1>8 DEF LineOf, t

LEMMA LineEnds ==
    ASSUME NEW q \in Seq(Jobs), NEW j \in 0..MaxMessages, NEW s \in 0..MaxMessages,
           NEW h \in Seq(Entries), NEW g \in Seq(Entries), LineOf(q, j, s, h),
           Messages(g) \subseteq Messages(h) \cup {j}
    PROVE  /\ HeldIn(q, Heartbeat, s) \subseteq HeldIn(q, j, s)
           /\ LineOf(q, Heartbeat, s, g)
<1>1. Len(q) \in Nat /\ MaxMessages \in Nat /\ \A i \in 1..Len(q) : q[i].msg \in 0..MaxMessages
  BY QueueFacts
<1>2. HeldIn(q, Heartbeat, s) \subseteq HeldIn(q, j, s) BY DEF HeldIn, Heartbeat
<1>3. ASSUME NEW m \in Messages(g), NEW n \in HeldIn(q, Heartbeat, s) PROVE m < n
  <2>1. CASE m \in Messages(h) BY <1>2, <1>3, <2>1 DEF LineOf
  <2>2. CASE m = j
    <3>1. n # Heartbeat /\ (n = s \/ \E i \in 1..Len(q) : q[i].msg = n) BY DEF HeldIn, Heartbeat
    <3> QED BY <2>2, <3>1 DEF LineOf
  <2> QED BY <2>1, <2>2
<1>4. \A i \in 1..Len(q) : q[i].msg # Heartbeat => Heartbeat < q[i].msg BY <1>1 DEF Heartbeat
<1>5. s # Heartbeat => Heartbeat < s BY DEF Heartbeat
<1> QED BY <1>2, <1>3, <1>4, <1>5 DEF LineOf

LEMMA LineAccepts ==
    ASSUME NEW q \in Seq(Jobs), NEW j \in 0..MaxMessages, NEW h \in Seq(Entries),
           NEW a \in 0..MaxMessages, a < MaxMessages, LineOf(q, j, Heartbeat, h),
           HeldIn(q, j, Heartbeat) \subseteq 1..a, Messages(h) \subseteq 1..a
    PROVE  /\ HeldIn(q, j, a + 1) = HeldIn(q, j, Heartbeat) \cup {a + 1}
           /\ LineOf(q, j, a + 1, h)
<1>1. Len(q) \in Nat /\ MaxMessages \in Nat /\ \A i \in 1..Len(q) : q[i].msg \in 0..MaxMessages
  BY QueueFacts
<1>2. a + 1 \in 1..MaxMessages BY <1>1
<1>3. HeldIn(q, j, a + 1) = HeldIn(q, j, Heartbeat) \cup {a + 1}
  BY <1>2 DEF HeldIn, Heartbeat
<1>4. j < a + 1
  <2>1. CASE j = 0 BY <2>1
  <2>2. CASE j # 0
    <3>1. j \in HeldIn(q, j, Heartbeat) BY <1>1, <2>2 DEF HeldIn
    <3>2. j \in 1..a BY <3>1
    <3> QED BY <3>2
  <2> QED BY <2>1, <2>2
<1>5. ASSUME NEW i \in 1..Len(q) PROVE q[i].msg < a + 1
  <2>1. CASE q[i].msg = 0 BY <2>1
  <2>2. CASE q[i].msg # 0
    <3>1. q[i].msg \in 1..MaxMessages BY <1>1, <2>2
    <3>2. q[i].msg \in HeldIn(q, j, Heartbeat) BY <3>1 DEF HeldIn
    <3>3. q[i].msg \in 1..a BY <3>2
    <3> QED BY <3>3
  <2> QED BY <2>1, <2>2
<1>6. ASSUME NEW m \in Messages(h), NEW n \in HeldIn(q, j, a + 1) PROVE m < n
  <2>1. CASE n \in HeldIn(q, j, Heartbeat) BY <2>1 DEF LineOf
  <2>2. CASE n = a + 1
    <3>1. m \in 1..a OBVIOUS
    <3> QED BY <2>2, <3>1
  <2> QED BY <1>3, <2>1, <2>2
<1> QED BY <1>3, <1>4, <1>5, <1>6 DEF LineOf
-----------------------------------------------------------------------------
(* The invariant, a chat at a time: its messages in order, its history a   *)
(* transcript, its sticky skills of the present version; and no message is *)
(* at two chats, nor still with one once it is forgotten.                  *)
Sent(c) == IF loop.chat = c THEN loop.msg ELSE Heartbeat

Given(c) ==
    IF worker[c].pc = "run" /\ worker[c].seen = version[c]
    THEN Messages(worker[c].context) ELSE {}

Own(c) == HeldIn(queue[c], worker[c].job.msg, Sent(c)) \cup Messages(history[c]) \cup Given(c)

ChatInv(c) ==
    /\ worker[c].pc = "idle" => worker[c].job = NoJob
    /\ worker[c].pc = "alert" => worker[c].job.msg = Heartbeat
    /\ worker[c].seen <= version[c]
    /\ LineOf(queue[c], worker[c].job.msg, Sent(c), history[c])
    /\ Good(history[c])
    /\ sticky[c] \subseteq {version[c]}

Owned ==
    /\ forgotten \subseteq 1..arrived
    /\ \A c \in Chats : Own(c) \subseteq 1..arrived /\ Own(c) \cap forgotten = {}
    /\ \A c, d \in Chats : c # d => Own(c) \cap Own(d) = {}

IInv == TypeOK /\ IsFiniteSet(Running) /\ (\A c \in Chats : ChatInv(c)) /\ Owned

LEMMA NumberFacts ==
    /\ MaxMessages \in Nat /\ MaxResets \in Nat /\ HistoryMax \in Nat \ {0}
    /\ QueueCap \in Nat \ {0} /\ MaxConcurrency \in Nat \ {0} /\ FailureThreshold \in Nat \ {0}
    /\ NoJob.msg = Heartbeat /\ Heartbeat = 0
    /\ NoRun \in Runs /\ NoRun.pc = "idle" /\ NoRun.job = NoJob /\ NoRun.seen = 0
BY TelegramConstants DEF NoJob, Heartbeat, NoRun, Runs

LEMMA ChatTypes ==
    ASSUME TypeOK, NEW c \in Chats
    PROVE  /\ queue[c] \in Seq(Jobs) /\ worker[c] \in Runs /\ history[c] \in Seq(Entries)
           /\ version[c] \in 0..MaxResets /\ worker[c].job \in Jobs \cup {NoJob}
           /\ worker[c].job.msg \in 0..MaxMessages /\ worker[c].seen \in 0..MaxResets
           /\ Sent(c) \in 0..MaxMessages /\ arrived \in 0..MaxMessages
           /\ worker[c].context \in Seq(Entries)
<1>1. /\ queue[c] \in Seq(Jobs) /\ worker[c] \in Runs /\ history[c] \in Seq(Entries)
      /\ version[c] \in 0..MaxResets /\ loop \in Jobs \cup {NoJob} /\ arrived \in 0..MaxMessages
  BY DEF TypeOK
<1>2. /\ worker[c].job \in Jobs \cup {NoJob} /\ worker[c].seen \in 0..MaxResets
      /\ worker[c].context \in Seq(Entries)
  BY <1>1 DEF Runs
<1>3. \A j \in Jobs \cup {NoJob} : j.msg \in 0..MaxMessages BY NumberFacts DEF Jobs
<1> QED BY <1>1, <1>2, <1>3, NumberFacts DEF Sent

LEMMA InitHolds == Init => IInv
<1> SUFFICES ASSUME Init PROVE IInv OBVIOUS
<1>1. /\ arrived = 0 /\ loop = NoJob /\ queue = [c \in Chats |-> <<>>]
      /\ version = [c \in Chats |-> 0] /\ worker = [c \in Chats |-> NoRun]
      /\ history = [c \in Chats |-> <<>>] /\ sticky = [c \in Chats |-> {}]
      /\ hbRunning = [c \in Chats |-> FALSE] /\ failures = [c \in Chats |-> 0]
      /\ sessions = {} /\ identity = 0 /\ soul = 0 /\ initRequired \in BOOLEAN
      /\ owed = {} /\ forgotten = {}
  BY DEF Init
<1>2. Running = {} BY <1>1, NumberFacts DEF Running
<1>3. IsFiniteSet(Running) /\ Cardinality(Running) = 0 BY <1>2, FS_EmptySet
<1>4. TypeOK
  <2>1. <<>> \in Seq(Jobs) /\ <<>> \in Seq(Entries) /\ Len(<<>>) = 0 OBVIOUS
  <2>2. /\ queue \in [Chats -> Seq(Jobs)] /\ \A c \in Chats : Len(queue[c]) <= QueueCap
        /\ history \in [Chats -> Seq(Entries)] /\ \A c \in Chats : Len(history[c]) <= HistoryMax
    BY <1>1, <2>1, NumberFacts
  <2>3. worker \in [Chats -> Runs] /\ version \in [Chats -> 0..MaxResets]
    BY <1>1, NumberFacts
  <2>4. /\ sticky \in [Chats -> SUBSET (0..MaxResets)] /\ hbRunning \in [Chats -> BOOLEAN]
        /\ failures \in [Chats -> 0..(FailureThreshold - 1)]
    BY <1>1, NumberFacts
  <2> QED BY <1>1, <1>3, <2>2, <2>3, <2>4, NumberFacts DEF TypeOK
<1>5. ASSUME NEW c \in Chats PROVE ChatInv(c) /\ Own(c) = {}
  <2>1. /\ queue[c] = <<>> /\ worker[c] = NoRun /\ history[c] = <<>> /\ sticky[c] = {}
        /\ version[c] = 0 /\ Sent(c) = Heartbeat
    BY <1>1, NumberFacts DEF Sent
  <2>2. HeldIn(queue[c], worker[c].job.msg, Sent(c)) = {}
    BY <2>1, NumberFacts DEF HeldIn
  <2>3. LineOf(queue[c], worker[c].job.msg, Sent(c), history[c])
    BY <2>1, <2>2 DEF LineOf
  <2>4. Given(c) = {} BY <2>1, NumberFacts DEF Given
  <2> QED BY <2>1, <2>2, <2>3, <2>4, NumberFacts, EmptyGood DEF ChatInv, Own
<1>6. Owned BY <1>1, <1>5 DEF Owned
<1> QED BY <1>3, <1>4, <1>5, <1>6 DEF IInv

(* A chat that a step leaves alone.                                        *)
LEMMA SameChat ==
    ASSUME NEW d \in Chats, ChatInv(d), queue'[d] = queue[d], worker'[d] = worker[d],
           version'[d] = version[d], history'[d] = history[d], sticky'[d] = sticky[d],
           Sent(d)' = Sent(d)
    PROVE  ChatInv(d)' /\ Own(d)' = Own(d)
BY DEF ChatInv, Own, Given

(* A step at chat c brings no message to it and forgets none.              *)
LEMMA StepAt ==
    ASSUME IInv, NEW c \in Chats, TypeOK', IsFiniteSet(Running)',
           ChatInv(c)', Own(c)' \subseteq Own(c),
           arrived' = arrived, forgotten' = forgotten,
           \A d \in Chats \ {c} :
              /\ queue'[d] = queue[d] /\ worker'[d] = worker[d] /\ version'[d] = version[d]
              /\ history'[d] = history[d] /\ sticky'[d] = sticky[d] /\ Sent(d)' = Sent(d)
    PROVE  IInv'
<1>1. \A d \in Chats : ChatInv(d)' /\ Own(d)' \subseteq Own(d)
  <2>1. ASSUME NEW d \in Chats, d # c PROVE ChatInv(d)' /\ Own(d)' = Own(d)
    BY <2>1, SameChat DEF IInv
  <2> QED BY <2>1
<1>2. Owned' BY <1>1 DEF IInv, Owned
<1> QED BY <1>1, <1>2 DEF IInv

LEMMA RunningShrinks ==
    ASSUME IInv, Running' \subseteq Running
    PROVE  IsFiniteSet(Running)' /\ Cardinality(Running)' <= MaxConcurrency
<1>1. IsFiniteSet(Running) /\ Cardinality(Running) <= MaxConcurrency BY DEF IInv, TypeOK
<1>2. IsFiniteSet(Running') /\ Cardinality(Running') <= Cardinality(Running)
  BY <1>1, FS_Subset
<1>3. Cardinality(Running) \in Nat /\ Cardinality(Running') \in Nat
  BY <1>1, <1>2, FS_CardinalityType
<1> QED BY <1>1, <1>2, <1>3, NumberFacts

LEMMA RunningAt ==
    ASSUME TypeOK, NEW c \in Chats, NEW w, worker' = [worker EXCEPT ![c] = w]
    PROVE  /\ Running' \subseteq Running \cup {c}
           /\ w.pc \notin {"run", "alert", "store"} \/ worker[c].pc \in {"run", "alert", "store"}
                 => Running' \subseteq Running
BY DEF TypeOK, Running
-----------------------------------------------------------------------------
(* The poll loop.                                                          *)
LEMMA ProfileKept ==
    ASSUME IInv, NEW c \in Chats,
           InitTurnedAway(c) \/ InitAsk(c) \/ InitApply(c) \/ Ignore(c)
    PROVE  IInv'
<1> USE DEF chat, profile, Handles
<1>1. /\ arrived < MaxMessages /\ arrived' = arrived + 1
      /\ UNCHANGED <<loop, queue, version, history, sticky, hbRunning, failures, worker,
                     owed, forgotten>>
  BY DEF InitTurnedAway, InitAsk, InitApply, Ignore
<1>2. arrived \in 0..MaxMessages /\ arrived' \in 0..MaxMessages /\ MaxMessages \in Nat
  BY <1>1, NumberFacts DEF IInv, TypeOK
<1>3. TypeOK /\ IsFiniteSet(Running) BY DEF IInv
<1>4. /\ initRequired' \in BOOLEAN /\ sessions' \subseteq Allowed \cap Private
      /\ {identity', soul'} \subseteq 0..MaxMessages
  <2>1. CASE InitTurnedAway(c) BY <1>3, <2>1 DEF InitTurnedAway, TypeOK
  <2>2. CASE InitAsk(c) BY <1>3, <2>2 DEF InitAsk, TypeOK
  <2>3. CASE InitApply(c) BY <1>2, <1>3, <2>3 DEF InitApply, TypeOK
  <2>4. CASE Ignore(c) BY <1>3, <2>4 DEF Ignore, TypeOK, GatePassed, SessionsLeft
  <2> QED BY <2>1, <2>2, <2>3, <2>4
<1>5. TypeOK' BY <1>1, <1>2, <1>3, <1>4 DEF TypeOK, Running
<1>6. \A d \in Chats : ChatInv(d)' /\ Own(d)' = Own(d)
  BY <1>1, SameChat DEF IInv, Sent
<1>7. Owned'
  <2>1. 1..arrived \subseteq 1..arrived' BY <1>1, <1>2
  <2> QED BY <1>1, <1>6, <2>1 DEF IInv, Owned
<1>8. IsFiniteSet(Running)' BY <1>1, <1>3 DEF Running
<1> QED BY <1>5, <1>6, <1>7, <1>8 DEF IInv

LEMMA AcceptKept ==
    ASSUME IInv, NEW c \in Chats, Accept(c)
    PROVE  IInv'
<1> USE DEF chat, profile, Handles
<1>1. /\ loop = NoJob /\ arrived < MaxMessages /\ arrived' = arrived + 1
      /\ loop' = [chat |-> c, msg |-> arrived', version |-> version[c]]
      /\ owed' = owed \cup {arrived'}
      /\ initRequired' = FALSE /\ sessions' \subseteq sessions /\ UNCHANGED <<identity, soul>>
      /\ UNCHANGED <<queue, version, history, sticky, hbRunning, failures, worker, forgotten>>
  BY DEF Accept, Job, GatePassed, SessionsLeft
<1>2. arrived \in 0..MaxMessages /\ arrived' \in 1..MaxMessages /\ MaxMessages \in Nat
  BY <1>1, NumberFacts DEF IInv, TypeOK
<1>3. TypeOK /\ IsFiniteSet(Running) BY DEF IInv
<1>4. loop' \in Jobs /\ loop'.chat = c /\ loop'.msg = arrived'
  <2>1. version[c] \in 0..MaxResets BY <1>3, ChatTypes
  <2> QED BY <1>1, <1>2, <2>1 DEF Jobs
<1>5. TypeOK'
  <2>1. Running' = Running BY <1>1 DEF Running
  <2>2. owed' \subseteq 1..MaxMessages BY <1>1, <1>2, <1>3 DEF TypeOK
  <2>3. arrived' \in 0..MaxMessages BY <1>2
  <2>4. sessions' \subseteq Allowed \cap Private /\ initRequired' \in BOOLEAN
    BY <1>1, <1>3 DEF TypeOK
  <2> QED BY <1>1, <1>3, <1>4, <2>1, <2>2, <2>3, <2>4 DEF TypeOK
<1>6. \A d \in Chats : Sent(d) = Heartbeat BY <1>1, NumberFacts DEF Sent
<1>7. \A d \in Chats \ {c} : Sent(d)' = Sent(d) BY <1>4, <1>6 DEF Sent
<1>8. \A d \in Chats \ {c} : ChatInv(d)' /\ Own(d)' = Own(d)
  BY <1>1, <1>7, SameChat DEF IInv
<1>9. ChatInv(c)' /\ Own(c)' = Own(c) \cup {arrived + 1}
  <2> DEFINE q == queue[c]
             j == worker[c].job.msg
             h == history[c]
  <2>1. q \in Seq(Jobs) /\ j \in 0..MaxMessages /\ h \in Seq(Entries) BY <1>3, ChatTypes
  <2>2. ChatInv(c) /\ Own(c) \subseteq 1..arrived BY DEF IInv, Owned
  <2>3. LineOf(q, j, Heartbeat, h) BY <1>6, <2>2 DEF ChatInv
  <2>4. HeldIn(q, j, Heartbeat) \subseteq 1..arrived /\ Messages(h) \subseteq 1..arrived
    BY <1>6, <2>2 DEF Own
  <2>5. /\ HeldIn(q, j, arrived + 1) = HeldIn(q, j, Heartbeat) \cup {arrived + 1}
        /\ LineOf(q, j, arrived + 1, h)
    BY <1>1, <1>2, <2>1, <2>3, <2>4, LineAccepts
  <2>6. Sent(c)' = arrived + 1 BY <1>1, <1>4 DEF Sent
  <2>7. ChatInv(c)' BY <1>1, <2>2, <2>5, <2>6 DEF ChatInv
  <2>8. Own(c)' = HeldIn(q, j, arrived + 1) \cup Messages(h) \cup Given(c)
    BY <1>1, <2>6 DEF Own, Given
  <2>9. Own(c) = HeldIn(q, j, Heartbeat) \cup Messages(h) \cup Given(c) BY <1>6 DEF Own
  <2> HIDE DEF q, j, h
  <2> QED BY <2>5, <2>7, <2>8, <2>9
<1>10. Owned'
  <2>1. 1..arrived \subseteq 1..arrived' /\ arrived + 1 \in 1..arrived' /\ arrived + 1 \notin 1..arrived
    BY <1>1, <1>2
  <2>2. arrived + 1 \notin forgotten
    <3>1. forgotten \subseteq 1..arrived BY DEF IInv, Owned
    <3> QED BY <2>1, <3>1
  <2> QED BY <1>1, <1>8, <1>9, <2>1, <2>2 DEF IInv, Owned
<1>11. IsFiniteSet(Running)' BY <1>1, <1>3 DEF Running
<1> QED BY <1>5, <1>8, <1>9, <1>10, <1>11 DEF IInv

LEMMA SendKept ==
    ASSUME IInv, SendJob
    PROVE  IInv'
<1> USE DEF chat, profile
<1>1. /\ loop # NoJob /\ Len(queue[loop.chat]) < QueueCap
      /\ queue' = [queue EXCEPT ![loop.chat] = Append(@, loop)] /\ loop' = NoJob
      /\ UNCHANGED <<arrived, version, history, sticky, hbRunning, failures, worker, profile,
                     owed, forgotten>>
  BY DEF SendJob
<1>2. TypeOK /\ IsFiniteSet(Running) BY DEF IInv
<1>0. loop \in Jobs BY <1>1, <1>2 DEF TypeOK
<1>3. PICK c \in Chats : c = loop.chat BY <1>0 DEF Jobs
<1> DEFINE q == queue[c]
           j == worker[c].job.msg
           h == history[c]
<1>4. /\ q \in Seq(Jobs) /\ j \in 0..MaxMessages /\ h \in Seq(Entries)
      /\ loop.msg \in 0..MaxMessages
  BY <1>0, <1>2, <1>3, ChatTypes DEF Jobs
<1>5. Append(q, loop) \in Seq(Jobs) /\ Len(Append(q, loop)) = Len(q) + 1 /\ Len(q) \in Nat
  BY <1>0, <1>4, AppendProperties, LenProperties
<1>6. queue'[c] = Append(q, loop) /\ \A d \in Chats \ {c} : queue'[d] = queue[d]
  BY <1>1, <1>2, <1>3 DEF TypeOK
<1>7. /\ queue' \in [Chats -> Seq(Jobs)]
      /\ \A d \in Chats : Len(queue'[d]) <= QueueCap
  <2>1. queue' \in [Chats -> Seq(Jobs)] BY <1>1, <1>2, <1>3, <1>5 DEF TypeOK
  <2>2. Len(queue'[c]) <= QueueCap BY <1>1, <1>3, <1>5, <1>6, NumberFacts
  <2> QED BY <1>2, <1>6, <2>1, <2>2 DEF TypeOK
<1>8. Running' = Running BY <1>1 DEF Running
<1>9. TypeOK' BY <1>1, <1>2, <1>7, <1>8 DEF TypeOK
<1>10. /\ Sent(c) = loop.msg /\ \A d \in Chats : Sent(d)' = Heartbeat
       /\ \A d \in Chats \ {c} : Sent(d) = Heartbeat
  BY <1>1, <1>3, NumberFacts DEF Sent
<1>11. LineOf(q, j, loop.msg, h) BY <1>3, <1>10 DEF IInv, ChatInv
<1>12. Heartbeat \in 0..MaxMessages BY NumberFacts
<1>13. /\ HeldIn(Append(q, loop), j, Heartbeat) = HeldIn(q, j, loop.msg)
       /\ LineOf(Append(q, loop), j, Heartbeat, h)
  BY <1>0, <1>4, <1>11, <1>12, LineSends
<1>14. ChatInv(c)' BY <1>1, <1>3, <1>6, <1>10, <1>13 DEF IInv, ChatInv
<1>15. Own(c)' = Own(c) BY <1>1, <1>6, <1>10, <1>13 DEF Own, Given
<1> HIDE DEF q, j, h
<1>16. \A d \in Chats \ {c} :
         /\ queue'[d] = queue[d] /\ worker'[d] = worker[d] /\ version'[d] = version[d]
         /\ history'[d] = history[d] /\ sticky'[d] = sticky[d] /\ Sent(d)' = Sent(d)
  BY <1>1, <1>6, <1>10
<1> QED BY <1>1, <1>2, <1>3, <1>8, <1>9, <1>14, <1>15, <1>16, StepAt

LEMMA ResetKept ==
    ASSUME IInv, NEW c \in Chats, Reset(c)
    PROVE  IInv'
<1> USE DEF chat, profile, Handles
<1>1. /\ loop = NoJob /\ arrived < MaxMessages /\ arrived' = arrived + 1
      /\ version[c] < MaxResets
      /\ forgotten' = forgotten \cup Messages(history[c])
      /\ history' = [history EXCEPT ![c] = <<>>]
      /\ sticky' = [sticky EXCEPT ![c] = {}]
      /\ version' = [version EXCEPT ![c] = version[c] + 1]
      /\ initRequired' = FALSE /\ sessions' \subseteq sessions /\ UNCHANGED <<identity, soul>>
      /\ UNCHANGED <<loop, queue, worker, hbRunning, failures, owed>>
  BY DEF Reset, GatePassed, SessionsLeft
<1>2. arrived \in 0..MaxMessages /\ arrived' \in 0..MaxMessages /\ MaxMessages \in Nat
  BY <1>1, NumberFacts DEF IInv, TypeOK
<1>3. TypeOK /\ IsFiniteSet(Running) /\ ChatInv(c) BY DEF IInv
<1>4. /\ queue[c] \in Seq(Jobs) /\ history[c] \in Seq(Entries) /\ version[c] \in 0..MaxResets
      /\ worker[c].seen \in 0..MaxResets /\ MaxResets \in Nat
  BY <1>3, ChatTypes, NumberFacts
<1>5. /\ history'[c] = <<>> /\ sticky'[c] = {} /\ version'[c] = version[c] + 1
      /\ \A d \in Chats \ {c} : /\ history'[d] = history[d] /\ sticky'[d] = sticky[d]
                                /\ version'[d] = version[d]
  BY <1>1, <1>3 DEF TypeOK
<1>6. TypeOK'
  <2>1. /\ history' \in [Chats -> Seq(Entries)]
        /\ \A d \in Chats : Len(history'[d]) <= HistoryMax
    <3>1. <<>> \in Seq(Entries) /\ Len(<<>>) = 0 OBVIOUS
    <3>2. history' \in [Chats -> Seq(Entries)] BY <1>1, <1>3, <3>1 DEF TypeOK
    <3>3. Len(history'[c]) <= HistoryMax BY <1>5, <3>1, NumberFacts
    <3> QED BY <1>3, <1>5, <3>2, <3>3 DEF TypeOK
  <2>2. version' \in [Chats -> 0..MaxResets]
    <3>1. version[c] + 1 \in 0..MaxResets BY <1>1, <1>4
    <3> QED BY <1>1, <1>3, <3>1 DEF TypeOK
  <2>3. sticky' \in [Chats -> SUBSET (0..MaxResets)] BY <1>1, <1>3 DEF TypeOK
  <2>4. forgotten' \subseteq 1..MaxMessages BY <1>1, <1>3, <1>4, MessagesFacts DEF TypeOK
  <2>5. Running' = Running BY <1>1 DEF Running
  <2>6. sessions' \subseteq Allowed \cap Private /\ initRequired' \in BOOLEAN
    BY <1>1, <1>3 DEF TypeOK
  <2> QED BY <1>1, <1>2, <1>3, <2>1, <2>2, <2>3, <2>4, <2>5, <2>6 DEF TypeOK
<1>7. \A d \in Chats : Sent(d)' = Sent(d) BY <1>1 DEF Sent
<1>8. \A d \in Chats \ {c} : ChatInv(d)' /\ Own(d)' = Own(d)
  BY <1>1, <1>5, <1>7, SameChat DEF IInv
<1> DEFINE held == HeldIn(queue[c], worker[c].job.msg, Sent(c))
<1>9. ChatInv(c)'
  <2>1. Good(<<>>) /\ Messages(<<>>) = {} BY EmptyGood
  <2>2. LineOf(queue[c], worker[c].job.msg, Sent(c), <<>>) BY <1>3, <2>1 DEF ChatInv, LineOf
  <2>3. worker[c].seen <= version'[c] BY <1>3, <1>4, <1>5 DEF ChatInv
  <2> QED BY <1>1, <1>3, <1>5, <1>7, <2>1, <2>2, <2>3 DEF ChatInv
<1>10. Own(c)' = held
  <2>1. worker[c].seen # version'[c] BY <1>3, <1>4, <1>5 DEF ChatInv
  <2>2. Given(c)' = {} BY <1>1, <2>1 DEF Given
  <2> QED BY <1>1, <1>5, <1>7, <2>2, EmptyGood DEF Own
<1>11. held \subseteq Own(c) /\ Messages(history[c]) \subseteq Own(c) BY DEF Own
<1>12. held \cap Messages(history[c]) = {}
  <2>1. ASSUME NEW m \in held, m \in Messages(history[c]) PROVE FALSE
    <3>1. m < m BY <1>3, <2>1 DEF ChatInv, LineOf
    <3>2. m \in 1..MaxMessages BY DEF HeldIn
    <3> QED BY <3>1, <3>2
  <2> QED BY <2>1
<1> HIDE DEF held
<1>13. Owned'
  <2>1. Owned BY DEF IInv
  <2>2. 1..arrived \subseteq 1..arrived' BY <1>1, <1>2
  <2>3. \A d \in Chats : Own(d)' \subseteq Own(d) BY <1>8, <1>10, <1>11
  <2>4. \A d \in Chats : Own(d)' \cap Messages(history[c]) = {}
    BY <1>8, <1>10, <1>11, <1>12, <2>1 DEF Owned
  <2>5. Messages(history[c]) \subseteq 1..arrived BY <1>11, <2>1 DEF Owned
  <2> QED BY <1>1, <2>1, <2>2, <2>3, <2>4, <2>5 DEF Owned
<1>14. IsFiniteSet(Running)' BY <1>1, <1>3 DEF Running
<1> QED BY <1>6, <1>8, <1>9, <1>13, <1>14 DEF IInv

LEMMA TickKept ==
    ASSUME IInv, NEW c \in Chats, HeartbeatTick(c)
    PROVE  IInv'
<1> USE DEF profile
<1> DEFINE e == Job(c, Heartbeat)
           q == queue[c]
           j == worker[c].job.msg
           h == history[c]
           s == Sent(c)
<1>1. /\ q = <<>> /\ queue' = [queue EXCEPT ![c] = Append(q, e)]
      /\ hbRunning' = [hbRunning EXCEPT ![c] = TRUE]
      /\ UNCHANGED <<arrived, loop, version, worker, history, sticky, failures, profile, owed,
                     forgotten>>
  BY DEF HeartbeatTick
<1>2. TypeOK /\ IsFiniteSet(Running) /\ ChatInv(c) BY DEF IInv
<1>3. /\ q \in Seq(Jobs) /\ j \in 0..MaxMessages /\ h \in Seq(Entries) /\ s \in 0..MaxMessages
      /\ version[c] \in 0..MaxResets
  BY <1>2, ChatTypes
<1>4. e \in Jobs /\ e.msg = Heartbeat BY <1>3, NumberFacts DEF Job, Jobs
<1> HIDE DEF e
<1>5. Append(q, e) \in Seq(Jobs) /\ Len(Append(q, e)) = 1
  <2>1. Len(q) = 0 BY <1>1
  <2> QED BY <1>3, <1>4, <2>1, AppendProperties
<1>6. queue'[c] = Append(q, e) /\ \A d \in Chats \ {c} : queue'[d] = queue[d]
  BY <1>1, <1>2 DEF TypeOK
<1>7. Running' = Running BY <1>1 DEF Running
<1>8. TypeOK'
  <2>1. queue' \in [Chats -> Seq(Jobs)] BY <1>1, <1>2, <1>5 DEF TypeOK
  <2>2. Len(queue'[c]) <= QueueCap BY <1>5, <1>6, NumberFacts
  <2>3. \A d \in Chats : Len(queue'[d]) <= QueueCap BY <1>2, <1>6, <2>2 DEF TypeOK
  <2>4. hbRunning' \in [Chats -> BOOLEAN] BY <1>1, <1>2 DEF TypeOK
  <2> QED BY <1>1, <1>2, <1>7, <2>1, <2>3, <2>4 DEF TypeOK
<1>9. \A d \in Chats : Sent(d)' = Sent(d) BY <1>1 DEF Sent
<1>10. LineOf(q, j, s, h) BY <1>2 DEF ChatInv
<1>11. HeldIn(Append(q, e), j, s) = HeldIn(q, j, s) /\ LineOf(Append(q, e), j, s, h)
  BY <1>3, <1>4, <1>10, LineSends
<1>12. ChatInv(c)' BY <1>1, <1>2, <1>6, <1>9, <1>11 DEF ChatInv
<1>13. Own(c)' = Own(c) BY <1>1, <1>6, <1>9, <1>11 DEF Own, Given
<1> HIDE DEF q, j, h, s
<1>14. \A d \in Chats \ {c} :
         /\ queue'[d] = queue[d] /\ worker'[d] = worker[d] /\ version'[d] = version[d]
         /\ history'[d] = history[d] /\ sticky'[d] = sticky[d] /\ Sent(d)' = Sent(d)
  BY <1>1, <1>6, <1>9
<1> QED BY <1>1, <1>2, <1>7, <1>8, <1>12, <1>13, <1>14, StepAt
-----------------------------------------------------------------------------
(* The worker of a chat.                                                   *)
LEMMA PlaceTaken ==
    ASSUME IInv, NEW c \in Chats, Running' \subseteq Running \cup {c},
           Cardinality(Running) < MaxConcurrency
    PROVE  IsFiniteSet(Running)' /\ Cardinality(Running)' <= MaxConcurrency
<1> DEFINE R == Running \cup {c}
<1>1. IsFiniteSet(Running) BY DEF IInv
<1>2. Cardinality(Running) \in Nat BY <1>1, FS_CardinalityType
<1>3. /\ IsFiniteSet(R)
      /\ Cardinality(R) = IF c \in Running THEN Cardinality(Running) ELSE Cardinality(Running) + 1
  BY <1>1, FS_AddElement
<1>4. IsFiniteSet(Running') /\ Cardinality(Running') <= Cardinality(R) BY <1>3, FS_Subset
<1>5. Cardinality(R) <= MaxConcurrency BY <1>2, <1>3, NumberFacts
<1>6. Cardinality(R) \in Nat /\ Cardinality(Running') \in Nat
  BY <1>3, <1>4, FS_CardinalityType
<1> QED BY <1>4, <1>5, <1>6, NumberFacts

LEMMA WorkerMoves ==
    ASSUME IInv, NEW c \in Chats, NEW w \in Runs, worker' = [worker EXCEPT ![c] = w],
           \/ w.pc \notin {"run", "alert", "store"}
           \/ worker[c].pc \in {"run", "alert", "store"}
           \/ Cardinality(Running) < MaxConcurrency,
           queue' \in [Chats -> Seq(Jobs)], Len(queue'[c]) <= QueueCap,
           history' \in [Chats -> Seq(Entries)], Len(history'[c]) <= HistoryMax,
           sticky' \in [Chats -> SUBSET (0..MaxResets)],
           hbRunning' \in [Chats -> BOOLEAN],
           failures' \in [Chats -> 0..(FailureThreshold - 1)],
           owed' \subseteq owed,
           \A d \in Chats \ {c} :
              queue'[d] = queue[d] /\ history'[d] = history[d] /\ sticky'[d] = sticky[d],
           UNCHANGED <<arrived, loop, version, profile, forgotten>>,
           ChatInv(c)', Own(c)' \subseteq Own(c)
    PROVE  IInv'
<1> USE DEF profile
<1>1. TypeOK BY DEF IInv
<1>2. IsFiniteSet(Running)' /\ Cardinality(Running)' <= MaxConcurrency
  BY <1>1, RunningAt, RunningShrinks, PlaceTaken
<1>3. worker' \in [Chats -> Runs] /\ \A d \in Chats \ {c} : worker'[d] = worker[d]
  BY <1>1 DEF TypeOK
<1>4. /\ \A d \in Chats : Len(queue'[d]) <= QueueCap
      /\ \A d \in Chats : Len(history'[d]) <= HistoryMax
  BY <1>1 DEF TypeOK
<1>5. TypeOK' BY <1>1, <1>2, <1>3, <1>4 DEF TypeOK
<1>6. \A d \in Chats : Sent(d)' = Sent(d) BY DEF Sent
<1> QED BY <1>2, <1>3, <1>5, <1>6, StepAt

LEMMA TakeKept ==
    ASSUME IInv, NEW c \in Chats, TakeJob(c)
    PROVE  IInv'
<1> USE DEF chat, profile
<1> DEFINE q == queue[c]
           h == history[c]
           s == Sent(c)
           w == [NoRun EXCEPT !.pc = "sem", !.job = Head(q)]
<1>1. /\ worker[c].pc = "idle" /\ q # <<>>
      /\ worker' = [worker EXCEPT ![c] = w] /\ queue' = [queue EXCEPT ![c] = Tail(q)]
      /\ UNCHANGED <<arrived, loop, version, history, sticky, hbRunning, failures, profile,
                     owed, forgotten>>
  BY DEF TakeJob
<1>2. TypeOK /\ ChatInv(c) BY DEF IInv
<1>3. q \in Seq(Jobs) /\ h \in Seq(Entries) /\ s \in 0..MaxMessages /\ version[c] \in Nat
  BY <1>2, ChatTypes
<1>4. Head(q) \in Jobs /\ Tail(q) \in Seq(Jobs) /\ Len(Tail(q)) = Len(q) - 1 /\ Len(q) \in Nat
  BY <1>1, <1>3, HeadTailProperties, LenProperties
<1>5. w \in Runs /\ w.pc = "sem" /\ w.job = Head(q) /\ w.seen = 0
  BY <1>4, NumberFacts DEF Runs, NoRun
<1> HIDE DEF w
<1>6. /\ worker'[c] = w /\ queue'[c] = Tail(q) /\ queue' \in [Chats -> Seq(Jobs)]
      /\ \A d \in Chats \ {c} : queue'[d] = queue[d]
  BY <1>1, <1>2, <1>4 DEF TypeOK
<1>7. Len(queue'[c]) <= QueueCap
  <2>1. Len(q) <= QueueCap BY <1>2 DEF TypeOK
  <2> QED BY <1>4, <1>6, <2>1, NumberFacts
<1>8. LineOf(q, Heartbeat, s, h) /\ worker[c].job.msg = Heartbeat
  BY <1>1, <1>2, NumberFacts DEF ChatInv
<1>9. /\ HeldIn(Tail(q), Head(q).msg, s) = HeldIn(q, Heartbeat, s)
      /\ LineOf(Tail(q), Head(q).msg, s, h)
  BY <1>1, <1>3, <1>8, LineTakes
<1>10. Sent(c)' = Sent(c) BY <1>1 DEF Sent
<1>11. ChatInv(c)' BY <1>1, <1>2, <1>3, <1>5, <1>6, <1>9, <1>10 DEF ChatInv
<1>12. Own(c)' = Own(c) BY <1>1, <1>5, <1>6, <1>8, <1>9, <1>10 DEF Own, Given
<1>13. /\ history' \in [Chats -> Seq(Entries)] /\ Len(history'[c]) <= HistoryMax
       /\ sticky' \in [Chats -> SUBSET (0..MaxResets)] /\ hbRunning' \in [Chats -> BOOLEAN]
       /\ failures' \in [Chats -> 0..(FailureThreshold - 1)]
  BY <1>1, <1>2 DEF TypeOK
<1> HIDE DEF q, h, s
<1>14. w.pc \notin {"run", "alert", "store"} BY <1>5
<1> QED BY <1>1, <1>5, <1>6, <1>7, <1>11, <1>12, <1>13, <1>14, WorkerMoves

LEMMA StartKept ==
    ASSUME IInv, NEW c \in Chats, StartJob(c)
    PROVE  IInv'
<1> USE DEF chat, profile
<1> DEFINE w == [pc |-> "run", job |-> worker[c].job, seen |-> version[c],
                 context |-> IF worker[c].job.version = version[c] THEN history[c] ELSE <<>>]
<1>1. /\ worker[c].pc = "sem" /\ Cardinality(Running) < MaxConcurrency
      /\ worker' = [worker EXCEPT ![c] = w]
      /\ UNCHANGED <<arrived, loop, queue, version, history, sticky, hbRunning, failures, profile,
                     owed, forgotten>>
  BY DEF StartJob
<1>2. TypeOK /\ ChatInv(c) BY DEF IInv
<1>3. /\ worker[c].job \in Jobs \cup {NoJob} /\ version[c] \in 0..MaxResets
      /\ history[c] \in Seq(Entries)
  BY <1>2, ChatTypes
<1>4. /\ w \in Runs /\ w.pc = "run" /\ w.job = worker[c].job /\ w.seen = version[c]
      /\ w.context \in {history[c], <<>>}
  BY <1>3 DEF Runs
<1> HIDE DEF w
<1>5. worker'[c] = w BY <1>1, <1>2 DEF TypeOK
<1>6. Sent(c)' = Sent(c) BY <1>1 DEF Sent
<1>7. ChatInv(c)'
  <2>1. worker'[c].seen <= version'[c] BY <1>1, <1>3, <1>4, <1>5
  <2> QED BY <1>1, <1>2, <1>4, <1>5, <1>6, <2>1 DEF ChatInv
<1>8. Own(c)' \subseteq Own(c)
  <2>1. Given(c)' \subseteq Messages(history[c])
    <3>1. Messages(w.context) \subseteq Messages(history[c]) BY <1>4, EmptyGood
    <3> QED BY <1>5, <3>1 DEF Given
  <2> QED BY <1>1, <1>4, <1>5, <1>6, <2>1 DEF Own
<1>9. /\ history' \in [Chats -> Seq(Entries)] /\ Len(history'[c]) <= HistoryMax
      /\ queue' \in [Chats -> Seq(Jobs)] /\ Len(queue'[c]) <= QueueCap
      /\ sticky' \in [Chats -> SUBSET (0..MaxResets)] /\ hbRunning' \in [Chats -> BOOLEAN]
      /\ failures' \in [Chats -> 0..(FailureThreshold - 1)]
  BY <1>1, <1>2 DEF TypeOK
<1> QED BY <1>1, <1>4, <1>7, <1>8, <1>9, WorkerMoves

(* The run of a chat that goes on with the same job, or with none.         *)
LEMMA RunMoves ==
    ASSUME IInv, NEW c \in Chats, NEW w \in Runs, worker' = [worker EXCEPT ![c] = w],
           worker[c].pc \in {"run", "alert", "store"}, w.pc # "run",
           \/ w = NoRun
           \/ /\ w.job = worker[c].job /\ w.seen = worker[c].seen
              /\ w.pc = "store" \/ (w.pc = "alert" /\ w.job.msg = Heartbeat),
           NEW g, Good(g), Len(g) <= HistoryMax, history' = [history EXCEPT ![c] = g],
           Messages(g) \subseteq Messages(history[c]) \cup {worker[c].job.msg},
           w = NoRun \/ g = history[c],
           NEW k \in SUBSET (0..MaxResets), sticky' = [sticky EXCEPT ![c] = k],
           k \subseteq {version[c]},
           hbRunning' \in [Chats -> BOOLEAN],
           failures' \in [Chats -> 0..(FailureThreshold - 1)], owed' \subseteq owed,
           UNCHANGED <<arrived, loop, queue, version, profile, forgotten>>
    PROVE  IInv'
<1> DEFINE q == queue[c]
           j == worker[c].job.msg
           s == Sent(c)
           h == history[c]
<1>1. TypeOK /\ ChatInv(c) BY DEF IInv
<1>2. /\ q \in Seq(Jobs) /\ j \in 0..MaxMessages /\ s \in 0..MaxMessages
      /\ h \in Seq(Entries) /\ g \in Seq(Entries) /\ version[c] \in Nat
  BY <1>1, ChatTypes DEF Good
<1>3. /\ worker'[c] = w /\ history'[c] = g /\ sticky'[c] = k /\ queue'[c] = q
      /\ \A d \in Chats \ {c} :
            queue'[d] = queue[d] /\ history'[d] = history[d] /\ sticky'[d] = sticky[d]
  BY <1>1 DEF TypeOK
<1>4. LineOf(q, j, s, h) BY <1>1 DEF ChatInv
<1>5. Sent(c)' = s BY DEF Sent
<1>6. /\ LineOf(q, w.job.msg, s, g)
      /\ HeldIn(q, w.job.msg, s) \subseteq HeldIn(q, j, s)
  <2>1. CASE w = NoRun
    <3>1. /\ HeldIn(q, Heartbeat, s) \subseteq HeldIn(q, j, s) /\ LineOf(q, Heartbeat, s, g)
      BY <1>2, <1>4, LineEnds
    <3> QED BY <2>1, <3>1, NumberFacts
  <2>2. CASE w # NoRun
    <3>1. w.job.msg = j /\ g = h BY <2>2
    <3> QED BY <1>4, <3>1
  <2> QED BY <2>1, <2>2
<1>7. Messages(g) \subseteq Own(c)
  <2>1. ASSUME NEW m \in Messages(g) PROVE m \in Messages(h) \cup HeldIn(q, j, s)
    <3>1. m \in 1..MaxMessages BY <1>2, MessagesFacts
    <3> QED BY <3>1 DEF HeldIn
  <2> QED BY <2>1 DEF Own
<1>8. ChatInv(c)'
  <2>1. w.seen <= version[c] BY <1>1, <1>2, NumberFacts DEF ChatInv
  <2>2. w.pc = "idle" => w.job = NoJob BY NumberFacts
  <2>3. w.pc = "alert" => w.job.msg = Heartbeat BY NumberFacts
  <2>4. UNCHANGED version OBVIOUS
  <2> HIDE DEF q, j, s, h
  <2> QED BY <1>3, <1>5, <1>6, <2>1, <2>2, <2>3, <2>4 DEF ChatInv
<1>9. Own(c)' \subseteq Own(c)
  <2>1. Given(c)' = {} BY <1>3 DEF Given
  <2>2. HeldIn(q, j, s) \subseteq Own(c) BY DEF Own
  <2>3. Own(c)' = HeldIn(q, w.job.msg, s) \cup Messages(g) BY <1>3, <1>5, <2>1 DEF Own
  <2> HIDE DEF q, j, s, h
  <2> QED BY <1>6, <1>7, <2>2, <2>3
<1>10. /\ queue' \in [Chats -> Seq(Jobs)] /\ Len(queue'[c]) <= QueueCap
       /\ history' \in [Chats -> Seq(Entries)] /\ Len(history'[c]) <= HistoryMax
       /\ sticky' \in [Chats -> SUBSET (0..MaxResets)]
  BY <1>1, <1>2, <1>3 DEF TypeOK
<1> HIDE DEF q, j, s, h
<1> QED BY <1>3, <1>8, <1>9, <1>10, WorkerMoves

(* What a step that leaves the history and the skills of chat c has to     *)
(* show of them.                                                           *)
LEMMA LeftAsTheyAre ==
    ASSUME IInv, NEW c \in Chats
    PROVE  /\ Good(history[c]) /\ Len(history[c]) <= HistoryMax
           /\ history = [history EXCEPT ![c] = history[c]]
           /\ sticky = [sticky EXCEPT ![c] = sticky[c]]
           /\ sticky[c] \in SUBSET (0..MaxResets) /\ sticky[c] \subseteq {version[c]}
           /\ hbRunning \in [Chats -> BOOLEAN] /\ failures \in [Chats -> 0..(FailureThreshold - 1)]
           /\ worker[c] \in Runs /\ worker[c].job.msg \in 0..MaxMessages
<1>1. TypeOK /\ ChatInv(c) BY DEF IInv
<1>2. worker[c] \in Runs /\ worker[c].job.msg \in 0..MaxMessages BY <1>1, ChatTypes
<1>3. /\ history = [history EXCEPT ![c] = history[c]]
      /\ sticky = [sticky EXCEPT ![c] = sticky[c]]
  BY <1>1 DEF TypeOK
<1> QED BY <1>1, <1>2, <1>3 DEF TypeOK, ChatInv

LEMMA FailsKept ==
    ASSUME IInv, NEW c \in Chats, RunFails(c)
    PROVE  IInv'
<1> USE DEF profile
<1>1. /\ worker[c].pc = "run"
      /\ UNCHANGED <<arrived, loop, queue, version, history, sticky, profile, forgotten>>
  BY DEF RunFails
<1>2. CASE worker[c].job.msg # Heartbeat
  <2>1. /\ worker' = [worker EXCEPT ![c] = NoRun] /\ owed' \subseteq owed
        /\ UNCHANGED <<hbRunning, failures>>
    BY <1>2 DEF RunFails, MessageFails, Ends
  <2>2. NoRun.pc # "run" BY NumberFacts
  <2> QED BY <1>1, <2>1, <2>2, LeftAsTheyAre, NumberFacts, RunMoves
<1>3. CASE worker[c].job.msg = Heartbeat
  <2>1. HeartbeatFails(c) BY <1>3 DEF RunFails
  <2>2. hbRunning' \in [Chats -> BOOLEAN] /\ owed' = owed
    BY <2>1, LeftAsTheyAre DEF HeartbeatFails
  <2>3. CASE failures[c] + 1 < FailureThreshold
    <3>1. worker' = [worker EXCEPT ![c] = NoRun] /\ failures' = [failures EXCEPT ![c] = @ + 1]
      BY <2>1, <2>3 DEF HeartbeatFails, Ends
    <3>2. failures[c] + 1 \in 0..(FailureThreshold - 1)
      BY <2>3, LeftAsTheyAre, NumberFacts
    <3>3. failures' \in [Chats -> 0..(FailureThreshold - 1)] BY <3>1, <3>2, LeftAsTheyAre
    <3>4. NoRun.pc # "run" BY NumberFacts
    <3> QED BY <1>1, <2>2, <3>1, <3>3, <3>4, LeftAsTheyAre, NumberFacts, RunMoves
  <2>4. CASE ~(failures[c] + 1 < FailureThreshold)
    <3> DEFINE w == [worker[c] EXCEPT !.pc = "alert"]
    <3>1. worker' = [worker EXCEPT ![c] = w] /\ failures' = [failures EXCEPT ![c] = 0]
      BY <2>1, <2>4 DEF HeartbeatFails
    <3>2. 0 \in 0..(FailureThreshold - 1) BY NumberFacts
    <3>3. failures' \in [Chats -> 0..(FailureThreshold - 1)] BY <3>1, <3>2, LeftAsTheyAre
    <3>4. w \in Runs /\ w.pc = "alert" /\ w.job = worker[c].job /\ w.seen = worker[c].seen
      BY LeftAsTheyAre DEF Runs
    <3> HIDE DEF w
    <3> QED BY <1>1, <1>3, <2>2, <3>1, <3>3, <3>4, LeftAsTheyAre, RunMoves
  <2> QED BY <2>3, <2>4
<1> QED BY <1>2, <1>3

LEMMA SucceedsKept ==
    ASSUME IInv, NEW c \in Chats, RunSucceeds(c)
    PROVE  IInv'
<1> USE DEF profile
<1> DEFINE w == [worker[c] EXCEPT !.pc = "store"]
<1>1. /\ worker[c].pc = "run" /\ worker' = [worker EXCEPT ![c] = w]
      /\ UNCHANGED <<arrived, loop, queue, version, history, sticky, profile, forgotten>>
  BY DEF RunSucceeds
<1>2. 0 \in 0..(FailureThreshold - 1) BY NumberFacts
<1>3. /\ hbRunning' \in [Chats -> BOOLEAN] /\ failures' \in [Chats -> 0..(FailureThreshold - 1)]
      /\ owed' \subseteq owed
  BY <1>2, LeftAsTheyAre DEF RunSucceeds
<1>4. w \in Runs /\ w.pc = "store" /\ w.job = worker[c].job /\ w.seen = worker[c].seen
  BY LeftAsTheyAre DEF Runs
<1> HIDE DEF w
<1> QED BY <1>1, <1>3, <1>4, LeftAsTheyAre, RunMoves

LEMMA AlertKept ==
    ASSUME IInv, NEW c \in Chats, StoreAlert(c)
    PROVE  IInv'
<1> USE DEF profile
<1> DEFINE e == [kind |-> "alert", msg |-> Heartbeat]
           g == Trim(Append(history[c], e))
<1>1. /\ worker[c].pc = "alert" /\ history' = [history EXCEPT ![c] = g]
      /\ worker' = [worker EXCEPT ![c] = NoRun]
      /\ UNCHANGED <<arrived, loop, queue, version, sticky, hbRunning, failures, profile, owed,
                     forgotten>>
  BY DEF StoreAlert, Ends
<1>2. e \in Entries /\ e.kind = "alert" /\ e.msg = Heartbeat BY NumberFacts DEF Entries
<1> HIDE DEF e
<1>3. Good(history[c]) BY LeftAsTheyAre
<1>4. Good(Append(history[c], e)) /\ Messages(Append(history[c], e)) = Messages(history[c])
  BY <1>2, <1>3, NoteGood
<1>5. Good(g) /\ Len(g) <= HistoryMax /\ Messages(g) \subseteq Messages(history[c])
  BY <1>4, TrimGood
<1> HIDE DEF g
<1>6. NoRun.pc # "run" BY NumberFacts
<1> QED BY <1>1, <1>5, <1>6, LeftAsTheyAre, NumberFacts, RunMoves

LEMMA StoreKept ==
    ASSUME IInv, NEW c \in Chats, Store(c)
    PROVE  IInv'
<1> USE DEF profile
<1> DEFINE h == history[c]
           m == worker[c].job.msg
           kept == IF worker[c].seen # version[c] THEN <<>> ELSE h
           g == Trim(kept \o Exchange(m))
<1>1. /\ worker[c].pc = "store" /\ history' = [history EXCEPT ![c] = g]
      /\ worker' = [worker EXCEPT ![c] = NoRun]
      /\ UNCHANGED <<arrived, loop, queue, version, hbRunning, failures, profile, owed, forgotten>>
  BY DEF Store, Ends
<1>2. TypeOK /\ ChatInv(c) BY DEF IInv
<1>3. Good(h) /\ m \in 0..MaxMessages BY LeftAsTheyAre
<1>4. Good(kept) /\ Messages(kept) \subseteq Messages(h) BY <1>3, EmptyGood
<1>5. ASSUME m # Heartbeat, NEW n \in Messages(kept) PROVE n < m
  <2>1. m \in HeldIn(queue[c], m, Sent(c)) BY <1>3, <1>5, NumberFacts DEF HeldIn
  <2> QED BY <1>2, <1>4, <1>5, <2>1 DEF ChatInv, LineOf
<1> HIDE DEF kept
<1>6. Good(kept \o Exchange(m)) /\ Messages(kept \o Exchange(m)) \subseteq Messages(kept) \cup {m}
  BY <1>3, <1>4, <1>5, ExchangeGood
<1>7. /\ Good(g) /\ Len(g) <= HistoryMax
      /\ Messages(g) \subseteq Messages(h) \cup {m}
  BY <1>4, <1>6, TrimGood
<1> HIDE DEF g
<1>8. PICK k \in SUBSET (0..MaxResets) :
         sticky' = [sticky EXCEPT ![c] = k] /\ k \subseteq {version[c]}
  <2>1. version[c] \in 0..MaxResets BY <1>2, ChatTypes
  <2>2. \/ sticky' = [sticky EXCEPT ![c] = {}]
        \/ sticky' = sticky
        \/ worker[c].seen = version[c] /\ sticky' = [sticky EXCEPT ![c] = {worker[c].seen}]
    BY DEF Store
  <2>3. CASE sticky' = sticky BY <2>3, LeftAsTheyAre
  <2>4. CASE sticky' = [sticky EXCEPT ![c] = {}]
    <3>1. {} \in SUBSET (0..MaxResets) /\ {} \subseteq {version[c]} OBVIOUS
    <3> QED BY <2>4, <3>1
  <2>5. CASE worker[c].seen = version[c] /\ sticky' = [sticky EXCEPT ![c] = {worker[c].seen}]
    BY <2>1, <2>5
  <2> QED BY <2>2, <2>3, <2>4, <2>5
<1>9. NoRun.pc # "run" BY NumberFacts
<1> HIDE DEF h, m
<1>10. Messages(g) \subseteq Messages(history[c]) \cup {worker[c].job.msg} BY <1>7 DEF h, m
<1>11. /\ hbRunning' \in [Chats -> BOOLEAN] /\ failures' \in [Chats -> 0..(FailureThreshold - 1)]
       /\ owed' \subseteq owed /\ worker[c].pc \in {"run", "alert", "store"}
       /\ NoRun \in Runs
  BY <1>1, LeftAsTheyAre, NumberFacts
<1> QED BY <1>1, <1>7, <1>8, <1>9, <1>10, <1>11, RunMoves

LEMMA Kept == IInv /\ [Next]_vars => IInv'
<1> SUFFICES ASSUME IInv, [Next]_vars PROVE IInv' OBVIOUS
<1>1. ASSUME NEW c \in Chats, WorkerStep(c) PROVE IInv'
  BY <1>1, TakeKept, StartKept, FailsKept, AlertKept, SucceedsKept, StoreKept DEF WorkerStep
<1>2. ASSUME NEW c \in Chats,
             \/ InitTurnedAway(c) \/ InitAsk(c) \/ InitApply(c) \/ Ignore(c)
             \/ Accept(c) \/ Reset(c) \/ HeartbeatTick(c)
      PROVE  IInv'
  BY <1>2, ProfileKept, AcceptKept, ResetKept, TickKept
<1>3. CASE SendJob BY <1>3, SendKept
<1>4. CASE UNCHANGED vars
  <2>1. /\ UNCHANGED <<arrived, loop, queue, worker, version, history, sticky, hbRunning, failures,
                       initRequired, sessions, identity, soul, owed, forgotten>>
    BY <1>4 DEF vars, chat, profile
  <2>0. Running' = Running BY <2>1 DEF Running
  <2>2. TypeOK' /\ IsFiniteSet(Running)' BY <2>0, <2>1 DEF IInv, TypeOK
  <2>3. \A c \in Chats : ChatInv(c)' /\ Own(c)' = Own(c) BY <2>1, SameChat DEF IInv, Sent
  <2>4. Owned' BY <2>1, <2>3 DEF IInv, Owned
  <2> QED BY <2>2, <2>3, <2>4 DEF IInv
<1>5. CASE Next
  <2>1. CASE \E c \in Chats : WorkerStep(c) BY <1>1, <2>1
  <2>2. CASE \E c \in Chats :
               \/ InitTurnedAway(c) \/ InitAsk(c) \/ InitApply(c) \/ Ignore(c)
               \/ Accept(c) \/ Reset(c) \/ HeartbeatTick(c)
    BY <1>2, <2>2
  <2> QED BY <1>3, <1>5, <2>1, <2>2 DEF Next
<1> QED BY <1>4, <1>5

LEMMA Invariance == Spec => []IInv
BY InitHolds, Kept, PTL DEF Spec
-----------------------------------------------------------------------------
(* Types and limits: channels, histories and places stay within them.      *)
THEOREM TypeCorrect == Spec => []TypeOK
<1>1. IInv => TypeOK BY DEF IInv
<1> QED BY <1>1, Invariance, PTL

(* For any number of messages: the history of a chat is a transcript, in   *)
(* the order the messages came, each with its answer and none twice.       *)
THEOREM HistoryInOrder == Spec => []HistoryIsATranscript
<1>1. IInv => HistoryIsATranscript
  BY DEF IInv, ChatInv, Good, Transcript, HistoryIsATranscript
<1> QED BY <1>1, Invariance, PTL

(* For any number of resets, at any moment: what a reset removed is never  *)
(* seen again, and sticky skills are of the present version.               *)
THEOREM ResetIsFinal == Spec => []WhatIsResetStaysForgotten
<1>1. IInv => WhatIsResetStaysForgotten
  <2>1. ASSUME IInv, NEW c \in Chats
        PROVE  /\ sticky[c] \subseteq {version[c]}
               /\ Messages(history[c]) \cap forgotten = {}
               /\ worker[c].pc = "run" /\ worker[c].seen = version[c]
                     => Messages(worker[c].context) \cap forgotten = {}
    <3>1. Own(c) \cap forgotten = {} /\ ChatInv(c) BY <2>1 DEF IInv, Owned
    <3> QED BY <3>1 DEF Own, Given, ChatInv
  <2> QED BY <2>1 DEF WhatIsResetStaysForgotten
<1> QED BY <1>1, Invariance, PTL

-----------------------------------------------------------------------------
(* Memory.  First what the operators on lists of tasks give.               *)

(* Tasks, lists of tasks, and their texts.                                 *)
LEMMA TaskFacts ==
  ASSUME NEW t \in Tasks
  PROVE  /\ DOMAIN t = {"text", "done"} /\ t.done \in BOOLEAN
         /\ \A b \in BOOLEAN : /\ [t EXCEPT !.done = b] \in Tasks
                               /\ [t EXCEPT !.done = b].text = t.text
                               /\ [t EXCEPT !.done = b].done = b
BY DEF Tasks

LEMMA ListFacts ==
  ASSUME NEW ts \in Seq(Tasks)
  PROVE  /\ IsList(ts) /\ Len(ts) \in Nat /\ DOMAIN ts = 1..Len(ts)
         /\ \A i \in 1..Len(ts) : ts[i] \in Tasks
         /\ ToSet(ts) = Range(ts) /\ ToSet(ts) \subseteq Tasks
         /\ Texts(ts) = {ts[i].text : i \in 1..Len(ts)}
<1>1. IsList(ts) BY ListOfSeq
<1>2. Len(ts) \in Nat /\ DOMAIN ts = 1..Len(ts) /\ \A i \in 1..Len(ts) : ts[i] \in Tasks
  BY LenProperties
<1>3. ToSet(ts) = Range(ts) /\ ToSet(ts) \subseteq Tasks BY <1>2 DEF ToSet, Range
<1>4. Texts(ts) = {ts[i].text : i \in 1..Len(ts)} BY <1>2 DEF Texts, ToSet
<1> QED BY <1>1, <1>2, <1>3, <1>4

LEMMA NoTexts == <<>> \in Seq(Tasks) /\ Texts(<<>>) = {} /\ ToSet(<<>>) = {}
<1>1. <<>> \in Seq(Tasks) /\ DOMAIN <<>> = 1..0 BY EmptySeq
<1> QED BY <1>1 DEF Texts, ToSet

LEMMA AppendTask ==
  ASSUME NEW ts \in Seq(Tasks), NEW t \in Tasks
  PROVE  Append(ts, t) \in Seq(Tasks) /\ Texts(Append(ts, t)) = Texts(ts) \cup {t.text}
<1>1. Append(ts, t) \in Seq(Tasks) BY AppendProperties
<1>2. Range(Append(ts, t)) = Range(ts) \cup {t} BY ListFacts, RangeOfAppend
<1>3. ToSet(ts) = Range(ts) /\ ToSet(Append(ts, t)) = Range(Append(ts, t)) BY <1>1, ListFacts
<1> QED BY <1>1, <1>2, <1>3 DEF Texts

(* A list of which some tasks were replaced by others of the same texts.   *)
LEMMA SameTexts ==
  ASSUME NEW ts \in Seq(Tasks), NEW us, us = [i \in DOMAIN ts |-> us[i]],
         \A i \in DOMAIN ts : us[i] \in Tasks /\ us[i].text = ts[i].text
  PROVE  us \in Seq(Tasks) /\ Len(us) = Len(ts) /\ Texts(us) = Texts(ts)
<1>1. DOMAIN ts = 1..Len(ts) /\ Len(ts) \in Nat BY ListFacts
<1>2. us \in [1..Len(ts) -> Tasks] BY <1>1
<1>3. us \in Seq(Tasks) BY <1>1, <1>2, SeqDef
<1>4. DOMAIN us = 1..Len(ts) /\ DOMAIN us = 1..Len(us) /\ Len(us) \in Nat BY <1>2, <1>3, LenProperties
<1>5. Len(us) = Len(ts) BY <1>1, <1>4
<1>6. /\ Texts(us) = {us[i].text : i \in 1..Len(us)} /\ Texts(ts) = {ts[i].text : i \in 1..Len(ts)}
      /\ \A i \in 1..Len(ts) : us[i].text = ts[i].text
  BY <1>1, <1>3, ListFacts
<1>7. {us[i].text : i \in 1..Len(us)} = {ts[i].text : i \in 1..Len(ts)}
  <2> DEFINE n == Len(ts)
  <2>1. Len(us) = n /\ \A i \in 1..n : us[i].text = ts[i].text BY <1>5, <1>6
  <2> HIDE DEF n
  <2>2. {us[i].text : i \in 1..n} = {ts[i].text : i \in 1..n} BY <2>1
  <2> QED BY <2>1, <2>2 DEF n
<1>8. Texts(us) = Texts(ts) BY <1>6, <1>7
<1> QED BY <1>3, <1>5, <1>8

LEMMA PutTask ==
  ASSUME NEW out \in Seq(Tasks), NEW y \in Tasks
  PROVE  Put("text", out, y) \in Seq(Tasks) /\ Texts(Put("text", out, y)) = Texts(out) \cup {y.text}
<1> DEFINE at == {i \in DOMAIN out : out[i].text = y.text}
           last == CHOOSE i \in at : \A j \in at : j <= i
           us == [out EXCEPT ![last] = y]
<1>1. InPlaceOf(out[last], y) = y BY TaskFacts DEF InPlaceOf
<1>2. Put("text", out, y) = IF at = {} THEN Append(out, y) ELSE us BY <1>1 DEF Put
<1>3. CASE at = {} BY <1>2, <1>3, AppendTask
<1>4. CASE at # {}
  <2>1. DOMAIN out = 1..Len(out) /\ Len(out) \in Nat BY ListFacts
  <2>2. at \in SUBSET (1..Len(out)) BY <2>1
  <2>3. last \in at
    <3> HIDE DEF at
    <3>1. Max(at) \in at /\ \A j \in at : j <= Max(at) BY <1>4, <2>1, <2>2, Highest
    <3> QED BY <3>1
  <2>4. \A i \in DOMAIN out : us[i] \in Tasks /\ us[i].text = out[i].text
    BY <2>1, <2>3, ListFacts
  <2>5. us = [i \in DOMAIN out |-> us[i]] OBVIOUS
  <2> HIDE DEF us
  <2>6. us \in Seq(Tasks) /\ Texts(us) = Texts(out) BY <2>4, <2>5, SameTexts
  <2>7. y.text \in Texts(out) BY <2>1, <2>3, ListFacts
  <2> QED BY <1>2, <1>4, <2>6, <2>7
<1> QED BY <1>3, <1>4
-----------------------------------------------------------------------------
(* A fold that adds the text of each task has all of them.                 *)
Adds(step, xs) ==
  /\ step \in [(1..Len(xs)) \X Seq(Tasks) -> Seq(Tasks)]
  /\ \A i \in 1..Len(xs), out \in Seq(Tasks) : Texts(step[<<i, out>>]) = Texts(out) \cup {xs[i].text}

LEMMA FoldAdds ==
  ASSUME NEW xs \in Seq(Tasks), NEW base \in Seq(Tasks), NEW step, Adds(step, xs),
         NEW H, NEW r, FoldSteps(H, Len(xs), Seq(Tasks), base, step, r)
  PROVE  r \in Seq(Tasks) /\ Texts(r) = Texts(base) \cup Texts(xs)
<1> DEFINE n == Len(xs)
           T(i) == {xs[j].text : j \in 1..i}
           G == {i \in 0..n : Texts(H[i]) = Texts(base) \cup T(i)}
<1>1. n \in Nat /\ Texts(xs) = T(n) BY ListFacts
<1>2. /\ H \in [0..n -> Seq(Tasks)] /\ H[0] = base /\ H[n] = r
      /\ \A i \in 1..n : H[i] = step[<<i, H[i - 1]>>]
  BY DEF FoldSteps
<1>3. 0 \in G
  <2>1. 0 \in 0..n /\ T(0) = {} BY <1>1
  <2> QED BY <1>2, <2>1
<1>4. ASSUME NEW i \in 1..n, i - 1 \in G PROVE i \in G
  <2>1. i - 1 \in 0..n /\ i \in 0..n /\ \A j \in 1..i : j \in 1..(i - 1) \/ j = i BY <1>1
  <2>2. Texts(H[i]) = Texts(H[i - 1]) \cup {xs[i].text} BY <1>2, <2>1 DEF Adds
  <2>3. T(i) = T(i - 1) \cup {xs[i].text} BY <2>1
  <2> HIDE DEF T
  <2> QED BY <1>4, <2>1, <2>2, <2>3
<1> HIDE DEF G
<1>5. 0..n \subseteq G BY <1>1, <1>3, <1>4, Induct
<1>6. n \in G /\ n \in 0..n BY <1>1, <1>5
<1> QED BY <1>1, <1>2, <1>6 DEF G

LEMMA FlagTask ==
  ASSUME NEW ts \in Seq(Tasks), NEW i, NEW b \in BOOLEAN
  PROVE  [ts EXCEPT ![i].done = b] \in Seq(Tasks)
<1> DEFINE us == [ts EXCEPT ![i].done = b]
<1>1. us = [j \in DOMAIN ts |-> us[j]] OBVIOUS
<1>2. \A j \in DOMAIN ts : us[j] \in Tasks /\ us[j].text = ts[j].text
  BY ListFacts, TaskFacts
<1> HIDE DEF us
<1>3. us \in Seq(Tasks) BY <1>1, <1>2, SameTexts
<1> QED BY <1>3 DEF us

LEMMA FoldOfTasks ==
  ASSUME NEW xs \in Seq(Tasks), NEW base \in Seq(Tasks), NEW step, Adds(step, xs),
         NEW G, FoldsLike(G, Len(xs), Seq(Tasks), base, step)
  PROVE  G[1..Len(xs)] \in Seq(Tasks) /\ Texts(G[1..Len(xs)]) = Texts(base) \cup Texts(xs)
<1>1. Len(xs) \in Nat /\ step \in [(1..Len(xs)) \X Seq(Tasks) -> Seq(Tasks)] BY ListFacts DEF Adds
<1>2. PICK H : FoldSteps(H, Len(xs), Seq(Tasks), base, step, G[1..Len(xs)]) BY <1>1, FoldRuns
<1> QED BY <1>2, FoldAdds

LEMMA FirstOfEachAdds ==
  ASSUME NEW xs \in Seq(Tasks)
  PROVE  FirstOfEach("text", xs) \in Seq(Tasks) /\ Texts(FirstOfEach("text", xs)) = Texts(xs)
<1> DEFINE n == Len(xs)
           Then(out, x) == IF \E i \in DOMAIN out : out[i].text = x.text THEN out ELSE Append(out, x)
           step == [d \in (1..n) \X Seq(Tasks) |-> Then(d[2], xs[d[1]])]
           Fits(F) == F = [s \in SUBSET (DOMAIN xs) |->
                             IF s = {} THEN <<>> ELSE Then(F[s \ {Max(s)}], xs[Max(s)])]
           G == CHOOSE F : Fits(F)
<1>1. n \in Nat /\ DOMAIN xs = 1..n /\ \A i \in 1..n : xs[i] \in Tasks BY ListFacts
<1>2. FirstOfEach("text", xs) = G[DOMAIN xs]
  BY DEF FirstOfEach, FoldLeft, MapThenFoldSet, Max
<1>3. ASSUME NEW out \in Seq(Tasks), NEW x \in Tasks
      PROVE  Then(out, x) \in Seq(Tasks) /\ Texts(Then(out, x)) = Texts(out) \cup {x.text}
  BY AppendTask, ListFacts
<1> HIDE DEF Then
<1>4. step \in [(1..n) \X Seq(Tasks) -> Seq(Tasks)] BY <1>1, <1>3
<1>5. ASSUME NEW F, NEW s \in SUBSET (1..n), s # {}, F[s \ {Max(s)}] \in Seq(Tasks)
      PROVE  Then(F[s \ {Max(s)}], xs[Max(s)]) = step[<<Max(s), F[s \ {Max(s)}]>>]
  <2>1. Max(s) \in 1..n BY <1>1, <1>5, Highest
  <2>2. <<Max(s), F[s \ {Max(s)}]>> \in (1..n) \X Seq(Tasks) BY <1>5, <2>1
  <2> QED BY <2>2
<1>6. Adds(step, xs) BY <1>1, <1>3, <1>4 DEF Adds
<1> DEFINE start == <<>>
<1>7. start \in Seq(Tasks) BY NoTexts
<1> HIDE DEF step, n, start
<1>8. PICK F : IsFold(F, n, Seq(Tasks), start, step) BY <1>1, <1>4, <1>7, FoldExists
<1>9. Fits(F)
  <2> USE DEF start
  <2> QED BY <1>1, <1>5, <1>8 DEF IsFold
<1>10. Fits(G)
  <2> HIDE DEF Fits
  <2> QED BY <1>9
<1> HIDE DEF G
<1>11. FoldsLike(G, n, Seq(Tasks), start, step)
  <2>1. G[{}] = start BY <1>1, <1>10 DEF start
  <2>2. \A s \in SUBSET (1..n) : s # {} /\ G[s \ {Max(s)}] \in Seq(Tasks) =>
          G[s] = step[<<Max(s), G[s \ {Max(s)}]>>]
    BY <1>1, <1>5, <1>10
  <2> QED BY <2>1, <2>2 DEF FoldsLike
<1>12. /\ G[1..n] \in Seq(Tasks) /\ Texts(G[1..n]) = Texts(start) \cup Texts(xs)
  BY <1>6, <1>7, <1>11, FoldOfTasks DEF n
<1> QED BY <1>1, <1>2, <1>12, NoTexts DEF start

LEMMA NothingFirst == FirstOfEach("text", <<>>) = <<>>
<1> DEFINE us == FirstOfEach("text", <<>>)
<1>1. us \in Seq(Tasks) /\ Texts(us) = {} BY NoTexts, FirstOfEachAdds
<1> HIDE DEF us
<1>2. Len(us) \in Nat /\ Texts(us) = {us[i].text : i \in 1..Len(us)} BY <1>1, ListFacts
<1>3. Len(us) = 0
  <2>1. us[1].text \in {us[i].text : i \in 1..Len(us)} \/ Len(us) = 0 BY <1>2
  <2> QED BY <1>1, <1>2, <2>1
<1>4. us = <<>> BY <1>1, <1>3, EmptySeq
<1> QED BY <1>4 DEF us

LEMMA MergeAdds ==
  ASSUME NEW xs \in Seq(Tasks), NEW ys \in Seq(Tasks)
  PROVE  MergeBy("text", xs, ys) \in Seq(Tasks) /\ Texts(MergeBy("text", xs, ys)) = Texts(xs) \cup Texts(ys)
<1> DEFINE n == Len(ys)
           Then(out, x) == Put("text", out, x)
           step == [d \in (1..n) \X Seq(Tasks) |-> Then(d[2], ys[d[1]])]
           Fits(F) == F = [s \in SUBSET (DOMAIN ys) |->
                             IF s = {} THEN xs ELSE Then(F[s \ {Max(s)}], ys[Max(s)])]
           G == CHOOSE F : Fits(F)
<1>1. n \in Nat /\ DOMAIN ys = 1..n /\ \A i \in 1..n : ys[i] \in Tasks BY ListFacts
<1>2. MergeBy("text", xs, ys) = G[DOMAIN ys]
  BY DEF MergeBy, FoldLeft, MapThenFoldSet, Max
<1>3. ASSUME NEW out \in Seq(Tasks), NEW x \in Tasks
      PROVE  Then(out, x) \in Seq(Tasks) /\ Texts(Then(out, x)) = Texts(out) \cup {x.text}
  BY PutTask
<1> HIDE DEF Then
<1>4. step \in [(1..n) \X Seq(Tasks) -> Seq(Tasks)] BY <1>1, <1>3
<1>5. ASSUME NEW F, NEW s \in SUBSET (1..n), s # {}, F[s \ {Max(s)}] \in Seq(Tasks)
      PROVE  Then(F[s \ {Max(s)}], ys[Max(s)]) = step[<<Max(s), F[s \ {Max(s)}]>>]
  <2>1. Max(s) \in 1..n BY <1>1, <1>5, Highest
  <2>2. <<Max(s), F[s \ {Max(s)}]>> \in (1..n) \X Seq(Tasks) BY <1>5, <2>1
  <2> QED BY <2>2
<1>6. Adds(step, ys) BY <1>1, <1>3, <1>4 DEF Adds
<1> DEFINE start == xs
<1>7. start \in Seq(Tasks) BY NoTexts
<1> HIDE DEF step, n, start
<1>8. PICK F : IsFold(F, n, Seq(Tasks), start, step) BY <1>1, <1>4, <1>7, FoldExists
<1>9. Fits(F)
  <2> USE DEF start
  <2> QED BY <1>1, <1>5, <1>8 DEF IsFold
<1>10. Fits(G)
  <2> HIDE DEF Fits
  <2> QED BY <1>9
<1> HIDE DEF G
<1>11. FoldsLike(G, n, Seq(Tasks), start, step)
  <2>1. G[{}] = start BY <1>1, <1>10 DEF start
  <2>2. \A s \in SUBSET (1..n) : s # {} /\ G[s \ {Max(s)}] \in Seq(Tasks) =>
          G[s] = step[<<Max(s), G[s \ {Max(s)}]>>]
    BY <1>1, <1>5, <1>10
  <2> QED BY <2>1, <2>2 DEF FoldsLike
<1>12. /\ G[1..n] \in Seq(Tasks) /\ Texts(G[1..n]) = Texts(start) \cup Texts(ys)
  BY <1>6, <1>7, <1>11, FoldOfTasks DEF n
<1> QED BY <1>1, <1>2, <1>12 DEF start

LEMMA MissingAdds ==
  ASSUME NEW ts \in Seq(Tasks), NEW more \in Seq(Tasks)
  PROVE  WithMissing(ts, more) \in Seq(Tasks) /\ Texts(WithMissing(ts, more)) = Texts(ts) \cup Texts(more)
<1> DEFINE n == Len(more)
           Then(out, x) == IF x.text \in Texts(out) THEN out ELSE Append(out, x)
           step == [d \in (1..n) \X Seq(Tasks) |-> Then(d[2], more[d[1]])]
           Fits(F) == F = [s \in SUBSET (DOMAIN more) |->
                             IF s = {} THEN ts ELSE Then(F[s \ {Max(s)}], more[Max(s)])]
           G == CHOOSE F : Fits(F)
<1>1. n \in Nat /\ DOMAIN more = 1..n /\ \A i \in 1..n : more[i] \in Tasks BY ListFacts
<1>2. WithMissing(ts, more) = G[DOMAIN more]
  BY DEF WithMissing, FoldLeft, MapThenFoldSet, Max
<1>3. ASSUME NEW out \in Seq(Tasks), NEW x \in Tasks
      PROVE  Then(out, x) \in Seq(Tasks) /\ Texts(Then(out, x)) = Texts(out) \cup {x.text}
  BY AppendTask
<1> HIDE DEF Then
<1>4. step \in [(1..n) \X Seq(Tasks) -> Seq(Tasks)] BY <1>1, <1>3
<1>5. ASSUME NEW F, NEW s \in SUBSET (1..n), s # {}, F[s \ {Max(s)}] \in Seq(Tasks)
      PROVE  Then(F[s \ {Max(s)}], more[Max(s)]) = step[<<Max(s), F[s \ {Max(s)}]>>]
  <2>1. Max(s) \in 1..n BY <1>1, <1>5, Highest
  <2>2. <<Max(s), F[s \ {Max(s)}]>> \in (1..n) \X Seq(Tasks) BY <1>5, <2>1
  <2> QED BY <2>2
<1>6. Adds(step, more) BY <1>1, <1>3, <1>4 DEF Adds
<1> DEFINE start == ts
<1>7. start \in Seq(Tasks) BY NoTexts
<1> HIDE DEF step, n, start
<1>8. PICK F : IsFold(F, n, Seq(Tasks), start, step) BY <1>1, <1>4, <1>7, FoldExists
<1>9. Fits(F)
  <2> USE DEF start
  <2> QED BY <1>1, <1>5, <1>8 DEF IsFold
<1>10. Fits(G)
  <2> HIDE DEF Fits
  <2> QED BY <1>9
<1> HIDE DEF G
<1>11. FoldsLike(G, n, Seq(Tasks), start, step)
  <2>1. G[{}] = start BY <1>1, <1>10 DEF start
  <2>2. \A s \in SUBSET (1..n) : s # {} /\ G[s \ {Max(s)}] \in Seq(Tasks) =>
          G[s] = step[<<Max(s), G[s \ {Max(s)}]>>]
    BY <1>1, <1>5, <1>10
  <2> QED BY <2>1, <2>2 DEF FoldsLike
<1>12. /\ G[1..n] \in Seq(Tasks) /\ Texts(G[1..n]) = Texts(start) \cup Texts(more)
  BY <1>6, <1>7, <1>11, FoldOfTasks DEF n
<1> QED BY <1>1, <1>2, <1>12 DEF start

(* The model's updates of a list of tasks give a list of tasks.            *)
LEMMA FlagsKeepLists ==
  ASSUME NEW ts \in Seq(Tasks), NEW us \in Seq(Tasks)
  PROVE  FlagKnown(ts, us) \in Seq(Tasks)
<1> DEFINE n == Len(us)
           Then(out, x) == IF x.text \in Texts(ts) THEN Put("text", out, x) ELSE out
           step == [d \in (1..n) \X Seq(Tasks) |-> Then(d[2], us[d[1]])]
           Fits(F) == F = [s \in SUBSET (DOMAIN us) |->
                             IF s = {} THEN ts ELSE Then(F[s \ {Max(s)}], us[Max(s)])]
           G == CHOOSE F : Fits(F)
<1>1. n \in Nat /\ DOMAIN us = 1..n /\ \A i \in 1..n : us[i] \in Tasks BY ListFacts
<1>2. FlagKnown(ts, us) = G[DOMAIN us]
  BY DEF FlagKnown, FoldLeft, MapThenFoldSet, Max
<1>3. ASSUME NEW out \in Seq(Tasks), NEW x \in Tasks
      PROVE  Then(out, x) \in Seq(Tasks)
  BY PutTask
<1> HIDE DEF Then
<1>4. step \in [(1..n) \X Seq(Tasks) -> Seq(Tasks)] BY <1>1, <1>3
<1>5. ASSUME NEW F, NEW s \in SUBSET (1..n), s # {}, F[s \ {Max(s)}] \in Seq(Tasks)
      PROVE  Then(F[s \ {Max(s)}], us[Max(s)]) = step[<<Max(s), F[s \ {Max(s)}]>>]
  <2>1. Max(s) \in 1..n BY <1>1, <1>5, Highest
  <2>2. <<Max(s), F[s \ {Max(s)}]>> \in (1..n) \X Seq(Tasks) BY <1>5, <2>1
  <2> QED BY <2>2
<1> DEFINE start == ts
<1>7. start \in Seq(Tasks) BY NoTexts
<1> HIDE DEF step, n, start
<1>8. PICK F : IsFold(F, n, Seq(Tasks), start, step) BY <1>1, <1>4, <1>7, FoldExists
<1>9. Fits(F)
  <2> USE DEF start
  <2> QED BY <1>1, <1>5, <1>8 DEF IsFold
<1>10. Fits(G)
  <2> HIDE DEF Fits
  <2> QED BY <1>9
<1> HIDE DEF G
<1>11. FoldsLike(G, n, Seq(Tasks), start, step)
  <2>1. G[{}] = start BY <1>1, <1>10 DEF start
  <2>2. \A s \in SUBSET (1..n) : s # {} /\ G[s \ {Max(s)}] \in Seq(Tasks) =>
          G[s] = step[<<Max(s), G[s \ {Max(s)}]>>]
    BY <1>1, <1>5, <1>10
  <2> QED BY <2>1, <2>2 DEF FoldsLike
<1>12. PICK H : FoldSteps(H, n, Seq(Tasks), start, step, G[1..n])
  BY <1>1, <1>4, <1>7, <1>11, FoldRuns
<1>13. G[1..n] \in Seq(Tasks)
  <2>1. n \in 0..n
    <3>1. n \in Nat BY <1>1
    <3> QED BY <3>1
  <2> QED BY <1>12, <2>1 DEF FoldSteps
<1> QED BY <1>1, <1>2, <1>13

LEMMA UpdatesKeepLists ==
  ASSUME NEW ts \in Seq(Tasks), NEW us \in Seq(Tasks), NEW match
  PROVE  ApplyTaskUpdates(ts, us, match) \in Seq(Tasks)
<1> DEFINE n == Len(us)
           Then(out, x) == IF x.text \in Texts(ts) THEN out
                           ELSE IF x.text \in DOMAIN match /\ match[x.text] \in DOMAIN ts
                                THEN [out EXCEPT ![match[x.text]].done = x.done]
                                ELSE Append(out, x)
           step == [d \in (1..n) \X Seq(Tasks) |-> Then(d[2], us[d[1]])]
           Fits(F) == F = [s \in SUBSET (DOMAIN us) |->
                             IF s = {} THEN FlagKnown(ts, us) ELSE Then(F[s \ {Max(s)}], us[Max(s)])]
           G == CHOOSE F : Fits(F)
<1>1. n \in Nat /\ DOMAIN us = 1..n /\ \A i \in 1..n : us[i] \in Tasks BY ListFacts
<1>2. ApplyTaskUpdates(ts, us, match) = G[DOMAIN us]
  BY DEF ApplyTaskUpdates, FoldLeft, MapThenFoldSet, Max
<1>3. ASSUME NEW out \in Seq(Tasks), NEW x \in Tasks
      PROVE  Then(out, x) \in Seq(Tasks)
  <2>1. [out EXCEPT ![match[x.text]].done = x.done] \in Seq(Tasks) BY TaskFacts, FlagTask
  <2> QED BY <2>1, AppendTask
<1> HIDE DEF Then
<1>4. step \in [(1..n) \X Seq(Tasks) -> Seq(Tasks)] BY <1>1, <1>3
<1>5. ASSUME NEW F, NEW s \in SUBSET (1..n), s # {}, F[s \ {Max(s)}] \in Seq(Tasks)
      PROVE  Then(F[s \ {Max(s)}], us[Max(s)]) = step[<<Max(s), F[s \ {Max(s)}]>>]
  <2>1. Max(s) \in 1..n BY <1>1, <1>5, Highest
  <2>2. <<Max(s), F[s \ {Max(s)}]>> \in (1..n) \X Seq(Tasks) BY <1>5, <2>1
  <2> QED BY <2>2
<1> DEFINE start == FlagKnown(ts, us)
<1>7. start \in Seq(Tasks) BY FlagsKeepLists
<1> HIDE DEF step, n, start
<1>8. PICK F : IsFold(F, n, Seq(Tasks), start, step) BY <1>1, <1>4, <1>7, FoldExists
<1>9. Fits(F)
  <2> USE DEF start
  <2> QED BY <1>1, <1>5, <1>8 DEF IsFold
<1>10. Fits(G)
  <2> HIDE DEF Fits
  <2> QED BY <1>9
<1> HIDE DEF G
<1>11. FoldsLike(G, n, Seq(Tasks), start, step)
  <2>1. G[{}] = start BY <1>1, <1>10 DEF start
  <2>2. \A s \in SUBSET (1..n) : s # {} /\ G[s \ {Max(s)}] \in Seq(Tasks) =>
          G[s] = step[<<Max(s), G[s \ {Max(s)}]>>]
    BY <1>1, <1>5, <1>10
  <2> QED BY <2>1, <2>2 DEF FoldsLike
<1>12. PICK H : FoldSteps(H, n, Seq(Tasks), start, step, G[1..n])
  BY <1>1, <1>4, <1>7, <1>11, FoldRuns
<1>13. G[1..n] \in Seq(Tasks)
  <2>1. n \in 0..n
    <3>1. n \in Nat BY <1>1
    <3> QED BY <3>1
  <2> QED BY <1>12, <2>1 DEF FoldSteps
<1> QED BY <1>1, <1>2, <1>13

LEMMA RepairedHas ==
  ASSUME NEW existing \in Seq(Tasks), NEW incoming \in Seq(Tasks), NEW answer \in Seq(Tasks), NEW match
  PROVE  LET r == Repaired(existing, incoming, answer, match)
         IN  r \in Seq(Tasks) /\ Texts(existing) \cup Texts(incoming) \subseteq Texts(r)
<1> DEFINE m == ApplyTaskUpdates(answer, incoming, match)
<1>1. m \in Seq(Tasks) BY UpdatesKeepLists
<1>2. Repaired(existing, incoming, answer, match) = WithMissing(WithMissing(m, existing), incoming)
  BY DEF Repaired, EnsureMergedTasks
<1> HIDE DEF m
<1> QED BY <1>1, <1>2, MissingAdds

LEMMA FinishKeepsTexts ==
  ASSUME NEW ts \in Seq(Tasks), NEW done
  PROVE  FinishTasks(ts, done) \in Seq(Tasks) /\ Texts(FinishTasks(ts, done)) = Texts(ts)
<1> DEFINE us == FinishTasks(ts, done)
<1>1. us = [i \in DOMAIN ts |-> us[i]] BY DEF FinishTasks
<1>2. ASSUME NEW i \in DOMAIN ts PROVE us[i] \in Tasks /\ us[i].text = ts[i].text
  <2>1. ts[i] \in Tasks BY ListFacts
  <2>2. us[i] = [ts[i] EXCEPT !.done = ts[i].done \/ ts[i].text \in done] BY DEF FinishTasks
  <2> QED BY <2>1, <2>2 DEF Tasks
<1> HIDE DEF us
<1>3. us \in Seq(Tasks) /\ Texts(us) = Texts(ts) BY <1>1, <1>2, SameTexts
<1> QED BY <1>3 DEF us

(* A ratio shows an open task exactly when there is one.                    *)
LEMMA RatioShowsOpen ==
  ASSUME NEW ts \in Seq(Tasks)
  PROVE  Pending(TaskRatio(ts)) <=> \E t \in ToSet(ts) : ~t.done
<1> DEFINE n == Len(ts)
           finished == {i \in 1..n : ts[i].done}
<1>1. n \in Nat /\ DOMAIN ts = 1..n /\ ToSet(ts) = {ts[i] : i \in 1..n} BY ListFacts DEF ToSet
<1>2. TaskRatio(ts) = <<Cardinality(finished), n>> BY <1>1 DEF TaskRatio
<1>3. IsFiniteSet(1..n) /\ Cardinality(1..n) = n BY <1>1, FS_Interval
<1>4. finished \in SUBSET (1..n) OBVIOUS
<1>5. /\ IsFiniteSet(finished) /\ Cardinality(finished) \in Nat /\ Cardinality(finished) <= n
      /\ Cardinality(finished) = n => finished = 1..n
  <2> HIDE DEF finished
  <2> QED BY <1>3, <1>4, FS_Subset, FS_CardinalityType
<1>6. Pending(TaskRatio(ts)) <=> finished # 1..n
  <2> HIDE DEF finished
  <2> QED BY <1>1, <1>2, <1>3, <1>5 DEF Pending
<1>7. finished # 1..n <=> \E i \in 1..n : ~ts[i].done OBVIOUS
<1> QED BY <1>1, <1>6, <1>7

-----------------------------------------------------------------------------
(* Sections of a long-term file: lists of entries, of different titles.    *)
Different(xs) == \A i, j \in DOMAIN xs : xs[i].title = xs[j].title => i = j

LEMMA SectionFacts ==
  ASSUME NEW xs \in Seq(Notes)
  PROVE  /\ IsList(xs) /\ Len(xs) \in Nat /\ DOMAIN xs = 1..Len(xs)
         /\ \A i \in 1..Len(xs) : xs[i] \in Notes
         /\ ToSet(xs) = Range(xs) /\ ToSet(xs) = {xs[i] : i \in 1..Len(xs)}
         /\ ToSet(xs) \subseteq Notes
<1>1. IsList(xs) BY ListOfSeq
<1>2. Len(xs) \in Nat /\ DOMAIN xs = 1..Len(xs) /\ \A i \in 1..Len(xs) : xs[i] \in Notes
  BY LenProperties
<1>3. /\ ToSet(xs) = Range(xs) /\ ToSet(xs) = {xs[i] : i \in 1..Len(xs)} /\ ToSet(xs) \subseteq Notes
  BY <1>2 DEF ToSet, Range
<1> QED BY <1>1, <1>2, <1>3

LEMMA NoEntries ==
  /\ <<>> \in Seq(Notes) /\ Different(<<>>) /\ ToSet(<<>>) = {} /\ Len(<<>>) = 0
<1>1. <<>> \in Seq(Notes) /\ DOMAIN <<>> = 1..0 /\ Len(<<>>) = 0 BY EmptySeq
<1> QED BY <1>1 DEF Different, ToSet

LEMMA AppendEntry ==
  ASSUME NEW xs \in Seq(Notes), NEW x \in Notes, Different(xs),
         \A i \in DOMAIN xs : xs[i].title # x.title
  PROVE  /\ Append(xs, x) \in Seq(Notes) /\ Different(Append(xs, x))
         /\ ToSet(Append(xs, x)) = ToSet(xs) \cup {x}
<1> DEFINE us == Append(xs, x)
           n == Len(xs)
<1>1. n \in Nat /\ DOMAIN xs = 1..n BY SectionFacts
<1>2. us \in Seq(Notes) /\ Len(us) = n + 1 /\ us[n + 1] = x /\ \A i \in 1..n : us[i] = xs[i]
  BY <1>1, AppendProperties
<1>3. Range(us) = Range(xs) \cup {x} BY SectionFacts, RangeOfAppend
<1> HIDE DEF us, n
<1>4. DOMAIN us = 1..(n + 1) BY <1>2, SectionFacts
<1>5. Different(us) BY <1>1, <1>2, <1>4 DEF Different
<1> QED BY <1>2, <1>3, <1>5, SectionFacts DEF us

(* An entry in place of another of its title.                              *)
LEMMA ReplaceEntry ==
  ASSUME NEW xs \in Seq(Notes), Different(xs), NEW k \in DOMAIN xs,
         NEW x \in Notes, x.title = xs[k].title,
         NEW us \in [DOMAIN xs -> Notes], us[k] = x, \A i \in DOMAIN xs : i # k => us[i] = xs[i]
  PROVE  /\ us \in Seq(Notes) /\ Different(us)
         /\ \A y \in ToSet(us) : y = x \/ y \in ToSet(xs)
         /\ \A y \in ToSet(xs) : \E z \in ToSet(us) : z.title = y.title
<1> DEFINE n == Len(xs)
<1>1. n \in Nat /\ DOMAIN xs = 1..n /\ \A i \in 1..n : xs[i] \in Notes BY SectionFacts
<1>2. DOMAIN us = 1..n /\ us[k] = x /\ \A i \in 1..n : i # k => us[i] = xs[i] BY <1>1
<1>3. us \in [1..n -> Notes] BY <1>1
<1> HIDE DEF n
<1>4. us \in Seq(Notes) BY <1>1, <1>3, SeqDef
<1>5. \A i \in 1..n : us[i].title = xs[i].title BY <1>1, <1>2
<1>6. Different(us) BY <1>1, <1>2, <1>5 DEF Different
<1>7. \A y \in ToSet(us) : y = x \/ y \in ToSet(xs) BY <1>1, <1>2 DEF ToSet
<1>8. \A y \in ToSet(xs) : \E z \in ToSet(us) : z.title = y.title BY <1>1, <1>2, <1>5 DEF ToSet
<1> QED BY <1>4, <1>6, <1>7, <1>8

LEMMA NormalizedEntries ==
  ASSUME NEW xs \in Seq(Notes)
  PROVE  NormalizeEntries(xs) \in Seq(Notes) /\ Different(NormalizeEntries(xs))
         /\ ToSet(NormalizeEntries(xs)) \subseteq ToSet(xs)
<1> DEFINE S == {out \in Seq(Notes) : Different(out) /\ ToSet(out) \subseteq ToSet(xs)}
           n == Len(xs)
           Then(out, x) == IF \E i \in DOMAIN out : out[i].title = x.title THEN out ELSE Append(out, x)
           step == [d \in (1..n) \X S |-> Then(d[2], xs[d[1]])]
           Fits(F) == F = [s \in SUBSET (DOMAIN xs) |->
                             IF s = {} THEN <<>> ELSE Then(F[s \ {Max(s)}], xs[Max(s)])]
           G == CHOOSE F : Fits(F)
           start == <<>>
<1>1. n \in Nat /\ DOMAIN xs = 1..n /\ \A i \in 1..n : xs[i] \in ToSet(xs) BY SectionFacts DEF ToSet
<1>2. NormalizeEntries(xs) = G[DOMAIN xs]
  BY DEF NormalizeEntries, FirstOfEach, FoldLeft, MapThenFoldSet, Max
<1>3. ASSUME NEW out \in S, NEW x \in ToSet(xs)
      PROVE  Then(out, x) \in S
  <2>1. x \in Notes BY SectionFacts
  <2>2. CASE \E i \in DOMAIN out : out[i].title = x.title BY <2>2
  <2>3. CASE ~\E i \in DOMAIN out : out[i].title = x.title BY <2>1, <2>3, AppendEntry
  <2> QED BY <2>2, <2>3
<1>4. start \in S BY NoEntries
<1> HIDE DEF Then, S
<1>5. step \in [(1..n) \X S -> S] BY <1>1, <1>3
<1>6. ASSUME NEW F, NEW s \in SUBSET (1..n), s # {}, F[s \ {Max(s)}] \in S
      PROVE  Then(F[s \ {Max(s)}], xs[Max(s)]) = step[<<Max(s), F[s \ {Max(s)}]>>]
  <2>1. Max(s) \in 1..n BY <1>1, <1>6, Highest
  <2>2. <<Max(s), F[s \ {Max(s)}]>> \in (1..n) \X S BY <1>6, <2>1
  <2> QED BY <2>2
<1> HIDE DEF step, n, start
<1>8. PICK F : IsFold(F, n, S, start, step) BY <1>1, <1>4, <1>5, FoldExists
<1>9. Fits(F)
  <2> USE DEF start
  <2> QED BY <1>1, <1>6, <1>8 DEF IsFold
<1>10. Fits(G)
  <2> HIDE DEF Fits
  <2> QED BY <1>9
<1> HIDE DEF G
<1>11. FoldsLike(G, n, S, start, step)
  <2>1. G[{}] = start BY <1>1, <1>10 DEF start
  <2>2. \A s \in SUBSET (1..n) : s # {} /\ G[s \ {Max(s)}] \in S =>
          G[s] = step[<<Max(s), G[s \ {Max(s)}]>>]
    BY <1>1, <1>6, <1>10
  <2> QED BY <2>1, <2>2 DEF FoldsLike
<1>12. PICK H : FoldSteps(H, n, S, start, step, G[1..n])
  BY <1>1, <1>4, <1>5, <1>11, FoldRuns
<1>13. G[1..n] \in S
  <2>1. n \in 0..n
    <3>1. n \in Nat BY <1>1
    <3> QED BY <3>1
  <2> QED BY <1>12, <2>1 DEF FoldSteps
<1> QED BY <1>1, <1>2, <1>13 DEF S

(* The entries of a section that have the title of one it was merged from  *)
(* have its date, but for the titles dated anew.                           *)
Dates(xs, anew, ys) ==
  \A x \in ToSet(xs), y \in ToSet(ys) : x.title = y.title => x.added = y.added \/ x.title \in anew
Names(xs, ys) == \A x \in ToSet(xs) : \E y \in ToSet(ys) : y.title = x.title

LEMMA MergedEntries ==
  ASSUME NEW xs \in Seq(Notes), Different(xs), NEW ys \in Seq(Notes), NEW anew,
         \A x \in ToSet(xs), y \in ToSet(ys) : x.title = y.title => y.added = NoDate \/ x.title \in anew
  PROVE  /\ MergeBy("title", xs, ys) \in Seq(Notes) /\ Different(MergeBy("title", xs, ys))
         /\ Dates(xs, anew, MergeBy("title", xs, ys))
<1> DEFINE S == {out \in Seq(Notes) : Different(out) /\ Names(xs, out) /\ Dates(xs, anew, out)}
           n == Len(ys)
           Then(out, x) == Put("title", out, x)
           step == [d \in (1..n) \X S |-> Then(d[2], ys[d[1]])]
           Fits(F) == F = [s \in SUBSET (DOMAIN ys) |->
                             IF s = {} THEN xs ELSE Then(F[s \ {Max(s)}], ys[Max(s)])]
           G == CHOOSE F : Fits(F)
           start == xs
<1>1. n \in Nat /\ DOMAIN ys = 1..n /\ \A i \in 1..n : ys[i] \in ToSet(ys) BY SectionFacts DEF ToSet
<1>2. MergeBy("title", xs, ys) = G[DOMAIN ys]
  BY DEF MergeBy, FoldLeft, MapThenFoldSet, Max
<1>3. ASSUME NEW out \in S, NEW x \in ToSet(ys)
      PROVE  Then(out, x) \in S
  <2> DEFINE at == {i \in DOMAIN out : out[i].title = x.title}
  <2>1. x \in Notes BY SectionFacts
  <2>2. out \in Seq(Notes) /\ Different(out) /\ Names(xs, out) /\ Dates(xs, anew, out) OBVIOUS
  <2> HIDE DEF S
  <2>3. CASE at = {}
    <3>1. Put("title", out, x) = Append(out, x) BY <2>3 DEF Put
    <3>2. \A i \in DOMAIN out : out[i].title # x.title BY <2>3
    <3>3. /\ Append(out, x) \in Seq(Notes) /\ Different(Append(out, x))
          /\ ToSet(Append(out, x)) = ToSet(out) \cup {x}
      BY <2>1, <2>2, <3>2, AppendEntry
    <3>4. \A y \in ToSet(out) : y.title # x.title BY <3>2 DEF ToSet
    <3>5. \A y \in ToSet(xs) : y.title # x.title BY <2>2, <3>4 DEF Names
    <3>6. Names(xs, Append(out, x)) /\ Dates(xs, anew, Append(out, x))
      BY <2>2, <3>3, <3>5 DEF Names, Dates
    <3> QED BY <3>1, <3>3, <3>6 DEF S
  <2>4. CASE at # {}
    <3> DEFINE k == CHOOSE i \in at : \A j \in at : j <= i
               new == InPlaceOf(out[k], x)
               us == [out EXCEPT ![k] = new]
    <3>1. Put("title", out, x) = us BY <2>4 DEF Put
    <3>2. DOMAIN out = 1..Len(out) /\ Len(out) \in Nat BY <2>2, SectionFacts
    <3>3. at \in SUBSET (1..Len(out)) BY <3>2
    <3>4. k \in at
      <4> HIDE DEF at
      <4>1. Max(at) \in at /\ \A j \in at : j <= Max(at) BY <2>4, <3>2, <3>3, Highest
      <4> QED BY <4>1
    <3> HIDE DEF k
    <3>5. k \in DOMAIN out /\ out[k].title = x.title /\ out[k] \in Notes /\ out[k] \in ToSet(out)
      BY <2>2, <3>4, SectionFacts DEF ToSet
    <3>6. /\ new \in Notes /\ new.title = x.title
          /\ new.added = IF x.added = NoDate THEN out[k].added ELSE x.added
      BY <2>1, <3>5 DEF InPlaceOf, Notes
    <3> HIDE DEF new
    <3>7. /\ us \in Seq(Notes) /\ Different(us)
          /\ \A y \in ToSet(us) : y = new \/ y \in ToSet(out)
          /\ \A y \in ToSet(out) : \E z \in ToSet(us) : z.title = y.title
      <4>1. \A i \in DOMAIN out : out[i] \in Notes BY <2>2, SectionFacts
      <4>2. us \in [DOMAIN out -> Notes] /\ us[k] = new /\ \A i \in DOMAIN out : i # k => us[i] = out[i]
        BY <3>2, <3>5, <3>6, <4>1
      <4> HIDE DEF us, Different
      <4> QED BY <2>2, <3>5, <3>6, <4>2, ReplaceEntry
    <3> HIDE DEF us
    <3>8. Names(xs, us)
      <4> SUFFICES ASSUME NEW y \in ToSet(xs) PROVE \E z \in ToSet(us) : z.title = y.title
        BY DEF Names
      <4>1. PICK v \in ToSet(out) : v.title = y.title BY <2>2 DEF Names
      <4> QED BY <3>7, <4>1
    <3>9. \A y \in ToSet(xs) : y.title = new.title => y.added = new.added \/ y.title \in anew
      BY <2>2, <3>5, <3>6 DEF Dates
    <3>10. Dates(xs, anew, us) BY <2>2, <3>7, <3>9 DEF Dates
    <3> QED BY <3>1, <3>7, <3>8, <3>10 DEF S
  <2> QED BY <2>3, <2>4
<1>4. start \in S
  <2>1. \A i, j \in DOMAIN xs : xs[i].title = xs[j].title => xs[i].added = xs[j].added BY DEF Different
  <2>2. Dates(xs, anew, xs) BY <2>1 DEF Dates, ToSet
  <2> QED BY <2>2 DEF Names
<1> HIDE DEF Then, S
<1>5. step \in [(1..n) \X S -> S] BY <1>1, <1>3
<1>6. ASSUME NEW F, NEW s \in SUBSET (1..n), s # {}, F[s \ {Max(s)}] \in S
      PROVE  Then(F[s \ {Max(s)}], ys[Max(s)]) = step[<<Max(s), F[s \ {Max(s)}]>>]
  <2>1. Max(s) \in 1..n BY <1>1, <1>6, Highest
  <2>2. <<Max(s), F[s \ {Max(s)}]>> \in (1..n) \X S BY <1>6, <2>1
  <2> QED BY <2>2
<1> HIDE DEF step, n, start
<1>8. PICK F : IsFold(F, n, S, start, step) BY <1>1, <1>4, <1>5, FoldExists
<1>9. Fits(F)
  <2> USE DEF start
  <2> QED BY <1>1, <1>6, <1>8 DEF IsFold
<1>10. Fits(G)
  <2> HIDE DEF Fits
  <2> QED BY <1>9
<1> HIDE DEF G
<1>11. FoldsLike(G, n, S, start, step)
  <2>1. G[{}] = start BY <1>1, <1>10 DEF start
  <2>2. \A s \in SUBSET (1..n) : s # {} /\ G[s \ {Max(s)}] \in S =>
          G[s] = step[<<Max(s), G[s \ {Max(s)}]>>]
    BY <1>1, <1>6, <1>10
  <2> QED BY <2>1, <2>2 DEF FoldsLike
<1>12. PICK H : FoldSteps(H, n, S, start, step, G[1..n])
  BY <1>1, <1>4, <1>5, <1>11, FoldRuns
<1>13. G[1..n] \in S
  <2>1. n \in 0..n
    <3>1. n \in Nat BY <1>1
    <3> QED BY <3>1
  <2> QED BY <1>12, <2>1 DEF FoldSteps
<1> QED BY <1>1, <1>2, <1>13 DEF S

LEMMA MergedKV ==
  ASSUME NEW xs \in Seq(Notes), Different(xs), NEW ys \in Seq(Notes), NEW day \in Nat
  PROVE  LET r == MergeLongTermKV(xs, ys, day)
         IN  r \in Seq(Notes) /\ DatesKept(xs, ys, r)
<1> DEFINE Known == {x.title : x \in ToSet(xs)}
           In == [i \in DOMAIN ys |->
                    IF ys[i].title \in Known \/ ys[i].added # NoDate THEN ys[i]
                    ELSE [ys[i] EXCEPT !.added = day]]
           anew == {z.title : z \in {y \in ToSet(ys) : y.added # NoDate}}
           r == MergeBy("title", xs, In)
<1>1. MergeLongTermKV(xs, ys, day) = r BY DEF MergeLongTermKV
<1>2. Len(ys) \in Nat /\ DOMAIN ys = 1..Len(ys) /\ \A i \in 1..Len(ys) : ys[i] \in Notes /\ ys[i] \in ToSet(ys)
  BY SectionFacts DEF ToSet
<1>3. \A i \in 1..Len(ys) : [ys[i] EXCEPT !.added = day] \in Notes BY <1>2 DEF Notes
<1>4. In \in [1..Len(ys) -> Notes] BY <1>2, <1>3
<1>5. In \in Seq(Notes) /\ DOMAIN In = 1..Len(ys) BY <1>2, <1>4, SeqDef
<1>6. ASSUME NEW x \in ToSet(xs), NEW y \in ToSet(In), x.title = y.title
      PROVE  y.added = NoDate \/ x.title \in anew
  <2>1. PICK i \in 1..Len(ys) : y = In[i] BY <1>5 DEF ToSet
  <2>2. ys[i].title \in Known
    <3>1. In[i].title = ys[i].title BY <1>2, <1>3 DEF Notes
    <3> QED BY <1>6, <2>1, <3>1
  <2>3. y = ys[i] BY <1>2, <2>1, <2>2
  <2> QED BY <1>2, <1>6, <2>3
<1> HIDE DEF In, anew
<1>7. r \in Seq(Notes) /\ Dates(xs, anew, r) BY <1>5, <1>6, MergedEntries
<1> HIDE DEF r
<1>8. DatesKept(xs, ys, r) BY <1>7 DEF DatesKept, Dates, anew
<1> QED BY <1>1, <1>7, <1>8

(* Sections cut to the limits.                                             *)
LEMMA SectionHead ==
  ASSUME NEW xs \in Seq(Notes), xs # <<>>
  PROVE  /\ Tail(xs) \in Seq(Notes) /\ Len(Tail(xs)) = Len(xs) - 1 /\ Len(xs) # 0
         /\ \A i \in 1..(Len(xs) - 1) : Tail(xs)[i] = xs[i + 1]
         /\ ToSet(Tail(xs)) \subseteq ToSet(xs) /\ xs[1] \in ToSet(xs) /\ xs[1] \in Notes
<1> DEFINE t == Tail(xs)
<1>1. /\ t \in Seq(Notes) /\ Len(t) = Len(xs) - 1
      /\ \A i \in 1..Len(t) : t[i] = xs[i + 1]
  BY HeadTailProperties
<1>2. Len(xs) # 0 BY EmptySeq
<1>3. /\ Len(xs) \in Nat /\ DOMAIN xs = 1..Len(xs) /\ DOMAIN t = 1..Len(t)
      /\ \A i \in 1..Len(xs) : xs[i] \in Notes
  BY <1>1, SectionFacts
<1> HIDE DEF t
<1>4. \A i \in 1..(Len(xs) - 1) : i + 1 \in 1..Len(xs) BY <1>3
<1>5. ToSet(t) \subseteq ToSet(xs) BY <1>1, <1>3, <1>4 DEF ToSet
<1>6. xs[1] \in ToSet(xs) /\ xs[1] \in Notes
  <2>1. 1 \in 1..Len(xs) BY <1>2, <1>3
  <2> QED BY <1>3, <2>1 DEF ToSet
<1> QED BY <1>1, <1>2, <1>5, <1>6 DEF t

(* The characters of a section, entry after entry.                         *)
Summed(H, xs) ==
  /\ H \in [0..Len(xs) -> Nat] /\ H[0] = 0 /\ H[Len(xs)] = SectionChars(xs)
  /\ \A i \in 1..Len(xs) : H[i] = H[i - 1] + xs[i].size

LEMMA CharsSummed ==
  ASSUME NEW xs \in Seq(Notes)
  PROVE  \E H : Summed(H, xs)
<1> DEFINE S == Nat
           n == Len(xs)
           Then(out, x) == out + x.size
           step == [d \in (1..n) \X S |-> Then(d[2], xs[d[1]])]
           Fits(F) == F = [s \in SUBSET (DOMAIN xs) |->
                             IF s = {} THEN 0 ELSE Then(F[s \ {Max(s)}], xs[Max(s)])]
           G == CHOOSE F : Fits(F)
           start == 0
<1>1. n \in Nat /\ DOMAIN xs = 1..n /\ \A i \in 1..n : xs[i] \in Notes BY SectionFacts
<1>2. SectionChars(xs) = G[DOMAIN xs]
  BY DEF SectionChars, FoldLeft, MapThenFoldSet, Max
<1>3. ASSUME NEW out \in S, NEW x \in Notes
      PROVE  Then(out, x) \in S
  BY DEF Notes
<1>4. start \in S OBVIOUS
<1> HIDE DEF Then, S
<1>5. step \in [(1..n) \X S -> S] BY <1>1, <1>3
<1>6. ASSUME NEW F, NEW s \in SUBSET (1..n), s # {}, F[s \ {Max(s)}] \in S
      PROVE  Then(F[s \ {Max(s)}], xs[Max(s)]) = step[<<Max(s), F[s \ {Max(s)}]>>]
  <2>1. Max(s) \in 1..n BY <1>1, <1>6, Highest
  <2>2. <<Max(s), F[s \ {Max(s)}]>> \in (1..n) \X S BY <1>6, <2>1
  <2> QED BY <2>2
<1>7. \A i \in 1..n, m \in Nat : step[<<i, m>>] = m + xs[i].size
  BY DEF Then, S
<1> HIDE DEF step, n, start
<1>8. PICK F : IsFold(F, n, S, start, step) BY <1>1, <1>4, <1>5, FoldExists
<1>9. Fits(F)
  <2> USE DEF start
  <2> QED BY <1>1, <1>6, <1>8 DEF IsFold
<1>10. Fits(G)
  <2> HIDE DEF Fits
  <2> QED BY <1>9
<1> HIDE DEF G
<1>11. FoldsLike(G, n, S, start, step)
  <2>1. G[{}] = start BY <1>1, <1>10 DEF start
  <2>2. \A s \in SUBSET (1..n) : s # {} /\ G[s \ {Max(s)}] \in S =>
          G[s] = step[<<Max(s), G[s \ {Max(s)}]>>]
    BY <1>1, <1>6, <1>10
  <2> QED BY <2>1, <2>2 DEF FoldsLike
<1>12. PICK H : FoldSteps(H, n, S, start, step, G[1..n])
  BY <1>1, <1>4, <1>5, <1>11, FoldRuns
<1>13. \A i \in 1..n : H[i] = H[i - 1] + xs[i].size
  <2> SUFFICES ASSUME NEW i \in 1..n PROVE H[i] = H[i - 1] + xs[i].size
    OBVIOUS
  <2>1. i - 1 \in 0..n BY <1>1
  <2>2. H[i - 1] \in Nat /\ H[i] = step[<<i, H[i - 1]>>] BY <1>12, <2>1 DEF FoldSteps, S
  <2> QED BY <1>7, <2>2
<1>14. Summed(H, xs) BY <1>1, <1>2, <1>12, <1>13 DEF Summed, FoldSteps, S, n, start
<1> QED BY <1>14

LEMMA CharsOfNone == SectionChars(<<>>) = 0
<1> DEFINE none == <<>>
<1>1. none \in Seq(Notes) /\ Len(none) = 0 BY NoEntries
<1> HIDE DEF none
<1>2. PICK H : Summed(H, none) BY <1>1, CharsSummed
<1> QED BY <1>1, <1>2 DEF Summed, none

LEMMA CharsOfTail ==
  ASSUME NEW xs \in Seq(Notes), xs # <<>>
  PROVE  /\ SectionChars(xs) \in Nat /\ SectionChars(Tail(xs)) \in Nat
         /\ SectionChars(xs) = SectionChars(Tail(xs)) + xs[1].size
<1> DEFINE t == Tail(xs)
           n == Len(t)
<1>1. /\ t \in Seq(Notes) /\ n = Len(xs) - 1 /\ n \in Nat /\ Len(xs) = n + 1
      /\ \A i \in 1..n : t[i] = xs[i + 1]
      /\ xs[1].size \in Nat /\ \A i \in 1..n : t[i].size \in Nat
  <2>1. t \in Seq(Notes) /\ n = Len(xs) - 1 /\ \A i \in 1..(Len(xs) - 1) : t[i] = xs[i + 1] BY SectionHead
  <2>2. Len(xs) \in Nat /\ n \in Nat /\ \A i \in 1..n : t[i] \in Notes BY <2>1, SectionFacts
  <2>3. xs[1] \in Notes BY SectionHead
  <2>4. xs[1].size \in Nat /\ \A i \in 1..n : t[i].size \in Nat BY <2>2, <2>3 DEF Notes
  <2> HIDE DEF t, n
  <2>5. Len(xs) = n + 1 BY <2>1, <2>2
  <2>6. 1..n = 1..(Len(xs) - 1) BY <2>1
  <2> QED BY <2>1, <2>2, <2>4, <2>5, <2>6
<1> HIDE DEF t
<1>2. PICK H : Summed(H, xs) BY CharsSummed
<1>3. PICK K : Summed(K, t) BY <1>1, CharsSummed
<1> HIDE DEF n
<1>4. /\ H \in [0..(n + 1) -> Nat] /\ H[0] = 0 /\ H[n + 1] = SectionChars(xs)
      /\ \A i \in 1..(n + 1) : H[i] = H[i - 1] + xs[i].size
      /\ K \in [0..n -> Nat] /\ K[0] = 0 /\ K[n] = SectionChars(t)
      /\ \A i \in 1..n : K[i] = K[i - 1] + t[i].size
  BY <1>1, <1>2, <1>3 DEF Summed, n
<1> DEFINE P == {i \in 0..n : H[i + 1] = K[i] + xs[1].size}
<1>5. 0 \in P
  <2>1. 1 \in 1..(n + 1) /\ 1 - 1 = 0 /\ 0 \in 0..n BY <1>1
  <2>2. H[1] = H[0] + xs[1].size BY <1>4, <2>1
  <2> QED BY <1>1, <1>4, <2>1, <2>2
<1>6. ASSUME NEW i \in 1..n, i - 1 \in P PROVE i \in P
  <2>1. i + 1 \in 1..(n + 1) /\ (i + 1) - 1 = i /\ i \in 0..n /\ i - 1 \in 0..n /\ (i - 1) + 1 = i BY <1>1
  <2>2. H[i + 1] = H[i] + xs[i + 1].size BY <1>4, <2>1
  <2>3. K[i] = K[i - 1] + xs[i + 1].size /\ xs[i + 1].size \in Nat /\ K[i - 1] \in Nat BY <1>1, <1>4, <2>1
  <2>4. H[i] = K[i - 1] + xs[1].size BY <1>6, <2>1
  <2>5. H[i + 1] = K[i] + xs[1].size BY <1>1, <2>2, <2>3, <2>4
  <2> QED BY <2>1, <2>5
<1> HIDE DEF P
<1>7. 0..n \subseteq P BY <1>1, <1>5, <1>6, Induct
<1>8. n \in P /\ n \in 0..n /\ n + 1 \in 0..(n + 1) BY <1>1, <1>7
<1>9. SectionChars(xs) \in Nat /\ SectionChars(t) \in Nat BY <1>4, <1>8
<1> QED BY <1>4, <1>8, <1>9 DEF P, t

LEMMA CharsType == \A xs \in Seq(Notes) : SectionChars(xs) \in Nat
<1> SUFFICES ASSUME NEW xs \in Seq(Notes) PROVE SectionChars(xs) \in Nat
  OBVIOUS
<1>1. PICK H : Summed(H, xs) BY CharsSummed
<1>2. Len(xs) \in 0..Len(xs) BY SectionFacts
<1> QED BY <1>1, <1>2 DEF Summed

LEMMA NatSum ==
  \A a, b \in Nat : /\ a + b \in Nat /\ (a + b = 0 => a = 0 /\ b = 0)
                   /\ (a >= b /\ a = 0 => b = 0) /\ (~(a >= b) => b # 0)
                   /\ (a - 1) + b = (a + b) - 1 /\ a + (b - 1) = (a + b) - 1
OBVIOUS

LEMMA LongFacts ==
  ASSUME NEW c \in LongFiles
  PROVE  /\ c.goals \in Seq(Notes) /\ c.facts \in Seq(Notes)
         /\ Len(c.goals) \in Nat /\ Len(c.facts) \in Nat
         /\ LongTermItems(c) = Len(c.goals) + Len(c.facts) /\ LongTermItems(c) \in Nat
         /\ LongTermChars(c) \in Nat /\ (LongTermItems(c) = 0 => LongTermChars(c) = 0)
<1>1. c.goals \in Seq(Notes) /\ c.facts \in Seq(Notes) BY DEF LongFiles
<1>2. Len(c.goals) \in Nat /\ Len(c.facts) \in Nat BY <1>1, SectionFacts
<1>3. LongTermItems(c) = Len(c.goals) + Len(c.facts) BY DEF LongTermItems
<1>4. SectionChars(c.goals) \in Nat /\ SectionChars(c.facts) \in Nat BY <1>1, CharsType
<1>5. \A xs \in Seq(Notes) : Len(xs) = 0 => SectionChars(xs) = 0 BY CharsOfNone, EmptySeq
<1>6. LongTermChars(c) = SectionChars(c.goals) + SectionChars(c.facts) BY DEF LongTermChars
<1>7. PICK a \in Nat, b \in Nat : a = Len(c.goals) /\ b = Len(c.facts) BY <1>2
<1>8. PICK x \in Nat, y \in Nat : x = SectionChars(c.goals) /\ y = SectionChars(c.facts) BY <1>4
<1>9. LongTermItems(c) = a + b /\ LongTermChars(c) = x + y BY <1>3, <1>6, <1>7, <1>8
<1>10. a + b \in Nat /\ x + y \in Nat /\ (a + b = 0 => a = 0 /\ b = 0) OBVIOUS
<1>11. a = 0 => x = 0 BY <1>1, <1>5, <1>7, <1>8
<1>12. b = 0 => y = 0 BY <1>1, <1>5, <1>7, <1>8
<1>13. a + b = 0 => x + y = 0 BY ONLY <1>10, <1>11, <1>12
<1> QED BY <1>1, <1>2, <1>3, <1>9, <1>10, <1>13

PartOf(d, c) == ToSet(d.goals) \subseteq ToSet(c.goals) /\ ToSet(d.facts) \subseteq ToSet(c.facts)

LEMMA DroppedIs ==
  ASSUME NEW c \in LongFiles, LongTermItems(c) # 0
  PROVE  /\ DropOldest(c) \in LongFiles /\ PartOf(DropOldest(c), c)
         /\ LongTermItems(DropOldest(c)) = LongTermItems(c) - 1
         /\ \E x \in LongEntries(c) : LongTermChars(c) = LongTermChars(DropOldest(c)) + x.size
<1>1. /\ c.goals \in Seq(Notes) /\ c.facts \in Seq(Notes)
      /\ Len(c.goals) \in Nat /\ Len(c.facts) \in Nat
      /\ LongTermItems(c) = Len(c.goals) + Len(c.facts)
      /\ LongTermChars(c) = SectionChars(c.goals) + SectionChars(c.facts)
      /\ SectionChars(c.goals) \in Nat /\ SectionChars(c.facts) \in Nat
  BY LongFacts, CharsType DEF LongTermChars
<1>2. /\ c.goals = <<>> <=> Len(c.goals) = 0
      /\ c.facts = <<>> <=> Len(c.facts) = 0
  BY <1>1, EmptySeq
<1>3. c = [goals |-> c.goals, facts |-> c.facts] BY DEF LongFiles
<1>4. CASE Len(c.goals) >= Len(c.facts)
  <2> DEFINE g == Tail(c.goals)
  <2>1. c.goals # <<>>
    <3>1. PICK a \in Nat, b \in Nat : a = Len(c.goals) /\ b = Len(c.facts) BY <1>1
    <3>2. a >= b BY <1>4, <3>1
    <3>3. a = 0 => b = 0 BY ONLY <3>2, NatSum, <3>1
    <3>4. c.goals = <<>> => c.facts = <<>> BY <1>2, <3>1, <3>3
    <3>5. c.goals = <<>> => LongTermItems(c) = 0
      <4>1. 0 + 0 = 0 OBVIOUS
      <4> QED BY <1>1, <1>2, <3>4, <4>1
    <3> QED BY <3>5
  <2>2. DropOldest(c) = [goals |-> g, facts |-> c.facts] BY <1>3, <1>4, <2>1 DEF DropOldest
  <2>3. /\ g \in Seq(Notes) /\ Len(g) = Len(c.goals) - 1 /\ ToSet(g) \subseteq ToSet(c.goals)
        /\ c.goals[1] \in ToSet(c.goals) /\ c.goals[1] \in Notes
    BY <1>1, <2>1, SectionHead
  <2>4. SectionChars(g) \in Nat /\ SectionChars(c.goals) = SectionChars(g) + c.goals[1].size
    BY <1>1, <2>1, CharsOfTail
  <2> HIDE DEF g
  <2>5. DropOldest(c) \in LongFiles /\ PartOf(DropOldest(c), c)
    BY <1>1, <2>2, <2>3 DEF LongFiles, PartOf
  <2>6. LongTermItems(DropOldest(c)) = LongTermItems(c) - 1
    <3>1. LongTermItems(DropOldest(c)) = Len(DropOldest(c).goals) + Len(DropOldest(c).facts)
      BY DEF LongTermItems
    <3>2. PICK a \in Nat, b \in Nat : a = Len(c.goals) /\ b = Len(c.facts) BY <1>1
    <3>3. LongTermItems(c) = a + b BY <1>1, <3>2
    <3>4. DropOldest(c).goals = g /\ DropOldest(c).facts = c.facts BY <2>2
    <3>5. Len(g) = a - 1 /\ Len(c.facts) = b BY <2>3, <3>2
    <3>6. LongTermItems(DropOldest(c)) = (a - 1) + (b) BY <3>1, <3>4, <3>5
    <3>7. (a - 1) + (b) = (a + b) - 1 OBVIOUS
    <3> QED BY <3>3, <3>6, <3>7
  <2>7. LongTermChars(c) = LongTermChars(DropOldest(c)) + c.goals[1].size
    <3>1. c.goals[1].size \in Nat BY <2>3 DEF Notes
    <3>2. LongTermChars(DropOldest(c)) = SectionChars(g) + SectionChars(c.facts) BY <2>2 DEF LongTermChars
    <3>3. PICK a \in Nat, b \in Nat, n \in Nat :
               a = SectionChars(g) /\ b = SectionChars(c.facts) /\ n = c.goals[1].size
      BY <1>1, <2>4, <3>1
    <3>4. LongTermChars(c) = (a + n) + b /\ LongTermChars(DropOldest(c)) = a + b BY <1>1, <2>4, <3>2, <3>3
    <3>5. (a + n) + b = (a + b) + n OBVIOUS
    <3> QED BY <3>3, <3>4, <3>5
  <2> QED BY <2>3, <2>5, <2>6, <2>7 DEF LongEntries
<1>5. CASE ~(Len(c.goals) >= Len(c.facts))
  <2> DEFINE f == Tail(c.facts)
  <2>1. c.facts # <<>> BY <1>1, <1>2, <1>5, NatSum
  <2>2. DropOldest(c) = [goals |-> c.goals, facts |-> f] BY <1>3, <1>5, <2>1 DEF DropOldest
  <2>3. /\ f \in Seq(Notes) /\ Len(f) = Len(c.facts) - 1 /\ ToSet(f) \subseteq ToSet(c.facts)
        /\ c.facts[1] \in ToSet(c.facts) /\ c.facts[1] \in Notes
    BY <1>1, <2>1, SectionHead
  <2>4. SectionChars(f) \in Nat /\ SectionChars(c.facts) = SectionChars(f) + c.facts[1].size
    BY <1>1, <2>1, CharsOfTail
  <2> HIDE DEF f
  <2>5. DropOldest(c) \in LongFiles /\ PartOf(DropOldest(c), c)
    BY <1>1, <2>2, <2>3 DEF LongFiles, PartOf
  <2>6. LongTermItems(DropOldest(c)) = LongTermItems(c) - 1
    <3>1. LongTermItems(DropOldest(c)) = Len(DropOldest(c).goals) + Len(DropOldest(c).facts)
      BY DEF LongTermItems
    <3>2. PICK a \in Nat, b \in Nat : a = Len(c.goals) /\ b = Len(c.facts) BY <1>1
    <3>3. LongTermItems(c) = a + b BY <1>1, <3>2
    <3>4. DropOldest(c).goals = c.goals /\ DropOldest(c).facts = f BY <2>2
    <3>5. Len(c.goals) = a /\ Len(f) = b - 1 BY <2>3, <3>2
    <3>6. LongTermItems(DropOldest(c)) = (a) + (b - 1) BY <3>1, <3>4, <3>5
    <3>7. (a) + (b - 1) = (a + b) - 1 OBVIOUS
    <3> QED BY <3>3, <3>6, <3>7
  <2>7. LongTermChars(c) = LongTermChars(DropOldest(c)) + c.facts[1].size
    <3>1. c.facts[1].size \in Nat BY <2>3 DEF Notes
    <3>2. LongTermChars(DropOldest(c)) = SectionChars(c.goals) + SectionChars(f) BY <2>2 DEF LongTermChars
    <3>3. PICK a \in Nat, b \in Nat, n \in Nat :
               a = SectionChars(c.goals) /\ b = SectionChars(f) /\ n = c.facts[1].size
      BY <1>1, <2>4, <3>1
    <3>4. LongTermChars(c) = a + (b + n) /\ LongTermChars(DropOldest(c)) = a + b BY <1>1, <2>4, <3>2, <3>3
    <3>5. a + (b + n) = (a + b) + n OBVIOUS
    <3> QED BY <3>3, <3>4, <3>5
  <2> QED BY <2>3, <2>5, <2>6, <2>7 DEF LongEntries
<1> QED BY <1>4, <1>5

(* Cut to the limits: entries go until they are met, and not one more.     *)
Within(d) == LongTermItems(d) <= MaxItems /\ LongTermChars(d) <= MaxChars
Shorter(d, c) ==
  LongTermItems(d) < LongTermItems(c) =>
    LongTermItems(d) >= MaxItems \/ \E x \in LongEntries(c) : LongTermChars(d) + x.size > MaxChars
CutOf(c) ==
  {d \in LongFiles : PartOf(d, c) /\ LongTermItems(d) <= LongTermItems(c) /\ Shorter(d, c)}
CutOnce(d) ==
  IF LongTermItems(d) > MaxItems \/ LongTermChars(d) > MaxChars THEN DropOldest(d) ELSE d

LEMMA CutOnceIs ==
  ASSUME NEW d \in LongFiles
  PROVE  IF Within(d) THEN CutOnce(d) = d
         ELSE LongTermItems(d) # 0 /\ CutOnce(d) = DropOldest(d)
<1>1. LongTermItems(d) \in Nat /\ LongTermChars(d) \in Nat /\ (LongTermItems(d) = 0 => LongTermChars(d) = 0)
  BY LongFacts
<1> QED BY <1>1, MemoryAssumption DEF Within, CutOnce

LEMMA CutFurther ==
  ASSUME NEW c \in LongFiles, NEW d \in CutOf(c)
  PROVE  CutOnce(d) \in CutOf(c)
<1>1. d \in LongFiles /\ PartOf(d, c) /\ LongTermItems(d) <= LongTermItems(c) BY DEF CutOf
<1>2. CASE Within(d) BY <1>1, <1>2, CutOnceIs
<1>3. CASE ~Within(d)
  <2> DEFINE e == DropOldest(d)
  <2>1. CutOnce(d) = e /\ LongTermItems(d) # 0 BY <1>1, <1>3, CutOnceIs
  <2>2. /\ e \in LongFiles /\ PartOf(e, d) /\ LongTermItems(e) = LongTermItems(d) - 1
        /\ \E x \in LongEntries(d) : LongTermChars(d) = LongTermChars(e) + x.size
    BY <1>1, <2>1, DroppedIs
  <2> HIDE DEF e
  <2>3. PICK n \in Nat, m \in Nat, k \in Nat :
          n = LongTermItems(c) /\ m = LongTermItems(d) /\ k = LongTermChars(d)
    BY <1>1, LongFacts
  <2>4. LongTermItems(e) = m - 1 /\ m # 0 /\ m <= n BY <1>1, <2>1, <2>2, <2>3
  <2>5. PartOf(e, c) /\ LongEntries(d) \subseteq LongEntries(c)
    BY <1>1, <2>2 DEF PartOf, LongEntries
  <2>6. LongTermItems(e) <= LongTermItems(c) BY <2>3, <2>4
  <2>7. CASE m > MaxItems
    <3>1. LongTermItems(e) >= MaxItems BY <2>3, <2>4, <2>7, MemoryAssumption
    <3> QED BY <2>1, <2>2, <2>5, <2>6, <3>1 DEF CutOf, Shorter
  <2>8. CASE ~(m > MaxItems)
    <3>1. k > MaxChars BY <1>3, <2>3, <2>8, MemoryAssumption DEF Within
    <3>2. PICK x \in LongEntries(c) : k = LongTermChars(e) + x.size BY <2>2, <2>3, <2>5
    <3>3. LongTermChars(e) + x.size > MaxChars BY <3>1, <3>2
    <3> QED BY <2>1, <2>2, <2>5, <2>6, <3>3 DEF CutOf, Shorter
  <2> QED BY <2>7, <2>8
<1> QED BY <1>2, <1>3

LEMMA EnforcedIs ==
  ASSUME NEW c \in LongFiles
  PROVE  LET d == EnforceLongTermLimits(c, MaxItems, MaxChars)
         IN  d \in CutOf(c) /\ Within(d)
<1> DEFINE S == CutOf(c)
           n == LongTermItems(c)
           xs == [i \in 1..n |-> i]
           Then(out, x) == IF LongTermItems(out) > MaxItems \/ LongTermChars(out) > MaxChars
                           THEN DropOldest(out) ELSE out
           step == [d \in (1..n) \X S |-> Then(d[2], xs[d[1]])]
           Fits(F) == F = [s \in SUBSET (DOMAIN xs) |->
                             IF s = {} THEN c ELSE Then(F[s \ {Max(s)}], xs[Max(s)])]
           G == CHOOSE F : Fits(F)
<1>1. n \in Nat /\ DOMAIN xs = 1..n BY LongFacts
<1>2. EnforceLongTermLimits(c, MaxItems, MaxChars) = G[DOMAIN xs]
  BY DEF EnforceLongTermLimits, FoldLeft, MapThenFoldSet, Max
<1> HIDE DEF n
<1>3. \A d, x : Then(d, x) = CutOnce(d) BY DEF CutOnce
<1>4. c \in S BY <1>1 DEF CutOf, PartOf, Shorter, n
<1> HIDE DEF Then, xs
<1>5. step \in [(1..n) \X S -> S] /\ \A i \in 1..n, d \in S : step[<<i, d>>] = CutOnce(d)
  <2>1. \A d \in S : CutOnce(d) \in S BY CutFurther
  <2> HIDE DEF S
  <2> QED BY <1>3, <2>1
<1>6. ASSUME NEW F, NEW s \in SUBSET (1..n), s # {}, F[s \ {Max(s)}] \in S
      PROVE  Then(F[s \ {Max(s)}], xs[Max(s)]) = step[<<Max(s), F[s \ {Max(s)}]>>]
  <2>1. Max(s) \in 1..n BY <1>1, <1>6, Highest
  <2> QED BY <1>3, <1>5, <1>6, <2>1
<1> HIDE DEF step, S
<1>8. PICK F : IsFold(F, n, S, c, step) BY <1>1, <1>4, <1>5, FoldExists
<1>9. Fits(F) BY <1>1, <1>6, <1>8 DEF IsFold
<1>10. Fits(G)
  <2> HIDE DEF Fits
  <2> QED BY <1>9
<1> HIDE DEF G
<1>11. FoldsLike(G, n, S, c, step)
  <2>1. G[{}] = c BY <1>1, <1>10
  <2>2. \A s \in SUBSET (1..n) : s # {} /\ G[s \ {Max(s)}] \in S =>
          G[s] = step[<<Max(s), G[s \ {Max(s)}]>>]
    BY <1>1, <1>6, <1>10
  <2> QED BY <2>1, <2>2 DEF FoldsLike
<1>12. PICK H : FoldSteps(H, n, S, c, step, G[1..n])
  BY <1>1, <1>4, <1>5, <1>11, FoldRuns
<1>13. /\ H[0] = c /\ H[n] = G[1..n] /\ \A i \in 0..n : H[i] \in S /\ H[i] \in LongFiles
       /\ \A i \in 1..n : H[i] = CutOnce(H[i - 1])
  <2>1. H[0] = c /\ H[n] = G[1..n] /\ \A i \in 0..n : H[i] \in S BY <1>12 DEF FoldSteps
  <2>2. ASSUME NEW i \in 1..n PROVE H[i] = CutOnce(H[i - 1])
    <3>1. i - 1 \in 0..n BY <1>1
    <3> QED BY <1>5, <1>12, <2>1, <3>1 DEF FoldSteps
  <2> QED BY <2>1, <2>2 DEF S, CutOf
<1> DEFINE P == {i \in 0..n : Within(H[i]) \/ LongTermItems(H[i]) = n - i}
<1>14. 0 \in P BY <1>1, <1>13 DEF n
<1>15. ASSUME NEW i \in 1..n, i - 1 \in P PROVE i \in P
  <2>1. i \in 0..n /\ i - 1 \in 0..n /\ H[i - 1] \in LongFiles /\ H[i] = CutOnce(H[i - 1])
    BY <1>1, <1>13
  <2>2. CASE Within(H[i - 1]) BY <2>1, <2>2, CutOnceIs
  <2>3. CASE ~Within(H[i - 1])
    <3>1. LongTermItems(H[i]) = LongTermItems(H[i - 1]) - 1 BY <2>1, <2>3, CutOnceIs, DroppedIs
    <3>2. LongTermItems(H[i - 1]) = n - (i - 1) BY <1>15, <2>3
    <3>3. (n - (i - 1)) - 1 = n - i BY <1>1
    <3> QED BY <2>1, <3>1, <3>2, <3>3
  <2> QED BY <2>2, <2>3
<1> HIDE DEF P
<1>16. 0..n \subseteq P BY <1>1, <1>14, <1>15, Induct
<1>17. n \in P /\ H[n] \in LongFiles /\ H[n] \in S BY <1>1, <1>13, <1>16
<1>18. Within(H[n])
  <2>1. CASE LongTermItems(H[n]) = n - n
    <3>1. LongTermItems(H[n]) = 0 BY <1>1, <2>1
    <3>2. LongTermChars(H[n]) = 0 BY <1>17, <3>1, LongFacts
    <3> QED BY <3>1, <3>2, MemoryAssumption DEF Within
  <2> QED BY <1>17, <2>1 DEF P
<1> QED BY <1>1, <1>2, <1>13, <1>17, <1>18 DEF S

(* What is promoted and merged.                                            *)
LEMMA NothingLongIs == NothingLong \in LongFiles
BY NoEntries DEF NothingLong, LongFiles

LEMMA OnePromoted ==
  ASSUME NEW g \in Seq(Notes), NEW f \in Seq(Notes)
  PROVE  LimitPromoteToOne([goals |-> g, facts |-> f]) \in LongFiles
<1>1. \A xs \in Seq(Notes) : xs # <<>> => <<Head(xs)>> \in Seq(Notes)
  <2> SUFFICES ASSUME NEW xs \in Seq(Notes), xs # <<>> PROVE <<Head(xs)>> \in Seq(Notes)
    OBVIOUS
  <2>1. Head(xs) \in Notes BY HeadTailProperties
  <2> QED BY <2>1
<1>2. <<>> \in Seq(Notes) BY NoEntries
<1> QED BY <1>1, <1>2 DEF LimitPromoteToOne, LongFiles

LEMMA ParsedLongIs ==
  ASSUME NEW c \in LongFiles
  PROVE  /\ ParsedLong(c) \in LongFiles
         /\ Different(ParsedLong(c).goals) /\ Different(ParsedLong(c).facts)
<1>1. c.goals \in Seq(Notes) /\ c.facts \in Seq(Notes) BY DEF LongFiles
<1> DEFINE g == NormalizeEntries(c.goals)
           f == NormalizeEntries(c.facts)
<1>2. g \in Seq(Notes) /\ Different(g) /\ f \in Seq(Notes) /\ Different(f) BY <1>1, NormalizedEntries
<1>3. ParsedLong(c) = [goals |-> g, facts |-> f] BY DEF ParsedLong
<1> HIDE DEF g, f
<1> QED BY <1>2, <1>3 DEF LongFiles

LEMMA MergedLongIs ==
  ASSUME NEW r \in LongFiles, Different(r.goals), Different(r.facts), NEW p \in LongFiles, NEW day \in Nat
  PROVE  LET m == MergeLongTerm(r, p, day)
         IN  m \in LongFiles /\ DatesKept(r.goals, p.goals, m.goals) /\ DatesKept(r.facts, p.facts, m.facts)
<1> DEFINE m == MergeLongTerm(r, p, day)
<1>1. /\ r.goals \in Seq(Notes) /\ r.facts \in Seq(Notes)
      /\ p.goals \in Seq(Notes) /\ p.facts \in Seq(Notes)
  BY DEF LongFiles
<1>2. ASSUME NEW xs \in Seq(Notes), Different(xs), NEW ys \in Seq(Notes)
      PROVE  LET n == MergeLongTermKV(xs, NormalizeEntries(ys), day)
             IN  n \in Seq(Notes) /\ DatesKept(xs, ys, n)
  <2> DEFINE zs == NormalizeEntries(ys)
             n == MergeLongTermKV(xs, zs, day)
  <2>1. zs \in Seq(Notes) /\ ToSet(zs) \subseteq ToSet(ys) BY NormalizedEntries
  <2> HIDE DEF zs
  <2>2. n \in Seq(Notes) /\ DatesKept(xs, zs, n) BY <1>2, <2>1, MergedKV
  <2> HIDE DEF n
  <2>3. DatesKept(xs, ys, n) BY <2>1, <2>2 DEF DatesKept
  <2> QED BY <2>2, <2>3 DEF n, zs
<1> DEFINE g == MergeLongTermKV(r.goals, NormalizeEntries(p.goals), day)
           f == MergeLongTermKV(r.facts, NormalizeEntries(p.facts), day)
<1>3. g \in Seq(Notes) /\ DatesKept(r.goals, p.goals, g) /\ f \in Seq(Notes) /\ DatesKept(r.facts, p.facts, f)
  BY <1>1, <1>2
<1>4. m = [goals |-> g, facts |-> f] BY DEF MergeLongTerm
<1> HIDE DEF g, f, m
<1>5. m \in LongFiles /\ DatesKept(r.goals, p.goals, m.goals) /\ DatesKept(r.facts, p.facts, m.facts)
  BY <1>3, <1>4 DEF LongFiles
<1> QED BY <1>5 DEF m

(* What a promotion leaves.                                                *)
PromotedFrom(d, r, p) ==
  /\ Within(d) /\ DatesKept(r.goals, p.goals, d.goals) /\ DatesKept(r.facts, p.facts, d.facts)
  /\ \E day \in Days : Shorter(d, MergeLongTerm(r, p, day))

LEMMA PromotedIs ==
  ASSUME NEW r \in LongFiles, Different(r.goals), Different(r.facts), NEW p \in LongFiles, NEW day \in Days
  PROVE  LET d == EnforceLongTermLimits(MergeLongTerm(r, p, day), MaxItems, MaxChars)
         IN  d \in LongFiles /\ PromotedFrom(d, r, p)
<1> DEFINE m == MergeLongTerm(r, p, day)
           d == EnforceLongTermLimits(m, MaxItems, MaxChars)
<1>1. day \in Nat BY DEF Days
<1>2. m \in LongFiles /\ DatesKept(r.goals, p.goals, m.goals) /\ DatesKept(r.facts, p.facts, m.facts)
  BY <1>1, MergedLongIs
<1> HIDE DEF m
<1>3. d \in LongFiles /\ PartOf(d, m) /\ Shorter(d, m) /\ Within(d) BY <1>2, EnforcedIs DEF CutOf
<1> HIDE DEF d
<1>4. DatesKept(r.goals, p.goals, d.goals) /\ DatesKept(r.facts, p.facts, d.facts)
  BY <1>2, <1>3 DEF PartOf, DatesKept
<1>5. PromotedFrom(d, r, p) BY <1>3, <1>4 DEF PromotedFrom, m
<1> QED BY <1>3, <1>5 DEF d, m

-----------------------------------------------------------------------------
(* The inductive invariant.  A file that is whole has the ratios of its    *)
(* lists; an update that has read a file and is not outdated has in its    *)
(* hands every text recorded there, unless another is filling it.          *)
Pair(f) == f.tasks \in Seq(Tasks) /\ f.follows \in Seq(Tasks)
FileTexts(f) == Texts(f.tasks) \cup Texts(f.follows)
Filed(f, c) ==
  /\ DOMAIN f = {"owner", "ratios", "tasks", "follows"}
  /\ Pair(f) /\ f.owner \in {c, None}
  /\ f.owner = None => f.tasks = <<>> /\ f.follows = <<>>
Coherent(f, c) ==
  f.owner = c /\ f.ratios = <<TaskRatio(f.tasks), TaskRatio(f.follows)>>

Steps == {"idle", "load", "draft", "truncate", "fill", "sync", "cut", "keep"}
Holding == {"draft", "truncate", "fill"}
IsOwn(u) == "next" \in DOMAIN u
DraftOK(w, u) ==
  /\ DOMAIN u = {"pc", "path", "stale", "had", "base"}
  /\ u.path[2] = Chat(w) /\ Pair(u.base)
OwnOK(w, u) ==
  /\ DOMAIN u = {"pc", "path", "stale", "promote", "adds", "drops", "next"}
  /\ u.promote \in LongFiles /\ u.path[2] = Chat(w) /\ Filed(u.next, Chat(w)) /\ Coherent(u.next, Chat(w))
CopyOK(u) ==
  /\ DOMAIN u = {"pc", "promote", "done", "todo", "path", "stale", "copy"}
  /\ u.promote \in LongFiles /\ u.todo \subseteq Paths
  /\ Filed(u.copy, u.path[2]) /\ Coherent(u.copy, u.path[2])
SyncOK(u) ==
  DOMAIN u = {"pc", "promote", "done", "todo"} /\ u.promote \in LongFiles /\ u.todo \subseteq Paths
LongOK(u) ==
  /\ DOMAIN u = {"pc", "read", "promote", "long"}
  /\ u.long \in LongFiles /\ PromotedFrom(u.long, u.read, u.promote)
UpdateOK(w, u) ==
  /\ u.pc \in Steps
  /\ u.pc \in Holding => u.path \in Paths /\ u.stale \in BOOLEAN
  /\ u.pc = "draft" => DraftOK(w, u)
  /\ u.pc \in {"truncate", "fill"} => IF IsOwn(u) THEN OwnOK(w, u) ELSE CopyOK(u)
  /\ u.pc = "sync" => SyncOK(u)
  /\ u.pc \in {"cut", "keep"} => LongOK(u)

(* What the update will leave in its file has the texts K.                 *)
Covers(u, K) ==
  IF u.pc = "draft" THEN K \subseteq FileTexts(u.base)
  ELSE IF IsOwn(u) THEN (K \cup u.adds) \ u.drops \subseteq FileTexts(u.next)
  ELSE K \subseteq FileTexts(u.copy)

Fills(v, p) == do[v].pc = "fill" /\ do[v].path = p
HasTexts(p) == known[p] \subseteq (IF p \in DOMAIN files THEN FileTexts(files[p]) ELSE {})
UpToDate(w, p) ==
  do[w].pc \in Holding /\ do[w].path = p /\ ~do[w].stale =>
     (\E v \in Workers \ {w} : Fills(v, p)) \/ Covers(do[w], known[p])

MemoryShape ==
  /\ today \in Days /\ longs \in [Subjects -> LongFiles]
  /\ do = [w \in Workers |-> do[w]] /\ known = [p \in Paths |-> known[p]]
  /\ DOMAIN files \subseteq Paths /\ \A p \in DOMAIN files : Filed(files[p], p[2])
  /\ \A w \in Workers : UpdateOK(w, do[w])
RatiosRight ==
  \A p \in DOMAIN files : \/ p \in torn \/ (\E v \in Workers : Fills(v, p))
                          \/ Coherent(files[p], p[2])
TextsKept ==
  \A p \in Paths : \/ p \in raced \cup torn
                   \/ /\ (\E v \in Workers : Fills(v, p)) \/ HasTexts(p)
                      /\ \A w \in Workers : UpToDate(w, p)
MemoryInv == MemoryShape /\ RatiosRight /\ TextsKept

-----------------------------------------------------------------------------
(* A step in which some updates move on, none of them to filling, and the  *)
(* files change only where a filling broke off.                            *)
Moves(v) ==
  /\ UpdateOK(v, do'[v]) /\ do'[v].pc # "fill"
  /\ do[v].pc = "fill" => do[v].path \in torn'
  /\ \A p \in Paths \ (raced \cup torn) :
       do'[v].pc \in Holding /\ do'[v].path = p /\ ~do'[v].stale =>
         (\E x \in Workers \ {v} : Fills(x, p)) \/ Covers(do'[v], known[p])

LEMMA MovesKeep ==
  ASSUME MemoryInv, today' \in Days, longs' = longs \/ longs' \in [Subjects -> LongFiles],
         do' = [w \in Workers |-> do'[w]],
         \A v \in Workers : do'[v] = do[v] \/ Moves(v),
         known' = known, raced' = raced, torn \subseteq torn',
         DOMAIN files' \subseteq Paths, \A p \in DOMAIN files' : Filed(files'[p], p[2]),
         \A p \in Paths \ torn' : /\ p \in DOMAIN files' <=> p \in DOMAIN files
                                  /\ p \in DOMAIN files => files'[p] = files[p]
  PROVE  MemoryInv'
<1>1. MemoryShape'
  BY DEF MemoryInv, MemoryShape, Moves
<1>2. ASSUME NEW v \in Workers, NEW p \in Paths, Fills(v, p), p \notin torn' PROVE Fills(v, p)'
  BY <1>2 DEF Fills, Moves
<1>3. RatiosRight'
  <2> SUFFICES ASSUME NEW p \in DOMAIN files', p \notin torn', ~Coherent(files'[p], p[2])
               PROVE  \E v \in Workers : Fills(v, p)'
    BY DEF RatiosRight
  <2>1. p \in Paths /\ p \in DOMAIN files /\ files'[p] = files[p] /\ p \notin torn OBVIOUS
  <2> QED BY <1>2, <2>1 DEF MemoryInv, RatiosRight
<1>4. TextsKept'
  <2> SUFFICES ASSUME NEW p \in Paths, p \notin raced \cup torn'
               PROVE  /\ (\E v \in Workers : Fills(v, p)') \/ HasTexts(p)'
                      /\ \A w \in Workers : UpToDate(w, p)'
    BY DEF TextsKept
  <2>1. /\ p \notin raced \cup torn
        /\ (\E v \in Workers : Fills(v, p)) \/ HasTexts(p)
        /\ \A w \in Workers : UpToDate(w, p)
    BY DEF MemoryInv, TextsKept
  <2>2. HasTexts(p)' <=> HasTexts(p) BY DEF HasTexts
  <2>3. ASSUME NEW w \in Workers PROVE UpToDate(w, p)'
    <3>1. CASE do'[w] = do[w] BY <1>2, <2>1, <3>1 DEF UpToDate
    <3>2. CASE Moves(w) BY <1>2, <2>1, <3>2 DEF UpToDate, Moves
    <3> QED BY <3>1, <3>2
  <2> QED BY <1>2, <2>1, <2>2, <2>3
<1> QED BY <1>1, <1>3, <1>4 DEF MemoryInv

(* One update moves on and the files stay as they are.                     *)
LEMMA OneMoves ==
  ASSUME MemoryInv, NEW w \in Workers, NEW u, do' = [do EXCEPT ![w] = u],
         UpdateOK(w, u), u.pc # "fill", do[w].pc = "fill" => do[w].path \in torn',
         \A p \in Paths \ (raced \cup torn) :
           u.pc \in Holding /\ u.path = p /\ ~u.stale =>
             (\E x \in Workers \ {w} : Fills(x, p)) \/ Covers(u, known[p]),
         files' = files, known' = known, raced' = raced, torn \subseteq torn', today' = today,
         longs' = longs \/ longs' \in [Subjects -> LongFiles]
  PROVE  MemoryInv'
<1>1. do = [v \in Workers |-> do[v]] BY DEF MemoryInv, MemoryShape
<1>2. do' = [v \in Workers |-> do'[v]] /\ do'[w] = u /\ \A v \in Workers \ {w} : do'[v] = do[v]
  BY <1>1
<1>3. Moves(w) BY <1>2 DEF Moves
<1>4. today' \in Days /\ DOMAIN files' \subseteq Paths /\ \A p \in DOMAIN files' : Filed(files'[p], p[2])
  BY DEF MemoryInv, MemoryShape
<1> QED BY <1>2, <1>3, <1>4, MovesKeep

-----------------------------------------------------------------------------
(* What is read, merged and written.                                       *)
LEMMA ParsedIs ==
  ASSUME MemoryShape, NEW p \in Paths
  PROVE  /\ Filed(Parsed(p), p[2])
         /\ FileTexts(Parsed(p)) = IF p \in DOMAIN files THEN FileTexts(files[p]) ELSE {}
         /\ \A t \in Items(Parsed(p)) : p \in DOMAIN files
<1>1. CASE p \notin DOMAIN files
  BY <1>1, NoTexts DEF Parsed, Exists, Truncated, Filed, Pair, FileTexts, Items
<1>2. CASE p \in DOMAIN files
  <2> DEFINE f == files[p]
             g == Parsed(p)
  <2>1. Filed(f, p[2]) BY <1>2 DEF MemoryShape
  <2>2. g = [f EXCEPT !.tasks = NormalizeTasks(f.tasks), !.follows = NormalizeTasks(f.follows)]
    BY <1>2 DEF Parsed, Exists
  <2> HIDE DEF f, g
  <2>3. /\ DOMAIN g = {"owner", "ratios", "tasks", "follows"} /\ g.owner = f.owner
        /\ g.tasks = NormalizeTasks(f.tasks) /\ g.follows = NormalizeTasks(f.follows)
    BY <2>1, <2>2 DEF Filed
  <2>4. /\ g.tasks \in Seq(Tasks) /\ Texts(g.tasks) = Texts(f.tasks)
        /\ g.follows \in Seq(Tasks) /\ Texts(g.follows) = Texts(f.follows)
    BY <2>1, <2>3, FirstOfEachAdds DEF Filed, Pair, NormalizeTasks
  <2>5. FirstOfEach("text", <<>>) = <<>> BY NothingFirst
  <2>6. Filed(g, p[2]) BY <2>1, <2>3, <2>4, <2>5 DEF Filed, Pair, NormalizeTasks
  <2>7. FileTexts(g) = FileTexts(f) BY <2>4 DEF FileTexts
  <2> QED BY <1>2, <2>6, <2>7 DEF f, g
<1> QED BY <1>1, <1>2

LEMMA WrittenIs ==
  ASSUME NEW c \in Sessions, NEW x \in Seq(Tasks), NEW y \in Seq(Tasks)
  PROVE  /\ Filed(Written(c, x, y), c) /\ Coherent(Written(c, x, y), c)
         /\ FileTexts(Written(c, x, y)) = Texts(x) \cup Texts(y)
BY MemoryAssumption DEF Written, Filed, Coherent, Pair, FileTexts

LEMMA DraftIs ==
  ASSUME NEW d \in Drafts
  PROVE  d.tasks \in Seq(Tasks) /\ d.follows \in Seq(Tasks)
BY TaskListsAssumption DEF GivenLists

LEMMA AnswerIs == \A a \in Answers : a \in Seq(Tasks)
BY TaskListsAssumption DEF GivenLists

LEMMA MergedHas ==
  ASSUME NEW w \in Workers, Pair(do[w].base), NEW draft \in Drafts, NEW m \in Merged(w, draft), NEW K,
         K \subseteq FileTexts(do[w].base)
  PROVE  /\ Filed(m.file, Chat(w)) /\ Coherent(m.file, Chat(w))
         /\ (K \cup Texts(draft.tasks) \cup Texts(draft.follows)) \ m.drops \subseteq FileTexts(m.file)
<1> DEFINE base == do[w].base
           Goal(r) == /\ Filed(r.file, Chat(w)) /\ Coherent(r.file, Chat(w))
                      /\ (K \cup Texts(draft.tasks) \cup Texts(draft.follows)) \ r.drops
                           \subseteq FileTexts(r.file)
           Deduped(list) == {list} \cup (IF list = <<>> THEN {} ELSE Answers \ {<<>>})
           ByModel(t, f, match) ==
             LET tasks   == Repaired(base.tasks, draft.tasks, t, match)
                 follows == Repaired(base.follows, draft.follows, f, <<>>)
             IN  {[file |-> Written(Chat(w), x, y),
                   drops |-> (Texts(tasks) \cup Texts(follows)) \ (Texts(x) \cup Texts(y))] :
                     x \in Deduped(tasks), y \in Deduped(follows)}
           ruled == [file |-> Written(Chat(w),
                               MergeTasks(base.tasks, NormalizeTasks(draft.tasks)),
                               MergeTasks(base.follows, NormalizeTasks(draft.follows))),
                     drops |-> {}]
<1>1. /\ base.tasks \in Seq(Tasks) /\ base.follows \in Seq(Tasks)
      /\ draft.tasks \in Seq(Tasks) /\ draft.follows \in Seq(Tasks)
      /\ Chat(w) \in Sessions
  BY DraftIs DEF Pair, Workers, Chat
<1>2. K \subseteq Texts(base.tasks) \cup Texts(base.follows) BY DEF FileTexts
<1>3. \/ m = ruled
      \/ \E t \in Answers, f \in Answers, match \in Matches : m \in ByModel(t, f, match)
  BY DEF Merged
<1>4. Goal(ruled)
  <2> DEFINE x == MergeTasks(base.tasks, NormalizeTasks(draft.tasks))
             y == MergeTasks(base.follows, NormalizeTasks(draft.follows))
  <2>1. /\ x \in Seq(Tasks) /\ Texts(x) = Texts(base.tasks) \cup Texts(draft.tasks)
        /\ y \in Seq(Tasks) /\ Texts(y) = Texts(base.follows) \cup Texts(draft.follows)
    BY <1>1, FirstOfEachAdds, MergeAdds DEF NormalizeTasks, MergeTasks
  <2>2. ruled.file = Written(Chat(w), x, y) /\ ruled.drops = {} OBVIOUS
  <2> HIDE DEF x, y, ruled
  <2> QED BY <1>1, <1>2, <2>1, <2>2, WrittenIs
<1>5. ASSUME NEW t \in Answers, NEW f \in Answers, NEW match, m \in ByModel(t, f, match)
      PROVE  Goal(m)
  <2> DEFINE tasks   == Repaired(base.tasks, draft.tasks, t, match)
             follows == Repaired(base.follows, draft.follows, f, <<>>)
  <2>1. /\ tasks \in Seq(Tasks) /\ Texts(base.tasks) \cup Texts(draft.tasks) \subseteq Texts(tasks)
        /\ follows \in Seq(Tasks) /\ Texts(base.follows) \cup Texts(draft.follows) \subseteq Texts(follows)
    BY <1>1, AnswerIs, RepairedHas
  <2> HIDE DEF tasks, follows
  <2>2. PICK x \in Deduped(tasks), y \in Deduped(follows) :
          m = [file |-> Written(Chat(w), x, y),
               drops |-> (Texts(tasks) \cup Texts(follows)) \ (Texts(x) \cup Texts(y))]
    BY <1>5 DEF tasks, follows
  <2>3. x \in Seq(Tasks) /\ y \in Seq(Tasks) BY <2>1, AnswerIs
  <2>4. /\ m.file = Written(Chat(w), x, y)
        /\ m.drops = (Texts(tasks) \cup Texts(follows)) \ (Texts(x) \cup Texts(y))
    BY <2>2
  <2> HIDE DEF base
  <2> QED BY <1>1, <1>2, <2>1, <2>3, <2>4, WrittenIs
<1> QED BY <1>3, <1>4, <1>5

LEMMA FinishedIs ==
  ASSUME NEW file, NEW c \in Sessions, NEW done, Filed(file, c), file.owner = c
  PROVE  /\ Filed(Finished(file, done), c) /\ Coherent(Finished(file, done), c)
         /\ FileTexts(Finished(file, done)) = FileTexts(file)
<1> DEFINE x == FinishTasks(file.tasks, done)
           y == FinishTasks(file.follows, done)
<1>1. /\ x \in Seq(Tasks) /\ Texts(x) = Texts(file.tasks)
      /\ y \in Seq(Tasks) /\ Texts(y) = Texts(file.follows)
  BY FinishKeepsTexts DEF Filed, Pair
<1>2. Finished(file, done) = [Written(c, x, y) EXCEPT !.owner = c] BY DEF Finished
<1>3. [Written(c, x, y) EXCEPT !.owner = c] = Written(c, x, y) BY DEF Written
<1> HIDE DEF x, y
<1> QED BY <1>1, <1>2, <1>3, WrittenIs DEF FileTexts

-----------------------------------------------------------------------------
(* Every step keeps the invariant.                                         *)
LEMMA WorkerFacts ==
  ASSUME MemoryShape, NEW w \in Workers
  PROVE  Chat(w) \in Sessions /\ <<today, Chat(w)>> \in Paths /\ UpdateOK(w, do[w])
BY DEF MemoryShape, Workers, Chat, Paths

(* A file that is read now has every text recorded there, unless another   *)
(* update is filling it.                                                   *)
LEMMA ReadNow ==
  ASSUME MemoryInv, NEW p \in Paths \ (raced \cup torn), NEW w \in Workers, do[w].pc # "fill"
  PROVE  (\E x \in Workers \ {w} : Fills(x, p)) \/ known[p] \subseteq FileTexts(Parsed(p))
<1>1. (\E v \in Workers : Fills(v, p)) \/ HasTexts(p) BY DEF MemoryInv, TextsKept
<1>2. ~Fills(w, p) BY DEF Fills
<1>3. FileTexts(Parsed(p)) = IF p \in DOMAIN files THEN FileTexts(files[p]) ELSE {}
  BY ParsedIs DEF MemoryInv
<1> QED BY <1>1, <1>2, <1>3 DEF HasTexts

LEMMA LoadedIs ==
  ASSUME MemoryInv, NEW w \in Workers, do[w].pc # "fill"
  PROVE  LET u == Loaded(w)
         IN  /\ UpdateOK(w, u) /\ u.pc = "draft"
             /\ \A p \in Paths \ (raced \cup torn) :
                  u.path = p => (\E x \in Workers \ {w} : Fills(x, p)) \/ Covers(u, known[p])
<1> DEFINE u == Loaded(w)
           q == <<today, Chat(w)>>
<1>1. q \in Paths /\ q[2] = Chat(w) BY WorkerFacts DEF MemoryInv
<1>2. /\ DOMAIN u = {"pc", "path", "stale", "had", "base"} /\ u.pc = "draft" /\ u.path = q
      /\ u.stale = FALSE /\ u.base = Parsed(q)
  BY DEF Loaded
<1> HIDE DEF u, q
<1>3. Pair(Parsed(q)) BY <1>1, ParsedIs DEF MemoryInv, Filed
<1>4. UpdateOK(w, u) BY <1>1, <1>2, <1>3 DEF UpdateOK, DraftOK, Steps
<1>5. ASSUME NEW p \in Paths \ (raced \cup torn), u.path = p
      PROVE  (\E x \in Workers \ {w} : Fills(x, p)) \/ Covers(u, known[p])
  BY <1>2, <1>5, ReadNow DEF Covers
<1> QED BY <1>2, <1>4, <1>5 DEF u

LEMMA StartTurnKeeps ==
  ASSUME MemoryInv, NEW c \in Sessions, StartTurn(c) PROVE MemoryInv'
<1> DEFINE w == <<c, "turn">>
<1>1. w \in Workers /\ do[w].pc # "fill" /\ do' = [do EXCEPT ![w] = Loaded(w)]
  BY DEF Workers, StartTurn, Idle, Move
<1>2. UNCHANGED <<files, longs, today, known, raced, torn>> BY DEF StartTurn
<1> HIDE DEF w
<1> QED BY <1>1, <1>2, LoadedIs, OneMoves

LEMMA RetryKeeps ==
  ASSUME MemoryInv, NEW w \in Workers, Retry(w) PROVE MemoryInv'
<1>1. do[w].pc # "fill" /\ do' = [do EXCEPT ![w] = Loaded(w)]
  BY DEF Retry, At, Move
<1>2. UNCHANGED <<files, longs, today, known, raced, torn>> BY DEF Retry, OnlyMoves
<1> QED BY <1>1, <1>2, LoadedIs, OneMoves

LEMMA DraftUpdateKeeps ==
  ASSUME MemoryInv, NEW w \in Workers, DraftUpdate(w) PROVE MemoryInv'
<1>1. PICK draft \in Drafts, explicit \in BOOLEAN : \E merged \in Merged(w, draft) :
         Move(w, [pc |-> "truncate", path |-> do[w].path, stale |-> do[w].stale,
                  promote |-> IF explicit
                              THEN LimitPromoteToOne([goals |-> draft.goals, facts |-> draft.facts])
                              ELSE NothingLong,
                  adds |-> Texts(draft.tasks) \cup Texts(draft.follows),
                  drops |-> merged.drops, next |-> merged.file])
  BY DEF DraftUpdate
<1> DEFINE promoted == IF explicit
                       THEN LimitPromoteToOne([goals |-> draft.goals, facts |-> draft.facts])
                       ELSE NothingLong
<1>2. PICK m \in Merged(w, draft) :
         Move(w, [pc |-> "truncate", path |-> do[w].path, stale |-> do[w].stale,
                  promote |-> promoted,
                  adds |-> Texts(draft.tasks) \cup Texts(draft.follows),
                  drops |-> m.drops, next |-> m.file])
  BY <1>1
<1>p. promoted \in LongFiles
  <2>1. draft.goals \in Seq(Notes) /\ draft.facts \in Seq(Notes)
    BY NotesAssumption DEF GivenSections
  <2> QED BY <2>1, OnePromoted, NothingLongIs
<1> HIDE DEF promoted
<1> DEFINE u == [pc |-> "truncate", path |-> do[w].path, stale |-> do[w].stale,
                 promote |-> promoted,
                 adds |-> Texts(draft.tasks) \cup Texts(draft.follows),
                 drops |-> m.drops, next |-> m.file]
<1>3. do[w].pc = "draft" /\ UNCHANGED <<files, longs, today, known, raced, torn>>
  BY DEF DraftUpdate, At, OnlyMoves
<1>4. /\ UpdateOK(w, do[w]) /\ DraftOK(w, do[w]) /\ do[w].path \in Paths /\ do[w].stale \in BOOLEAN
  BY <1>3, WorkerFacts DEF MemoryInv, UpdateOK, Holding
<1>5. /\ DOMAIN u = {"pc", "path", "stale", "promote", "adds", "drops", "next"}
      /\ u.pc = "truncate" /\ u.path = do[w].path /\ u.stale = do[w].stale /\ u.promote = promoted
      /\ u.adds = Texts(draft.tasks) \cup Texts(draft.follows) /\ u.drops = m.drops /\ u.next = m.file
  OBVIOUS
<1>6. do' = [do EXCEPT ![w] = u] BY <1>2 DEF Move
<1> HIDE DEF u
<1>7. Filed(m.file, Chat(w)) /\ Coherent(m.file, Chat(w))
  BY <1>4, MergedHas DEF DraftOK
<1>8. UpdateOK(w, u)
  BY <1>p, <1>4, <1>5, <1>7 DEF UpdateOK, OwnOK, DraftOK, IsOwn, Steps
<1>9. ASSUME NEW p \in Paths \ (raced \cup torn), u.path = p, ~u.stale
      PROVE  (\E x \in Workers \ {w} : Fills(x, p)) \/ Covers(u, known[p])
  <2>1. (\E x \in Workers \ {w} : Fills(x, p)) \/ Covers(do[w], known[p])
    BY <1>3, <1>5, <1>9 DEF MemoryInv, TextsKept, UpToDate, Holding
  <2>2. ASSUME known[p] \subseteq FileTexts(do[w].base)
        PROVE  (known[p] \cup u.adds) \ u.drops \subseteq FileTexts(u.next)
    <3>1. (known[p] \cup Texts(draft.tasks) \cup Texts(draft.follows)) \ m.drops \subseteq FileTexts(m.file)
      BY <1>4, <2>2, MergedHas DEF DraftOK
    <3> QED BY <1>5, <3>1
  <2> QED BY <1>3, <1>5, <2>1, <2>2 DEF Covers, IsOwn
<1> QED BY <1>3, <1>5, <1>6, <1>8, <1>9, OneMoves

LEMMA SyncReadKeeps ==
  ASSUME MemoryInv, NEW w \in Workers, SyncRead(w) PROVE MemoryInv'
<1>1. do[w].pc = "sync" /\ UNCHANGED <<files, longs, today, known, raced, torn>>
  BY DEF SyncRead, At, OnlyMoves
<1>2. UpdateOK(w, do[w]) /\ SyncOK(do[w]) BY <1>1, WorkerFacts DEF MemoryInv, UpdateOK
<1> DEFINE open(q) == {t.text : t \in {u \in Items(Parsed(q)) : ~u.done}}
<1>3. PICK p \in do[w].todo :
         IF open(p) \cap do[w].done = {}
         THEN Move(w, [do[w] EXCEPT !.todo = @ \ {p}])
         ELSE Move(w, [pc |-> "truncate", promote |-> do[w].promote, done |-> do[w].done,
                       todo |-> do[w].todo, path |-> p, stale |-> FALSE,
                       copy |-> Finished(Parsed(p), do[w].done)])
  BY DEF SyncRead
<1>4. p \in Paths BY <1>2 DEF SyncOK
<1>5. CASE open(p) \cap do[w].done = {}
  <2> DEFINE u == [do[w] EXCEPT !.todo = @ \ {p}]
  <2>1. do' = [do EXCEPT ![w] = u] BY <1>3, <1>5 DEF Move
  <2>2. SyncOK(u) /\ u.pc = "sync" BY <1>1, <1>2 DEF SyncOK
  <2> HIDE DEF u
  <2>3. UpdateOK(w, u) BY <2>2 DEF UpdateOK, Steps, Holding
  <2> QED BY <1>1, <2>1, <2>2, <2>3, OneMoves DEF Holding
<1>6. CASE open(p) \cap do[w].done # {}
  <2> DEFINE file == Parsed(p)
             copy == Finished(Parsed(p), do[w].done)
             u == [pc |-> "truncate", promote |-> do[w].promote, done |-> do[w].done,
                   todo |-> do[w].todo, path |-> p, stale |-> FALSE, copy |-> copy]
  <2>1. do' = [do EXCEPT ![w] = u] BY <1>3, <1>6 DEF Move
  <2>2. Items(file) # {} BY <1>6
  <2>3. Filed(file, p[2]) /\ p[2] \in Sessions BY <1>4, ParsedIs DEF MemoryInv, Paths
  <2>4. file.owner = p[2]
    <3> HIDE DEF file
    <3> QED BY <2>2, <2>3, NoTexts DEF Filed, Items
  <2>5. Filed(copy, p[2]) /\ Coherent(copy, p[2]) /\ FileTexts(copy) = FileTexts(file)
    BY <2>3, <2>4, FinishedIs
  <2> HIDE DEF copy
  <2>6. /\ DOMAIN u = {"pc", "promote", "done", "todo", "path", "stale", "copy"}
        /\ u.pc = "truncate" /\ u.path = p /\ u.stale = FALSE /\ u.copy = copy
        /\ u.todo = do[w].todo /\ u.promote = do[w].promote
    OBVIOUS
  <2> HIDE DEF u, file
  <2>7. UpdateOK(w, u) BY <1>2, <1>4, <2>5, <2>6 DEF UpdateOK, CopyOK, IsOwn, Steps, SyncOK
  <2>8. ASSUME NEW q \in Paths \ (raced \cup torn), u.path = q
        PROVE  (\E x \in Workers \ {w} : Fills(x, q)) \/ Covers(u, known[q])
    <3>1. (\E x \in Workers \ {w} : Fills(x, q)) \/ known[q] \subseteq FileTexts(Parsed(q))
      BY <1>1, ReadNow
    <3> QED BY <2>5, <2>6, <2>8, <3>1 DEF Covers, IsOwn, file
  <2> QED BY <1>1, <2>1, <2>6, <2>7, <2>8, OneMoves
<1> QED BY <1>5, <1>6

LEMMA SyncFailsKeeps ==
  ASSUME MemoryInv, NEW w \in Workers, SyncFails(w) PROVE MemoryInv'
<1> DEFINE u == [pc |-> "sync", promote |-> do[w].promote, done |-> {}, todo |-> {}]
<1>1. do' = [do EXCEPT ![w] = u] /\ UNCHANGED <<files, longs, today, known, raced>>
  BY DEF SyncFails, Move
<1>2. torn \subseteq torn' /\ (do[w].pc = "fill" => do[w].path \in torn') BY DEF SyncFails, At
<1>0. do[w].promote \in LongFiles
  <2>1. UpdateOK(w, do[w]) BY WorkerFacts DEF MemoryInv
  <2>2. CASE At(w, "sync") BY <2>1, <2>2 DEF At, UpdateOK, SyncOK
  <2>3. CASE (At(w, "truncate") \/ At(w, "fill")) /\ "copy" \in DOMAIN do[w]
    BY <2>1, <2>3 DEF At, UpdateOK, OwnOK, CopyOK
  <2> QED BY <2>2, <2>3 DEF SyncFails
<1>3. SyncOK(u) /\ u.pc = "sync" BY <1>0 DEF SyncOK
<1> HIDE DEF u
<1>4. UpdateOK(w, u) BY <1>3 DEF UpdateOK, Steps, Holding
<1> QED BY <1>1, <1>2, <1>3, <1>4, OneMoves DEF Holding

LEMMA PromoteKeeps ==
  ASSUME MemoryInv, NEW w \in Workers, Promote(w) PROVE MemoryInv'
<1> DEFINE s == SubjectOf[Chat(w)]
           p == do[w].promote
           r == ParsedLong(longs[s])
           d == EnforceLongTermLimits(MergeLongTerm(r, p, today), MaxItems, MaxChars)
           u == [pc |-> "cut", read |-> r, promote |-> p, long |-> d]
<1>1. do[w].pc = "sync" /\ UNCHANGED <<files, longs, today, known, raced, torn>>
  BY DEF Promote, At, OnlyMoves
<1>2. do' = [do EXCEPT ![w] = IdleUpdate] \/ do' = [do EXCEPT ![w] = u] BY DEF Promote, Move
<1>3. p \in LongFiles BY <1>1, WorkerFacts DEF MemoryInv, UpdateOK, SyncOK
<1>4. longs[s] \in LongFiles /\ today \in Days
  BY WorkerFacts, MemoryAssumption DEF MemoryInv, MemoryShape
<1>5. r \in LongFiles /\ Different(r.goals) /\ Different(r.facts) BY <1>4, ParsedLongIs
<1> HIDE DEF p, r
<1>6. d \in LongFiles /\ PromotedFrom(d, r, p) BY <1>3, <1>4, <1>5, PromotedIs
<1> HIDE DEF d
<1>7. LongOK(u) /\ u.pc = "cut" BY <1>6 DEF LongOK
<1> HIDE DEF u
<1>8. UpdateOK(w, u) /\ u.pc \notin Holding BY <1>7 DEF UpdateOK, Steps, Holding
<1>9. UpdateOK(w, IdleUpdate) /\ IdleUpdate.pc = "idle" BY DEF IdleUpdate, UpdateOK, Steps, Holding
<1> QED BY <1>1, <1>2, <1>7, <1>8, <1>9, OneMoves DEF Holding

LEMMA CutLongKeeps ==
  ASSUME MemoryInv, NEW w \in Workers, CutLong(w) PROVE MemoryInv'
<1> DEFINE u == [do[w] EXCEPT !.pc = "keep"]
<1>1. /\ do[w].pc = "cut" /\ UNCHANGED <<files, today, known, raced, torn>> /\ do' = [do EXCEPT ![w] = u]
      /\ longs' = [longs EXCEPT ![SubjectOf[Chat(w)]] = NothingLong]
  BY DEF CutLong, At, Move
<1>2. longs' \in [Subjects -> LongFiles] BY <1>1, NothingLongIs DEF MemoryInv, MemoryShape
<1>3. LongOK(do[w]) BY <1>1, WorkerFacts DEF MemoryInv, UpdateOK
<1>4. LongOK(u) /\ u.pc = "keep" BY <1>3 DEF LongOK
<1> HIDE DEF u
<1>5. UpdateOK(w, u) BY <1>4 DEF UpdateOK, Steps, Holding
<1> QED BY <1>1, <1>2, <1>4, <1>5, OneMoves DEF Holding

LEMMA KeepLongKeeps ==
  ASSUME MemoryInv, NEW w \in Workers, KeepLong(w) PROVE MemoryInv'
<1>1. /\ do[w].pc = "keep" /\ UNCHANGED <<files, today, known, raced, torn>>
      /\ do' = [do EXCEPT ![w] = IdleUpdate] /\ longs' = [longs EXCEPT ![SubjectOf[Chat(w)]] = do[w].long]
  BY DEF KeepLong, At, Move
<1>2. do[w].long \in LongFiles BY <1>1, WorkerFacts DEF MemoryInv, UpdateOK, LongOK
<1>3. longs' \in [Subjects -> LongFiles] BY <1>1, <1>2 DEF MemoryInv, MemoryShape
<1>4. UpdateOK(w, IdleUpdate) /\ IdleUpdate.pc = "idle" BY DEF IdleUpdate, UpdateOK, Steps, Holding
<1> QED BY <1>1, <1>3, <1>4, OneMoves DEF Holding

LEMMA UpdateFailsKeeps ==
  ASSUME MemoryInv, NEW w \in Workers, UpdateFails(w) PROVE MemoryInv'
<1>1. do' = [do EXCEPT ![w] = IdleUpdate] /\ UNCHANGED <<files, longs, today, known, raced>>
  BY DEF UpdateFails, Move
<1>2. torn \subseteq torn' /\ (do[w].pc = "fill" => do[w].path \in torn') BY DEF UpdateFails, At
<1>3. IdleUpdate.pc = "idle" BY DEF IdleUpdate
<1>4. UpdateOK(w, IdleUpdate) BY <1>3 DEF UpdateOK, Steps, Holding
<1> QED BY <1>1, <1>2, <1>3, <1>4, OneMoves DEF Holding

LEMMA TimesOutKeeps ==
  ASSUME MemoryInv, NEW w \in Workers, TimesOut(w) PROVE MemoryInv'
<1> DEFINE again == <<Chat(w), "retry">>
<1>1. UNCHANGED <<files, longs, today, known, raced, torn>> /\ do[w].pc = "draft"
  BY DEF TimesOut, At
<1>2. again \in Workers BY DEF Workers, Chat
<1>3. do = [v \in Workers |-> do[v]] /\ today \in Days /\ DOMAIN files \subseteq Paths
      /\ \A p \in DOMAIN files : Filed(files[p], p[2])
  BY DEF MemoryInv, MemoryShape
<1>4. do' = [v \in Workers |-> do'[v]] /\ \A v \in Workers :
        do'[v] = do[v] \/ (do'[v].pc \in {"idle", "load"} /\ do[v].pc # "fill")
  BY <1>1, <1>2, <1>3 DEF TimesOut, Move, Idle, IdleUpdate
<1>5. ASSUME NEW v \in Workers, do'[v].pc \in {"idle", "load"}, do[v].pc # "fill" PROVE Moves(v)
  BY <1>5 DEF Moves, UpdateOK, Steps, Holding
<1> QED BY <1>1, <1>3, <1>4, <1>5, MovesKeep

LEMMA TruncateKeeps ==
  ASSUME MemoryInv, NEW w \in Workers, Truncate(w) PROVE MemoryInv'
<1> DEFINE u == [do[w] EXCEPT !.pc = "fill"]
<1>0. PICK p : p = do[w].path OBVIOUS
<1>1. /\ do[w].pc = "truncate" /\ do' = [do EXCEPT ![w] = u] /\ files' = FilesWith(p, Truncated)
      /\ UNCHANGED <<longs, today, known, raced, torn>>
  BY <1>0 DEF Truncate, At, Move
<1>2. do = [v \in Workers |-> do[v]] BY DEF MemoryInv, MemoryShape
<1>3. UpdateOK(w, do[w]) BY WorkerFacts DEF MemoryInv
<1>4. p \in Paths /\ do[w].stale \in BOOLEAN
      /\ IF IsOwn(do[w]) THEN OwnOK(w, do[w]) ELSE CopyOK(do[w])
  BY <1>0, <1>1, <1>3 DEF UpdateOK, Holding
<1>5. /\ u.pc = "fill" /\ u.path = p /\ u.stale = do[w].stale /\ (IsOwn(u) <=> IsOwn(do[w]))
      /\ IF IsOwn(u) THEN OwnOK(w, u) ELSE CopyOK(u)
      /\ \A K : Covers(u, K) <=> Covers(do[w], K)
  <2>1. CASE IsOwn(do[w]) BY <1>0, <1>1, <1>4, <2>1 DEF IsOwn, OwnOK, Covers
  <2>2. CASE ~IsOwn(do[w]) BY <1>0, <1>1, <1>4, <2>2 DEF IsOwn, CopyOK, Covers
  <2> QED BY <2>1, <2>2
<1>6. do' = [v \in Workers |-> do'[v]] /\ do'[w] = u /\ \A v \in Workers \ {w} : do'[v] = do[v]
  BY <1>1, <1>2
<1> HIDE DEF u
<1>7. UpdateOK(w, u) BY <1>4, <1>5 DEF UpdateOK, Steps
<1>8. /\ DOMAIN files' = DOMAIN files \cup {p} /\ files'[p] = Truncated
      /\ \A q \in DOMAIN files \ {p} : files'[q] = files[q]
  BY <1>1 DEF FilesWith
<1>9. Filed(Truncated, p[2]) BY NoTexts DEF Truncated, Filed, Pair
<1>10. MemoryShape' BY <1>1, <1>4, <1>6, <1>7, <1>8, <1>9 DEF MemoryInv, MemoryShape
<1>11. Fills(w, p)' /\ \A q : \A v \in Workers : Fills(v, q) => Fills(v, q)'
  BY <1>1, <1>5, <1>6 DEF Fills
<1>12. RatiosRight'
  <2> SUFFICES ASSUME NEW q \in DOMAIN files', q \notin torn', ~Coherent(files'[q], q[2])
               PROVE  \E v \in Workers : Fills(v, q)'
    BY DEF RatiosRight
  <2>1. CASE q = p BY <1>11, <2>1
  <2>2. CASE q # p
    <3>1. q \in DOMAIN files /\ files'[q] = files[q] /\ q \notin torn BY <1>1, <1>8, <2>2
    <3>2. \E v \in Workers : Fills(v, q) BY <3>1 DEF MemoryInv, RatiosRight
    <3> QED BY <1>11, <3>2
  <2> QED BY <2>1, <2>2
<1>13. TextsKept'
  <2> SUFFICES ASSUME NEW q \in Paths, q \notin raced \cup torn
               PROVE  /\ (\E v \in Workers : Fills(v, q)') \/ HasTexts(q)'
                      /\ \A x \in Workers : UpToDate(x, q)'
    BY <1>1 DEF TextsKept
  <2>1. /\ (\E v \in Workers : Fills(v, q)) \/ HasTexts(q)
        /\ \A x \in Workers : UpToDate(x, q)
    BY DEF MemoryInv, TextsKept
  <2>2. q # p => (HasTexts(q)' <=> HasTexts(q)) BY <1>1, <1>8 DEF HasTexts
  <2>3. ASSUME NEW x \in Workers PROVE UpToDate(x, q)'
    <3>1. CASE x = w BY <1>0, <1>1, <1>5, <1>6, <1>11, <2>1, <3>1 DEF UpToDate, Holding
    <3>2. CASE x # w BY <1>1, <1>6, <1>11, <2>1, <3>2 DEF UpToDate
    <3> QED BY <3>1, <3>2
  <2> QED BY <1>11, <2>1, <2>2, <2>3
<1> QED BY <1>10, <1>12, <1>13 DEF MemoryInv

(* What an update puts in its file.                                        *)
LEMMA FillingIs ==
  ASSUME MemoryShape, NEW w \in Workers, do[w].pc = "fill"
  PROVE  /\ do[w].path \in Paths
         /\ Filed(Filling(w), do[w].path[2]) /\ Coherent(Filling(w), do[w].path[2])
         /\ IF IsOwn(do[w]) THEN OwnOK(w, do[w]) /\ Filling(w) = do[w].next
            ELSE CopyOK(do[w]) /\ Filling(w) = do[w].copy
<1>1. UpdateOK(w, do[w]) BY WorkerFacts
<1> QED BY <1>1 DEF UpdateOK, Holding, OwnOK, CopyOK, Filling, IsOwn

LEMMA FillKeeps ==
  ASSUME MemoryInv, NEW w \in Workers, Fill(w) PROVE MemoryInv'
<1> DEFINE u == AfterFill(w)
<1>0. PICK p : p = do[w].path OBVIOUS
<1>1. /\ do[w].pc = "fill" /\ files' = FilesWith(p, Filling(w)) /\ UNCHANGED <<longs, today>>
      /\ do' = [v \in Workers |->
                  IF v = w THEN u
                  ELSE IF Holds(v, p) THEN [do[v] EXCEPT !.stale = TRUE] ELSE do[v]]
      /\ known' = IF IsOwn(do[w])
                  THEN [known EXCEPT ![p] = (@ \cup do[w].adds) \ do[w].drops] ELSE known
      /\ raced' = IF do[w].stale \/ p \in torn THEN raced \cup {p} ELSE raced
      /\ torn' = torn \ {p}
  BY <1>0 DEF Fill, At, IsOwn
<1>2. /\ MemoryShape /\ p \in Paths /\ Filed(Filling(w), p[2]) /\ Coherent(Filling(w), p[2])
      /\ IF IsOwn(do[w]) THEN OwnOK(w, do[w]) /\ Filling(w) = do[w].next
         ELSE CopyOK(do[w]) /\ Filling(w) = do[w].copy
  BY <1>0, <1>1, FillingIs DEF MemoryInv
<1>3. SyncOK(u) /\ u.pc = "sync"
  <2>1. OtherRecent(Chat(w)) \subseteq Paths BY DEF OtherRecent, Recent, Paths
  <2>2. CASE IsOwn(do[w])
    <3>1. u = [pc |-> "sync", promote |-> do[w].promote, done |-> DoneIn(do[w].next),
               todo |-> IF DoneIn(do[w].next) = {} THEN {} ELSE OtherRecent(Chat(w))]
      BY <1>2, <2>2 DEF AfterFill, IsOwn, OwnOK
    <3> QED BY <1>2, <2>1, <2>2, <3>1 DEF SyncOK, OwnOK
  <2>3. CASE ~IsOwn(do[w])
    <3>1. u = [pc |-> "sync", promote |-> do[w].promote, done |-> do[w].done, todo |-> do[w].todo \ {p}]
      BY <1>0, <2>3 DEF AfterFill, IsOwn
    <3> QED BY <1>2, <2>3, <3>1 DEF SyncOK, CopyOK
  <2> QED BY <2>2, <2>3
<1>4. /\ do' = [v \in Workers |-> do'[v]] /\ do'[w] = u
      /\ \A v \in Workers \ {w} : do'[v] = IF Holds(v, p) THEN [do[v] EXCEPT !.stale = TRUE] ELSE do[v]
  BY <1>1
<1> HIDE DEF u
<1>5. UpdateOK(w, u) /\ u.pc \notin Holding BY <1>3 DEF UpdateOK, Steps, Holding
<1>6. ASSUME NEW v \in Workers \ {w}
      PROVE  /\ UpdateOK(v, do'[v]) /\ do'[v].pc = do[v].pc
             /\ do[v].pc \in Holding => do'[v].path = do[v].path
             /\ do[v].pc \in Holding /\ do[v].path = p => do'[v].stale
             /\ do[v].pc \in Holding /\ do[v].path # p => do'[v] = do[v]
  <2>1. UpdateOK(v, do[v]) BY <1>2 DEF MemoryShape
  <2>2. CASE Holds(v, p)
    <3>1. do'[v] = [do[v] EXCEPT !.stale = TRUE] BY <1>4, <2>2
    <3>2. do[v].pc \in Holding /\ do[v].path = p BY <2>2 DEF Holds, Holding
    <3>3. CASE do[v].pc = "draft"
      BY <2>1, <3>1, <3>2, <3>3 DEF UpdateOK, DraftOK, Holding
    <3>4. CASE do[v].pc \in {"truncate", "fill"} /\ IsOwn(do[v])
      BY <2>1, <3>1, <3>2, <3>4 DEF UpdateOK, OwnOK, IsOwn, Holding
    <3>5. CASE do[v].pc \in {"truncate", "fill"} /\ ~IsOwn(do[v])
      BY <2>1, <3>1, <3>2, <3>5 DEF UpdateOK, CopyOK, IsOwn, Holding
    <3> QED BY <3>2, <3>3, <3>4, <3>5 DEF Holding
  <2>3. CASE ~Holds(v, p)
    BY <1>4, <2>1, <2>3 DEF Holds, Holding
  <2> QED BY <2>2, <2>3
<1>7. /\ DOMAIN files' = DOMAIN files \cup {p} /\ files'[p] = Filling(w)
      /\ \A q \in DOMAIN files \ {p} : files'[q] = files[q]
  BY <1>1 DEF FilesWith
<1>8. /\ known' = [q \in Paths |-> known'[q]]
      /\ known'[p] = IF IsOwn(do[w]) THEN (known[p] \cup do[w].adds) \ do[w].drops ELSE known[p]
      /\ \A q \in Paths \ {p} : known'[q] = known[q]
  <2>1. known = [q \in Paths |-> known[q]] BY <1>2 DEF MemoryShape
  <2> QED BY <1>1, <1>2, <2>1
<1>9. MemoryShape'
  BY <1>1, <1>2, <1>4, <1>5, <1>6, <1>7, <1>8 DEF MemoryShape
<1>10. ASSUME NEW v \in Workers, NEW q, q # p, Fills(v, q) PROVE Fills(v, q)'
  BY <1>0, <1>6, <1>10 DEF Fills, Holding
<1>11. RatiosRight'
  <2> SUFFICES ASSUME NEW q \in DOMAIN files', q \notin torn', ~Coherent(files'[q], q[2])
               PROVE  \E v \in Workers : Fills(v, q)'
    BY DEF RatiosRight
  <2>1. q # p /\ q \in DOMAIN files /\ files'[q] = files[q] /\ q \notin torn BY <1>1, <1>2, <1>7
  <2>2. \E v \in Workers : Fills(v, q) BY <2>1 DEF MemoryInv, RatiosRight
  <2> QED BY <1>10, <2>1, <2>2
<1>12. TextsKept'
  <2> SUFFICES ASSUME NEW q \in Paths, q \notin raced' \cup torn'
               PROVE  /\ (\E v \in Workers : Fills(v, q)') \/ HasTexts(q)'
                      /\ \A x \in Workers : UpToDate(x, q)'
    BY DEF TextsKept
  <2>1. CASE q = p
    <3>1. p \notin raced /\ p \notin torn /\ ~do[w].stale BY <1>1, <2>1
    <3>2. (\E v \in Workers \ {w} : Fills(v, p)) \/ Covers(do[w], known[p])
      BY <1>0, <1>1, <1>2, <3>1 DEF MemoryInv, TextsKept, UpToDate, Holding
    <3>3. ASSUME NEW v \in Workers \ {w}, Fills(v, p) PROVE Fills(v, p)'
      BY <1>6, <3>3 DEF Fills, Holding
    <3>4. Covers(do[w], known[p]) => HasTexts(p)'
      BY <1>1, <1>2, <1>7, <1>8 DEF Covers, HasTexts
    <3>5. ASSUME NEW x \in Workers PROVE UpToDate(x, p)'
      BY <1>4, <1>5, <1>6 DEF UpToDate
    <3> QED BY <2>1, <3>2, <3>3, <3>4, <3>5
  <2>2. CASE q # p
    <3>1. q \notin raced \cup torn BY <1>1, <2>2
    <3>2. /\ (\E v \in Workers : Fills(v, q)) \/ HasTexts(q)
          /\ \A x \in Workers : UpToDate(x, q)
      BY <3>1 DEF MemoryInv, TextsKept
    <3>3. HasTexts(q)' <=> HasTexts(q) BY <1>7, <1>8, <2>2 DEF HasTexts
    <3>4. ASSUME NEW x \in Workers PROVE UpToDate(x, q)'
      <4>1. CASE x = w BY <1>4, <1>5, <4>1 DEF UpToDate
      <4>2. CASE x # w
        <5> SUFFICES ASSUME do'[x].pc \in Holding, do'[x].path = q, ~do'[x].stale
                     PROVE  (\E v \in Workers \ {x} : Fills(v, q)') \/ Covers(do'[x], known'[q])
          BY DEF UpToDate
        <5>1. do[x].pc \in Holding /\ do'[x] = do[x] BY <1>6, <2>2, <4>2
        <5>2. (\E v \in Workers \ {x} : Fills(v, q)) \/ Covers(do[x], known[q])
          BY <3>2, <5>1 DEF UpToDate
        <5> QED BY <1>8, <1>10, <2>2, <5>1, <5>2
      <4> QED BY <4>1, <4>2
    <3> QED BY <1>10, <2>2, <3>2, <3>3, <3>4
  <2> QED BY <2>1, <2>2
<1> QED BY <1>9, <1>11, <1>12 DEF MemoryInv

LEMMA KilledKeeps ==
  ASSUME MemoryInv, Killed PROVE MemoryInv'
<1> DEFINE cut == {w \in Workers : At(w, "fill")}
<1>1. /\ do' = [w \in Workers |-> IdleUpdate] /\ UNCHANGED <<longs, today, known, raced>>
      /\ IF cut = {} THEN UNCHANGED <<files, torn>>
         ELSE \E w \in cut, kept \in UNION {Cuts(v) : v \in cut} :
                /\ kept \in Cuts(w)
                /\ files' = FilesWith(do[w].path, kept)
                /\ torn' = torn \cup {do[v].path : v \in cut}
  BY DEF Killed
<1>2. /\ today' \in Days /\ DOMAIN files \subseteq Paths /\ \A p \in DOMAIN files : Filed(files[p], p[2])
      /\ MemoryShape
  BY <1>1 DEF MemoryInv, MemoryShape
<1>3. ASSUME \A v \in cut : do[v].path \in torn' PROVE \A v \in Workers : Moves(v)
  BY <1>1, <1>3 DEF Moves, UpdateOK, IdleUpdate, Steps, Holding, At
<1>4. CASE cut = {}
  <2>1. UNCHANGED <<files, torn>> BY <1>1, <1>4
  <2> QED BY <1>1, <1>2, <1>3, <1>4, <2>1, MovesKeep
<1>5. CASE cut # {}
  <2>0. PICK w \in cut : \E k \in Cuts(w) :
          files' = FilesWith(do[w].path, k) /\ torn' = torn \cup {do[v].path : v \in cut}
    BY <1>1, <1>5
  <2>1. PICK kept \in Cuts(w) :
          files' = FilesWith(do[w].path, kept) /\ torn' = torn \cup {do[v].path : v \in cut}
    BY <2>0
  <2>p. PICK p : p = do[w].path OBVIOUS
  <2>2. w \in Workers /\ do[w].pc = "fill" /\ p \in torn' BY <2>p, <2>1 DEF At
  <2>3. p \in Paths /\ Filed(Filling(w), p[2]) BY <2>p, <1>2, <2>2, FillingIs
  <2>4. Filed(kept, p[2])
    <3>1. Filed(Truncated, p[2]) BY NoTexts DEF Truncated, Filed, Pair
    <3>2. Filed([Filling(w) EXCEPT !.follows = <<>>], p[2]) BY <2>3, NoTexts DEF Filed, Pair
    <3> QED BY <3>1, <3>2 DEF Cuts
  <2>5. /\ DOMAIN files' = DOMAIN files \cup {p} /\ files'[p] = kept
        /\ \A q \in DOMAIN files \ {p} : files'[q] = files[q]
    BY <2>p, <2>1 DEF FilesWith
  <2>6. /\ DOMAIN files' \subseteq Paths /\ \A q \in DOMAIN files' : Filed(files'[q], q[2])
        /\ \A q \in Paths \ torn' : /\ q \in DOMAIN files' <=> q \in DOMAIN files
                                    /\ q \in DOMAIN files => files'[q] = files[q]
    BY <1>2, <2>2, <2>3, <2>4, <2>5
  <2>7. torn \subseteq torn' /\ \A v \in cut : do[v].path \in torn' BY <2>1
  <2>8. do' = [v \in Workers |-> do'[v]] BY <1>1
  <2> HIDE DEF cut
  <2> QED BY <1>1, <1>2, <1>3, <2>6, <2>7, <2>8, MovesKeep
<1> QED BY <1>4, <1>5

LEMMA NextDayKeeps ==
  ASSUME MemoryInv, NextDay PROVE MemoryInv'
<1>1. UNCHANGED <<files, longs, do, known, raced, torn>> /\ today < Horizon /\ today' = today + 1
  BY DEF NextDay
<1>2. today' \in Days BY <1>1, MemoryAssumption DEF MemoryInv, MemoryShape, Days
<1>3. /\ do = [v \in Workers |-> do[v]] /\ DOMAIN files \subseteq Paths
      /\ \A p \in DOMAIN files : Filed(files[p], p[2])
  BY DEF MemoryInv, MemoryShape
<1> QED BY <1>1, <1>2, <1>3, MovesKeep

THEOREM MemoryInvHolds == MemorySpec => []MemoryInv
<1>1. MemoryInit => MemoryInv
  <2> SUFFICES ASSUME MemoryInit PROVE MemoryInv
    OBVIOUS
  <2>1. /\ files = <<>> /\ today = 1 /\ do = [w \in Workers |-> IdleUpdate]
        /\ known = [p \in Paths |-> {}] /\ longs \in [Subjects -> LongFiles]
    BY NotesAssumption DEF MemoryInit
  <2>2. DOMAIN <<>> = {} OBVIOUS
  <2>3. today \in Days BY <2>1, MemoryAssumption DEF Days
  <2>4. \A w \in Workers : do[w].pc = "idle" BY <2>1 DEF IdleUpdate
  <2>5. MemoryShape BY <2>1, <2>2, <2>3, <2>4 DEF MemoryShape, UpdateOK, Steps, Holding
  <2>6. RatiosRight BY <2>1, <2>2 DEF RatiosRight
  <2>7. TextsKept BY <2>1, <2>4 DEF TextsKept, HasTexts, UpToDate, Holding
  <2> QED BY <2>5, <2>6, <2>7 DEF MemoryInv
<1>2. MemoryInv /\ [MemoryNext]_memoryVars => MemoryInv'
  <2> SUFFICES ASSUME MemoryInv, [MemoryNext]_memoryVars PROVE MemoryInv'
    OBVIOUS
  <2>1. CASE \E c \in Sessions : StartTurn(c) BY <2>1, StartTurnKeeps
  <2>2. ASSUME NEW w \in Workers, Step(w) PROVE MemoryInv'
    BY <2>2, RetryKeeps, DraftUpdateKeeps, TruncateKeeps, FillKeeps, SyncReadKeeps, SyncFailsKeeps,
       PromoteKeeps, CutLongKeeps, KeepLongKeeps, TimesOutKeeps, UpdateFailsKeeps
       DEF Step
  <2>3. CASE Killed BY <2>3, KilledKeeps
  <2>4. CASE NextDay BY <2>4, NextDayKeeps
  <2>5. CASE UNCHANGED memoryVars
    BY <2>5 DEF memoryVars, MemoryInv, MemoryShape, RatiosRight, TextsKept, UpdateOK, Fills, HasTexts, UpToDate
  <2> QED BY <2>1, <2>2, <2>3, <2>4, <2>5 DEF MemoryNext
<1> QED BY <1>1, <1>2, PTL DEF MemorySpec

(* A heartbeat goes to exactly the chats that have an open task in a       *)
(* recent file, by the ratios of the frontmatter alone.                    *)
THEOREM HeartbeatFindsPending == MemorySpec => []HeartbeatSeesPending
<1>1. MemoryInv => HeartbeatSeesPending
  <2> SUFFICES ASSUME MemoryInv, NEW c \in Sessions,
                      \A p \in Recent(today) \X {c} :
                         p \notin torn /\ ~\E w \in Workers : At(w, "fill") /\ do[w].path = p
               PROVE  c \in PendingChats <=>
                        \E p \in (Recent(today) \X {c}) \cap DOMAIN files :
                           \E t \in Items(files[p]) : ~t.done
    BY DEF HeartbeatSeesPending
  <2>1. ASSUME NEW p \in (Recent(today) \X {c}) \cap DOMAIN files
        PROVE  /\ files[p].owner = c
               /\ (\E i \in DOMAIN files[p].ratios : Pending(files[p].ratios[i]))
                     <=> \E t \in Items(files[p]) : ~t.done
    <3> DEFINE f == files[p]
    <3>1. Coherent(f, c) /\ Filed(f, c)
      BY DEF MemoryInv, MemoryShape, RatiosRight, Fills, At
    <3> HIDE DEF f
    <3>2. /\ f.owner = c /\ f.ratios = <<TaskRatio(f.tasks), TaskRatio(f.follows)>>
          /\ f.tasks \in Seq(Tasks) /\ f.follows \in Seq(Tasks)
      BY <3>1 DEF Coherent, Filed, Pair
    <3>3. /\ DOMAIN f.ratios = {1, 2}
          /\ f.ratios[1] = TaskRatio(f.tasks) /\ f.ratios[2] = TaskRatio(f.follows)
      BY <3>2
    <3>4. /\ Pending(f.ratios[1]) <=> \E t \in ToSet(f.tasks) : ~t.done
          /\ Pending(f.ratios[2]) <=> \E t \in ToSet(f.follows) : ~t.done
      BY <3>2, <3>3, RatioShowsOpen
    <3>5. (\E i \in DOMAIN f.ratios : Pending(f.ratios[i])) <=> \E t \in Items(f) : ~t.done
      BY <3>3, <3>4 DEF Items
    <3> QED BY <3>2, <3>5 DEF f
  <2>2. c \in PendingChats <=>
          \E p \in (Recent(today) \X {c}) \cap DOMAIN files :
             \E i \in DOMAIN files[p].ratios : Pending(files[p].ratios[i])
    <3>1. ASSUME NEW p \in (Recent(today) \X Sessions) \cap DOMAIN files, files[p].owner = c
          PROVE  p \in Recent(today) \X {c}
      <4>1. files[p].owner \in {p[2], None} BY DEF MemoryInv, MemoryShape, Filed
      <4>2. p[2] = c BY <3>1, <4>1, MemoryAssumption
      <4> QED BY <4>2
    <3> QED BY <2>1, <3>1 DEF PendingChats
  <2> QED BY <2>1, <2>2
<1> QED BY <1>1, MemoryInvHolds, PTL

(* A recorded text stays in its file until an update's model drops it,     *)
(* unless the file was written from an outdated reading or cut short.      *)
THEOREM RecordedTextsStay == MemorySpec => []KeptUnlessRaced
<1>1. MemoryInv => KeptUnlessRaced
  <2> SUFFICES ASSUME MemoryInv, NEW p \in Paths, p \notin raced \cup torn,
                      ~\E w \in Workers : At(w, "fill") /\ do[w].path = p, known[p] # {}
               PROVE  known[p] \subseteq {t.text : t \in Items(files[p])}
    BY DEF KeptUnlessRaced
  <2>1. HasTexts(p) BY DEF MemoryInv, TextsKept, Fills, At
  <2>2. p \in DOMAIN files /\ known[p] \subseteq FileTexts(files[p]) BY <2>1 DEF HasTexts
  <2>3. FileTexts(files[p]) = {t.text : t \in Items(files[p])} BY DEF FileTexts, Texts, Items
  <2> QED BY <2>2, <2>3
<1> QED BY <1>1, MemoryInvHolds, PTL
(* A promotion keeps the dates entries were first added, drops entries     *)
(* only for a limit and then as few as that takes, and leaves the file     *)
(* within the limits.                                                      *)
THEOREM PromotionsKeep == MemorySpec => LongTermKept
<1>1. ASSUME MemoryInv, MemoryNext, NEW w \in Workers, At(w, "keep"), do'[w] = IdleUpdate, longs' # longs
      PROVE  /\ do[w].pc = "keep" /\ SubjectOf[Chat(w)] \in Subjects
             /\ longs' = [longs EXCEPT ![SubjectOf[Chat(w)]] = do[w].long]
  <2>1. \E v \in Workers : CutLong(v) \/ KeepLong(v)
    BY <1>1 DEF MemoryNext, Step, StartTurn, Retry, DraftUpdate, Truncate, Fill, SyncRead, SyncFails,
                Promote, TimesOut, UpdateFails, Killed, NextDay, OnlyMoves
  <2>2. PICK v \in Workers : CutLong(v) \/ KeepLong(v) BY <2>1
  <2>3. do = [x \in Workers |-> do[x]] /\ IdleUpdate.pc # "keep" BY <1>1 DEF MemoryInv, MemoryShape, IdleUpdate
  <2>4. v = w BY <1>1, <2>2, <2>3 DEF CutLong, KeepLong, Move, At
  <2>5. KeepLong(w) BY <1>1, <2>2, <2>4 DEF CutLong, At
  <2>6. Chat(w) \in Sessions BY <1>1, WorkerFacts DEF MemoryInv
  <2> QED BY <1>1, <2>5, <2>6, MemoryAssumption DEF KeepLong, At
<1>2. ASSUME MemoryInv, MemoryNext, NEW w \in Workers, At(w, "keep"), do'[w] = IdleUpdate, longs' # longs
      PROVE  LET new == longs'[SubjectOf[Chat(w)]]
             IN  PromotedFrom(new, do[w].read, do[w].promote)
  <2>1. LongOK(do[w]) BY <1>1, <1>2, WorkerFacts DEF MemoryInv, UpdateOK
  <2>2. longs'[SubjectOf[Chat(w)]] = do[w].long BY <1>1, <1>2 DEF MemoryInv, MemoryShape
  <2> QED BY <2>1, <2>2 DEF LongOK
<1>3. ASSUME NEW c, NEW d, LongTermItems(d) <= MaxItems, Shorter(d, c), LongTermItems(d) \in Nat
      PROVE  LongTermItems(d) < LongTermItems(c) =>
               \/ LongTermItems(d) = MaxItems
               \/ \E x \in LongEntries(c) : LongTermChars(d) + x.size > MaxChars
  BY <1>3, MemoryAssumption DEF Shorter
<1>4. MemoryInv /\ [MemoryNext]_memoryVars =>
        [\A w \in Workers :
           (At(w, "keep") /\ do'[w] = IdleUpdate /\ longs' # longs) =>
             LET new == longs'[SubjectOf[Chat(w)]]
                 read == do[w].read
                 promote == do[w].promote
             IN  /\ LongTermItems(new) <= MaxItems /\ LongTermChars(new) <= MaxChars
                 /\ DatesKept(read.goals, promote.goals, new.goals)
                 /\ DatesKept(read.facts, promote.facts, new.facts)
                 /\ \E day \in Days :
                      LET all == MergeLongTerm(read, promote, day)
                      IN  LongTermItems(new) < LongTermItems(all) =>
                            \/ LongTermItems(new) = MaxItems
                            \/ \E x \in LongEntries(all) : LongTermChars(new) + x.size > MaxChars]_memoryVars
  <2> SUFFICES ASSUME MemoryInv, MemoryNext, NEW w \in Workers,
                      At(w, "keep"), do'[w] = IdleUpdate, longs' # longs
               PROVE  LET new == longs'[SubjectOf[Chat(w)]]
                          read == do[w].read
                          promote == do[w].promote
                      IN  /\ LongTermItems(new) <= MaxItems /\ LongTermChars(new) <= MaxChars
                          /\ DatesKept(read.goals, promote.goals, new.goals)
                          /\ DatesKept(read.facts, promote.facts, new.facts)
                          /\ \E day \in Days :
                               LET all == MergeLongTerm(read, promote, day)
                               IN  LongTermItems(new) < LongTermItems(all) =>
                                     \/ LongTermItems(new) = MaxItems
                                     \/ \E x \in LongEntries(all) : LongTermChars(new) + x.size > MaxChars
    BY DEF memoryVars
  <2>1. PICK new : new = longs'[SubjectOf[Chat(w)]] OBVIOUS
  <2>2. PromotedFrom(new, do[w].read, do[w].promote) BY <1>2, <2>1
  <2>3. new \in LongFiles
    <3>1. LongOK(do[w]) BY <1>1, WorkerFacts DEF MemoryInv, UpdateOK
    <3> QED BY <1>1, <2>1, <3>1 DEF MemoryInv, MemoryShape, LongOK
  <2>4. LongTermItems(new) \in Nat BY <2>3, LongFacts
  <2> QED BY <1>3, <2>1, <2>2, <2>4 DEF PromotedFrom, Within
<1> QED BY <1>4, MemoryInvHolds, PTL DEF MemorySpec, LongTermKept
=============================================================================
