-------------------------- MODULE OperationsProofs --------------------------
(* Proofs about the parts of Operations, one after the other. A part that    *)
(* rests does not change, so what is proved of a part's own steps holds in   *)
(* every behaviour.                                                          *)
EXTENDS Operations, ListTheorems

(* A part that rests is where it was.                                        *)
LEMMA PartsRest ==
  ASSUME [Next]_vars
  PROVE  /\ [Log!Next]_logVars /\ [Tools!Next]_toolVars /\ [Mail!Next]_mailVars
         /\ [Skills!Next]_skillVars /\ [Turns!Next]_turnVars
BY DEF Next, vars, LogStep, ToolStep, MailStep, SkillStep, TurnStep

(* The updates n of a feed: those in the batch come before the offset, those *)
(* handled before those in the batch, and all that are confirmed were        *)
(* handled, now or before a restart; e is the last one handled before.       *)
Polling(n, c, o, b, h, e) ==
  /\ n \in Nat /\ e \in Nat /\ c \in 1..(n + 1) /\ o \in 0..(n + 1)
  /\ o # 0 => c <= o
  /\ b \in Seq(1..n) /\ h \in Seq(1..n)
  /\ \A i \in 1..Len(b) : b[i] = o - Len(b) + i - 1
  /\ h # <<>> => o # 0 /\ h[Len(h)] = o - Len(b) - 1
  /\ h = <<>> => o = IF b = <<>> THEN 0 ELSE c + Len(b)
  /\ \A i \in 1..(Len(h) - 1) : h[i + 1] = h[i] + 1
  /\ h # <<>> => h[1] <= e + 1
  /\ c <= e + 1 \/ (h # <<>> /\ c <= h[Len(h)] + 1)

LEMMA StartsPolling ==
  ASSUME NEW n \in Nat
  PROVE  Polling(n, 1, 0, <<>>, <<>>, 0)
BY DEF Polling

LEMMA ARunOfNumbers ==
  ASSUME NEW k \in Nat, NEW d \in Int, NEW S, \A i \in 1..k : d + i - 1 \in S,
         NEW b, b = [i \in 1..k |-> d + i - 1]
  PROVE  b \in Seq(S) /\ Len(b) = k /\ \A i \in 1..k : b[i] = d + i - 1
<1>1. \A i \in 1..k : b[i] = d + i - 1 OBVIOUS
<1>2. b \in [1..k -> S] OBVIOUS
<1>3. b \in Seq(S) BY <1>2, SeqDef
<1>4. DOMAIN b = 1..k /\ DOMAIN b = 1..Len(b) /\ Len(b) \in Nat BY <1>2, <1>3, LenProperties
<1>5. Len(b) = k BY <1>4
<1> QED BY <1>1, <1>3, <1>5

LEMMA PollsOn ==
  ASSUME NEW n, NEW c, NEW o, NEW h, NEW e, Polling(n, c, o, <<>>, h, e),
         NEW last \in Int, last >= Turns!Later(c, o) - 1, last <= n,
         NEW b, b = [i \in 1..(last + 1 - Turns!Later(c, o)) |-> Turns!Later(c, o) + i - 1]
  PROVE  Polling(n, Turns!Later(c, o), IF b = <<>> THEN o ELSE Last(b) + 1, b, h, e)
<1> DEFINE d == Turns!Later(c, o)
           k == last + 1 - d
<1>1. d \in 1..(n + 1) /\ (o # 0 => d = o) /\ (o = 0 => d = c)
  BY DEF Polling, Turns!Later
<1>2. n \in Nat /\ k \in Nat BY <1>1 DEF Polling
<1>3. \A i \in 1..k : d + i - 1 \in 1..n BY <1>1, <1>2
<1>a. k = last + 1 - d /\ b = [i \in 1..k |-> d + i - 1] OBVIOUS
<1> HIDE DEF d, k
<1>4. b \in Seq(1..n) /\ Len(b) = k /\ \A i \in 1..k : b[i] = d + i - 1
  <2>1. d \in Int BY <1>1
  <2> QED BY ONLY <1>2, <1>3, <1>a, <2>1, ARunOfNumbers
<1>5. b = <<>> <=> k = 0 BY <1>2, <1>4, EmptySeq
<1>6. k # 0 => Last(b) = last /\ last = d + k - 1
  <2>1. ASSUME k # 0 PROVE b[k] = d + k - 1
    BY ONLY <1>2, <1>4, <2>1
  <2>2. Last(b) = b[Len(b)] BY DEF Last
  <2> QED BY ONLY <1>1, <1>2, <1>4, <1>a, <2>1, <2>2
<1>7. CASE k = 0
  <2>1. b = <<>> BY <1>5, <1>7
  <2>2. Polling(n, d, o, <<>>, h, e)
    BY <1>1 DEF Polling
  <2> QED BY <2>1, <2>2 DEF d
<1>8. CASE k # 0
  <2>1. b # <<>> /\ Last(b) + 1 = d + k BY <1>2, <1>1, <1>5, <1>6, <1>8
  <2> DEFINE p == d + k
  <2>2. p \in 1..(n + 1) /\ d <= p /\ p # 0 BY <1>1, <1>2, <1>6, <1>8
  <2>a. h # <<>> => d = h[Len(h)] + 1
    BY <1>1 DEF Polling
  <2>b. h = <<>> => d = c BY <1>1 DEF Polling
  <2>c. /\ \A i \in 1..Len(b) : b[i] = p - Len(b) + i - 1
        /\ p - Len(b) = d
    <3>1. p - Len(b) = d BY ONLY <1>1, <1>2, <1>4 DEF p
    <3>2. \A i \in 1..Len(b) : b[i] = d + i - 1 BY ONLY <1>4
    <3>3. p \in Int /\ d \in Int /\ Len(b) \in Int BY ONLY <1>1, <1>2, <1>4 DEF p
    <3> QED BY ONLY <3>1, <3>2, <3>3
  <2> HIDE DEF p
  <2>d. /\ e \in Nat /\ h \in Seq(1..n)
        /\ \A i \in 1..(Len(h) - 1) : h[i + 1] = h[i] + 1
        /\ h # <<>> => h[1] <= e + 1
        /\ c <= e + 1 \/ (h # <<>> /\ c <= h[Len(h)] + 1)
    BY DEF Polling
  <2>e. h # <<>> => p # 0 /\ h[Len(h)] = p - Len(b) - 1
    <3>1. h # <<>> => h[Len(h)] \in Int
      <4>1. h # <<>> => Len(h) \in 1..Len(h) BY <2>d, EmptySeq, LenProperties
      <4> QED BY <1>2, <2>d, <4>1, ElementOfSeq
    <3>2. p \in Int /\ d \in Int /\ Len(b) \in Int BY ONLY <1>1, <1>2, <1>4, <2>2
    <3> QED BY ONLY <2>2, <2>a, <2>c, <3>1, <3>2
  <2>f. h = <<>> => p = IF b = <<>> THEN 0 ELSE d + Len(b) BY <1>1, <1>2, <1>4, <2>1 DEF p
  <2>g. d <= e + 1 \/ (h # <<>> /\ d <= h[Len(h)] + 1) BY <2>a, <2>b, <2>d, <1>1
  <2>3. Polling(n, d, p, b, h, e)
    BY ONLY <1>1, <1>2, <1>4, <2>2, <2>c, <2>d, <2>e, <2>f, <2>g DEF Polling
  <2>4. (IF b = <<>> THEN o ELSE Last(b) + 1) = p BY <2>1 DEF p
  <2> QED BY <2>3, <2>4 DEF d
<1> QED BY <1>7, <1>8

LEMMA PollsInVain ==
  ASSUME NEW n, NEW c, NEW o, NEW h, NEW e, Polling(n, c, o, <<>>, h, e)
  PROVE  Polling(n, Turns!Later(c, o), o, <<>>, h, e)
BY DEF Polling, Turns!Later

LEMMA TakesNext ==
  ASSUME NEW n, NEW c, NEW o, NEW b, NEW h, NEW e, Polling(n, c, o, b, h, e), b # <<>>
  PROVE  /\ Head(b) \in 1..n /\ (h # <<>> => Head(b) = h[Len(h)] + 1)
         /\ Polling(n, c, o, Tail(b), Append(h, Head(b)), e)
<1> DEFINE u == Head(b)
           t == Tail(b)
           g == Append(h, u)
<1>0. n \in Nat /\ o \in Nat /\ c \in Nat /\ e \in Nat BY DEF Polling
<1>1. b \in Seq(1..n) /\ Len(b) \in Nat \ {0} BY DEF Polling
<1>2. u \in 1..n /\ u = b[1]
  <2>1. u \in 1..n BY <1>1, HeadTailProperties
  <2>2. u = b[1] BY DEF Head
  <2> QED BY <2>1, <2>2
<1>3. u = o - Len(b) BY <1>0, <1>1, <1>2 DEF Polling
<1>4. t \in Seq(1..n) /\ Len(t) = Len(b) - 1 /\ \A i \in 1..Len(t) : t[i] = b[i + 1]
  BY <1>1, HeadTailProperties
<1>5. h \in Seq(1..n) /\ Len(h) \in Nat BY DEF Polling
<1>6. /\ g \in Seq(1..n) /\ Len(g) = Len(h) + 1 /\ g # <<>>
      /\ \A i \in 1..Len(h) : g[i] = h[i]
      /\ g[Len(h) + 1] = u
  BY <1>2, <1>5, AppendProperties
<1> HIDE DEF u, t, g
<1>7. o # 0 /\ g[Len(g)] = o - Len(t) - 1 BY <1>0, <1>1, <1>2, <1>3, <1>4, <1>6
<1>8. \A i \in 1..Len(t) : t[i] = o - Len(t) + i - 1
  BY <1>0, <1>1, <1>4 DEF Polling
<1>9. h # <<>> => u = h[Len(h)] + 1 /\ Len(h) >= 1
  BY <1>0, <1>1, <1>3, <1>5 DEF Polling
<1>10. \A i \in 1..(Len(g) - 1) : g[i + 1] = g[i] + 1
  <2>1. ASSUME NEW i \in 1..(Len(h) - 1) PROVE g[i + 1] = g[i] + 1
    <3>1. i \in 1..Len(h) /\ i + 1 \in 1..Len(h) BY <1>5
    <3>2. h[i + 1] = h[i] + 1 BY DEF Polling
    <3> QED BY <1>6, <3>1, <3>2
  <2>2. Len(h) # 0 => g[Len(h) + 1] = g[Len(h)] + 1
    BY <1>5, <1>6, <1>9
  <2> QED BY <1>5, <1>6, <2>1, <2>2
<1>11. g[1] <= e + 1 /\ (c <= e + 1 \/ c <= u + 1)
  <2>1. CASE h = <<>>
    <3>1. u = c /\ Len(h) = 0 BY <1>0, <1>1, <1>3, <2>1 DEF Polling
    <3> QED BY <1>0, <1>6, <2>1, <3>1 DEF Polling
  <2>2. CASE h # <<>>
    <3>1. g[1] = h[1] BY <1>5, <1>6, <1>9, <2>2
    <3>a. Len(h) \in 1..Len(h) BY <1>5, <1>9, <2>2
    <3>2. h[Len(h)] \in 1..n BY <1>5, <3>a, ElementOfSeq
    <3> QED BY <1>0, <1>9, <2>2, <3>1, <3>2 DEF Polling
  <2> QED BY <2>1, <2>2
<1>12. Polling(n, c, o, t, g, e)
  BY <1>4, <1>6, <1>7, <1>8, <1>10, <1>11 DEF Polling
<1> QED BY <1>2, <1>9, <1>12 DEF u, t, g

LEMMA StartsAgain ==
  ASSUME NEW n, NEW c, NEW o, NEW b, NEW h, NEW e, Polling(n, c, o, b, h, e)
  PROVE  Polling(n, c, 0, <<>>, <<>>, IF h = <<>> THEN e ELSE Turns!Later(e, Last(h)))
<1>1. n \in Nat /\ e \in Nat /\ h \in Seq(1..n) BY DEF Polling
<1>2. h # <<>> => Last(h) = h[Len(h)] /\ Last(h) \in 1..n BY <1>1 DEF Last
<1> DEFINE f == IF h = <<>> THEN e ELSE Turns!Later(e, Last(h))
<1>3. f \in Nat /\ c <= f + 1 BY <1>1, <1>2 DEF Polling, Turns!Later
<1> HIDE DEF f
<1>4. Polling(n, c, 0, <<>>, <<>>, f) BY <1>3 DEF Polling
<1> QED BY <1>4 DEF f

TurnInv == feed \in Feeds /\ Polling(Len(feed), confirmed, offset, batch, handled, earlier)

LEMMA TurnInit == ASSUME Turns!Init PROVE TurnInv
<1>1. Len(feed) \in Nat BY FeedsAreSequences DEF Turns!Init
<1> QED BY <1>1, StartsPolling DEF Turns!Init, TurnInv

PollVars == <<feed, confirmed, offset, batch, handled, earlier>>

LEMMA TurnGoesOn ==
  ASSUME TurnInv, [Turns!Next]_turnVars
  PROVE  TurnInv'
<1> DEFINE n == Len(feed)
           d == Turns!Later(confirmed, offset)
<1>1. CASE UNCHANGED PollVars BY <1>1 DEF PollVars, TurnInv
<1>2. CASE Turns!GetUpdates
  <2>1. /\ batch = <<>> /\ UNCHANGED <<feed, handled, earlier>>
        /\ confirmed' = d /\ offset' = IF batch' = <<>> THEN offset ELSE Last(batch') + 1
    BY <1>2 DEF Turns!GetUpdates, Turns!Polled, Turns!NextOffset, Turns!Last, Last
  <2>2. n \in Nat /\ d \in Nat BY DEF TurnInv, Polling, Turns!Later
  <2>3. PICK last \in Int : /\ last >= d - 1 /\ last <= n
                           /\ batch' = [i \in 1..(last + 1 - d) |-> d + i - 1]
    BY <1>2, <2>2 DEF Turns!GetUpdates
  <2>4. Polling(n, d, IF batch' = <<>> THEN offset ELSE Last(batch') + 1, batch', handled, earlier)
    BY <2>1, <2>3, PollsOn DEF TurnInv
  <2> QED BY <2>1, <2>4 DEF TurnInv
<1>3. CASE Turns!GetUpdatesFails
  <2>1. batch = <<>> /\ UNCHANGED <<feed, offset, batch, handled, earlier>> /\ confirmed' = d
    BY <1>3 DEF Turns!GetUpdatesFails, Turns!Polled
  <2> QED BY <2>1, PollsInVain DEF TurnInv
<1>4. CASE Turns!Take
  <2>1. /\ UNCHANGED <<feed, confirmed, offset, earlier>> /\ batch # <<>>
        /\ batch' = Tail(batch) /\ handled' = Append(handled, Head(batch))
    BY <1>4 DEF Turns!Take
  <2> QED BY <2>1, TakesNext DEF TurnInv
<1>5. CASE Turns!Restart
  <2>1. /\ earlier' = IF handled = <<>> THEN earlier ELSE Turns!Later(earlier, Last(handled))
        /\ offset' = 0 /\ batch' = <<>> /\ handled' = <<>> /\ UNCHANGED <<feed, confirmed>>
    BY <1>5 DEF Turns!Restart, Turns!Last, Last
  <2> QED BY <2>1, StartsAgain DEF TurnInv
<1>6. \/ Turns!GetUpdates \/ Turns!GetUpdatesFails \/ Turns!Take \/ Turns!Restart
      \/ UNCHANGED PollVars
  BY DEF Turns!Next, turnVars, PollVars, Turns!ModelAnswers, Turns!FileThere, Turns!BeginDownload,
         Turns!Downloaded, Turns!DownloadFails, Turns!Enqueue, Turns!StartJob, Turns!ReactAtOnce,
         Turns!ReactNot, Turns!UseReact, Turns!UseSendFile, Turns!UseSendVoice,
         Turns!TellProgress, Turns!RunFails, Turns!RunEnds, Turns!Says
<1> QED BY <1>1, <1>2, <1>3, <1>4, <1>5, <1>6

LEMMA TurnInvariance == Spec => []TurnInv
<1>1. Init => TurnInv BY TurnInit DEF Init
<1>2. TurnInv /\ [Next]_vars => TurnInv' BY PartsRest, TurnGoesOn
<1> QED BY <1>1, <1>2, PTL DEF Spec

(* Whatever requests and answers are lost, and whenever the bot restarts, it *)
(* takes the updates one after the other, each once, goes on no later than   *)
(* where it was, and the server drops none that was not taken.               *)
THEOREM UpdatesInOrder == Spec => []EveryUpdateInOrder
<1>1. TurnInv => EveryUpdateInOrder
  BY DEF TurnInv, Polling, EveryUpdateInOrder, Turns!EveryUpdateInOrder, Turns!LastHandled,
         Turns!Later, Turns!Last, Turns!Head, Head
<1> QED BY TurnInvariance, <1>1, PTL
------------------------------------------------------------------------------
(* While a run is at work it has told neither an end nor an error, and what  *)
(* follows a reaction is what the property says.                             *)
RunInv ==
  /\ {"pc", "did", "late", "reaction", "sent"} \subseteq DOMAIN run
  /\ run.pc \in {"none", "intent", "engine"}
  /\ Turns!OneAnswer

LEMMA EmojiAreAllowed ==
  ASSUME NEW job, NEW intent, NEW modelSays, NEW emoji,
         emoji = Turns!ReactionTo(job, intent, modelSays), emoji # ""
  PROVE  AllowedEmoji = <<>> \/ emoji \in Range(AllowedEmoji)
<1>1. PICK c : emoji = Turns!Emoji(c) BY DEF Turns!ReactionTo
<1>2. ASSUME AllowedEmoji # <<>> PROVE Turns!Head(AllowedEmoji) \in Range(AllowedEmoji)
  <2>1. Len(AllowedEmoji) \in Nat /\ DOMAIN AllowedEmoji = 1..Len(AllowedEmoji)
    BY AllowedEmojiAssumption, LenProperties
  <2>2. Len(AllowedEmoji) # 0 BY AllowedEmojiAssumption, EmptySeq, <1>2
  <2>3. 1 \in DOMAIN AllowedEmoji BY ONLY <2>1, <2>2
  <2> QED BY ONLY <2>3 DEF Range, Turns!Head, Head
<1> QED BY <1>1, <1>2 DEF Turns!Emoji, Turns!Range, Range

LEMMA RunGoesOn ==
  ASSUME RunInv, [Turns!Next]_turnVars
  PROVE  RunInv'
<1> USE DEF RunInv, Turns!OneAnswer, Turns!Range, Range
<1>1. CASE UNCHANGED run BY <1>1
<1>2. CASE Turns!StartJob BY <1>2 DEF Turns!StartJob, Turns!NoRun
<1>3. CASE Turns!ReactAtOnce
  <2>1. PICK intent \in Intents, modelSays \in DOMAIN EmojiOf \union {""} :
          LET emoji == Turns!ReactionTo(run.job, intent, modelSays)
          IN emoji # "" /\ run' = [run EXCEPT !.pc = "none", !.did = {"reaction"},
                                              !.reaction = emoji]
    BY <1>3 DEF Turns!ReactAtOnce
  <2> DEFINE emoji == Turns!ReactionTo(run.job, intent, modelSays)
  <2>2. AllowedEmoji = <<>> \/ emoji \in Range(AllowedEmoji) BY <2>1, EmojiAreAllowed
  <2> HIDE DEF emoji
  <2>3. run' = [run EXCEPT !.pc = "none", !.did = {"reaction"}, !.reaction = emoji]
    BY <2>1 DEF emoji
  <2> QED BY <2>2, <2>3
<1>4. CASE Turns!ReactNot BY <1>4 DEF Turns!ReactNot, Turns!NoRun
<1>5. CASE Turns!UseReact
  <2>1. PICK emoji \in Range(EmojiOf) :
          /\ run.pc = "engine" /\ (AllowedEmoji = <<>> \/ emoji \in Range(AllowedEmoji))
          /\ run' = [run EXCEPT !.did = @ \union {"reaction"}, !.reaction = emoji]
    BY <1>5 DEF Turns!UseReact
  <2> QED BY <2>1 DEF Turns!NoRun
<1>6. CASE Turns!UseSendFile \/ Turns!UseSendVoice
  <2>1. PICK c, file : Turns!Sends(c, file) /\ run.pc = "engine"
    BY <1>6 DEF Turns!UseSendFile, Turns!UseSendVoice
  <2> QED BY <2>1 DEF Turns!Sends
<1>7. CASE Turns!RunFails
  <2>1. run.pc # "none" /\ Turns!Says("none", {"error"}) BY <1>7 DEF Turns!RunFails
  <2>2. run.did \subseteq {"reaction", "progress"} /\ run.late \subseteq {"progress", "error"}
    BY <2>1
  <2> QED BY <2>1, <2>2 DEF Turns!Says, Turns!Late
<1>11. CASE Turns!TellProgress
  <2>1. run.pc # "none" /\ Turns!Says("engine", {"progress"}) BY <1>11 DEF Turns!TellProgress
  <2>2. run.did \subseteq {"reaction", "progress"} /\ run.late \subseteq {"progress", "error"}
    BY <2>1
  <2> QED BY <2>1, <2>2 DEF Turns!Says, Turns!Late, Turns!NoRun
<1>8. CASE Turns!RunEnds
  <2>1. PICK memory \in {{}, {"memory"}} :
          run.pc = "engine" /\ Turns!Says("none", Turns!Answer(memory))
    BY <1>8 DEF Turns!RunEnds
  <2>2. CASE "reaction" \in run.did
    BY <2>1, <2>2 DEF Turns!Answer, Turns!Says, Turns!Late
  <2>3. CASE "reaction" \notin run.did
    BY <2>1, <2>3 DEF Turns!Answer, Turns!Says, Turns!Late
  <2> QED BY <2>2, <2>3
<1>9. CASE Turns!Restart BY <1>9 DEF Turns!Restart, Turns!NoRun
<1>10. \/ UNCHANGED run \/ Turns!StartJob \/ Turns!ReactAtOnce \/ Turns!ReactNot
       \/ Turns!UseReact \/ Turns!UseSendFile \/ Turns!UseSendVoice \/ Turns!TellProgress
       \/ Turns!RunFails \/ Turns!RunEnds \/ Turns!Restart
  BY DEF Turns!Next, turnVars, Turns!GetUpdates, Turns!GetUpdatesFails, Turns!Take,
         Turns!ModelAnswers, Turns!FileThere, Turns!BeginDownload, Turns!Downloaded,
         Turns!DownloadFails, Turns!Enqueue
<1> QED BY <1>1, <1>2, <1>3, <1>4, <1>5, <1>6, <1>7, <1>8, <1>9, <1>10, <1>11

(* Whichever way the run of a job ends, its chat was told one end: a final   *)
(* text without reaction or error, or an allowed reaction, or an error, or   *)
(* both of these where the run failed after it reacted. After a reaction     *)
(* only progress and an error are said; only a final text is remembered.     *)
THEOREM JobsHaveOneAnswer == Spec => []OneAnswer
<1>1. Init => RunInv
  <2>1. Init => run = Turns!NoRun BY DEF Init, Turns!Init
  <2>2. ASSUME run = Turns!NoRun PROVE RunInv
    <3>1. run.pc = "none" /\ run.did = {} /\ run.late = {} /\ run.reaction = "" BY <2>2 DEF Turns!NoRun
    <3>2. {"pc", "did", "late", "reaction", "sent"} \subseteq DOMAIN run BY <2>2 DEF Turns!NoRun
    <3> QED BY ONLY <2>2, <3>1, <3>2 DEF RunInv, Turns!OneAnswer
  <2> QED BY <2>1, <2>2
<1>2. RunInv /\ [Next]_vars => RunInv' BY PartsRest, RunGoesOn
<1>3. RunInv => OneAnswer BY DEF RunInv, OneAnswer
<1> QED BY <1>1, <1>2, <1>3, PTL DEF Spec
------------------------------------------------------------------------------
(* Updates that come one after the other.                                    *)
LastIsLatest(h) == h \in Seq(Nat) /\ \A x \in Range(h) : x <= h[Len(h)]

LEMMA StaysLatest ==
  ASSUME NEW h, LastIsLatest(h), NEW u \in Nat, h # <<>> => u = h[Len(h)] + 1
  PROVE  /\ LastIsLatest(Append(h, u)) /\ Append(h, u)[Len(Append(h, u))] = u
         /\ Append(h, u) # <<>>
         /\ Range(Append(h, u)) = Range(h) \union {u}
         /\ \A x \in Range(h) : x \in Nat /\ x < u
<1> DEFINE g == Append(h, u)
<1>1. h \in Seq(Nat) /\ Len(h) \in Nat /\ DOMAIN h = 1..Len(h) /\ h \in [1..Len(h) -> Nat]
  BY LenProperties DEF LastIsLatest
<1>2. /\ g \in Seq(Nat) /\ Len(g) = Len(h) + 1 /\ g[Len(h) + 1] = u /\ g # <<>>
      /\ \A i \in 1..Len(h) : g[i] = h[i]
  BY <1>1, AppendProperties
<1>3. DOMAIN g = 1..Len(g) BY <1>2, LenProperties
<1> HIDE DEF g
<1>4. Range(g) = Range(h) \union {u}
  <2>1. h \in [1..Len(h) -> Range(h)] BY ONLY <1>1 DEF Range
  <2>2. IsList(h) BY ONLY <1>1, <2>1, SeqDef DEF IsList
  <2> QED BY <2>2, RangeOfAppend DEF g
<1>5. ASSUME NEW x \in Range(h) PROVE x \in Nat /\ x < u
  <2>1. x \in Nat BY <1>1 DEF Range
  <2>2. Len(h) \in 1..Len(h) BY <1>1 DEF Range
  <2>3. h[Len(h)] \in Nat /\ h # <<>> BY <1>1, <2>2, EmptySeq
  <2>4. x <= h[Len(h)] BY DEF LastIsLatest
  <2> QED BY <2>1, <2>3, <2>4
<1>6. g[Len(g)] = u BY ONLY <1>1, <1>2
<1>7. \A x \in Range(g) : x <= g[Len(g)] BY <1>4, <1>5, <1>6
<1> QED BY <1>2, <1>4, <1>5, <1>6, <1>7 DEF g, LastIsLatest
------------------------------------------------------------------------------
(* What lets a message be handed to the agent; H are the updates handled.    *)
MayRun(m, why) ==
  /\ Turns!Allowed(m.chat)
  /\ m.group => \/ Turns!Command(m) = "/ask" \/ m.reply.to = "bot"
                \/ m.named \/ BotName \in Range(m.text)
                \/ ~strict /\ why = "model" /\ Range(m.text) \intersect Aliases # {}

IsReset(r, c) == feed[r].chat = c /\ Turns!Command(feed[r]) = "/reset"

JobOK(j, H) ==
  /\ j.update \in H /\ MayRun(feed[j.update], j.why)
  /\ \A user \in j.users : \E u \in H :
       /\ u <= j.update /\ feed[u].chat = feed[j.update].chat /\ user \in feed[u].users
       /\ \A r \in H : r < j.update /\ IsReset(r, feed[j.update].chat) => r < u

IsKnown(user, c, H) ==
  \E u \in H : /\ feed[u].chat = c /\ user \in feed[u].users
               /\ \A r \in H : IsReset(r, c) => r < u

\* A username is kept until its chat is reset, and a turn is of the last update.
AddressInv ==
  /\ LastIsLatest(handled)
  /\ DOMAIN usernames = Turns!Chats
  /\ \A c \in Turns!Chats : Turns!Allowed(c) =>
       \A user \in usernames[c] : IsKnown(user, c, Range(handled))
  /\ turn # Turns!NoTurn => /\ {"pc", "update", "why"} \subseteq DOMAIN turn
                            /\ handled # <<>> /\ turn.update = handled[Len(handled)]
                            /\ Turns!Allowed(feed[turn.update].chat)
  /\ turn.pc \in {"none", "model", "files", "download"} /\ (turn.pc = "none" => turn = Turns!NoTurn)
  /\ turn.pc = "model" => ~strict /\ Range(feed[turn.update].text) \intersect Aliases # {}
  /\ turn.pc \in {"files", "download"} => MayRun(feed[turn.update], turn.why)
  /\ IsList(jobs) /\ \A j \in Range(jobs) : JobOK(j, Range(handled))
  /\ "pc" \in DOMAIN run
  /\ run.pc # "none" => "job" \in DOMAIN run /\ JobOK(run.job, Range(handled))

LEMMA ReadingAllows ==
  ASSUME NEW m, NEW d, d = Turns!Reading(m), d.how # "drop"
  PROVE  /\ Turns!Allowed(m.chat)
         /\ d.how = "task" => MayRun(m, d.how)
         /\ d.how # "task" => ~strict /\ Range(m.text) \intersect Aliases # {}
<1>1. Turns!Dropped.how = "drop" BY DEF Turns!Dropped
<1>2. \A text : Turns!Task(text).how = "task" BY DEF Turns!Task
<1>3. \A text : Turns!AliasReason(text) # "task" BY DEF Turns!AliasReason
<1> DEFINE g == Turns!GroupTrigger(m)
<1>4. CASE Turns!Command(m) \in {"/start", "/mem", "/reset"} \/ ~Turns!Allowed(m.chat)
  BY <1>1, <1>4 DEF Turns!Reading
<1>5. CASE Turns!Command(m) = "/ask" /\ Turns!Allowed(m.chat)
  BY <1>1, <1>2, <1>5 DEF Turns!Reading, MayRun
<1>6. CASE Turns!Command(m) = "none" /\ Turns!Allowed(m.chat) /\ m.group
  <2>1. d = g BY <1>1, <1>6 DEF Turns!Reading
  <2>2. CASE m.reply.to = "bot" BY <1>1, <1>2, <1>6, <2>1, <2>2 DEF Turns!GroupTrigger, MayRun
  <2>3. CASE m.reply.to # "bot" /\ m.text # <<>> /\ (m.named \/ BotName \in Turns!Range(m.text))
    BY <1>1, <1>2, <1>6, <2>1, <2>3 DEF Turns!GroupTrigger, MayRun, Turns!Range, Range
  <2>4. CASE m.reply.to # "bot"
             /\ ~(m.text # <<>> /\ (m.named \/ BotName \in Turns!Range(m.text)))
    <3>1. g = IF ~strict /\ Turns!Range(m.text) \intersect Aliases # {}
                THEN [how |-> Turns!AliasReason(m.text), text |-> m.text] ELSE Turns!Dropped
      BY <2>4 DEF Turns!GroupTrigger
    <3> QED BY <1>1, <1>3, <1>6, <2>1, <3>1 DEF Turns!Range, Range
  <2> QED BY <2>2, <2>3, <2>4
<1>7. CASE ~m.group /\ Turns!Allowed(m.chat) /\ Turns!Command(m) = "none"
  BY <1>1, <1>2, <1>7 DEF Turns!Reading, MayRun
<1>8. Turns!Command(m) \in {"/start", "/mem", "/reset", "/ask", "none"} BY DEF Turns!Command
<1> QED BY <1>4, <1>5, <1>6, <1>7, <1>8

LEMMA JobStays ==
  ASSUME NEW j, NEW H, H \subseteq Nat, JobOK(j, H), NEW u \in Nat, \A x \in H : x < u
  PROVE  JobOK(j, H \union {u})
<1>1. ~(u < j.update)
  <2>1. j.update \in H BY DEF JobOK
  <2>2. j.update \in Nat /\ j.update < u BY <2>1
  <2> QED BY <2>2
<1>2. ASSUME NEW user \in j.users
      PROVE  \E v \in H \union {u} :
               /\ v <= j.update /\ feed[v].chat = feed[j.update].chat /\ user \in feed[v].users
               /\ \A r \in H \union {u} :
                    r < j.update /\ IsReset(r, feed[j.update].chat) => r < v
  BY <1>1 DEF JobOK
<1>3. j.update \in H \union {u} /\ MayRun(feed[j.update], j.why) BY DEF JobOK
<1> QED BY ONLY <1>2, <1>3 DEF JobOK

(* What Take leaves of the users and adds to them.                           *)
LEMMA KnownStay ==
  ASSUME AddressInv, feed \in Feeds, NEW u \in 1..Len(feed), \A x \in Range(handled) : x < u,
         NEW names,
         names = [usernames EXCEPT ![feed[u].chat] =
                    IF Turns!Command(feed[u]) = "/reset" /\ Turns!Allowed(feed[u].chat)
                      THEN {} ELSE Turns!Seen(feed[u])]
  PROVE  /\ DOMAIN names = Turns!Chats
         /\ \A c \in Turns!Chats : Turns!Allowed(c) =>
              \A user \in names[c] : IsKnown(user, c, Range(handled) \union {u})
<1> DEFINE m == feed[u]
           H == Range(handled)
<1>1. DOMAIN names = Turns!Chats BY DEF AddressInv
<1>2. ASSUME NEW c \in Turns!Chats, Turns!Allowed(c), NEW user \in names[c]
      PROVE  IsKnown(user, c, H \union {u})
  <2>1. ASSUME user \in usernames[c], ~IsReset(u, c) PROVE IsKnown(user, c, H \union {u})
    <3>1. IsKnown(user, c, H) BY <1>2, <2>1 DEF AddressInv
    <3> QED BY <2>1, <3>1 DEF IsKnown
  <2>2. CASE c # m.chat
    <3>1. user \in usernames[c] BY <1>2, <2>2 DEF AddressInv
    <3> QED BY <2>1, <2>2, <3>1 DEF IsReset
  <2>3. CASE c = m.chat
    <3>1. Turns!Command(m) # "/reset" /\ user \in Turns!Seen(m) BY <1>2, <2>3 DEF AddressInv
    <3>2. CASE user \in usernames[c] BY <2>1, <3>1, <3>2 DEF IsReset
    <3>3. CASE user \in m.users
      <4>1. \A r \in H \union {u} : IsReset(r, c) => r < u BY <3>1 DEF IsReset
      <4> QED BY <2>3, <3>3, <4>1 DEF IsKnown
    <3> QED BY <2>3, <3>1, <3>2, <3>3 DEF Turns!Seen
  <2> QED BY <2>2, <2>3
<1> QED BY <1>1, <1>2

LEMMA AddressGoesOn ==
  ASSUME TurnInv, AddressInv, [Turns!Next]_turnVars
  PROVE  AddressInv'
<1> DEFINE H == Range(handled)
<1>0. H \subseteq Nat /\ feed \in Feeds
  <2>1. handled \in [1..Len(handled) -> Nat] BY LenProperties DEF AddressInv, LastIsLatest
  <2> QED BY <2>1 DEF Range, TurnInv
<1>1. CASE UNCHANGED <<strict, feed, handled, usernames, turn, jobs, run>>
  BY <1>1 DEF AddressInv, JobOK, IsKnown, IsReset, MayRun
<1>2. CASE Turns!Take
  <2> DEFINE u == Head(batch)
             m == feed[u]
             d == Turns!Reading(m)
  <2>1. /\ u \in 1..Len(feed) /\ (handled # <<>> => u = handled[Len(handled)] + 1)
    BY <1>2, TakesNext DEF TurnInv, Turns!Take
  <2>2. /\ turn' = IF d.how = "drop" THEN Turns!NoTurn ELSE Turns!NewTurn(u, d)
        /\ usernames' = [usernames EXCEPT ![m.chat] =
             IF Turns!Command(m) = "/reset" /\ Turns!Allowed(m.chat) THEN {} ELSE Turns!Seen(m)]
        /\ handled' = Append(handled, u)
        /\ UNCHANGED <<strict, feed, jobs, run>>
    BY <1>2 DEF Turns!Take, Turns!Head, Head
  <2> HIDE DEF u
  <2>3. /\ LastIsLatest(handled') /\ handled' # <<>> /\ handled'[Len(handled')] = u
        /\ Range(handled') = H \union {u} /\ \A x \in H : x < u
    BY <2>1, <2>2, StaysLatest DEF AddressInv
  <2>4. /\ DOMAIN usernames' = Turns!Chats
        /\ \A c \in Turns!Chats : Turns!Allowed(c) =>
             \A user \in usernames'[c] : IsKnown(user, c, H \union {u})
    BY <1>0, <2>1, <2>2, <2>3, KnownStay
  <2>5. \A j : JobOK(j, H) => JobOK(j, H \union {u}) BY <1>0, <2>1, <2>3, JobStays
  <2>6. CASE d.how = "drop"
    <3>1. turn' = Turns!NoTurn /\ turn'.pc = "none" BY <2>2, <2>6 DEF Turns!NoTurn
    <3> QED BY <2>2, <2>3, <2>4, <2>5, <3>1 DEF AddressInv, JobOK, IsKnown, IsReset, MayRun
  <2>7. CASE d.how # "drop"
    <3>1. /\ Turns!Allowed(m.chat)
          /\ d.how = "task" => MayRun(m, d.how)
          /\ d.how # "task" => ~strict /\ Range(m.text) \intersect Aliases # {}
      BY <2>7, ReadingAllows
    <3>2. turn' = Turns!NewTurn(u, d) BY <2>2, <2>7
    <3>3. /\ {"pc", "update", "why"} \subseteq DOMAIN turn'
          /\ turn'.pc = (IF d.how = "task" THEN "files" ELSE "model")
          /\ turn'.update = u /\ turn'.why = d.how
      BY <3>2 DEF Turns!NewTurn
    <3> QED BY <2>2, <2>3, <2>4, <2>5, <3>1, <3>3
            DEF AddressInv, JobOK, IsKnown, IsReset, MayRun
  <2> QED BY <2>6, <2>7
<1>3. CASE Turns!ModelAnswers
  <2>1. /\ turn.pc = "model" /\ UNCHANGED <<strict, feed, usernames, jobs, run, handled>>
    BY <1>3 DEF Turns!ModelAnswers
  <2>2. \/ turn' = Turns!NoTurn
        \/ \E text : turn' = [turn EXCEPT !.pc = "files", !.text = text, !.why = "model"]
    BY <1>3 DEF Turns!ModelAnswers, Turns!Accepted
  <2>3. /\ {"pc", "update", "why"} \subseteq DOMAIN turn /\ turn # Turns!NoTurn
        /\ handled # <<>> /\ turn.update = handled[Len(handled)]
        /\ MayRun(feed[turn.update], "model") /\ Turns!Allowed(feed[turn.update].chat)
    BY <2>1 DEF AddressInv, MayRun, Turns!NoTurn
  <2>4. \/ turn' = Turns!NoTurn /\ turn'.pc = "none"
        \/ /\ {"pc", "update", "why"} \subseteq DOMAIN turn' /\ turn'.pc = "files"
           /\ turn'.update = turn.update /\ turn'.why = "model"
    <3>1. CASE turn' = Turns!NoTurn BY <3>1 DEF Turns!NoTurn
    <3>2. ASSUME NEW text, turn' = [turn EXCEPT !.pc = "files", !.text = text, !.why = "model"]
          PROVE  /\ {"pc", "update", "why"} \subseteq DOMAIN turn' /\ turn'.pc = "files"
                 /\ turn'.update = turn.update /\ turn'.why = "model"
      BY ONLY <2>3, <3>2
    <3> QED BY <2>2, <3>1, <3>2
  <2> QED BY <2>1, <2>3, <2>4 DEF AddressInv, JobOK, IsKnown, IsReset, MayRun
<1>4. CASE Turns!FileThere \/ Turns!BeginDownload \/ Turns!Downloaded \/ Turns!DownloadFails
  <2>1. /\ turn.pc \in {"files", "download"}
        /\ UNCHANGED <<strict, feed, usernames, jobs, run, handled>>
    BY <1>4 DEF Turns!FileThere, Turns!BeginDownload, Turns!Downloaded, Turns!DownloadFails
  <2>2. \/ turn' = Turns!NoTurn
        \/ \E pc \in {"files", "download"} : \E want, got :
             turn' = [turn EXCEPT !.pc = pc, !.want = want, !.got = got]
        \/ turn' = [turn EXCEPT !.pc = "download"]
    BY <1>4 DEF Turns!FileThere, Turns!BeginDownload, Turns!Downloaded, Turns!DownloadFails,
                Turns!Taken
  <2>3. /\ {"pc", "update", "why"} \subseteq DOMAIN turn
        /\ handled # <<>> /\ turn.update = handled[Len(handled)]
        /\ MayRun(feed[turn.update], turn.why) /\ Turns!Allowed(feed[turn.update].chat)
    BY <2>1 DEF AddressInv, MayRun, Turns!NoTurn
  <2>4. \/ turn' = Turns!NoTurn /\ turn'.pc = "none"
        \/ /\ {"pc", "update", "why"} \subseteq DOMAIN turn' /\ turn'.pc \in {"files", "download"}
           /\ turn'.update = turn.update /\ turn'.why = turn.why
    <3>1. CASE turn' = Turns!NoTurn BY <3>1 DEF Turns!NoTurn
    <3>2. ASSUME NEW pc \in {"files", "download"}, NEW want, NEW got,
                 turn' = [turn EXCEPT !.pc = pc, !.want = want, !.got = got]
          PROVE  /\ {"pc", "update", "why"} \subseteq DOMAIN turn' /\ turn'.pc = pc
                 /\ turn'.update = turn.update /\ turn'.why = turn.why
      BY ONLY <2>3, <3>2
    <3>3. CASE turn' = [turn EXCEPT !.pc = "download"] BY <2>3, <3>3
    <3> QED BY <2>2, <3>1, <3>2, <3>3
  <2> QED BY <2>1, <2>3, <2>4 DEF AddressInv, JobOK, IsKnown, IsReset, MayRun
<1>5. CASE Turns!Enqueue
  <2> DEFINE m == feed[turn.update]
  <2>1. PICK j : /\ j.update = turn.update /\ j.why = turn.why /\ j.users = Turns!Mentioned(m)
                 /\ jobs' = Append(jobs, j)
    BY <1>5 DEF Turns!Enqueue
  <2>2. /\ turn.pc = "files" /\ turn' = Turns!NoTurn
        /\ UNCHANGED <<strict, feed, usernames, run, handled>>
    BY <1>5 DEF Turns!Enqueue
  <2>3. turn # Turns!NoTurn BY <2>2 DEF Turns!NoTurn
  <2>4. Turns!Mentioned(m) \subseteq usernames[m.chat] BY DEF Turns!Mentioned
  <2>5. turn.update \in H /\ \A x \in H : x <= turn.update
    <3>1. Len(handled) \in DOMAIN handled
      BY <2>3, EmptySeq, LenProperties DEF AddressInv, LastIsLatest
    <3> QED BY <2>3, <3>1 DEF AddressInv, LastIsLatest, Range
  <2>6. m.chat \in Turns!Chats
    <3>1. handled \in Seq(1..Len(feed)) BY DEF TurnInv, Polling
    <3>2. turn.update \in 1..Len(feed)
      <4>1. handled \in [1..Len(handled) -> 1..Len(feed)] BY <3>1, LenProperties
      <4> QED BY <2>5, <4>1 DEF Range
    <3>3. feed \in Seq(Range(feed)) BY <1>0, FeedsAreSequences
    <3>4. m \in Range(feed) BY <3>2, <3>3, ElementOfSeq
    <3> QED BY <1>0, <3>4 DEF Turns!Chats, Turns!Range, Range
  <2>7. JobOK(j, H)
    <3>1. MayRun(m, turn.why) /\ Turns!Allowed(m.chat) BY <2>2, <2>3 DEF AddressInv
    <3>2. \A user \in j.users : IsKnown(user, m.chat, H)
      BY <2>1, <2>4, <2>6, <3>1 DEF AddressInv
    <3> QED BY <2>1, <2>5, <3>1, <3>2 DEF JobOK, IsKnown
  <2>8. IsList(jobs') /\ Range(jobs') = Range(jobs) \union {j}
    BY <2>1, RangeOfAppend DEF AddressInv
  <2> QED BY <2>2, <2>7, <2>8 DEF AddressInv, JobOK, IsKnown, IsReset, MayRun, Turns!NoTurn
<1>6. CASE Turns!StartJob
  <2>1. /\ jobs # <<>> /\ jobs' = Tail(jobs)
        /\ run' = [pc |-> "intent", job |-> Head(jobs), did |-> {}, late |-> {},
                   reaction |-> "", sent |-> {}]
        /\ UNCHANGED <<strict, feed, usernames, turn, handled>>
    BY <1>6 DEF Turns!StartJob, Turns!Head, Head
  <2>2. /\ IsList(jobs') /\ Range(jobs') \subseteq Range(jobs) /\ run'.job \in Range(jobs)
        /\ {"pc", "job"} \subseteq DOMAIN run'
    BY <2>1, RangeOfTail DEF AddressInv
  <2>3. /\ \A j \in Range(jobs') : JobOK(j, H)
        /\ JobOK(run'.job, H)
    BY <2>2 DEF AddressInv
  <2>4. run'.pc = "intent" BY <2>1
  <2> HIDE DEF H
  <2>5. Range(handled') = H BY <2>1 DEF H
  <2>6. ASSUME NEW j, JobOK(j, H) PROVE JobOK(j, Range(handled))'
    BY ONLY <2>1, <2>5, <2>6 DEF JobOK, IsReset, MayRun
  <2>7. /\ (IsList(jobs) /\ \A j \in Range(jobs) : JobOK(j, Range(handled)))'
        /\ ("job" \in DOMAIN run /\ JobOK(run.job, Range(handled)))'
    BY <2>2, <2>3, <2>6
  <2>8. (\A c \in Turns!Chats : Turns!Allowed(c) =>
           \A user \in usernames[c] : IsKnown(user, c, Range(handled)))'
    BY <2>1 DEF AddressInv, IsKnown, IsReset
  <2>9. (turn.pc \in {"files", "download"} => MayRun(feed[turn.update], turn.why))'
    BY <2>1 DEF AddressInv, MayRun
  <2> QED BY <2>1, <2>2, <2>4, <2>7, <2>8, <2>9 DEF AddressInv
<1>7. CASE /\ run.pc # "none" /\ UNCHANGED <<strict, feed, usernames, turn, jobs, handled>>
           /\ run'.job = run.job /\ DOMAIN run' = DOMAIN run
  BY <1>7 DEF AddressInv, JobOK, IsKnown, IsReset, MayRun
<1>8. CASE Turns!ReactAtOnce \/ Turns!ReactNot \/ Turns!UseReact \/ Turns!UseSendFile
           \/ Turns!UseSendVoice \/ Turns!TellProgress \/ Turns!RunFails \/ Turns!RunEnds
  <2>1. run.pc # "none" /\ UNCHANGED <<strict, feed, usernames, turn, jobs, handled>>
    BY <1>8 DEF Turns!ReactAtOnce, Turns!ReactNot, Turns!UseReact, Turns!UseSendFile,
                Turns!UseSendVoice, Turns!TellProgress, Turns!RunFails, Turns!RunEnds
  <2>2. CASE Turns!ReactAtOnce
    <3>1. PICK emoji : run' = [run EXCEPT !.pc = "none", !.did = {"reaction"}, !.reaction = emoji]
      BY <2>2 DEF Turns!ReactAtOnce
    <3> QED BY <1>7, <2>1, <3>1
  <2>3. CASE Turns!ReactNot BY <1>7, <2>1, <2>3 DEF Turns!ReactNot
  <2>4. CASE Turns!UseReact
    <3>1. PICK emoji : run' = [run EXCEPT !.did = @ \union {"reaction"}, !.reaction = emoji]
      BY <2>4 DEF Turns!UseReact
    <3> QED BY <1>7, <2>1, <3>1
  <2>5. CASE Turns!UseSendFile \/ Turns!UseSendVoice
    <3>1. PICK c, file : Turns!Sends(c, file) BY <2>5 DEF Turns!UseSendFile, Turns!UseSendVoice
    <3> QED BY <1>7, <2>1, <3>1 DEF Turns!Sends
  <2>6. CASE Turns!TellProgress \/ Turns!RunFails \/ Turns!RunEnds
    <3>1. PICK p, words : Turns!Says(p, words)
      BY <2>6 DEF Turns!TellProgress, Turns!RunFails, Turns!RunEnds
    <3> QED BY <1>7, <2>1, <3>1 DEF Turns!Says
  <2> QED BY <1>8, <2>2, <2>3, <2>4, <2>5, <2>6
<1>9. CASE Turns!Restart
  <2>1. /\ turn' = Turns!NoTurn /\ jobs' = <<>> /\ run' = Turns!NoRun /\ handled' = <<>>
        /\ usernames' = Turns!NoneKnown /\ UNCHANGED <<strict, feed>>
    BY <1>9 DEF Turns!Restart
  <2>2. IsList(<<>>) /\ Range(<<>>) = {} /\ LastIsLatest(<<>>)
    BY EmptySeq, LenProperties DEF IsList, LastIsLatest, Range
  <2> QED BY <2>1, <2>2 DEF AddressInv, Turns!NoTurn, Turns!NoRun, Turns!NoneKnown
<1>10. \/ UNCHANGED <<strict, feed, handled, usernames, turn, jobs, run>>
       \/ Turns!Take \/ Turns!ModelAnswers \/ Turns!Enqueue \/ Turns!StartJob \/ Turns!Restart
       \/ Turns!FileThere \/ Turns!BeginDownload \/ Turns!Downloaded \/ Turns!DownloadFails
       \/ Turns!ReactAtOnce \/ Turns!ReactNot \/ Turns!UseReact \/ Turns!UseSendFile
       \/ Turns!UseSendVoice \/ Turns!TellProgress \/ Turns!RunFails \/ Turns!RunEnds
  BY DEF Turns!Next, turnVars, Turns!GetUpdates, Turns!GetUpdatesFails
<1> QED BY <1>1, <1>2, <1>3, <1>4, <1>5, <1>6, <1>8, <1>9, <1>10

(* Only messages of allowed chats become jobs, in a group only those that    *)
(* are for the bot; and a job is told of nobody it saw before a reset.       *)
THEOREM JobsAreAddressed == Spec => []OnlyAddressedRun
<1>1. Init => AddressInv
  <2>1. Init => /\ turn = Turns!NoTurn /\ jobs = <<>> /\ run = Turns!NoRun /\ handled = <<>>
                /\ usernames = Turns!NoneKnown
    BY DEF Init, Turns!Init
  <2>2. IsList(<<>>) /\ Range(<<>>) = {} /\ LastIsLatest(<<>>)
    BY EmptySeq, LenProperties DEF IsList, LastIsLatest, Range
  <2>3. Turns!NoTurn.pc = "none" /\ Turns!NoRun.pc = "none" /\ "pc" \in DOMAIN Turns!NoRun
        /\ DOMAIN Turns!NoneKnown = Turns!Chats /\ \A c \in Turns!Chats : Turns!NoneKnown[c] = {}
    BY DEF Turns!NoTurn, Turns!NoRun, Turns!NoneKnown
  <2> QED BY ONLY <2>1, <2>2, <2>3 DEF AddressInv
<1>2. TurnInv /\ AddressInv /\ [Next]_vars => AddressInv' BY PartsRest, AddressGoesOn
<1>3. AddressInv => OnlyAddressedRun
  <2> SUFFICES ASSUME AddressInv, NEW j \in Turns!AllJobs
               PROVE  LET m == feed[j.update]
                          resets == {u \in Turns!Range(handled) :
                                       u < j.update /\ feed[u].chat = m.chat
                                       /\ Turns!Command(feed[u]) = "/reset"}
                      IN /\ Turns!Allowed(m.chat)
                         /\ m.group => \/ Turns!Command(m) = "/ask" \/ m.reply.to = "bot"
                                       \/ m.named \/ BotName \in Turns!Range(m.text)
                                       \/ ~strict /\ j.why = "model"
                                          /\ Turns!Range(m.text) \intersect Aliases # {}
                         /\ \A user \in j.users : \E u \in Turns!Range(handled) :
                              /\ u <= j.update /\ \A r \in resets : r < u
                              /\ feed[u].chat = m.chat /\ user \in feed[u].users
    BY DEF OnlyAddressedRun, Turns!OnlyAddressedRun
  <2>1. JobOK(j, Range(handled)) BY DEF AddressInv, Turns!AllJobs, Turns!Range, Range
  <2> QED BY <2>1 DEF JobOK, MayRun, IsReset, Turns!Range, Range
<1> QED BY TurnInvariance, <1>1, <1>2, <1>3, PTL DEF Spec
------------------------------------------------------------------------------
LEMMA FirstIsIn ==
  ASSUME NEW s, IsList(s), NEW set \in SUBSET Range(s), set # {}
  PROVE  Mail!FirstIn(s, set) \in set
<1> DEFINE T == {i \in DOMAIN s : s[i] \in set}
           First(i) == s[i] \in set /\ \A j \in 1..(i - 1) : s[j] \notin set
<1>1. DOMAIN s = 1..Len(s) /\ Len(s) \in Nat BY LenProperties DEF IsList
<1>2. T \in SUBSET Nat /\ T # {} BY <1>1 DEF Range
<1> HIDE DEF T
<1>3. PICK i \in T : \A j \in T : i <= j BY <1>2, Least
<1>4. i \in DOMAIN s /\ s[i] \in set /\ i \in Nat BY <1>2, <1>3 DEF T
<1>5. ASSUME NEW j \in 1..(i - 1) PROVE s[j] \notin set
  BY <1>1, <1>3, <1>4 DEF T
<1>6. \E k \in DOMAIN s : First(k) BY <1>4, <1>5
<1>7. First(CHOOSE k \in DOMAIN s : First(k)) BY <1>6
<1> QED BY <1>7 DEF Mail!FirstIn

(* A target with a negative number is public, unless that is the contact's   *)
(* id.                                                                       *)
LEMMA NegativeIsPublic ==
  ASSUME NEW c \in Cases, NEW t, t = Mail!Resolve(c.route.contact, c.route), t.ok, t.chat < 0
  PROVE  \/ Mail!IsPublic(c.route.contact, c.route, t)
         \/ Mail!NamedByNumber(c.route.contact, c.route)
<1> DEFINE chats == Mail!PreferredChats(c.route.contact, c.route)
           all == c.route.contact.chats
           x == Mail!FirstIn(all, chats)
<1>1. chats \in SUBSET Range(all) BY DEF Mail!PreferredChats, Mail!Range, Range
<1>2. IsList(all) /\ \A y \in Range(all) : y.id \in Int /\ (y.type = "private" => y.id >= 0)
  BY CasesAssumption DEF IsList
<1> HIDE DEF chats, all
<1>3. CASE chats # {}
  <2>1. t = [ok |-> TRUE, chat |-> x.id, type |-> x.type]
    BY <1>3 DEF Mail!Resolve, Mail!ChatTarget, chats, all
  <2>2. x \in Range(all) BY <1>1, <1>2, <1>3, FirstIsIn
  <2> HIDE DEF x
  <2>3. t.chat \in Int /\ t.type # "private" BY <1>2, <2>1, <2>2
  <2> QED BY <2>3 DEF Mail!IsPublic
<1>4. CASE chats = {}
  <2> DEFINE id == Mail!FirstTelegramId(c.route.contact)
  <2>1. CASE id = "tg negative" BY <1>4, <2>1 DEF Mail!NamedByNumber, chats
  <2>2. CASE id # "tg negative"
    <3>1. t.chat \in {1, 2} BY <1>4, <2>2 DEF Mail!Resolve, Mail!NoTarget, chats
    <3> QED BY <3>1
  <2> QED BY <2>1, <2>2
<1> QED BY <1>3, <1>4

ConsentInv ==
  /\ \E c \in Cases : input = c.input /\ route = c.route
  /\ stage \in {"telegram", "in chat"} =>
       /\ route.allowHuman
       /\ target.chat < 0 =>
            route.allowPublic \/ Mail!NamedByNumber(route.contact, route)

LEMMA ConsentGoesOn ==
  ASSUME ConsentInv, [Mail!Next]_mailVars
  PROVE  ConsentInv'
<1>1. CASE Mail!Send
  <2> DEFINE t == Mail!Resolve(route.contact, route)
  <2>1. /\ target' = t
        /\ stage' = IF ~t.ok THEN "sender"
                    ELSE IF ~route.allowHuman
                            \/ (~route.allowPublic /\ Mail!IsPublic(route.contact, route, t))
                      THEN "refused by router" ELSE "telegram"
        /\ UNCHANGED <<input, route>>
    BY <1>1 DEF Mail!Send
  <2>2. t.ok /\ t.chat < 0 =>
          Mail!IsPublic(route.contact, route, t) \/ Mail!NamedByNumber(route.contact, route)
    BY NegativeIsPublic DEF ConsentInv
  <2> HIDE DEF t
  <2> QED BY <2>1, <2>2 DEF ConsentInv
<1>2. CASE Mail!SendTelegram BY <1>2 DEF Mail!SendTelegram, ConsentInv
<1>3. CASE UNCHANGED <<input, route, stage, target>> BY <1>3 DEF ConsentInv
<1>4. CASE UNCHANGED <<input, route>> /\ stage' \notin {"telegram", "in chat"}
  BY <1>4 DEF ConsentInv
<1>5. \/ Mail!Send \/ Mail!SendTelegram \/ UNCHANGED <<input, route, stage, target>>
      \/ UNCHANGED <<input, route>> /\ stage' \notin {"telegram", "in chat"}
  BY DEF Mail!Next, mailVars, Mail!Accept, Mail!RefusedByCaller, Mail!SendDecision, Mail!SendMAEP,
         Mail!PushData, Mail!Connect, Mail!NotConnected, Mail!Receive
<1> QED BY <1>1, <1>2, <1>3, <1>4, <1>5

(* For any contacts and routes: a person is written to only where that is    *)
(* allowed, and a group only where public messages are, unless the contact   *)
(* has no chat to choose and its id is the number of the group.              *)
THEOREM GroupsConsent == Spec => []GroupNeedsConsent
<1>1. Init => ConsentInv BY DEF Init, Mail!Init, ConsentInv
<1>2. ConsentInv /\ [Next]_vars => ConsentInv' BY PartsRest, ConsentGoesOn
<1>3. ConsentInv => GroupNeedsConsent
  BY DEF ConsentInv, GroupNeedsConsent, Mail!GroupNeedsConsent
<1> QED BY <1>1, <1>2, <1>3, PTL DEF Spec
------------------------------------------------------------------------------
(* Direct addresses come before those through a relay, also when the ones    *)
(* tried are put before those still to be tried.                             *)
InOrder(s) == \A i, j \in 1..Len(s) : s[i] = "relay" /\ s[j] = "direct" => j < i

Dialling(t, d) ==
  /\ t \in Seq({"direct", "relay"}) /\ d \in Seq({"direct", "relay"})
  /\ InOrder(t) /\ InOrder(d)
  /\ (\E i \in 1..Len(t) : t[i] = "relay") => \A j \in 1..Len(d) : d[j] # "direct"

LEMMA DialOrderInOrder ==
  ASSUME NEW a \in Seq({"direct", "relay"})
  PROVE  Dialling(<<>>, Mail!DialOrder(a))
<1> DEFINE S == {i \in DOMAIN a : a[i] = "direct"}
           n == Len(a)
           k == Cardinality(S)
           d == Mail!DialOrder(a)
<1>1. n \in Nat /\ DOMAIN a = 1..n BY LenProperties
<1>2. IsFiniteSet(1..n) BY <1>1, FS_Interval
<1>3. IsFiniteSet(S) BY <1>1, <1>2, FS_Subset
<1>4. k \in Nat BY <1>3, FS_CardinalityType
<1>5. d = [i \in 1..n |-> IF i <= k THEN "direct" ELSE "relay"]
  <2>1. d = [i \in DOMAIN a |-> IF i <= k THEN "direct" ELSE "relay"]
    BY DEF Mail!DialOrder, Mail!Cardinality, Cardinality
  <2> HIDE DEF d, k, n
  <2> QED BY <1>1, <2>1
<1> HIDE DEF d, k, n
<1>6. d \in [1..n -> {"direct", "relay"}] BY <1>5
<1>7. d \in Seq({"direct", "relay"}) BY <1>1, <1>6, SeqDef DEF n
<1>8. DOMAIN d = 1..n /\ DOMAIN d = 1..Len(d) BY <1>6, <1>7, LenProperties
<1>9. InOrder(d) BY <1>4, <1>1, <1>5, <1>8 DEF InOrder, n
<1>10. <<>> \in Seq({"direct", "relay"}) /\ Len(<<>>) = 0 BY EmptySeq
<1> QED BY <1>7, <1>9, <1>10 DEF Dialling, InOrder, d

LEMMA DialOn ==
  ASSUME NEW t, NEW d, Dialling(t, d), d # <<>>
  PROVE  Dialling(Append(t, Head(d)), Tail(d))
<1> DEFINE S == {"direct", "relay"}
           u == Append(t, Head(d))
           e == Tail(d)
<1>1. /\ t \in Seq(S) /\ d \in Seq(S) /\ Len(t) \in Nat /\ Len(d) \in Nat \ {0}
  BY EmptySeq, LenProperties DEF Dialling
<1>2. /\ Head(d) \in S /\ e \in Seq(S) /\ Len(e) = Len(d) - 1
      /\ \A i \in 1..Len(e) : e[i] = d[i + 1]
  BY <1>1, HeadTailProperties DEF Dialling
<1>3. Head(d) = d[1] OBVIOUS
<1>4. /\ u \in Seq(S) /\ Len(u) = Len(t) + 1 /\ u[Len(t) + 1] = Head(d)
      /\ \A i \in 1..Len(t) : u[i] = t[i]
  BY <1>1, <1>2, AppendProperties
<1> DEFINE h == Head(d)
<1>5. h = d[1] /\ u[Len(t) + 1] = h BY <1>3, <1>4
<1> HIDE DEF u, e, h, S
<1>6. InOrder(u)
  <2> SUFFICES ASSUME NEW i \in 1..Len(u), NEW j \in 1..Len(u), u[i] = "relay", u[j] = "direct"
               PROVE  j < i
    BY DEF InOrder
  <2>1. CASE i \in 1..Len(t) /\ j \in 1..Len(t) BY <1>4, <2>1 DEF Dialling, InOrder
  <2>2. CASE i = Len(t) + 1
    <3>1. j # i OBVIOUS
    <3> QED BY <1>1, <1>4, <2>2, <3>1
  <2>3. CASE i \in 1..Len(t) /\ j = Len(t) + 1
    <3>1. t[i] = "relay" /\ d[1] = "direct" BY <1>4, <1>5, <2>3
    <3>2. 1 \in 1..Len(d) BY <1>1
    <3> QED BY <2>3, <3>1, <3>2 DEF Dialling
  <2> QED BY <1>1, <1>4, <2>1, <2>2, <2>3
<1>7. InOrder(e)
  <2> SUFFICES ASSUME NEW i \in 1..Len(e), NEW j \in 1..Len(e), e[i] = "relay", e[j] = "direct"
               PROVE  j < i
    BY DEF InOrder
  <2>1. i + 1 \in 1..Len(d) /\ j + 1 \in 1..Len(d) BY <1>1, <1>2
  <2>2. d[i + 1] = "relay" /\ d[j + 1] = "direct" BY <1>2
  <2>3. j + 1 < i + 1 BY <2>1, <2>2 DEF Dialling, InOrder
  <2> QED BY <2>3
<1>8. ASSUME NEW i \in 1..Len(u), u[i] = "relay", NEW j \in 1..Len(e) PROVE e[j] # "direct"
  <2>1. j + 1 \in 1..Len(d) /\ e[j] = d[j + 1] /\ 1 \in 1..Len(d) BY <1>1, <1>2
  <2>2. CASE i \in 1..Len(t)
    <3>1. t[i] = "relay" BY <1>4, <1>8, <2>2
    <3> QED BY <2>1, <2>2, <3>1 DEF Dialling
  <2>3. CASE i = Len(t) + 1
    <3>1. d[1] = "relay" BY <1>5, <1>8, <2>3
    <3>2. ~(j + 1 < 1) OBVIOUS
    <3> QED BY <2>1, <3>1, <3>2 DEF Dialling, InOrder
  <2> QED BY <1>1, <1>4, <2>2, <2>3
<1> QED BY <1>2, <1>4, <1>6, <1>7, <1>8 DEF Dialling, u, e, h, S
------------------------------------------------------------------------------
(* A message with a text, and a session its topic allows.                    *)
WellFormed == /\ Mail!Present(Mail!Meant("text"))
              /\ IF input.dialogue THEN Mail!Meant("session") = "v7"
                 ELSE ~Mail!Present(Mail!Meant("session")) \/ Mail!Meant("session") = "v7"

AsGiven == WellFormed =>
  /\ Mail!Kept(payload.session) = Mail!Kept(Mail!Meant("session"))
  /\ input.origin = "tool" => Mail!Kept(payload.reply) = Mail!Kept(Mail!Meant("reply"))

(* What the caller accepts: a text, of which it makes an envelope, or an     *)
(* envelope, which it leaves as it is.                                       *)
FromCaller ==
  \/ /\ Mail!TextAccepted(input)
     /\ payload = Mail!Envelope("said", "said", Mail!Kept(input.session),
                    IF input.origin = "tool" THEN Mail!Kept(input.reply) ELSE "absent")
  \/ /\ Mail!PayloadAccepted(input)
     /\ payload = input.payload

InStages == {"service", "router", "telegram", "sender"}
NodeStages == {"node", "dial", "peer", "in inbox"}

MailInv ==
  /\ \E c \in Cases : input = c.input /\ route = c.route
  /\ stage \in InStages => input.origin = "tool" /\ FromCaller
  /\ stage \in NodeStages => Mail!ValidEnvelope(payload) /\ AsGiven
  /\ stage = "refused by sender" => ~WellFormed
  /\ stage # "refused by peer"
  /\ stage = "refused by node" => \/ ~route.contact.peer
                                  \/ ~route.allowed
                                  \/ route.given = <<>> /\ route.known = <<>>
  /\ stage \notin {"dial", "peer", "in inbox"} => tried = <<>> \/ stage \in {"not reached"}
  /\ stage \in {"dial", "peer", "in inbox"} => Dialling(tried, dial)

Sessions == {"absent", "blank", "not text", "v7", "other"}

LEMMA KeptTwice == \A v : Mail!Kept(Mail!Kept(v)) = Mail!Kept(v)
BY DEF Mail!Kept, Mail!Present, Mail!IsText

SenderKeeps ==
  LET s == Mail!Extra(payload, payload.session)
      r == Mail!Extra(payload, payload.reply)
  IN WellFormed => /\ s \in {"absent", "v7"} /\ (input.dialogue => s = "v7")
                   /\ s = Mail!Kept(Mail!Meant("session"))
                   /\ input.origin = "tool" => r = Mail!Kept(Mail!Meant("reply"))

CallerAccepts ==
  input.session \in Sessions /\ FromCaller =>
    SenderKeeps /\ (input.origin # "tool" => Mail!ValidEnvelope(payload) /\ AsGiven)

LEMMA WhatCallerAccepts == CallerAccepts
<1> SUFFICES ASSUME input.session \in Sessions, FromCaller
             PROVE  SenderKeeps /\ (input.origin # "tool" => Mail!ValidEnvelope(payload) /\ AsGiven)
  BY DEF CallerAccepts
<1> USE DEF Mail!Present, Mail!IsText, Mail!Kept, Sessions
<1>1. CASE /\ Mail!TextAccepted(input)
           /\ payload = Mail!Envelope("said", "said", Mail!Kept(input.session),
                          IF input.origin = "tool" THEN Mail!Kept(input.reply) ELSE "absent")
  <2>1. /\ payload.json /\ payload.id = "said" /\ payload.text = "said" /\ payload.sent = "time"
        /\ payload.session = Mail!Kept(input.session)
        /\ payload.reply = IF input.origin = "tool" THEN Mail!Kept(input.reply) ELSE "absent"
    BY <1>1 DEF Mail!Envelope
  <2>2. /\ Mail!Present(input.text) /\ input.session # "other"
        /\ input.dialogue => Mail!Present(input.session)
    BY <1>1 DEF Mail!TextAccepted
  <2>3. Mail!Meant("session") = input.session /\ Mail!Meant("reply") = input.reply
    BY <2>2 DEF Mail!Meant
  <2>4. Mail!ValidEnvelope(payload) BY <2>1, <2>2 DEF Mail!ValidEnvelope
  <2>5. AsGiven BY <2>1, <2>3, KeptTwice DEF AsGiven
  <2>6. \A v : Mail!Extra(payload, v) = Mail!Kept(v)
    BY <2>1 DEF Mail!Extra, Mail!HasText
  <2>7. /\ Mail!Kept(input.session) \in {"absent", "v7"}
        /\ input.dialogue => Mail!Kept(input.session) = "v7"
    BY <2>2
  <2>8. SenderKeeps
    <3>1. Mail!Extra(payload, payload.session) = Mail!Kept(input.session) BY <2>1, <2>6, KeptTwice
    <3>2. input.origin = "tool" => Mail!Extra(payload, payload.reply) = Mail!Kept(input.reply)
      <4>1. input.origin = "tool" => payload.reply = Mail!Kept(input.reply) BY <2>1
      <4> QED BY ONLY <2>6, <4>1, KeptTwice
    <3> QED BY ONLY <2>3, <2>7, <3>1, <3>2 DEF SenderKeeps
  <2> QED BY <2>4, <2>5, <2>8
<1>2. CASE Mail!PayloadAccepted(input) /\ payload = input.payload
  <2>1. /\ input.origin = "tool" /\ ~Mail!Present(input.text) /\ payload.json
        /\ input.dialogue => payload.session = "v7"
    BY <1>2 DEF Mail!PayloadAccepted
  <2>2. \A f : Mail!Meant(f) = payload[f] BY <1>2, <2>1 DEF Mail!Meant
  <2>3. WellFormed => Mail!HasText(payload) BY <2>2 DEF WellFormed, Mail!HasText
  <2>4. WellFormed => \A v : Mail!Extra(payload, v) = Mail!Kept(v)
    BY <2>1, <2>3 DEF Mail!Extra
  <2>5. WellFormed => payload.session = "v7" \/ (~input.dialogue /\ ~Mail!Present(payload.session))
    BY <2>2 DEF WellFormed
  <2> QED BY <2>1, <2>2, <2>4, <2>5 DEF SenderKeeps
<1> QED BY <1>1, <1>2 DEF FromCaller

LEMMA MailGoesOn ==
  ASSUME MailInv, [Mail!Next]_mailVars
  PROVE  MailInv'
<1>0. PICK c \in Cases : input = c.input /\ route = c.route BY DEF MailInv
<1>a. input.session \in Sessions BY <1>0, CasesAssumption DEF Sessions
<1>b. UNCHANGED <<input, route>>
  BY DEF mailVars, Mail!Next, Mail!Accept, Mail!RefusedByCaller, Mail!SendDecision, Mail!Send,
         Mail!SendTelegram, Mail!SendMAEP, Mail!PushData, Mail!Connect, Mail!NotConnected,
         Mail!Receive
<1>c. \E k \in Cases : input' = k.input /\ route' = k.route BY <1>0, <1>b
<1>d. WellFormed' = WellFormed BY <1>b DEF WellFormed, Mail!Meant
<1>e. payload' = payload => AsGiven' = AsGiven /\ FromCaller' = FromCaller
      /\ Mail!ValidEnvelope(payload)' = Mail!ValidEnvelope(payload)
  BY <1>b, <1>d DEF AsGiven, FromCaller, Mail!ValidEnvelope, Mail!Meant
<1>1. CASE Mail!Accept
  <2>1. /\ stage = "called" /\ FromCaller' /\ tried' = tried
        /\ stage' = IF input.origin = "tool" THEN "service" ELSE "node"
    BY <1>1 DEF Mail!Accept, FromCaller
  <2>a. CallerAccepts' BY WhatCallerAccepts, PTL
  <2>2. input'.origin # "tool" => (Mail!ValidEnvelope(payload) /\ AsGiven)'
    BY <1>a, <1>b, <2>1, <2>a DEF CallerAccepts
  <2> QED BY <1>b, <1>c, <2>1, <2>2 DEF MailInv, InStages, NodeStages
<1>2. CASE Mail!SendMAEP
  <2> DEFINE s == Mail!Extra(payload, payload.session)
             r == Mail!Extra(payload, payload.reply)
             bad == (input.dialogue /\ s = "absent") \/ s \notin {"absent", "v7"}
  <2>1. /\ stage = "sender" /\ tried' = tried
        /\ bad => stage' = "refused by sender"
        /\ ~bad => payload' = Mail!Envelope("said", "said", s, r) /\ stage' = "node"
    BY <1>2 DEF Mail!SendMAEP
  <2>2. input.origin = "tool" /\ FromCaller /\ tried = <<>> BY <2>1 DEF MailInv, InStages
  <2>3. WellFormed => /\ ~bad /\ s = Mail!Kept(Mail!Meant("session"))
                      /\ r = Mail!Kept(Mail!Meant("reply"))
    BY <1>a, <2>2, WhatCallerAccepts DEF CallerAccepts, SenderKeeps
  <2>4. CASE bad BY <1>c, <1>d, <2>1, <2>2, <2>3, <2>4 DEF MailInv, InStages, NodeStages
  <2>5. CASE ~bad
    <3>1. r # "not text" BY DEF Mail!Extra, Mail!Kept, Mail!Present, Mail!IsText
    <3> HIDE DEF s, r
    <3>2. /\ payload'.json /\ payload'.id = "said" /\ payload'.text = "said"
          /\ payload'.sent = "time" /\ payload'.session = s /\ payload'.reply = r
      BY <2>1, <2>5 DEF Mail!Envelope
    <3>3. Mail!ValidEnvelope(payload)'
      BY <1>b, <2>5, <3>1, <3>2 DEF Mail!ValidEnvelope, Mail!Present, Mail!IsText
    <3>4. AsGiven'
      <4>1. Mail!Meant("session")' = Mail!Meant("session")
            /\ Mail!Meant("reply")' = Mail!Meant("reply")
        BY <1>b DEF Mail!Meant
      <4> QED BY <1>d, <2>3, <3>2, <4>1, KeptTwice DEF AsGiven
    <3> QED BY <1>c, <2>1, <2>2, <2>5, <3>3, <3>4 DEF MailInv, InStages, NodeStages
  <2> QED BY <2>4, <2>5
<1>3. CASE Mail!PushData
  <2>1. stage = "node" /\ UNCHANGED <<payload, tried>> BY <1>3 DEF Mail!PushData
  <2>2. Mail!ValidEnvelope(payload) /\ AsGiven /\ tried = <<>> BY <2>1 DEF MailInv, NodeStages
  <2>3. CASE route.contact.peer /\ route.allowed /\ Mail!Addresses # <<>>
    <3>1. stage' = "dial" /\ dial' = Mail!DialOrder(Mail!Addresses)
      BY <1>3, <2>2, <2>3 DEF Mail!PushData
    <3>2. Mail!Addresses \in Seq({"direct", "relay"})
      BY <1>0, CasesAssumption DEF Mail!Addresses
    <3>3. Dialling(tried, dial)' BY <2>1, <2>2, <3>1, <3>2, DialOrderInOrder
    <3> QED BY <1>c, <1>e, <2>1, <2>2, <3>1, <3>3 DEF MailInv, InStages, NodeStages
  <2>4. CASE ~(route.contact.peer /\ route.allowed /\ Mail!Addresses # <<>>)
    <3>1. stage' = "refused by node" BY <1>3, <2>4 DEF Mail!PushData
    <3> QED BY <1>b, <1>c, <2>1, <2>2, <2>4, <3>1 DEF MailInv, InStages, NodeStages, Mail!Addresses
  <2> QED BY <2>3, <2>4
<1>4. CASE Mail!Connect
  <2>1. /\ stage = "dial" /\ dial # <<>> /\ tried' = Append(tried, Head(dial)) /\ dial' = Tail(dial)
        /\ stage' \in {"dial", "peer"} /\ payload' = payload
    BY <1>4 DEF Mail!Connect
  <2>2. Dialling(tried, dial)' BY <2>1, DialOn DEF MailInv
  <2> QED BY <1>c, <1>e, <2>1, <2>2 DEF MailInv, InStages, NodeStages
<1>5. CASE Mail!Receive
  <2>1. stage = "peer" /\ UNCHANGED <<payload, dial, tried>> BY <1>5 DEF Mail!Receive
  <2>2. Mail!ValidEnvelope(payload) BY <2>1 DEF MailInv, NodeStages
  <2>3. stage' \in {"in inbox", "not reached"} BY <1>5, <2>2 DEF Mail!Receive
  <2> QED BY <1>c, <1>e, <2>1, <2>3 DEF MailInv, InStages, NodeStages
<1>6. CASE Mail!SendDecision \/ Mail!Send \/ Mail!SendTelegram \/ Mail!NotConnected
           \/ Mail!RefusedByCaller
  <2>1. /\ UNCHANGED <<payload, tried>>
        /\ stage' \in {"router", "refused by service", "sender", "refused by router", "telegram",
                       "in chat", "not reached", "refused by caller"}
        /\ stage' \in InStages => stage \in InStages
        /\ tried = <<>> \/ stage' = "not reached"
    BY <1>6 DEF Mail!SendDecision, Mail!Send, Mail!SendTelegram, Mail!NotConnected,
                Mail!RefusedByCaller, InStages, MailInv
  <2> QED BY <1>b, <1>c, <1>e, <2>1 DEF MailInv, InStages, NodeStages
<1>7. CASE UNCHANGED mailVars
  BY <1>7, <1>c, <1>d, <1>e DEF MailInv, mailVars, InStages, NodeStages, Dialling, InOrder
<1> QED BY <1>1, <1>2, <1>3, <1>4, <1>5, <1>6, <1>7 DEF Mail!Next

(* No later stage refuses for its form what the tool or the command accepts; *)
(* a well-formed message that arrives has the session and the reply-to it    *)
(* was given, and no relay was tried before a direct address.                *)
THEOREM AcceptedIsDelivered == Spec => []NeverRefusedLate
<1>1. Init => MailInv
  BY DEF Init, Mail!Init, MailInv, InStages, NodeStages
<1>2. MailInv /\ [Next]_vars => MailInv' BY PartsRest, MailGoesOn
<1>3. MailInv => NeverRefusedLate
  BY DEF MailInv, NeverRefusedLate, Mail!NeverRefusedLate, WellFormed, AsGiven, NodeStages,
         Dialling, InOrder
<1> QED BY <1>1, <1>2, <1>3, PTL DEF Spec
------------------------------------------------------------------------------
(* A record is listed before those that are older.                           *)
Sorted(s) == \A a, b \in 1..Len(s) : a <= b => At[s[a]] >= At[s[b]]

Inserted(s, i, x, t) ==
  /\ Len(t) = Len(s) + 1
  /\ \A k \in 1..Len(s) : (k < i => t[k] = s[k]) /\ (k >= i => t[k + 1] = s[k])
  /\ t[i] = x

LEMMA InsertAtIs ==
  ASSUME NEW T, NEW s \in Seq(T), NEW i \in 1..(Len(s) + 1), NEW x \in T, NEW t, t = InsertAt(s, i, x)
  PROVE  t \in Seq(T) /\ Inserted(s, i, x, t)
<1> DEFINE n == Len(s)
           a == SubSeq(s, 1, i - 1)
           b == <<x>>
           c == SubSeq(s, i, n)
           ab == a \o b
<1>1. n \in Nat /\ \A k \in 1..n : s[k] \in T BY LenProperties
<1>2. i \in 1..(n + 1) OBVIOUS
<1> HIDE DEF n
<1>3. a \in Seq(T) /\ Len(a) = i - 1 /\ \A k \in 1..(i - 1) : a[k] = s[k]
  <2>1. 1 \in Int /\ i - 1 \in Int /\ (\A k \in 1..(i - 1) : s[k] \in T) /\ i \in Nat \ {0} BY <1>1, <1>2
  <2>2. /\ a \in Seq(T) /\ Len(a) = IF 1 <= i - 1 THEN (i - 1) - 1 + 1 ELSE 0
        /\ \A k \in 1..((i - 1) - 1 + 1) : a[k] = s[1 + k - 1]
    BY <2>1, SubSeqProperties
  <2> HIDE DEF a
  <2> QED BY <2>1, <2>2
<1>4. c \in Seq(T) /\ Len(c) = n - i + 1 /\ \A k \in 1..(n - i + 1) : c[k] = s[i + k - 1]
  <2>1. i \in Int /\ n \in Int /\ \A k \in i..n : s[k] \in T BY <1>1, <1>2
  <2>2. /\ c \in Seq(T) /\ Len(c) = IF i <= n THEN n - i + 1 ELSE 0
        /\ \A k \in 1..(n - i + 1) : c[k] = s[i + k - 1]
    BY <2>1, SubSeqProperties
  <2> HIDE DEF c
  <2> QED BY <1>1, <1>2, <2>2
<1>5. b \in Seq(T) /\ Len(b) = 1 /\ b[1] = x OBVIOUS
<1> HIDE DEF a, b, c
<1>6. Concats(T, a, b, ab) BY <1>3, <1>5, ConcatIs
<1> HIDE DEF ab
<1>7. t = ab \o c BY DEF InsertAt, ab, a, b, c, n
<1>8. Concats(T, ab, c, t)
  <2>1. ab \in Seq(T) BY <1>6 DEF Concats
  <2> QED BY <1>4, <1>7, <2>1, ConcatIs
<1>9. Len(ab) = i /\ (\A k \in 1..(i - 1) : ab[k] = s[k]) /\ ab[i] = x
  <2>1. Len(ab) = (i - 1) + 1 /\ \A k \in 1..(i - 1) : ab[k] = a[k] BY <1>3, <1>5, <1>6 DEF Concats
  <2>2. \A k \in ((i - 1) + 1)..((i - 1) + 1) : ab[k] = b[k - (i - 1)]
    BY <1>3, <1>5, <1>6 DEF Concats
  <2>3. i \in ((i - 1) + 1)..((i - 1) + 1) /\ i - (i - 1) = 1 /\ (i - 1) + 1 = i BY <1>1, <1>2
  <2> QED BY <1>3, <1>5, <2>1, <2>2, <2>3
<1>10. Len(t) = n + 1 BY <1>1, <1>2, <1>4, <1>8, <1>9 DEF Concats
<1>11. ASSUME NEW k \in 1..n PROVE (k < i => t[k] = s[k]) /\ (k >= i => t[k + 1] = s[k])
  <2>1. CASE k < i
    <3>1. k \in 1..Len(ab) /\ k \in 1..(i - 1) BY <1>1, <1>2, <1>9, <1>11, <2>1
    <3> QED BY <1>8, <1>9, <2>1, <3>1 DEF Concats
  <2>2. CASE k >= i
    <3>1. k + 1 \in (Len(ab) + 1)..(Len(ab) + Len(c)) /\ k + 1 - Len(ab) \in 1..(n - i + 1)
      BY <1>1, <1>2, <1>4, <1>9, <1>11, <2>2
    <3>2. t[k + 1] = c[k + 1 - Len(ab)] BY <1>8, <3>1 DEF Concats
    <3>3. c[k + 1 - Len(ab)] = s[i + (k + 1 - Len(ab)) - 1] BY <1>4, <3>1
    <3>4. i + (k + 1 - Len(ab)) - 1 = k BY <1>1, <1>2, <1>9, <1>11
    <3> QED BY <1>1, <1>2, <1>11, <2>2, <3>2, <3>3, <3>4
  <2> QED BY <1>1, <1>2, <1>11, <2>1, <2>2
<1>12. t[i] = x
  <2>1. i \in 1..Len(ab) BY <1>1, <1>2, <1>9
  <2> QED BY <1>8, <1>9, <2>1 DEF Concats
<1> QED BY <1>8, <1>10, <1>11, <1>12 DEF Concats, Inserted, n

LEMMA PlaceExists ==
  ASSUME NEW T, \A r \in T : At[r] \in Int, NEW s \in Seq(T), NEW r \in T
  PROVE  \E i \in 1..(Len(s) + 1) : /\ \A k \in 1..(i - 1) : ~Log!Newer(r, s[k])
                                    /\ i <= Len(s) => Log!Newer(r, s[i])
<1>1. PICK n \in Nat : n = Len(s) BY LenProperties
<1> DEFINE G == {k \in 1..n : Log!Newer(r, s[k])}
<1>2. CASE G = {}
  <2>1. n + 1 \in 1..(n + 1) /\ ~(n + 1 <= n) /\ \A k \in 1..((n + 1) - 1) : ~Log!Newer(r, s[k]) BY <1>2
  <2> QED BY <1>1, <2>1
<1>3. CASE G # {}
  <2>1. G \in SUBSET Nat OBVIOUS
  <2>2. PICK i \in G : \A k \in G : i <= k
    <3> HIDE DEF G
    <3> QED BY <1>3, <2>1, Least
  <2>3. i \in 1..n /\ \A k \in 1..(i - 1) : k \notin G /\ k \in 1..n BY <2>2
  <2>4. i \in 1..(n + 1) /\ (\A k \in 1..(i - 1) : ~Log!Newer(r, s[k])) /\ Log!Newer(r, s[i]) BY <2>2, <2>3
  <2> QED BY <1>1, <2>4
<1> QED BY <1>2, <1>3

LEMMA PlacedIs ==
  ASSUME NEW T, \A r \in T : At[r] \in Int, NEW s \in Seq(T), Sorted(s), NEW r \in T,
         NEW t, t = Log!Placed(s, r)
  PROVE  t \in Seq(T) /\ Sorted(t) /\ \E i \in 1..(Len(s) + 1) : Inserted(s, i, r, t)
<1> DEFINE OK(i) == /\ \A k \in 1..(i - 1) : ~Log!Newer(r, s[k])
                    /\ i <= Len(s) => Log!Newer(r, s[i])
<1>1. PICK i : i = Log!Place(s, r) OBVIOUS
<1>2. i \in 1..(Len(s) + 1) /\ OK(i)
  <2>1. \E j \in 1..(Len(s) + 1) : OK(j) BY PlaceExists
  <2>2. i = CHOOSE j \in 1..(Len(s) + 1) : OK(j) BY <1>1 DEF Log!Place
  <2> HIDE DEF OK
  <2> QED BY <2>1, <2>2
<1>3. t = InsertAt(s, i, r) BY <1>1 DEF Log!Placed, Log!InsertAt, InsertAt
<1>4. t \in Seq(T) /\ Inserted(s, i, r, t) BY <1>2, <1>3, InsertAtIs
<1>5. PICK n \in Nat : n = Len(s) BY LenProperties
<1>6. \A k \in 1..n : s[k] \in T /\ At[s[k]] \in Int BY <1>5, LenProperties
<1>7. Len(t) = n + 1 /\ t[i] = r /\ i \in 1..(n + 1) /\ At[r] \in Int BY <1>2, <1>4, <1>5 DEF Inserted
<1>8. \A k \in 1..n : (k < i => t[k] = s[k]) /\ (k >= i => t[k + 1] = s[k]) BY <1>4, <1>5 DEF Inserted
<1>9. \A k \in 1..n : k < i => At[s[k]] >= At[r] BY <1>2, <1>5, <1>6, <1>7 DEF Log!Newer
<1>10. \A k \in 1..n : k >= i => At[r] >= At[s[k]]
  <2> TAKE k \in 1..n
  <2> SUFFICES ASSUME k >= i PROVE At[r] >= At[s[k]] OBVIOUS
  <2>1. i \in 1..n /\ Log!Newer(r, s[i]) BY <1>2, <1>5, <1>7
  <2>2. At[s[i]] >= At[s[k]] BY <1>5, <2>1 DEF Sorted
  <2> QED BY <1>6, <1>7, <2>1, <2>2 DEF Log!Newer
<1>11. \A a, b \in 1..n : a <= b => At[s[a]] >= At[s[b]] BY <1>5 DEF Sorted
<1>12. ASSUME NEW a \in 1..(n + 1), NEW b \in 1..(n + 1), a <= b PROVE At[t[a]] >= At[t[b]]
  <2>1. a < i => a \in 1..n /\ t[a] = s[a] BY <1>7, <1>8
  <2>2. b < i => b \in 1..n /\ t[b] = s[b] BY <1>7, <1>8
  <2>3. a > i => a - 1 \in 1..n /\ a - 1 >= i /\ t[a] = s[a - 1]
    <3>1. a > i => a - 1 \in 1..n /\ a - 1 >= i /\ (a - 1) + 1 = a BY <1>7
    <3> QED BY <1>8, <3>1
  <2>4. b > i => b - 1 \in 1..n /\ b - 1 >= i /\ t[b] = s[b - 1]
    <3>1. b > i => b - 1 \in 1..n /\ b - 1 >= i /\ (b - 1) + 1 = b BY <1>7
    <3> QED BY <1>8, <3>1
  <2>5. CASE b < i BY <1>7, <1>11, <1>12, <2>1, <2>2, <2>5
  <2>6. CASE b = i /\ a < i BY <1>7, <1>9, <2>1, <2>6
  <2>7. CASE a = i /\ b = i BY <1>7, <2>7
  <2>8. CASE b > i /\ a = i BY <1>7, <1>10, <2>4, <2>8
  <2>9. CASE b > i /\ a < i
    <3>1. a <= b - 1 BY <1>7, <2>9
    <3> QED BY <1>11, <2>1, <2>4, <2>9, <3>1
  <2>10. CASE a > i
    <3>1. b > i /\ a - 1 <= b - 1 BY <1>7, <1>12, <2>10
    <3> QED BY <1>11, <2>3, <2>4, <2>10, <3>1
  <2> QED BY <1>7, <1>12, <2>5, <2>6, <2>7, <2>8, <2>9, <2>10
<1>13. Sorted(t) BY <1>7, <1>12 DEF Sorted
<1> QED BY <1>2, <1>4, <1>13
------------------------------------------------------------------------------
(* What a list asks for, and the records it returns.                         *)
Asked(about, r) == about \in {AnySubject, From[r]}
PlaceNext(about, list, r) == IF Asked(about, r) THEN Log!Placed(list, r) ELSE list

PlaceRuns(H, about, lines) ==
  /\ H[0] = <<>>
  /\ \A i \in 1..Len(lines) : H[i] = PlaceNext(about, H[i - 1], lines[i])
  /\ \A i \in 0..Len(lines) : H[i] \in Seq(Range(lines)) /\ Sorted(H[i])
  /\ Log!Matching(about, lines) = H[Len(lines)]

LEMMA PlaceSteps ==
  ASSUME NEW lines, IsList(lines), \A r \in Range(lines) : At[r] \in Int, NEW about
  PROVE  \E H : PlaceRuns(H, about, lines)
<1> DEFINE T == Range(lines)
           S == {s \in Seq(T) : Sorted(s)}
           n == Len(lines)
           step == [d \in (1..n) \X S |-> PlaceNext(about, d[2], lines[d[1]])]
           Eq(F) == F = [s \in SUBSET (DOMAIN lines) |->
                           IF s = {} THEN <<>> ELSE PlaceNext(about, F[s \ {Max(s)}], lines[Max(s)])]
           G == CHOOSE F : Eq(F)
<1>1. n \in Nat /\ DOMAIN lines = 1..n /\ \A i \in 1..n : lines[i] \in T
  BY LenProperties DEF IsList
<1>2. Log!Matching(about, lines) = G[DOMAIN lines]
  BY DEF Log!Matching, Log!FoldLeft, Log!MapThenFoldSet, Log!Max, Max, PlaceNext, Asked
<1>3. step \in [(1..n) \X S -> S]
  <2>1. \A d \in (1..n) \X S : PlaceNext(about, d[2], lines[d[1]]) \in S
    <3> TAKE d \in (1..n) \X S
    <3>1. PICK list : list = d[2] OBVIOUS
    <3>2. PICK r : r = lines[d[1]] OBVIOUS
    <3>3. list \in Seq(T) /\ Sorted(list) /\ r \in T BY <1>1, <3>1, <3>2
    <3> HIDE DEF T
    <3>4. PICK t : t = Log!Placed(list, r) OBVIOUS
    <3>5. t \in Seq(T) /\ Sorted(t) BY <3>3, <3>4, PlacedIs DEF T
    <3> QED BY <3>1, <3>2, <3>3, <3>4, <3>5 DEF PlaceNext
  <2> QED BY <2>1
<1>4. <<>> \in S
  <2>1. <<>> \in Seq(T) /\ Len(<<>>) = 0 BY EmptySeq
  <2> QED BY <2>1 DEF Sorted
<1>5. ASSUME NEW F, NEW s \in SUBSET (1..n), s # {}, F[s \ {Max(s)}] \in S
      PROVE  PlaceNext(about, F[s \ {Max(s)}], lines[Max(s)]) = step[<<Max(s), F[s \ {Max(s)}]>>]
  <2>1. Max(s) \in 1..n BY <1>1, <1>5, Highest
  <2>2. <<Max(s), F[s \ {Max(s)}]>> \in (1..n) \X S BY <1>5, <2>1
  <2> QED BY <2>2
<1>6. PICK F : IsFold(F, n, S, <<>>, step)
  <2> HIDE DEF step, n, S
  <2> QED BY <1>1, <1>3, <1>4, FoldExists
<1> HIDE DEF step, n
<1>7. Eq(F) BY <1>1, <1>5, <1>6 DEF IsFold
<1>8. Eq(G)
  <2> HIDE DEF Eq
  <2> QED BY <1>7
<1> HIDE DEF G, S
<1>9. PICK H : FoldSteps(H, n, S, <<>>, step, G[1..n])
  <2>1. G[{}] = <<>> BY <1>1, <1>8
  <2>2. \A s \in SUBSET (1..n) : s # {} /\ G[s \ {Max(s)}] \in S =>
          G[s] = step[<<Max(s), G[s \ {Max(s)}]>>]
    BY <1>1, <1>5, <1>8
  <2>3. FoldsLike(G, n, S, <<>>, step) BY <2>1, <2>2 DEF FoldsLike
  <2> QED BY <1>1, <1>3, <1>4, <2>3, FoldRuns
<1>10. ASSUME NEW i \in 1..n PROVE H[i] = PlaceNext(about, H[i - 1], lines[i])
  <2>1. i - 1 \in 0..n BY <1>1
  <2>2. <<i, H[i - 1]>> \in (1..n) \X S /\ H[i] = step[<<i, H[i - 1]>>]
    BY <1>9, <2>1 DEF FoldSteps
  <2> QED BY <2>2 DEF step
<1> QED BY <1>1, <1>2, <1>9, <1>10 DEF FoldSteps, n, S, PlaceRuns

(* A record that is in a list once at most.                                  *)
Single(r, s) == \A i, j \in 1..Len(s) : s[i] = r /\ s[j] = r => i = j

LEMMA InsertedHas ==
  ASSUME NEW T, NEW s \in Seq(T), NEW x \in T, NEW t \in Seq(T), NEW i \in 1..(Len(s) + 1), Inserted(s, i, x, t)
  PROVE  /\ Range(t) = Range(s) \union {x}
         /\ \A r : Single(r, s) /\ (r = x => r \notin Range(s)) => Single(r, t)
<1>1. PICK n \in Nat : n = Len(s) /\ DOMAIN s = 1..n BY LenProperties
<1>2. Len(t) = n + 1 /\ DOMAIN t = 1..(n + 1) /\ t[i] = x /\ i \in 1..(n + 1)
      /\ \A k \in 1..n : (k < i => t[k] = s[k]) /\ (k >= i => t[k + 1] = s[k])
  BY <1>1, LenProperties DEF Inserted
<1>3. \A a \in 1..(n + 1) : /\ a < i => a \in 1..n /\ t[a] = s[a]
                            /\ a > i => a - 1 \in 1..n /\ t[a] = s[a - 1]
  <2> TAKE a \in 1..(n + 1)
  <2>1. a < i => a \in 1..n BY <1>2
  <2>2. a > i => a - 1 \in 1..n /\ a - 1 >= i /\ (a - 1) + 1 = a BY <1>2
  <2> QED BY <1>2, <2>1, <2>2
<1>4. Range(t) = Range(s) \union {x}
  <2>1. ASSUME NEW k \in 1..n PROVE s[k] \in Range(t)
    <3>1. k \in 1..(n + 1) /\ k + 1 \in 1..(n + 1) OBVIOUS
    <3>2. k < i \/ k >= i BY <1>2
    <3> QED BY <1>2, <3>1, <3>2 DEF Range
  <2>2. ASSUME NEW a \in 1..(n + 1) PROVE t[a] \in Range(s) \union {x}
    <3>1. a < i \/ a = i \/ a > i BY <1>2
    <3> QED BY <1>1, <1>2, <1>3, <3>1 DEF Range
  <2>3. x \in Range(t) BY <1>2 DEF Range
  <2> QED BY <1>1, <1>2, <2>1, <2>2, <2>3 DEF Range
<1>5. ASSUME NEW r, Single(r, s), r = x => r \notin Range(s),
             NEW a \in 1..(n + 1), NEW b \in 1..(n + 1), t[a] = r, t[b] = r
      PROVE  a = b
  <2>1. \A k \in 1..n : s[k] \in Range(s) BY <1>1 DEF Range
  <2>2. CASE r = x
    <3>1. \A e \in 1..(n + 1) : t[e] = r => e = i
      <4> TAKE e \in 1..(n + 1)
      <4>1. (e < i => e \in 1..n /\ t[e] = s[e]) /\ (e > i => e - 1 \in 1..n /\ t[e] = s[e - 1])
        BY <1>3
      <4>2. r \notin Range(s) BY <1>5, <2>2
      <4>3. CASE e < i BY <2>1, <4>1, <4>2, <4>3
      <4>4. CASE e > i BY <2>1, <4>1, <4>2, <4>4
      <4> QED BY <1>2, <4>3, <4>4
    <3> QED BY <1>5, <3>1
  <2>3. CASE r # x
    <3>1. a # i /\ b # i BY <1>2, <1>5, <2>3
    <3>2. \A e \in 1..(n + 1) : t[e] = r /\ e # i =>
            \E k \in 1..n : s[k] = r /\ ((k = e /\ e < i) \/ (k = e - 1 /\ e > i))
      <4> TAKE e \in 1..(n + 1)
      <4> SUFFICES ASSUME t[e] = r, e # i
                   PROVE  \E k \in 1..n : s[k] = r /\ ((k = e /\ e < i) \/ (k = e - 1 /\ e > i))
        OBVIOUS
      <4>1. (e < i => e \in 1..n /\ t[e] = s[e]) /\ (e > i => e - 1 \in 1..n /\ t[e] = s[e - 1])
        BY <1>3
      <4>2. CASE e < i BY <4>1, <4>2
      <4>3. CASE e > i BY <4>1, <4>3
      <4> QED BY <1>2, <4>2, <4>3
    <3>3. PICK c \in 1..n : s[c] = r /\ ((c = a /\ a < i) \/ (c = a - 1 /\ a > i)) BY <1>5, <3>1, <3>2
    <3>5. PICK d \in 1..n : s[d] = r /\ ((d = b /\ b < i) \/ (d = b - 1 /\ b > i)) BY <1>5, <3>1, <3>2
    <3>4. c = d BY <1>1, <1>5, <3>3, <3>5 DEF Single
    <3> QED BY <1>2, <3>3, <3>4, <3>5
  <2> QED BY <2>2, <2>3
<1> QED BY <1>2, <1>4, <1>5 DEF Single

LEMMA ListedAll ==
  ASSUME NEW lines, IsList(lines), \A r \in Range(lines) : At[r] \in Int, NEW about,
         NEW s, s = Log!Matching(about, lines)
  PROVE  /\ IsList(s) /\ Sorted(s) /\ Range(s) = {r \in Range(lines) : Asked(about, r)}
         /\ \A r : Single(r, lines) => Single(r, s)
<1> DEFINE n == Len(lines)
           T == Range(lines)
           Upto(i) == {lines[k] : k \in 1..i}
           SingleUpto(r, i) == \A j, k \in 1..i : lines[j] = r /\ lines[k] = r => j = k
           Right(d, i) == /\ d \in Seq(T) /\ Sorted(d) /\ Range(d) = {r \in Upto(i) : Asked(about, r)}
                          /\ \A r : SingleUpto(r, i) => Single(r, d)
<1>1. PICK H : PlaceRuns(H, about, lines) BY PlaceSteps
<1>2. /\ H[0] = <<>> /\ s = H[n] /\ n \in Nat /\ DOMAIN lines = 1..n
      /\ \A i \in 1..n : H[i] = PlaceNext(about, H[i - 1], lines[i])
      /\ \A i \in 0..n : H[i] \in Seq(T) /\ Sorted(H[i])
      /\ \A i \in 1..n : lines[i] \in T
  BY <1>1, LenProperties DEF PlaceRuns, IsList
<1> HIDE DEF n
<1>3. Right(H[0], 0)
  <2>1. 0 \in 0..n BY <1>2
  <2>2. H[0] \in Seq(T) /\ Sorted(H[0]) BY <1>2, <2>1
  <2>3. PICK e : e = H[0] OBVIOUS
  <2>4. Len(e) = 0 /\ DOMAIN e = 1..Len(e) BY <1>2, <2>2, <2>3, EmptySeq, LenProperties
  <2>5. Range(e) = {} BY <2>4 DEF Range
  <2> QED BY <2>2, <2>3, <2>4, <2>5 DEF Single
<1>4. ASSUME NEW i \in 1..n, Right(H[i - 1], i - 1) PROVE Right(H[i], i)
  <2>1. PICK d : d = H[i - 1] OBVIOUS
  <2>2. PICK x : x = lines[i] OBVIOUS
  <2>3. PICK t : t = H[i] OBVIOUS
  <2>4. t = PlaceNext(about, d, x) /\ x \in T /\ Right(d, i - 1) BY <1>2, <1>4, <2>1, <2>2, <2>3
  <2>5. Upto(i) = Upto(i - 1) \union {x} BY <1>2, <2>2
  <2>6. \A r : SingleUpto(r, i) => SingleUpto(r, i - 1) /\ (r = x => r \notin Upto(i - 1))
    <3>1. ASSUME NEW r, SingleUpto(r, i), r = x, r \in Upto(i - 1) PROVE FALSE
      <4>1. PICK k \in 1..(i - 1) : lines[k] = r BY <3>1
      <4>2. k \in 1..i /\ i \in 1..i /\ k # i BY <1>2
      <4> QED BY <2>2, <3>1, <4>1, <4>2
    <3>2. ASSUME NEW r, SingleUpto(r, i) PROVE SingleUpto(r, i - 1)
      <4>1. \A k \in 1..(i - 1) : k \in 1..i BY <1>2
      <4> QED BY <3>2, <4>1
    <3> QED BY <3>1, <3>2
  <2>7. CASE Asked(about, x)
    <3>1. t = Log!Placed(d, x) BY <2>4, <2>7 DEF PlaceNext
    <3> HIDE DEF T, Upto, SingleUpto
    <3>2. d \in Seq(T) /\ Sorted(d) BY <2>4
    <3>3. t \in Seq(T) /\ Sorted(t) /\ \E k \in 1..(Len(d) + 1) : Inserted(d, k, x, t)
      BY <2>4, <3>1, <3>2, PlacedIs DEF T
    <3>4. PICK k \in 1..(Len(d) + 1) : Inserted(d, k, x, t) BY <3>3
    <3>5. /\ Range(t) = Range(d) \union {x}
          /\ \A r : Single(r, d) /\ (r = x => r \notin Range(d)) => Single(r, t)
      BY <2>4, <3>2, <3>3, <3>4, InsertedHas
    <3>6. Range(t) = {r \in Upto(i) : Asked(about, r)} BY <2>4, <2>5, <2>7, <3>5
    <3>7. \A r : SingleUpto(r, i) => Single(r, t) BY <2>4, <2>6, <3>5
    <3>8. Right(t, i) BY <3>3, <3>6, <3>7
    <3> QED BY <2>3, <3>8
  <2>8. CASE ~Asked(about, x)
    <3>1. t = d BY <2>4, <2>8 DEF PlaceNext
    <3> HIDE DEF T, Upto, SingleUpto
    <3>2. Range(t) = {r \in Upto(i) : Asked(about, r)} BY <2>4, <2>5, <2>8, <3>1
    <3>3. Right(t, i) BY <2>4, <2>6, <3>1, <3>2
    <3> QED BY <2>3, <3>3
  <2> QED BY <2>7, <2>8
<1> HIDE DEF Right
<1>5. Right(H[n], n)
  <2> DEFINE J == {i \in 0..n : Right(H[i], i)}
  <2>1. 0 \in J BY <1>2, <1>3
  <2>2. \A i \in 1..n : i - 1 \in J => i \in J BY <1>4
  <2> HIDE DEF J
  <2>3. 0..n \subseteq J BY <1>2, <2>1, <2>2, Induct
  <2>4. n \in J BY <1>2, <2>3
  <2> QED BY <2>4 DEF J
<1>6. Upto(n) = T BY <1>2 DEF Range
<1>7. \A r : Single(r, lines) => SingleUpto(r, n) BY DEF Single, n
<1>8. s \in Seq(T) /\ Sorted(s) /\ Range(s) = {r \in T : Asked(about, r)}
      /\ \A r : SingleUpto(r, n) => Single(r, s)
  BY <1>2, <1>5, <1>6 DEF Right
<1>9. IsList(s)
  <2> HIDE DEF T
  <2> QED BY <1>8, ListOfSeq
<1> QED BY <1>7, <1>8, <1>9
------------------------------------------------------------------------------
(* How often a record is in a list.                                          *)
LEMMA CountIs ==
  ASSUME NEW s, IsList(s), NEW r
  PROVE  /\ r \in Range(s) => Log!Count(r, s) >= 1
         /\ Single(r, s) => Log!Count(r, s) <= 1
         /\ Single(r, s) /\ r \in Range(s) => Log!Count(r, s) = 1
<1>1. PICK n \in Nat : n = Len(s) /\ DOMAIN s = 1..n BY LenProperties DEF IsList
<1>2. PICK P : P = {i \in 1..n : s[i] = r} OBVIOUS
<1>3. Log!Count(r, s) = Cardinality(P) BY <1>1, <1>2 DEF Log!Count, Log!Cardinality, Cardinality
<1>4. IsFiniteSet(P)
  <2>1. 1 \in Int /\ n \in Int /\ P \in SUBSET (1..n) BY <1>2
  <2> QED BY <2>1, FS_Interval, FS_Subset
<1>5. Cardinality(P) \in Nat BY <1>4, FS_CardinalityType
<1>6. P = {} => Cardinality(P) = 0 BY FS_EmptySet
<1>7. \A i : P = {i} => Cardinality(P) = 1 BY FS_Singleton
<1>8. r \in Range(s) => \E i \in 1..n : i \in P BY <1>1, <1>2 DEF Range
<1>9. ASSUME NEW i \in P PROVE Cardinality(P) >= 1
  <2>1. Cardinality(P) # 0 BY <1>4, <1>9, FS_EmptySet
  <2> QED BY <1>5, <2>1
<1>10. ASSUME NEW i \in P, Single(r, s) PROVE P = {i} BY <1>1, <1>2, <1>10 DEF Single
<1>11. CASE P = {} BY <1>3, <1>6, <1>8, <1>11
<1>12. CASE P # {} BY <1>3, <1>7, <1>9, <1>10, <1>12
<1> QED BY <1>11, <1>12

(* A list cut at its limit may miss what is older than all it shows.         *)
IsFull(n, s, r) == n > 0 /\ Len(s) = n /\ \A i \in 1..n : At[s[i]] >= At[r]

LEMMA ListedCut ==
  ASSUME NEW about, NEW n \in Nat, NEW lines, NEW s, s = Log!Matching(about, lines),
         NEW t, t = Log!Listed(about, n, lines), IsList(s), Sorted(s)
  PROVE  /\ IsList(t)
         /\ \A r : Single(r, s) => Single(r, t)
         /\ \A r \in Range(s) : r \in Range(t) \/ IsFull(n, t, r)
<1>1. PICK m \in Nat : m = Len(s) /\ DOMAIN s = 1..m BY LenProperties DEF IsList
<1>2. t = IF n > 0 /\ m > n THEN SubSeq(s, 1, n) ELSE s
  BY <1>1 DEF Log!Listed
<1>3. CASE ~(n > 0 /\ m > n) BY <1>2, <1>3
<1>4. CASE n > 0 /\ m > n
  <2>1. t = SubSeq(s, 1, n) BY <1>2, <1>4
  <2>2. 1 \in Int /\ n \in Int /\ \A i \in 1..n : s[i] \in Range(s) BY <1>1, <1>4 DEF Range
  <2>3. /\ t \in Seq(Range(s)) /\ Len(t) = IF 1 <= n THEN n - 1 + 1 ELSE 0
        /\ \A i \in 1..(n - 1 + 1) : t[i] = s[1 + i - 1]
    BY <2>1, <2>2, SubSeqProperties
  <2>4. Len(t) = n /\ \A i \in 1..n : i \in 1..m /\ t[i] = s[i] BY <1>1, <1>4, <2>3
  <2>5. IsList(t) BY <2>3, ListOfSeq
  <2>6. \A r : Single(r, s) => Single(r, t) BY <1>1, <2>4 DEF Single
  <2>7. ASSUME NEW r \in Range(s), r \notin Range(t) PROVE IsFull(n, t, r)
    <3>1. PICK k \in 1..m : s[k] = r BY <1>1 DEF Range
    <3>2. DOMAIN t = 1..n BY <2>3, <2>4, LenProperties
    <3>3. k > n
      <4>1. k \notin 1..n BY <2>4, <2>7, <3>1, <3>2 DEF Range
      <4> QED BY <4>1
    <3>4. \A i \in 1..n : At[t[i]] >= At[r]
      <4> TAKE i \in 1..n
      <4>1. i \in 1..m /\ t[i] = s[i] /\ i <= k BY <2>4, <3>3
      <4>2. At[s[i]] >= At[s[k]] BY <1>1, <4>1 DEF Sorted
      <4> QED BY <3>1, <4>1, <4>2
    <3> QED BY <1>4, <2>4, <3>4 DEF IsFull
  <2> QED BY <2>5, <2>6, <2>7
<1> QED BY <1>3, <1>4

(* What a list returns of the records in the lines of a log.                 *)
LEMMA ListIs ==
  ASSUME NEW lines, IsList(lines), \A r \in Range(lines) : At[r] \in Int, NEW about,
         NEW n \in Nat, NEW t, t = Log!Listed(about, n, lines)
  PROVE  /\ \A r \in Range(lines) : Asked(about, r) => Log!Count(r, t) >= 1 \/ IsFull(n, t, r)
         /\ \A r : Single(r, lines) => Log!Count(r, t) <= 1
         /\ \A r \in Range(lines) : Asked(about, r) /\ Single(r, lines) =>
              Log!Count(r, t) = 1 \/ IsFull(n, t, r)
<1>1. PICK s : s = Log!Matching(about, lines) OBVIOUS
<1>2. /\ IsList(s) /\ Sorted(s) /\ Range(s) = {r \in Range(lines) : Asked(about, r)}
      /\ \A r : Single(r, lines) => Single(r, s)
  BY <1>1, ListedAll
<1>3. /\ IsList(t) /\ \A r : Single(r, s) => Single(r, t)
      /\ \A r \in Range(s) : r \in Range(t) \/ IsFull(n, t, r)
  BY <1>1, <1>2, ListedCut
<1>4. \A r : Single(r, lines) => Single(r, t) BY <1>2, <1>3
<1>5. \A r \in Range(lines) : Asked(about, r) => r \in Range(t) \/ IsFull(n, t, r) BY <1>2, <1>3
<1> QED BY <1>3, <1>4, <1>5, CountIs

(* A line that is added leaves those before it as they are, but for one that *)
(* was not finished: what is added then is no record.                        *)
LEMMA LineAdded ==
  ASSUME NEW s, IsList(s), NEW x, NEW t, t = Log!Appended(s, x)
  PROVE  /\ IsList(t)
         /\ \A r \in Range(s) : r # Torn => r \in Range(t)
         /\ \A r \in Range(t) : r \in Range(s) \/ r \in {x, Bad}
         /\ x \in Range(t) \/ Bad \in Range(t)
         /\ \A r : r \notin {Torn, Bad} /\ Single(r, s) /\ (r = x => r \notin Range(s)) => Single(r, t)
<1>1. PICK n \in Nat : n = Len(s) /\ DOMAIN s = 1..n BY LenProperties DEF IsList
<1>2. CASE ~(s # <<>> /\ Log!Last(s) = Torn)
  <2>1. t = Append(s, x) BY <1>2 DEF Log!Appended
  <2>2. IsList(t) /\ Range(t) = Range(s) \union {x} BY <2>1, RangeOfAppend
  <2>3. s \in Seq(Range(t)) /\ x \in Range(t)
    <3>1. Range(s) \subseteq Range(t) BY <2>2
    <3> QED BY <2>2, <3>1, SeqMonotonic DEF IsList
  <2>4. Len(t) = n + 1 /\ t[n + 1] = x /\ \A i \in 1..n : t[i] = s[i]
    BY <1>1, <2>1, <2>3, AppendProperties
  <2>5. ASSUME NEW r, Single(r, s), r = x => r \notin Range(s),
               NEW i \in 1..(n + 1), NEW j \in 1..(n + 1), t[i] = r, t[j] = r
        PROVE  i = j
    <3>1. \A k \in 1..(n + 1) : k \in 1..n \/ k = n + 1 OBVIOUS
    <3>2. \A k \in 1..n : s[k] \in Range(s) /\ t[k] = s[k] BY <1>1, <2>4 DEF Range
    <3>3. CASE r = x BY <2>4, <2>5, <3>1, <3>2, <3>3
    <3>4. CASE r # x
      <4>1. i \in 1..n /\ j \in 1..n BY <2>4, <2>5, <3>1, <3>4
      <4> QED BY <1>1, <2>5, <3>2, <4>1 DEF Single
    <3> QED BY <3>3, <3>4
  <2> QED BY <2>2, <2>4, <2>5 DEF Single
<1>3. CASE s # <<>> /\ Log!Last(s) = Torn
  <2>1. PICK e : e = IF x = Torn THEN Torn ELSE Bad OBVIOUS
  <2>2. n \in 1..n /\ s[n] = Torn
    <3>1. n # 0 BY <1>1, <1>3, EmptySeq DEF IsList
    <3> QED BY <1>1, <1>3, <3>1 DEF Log!Last
  <2>3. t = [s EXCEPT ![n] = e] BY <1>1, <1>3, <2>1 DEF Log!Appended
  <2> DEFINE S == Range(s) \union {e}
  <2>4. s \in Seq(S) /\ e \in S BY SeqMonotonic DEF IsList
  <2> HIDE DEF S
  <2>5. t \in Seq(S) /\ Len(t) = n /\ \A i \in 1..n : t[i] = IF i = n THEN e ELSE s[i]
    BY <1>1, <2>2, <2>3, <2>4, ExceptSeq
  <2>6. DOMAIN t = 1..n /\ IsList(t) BY <2>5, LenProperties, ListOfSeq
  <2>7. e \in Range(t) BY <2>2, <2>5, <2>6 DEF Range
  <2>8. \A r \in Range(s) : r # Torn => r \in Range(t)
    <3> TAKE r \in Range(s)
    <3>1. PICK i \in 1..n : s[i] = r BY <1>1 DEF Range
    <3>2. r # Torn => i # n BY <2>2, <3>1
    <3> QED BY <2>5, <2>6, <3>1, <3>2 DEF Range
  <2>9. \A r \in Range(t) : r \in Range(s) \/ r \in {x, Bad}
    <3> TAKE r \in Range(t)
    <3>1. PICK i \in 1..n : t[i] = r BY <2>6 DEF Range
    <3>2. s[i] \in Range(s) BY <1>1 DEF Range
    <3> QED BY <2>1, <2>5, <3>1, <3>2
  <2>10. ASSUME NEW r, r \notin {Torn, Bad}, Single(r, s) PROVE Single(r, t)
    <3>1. e # r BY <2>1, <2>10
    <3>2. \A i \in 1..n : t[i] = r => s[i] = r BY <2>5, <3>1
    <3> QED BY <1>1, <2>5, <2>10, <3>2 DEF Single
  <2> QED BY <2>1, <2>6, <2>7, <2>8, <2>9, <2>10
<1> QED BY <1>2, <1>3
------------------------------------------------------------------------------
(* A line that is no JSON value: what was acknowledged before it may be in   *)
(* it, and no list returns while it is there. The records of an earlier      *)
(* version that a migration moves, and the appends under way.                *)
Lost == Bad \in Range(log)
OldOnes == Range(SubSeq(Old, 1, left))
AllMoved == Lost \/ OldOnes \subseteq Range(log)
Moving(p) == logPc[p] \in {"create", "copy", "move"}
Sends(p) == logPc[p] # "idle" /\ logCall[p].op = "append"
Sent(p) == logCall[p].record

LogTypes ==
  /\ IsList(log) /\ Range(log) \subseteq Range(Old) \union New \union {Torn, Bad}
  /\ logCall \in [Procs -> Log!Calls]
  /\ logPc \in [Procs -> {"idle", "lock", "open", "legacy", "create", "copy", "move", "write", "read"}]
  /\ rest \in [Procs -> Seq(Range(Old))]
  /\ due \in [Procs -> SUBSET acked]
  /\ begun \in SUBSET New /\ acked \in SUBSET begun
  /\ left \in 0..(Len(Old) + 1) /\ legacy \in {left, Len(Old) + 1}
  /\ kind \in {"box", "audit", "events"} /\ (kind = "events" => left = Len(Old) + 1)

(* What each process is in, and that no two of them append the same record.  *)
CallOK(p) ==
  /\ logPc[p] = "idle" <=> logCall[p] = Log!Idle
  /\ logPc[p] \in {"open", "read"} => logCall[p].op = "list"
  /\ logPc[p] = "write" => logCall[p].op = "append"
  /\ logPc[p] = "open" => kind # "box"
  /\ Sends(p) => Sent(p) \in begun \ acked /\ Sent(p) \notin Range(log)
CallsOK ==
  /\ \A p \in Procs : CallOK(p)
  /\ \A p, q \in Procs : Sends(p) /\ Sends(q) /\ Sent(p) = Sent(q) => p = q

(* Who holds the lock file: everyone but the lists of a box.                 *)
LockOK == \A p \in Procs :
  logPc[p] \notin {"idle", "lock"} /\ (kind # "box" \/ logCall[p].op = "append") => lock = p

SentOK ==
  /\ New \intersect Range(log) \subseteq begun
  /\ \A r \in New : Single(r, log)
  /\ Lost \/ acked \subseteq Range(log)

(* A migration: what is not yet in the log is still to be copied, and when   *)
(* the old file is gone all of it was. A trail that has a log is not looked  *)
(* at again, so it is whole by then or hidden.                               *)
MoveOK(p) == Moving(p) =>
  /\ left # Len(Old) + 1
  /\ Lost \/ OldOnes \subseteq Range(log) \union Range(rest[p])
  /\ rest[p] = <<>> <=> logPc[p] = "move"
ReadOK(p) == logPc[p] = "read" =>
  /\ kind = "box" => legacy = Len(Old) + 1
  /\ left # Len(Old) + 1 /\ ~hidden => AllMoved
MovesOK ==
  /\ \A p \in Procs : MoveOK(p) /\ ReadOK(p)
  /\ legacy = Len(Old) + 1 /\ left # Len(Old) + 1 => AllMoved
  /\ kind = "audit" /\ left # Len(Old) + 1 /\ ~hidden /\ hasLog =>
       AllMoved \/ \E p \in Procs : logPc[p] = "copy"

(* One migration at a time, none cut short: each record is copied once.      *)
OnceOK == ~mixed =>
  /\ \A p \in Procs : Moving(p) =>
       /\ legacy # Len(Old) + 1
       /\ \A q \in Procs : Moving(q) => p = q
       /\ \A r \in Range(rest[p]) : Single(r, rest[p]) /\ r \notin Range(log)
  /\ \A r \in Range(Old) : Single(r, log)
  /\ legacy # Len(Old) + 1 /\ (\A p \in Procs : logPc[p] \notin {"copy", "move"}) =>
       Range(Old) \intersect Range(log) = {}

LogInv == LogTypes /\ CallsOK /\ LockOK /\ SentOK /\ MovesOK /\ OnceOK

LEMMA RecordsAre ==
  /\ Log!Gone = Len(Old) + 1 /\ Len(Old) \in Nat /\ IsList(Old)
  /\ Log!OldRecords = Range(Old) /\ Log!Records = Range(Old) \union New
  /\ Range(Old) \intersect New = {} /\ {Torn, Bad} \intersect (Range(Old) \union New) = {}
  /\ Torn # Bad /\ (\A r \in Range(Old) \union New : At[r] \in Int) /\ Limits \subseteq Nat
  /\ \A r : Single(r, Old)
<1>1. IsList(Old) /\ Len(Old) \in Nat BY LogAssumption, LenProperties DEF IsList
<1>2. Log!OldRecords = Range(Old) BY DEF Log!OldRecords, Log!Range, Range
<1> QED BY <1>1, <1>2, LogAssumption DEF Log!Gone, Log!Records, Single

LEMMA LogStart ==
  ASSUME Log!Init
  PROVE  LogInv
<1>1. log = <<>> /\ IsList(log) /\ Len(log) = 0 /\ Range(log) = {}
  <2>1. log = <<>> /\ log \in Seq({}) /\ Len(log) = 0 BY EmptySeq DEF Log!Init
  <2>2. DOMAIN log = 1..0 BY <2>1, LenProperties
  <2>3. Range(log) = {} BY <2>2 DEF Range
  <2> QED BY <2>1, <2>3, ListOfSeq
<1>2. /\ logPc = [p \in Procs |-> "idle"] /\ logCall = [p \in Procs |-> Log!Idle]
      /\ rest = [p \in Procs |-> <<>>] /\ due = [p \in Procs |-> {}] /\ acked = {} /\ begun = {}
      /\ kind \in {"box", "audit", "events"} /\ left = legacy /\ hasLog = FALSE
      /\ legacy \in 0..(Len(Old) + 1) /\ (kind = "events" => legacy = Len(Old) + 1)
  <2>1. /\ legacy \in (IF kind = "events" THEN {Log!Gone} ELSE 0..Log!Gone)
        /\ kind \in {"box", "audit", "events"}
    BY DEF Log!Init
  <2>2. Len(Old) + 1 \in 0..(Len(Old) + 1) BY RecordsAre
  <2> QED BY <2>1, <2>2, RecordsAre DEF Log!Init
<1>3. LogTypes
  <2>1. <<>> \in Seq(Range(Old)) BY EmptySeq
  <2>2. Log!Idle \in Log!Calls BY DEF Log!Calls
  <2> QED BY <1>1, <1>2, <2>1, <2>2 DEF LogTypes
<1>4. CallsOK BY <1>2 DEF CallsOK, CallOK, Sends
<1>5. LockOK BY <1>2 DEF LockOK
<1>6. SentOK BY <1>1, <1>2 DEF SentOK, Single
<1>7. MovesOK BY <1>1, <1>2 DEF MovesOK, MoveOK, ReadOK, Moving
<1>8. OnceOK BY <1>1, <1>2 DEF OnceOK, Moving, Single
<1> QED BY <1>3, <1>4, <1>5, <1>6, <1>7, <1>8 DEF LogInv

(* A call by what it is.                                                     *)
LEMMA CallIs ==
  ASSUME NEW c \in Log!Calls
  PROVE  /\ c.op \in {"none", "append", "list"} /\ (c = Log!Idle <=> c.op = "none")
         /\ c.op = "append" => c.record \in New
         /\ c.op = "list" => c.limit \in Limits
<1>1. CASE c = Log!Idle BY <1>1 DEF Log!Idle
<1>2. CASE \E r \in New : c = Log!AppendCall(r) BY <1>2 DEF Log!Idle, Log!AppendCall
<1>3. CASE \E s \in Log!Subjects \union {AnySubject}, n \in Limits : c = Log!ListCall(s, n)
  BY <1>3 DEF Log!Idle, Log!ListCall
<1> QED BY <1>1, <1>2, <1>3 DEF Log!Calls

(* A step is one process's.                                                  *)
LEMMA OneSteps ==
  ASSUME LogTypes, NEW p \in Procs, Log!Step(p), NEW q \in Procs, q # p
  PROVE  logPc'[q] = logPc[q] /\ logCall'[q] = logCall[q] /\ rest'[q] = rest[q] /\ due'[q] = due[q]
BY DEF LogTypes, Log!Step, Log!BeginAppend, Log!BeginList, Log!LockFile, Log!OpenTrail,
       Log!ReadLegacy, Log!CreateLog, Log!CopyRecord, Log!MoveLegacy, Log!WriteRecord, Log!ReadLog,
       Log!ReadFails, Log!Fault, Log!Return, Log!history, Log!disk

(* What a step adds to the log.                                              *)
LEMMA LogGrows ==
  ASSUME LogInv, NEW p \in Procs, Log!Step(p)
  PROVE  \/ log' = log
         \/ \E x : log' = Log!Appended(log, x) /\ (\/ x = Torn
                                                   \/ logPc[p] = "copy" /\ x = Head(rest[p])
                                                   \/ logPc[p] = "write" /\ x = Sent(p))
BY DEF Log!Step, Log!BeginAppend, Log!BeginList, Log!LockFile, Log!OpenTrail,
       Log!ReadLegacy, Log!CreateLog, Log!CopyRecord, Log!MoveLegacy, Log!WriteRecord, Log!ReadLog,
       Log!ReadFails, Log!Fault, Log!Return, Log!history, Log!disk, Sent

\* What is added is a record of the earlier version, one being sent, or none.
LEMMA LineIs ==
  ASSUME LogInv, NEW p \in Procs, Log!Step(p)
  PROVE  /\ IsList(log)' /\ (Lost => Lost')
         /\ \A r \in Range(log) : r # Torn => r \in Range(log')
         /\ log' # log =>
              \E x : /\ log' = Log!Appended(log, x)
                     /\ \A r \in Range(log') : r \in Range(log) \/ r \in {x, Bad}
                     /\ x \in Range(log') \/ Lost'
                     /\ \A r : r \notin {Torn, Bad} /\ Single(r, log) /\ (r = x => r \notin Range(log)) =>
                          Single(r, log')
                     /\ \/ x = Torn
                        \/ logPc[p] = "copy" /\ x = Head(rest[p]) /\ x \in Range(Old) /\ x \in Range(rest[p])
                        \/ logPc[p] = "write" /\ x = Sent(p) /\ Sends(p) /\ x \in New
<1>1. IsList(log) /\ Bad # Torn BY RecordsAre DEF LogInv, LogTypes
<1>2. CASE log' = log BY <1>1, <1>2 DEF IsList, Lost
<1>3. ASSUME NEW x, log' = Log!Appended(log, x), \/ x = Torn
                                                 \/ logPc[p] = "copy" /\ x = Head(rest[p])
                                                 \/ logPc[p] = "write" /\ x = Sent(p)
      PROVE  /\ IsList(log')
             /\ \A r \in Range(log) : r # Torn => r \in Range(log')
             /\ \A r \in Range(log') : r \in Range(log) \/ r \in {x, Bad}
             /\ x \in Range(log') \/ Bad \in Range(log')
             /\ \A r : r \notin {Torn, Bad} /\ Single(r, log) /\ (r = x => r \notin Range(log)) =>
                  Single(r, log')
             /\ \/ x = Torn
                \/ logPc[p] = "copy" /\ x = Head(rest[p]) /\ x \in Range(Old) /\ x \in Range(rest[p])
                \/ logPc[p] = "write" /\ x = Sent(p) /\ Sends(p) /\ x \in New
  <2>1. CASE logPc[p] = "copy" /\ x = Head(rest[p])
    <3>1. rest[p] \in Seq(Range(Old)) /\ rest[p] # <<>> BY <2>1 DEF LogInv, LogTypes, MovesOK, MoveOK, Moving
    <3>2. IsList(rest[p]) /\ Range(rest[p]) \subseteq Range(Old) BY <3>1, ListOfSeq
    <3>3. Head(rest[p]) \in Range(rest[p]) BY <3>1, <3>2, RangeOfTail
    <3> QED BY <1>1, <1>3, <2>1, <3>2, <3>3, LineAdded
  <2>2. CASE logPc[p] = "write" /\ x = Sent(p)
    <3>1. Sends(p) BY <2>2 DEF LogInv, CallsOK, CallOK, Sends
    <3>2. x \in New BY <2>2, <3>1, CallIs DEF LogInv, LogTypes, Sends, Sent
    <3> QED BY <1>1, <1>3, <2>2, <3>1, <3>2, LineAdded
  <2>3. CASE x = Torn BY <1>1, <1>3, <2>3, LineAdded
  <2> QED BY <1>3, <2>1, <2>2, <2>3
<1>4. CASE \E x : log' = Log!Appended(log, x) /\ (\/ x = Torn
                                                  \/ logPc[p] = "copy" /\ x = Head(rest[p])
                                                  \/ logPc[p] = "write" /\ x = Sent(p))
  <2>1. PICK x : log' = Log!Appended(log, x) /\ (\/ x = Torn
                                                 \/ logPc[p] = "copy" /\ x = Head(rest[p])
                                                 \/ logPc[p] = "write" /\ x = Sent(p))
    BY <1>4
  <2> QED BY <1>1, <1>3, <2>1 DEF IsList, Lost
<1> QED BY <1>2, <1>4, LogGrows
------------------------------------------------------------------------------
(* What a migration reads of the old file.                                   *)
LEMMA OldOnesAre ==
  ASSUME LogTypes, legacy # Len(Old) + 1
  PROVE  /\ left = legacy /\ SubSeq(Old, 1, legacy) \in Seq(Range(Old))
         /\ Range(SubSeq(Old, 1, legacy)) = OldOnes
         /\ \A r : Single(r, SubSeq(Old, 1, legacy))
         /\ SubSeq(Old, 1, legacy) = <<>> <=> legacy = 0
<1>1. PICK n \in Nat : n = Len(Old) /\ DOMAIN Old = 1..n BY RecordsAre, LenProperties DEF IsList
<1>2. legacy \in 0..n /\ left = legacy BY <1>1 DEF LogTypes
<1>3. PICK s : s = SubSeq(Old, 1, legacy) OBVIOUS
<1>4. 1 \in Int /\ legacy \in Int /\ \A i \in 1..legacy : Old[i] \in Range(Old)
  BY <1>1, <1>2 DEF Range
<1>5. /\ s \in Seq(Range(Old)) /\ Len(s) = IF 1 <= legacy THEN legacy - 1 + 1 ELSE 0
      /\ \A i \in 1..(legacy - 1 + 1) : s[i] = Old[1 + i - 1]
  BY <1>3, <1>4, SubSeqProperties
<1>6. Len(s) = legacy /\ \A i \in 1..legacy : i \in 1..n /\ s[i] = Old[i] BY <1>2, <1>5
<1>7. \A r : Single(r, s) BY <1>1, <1>6, RecordsAre DEF Single
<1>8. s = <<>> <=> legacy = 0
  <2>1. s = <<>> => Len(s) = 0 BY EmptySeq
  <2>2. s # <<>> => Len(s) # 0 BY <1>5, EmptySeq
  <2> QED BY <1>6, <2>1, <2>2
<1> QED BY <1>2, <1>3, <1>5, <1>7, <1>8 DEF OldOnes

LEMMA KindsOfCalls ==
  /\ Log!Idle \in Log!Calls
  /\ \A r \in New : Log!AppendCall(r) \in Log!Calls
  /\ \A s \in Log!Subjects \union {AnySubject}, n \in Limits : Log!ListCall(s, n) \in Log!Calls
BY DEF Log!Calls

LEMMA TypesGoOn ==
  ASSUME LogInv, NEW p \in Procs, Log!Step(p)
  PROVE  LogTypes'
<1> USE DEF Log!Step, Log!BeginAppend, Log!BeginList, Log!LockFile, Log!OpenTrail,
            Log!ReadLegacy, Log!CreateLog, Log!CopyRecord, Log!MoveLegacy, Log!WriteRecord,
            Log!ReadLog, Log!ReadFails, Log!Fault, Log!Return, Log!history, Log!disk
<1>1. /\ kind' = kind /\ left' = left /\ legacy' \in {legacy, Len(Old) + 1}
      /\ LogTypes
  BY RecordsAre DEF LogInv
<1>2. kind' \in {"box", "audit", "events"} /\ left' \in 0..(Len(Old) + 1)
      /\ legacy' \in {left', Len(Old) + 1} /\ (kind' = "events" => left' = Len(Old) + 1)
  BY <1>1 DEF LogTypes
<1>3. logCall' \in [Procs -> Log!Calls]
  <2>1. logCall \in [Procs -> Log!Calls] BY <1>1 DEF LogTypes
  <2>2. \/ logCall' = logCall
        \/ logCall' = [logCall EXCEPT ![p] = Log!Idle]
        \/ \E r \in New : logCall' = [logCall EXCEPT ![p] = Log!AppendCall(r)]
        \/ \E s \in Log!Subjects \union {AnySubject}, n \in Limits :
             logCall' = [logCall EXCEPT ![p] = Log!ListCall(s, n)]
    OBVIOUS
  <2>3. \E c \in Log!Calls : logCall' = logCall \/ logCall' = [logCall EXCEPT ![p] = c]
    BY ONLY <2>2, KindsOfCalls
  <2> QED BY ONLY <2>1, <2>3
<1>4. logPc' \in [Procs -> {"idle", "lock", "open", "legacy", "create", "copy", "move", "write", "read"}]
  <2>1. logPc \in [Procs -> {"idle", "lock", "open", "legacy", "create", "copy", "move", "write", "read"}]
    BY <1>1 DEF LogTypes
  <2> QED BY <2>1
<1>5. rest' \in [Procs -> Seq(Range(Old))]
  <2>1. rest \in [Procs -> Seq(Range(Old))] /\ <<>> \in Seq(Range(Old)) BY <1>1, EmptySeq DEF LogTypes
  <2>2. legacy # Len(Old) + 1 => SubSeq(Old, 1, legacy) \in Seq(Range(Old)) BY <1>1, OldOnesAre
  <2>3. logPc[p] = "copy" => Tail(rest[p]) \in Seq(Range(Old))
    <3>1. logPc[p] = "copy" => rest[p] # <<>> BY DEF LogInv, MovesOK, MoveOK, Moving
    <3> QED BY <2>1, <3>1, HeadTailProperties
  <2> QED BY <2>1, <2>2, <2>3, RecordsAre
<1>6. due' \in [Procs -> SUBSET acked'] /\ acked \subseteq acked'
  <2>1. due \in [Procs -> SUBSET acked] BY <1>1 DEF LogTypes
  <2>2. acked \subseteq acked' OBVIOUS
  <2>3. due' = due \/ due' = [due EXCEPT ![p] = acked] \/ due' = [due EXCEPT ![p] = {}] OBVIOUS
  <2> QED BY ONLY <2>1, <2>2, <2>3
<1>7. begun' \in SUBSET New /\ acked' \in SUBSET begun'
  <2>1. logPc[p] = "write" => logCall[p].record \in begun
    BY DEF LogInv, CallsOK, CallOK, Sends, Sent
  <2> QED BY <1>1, <2>1 DEF LogTypes
<1>8. IsList(log)' /\ (Range(log) \subseteq Range(Old) \union New \union {Torn, Bad})'
  <2>1. IsList(log)' /\ \A r \in Range(log') : r \in Range(log) \/ r \in Range(Old) \union New \union {Torn, Bad}
    BY LineIs
  <2> QED BY <1>1, <2>1 DEF LogTypes
<1> QED BY <1>2, <1>3, <1>4, <1>5, <1>6, <1>7, <1>8 DEF LogTypes
------------------------------------------------------------------------------
(* Who is where: a call starts, goes on or returns.                          *)
StartsAppend(p) ==
  /\ logPc[p] = "idle" /\ logPc'[p] = "lock" /\ log' = log
  /\ \E r \in New \ begun : logCall'[p] = Log!AppendCall(r) /\ begun' = begun \union {r}
StartsList(p) ==
  /\ logPc[p] = "idle" /\ logPc'[p] = IF kind = "box" THEN "legacy" ELSE "lock"
  /\ \E s \in Log!Subjects \union {AnySubject}, n \in Limits : logCall'[p] = Log!ListCall(s, n)
GoesOn(p) ==
  /\ logPc[p] \notin {"idle", "write"} /\ logPc'[p] # "idle" /\ logCall'[p] = logCall[p]
  /\ logPc'[p] \in {"open", "read"} => logCall[p].op = "list"
  /\ logPc'[p] = "write" => logCall[p].op = "append"
  /\ logPc'[p] = "open" => kind # "box"
Returns(p) == logPc'[p] = "idle" /\ logCall'[p] = Log!Idle

LEMMA PlaceGoesOn ==
  ASSUME LogInv, NEW p \in Procs, Log!Step(p)
  PROVE  StartsAppend(p) \/ StartsList(p) \/ GoesOn(p) \/ Returns(p)
<1> USE DEF Log!Return, Log!history, Log!disk
<1>1. /\ p \in DOMAIN logPc /\ p \in DOMAIN logCall
      /\ logCall[p].op \in {"none", "append", "list"} /\ (logPc[p] # "idle" => logCall[p].op # "none")
      /\ logPc[p] \in {"open", "read"} => logCall[p].op = "list"
  <2>1. logCall[p] \in Log!Calls /\ CallOK(p) /\ LogTypes BY DEF LogInv, LogTypes, CallsOK
  <2>2. p \in DOMAIN logPc /\ p \in DOMAIN logCall BY <2>1 DEF LogTypes
  <2> QED BY <2>1, <2>2, CallIs DEF CallOK
<1>2. CASE Log!BeginAppend(p)
  <2>1. PICK r \in New \ begun : /\ logCall' = [logCall EXCEPT ![p] = Log!AppendCall(r)]
                                 /\ begun' = begun \union {r}
    BY <1>2 DEF Log!BeginAppend
  <2>2. logCall'[p] = Log!AppendCall(r) BY <1>1, <2>1
  <2>3. logPc[p] = "idle" /\ logPc'[p] = "lock" /\ log' = log BY <1>1, <1>2 DEF Log!BeginAppend
  <2> QED BY <2>1, <2>2, <2>3 DEF StartsAppend
<1>3. CASE Log!BeginList(p)
  <2>1. PICK s \in Log!Subjects \union {AnySubject}, n \in Limits :
          logCall' = [logCall EXCEPT ![p] = Log!ListCall(s, n)]
    BY <1>3 DEF Log!BeginList
  <2>2. logCall'[p] = Log!ListCall(s, n) BY <1>1, <2>1
  <2>3. logPc[p] = "idle" /\ logPc'[p] = IF kind = "box" THEN "legacy" ELSE "lock"
    BY <1>1, <1>3 DEF Log!BeginList
  <2> QED BY <2>1, <2>2, <2>3 DEF StartsList
<1>4. CASE Log!LockFile(p)
  <2>1. logPc[p] = "lock" /\ logCall' = logCall BY <1>4 DEF Log!LockFile
  <2>2. logPc'[p] = IF kind = "box" THEN "legacy"
                   ELSE IF logCall[p].op = "list" THEN "open" ELSE "write"
    BY <1>1, <1>4 DEF Log!LockFile
  <2>3. CASE kind = "box" BY <2>1, <2>2, <2>3 DEF GoesOn
  <2>4. CASE kind # "box" /\ logCall[p].op = "list" BY <2>1, <2>2, <2>4 DEF GoesOn
  <2>5. CASE kind # "box" /\ logCall[p].op # "list" BY <1>1, <2>1, <2>2, <2>5 DEF GoesOn
  <2> QED BY <2>3, <2>4, <2>5
<1>5. CASE Log!OpenTrail(p) BY <1>1, <1>5 DEF Log!OpenTrail, GoesOn
<1>6. CASE Log!ReadLegacy(p) BY <1>1, <1>6 DEF Log!ReadLegacy, GoesOn
<1>7. CASE Log!CreateLog(p) BY <1>1, <1>7 DEF Log!CreateLog, GoesOn
<1>8. CASE Log!CopyRecord(p) BY <1>1, <1>8 DEF Log!CopyRecord, GoesOn
<1>9. CASE Log!MoveLegacy(p) BY <1>1, <1>9 DEF Log!MoveLegacy, GoesOn
<1>10. CASE Log!WriteRecord(p) BY <1>1, <1>10 DEF Log!WriteRecord, Returns
<1>11. CASE Log!ReadLog(p) BY <1>1, <1>11 DEF Log!ReadLog, Returns
<1>12. CASE Log!ReadFails(p) BY <1>1, <1>12 DEF Log!ReadFails, Returns
<1>13. CASE Log!Fault(p) BY <1>1, <1>13 DEF Log!Fault, Returns
<1> QED BY <1>2, <1>3, <1>4, <1>5, <1>6, <1>7, <1>8, <1>9, <1>10, <1>11, <1>12, <1>13 DEF Log!Step

LEMMA SetsGrow ==
  ASSUME NEW p \in Procs, Log!Step(p)
  PROVE  /\ kind' = kind /\ left' = left /\ begun \subseteq begun'
         /\ acked' = acked \/ (logPc[p] = "write" /\ acked' = acked \union {Sent(p)}
                               /\ log' = Log!Appended(log, Sent(p)))
         /\ logPc[p] = "idle" => acked' = acked
BY DEF Log!Step, Log!BeginAppend, Log!BeginList, Log!LockFile, Log!OpenTrail, Log!ReadLegacy,
       Log!CreateLog, Log!CopyRecord, Log!MoveLegacy, Log!WriteRecord, Log!ReadLog,
       Log!ReadFails, Log!Fault, Log!Return, Log!history, Log!disk, Sent

(* What comes into the log was not being sent by another process.            *)
LEMMA OthersNotAdded ==
  ASSUME LogInv, NEW p \in Procs, Log!Step(p), NEW r \in New, r \in Range(log'), r \notin Range(log)
  PROVE  logPc[p] = "write" /\ r = Sent(p) /\ Sends(p)
<1>1. r \notin {Torn, Bad} /\ r \notin Range(Old) BY RecordsAre
<1>2. log' # log OBVIOUS
<1> QED BY <1>1, <1>2, LineIs

LEMMA CallsGoOn ==
  ASSUME LogInv, NEW p \in Procs, Log!Step(p)
  PROVE  CallsOK'
<1>1. CallsOK /\ LogTypes /\ SentOK BY DEF LogInv
<1>2. ASSUME NEW q \in Procs, q # p
      PROVE  /\ Sends(q)' = Sends(q) /\ Sent(q)' = Sent(q) /\ logPc'[q] = logPc[q]
             /\ logCall'[q] = logCall[q]
  BY <1>1, <1>2, OneSteps DEF Sends, Sent
<1>3. ASSUME NEW q \in Procs, Sends(q) PROVE Sent(q) \in New /\ Sent(q) \in begun \ acked
  BY <1>1, <1>3 DEF CallsOK, CallOK, LogTypes
<1>4. /\ \A q \in Procs : CallOK(q)
      /\ \A q, o \in Procs : Sends(q) /\ Sends(o) /\ Sent(q) = Sent(o) => q = o
  BY <1>1 DEF CallsOK
<1>5. kind' = kind /\ begun \subseteq begun' BY SetsGrow
<1>6. ASSUME NEW q \in Procs, q # p PROVE CallOK(q)'
  <2>1. ASSUME Sends(q) PROVE Sent(q) \in begun' \ acked' /\ Sent(q) \notin Range(log')
    <3>1. Sent(q) \in begun \ acked /\ Sent(q) \notin Range(log) /\ Sent(q) \in New
      BY <1>3, <1>4, <2>1 DEF CallOK
    <3>2. Sends(p) => Sent(q) # Sent(p) BY <1>4, <1>6, <2>1
    <3>3. logPc[p] = "write" => Sends(p) BY <1>4 DEF CallOK, Sends
    <3>4. Sent(q) \notin acked' BY <3>1, <3>2, <3>3, SetsGrow
    <3>5. Sent(q) \notin Range(log') BY <3>1, <3>2, OthersNotAdded
    <3> QED BY <1>5, <3>1, <3>4, <3>5
  <2>2. CallOK(q) BY <1>4
  <2> QED BY <1>2, <1>5, <1>6, <2>1, <2>2 DEF CallOK
<1>7. CallOK(p)' /\ \A q \in Procs : q # p /\ Sends(p)' /\ Sends(q) => Sent(p)' # Sent(q)
  <2>1. CASE Returns(p) BY <2>1 DEF CallOK, Sends, Returns
  <2>2. CASE StartsAppend(p)
    <3>1. PICK r \in New \ begun : logCall'[p] = Log!AppendCall(r) /\ begun' = begun \union {r}
      BY <2>2 DEF StartsAppend
    <3>2. /\ Sent(p)' = r /\ logCall'[p] # Log!Idle /\ logPc'[p] = "lock"
          /\ log' = log /\ acked' = acked
      BY <2>2, <3>1, SetsGrow DEF Sent, Log!AppendCall, Log!Idle, StartsAppend
    <3>3. r \notin acked /\ r \notin Range(log) BY <1>1, <3>1 DEF LogTypes, SentOK
    <3>4. CallOK(p)' BY <3>1, <3>2, <3>3 DEF CallOK
    <3> QED BY <1>3, <3>1, <3>2, <3>4
  <2>3. CASE StartsList(p)
    <3>1. logCall'[p].op = "list" /\ logCall'[p] # Log!Idle
      BY <2>3 DEF Log!ListCall, Log!Idle, StartsList
    <3>2. ~Sends(p)' BY <3>1 DEF Sends
    <3>3. logPc'[p] \in {"legacy", "lock"} BY <2>3 DEF StartsList
    <3> QED BY <3>1, <3>2, <3>3 DEF CallOK
  <2>4. CASE GoesOn(p)
    <3>0. /\ logPc[p] # "idle" /\ logPc'[p] # "idle" /\ logCall'[p] = logCall[p] /\ logPc[p] # "write"
          /\ logPc'[p] \in {"open", "read"} => logCall[p].op = "list"
          /\ logPc'[p] = "write" => logCall[p].op = "append"
          /\ logPc'[p] = "open" => kind # "box"
      BY <2>4 DEF GoesOn
    <3>1. Sends(p)' = Sends(p) /\ Sent(p)' = Sent(p) BY <3>0 DEF Sends, Sent
    <3>2. CallOK(p) BY <1>4
    <3>3. Sends(p) => Sent(p) \notin Range(log') /\ Sent(p) \in begun' \ acked'
      <4>1. Sends(p) => Sent(p) \in New /\ Sent(p) \notin Range(log) /\ Sent(p) \in begun \ acked
        BY <1>3, <3>2 DEF CallOK
      <4>2. acked' = acked BY <3>0, SetsGrow
      <4> QED BY <1>5, <3>0, <4>1, <4>2, OthersNotAdded
    <3>4. CallOK(p)' BY <1>5, <3>0, <3>1, <3>2, <3>3 DEF CallOK
    <3> QED BY <1>4, <3>1, <3>4
  <2> QED BY <2>1, <2>2, <2>3, <2>4, PlaceGoesOn
<1>8. \A q, o \in Procs : (Sends(q) /\ Sends(o) /\ Sent(q) = Sent(o))' => q = o
  BY <1>2, <1>4, <1>7
<1> QED BY <1>6, <1>7, <1>8 DEF CallsOK

LEMMA LockGoesOn ==
  ASSUME LogInv, NEW p \in Procs, Log!Step(p)
  PROVE  LockOK'
<1>1. LockOK /\ LogTypes /\ NoProc \notin Procs BY NoProcAssumption DEF LogInv
<1>2. p \in DOMAIN logPc /\ p \in DOMAIN logCall BY <1>1 DEF LogTypes
<1>3. /\ \/ lock' = lock
         \/ lock = NoProc /\ lock' = p
         \/ lock = p /\ lock' = NoProc /\ logPc'[p] = "idle"
      /\ \/ logPc'[p] = "idle"
         \/ logPc'[p] = "lock"
         \/ logPc[p] = "lock" /\ lock' = p
         \/ logPc[p] = "idle" /\ kind = "box" /\ \E s, n : logCall'[p] = Log!ListCall(s, n)
         \/ logPc[p] \notin {"idle", "lock"} /\ logCall'[p] = logCall[p] /\ lock' = lock
      /\ kind' = kind
  BY <1>1, <1>2 DEF Log!Step, Log!BeginAppend, Log!BeginList, Log!LockFile, Log!OpenTrail,
            Log!ReadLegacy, Log!CreateLog, Log!CopyRecord, Log!MoveLegacy, Log!WriteRecord,
            Log!ReadLog, Log!ReadFails, Log!Fault, Log!Return, Log!history, Log!disk
<1>4. ASSUME NEW q \in Procs, q # p, (logPc[q] \notin {"idle", "lock"} /\ (kind # "box" \/ logCall[q].op = "append"))'
      PROVE  lock' = q
  <2>1. lock = q BY <1>1, <1>3, <1>4, OneSteps DEF LockOK
  <2> QED BY <1>1, <1>3, <1>4, <2>1
<1>5. ASSUME (logPc[p] \notin {"idle", "lock"} /\ (kind # "box" \/ logCall[p].op = "append"))'
      PROVE  lock' = p
  <2>1. \A s, n : Log!ListCall(s, n).op = "list" BY DEF Log!ListCall
  <2>2. CASE logPc[p] \notin {"idle", "lock"} /\ logCall'[p] = logCall[p] /\ lock' = lock
    BY <1>1, <1>3, <1>5, <2>2 DEF LockOK
  <2> QED BY <1>3, <1>5, <2>1, <2>2
<1> QED BY <1>4, <1>5 DEF LockOK

LEMMA SentGoesOn ==
  ASSUME LogInv, NEW p \in Procs, Log!Step(p)
  PROVE  SentOK'
<1>1. SentOK /\ LogTypes /\ CallsOK BY DEF LogInv
<1>2. begun \subseteq begun' BY SetsGrow
<1>3. Sends(p) => Sent(p) \in begun /\ Sent(p) \notin Range(log) BY <1>1 DEF CallsOK, CallOK
<1>4. (New \intersect Range(log) \subseteq begun)'
  <2>1. ASSUME NEW r \in New, r \in Range(log') PROVE r \in begun'
    <3>1. CASE r \in Range(log) BY <1>1, <1>2, <3>1 DEF SentOK
    <3>2. CASE r \notin Range(log) BY <1>2, <1>3, <2>1, <3>2, OthersNotAdded
    <3> QED BY <3>1, <3>2
  <2> QED BY <2>1
<1>5. ASSUME NEW r \in New PROVE Single(r, log)'
  <2>1. Single(r, log) /\ r \notin {Torn, Bad} /\ r \notin Range(Old) BY <1>1, <1>5, RecordsAre DEF SentOK
  <2>2. CASE log' = log BY <2>1, <2>2
  <2>3. CASE log' # log
    <3>1. PICK x : /\ \A s : s \notin {Torn, Bad} /\ Single(s, log) /\ (s = x => s \notin Range(log)) =>
                          Single(s, log')
                   /\ \/ x = Torn
                      \/ x \in Range(Old)
                      \/ x = Sent(p) /\ Sends(p)
      BY <2>3, LineIs
    <3>2. r = x => r \notin Range(log) BY <1>3, <2>1, <3>1
    <3> QED BY <2>1, <3>1, <3>2
  <2> QED BY <2>2, <2>3
<1>6. Lost' \/ (acked \subseteq Range(log))'
  <2>1. Lost => Lost' BY LineIs
  <2>2. acked \subseteq Range(log) => acked \subseteq Range(log')
    <3>1. Torn \notin acked BY <1>1, RecordsAre DEF LogTypes
    <3> QED BY <3>1, LineIs
  <2>3. ASSUME acked' # acked PROVE Lost' \/ Sent(p) \in Range(log')
    <3>1. log' = Log!Appended(log, Sent(p)) BY <2>3, SetsGrow
    <3>2. IsList(log) BY <1>1 DEF LogTypes
    <3> QED BY <3>1, <3>2, LineAdded DEF Lost
  <2>4. acked' = acked \/ acked' = acked \union {Sent(p)} BY SetsGrow
  <2> QED BY <1>1, <2>1, <2>2, <2>3, <2>4 DEF SentOK
<1> QED BY <1>4, <1>5, <1>6 DEF SentOK
------------------------------------------------------------------------------
LEMMA HeadAndTail ==
  ASSUME NEW T, NEW s \in Seq(T), s # <<>>
  PROVE  /\ \A r \in Range(s) : r = Head(s) \/ r \in Range(Tail(s))
         /\ \A r : Single(r, s) => Single(r, Tail(s)) /\ (r \in Range(Tail(s)) => r # Head(s))
         /\ Range(Tail(s)) \subseteq Range(s) /\ (Tail(s) = <<>> <=> Len(s) = 1)
         /\ Range(<<>>) = {}
<1>1. PICK n \in Nat : n = Len(s) /\ DOMAIN s = 1..n BY LenProperties
<1>2. PICK t : t = Tail(s) OBVIOUS
<1>3. t \in Seq(T) /\ Len(t) = n - 1 /\ \A i \in 1..Len(t) : t[i] = s[i + 1]
  BY <1>1, <1>2, HeadTailProperties
<1>4. n # 0 BY <1>1, EmptySeq
<1>5. Head(s) = s[1] /\ DOMAIN t = 1..(n - 1) BY <1>3, LenProperties
<1>6. ASSUME NEW r \in Range(s) PROVE r = Head(s) \/ r \in Range(t)
  <2>1. PICK i \in 1..n : s[i] = r BY <1>1 DEF Range
  <2>2. i = 1 \/ (i - 1 \in 1..(n - 1) /\ (i - 1) + 1 = i) BY <1>1
  <2> QED BY <1>3, <1>5, <2>1, <2>2 DEF Range
<1>7. ASSUME NEW r, Single(r, s) PROVE Single(r, t) /\ (r \in Range(t) => r # Head(s))
  <2>1. \A i \in 1..(n - 1) : i + 1 \in 1..n /\ t[i] = s[i + 1] /\ i + 1 # 1 BY <1>3
  <2>2. 1 \in 1..n BY <1>4
  <2>3. ASSUME NEW i \in 1..(n - 1), NEW j \in 1..(n - 1), t[i] = r, t[j] = r PROVE i = j
    <3>1. i + 1 = j + 1 BY <1>1, <1>7, <2>1, <2>3 DEF Single
    <3> QED BY <3>1
  <2>4. ASSUME NEW i \in 1..(n - 1), t[i] = r, r = Head(s) PROVE FALSE
    BY <1>1, <1>5, <1>7, <2>1, <2>2, <2>4 DEF Single
  <2>5. Len(t) = n - 1 BY <1>3
  <2> QED BY <1>5, <2>3, <2>4, <2>5 DEF Single, Range
<1>8. Range(t) \subseteq Range(s)
  <2>1. ASSUME NEW i \in 1..(n - 1) PROVE t[i] \in Range(s)
    <3>1. i + 1 \in 1..n /\ t[i] = s[i + 1] BY <1>3
    <3> QED BY <1>1, <3>1 DEF Range
  <2> QED BY <1>5, <2>1 DEF Range
<1>9. t = <<>> <=> n = 1
  <2>1. t = <<>> => Len(t) = 0 BY EmptySeq
  <2>2. t # <<>> => Len(t) # 0 BY <1>3, EmptySeq
  <2> QED BY <1>1, <1>3, <2>1, <2>2
<1>10. Range(<<>>) = {}
  <2>1. <<>> \in Seq(T) /\ Len(<<>>) = 0 BY EmptySeq
  <2>2. DOMAIN <<>> = 1..0 BY <2>1, LenProperties
  <2> QED BY <2>2 DEF Range
<1> QED BY <1>1, <1>2, <1>6, <1>7, <1>8, <1>9, <1>10

LEMMA OldOnesOld ==
  ASSUME LogTypes, left # Len(Old) + 1
  PROVE  OldOnes \subseteq Range(Old)
<1>1. PICK n \in Nat : n = Len(Old) /\ DOMAIN Old = 1..n BY RecordsAre, LenProperties DEF IsList
<1>2. left \in 0..n BY <1>1 DEF LogTypes
<1>3. 1 \in Int /\ left \in Int /\ \A i \in 1..left : Old[i] \in Range(Old)
  BY <1>1, <1>2 DEF Range
<1>4. SubSeq(Old, 1, left) \in Seq(Range(Old)) BY <1>3, SubSeqProperties
<1> QED BY <1>4, ListOfSeq DEF OldOnes

(* How the old file, the log and the marks of a migration go on.             *)
LEMMA MarksGoOn ==
  ASSUME NEW p \in Procs, Log!Step(p), LogTypes
  PROVE  /\ legacy' = legacy \/ (legacy' = Len(Old) + 1 /\ logPc[p] = "move")
         /\ (hidden => hidden') /\ (mixed => mixed')
         /\ hasLog => hasLog'
         /\ hasLog' => hasLog \/ hidden' \/ legacy = Len(Old) + 1 \/ logPc'[p] = "copy"
         /\ logPc[p] = "copy" => logPc'[p] \in {"copy", "move"} \/ legacy = Len(Old) + 1 \/ hidden'
         /\ logPc[p] \in {"copy", "move"} =>
              logPc'[p] \in {"copy", "move"} \/ legacy' = Len(Old) + 1 \/ mixed'
<1> USE DEF Log!history, Log!disk, Log!Return
<1>1. p \in DOMAIN logPc /\ Log!Gone = Len(Old) + 1 BY RecordsAre DEF LogTypes
<1>2. CASE \/ Log!BeginAppend(p) \/ Log!BeginList(p) \/ Log!LockFile(p) \/ Log!OpenTrail(p)
           \/ Log!ReadLog(p) \/ Log!ReadFails(p)
  <2>1. /\ legacy' = legacy /\ hidden' = hidden /\ mixed' = mixed /\ hasLog' = hasLog
        /\ logPc[p] \notin {"copy", "move"}
    BY <1>2 DEF Log!BeginAppend, Log!BeginList, Log!LockFile, Log!OpenTrail, Log!ReadLog, Log!ReadFails
  <2> QED BY <2>1
<1>3. CASE Log!ReadLegacy(p)
  <2>1. /\ legacy' = legacy /\ hidden' = hidden /\ hasLog' = hasLog /\ logPc[p] = "legacy"
    BY <1>3 DEF Log!ReadLegacy
  <2>2. mixed => mixed'
    <3>1. mixed' = mixed \/ mixed' = (mixed \/ \E q \in Procs \ {p} : logPc[q] \in {"create", "copy", "move"})
      BY <1>3 DEF Log!ReadLegacy
    <3> QED BY <3>1, Zenon
  <2> QED BY <2>1, <2>2
<1>4. CASE Log!CreateLog(p) \/ Log!CopyRecord(p) \/ Log!MoveLegacy(p)
  <2>1. hidden' = hidden /\ mixed' = mixed
    BY <1>4 DEF Log!CreateLog, Log!CopyRecord, Log!MoveLegacy
  <2> QED BY <1>1, <1>4, <2>1 DEF Log!CreateLog, Log!CopyRecord, Log!MoveLegacy
<1>5. CASE Log!WriteRecord(p)
  <2>1. /\ hidden' = (hidden \/ (legacy # Len(Old) + 1 /\ ~hasLog)) /\ mixed' = mixed
        /\ hasLog' = TRUE /\ legacy' = legacy /\ logPc[p] = "write"
    BY <1>1, <1>5 DEF Log!WriteRecord
  <2> QED BY <2>1
<1>6. CASE Log!Fault(p)
  <2>1. hidden' = (hidden \/ (legacy # Len(Old) + 1 /\ (logPc[p] = "copy" \/ (~hasLog /\ hasLog'))))
    BY <1>1, <1>6 DEF Log!Fault
  <2>2. mixed' = (mixed \/ logPc[p] \in {"copy", "move"}) BY <1>6 DEF Log!Fault
  <2>3. hasLog' = hasLog \/ hasLog' = TRUE BY <1>6 DEF Log!Fault
  <2>4. legacy' = legacy BY <1>6 DEF Log!Fault
  <2>5. hidden => hidden' BY <2>1, Zenon
  <2>6. mixed => mixed' BY <2>2, Zenon
  <2>7. hasLog => hasLog' BY <2>3
  <2>8. legacy # Len(Old) + 1 /\ ~hasLog /\ hasLog' => hidden' BY <2>1, Zenon
  <2>9. legacy # Len(Old) + 1 /\ logPc[p] = "copy" => hidden' BY <2>1, Zenon
  <2>10. logPc[p] \in {"copy", "move"} => mixed' BY <2>2, Zenon
  <2> QED BY <2>4, <2>5, <2>6, <2>7, <2>8, <2>9, <2>10
<1> QED BY <1>2, <1>3, <1>4, <1>5, <1>6 DEF Log!Step

\* A process that migrates reads the old file, or goes on copying.
ReadsOld(p) ==
  /\ logPc[p] = "legacy" /\ legacy # Len(Old) + 1 /\ legacy' = legacy /\ log' = log
  /\ rest'[p] = SubSeq(Old, 1, legacy)
  /\ logPc'[p] = IF legacy = 0 THEN "move" ELSE "create"
  /\ mixed' \/ \A q \in Procs : q # p => ~Moving(q)
GoesOnMoving(p) ==
  /\ legacy' = legacy
  /\ \/ logPc[p] = "create" /\ logPc'[p] = "copy" /\ rest'[p] = rest[p] /\ log' = log
     \/ /\ logPc[p] = "copy" /\ rest'[p] = Tail(rest[p]) /\ log' = Log!Appended(log, Head(rest[p]))
        /\ logPc'[p] = IF Len(rest[p]) = 1 THEN "move" ELSE "copy"
StartsReading(p) ==
  /\ log' = log /\ hidden' = hidden
  /\ \/ logPc[p] = "open" /\ (hasLog \/ kind = "events") /\ legacy' = legacy
     \/ logPc[p] = "legacy" /\ legacy = Len(Old) + 1 /\ legacy' = legacy
     \/ logPc[p] = "move" /\ legacy' = Len(Old) + 1

LEMMA MovingGoesOn ==
  ASSUME NEW p \in Procs, Log!Step(p), LogTypes
  PROVE  /\ Moving(p)' => ReadsOld(p) \/ GoesOnMoving(p)
         /\ logPc'[p] = "read" => StartsReading(p)
<1> USE DEF Log!history, Log!disk
<1>1. p \in DOMAIN logPc /\ p \in DOMAIN rest BY DEF LogTypes
<1>2. CASE Log!BeginAppend(p) BY <1>1, <1>2 DEF Log!BeginAppend, Moving
<1>3. CASE Log!BeginList(p) BY <1>1, <1>3 DEF Log!BeginList, Moving
<1>4. CASE Log!LockFile(p) BY <1>1, <1>4 DEF Log!LockFile, Moving
<1>5. CASE Log!OpenTrail(p) BY <1>1, <1>5 DEF Log!OpenTrail, Moving, StartsReading
<1>6. CASE Log!ReadLegacy(p) /\ legacy = Log!Gone
  BY <1>1, <1>6, RecordsAre DEF Log!ReadLegacy, Moving, StartsReading
<1>7. CASE Log!ReadLegacy(p) /\ legacy # Log!Gone
  <2>1. /\ logPc[p] = "legacy" /\ legacy # Len(Old) + 1 /\ legacy' = legacy /\ log' = log
        /\ rest'[p] = SubSeq(Old, 1, legacy)
        /\ logPc'[p] = IF legacy = 0 THEN "move" ELSE "create"
    BY <1>1, <1>7, RecordsAre DEF Log!ReadLegacy
  <2>2. mixed' = (mixed \/ \E q \in Procs \ {p} : logPc[q] \in {"create", "copy", "move"})
    BY <1>7 DEF Log!ReadLegacy
  <2>3. mixed' \/ \A q \in Procs : q # p => ~Moving(q) BY <2>2 DEF Moving
  <2> QED BY <2>1, <2>3 DEF ReadsOld
<1>8. CASE Log!CreateLog(p) BY <1>1, <1>8 DEF Log!CreateLog, Moving, GoesOnMoving
<1>9. CASE Log!CopyRecord(p) BY <1>1, <1>9 DEF Log!CopyRecord, Moving, GoesOnMoving
<1>10. CASE Log!MoveLegacy(p)
  BY <1>1, <1>10, RecordsAre DEF Log!MoveLegacy, Moving, StartsReading
<1>11. CASE Log!WriteRecord(p) \/ Log!ReadLog(p) \/ Log!ReadFails(p) \/ Log!Fault(p)
  <2>1. logPc'[p] = "idle"
    BY <1>1, <1>11 DEF Log!WriteRecord, Log!ReadLog, Log!ReadFails, Log!Fault, Log!Return
  <2> QED BY <2>1 DEF Moving
<1> QED BY <1>2, <1>3, <1>4, <1>5, <1>6, <1>7, <1>8, <1>9, <1>10, <1>11 DEF Log!Step

LEMMA MovesGoOn ==
  ASSUME LogInv, NEW p \in Procs, Log!Step(p)
  PROVE  MovesOK'
<1>1. LogTypes /\ CallsOK /\ LockOK /\ MovesOK /\ kind' = kind /\ left' = left /\ OldOnes' = OldOnes
  BY SetsGrow DEF LogInv, OldOnes
<1>2. left # Len(Old) + 1 => OldOnes \subseteq Range(Old) BY <1>1, OldOnesOld
<1>3. (Lost => Lost') /\ \A r \in Range(Old) : r \in Range(log) => r \in Range(log')
  BY LineIs, RecordsAre
<1>4. left # Len(Old) + 1 /\ AllMoved => AllMoved' BY <1>1, <1>2, <1>3 DEF AllMoved
<1>5. ASSUME NEW q \in Procs, q # p PROVE MoveOK(q)' /\ ReadOK(q)'
  <2>1. logPc'[q] = logPc[q] /\ rest'[q] = rest[q] BY <1>1, <1>5, OneSteps
  <2>2. MoveOK(q) /\ ReadOK(q) BY <1>1 DEF MovesOK
  <2>3. MoveOK(q)' BY <1>1, <1>2, <1>3, <2>1, <2>2 DEF MoveOK, Moving
  <2>4. ReadOK(q)' BY <1>1, <1>4, <2>1, <2>2, MarksGoOn DEF ReadOK
  <2> QED BY <2>3, <2>4
<1>6. Range(<<>>) = {} /\ MoveOK(p) /\ ReadOK(p)
  <2>1. PICK s : s = <<1>> OBVIOUS
  <2>2. s \in Seq({1}) /\ s # <<>> BY <2>1
  <2>3. Range(<<>>) = {} BY <2>2, HeadAndTail
  <2> QED BY <1>1, <2>3 DEF MovesOK
<1>7. MoveOK(p)'
  <2> SUFFICES ASSUME Moving(p)' PROVE MoveOK(p)' BY DEF MoveOK
  <2>1. CASE ReadsOld(p)
    <3>1. left # Len(Old) + 1 /\ Range(rest'[p]) = OldOnes /\ (rest'[p] = <<>> <=> legacy = 0)
      BY <1>1, <2>1, OldOnesAre DEF ReadsOld
    <3>2. logPc'[p] = "move" <=> legacy = 0 BY <2>1 DEF ReadsOld
    <3> QED BY <1>1, <3>1, <3>2 DEF MoveOK
  <2>2. CASE GoesOnMoving(p)
    <3>1. Moving(p) /\ logPc[p] # "move" BY <2>2 DEF GoesOnMoving, Moving
    <3>2. /\ left # Len(Old) + 1 /\ rest[p] # <<>>
          /\ Lost \/ OldOnes \subseteq Range(log) \union Range(rest[p])
      BY <1>6, <3>1 DEF MoveOK
    <3>3. CASE logPc[p] = "create"
      <4>1. rest'[p] = rest[p] /\ logPc'[p] = "copy" BY <2>2, <3>3 DEF GoesOnMoving
      <4> QED BY <1>1, <1>2, <1>3, <3>2, <4>1 DEF MoveOK
    <3>4. CASE logPc[p] = "copy"
      <4>1. rest'[p] = Tail(rest[p]) /\ log' = Log!Appended(log, Head(rest[p]))
            /\ logPc'[p] = IF Len(rest[p]) = 1 THEN "move" ELSE "copy"
        BY <2>2, <3>4 DEF GoesOnMoving
      <4>2. Head(rest[p]) \in Range(log') \/ Lost' BY <1>1, <4>1, LineAdded DEF LogTypes, Lost
      <4>3. rest[p] \in Seq(Range(Old)) BY <1>1 DEF LogTypes
      <4>4. /\ \A r \in Range(rest[p]) : r = Head(rest[p]) \/ r \in Range(rest'[p])
            /\ rest'[p] = <<>> <=> logPc'[p] = "move"
        BY <3>2, <4>1, <4>3, HeadAndTail
      <4>5. (Lost \/ OldOnes \subseteq Range(log) \union Range(rest[p]))'
        BY <1>1, <1>2, <1>3, <3>2, <4>2, <4>4
      <4> QED BY <1>1, <3>2, <4>4, <4>5 DEF MoveOK
    <3> QED BY <2>2, <3>3, <3>4 DEF GoesOnMoving
  <2> QED BY <1>1, <2>1, <2>2, MovingGoesOn
<1>8. left # Len(Old) + 1 /\ logPc[p] = "move" => AllMoved BY <1>6 DEF MoveOK, Moving, AllMoved
<1>9. legacy' = Len(Old) + 1 /\ left # Len(Old) + 1 => AllMoved'
  BY <1>1, <1>4, <1>8, MarksGoOn DEF MovesOK
<1>10. ReadOK(p)'
  <2> SUFFICES ASSUME logPc'[p] = "read" PROVE ReadOK(p)' BY DEF ReadOK
  <2>1. StartsReading(p) BY <1>1, MovingGoesOn
  <2>2. CASE legacy' = Len(Old) + 1 BY <1>1, <1>9, <2>2 DEF ReadOK
  <2>3. CASE legacy' # Len(Old) + 1
    <3>1. logPc[p] = "open" /\ (hasLog \/ kind = "events") /\ hidden' = hidden
      BY <2>1, <2>3 DEF StartsReading
    <3>2. kind # "box" BY <1>1, <3>1 DEF CallsOK, CallOK
    <3>3. lock = p BY <1>1, <3>1, <3>2 DEF LockOK
    <3>4. \A q \in Procs : logPc[q] # "copy" BY <1>1, <3>1, <3>2, <3>3 DEF LockOK
    <3>5. kind = "events" => left = Len(Old) + 1 BY <1>1 DEF LogTypes
    <3>6. left # Len(Old) + 1 /\ ~hidden => AllMoved
      <4>1. kind \in {"box", "audit", "events"} BY <1>1 DEF LogTypes
      <4> QED BY <1>1, <3>1, <3>2, <3>4, <3>5, <4>1 DEF MovesOK
    <3> QED BY <1>1, <1>4, <3>1, <3>2, <3>6 DEF ReadOK
  <2> QED BY <2>2, <2>3
<1>11. ASSUME (kind = "audit" /\ left # Len(Old) + 1 /\ ~hidden /\ hasLog)'
       PROVE  AllMoved' \/ \E q \in Procs : logPc'[q] = "copy"
  <2>1. CASE legacy' = Len(Old) + 1 BY <1>1, <1>9, <1>11, <2>1
  <2>2. CASE legacy' # Len(Old) + 1
    <3>1. legacy # Len(Old) + 1 /\ ~hidden BY <1>1, <1>11, <2>2, MarksGoOn
    <3>2. hasLog \/ logPc'[p] = "copy" BY <1>1, <1>11, <3>1, MarksGoOn
    <3>3. CASE hasLog /\ ~AllMoved
      <4>1. PICK q \in Procs : logPc[q] = "copy" BY <1>1, <1>11, <3>1, <3>3 DEF MovesOK
      <4>2. CASE q # p BY <1>1, <4>1, <4>2, OneSteps
      <4>3. CASE q = p
        <5>1. logPc'[p] \in {"copy", "move"} BY <1>1, <1>11, <3>1, <4>1, <4>3, MarksGoOn
        <5>2. logPc'[p] = "move" => AllMoved' BY <1>6, <1>7, <5>1 DEF MoveOK, Moving, AllMoved
        <5> QED BY <5>1, <5>2
      <4> QED BY <4>2, <4>3
    <3> QED BY <1>1, <1>4, <1>11, <3>2, <3>3
  <2> QED BY <2>1, <2>2
<1> QED BY <1>1, <1>5, <1>7, <1>9, <1>10, <1>11 DEF MovesOK
------------------------------------------------------------------------------
LEMMA OnceGoesOn ==
  ASSUME LogInv, NEW p \in Procs, Log!Step(p)
  PROVE  OnceOK'
<1> SUFFICES ASSUME ~mixed' PROVE OnceOK' BY DEF OnceOK
<1>1. LogTypes /\ MovesOK /\ ~mixed BY MarksGoOn DEF LogInv
<1>2. /\ \A q \in Procs : Moving(q) =>
           /\ legacy # Len(Old) + 1
           /\ \A o \in Procs : Moving(o) => q = o
           /\ \A r \in Range(rest[q]) : Single(r, rest[q]) /\ r \notin Range(log)
      /\ \A r \in Range(Old) : Single(r, log)
      /\ legacy # Len(Old) + 1 /\ (\A q \in Procs : logPc[q] \notin {"copy", "move"}) =>
           Range(Old) \intersect Range(log) = {}
  BY <1>1 DEF LogInv, OnceOK
<1>3. ASSUME NEW q \in Procs, q # p PROVE Moving(q)' = Moving(q) /\ rest'[q] = rest[q] /\ logPc'[q] = logPc[q]
  BY <1>1, <1>3, OneSteps DEF Moving
<1>4. \A r \in Range(Old) : r \notin {Torn, Bad} /\ r \notin New BY RecordsAre
<1>5. \A q \in Procs : rest[q] \in Seq(Range(Old)) BY <1>1 DEF LogTypes
<1>6. \A q \in Procs : Range(rest[q]) \subseteq Range(Old) BY <1>5, ListOfSeq
\* Only a copy brings an old record into the log.
<1>7. ASSUME NEW r \in Range(Old), r \in Range(log'), r \notin Range(log)
      PROVE  logPc[p] = "copy" /\ r = Head(rest[p])
  <2>1. log' # log BY <1>7
  <2> QED BY <1>4, <1>7, <2>1, LineIs
<1>8. ASSUME NEW r \in Range(Old) PROVE Single(r, log)'
  <2>1. Single(r, log) /\ r \notin {Torn, Bad} /\ r \notin New BY <1>2, <1>4
  <2>2. CASE log' = log BY <2>1, <2>2
  <2>3. CASE log' # log
    <3>1. PICK x : /\ \A s : s \notin {Torn, Bad} /\ Single(s, log) /\ (s = x => s \notin Range(log)) =>
                          Single(s, log')
                   /\ \/ x = Torn
                      \/ logPc[p] = "copy" /\ x \in Range(rest[p])
                      \/ x \in New
      BY <2>3, LineIs
    <3>2. r = x => r \notin Range(log)
      <4>1. r = x => logPc[p] = "copy" /\ r \in Range(rest[p]) BY <2>1, <3>1
      <4> QED BY <1>2, <4>1 DEF Moving
    <3> QED BY <2>1, <3>1, <3>2
  <2> QED BY <2>2, <2>3
<1>9. ASSUME NEW q \in Procs, q # p, Moving(q)
      PROVE  /\ ~Moving(p)' /\ legacy' # Len(Old) + 1
             /\ \A r \in Range(rest'[q]) : Single(r, rest'[q]) /\ r \notin Range(log')
  <2>1. ~Moving(p) BY <1>2, <1>9
  <2>2. ~Moving(p)'
    <3>1. ~ReadsOld(p) BY <1>9 DEF ReadsOld
    <3>2. ~GoesOnMoving(p) BY <2>1 DEF GoesOnMoving, Moving
    <3> QED BY <1>1, <3>1, <3>2, MovingGoesOn
  <2>3. legacy' # Len(Old) + 1
    <3>1. legacy # Len(Old) + 1 BY <1>2, <1>9
    <3>2. logPc[p] # "move" BY <2>1 DEF Moving
    <3> QED BY <1>1, <3>1, <3>2, MarksGoOn
  <2>4. ASSUME NEW r \in Range(rest[q]) PROVE Single(r, rest[q]) /\ r \notin Range(log')
    <3>1. Single(r, rest[q]) /\ r \notin Range(log) BY <1>2, <1>9
    <3>2. r \in Range(Old) BY <1>6
    <3>3. logPc[p] # "copy" BY <2>1 DEF Moving
    <3> QED BY <1>7, <3>1, <3>2, <3>3
  <2> QED BY <1>3, <1>9, <2>2, <2>3, <2>4
<1>10. ASSUME Moving(p)'
       PROVE  /\ legacy' # Len(Old) + 1
              /\ \A r \in Range(rest'[p]) : Single(r, rest'[p]) /\ r \notin Range(log')
  <2>1. CASE ReadsOld(p)
    <3>1. /\ logPc[p] = "legacy" /\ legacy # Len(Old) + 1 /\ legacy' = legacy /\ log' = log
          /\ rest'[p] = SubSeq(Old, 1, legacy) /\ \A q \in Procs : q # p => ~Moving(q)
      BY <2>1 DEF ReadsOld
    <3>2. \A q \in Procs : logPc[q] \notin {"copy", "move"} BY <3>1 DEF Moving
    <3>3. Range(Old) \intersect Range(log) = {} BY <1>2, <3>1, <3>2
    <3>4. SubSeq(Old, 1, legacy) \in Seq(Range(Old)) /\ \A r : Single(r, SubSeq(Old, 1, legacy))
      BY <1>1, <3>1, OldOnesAre
    <3>5. Range(SubSeq(Old, 1, legacy)) \subseteq Range(Old) BY <3>4, ListOfSeq
    <3> QED BY <3>1, <3>3, <3>4, <3>5
  <2>2. CASE GoesOnMoving(p)
    <3>1. Moving(p) /\ legacy' = legacy BY <2>2 DEF GoesOnMoving, Moving
    <3>2. /\ legacy # Len(Old) + 1
          /\ \A r \in Range(rest[p]) : Single(r, rest[p]) /\ r \notin Range(log)
      BY <1>2, <3>1
    <3>3. CASE logPc[p] = "create"
      <4>1. rest'[p] = rest[p] /\ log' = log BY <2>2, <3>3 DEF GoesOnMoving
      <4> QED BY <3>1, <3>2, <4>1
    <3>4. CASE logPc[p] = "copy"
      <4>1. rest'[p] = Tail(rest[p]) BY <2>2, <3>4 DEF GoesOnMoving
      <4>2. rest[p] # <<>> BY <1>1, <3>4 DEF MovesOK, MoveOK, Moving
      <4>3. /\ \A r : Single(r, rest[p]) => Single(r, Tail(rest[p]))
                                           /\ (r \in Range(Tail(rest[p])) => r # Head(rest[p]))
            /\ Range(Tail(rest[p])) \subseteq Range(rest[p])
        BY <1>5, <4>2, HeadAndTail
      <4>4. ASSUME NEW r \in Range(rest'[p]) PROVE Single(r, rest'[p]) /\ r \notin Range(log')
        <5>1. r \in Range(rest[p]) /\ r \in Range(Old) BY <1>6, <4>1, <4>3
        <5>2. Single(r, rest[p]) /\ r \notin Range(log) BY <3>2, <5>1
        <5>3. Single(r, rest'[p]) /\ r # Head(rest[p]) BY <4>1, <4>3, <5>2
        <5> QED BY <1>7, <5>1, <5>2, <5>3
      <4> QED BY <3>1, <3>2, <4>4
    <3> QED BY <2>2, <3>3, <3>4 DEF GoesOnMoving
  <2> QED BY <1>1, <1>10, <2>1, <2>2, MovingGoesOn
<1>11. ASSUME NEW q \in Procs, NEW o \in Procs, Moving(q)', Moving(o)' PROVE q = o
  <2>1. CASE q # p /\ o # p BY <1>2, <1>3, <1>11, <2>1
  <2>2. CASE q = p BY <1>3, <1>9, <1>11, <2>2
  <2>3. CASE o = p BY <1>3, <1>9, <1>11, <2>3
  <2> QED BY <2>1, <2>2, <2>3
<1>12. ASSUME NEW q \in Procs, Moving(q)'
       PROVE  /\ legacy' # Len(Old) + 1
              /\ \A r \in Range(rest'[q]) : Single(r, rest'[q]) /\ r \notin Range(log')
  <2>1. CASE q = p BY <1>10, <1>12, <2>1
  <2>2. CASE q # p BY <1>3, <1>9, <1>12, <2>2
  <2> QED BY <2>1, <2>2
<1>13. ASSUME legacy' # Len(Old) + 1, \A q \in Procs : logPc'[q] \notin {"copy", "move"}
       PROVE  Range(Old) \intersect Range(log') = {}
  <2>1. legacy # Len(Old) + 1 BY <1>1, <1>13, RecordsAre, MarksGoOn DEF LogTypes
  <2>2. logPc[p] \notin {"copy", "move"} BY <1>1, <1>13, MarksGoOn
  <2>3. \A q \in Procs : logPc[q] \notin {"copy", "move"} BY <1>3, <1>13, <2>2
  <2>4. Range(Old) \intersect Range(log) = {} BY <1>2, <2>1, <2>3
  <2> QED BY <1>7, <2>2, <2>4
<1>14. \A q \in Procs : (Moving(q) =>
         /\ legacy # Len(Old) + 1
         /\ \A o \in Procs : Moving(o) => q = o
         /\ \A r \in Range(rest[q]) : Single(r, rest[q]) /\ r \notin Range(log))'
  BY <1>11, <1>12
<1> QED BY <1>8, <1>13, <1>14 DEF OnceOK

LEMMA LogGoesOn ==
  ASSUME LogInv, [Log!Next]_logVars
  PROVE  LogInv'
<1>1. CASE UNCHANGED logVars
  BY <1>1 DEF LogInv, logVars, LogTypes, CallsOK, CallOK, Sends, Sent, LockOK, SentOK, Lost, MovesOK,
              MoveOK, Moving, ReadOK, AllMoved, OldOnes, OnceOK
<1>2. ASSUME NEW p \in Procs, Log!Step(p) PROVE LogInv'
  BY <1>2, TypesGoOn, CallsGoOn, LockGoesOn, SentGoesOn, MovesGoOn, OnceGoesOn DEF LogInv
<1> QED BY <1>1, <1>2 DEF Log!Next

(* What a list that returns shows, and that it stays so: which records the   *)
(* old file had never changes, and what excuses a list stays an excuse.      *)
WholeList(list) ==
  /\ \A r \in list.due : Asked(list.about, r) =>
       Log!Count(r, list.records) = 1 \/ IsFull(list.limit, list.records, r)
  /\ left # Len(Old) + 1 /\ (kind = "box" \/ ~hidden) => \A r \in OldOnes : Asked(list.about, r) =>
       Log!Count(r, list.records) >= 1 \/ IsFull(list.limit, list.records, r)
  /\ \A r \in New : Log!Count(r, list.records) <= 1
  /\ ~mixed => \A r \in Range(Old) : Log!Count(r, list.records) <= 1

LEMMA WholeIs ==
  Log!EveryListIsWhole <=> (found # Log!NoList => WholeList(found))
BY RecordsAre DEF Log!EveryListIsWhole, WholeList, Asked, IsFull, OldOnes, Log!Range, Range

LEMMA WholeIsNext ==
  (Log!EveryListIsWhole <=> (found # Log!NoList => WholeList(found)))'
BY WholeIs, PTL

LEMMA ListIsWhole ==
  ASSUME LogInv, NEW p \in Procs, Log!ReadLog(p)
  PROVE  WholeList(found)'
<1>1. PICK list : list = found' OBVIOUS
<1>2. PICK c : c = logCall[p] OBVIOUS
<1>3. /\ logPc[p] = "read" /\ Log!Readable /\ left' = left /\ kind' = kind
      /\ hidden' = hidden /\ mixed' = mixed
      /\ list = [about |-> c.about, limit |-> c.limit, due |-> due[p],
                 records |-> Log!Listed(c.about, c.limit, log)]
  BY <1>1, <1>2 DEF Log!ReadLog, Log!history, Log!disk
<1>4. LogTypes /\ CallsOK /\ SentOK /\ MovesOK BY DEF LogInv
<1>5. PICK n \in Nat : n = c.limit
  <2>1. c.op = "list" /\ c \in Log!Calls BY <1>2, <1>3, <1>4 DEF CallsOK, CallOK, LogTypes
  <2> QED BY <2>1, CallIs, RecordsAre
<1>6. PICK t : t = Log!Listed(c.about, n, log) OBVIOUS
<1>7. list.about = c.about /\ list.limit = n /\ list.due = due[p] /\ list.records = t
  BY <1>3, <1>5, <1>6
<1>8. IsList(log) /\ Range(log) \subseteq Range(Old) \union New /\ ~Lost
  <2>1. Range(log) \subseteq Range(Old) \union New
    BY <1>3, RecordsAre DEF Log!Readable, Log!Range, Range
  <2> QED BY <1>4, <2>1, RecordsAre DEF LogTypes, Lost
<1>9. \A r \in Range(log) : At[r] \in Int BY <1>8, RecordsAre
<1>10. /\ \A r \in Range(log) : Asked(c.about, r) => Log!Count(r, t) >= 1 \/ IsFull(n, t, r)
       /\ \A r : Single(r, log) => Log!Count(r, t) <= 1
       /\ \A r \in Range(log) : Asked(c.about, r) /\ Single(r, log) =>
            Log!Count(r, t) = 1 \/ IsFull(n, t, r)
  BY <1>6, <1>8, <1>9, ListIs
<1>11. \A r \in due[p] : r \in Range(log) /\ Single(r, log)
  BY <1>4, <1>8 DEF SentOK, LogTypes
<1>12. left # Len(Old) + 1 /\ (kind = "box" \/ ~hidden) => OldOnes \subseteq Range(log)
  <2>1. ReadOK(p) BY <1>4 DEF MovesOK
  <2> QED BY <1>3, <1>4, <1>8, <2>1 DEF MovesOK, ReadOK, AllMoved
<1>13. \A r \in New : Log!Count(r, t) <= 1 BY <1>4, <1>10 DEF SentOK
<1>14. ~mixed => \A r \in Range(Old) : Log!Count(r, t) <= 1 BY <1>10 DEF LogInv, OnceOK
<1>15. OldOnes' = OldOnes BY <1>3 DEF OldOnes
<1>16. \A r : Log!Count(r, t)' = Log!Count(r, t) OBVIOUS
<1> QED BY <1>1, <1>3, <1>7, <1>10, <1>11, <1>12, <1>13, <1>14, <1>15 DEF WholeList

LEMMA ListsStayWhole ==
  ASSUME LogInv, Log!EveryListIsWhole, [Log!Next]_logVars
  PROVE  Log!EveryListIsWhole'
<1>0. /\ found # Log!NoList => WholeList(found)
      /\ (Log!EveryListIsWhole <=> (found # Log!NoList => WholeList(found)))'
  BY WholeIs, WholeIsNext
<1>1. CASE /\ found' \in {found, Log!NoList} /\ left' = left /\ kind' = kind
           /\ (hidden => hidden') /\ (mixed => mixed')
  <2>1. OldOnes' = OldOnes BY <1>1 DEF OldOnes
  <2>2. Log!NoList' = Log!NoList BY DEF Log!NoList
  <2>3. found # Log!NoList /\ found' = found => WholeList(found)' BY <1>0, <1>1, <2>1 DEF WholeList
  <2>4. (found # Log!NoList => WholeList(found))' BY <1>1, <2>2, <2>3
  <2> QED BY <1>0, <2>4
<1>2. CASE UNCHANGED logVars BY <1>1, <1>2 DEF logVars
<1>3. ASSUME NEW p \in Procs, Log!Step(p) PROVE Log!EveryListIsWhole'
  <2>1. left' = left /\ kind' = kind /\ (hidden => hidden') /\ (mixed => mixed')
    BY <1>3, SetsGrow, MarksGoOn DEF LogInv
  <2>2. CASE Log!ReadLog(p)
    <3>1. WholeList(found)' BY <1>3, <2>2, ListIsWhole
    <3> QED BY <1>0, <3>1
  <2>3. CASE ~Log!ReadLog(p)
    <3>1. found' \in {found, Log!NoList}
      BY <1>3, <2>3 DEF Log!Step, Log!BeginAppend, Log!BeginList, Log!LockFile, Log!OpenTrail,
         Log!ReadLegacy, Log!CreateLog, Log!CopyRecord, Log!MoveLegacy, Log!WriteRecord,
         Log!ReadFails, Log!Fault, Log!Return, Log!history, Log!disk
    <3> QED BY <1>1, <2>1, <3>1
  <2> QED BY <2>2, <2>3
<1> QED BY <1>2, <1>3 DEF Log!Next

LEMMA LogInvariance == Spec => [](LogInv /\ Log!EveryListIsWhole)
<1>1. Init => LogInv /\ Log!EveryListIsWhole
  <2>1. Init => found = Log!NoList BY DEF Init, Log!Init
  <2>2. Init => LogInv BY LogStart DEF Init
  <2> QED BY <2>1, <2>2, WholeIs
<1>2. LogInv /\ Log!EveryListIsWhole /\ [Next]_vars => (LogInv /\ Log!EveryListIsWhole)'
  <2>1. [Next]_vars => [Log!Next]_logVars
    BY DEF Next, vars, LogStep, ToolStep, MailStep, SkillStep, TurnStep
  <2> QED BY <2>1, LogGoesOn, ListsStayWhole
<1> QED BY <1>1, <1>2, PTL DEF Spec

(* However processes append, list and migrate at once, fail or are killed: a  *)
(* list that returns has every record acknowledged before it began that it    *)
(* asks for, or is full of newer ones, and has no new one twice. Of the       *)
(* earlier version's records the same holds, but that a trail misses them     *)
(* where an append made its log before the first list, or a migration was cut *)
(* short, and that they come twice where migrations overlapped or were cut.   *)
THEOREM ListsAreWhole == Spec => []EveryListIsWhole
<1>1. Log!EveryListIsWhole => EveryListIsWhole BY DEF EveryListIsWhole
<1> QED BY LogInvariance, <1>1, PTL
=============================================================================
