----------------------------- MODULE DiskProofs -----------------------------
(* Proofs about the parts of Operations that work on files and addresses a   *)
(* caller names: the path policy of the tools (PathPolicy, ToolCalls), the   *)
(* downloads (TelegramTurn), and the installation of skills (SkillInstall).  *)
EXTENDS OperationsProofs

(* What a segment does to a path.                                            *)
CleanNext(abs, done, s) ==
  IF s # Up THEN Append(done, s)
  ELSE IF done # <<>> /\ Last(done) # Up THEN Front(done)
  ELSE IF abs THEN done ELSE Append(done, Up)

LEMMA CleanNextType ==
  ASSUME NEW S, Up \in S, NEW abs, NEW done \in Seq(S), NEW s \in S
  PROVE  CleanNext(abs, done, s) \in Seq(S)
<1>1. Append(done, s) \in Seq(S) /\ Append(done, Up) \in Seq(S) BY AppendProperties
<1>2. Front(done) \in Seq(S)
  <2>1. Len(done) \in Nat /\ \A i \in 1..Len(done) : done[i] \in S BY LenProperties
  <2>2. \A i \in 1..(Len(done) - 1) : done[i] \in S BY <2>1
  <2>3. SubSeq(done, 1, Len(done) - 1) \in Seq(S) BY <2>1, <2>2, SubSeqProperties
  <2> QED BY <2>3 DEF Front
<1> QED BY <1>1, <1>2 DEF CleanNext

Cleans(H, path, S) ==
  /\ H[0] = <<>>
  /\ \A i \in 1..Len(path.segs) : H[i] = CleanNext(path.abs, H[i - 1], path.segs[i])
  /\ \A i \in 0..Len(path.segs) : H[i] \in Seq(S)
  /\ Turns!Clean(path) = H[Len(path.segs)]

LEMMA CleanSteps ==
  ASSUME NEW S, Up \in S, NEW path, path.segs \in Seq(S)
  PROVE  \E H : Cleans(H, path, S)
<1> DEFINE segs == path.segs
           n == Len(segs)
           step == [d \in (1..n) \X Seq(S) |-> CleanNext(path.abs, d[2], segs[d[1]])]
           Eq(F) == F = [s \in SUBSET (DOMAIN segs) |->
                           IF s = {} THEN <<>>
                           ELSE CleanNext(path.abs, F[s \ {Max(s)}], segs[Max(s)])]
           G == CHOOSE F : Eq(F)
<1>1. n \in Nat /\ DOMAIN segs = 1..n /\ \A i \in 1..n : segs[i] \in S BY LenProperties
<1>2. Turns!Clean(path) = G[DOMAIN segs]
  BY DEF Turns!Clean, Turns!FoldLeft, Turns!MapThenFoldSet, Turns!Max, Max, CleanNext,
         Turns!Last, Last, Turns!Front, Front
<1>3. step \in [(1..n) \X Seq(S) -> Seq(S)]
  <2>1. \A d \in (1..n) \X Seq(S) : CleanNext(path.abs, d[2], segs[d[1]]) \in Seq(S)
    BY <1>1, CleanNextType
  <2> QED BY <2>1
<1>4. <<>> \in Seq(S) BY EmptySeq
<1>5. ASSUME NEW F, NEW s \in SUBSET (1..n), s # {}, F[s \ {Max(s)}] \in Seq(S)
      PROVE  CleanNext(path.abs, F[s \ {Max(s)}], segs[Max(s)]) = step[<<Max(s), F[s \ {Max(s)}]>>]
  <2>1. Max(s) \in 1..n BY <1>1, <1>5, Highest
  <2>2. <<Max(s), F[s \ {Max(s)}]>> \in (1..n) \X Seq(S) BY <1>5, <2>1
  <2> QED BY <2>2
<1>6. PICK F : IsFold(F, n, Seq(S), <<>>, step)
  <2> HIDE DEF step, n
  <2> QED BY <1>1, <1>3, <1>4, FoldExists
<1> HIDE DEF step, n, segs
<1>7. Eq(F) BY <1>1, <1>5, <1>6 DEF IsFold
<1>8. Eq(G)
  <2> HIDE DEF Eq
  <2> QED BY <1>7
<1> HIDE DEF G
<1>9. PICK H : FoldSteps(H, n, Seq(S), <<>>, step, G[1..n])
  <2>1. G[{}] = <<>> BY <1>1, <1>8
  <2>2. \A s \in SUBSET (1..n) : s # {} /\ G[s \ {Max(s)}] \in Seq(S) =>
          G[s] = step[<<Max(s), G[s \ {Max(s)}]>>]
    BY <1>1, <1>5, <1>8
  <2>3. FoldsLike(G, n, Seq(S), <<>>, step) BY <2>1, <2>2 DEF FoldsLike
  <2> QED BY <1>1, <1>3, <1>4, <2>3, FoldRuns
<1>10. ASSUME NEW i \in 1..n PROVE H[i] = CleanNext(path.abs, H[i - 1], segs[i])
  <2>1. i - 1 \in 0..n BY <1>1
  <2>2. <<i, H[i - 1]>> \in (1..n) \X Seq(S) /\ H[i] = step[<<i, H[i - 1]>>]
    BY <1>9, <2>1 DEF FoldSteps
  <2> QED BY <2>2 DEF step
<1> QED BY <1>1, <1>2, <1>9, <1>10 DEF FoldSteps, n, segs, Cleans

(* Cleaned, an absolute path has no "..".                                    *)
LEMMA CleanAbsolute ==
  ASSUME NEW S, NEW segs \in Seq(S)
  PROVE  Turns!Clean(Turns!Path(TRUE, segs)) \in Seq(S \ {Up})
<1> DEFINE path == Turns!Path(TRUE, segs)
           T == S \ {Up}
<1>1. path.abs = TRUE /\ path.segs = segs BY DEF Turns!Path
<1>2. segs \in Seq(S \union {Up}) BY SeqMonotonic
<1>2a. PICK H : Cleans(H, path, S \union {Up})
  <2>1. path.segs \in Seq(S \union {Up}) BY <1>1, <1>2
  <2> HIDE DEF path
  <2> QED BY <2>1, CleanSteps
<1>3. /\ H[0] = <<>>
      /\ \A i \in 1..Len(segs) : H[i] = CleanNext(TRUE, H[i - 1], segs[i])
      /\ Turns!Clean(path) = H[Len(segs)]
  BY <1>1, <1>2a DEF Cleans
<1> HIDE DEF path
<1>4. Len(segs) \in Nat /\ \A i \in 1..Len(segs) : segs[i] \in S BY LenProperties
<1>5. 0 \in 0..Len(segs) /\ Len(segs) \in 0..Len(segs) /\ H[0] \in Seq(T)
  BY <1>3, <1>4, EmptySeq
<1>6. ASSUME NEW i \in 1..Len(segs), H[i - 1] \in Seq(T) PROVE H[i] \in Seq(T)
  <2>1. H[i] = CleanNext(TRUE, H[i - 1], segs[i]) /\ segs[i] \in S BY <1>3, <1>4
  <2>2. CASE segs[i] # Up BY <1>6, <2>1, <2>2, AppendProperties DEF CleanNext
  <2>3. CASE segs[i] = Up /\ H[i - 1] # <<>> /\ Last(H[i - 1]) # Up
    BY <1>6, <2>1, <2>3, FrontOf DEF CleanNext
  <2>4. CASE segs[i] = Up /\ ~(H[i - 1] # <<>> /\ Last(H[i - 1]) # Up)
    BY <1>6, <2>1, <2>4 DEF CleanNext
  <2> QED BY <2>2, <2>3, <2>4
<1>7. 0..Len(segs) \subseteq {i \in 0..Len(segs) : H[i] \in Seq(T)}
  <2> DEFINE G == {i \in 0..Len(segs) : H[i] \in Seq(T)}
  <2>1. \A i \in 1..Len(segs) : i - 1 \in G => i \in G BY <1>6
  <2>2. 0 \in G BY <1>5
  <2> HIDE DEF G
  <2>3. 0..Len(segs) \subseteq G BY <1>4, <2>1, <2>2, Induct
  <2> QED BY <2>3 DEF G
<1>8. H[Len(segs)] \in Seq(T) BY <1>5, <1>7
<1> QED BY <1>3, <1>8 DEF path

(* Cleaning leaves a path without ".." as it is.                             *)
LEMMA CleanSame ==
  ASSUME NEW S, Up \notin S, NEW path, path.segs \in Seq(S)
  PROVE  Turns!Clean(path) = path.segs
<1> DEFINE segs == path.segs
           n == Len(segs)
<1>1. segs \in Seq(S \union {Up}) BY SeqMonotonic
<1>1a. PICK H : Cleans(H, path, S \union {Up}) BY <1>1, CleanSteps
<1>2. /\ H[0] = <<>>
      /\ \A i \in 1..n : H[i] = CleanNext(path.abs, H[i - 1], segs[i])
      /\ Turns!Clean(path) = H[n]
  BY <1>1a DEF Cleans
<1>3. n \in Nat /\ \A i \in 1..n : segs[i] \in S BY LenProperties
<1> HIDE DEF n, segs
<1> DEFINE G == {i \in 0..n : H[i] = SubSeq(segs, 1, i)}
<1>4. 0 \in G
  <2>1. SubSeq(segs, 1, 0) = <<>> BY SubSeqEmpty
  <2>2. 0 \in 0..n /\ H[0] = SubSeq(segs, 1, 0) BY <1>2, <1>3, <2>1
  <2> QED BY <2>2
<1>5. ASSUME NEW i \in 1..n, i - 1 \in G PROVE i \in G
  <2>1. H[i] = Append(H[i - 1], segs[i]) BY <1>2, <1>3 DEF CleanNext
  <2>2. segs \in Seq(S) /\ n = Len(segs) BY DEF segs, n
  <2>3. i - 1 \in 0..n /\ i - 1 \in Nat /\ i \in Nat /\ i <= n BY <1>3
  <2>4. SubSeq(segs, 1, i) = Append(SubSeq(segs, 1, i - 1), segs[i])
    <3>1. SubSeq(segs, 1, i) = SubSeq(segs, 1, i - 1) \o <<segs[i]>>
      BY <1>3, <2>2, <2>3, SubSeqRecursiveSecond
    <3>2. SubSeq(segs, 1, i - 1) \in Seq(S)
      <4>1. \A j \in 1..(i - 1) : segs[j] \in S BY <1>3, <2>3
      <4> QED BY <2>3, <4>1, SubSeqProperties
    <3> QED BY <1>3, <3>1, <3>2, AppendIsConcat
  <2>5. H[i - 1] = SubSeq(segs, 1, i - 1) BY <1>5
  <2>6. i \in 0..n BY <2>3
  <2>7. H[i] = SubSeq(segs, 1, i) BY <2>1, <2>4, <2>5
  <2> QED BY <2>6, <2>7
<1> HIDE DEF G
<1>6. 0..n \subseteq G BY <1>3, <1>4, <1>5, Induct
<1>7. H[n] = SubSeq(segs, 1, n) BY <1>3, <1>6 DEF G
<1>8. SubSeq(segs, 1, n) = segs BY SubSeqFull DEF segs, n
<1> QED BY <1>2, <1>7, <1>8 DEF segs

(* The files wanted for a message are those of its chat's directory.         *)
InChat(f, c) == \E id, file : f = CacheDir \o <<FilesDir, <<c>>, <<id, file>>>>

LEMMA WantedInChat ==
  ASSUME NEW m, m.files \in Seq(Range(m.files)), m.reply.files \in Seq(Range(m.reply.files))
  PROVE  /\ IsList(Turns!Wanted(m))
         /\ \A f \in Range(Turns!Wanted(m)) : InChat(f, m.chat)
<1> DEFINE own == m.files
           others == m.reply.files
           Dst(id, f) == Turns!Dst(m, id, f)
           S == {Dst(m.id, f) : f \in Range(own)} \union {Dst(m.reply.id, f) : f \in Range(others)}
           n == Len(others)
           first == [i \in DOMAIN own |-> Dst(m.id, own[i])]
           Next1(want, f) == IF f \in Turns!Range(own) THEN want ELSE Append(want, Dst(m.reply.id, f))
           step == [d \in (1..n) \X Seq(S) |-> Next1(d[2], others[d[1]])]
           Eq(F) == F = [s \in SUBSET (DOMAIN others) |->
                           IF s = {} THEN first ELSE Next1(F[s \ {Max(s)}], others[Max(s)])]
           G == CHOOSE F : Eq(F)
<1>1. n \in Nat /\ DOMAIN others = 1..n /\ \A i \in 1..n : others[i] \in Range(others)
  BY LenProperties
<1>2. Turns!Wanted(m) = G[DOMAIN others]
  BY DEF Turns!Wanted, Turns!FoldLeft, Turns!MapThenFoldSet, Turns!Max, Max
<1>3. first \in Seq(S)
  <2>1. Len(own) \in Nat /\ DOMAIN own = 1..Len(own) BY LenProperties
  <2>2. \A i \in DOMAIN own : Dst(m.id, own[i]) \in S BY DEF Range
  <2> HIDE DEF S, Dst
  <2>3. first \in [1..Len(own) -> S] BY <2>1, <2>2
  <2> QED BY <2>1, <2>3, SeqDef
<1>4. ASSUME NEW want \in Seq(S), NEW f \in Range(others) PROVE Next1(want, f) \in Seq(S)
  <2>1. Dst(m.reply.id, f) \in S OBVIOUS
  <2> HIDE DEF S, Dst
  <2> QED BY <2>1, AppendProperties
<1>5. step \in [(1..n) \X Seq(S) -> Seq(S)]
  <2>1. \A d \in (1..n) \X Seq(S) : Next1(d[2], others[d[1]]) \in Seq(S) BY <1>1, <1>4
  <2> HIDE DEF Next1
  <2> QED BY <2>1
<1>6. ASSUME NEW F, NEW s \in SUBSET (1..n), s # {}, F[s \ {Max(s)}] \in Seq(S)
      PROVE  Next1(F[s \ {Max(s)}], others[Max(s)]) = step[<<Max(s), F[s \ {Max(s)}]>>]
  <2>1. Max(s) \in 1..n BY <1>1, <1>6, Highest
  <2>2. <<Max(s), F[s \ {Max(s)}]>> \in (1..n) \X Seq(S) BY <1>6, <2>1
  <2> HIDE DEF Next1
  <2> QED BY <2>2
<1> HIDE DEF step, n, others, first, Next1, S
<1>7. PICK F : IsFold(F, n, Seq(S), first, step) BY <1>1, <1>3, <1>5, FoldExists
<1>8. Eq(F) BY <1>1, <1>6, <1>7 DEF IsFold
<1>9. Eq(G)
  <2> HIDE DEF Eq
  <2> QED BY <1>8
<1> HIDE DEF G
<1>10. FoldsLike(G, n, Seq(S), first, step)
  <2>1. G[{}] = first BY <1>1, <1>9
  <2>2. \A s \in SUBSET (1..n) : s # {} /\ G[s \ {Max(s)}] \in Seq(S) =>
          G[s] = step[<<Max(s), G[s \ {Max(s)}]>>]
    BY <1>1, <1>6, <1>9
  <2> QED BY <2>1, <2>2 DEF FoldsLike
<1>11. PICK H : FoldSteps(H, n, Seq(S), first, step, G[1..n])
  BY <1>1, <1>3, <1>5, <1>10, FoldRuns
<1>12. G[1..n] \in Seq(S)
  <2>1. n \in 0..n BY <1>1
  <2> QED BY <1>11, <2>1 DEF FoldSteps
<1>13. Turns!Wanted(m) \in Seq(S) BY <1>1, <1>2, <1>12
<1>14. \A f \in S : InChat(f, m.chat) BY DEF S, InChat, Turns!Dst
<1> QED BY <1>13, <1>14, ListOfSeq

(* Where the files of a turn are, and what a run sends.                      *)
InJob(fs, c) == \A f \in Range(fs) : InChat(f, c) /\ f \in DOMAIN cache

BelowCache(f) == IsPrefix(CacheDir, f) /\ CacheDir # f /\ Up \notin Range(f)

CacheWhole == \A f \in DOMAIN cache : (\E c : InChat(f, c)) => cache[f]

TurnFiles ==
  /\ turn # Turns!NoTurn => {"pc", "update", "want", "got"} \subseteq DOMAIN turn
  /\ turn.pc \in {"none", "model", "files", "download"} /\ (turn.pc = "none" => turn = Turns!NoTurn)
  /\ turn.pc # "none" =>
       /\ IsList(turn.want) /\ \A f \in Range(turn.want) : InChat(f, feed[turn.update].chat)
       /\ IsList(turn.got) /\ InJob(turn.got, feed[turn.update].chat)
  /\ turn.pc = "download" => turn.want # <<>>

JobFiles == IsList(jobs) /\ \A j \in Range(jobs) : InJob(j.files, feed[j.update].chat)

RunFiles ==
  /\ {"pc", "sent"} \subseteq DOMAIN run
  /\ run.pc # "none" => "job" \in DOMAIN run /\ InJob(run.job.files, feed[run.job.update].chat)
  /\ \A s \in run.sent : BelowCache(s.file)

FilesInv == CacheWhole /\ TurnFiles /\ JobFiles /\ RunFiles

(* A temporary file has another name than any file.                          *)
LEMMA TempIsNone ==
  ASSUME NEW f, NEW c, InChat(f, c), NEW g, NEW d, InChat(g, d)
  PROVE  Turns!Temp(f) # g
<1>1. PICK id, file : f = CacheDir \o <<FilesDir, <<c>>, <<id, file>>>> BY DEF InChat
<1>2. PICK id2, file2 : g = CacheDir \o <<FilesDir, <<d>>, <<id2, file2>>>> BY DEF InChat
<1> DEFINE t == <<id, file, "tmp">>
           S == Range(CacheDir) \union {FilesDir, <<c>>, <<d>>, <<id, file>>, t, <<id2, file2>>}
           u == <<FilesDir, <<c>>, <<id, file>>>>
           v == <<FilesDir, <<d>>, <<id2, file2>>>>
           n == Len(CacheDir)
<1>3. CacheDir \in Seq(S) /\ u \in Seq(S) /\ v \in Seq(S) /\ Len(u) = 3 /\ Len(v) = 3
  <2>1. CacheDir \in Seq(S) BY TurnFilesAssumption, SeqMonotonic
  <2>2. FilesDir \in S /\ <<c>> \in S /\ <<d>> \in S /\ <<id, file>> \in S /\ <<id2, file2>> \in S
    OBVIOUS
  <2> HIDE DEF S
  <2> QED BY <2>1, <2>2
<1>4. u[3] = <<id, file>> /\ v[3] = <<id2, file2>> OBVIOUS
<1>5. n \in Nat BY <1>3, LenProperties
<1> HIDE DEF u, v, S, n
<1>6. f \in Seq(S) /\ Len(f) = n + 3 /\ f[n + 3] = <<id, file>>
  BY <1>1, <1>3, <1>4, <1>5, ConcatProperties DEF u, n
<1>7. g \in Seq(S) /\ Len(g) = n + 3 /\ g[n + 3] = <<id2, file2>>
  BY <1>2, <1>3, <1>4, <1>5, ConcatProperties DEF v, n
<1>8. Turns!Temp(f) = Append(Front(f), Append(<<id, file>>, "tmp"))
  BY <1>6 DEF Turns!Temp, Turns!Front, Front, Turns!Last
<1>9. Append(<<id, file>>, "tmp") = t
  <2> DEFINE P == {id, file, "tmp"}
  <2>1. <<id, file>> \in Seq(P) /\ "tmp" \in P OBVIOUS
  <2>2. Len(<<id, file>>) = 2 OBVIOUS
  <2> DEFINE a == Append(<<id, file>>, "tmp")
  <2>3. a \in Seq(P) /\ Len(a) = 3 /\ a[1] = id /\ a[2] = file /\ a[3] = "tmp"
    BY <2>1, <2>2, AppendProperties
  <2>4. t \in Seq(P) /\ Len(t) = 3 /\ t[1] = id /\ t[2] = file /\ t[3] = "tmp" BY DEF t
  <2> HIDE DEF a, t
  <2>5. a = t BY <2>3, <2>4, SeqEqual
  <2> QED BY <2>5 DEF a
<1>10. t \in S BY DEF S
<1>11. Front(f) \in Seq(S) /\ Len(Front(f)) = n + 2
  <2>1. f # <<>> BY <1>5, <1>6, EmptySeq
  <2> QED BY <1>5, <1>6, <2>1, FrontOf
<1>12. Turns!Temp(f)[n + 3] = t
  <2>1. Len(Front(f)) + 1 = n + 3 BY <1>5, <1>11
  <2> HIDE DEF t
  <2>2. Append(Front(f), t)[Len(Front(f)) + 1] = t BY <1>10, <1>11, AppendProperties
  <2> QED BY <1>8, <1>9, <2>1, <2>2
<1>13. t # <<id2, file2>> OBVIOUS
<1> QED BY <1>7, <1>12, <1>13

(* The file in turn is one of its chat's.                                    *)
LEMMA WantsInChat ==
  ASSUME TurnFiles, turn.pc # "none", turn.want # <<>>
  PROVE  /\ InChat(Turns!Wants, feed[turn.update].chat)
         /\ IsList(Tail(turn.want)) /\ Range(Tail(turn.want)) \subseteq Range(turn.want)
<1>1. IsList(turn.want) /\ \A f \in Range(turn.want) : InChat(f, feed[turn.update].chat)
  BY DEF TurnFiles
<1>2. Head(turn.want) \in Range(turn.want) /\ IsList(Tail(turn.want))
      /\ Range(Tail(turn.want)) \subseteq Range(turn.want)
  BY <1>1, RangeOfTail
<1> QED BY <1>1, <1>2 DEF Turns!Wants, Turns!Head, Head

(* Only a restart takes a file from a chat, and no step makes one partial.   *)
LEMMA CacheGoesOn ==
  ASSUME CacheWhole, TurnFiles, [Turns!Next]_turnVars
  PROVE  /\ CacheWhole'
         /\ ~Turns!Restart => \A f, c : InChat(f, c) /\ f \in DOMAIN cache => f \in DOMAIN cache'
<1>1. CASE UNCHANGED cache BY <1>1 DEF CacheWhole
<1>2. CASE Turns!BeginDownload
  <2>1. turn.pc # "none" /\ turn.want # <<>> /\ cache' = Turns!With(cache, Turns!Temp(Turns!Wants), FALSE)
    BY <1>2 DEF Turns!BeginDownload
  <2>2. InChat(Turns!Wants, feed[turn.update].chat) BY <2>1, WantsInChat
  <2> DEFINE t == Turns!Temp(Turns!Wants)
  <2>3. \A f, c : InChat(f, c) => f # t BY <2>2, TempIsNone
  <2> HIDE DEF t
  <2>4. cache' = [f \in DOMAIN cache \union {t} |-> IF f = t THEN FALSE ELSE cache[f]]
    BY <2>1 DEF Turns!With, t
  <2> QED BY <2>3, <2>4 DEF CacheWhole
<1>3. CASE Turns!Downloaded
  <2>1. /\ turn.pc # "none" /\ turn.want # <<>>
        /\ cache' = Turns!With(Turns!Without(Turns!Temp(Turns!Wants)), Turns!Wants, TRUE)
    BY <1>3 DEF Turns!Downloaded, TurnFiles
  <2>2. InChat(Turns!Wants, feed[turn.update].chat) BY <2>1, WantsInChat
  <2> DEFINE t == Turns!Temp(Turns!Wants)
             w == Turns!Wants
  <2>3. \A f, c : InChat(f, c) => f # t BY <2>2, TempIsNone
  <2> HIDE DEF t, w
  <2>4. cache' = [f \in (DOMAIN cache \ {t}) \union {w} |-> IF f = w THEN TRUE ELSE cache[f]]
    BY <2>1 DEF Turns!With, Turns!Without, t, w
  <2> QED BY <2>3, <2>4 DEF CacheWhole
<1>4. CASE Turns!DownloadFails /\ turn.pc = "download"
  <2>1. turn.want # <<>> /\ cache' = Turns!Without(Turns!Temp(Turns!Wants))
    BY <1>4 DEF Turns!DownloadFails, TurnFiles
  <2>2. InChat(Turns!Wants, feed[turn.update].chat) BY <1>4, <2>1, WantsInChat
  <2> DEFINE t == Turns!Temp(Turns!Wants)
  <2>3. \A f, c : InChat(f, c) => f # t BY <2>2, TempIsNone
  <2> HIDE DEF t
  <2>4. cache' = [f \in DOMAIN cache \ {t} |-> cache[f]] BY <2>1 DEF Turns!Without, t
  <2> QED BY <2>3, <2>4 DEF CacheWhole
<1>5. CASE Turns!Restart
  <2>1. PICK kept \in SUBSET DOMAIN cache : cache' = [f \in kept |-> cache[f]]
    BY <1>5 DEF Turns!Restart
  <2> QED BY <1>5, <2>1 DEF CacheWhole
<1>6. \/ UNCHANGED cache \/ Turns!BeginDownload \/ Turns!Downloaded
      \/ (Turns!DownloadFails /\ turn.pc = "download") \/ Turns!Restart
  BY DEF Turns!Next, turnVars, Turns!GetUpdates, Turns!GetUpdatesFails, Turns!Take,
         Turns!ModelAnswers, Turns!FileThere, Turns!DownloadFails, Turns!Enqueue, Turns!StartJob,
         Turns!ReactAtOnce, Turns!ReactNot, Turns!UseReact, Turns!UseSendFile,
         Turns!UseSendVoice, Turns!RunFails, Turns!TellProgress, Turns!RunEnds, Turns!Says
<1> QED BY <1>1, <1>2, <1>3, <1>4, <1>5, <1>6

(* A list of a chat's files stays one.                                       *)
LEMMA InJobStays ==
  ASSUME NEW fs, NEW c, InJob(fs, c),
         \A f, d : InChat(f, d) /\ f \in DOMAIN cache => f \in DOMAIN cache'
  PROVE  \A f \in Range(fs) : InChat(f, c) /\ f \in DOMAIN cache'
BY DEF InJob

(* The files of a message are sequences.                                     *)
LEMMA MessagesInFeed ==
  ASSUME TurnInv, batch # <<>>
  PROVE  LET m == feed[Head(batch)]
         IN m.files \in Seq(Range(m.files)) /\ m.reply.files \in Seq(Range(m.reply.files))
<1>1. feed \in Feeds /\ batch \in Seq(1..Len(feed)) BY DEF TurnInv, Polling
<1>2. Head(batch) \in 1..Len(feed) BY <1>1, HeadTailProperties
<1>3. DOMAIN feed = 1..Len(feed)
  <2>1. feed \in Seq(Range(feed)) BY <1>1, FeedsAreSequences
  <2> QED BY <2>1, LenProperties
<1>4. feed[Head(batch)] \in Range(feed) BY <1>2, <1>3 DEF Range
<1> QED BY <1>1, <1>4, TurnFilesAssumption

LEMMA ATurnBegins ==
  ASSUME TurnInv, batch # <<>>, NEW d, d.how # "drop",
         turn' = Turns!NewTurn(Head(batch), d), UNCHANGED feed
  PROVE  TurnFiles'
<1> DEFINE u == Head(batch)
           m == feed[u]
           t == Turns!NewTurn(u, d)
<1>1. m.files \in Seq(Range(m.files)) /\ m.reply.files \in Seq(Range(m.reply.files))
  BY MessagesInFeed
<1>2. IsList(Turns!Wanted(m)) /\ \A f \in Range(Turns!Wanted(m)) : InChat(f, m.chat)
  <2> HIDE DEF m
  <2> QED BY <1>1, WantedInChat
<1>3. /\ {"pc", "update", "want", "got"} \subseteq DOMAIN t
      /\ t.pc \in {"model", "files"} /\ t.update = u /\ t.want = Turns!Wanted(m) /\ t.got = <<>>
  BY DEF Turns!NewTurn
<1> HIDE DEF t
<1>4. IsList(<<>>) /\ Range(<<>>) = {} BY EmptySeq DEF IsList, Range
<1>5. turn' = t BY DEF t
<1>6. /\ IsList(turn'.want) /\ (\A f \in Range(turn'.want) : InChat(f, feed'[turn'.update].chat))
      /\ IsList(turn'.got) /\ (\A f \in Range(turn'.got) : InChat(f, feed'[turn'.update].chat)
                                                             /\ f \in DOMAIN cache')
  BY <1>2, <1>3, <1>4, <1>5
<1> QED BY <1>3, <1>5, <1>6 DEF TurnFiles, InJob

LEMMA AFileIsTaken ==
  ASSUME TurnFiles, turn.pc # "none", turn.want # <<>>, turn' = Turns!Taken, UNCHANGED feed,
         \A f, d : InChat(f, d) /\ f \in DOMAIN cache => f \in DOMAIN cache',
         Turns!Wants \in DOMAIN cache'
  PROVE  TurnFiles'
<1> DEFINE w == Turns!Wants
           c == feed[turn.update].chat
<1>1. /\ InChat(w, c)
      /\ IsList(Tail(turn.want)) /\ Range(Tail(turn.want)) \subseteq Range(turn.want)
  BY WantsInChat
<1>2. /\ {"pc", "update", "want", "got"} \subseteq DOMAIN turn
      /\ \A f \in Range(turn.want) : InChat(f, c)
      /\ IsList(turn.got) /\ InJob(turn.got, c)
  BY DEF TurnFiles, Turns!NoTurn
<1>3. /\ IsList(Append(turn.got, w)) /\ Range(Append(turn.got, w)) = Range(turn.got) \union {w}
  BY <1>2, RangeOfAppend
<1>4. /\ {"pc", "update", "want", "got"} \subseteq DOMAIN turn'
      /\ turn'.pc = "files" /\ turn'.update = turn.update
      /\ turn'.want = Tail(turn.want) /\ turn'.got = Append(turn.got, w)
  BY <1>2 DEF Turns!Taken, Turns!Tail, Tail
<1>5. \A f \in Range(turn.got) : InChat(f, c) /\ f \in DOMAIN cache' BY <1>2, InJobStays
<1>6. \A f \in Range(turn'.got) : InChat(f, c) /\ f \in DOMAIN cache' BY <1>1, <1>3, <1>4, <1>5
<1> HIDE DEF w
<1>7. c = feed'[turn'.update].chat BY <1>4
<1> HIDE DEF c
<1>8. /\ IsList(turn'.want) /\ (\A f \in Range(turn'.want) : InChat(f, c))
      /\ IsList(turn'.got)
  BY <1>1, <1>2, <1>3, <1>4
<1> QED BY <1>4, <1>6, <1>7, <1>8 DEF TurnFiles, InJob

LEMMA TurnFilesGoOn ==
  ASSUME TurnInv, CacheWhole, TurnFiles, [Turns!Next]_turnVars
  PROVE  TurnFiles'
<1> DEFINE c == feed[turn.update].chat
<1>0. ~Turns!Restart => \A f, d : InChat(f, d) /\ f \in DOMAIN cache => f \in DOMAIN cache'
  BY CacheGoesOn
<1>1. CASE turn' = Turns!NoTurn BY <1>1 DEF TurnFiles, Turns!NoTurn
<1>2. CASE UNCHANGED <<turn, feed>> /\ ~Turns!Restart
  <2>1. turn.pc # "none" => \A f \in Range(turn.got) : InChat(f, c) /\ f \in DOMAIN cache'
    BY <1>0, <1>2, InJobStays DEF TurnFiles
  <2> QED BY <1>2, <2>1 DEF TurnFiles, InJob
<1>3. CASE Turns!Take
  <2>1. PICK d : /\ batch # <<>> /\ UNCHANGED feed
                 /\ turn' = IF d.how = "drop" THEN Turns!NoTurn ELSE Turns!NewTurn(Head(batch), d)
    BY <1>3 DEF Turns!Take, Turns!Head, Head
  <2> QED BY <1>1, <2>1, ATurnBegins
<1>4. CASE Turns!ModelAnswers /\ turn' # Turns!NoTurn
  <2>1. PICK x, y : /\ turn.pc = "model" /\ UNCHANGED <<feed, cache>>
                    /\ turn' = [turn EXCEPT !.pc = "files", !.text = x, !.why = y]
    BY <1>4 DEF Turns!ModelAnswers
  <2>2. {"pc", "update", "want", "got"} \subseteq DOMAIN turn BY <2>1 DEF TurnFiles, Turns!NoTurn
  <2>3. /\ DOMAIN turn' = DOMAIN turn /\ turn'.pc = "files" /\ turn'.update = turn.update
        /\ turn'.want = turn.want /\ turn'.got = turn.got
    BY <2>1, <2>2
  <2> QED BY <2>1, <2>2, <2>3 DEF TurnFiles, InJob
<1>5. CASE Turns!FileThere
  <2>1. /\ turn.pc # "none" /\ turn.want # <<>> /\ turn' = Turns!Taken /\ UNCHANGED <<feed, cache>>
        /\ Turns!Wants \in DOMAIN cache
    BY <1>5 DEF Turns!FileThere
  <2> QED BY <2>1, AFileIsTaken
<1>6. CASE Turns!BeginDownload
  <2>1. turn.pc # "none" /\ turn.want # <<>> /\ turn' = [turn EXCEPT !.pc = "download"] /\ UNCHANGED feed
    BY <1>6 DEF Turns!BeginDownload
  <2>2. {"pc", "update", "want", "got"} \subseteq DOMAIN turn BY <2>1 DEF TurnFiles, Turns!NoTurn
  <2>3. /\ DOMAIN turn' = DOMAIN turn /\ turn'.pc = "download" /\ turn'.update = turn.update
        /\ turn'.want = turn.want /\ turn'.got = turn.got
    BY <2>1, <2>2
  <2>4. \A f \in Range(turn.got) : InChat(f, c) /\ f \in DOMAIN cache'
    <3>1. ~Turns!Restart BY <2>3 DEF Turns!Restart, Turns!NoTurn
    <3>2. InJob(turn.got, c) BY <2>1 DEF TurnFiles
    <3> HIDE DEF c
    <3> QED BY <1>0, <3>1, <3>2, InJobStays
  <2> QED BY <2>1, <2>2, <2>3, <2>4 DEF TurnFiles, InJob
<1>7. CASE Turns!Downloaded
  <2>1. /\ turn.pc # "none" /\ turn.want # <<>> /\ turn' = Turns!Taken /\ UNCHANGED feed
        /\ Turns!Wants \in DOMAIN cache'
    BY <1>7 DEF Turns!Downloaded, TurnFiles, Turns!With
  <2>2. ~Turns!Restart
    <3>1. turn' # Turns!NoTurn
      <4>1. {"pc", "update", "want", "got"} \subseteq DOMAIN turn BY <2>1 DEF TurnFiles, Turns!NoTurn
      <4>2. turn'.pc = "files" BY <2>1, <4>1 DEF Turns!Taken
      <4> QED BY <4>2 DEF Turns!NoTurn
    <3> QED BY <3>1 DEF Turns!Restart
  <2> QED BY <1>0, <2>1, <2>2, AFileIsTaken
<1>8. \/ turn' = Turns!NoTurn \/ (UNCHANGED <<turn, feed>> /\ ~Turns!Restart) \/ Turns!Take
      \/ (Turns!ModelAnswers /\ turn' # Turns!NoTurn) \/ Turns!FileThere \/ Turns!BeginDownload
      \/ Turns!Downloaded
  BY DEF Turns!Next, turnVars, Turns!GetUpdates, Turns!GetUpdatesFails, Turns!DownloadFails,
         Turns!Enqueue, Turns!StartJob, Turns!ReactAtOnce, Turns!ReactNot, Turns!UseReact,
         Turns!UseSendFile, Turns!UseSendVoice, Turns!TellProgress, Turns!RunFails,
         Turns!RunEnds, Turns!Says, Turns!Restart
<1> QED BY <1>1, <1>2, <1>3, <1>4, <1>5, <1>6, <1>7, <1>8

LEMMA JobFilesGoOn ==
  ASSUME CacheWhole, TurnFiles, JobFiles, [Turns!Next]_turnVars
  PROVE  JobFiles'
<1>0. ~Turns!Restart => \A f, d : InChat(f, d) /\ f \in DOMAIN cache => f \in DOMAIN cache'
  BY CacheGoesOn
<1>1. CASE jobs' = <<>> BY <1>1, EmptySeq DEF JobFiles, IsList, Range
<1>2. CASE UNCHANGED feed /\ ~Turns!Restart /\ IsList(jobs') /\ Range(jobs') \subseteq Range(jobs)
  <2>1. ASSUME NEW j \in Range(jobs') PROVE InJob(j.files, feed[j.update].chat)'
    <3>1. InJob(j.files, feed[j.update].chat) BY <1>2, <2>1 DEF JobFiles
    <3> DEFINE c == feed[j.update].chat
    <3>2. \A f \in Range(j.files) : InChat(f, c) /\ f \in DOMAIN cache'
      <4> HIDE DEF c
      <4>1. InJob(j.files, c) BY <3>1 DEF c
      <4> QED BY <1>0, <1>2, <4>1, InJobStays
    <3> QED BY <1>2, <3>2 DEF InJob
  <2> QED BY <1>2, <2>1 DEF JobFiles
<1>3. CASE Turns!StartJob
  <2>1. jobs # <<>> /\ jobs' = Tail(jobs) /\ UNCHANGED <<feed, restarts>>
    BY <1>3 DEF Turns!StartJob, Turns!Tail, Tail
  <2>2. IsList(jobs') /\ Range(jobs') \subseteq Range(jobs) BY <2>1, RangeOfTail DEF JobFiles
  <2>3. ~Turns!Restart BY <1>1, <1>3, <2>1 DEF Turns!Restart, Turns!StartJob, Turns!NoRun
  <2> QED BY <1>2, <2>1, <2>2, <2>3
<1>4. CASE Turns!Enqueue
  <2>1. PICK j : /\ jobs' = Append(jobs, j) /\ j.update = turn.update /\ j.files = turn.got
                 /\ turn.pc = "files" /\ UNCHANGED <<feed, cache>>
    BY <1>4 DEF Turns!Enqueue
  <2>2. IsList(jobs') /\ Range(jobs') = Range(jobs) \union {j} BY <2>1, RangeOfAppend DEF JobFiles
  <2>3. InJob(turn.got, feed[turn.update].chat) BY <2>1 DEF TurnFiles
  <2> QED BY <2>1, <2>2, <2>3 DEF JobFiles, InJob
<1>5. \/ jobs' = <<>> \/ Turns!StartJob \/ Turns!Enqueue
      \/ (UNCHANGED <<feed, jobs>> /\ ~Turns!Restart)
  BY DEF Turns!Next, turnVars, Turns!GetUpdates, Turns!GetUpdatesFails, Turns!DownloadFails,
         Turns!Take, Turns!ModelAnswers, Turns!FileThere, Turns!BeginDownload, Turns!Downloaded,
         Turns!ReactAtOnce, Turns!ReactNot, Turns!UseReact,
         Turns!UseSendFile, Turns!UseSendVoice, Turns!TellProgress, Turns!RunFails,
         Turns!RunEnds, Turns!Says, Turns!Restart
<1>6. CASE UNCHANGED <<feed, jobs>> /\ ~Turns!Restart BY <1>2, <1>6 DEF JobFiles
<1> QED BY <1>1, <1>3, <1>4, <1>5, <1>6

(* What is sent lies below the cache.                                        *)
LEMMA ResolvedBelow ==
  ASSUME NEW segs, IsList(segs), Turns!IsWithinDir(CacheDir, segs)
  PROVE  BelowCache(Turns!Resolved(segs).file)
<1> DEFINE p == Turns!Clean(Turns!Path(TRUE, segs))
<1>1. p \in Seq(Range(segs) \ {Up}) BY CleanAbsolute DEF IsList
<1>2. Up \notin Range(p)
  <2> HIDE DEF p
  <2> QED BY <1>1, ListOfSeq
<1>3. Turns!Resolved(segs).file = p BY DEF Turns!Resolved
<1> QED BY <1>2, <1>3 DEF BelowCache, Turns!IsWithinDir, Turns!IsStrictPrefix, Turns!IsPrefix, IsPrefix

LEMMA SendsBelow ==
  ASSUME NEW path \in MediaPaths, Turns!IsWithinDir(CacheDir, Turns!SendPath(path))
  PROVE  BelowCache(Turns!Resolved(Turns!SendPath(path)).file)
<1>1. IsList(path.segs) /\ IsList(CacheDir)
  <2>1. CacheDir \in Seq(Range(CacheDir) \ {Up}) BY TurnFilesAssumption
  <2> QED BY <2>1, TurnFilesAssumption, ListOfSeq DEF IsList
<1>2. path.segs # <<>> => IsList(Tail(path.segs)) BY <1>1, RangeOfTail
<1>3. Len(path.segs) > 1 => path.segs # <<>> BY EmptySeq
<1>4. IsList(Turns!SendPath(path))
  BY <1>1, <1>2, <1>3, ListOfConcat DEF Turns!SendPath, Turns!Tail, Tail
<1> QED BY <1>4, ResolvedBelow

LEMMA VoiceBelow == BelowCache(CacheDir \o VoiceFile)
<1>1. CacheDir \in Seq(Range(CacheDir) \ {Up}) /\ VoiceFile \in Seq(Range(VoiceFile) \ {Up})
  BY TurnFilesAssumption
<1>2. IsList(CacheDir) /\ Up \notin Range(CacheDir) BY <1>1, ListOfSeq
<1>3. IsList(VoiceFile) /\ Up \notin Range(VoiceFile) BY <1>1, ListOfSeq
<1> QED BY <1>2, <1>3, ListOfConcat, TurnFilesAssumption DEF BelowCache

LEMMA RunFilesGoOn ==
  ASSUME CacheWhole, TurnFiles, JobFiles, RunFiles, [Turns!Next]_turnVars
  PROVE  RunFiles'
<1>0. ~Turns!Restart => \A f, d : InChat(f, d) /\ f \in DOMAIN cache => f \in DOMAIN cache'
  BY CacheGoesOn
<1>1. CASE run' = Turns!NoRun BY <1>1 DEF RunFiles, Turns!NoRun
<1>2. CASE /\ UNCHANGED feed /\ ~Turns!Restart /\ {"pc", "sent"} \subseteq DOMAIN run'
           /\ run'.pc # "none" => run.pc # "none" /\ "job" \in DOMAIN run' /\ run'.job = run.job
           /\ \A s \in run'.sent : BelowCache(s.file)
  <2>1. ASSUME run'.pc # "none" PROVE InJob(run.job.files, feed[run.job.update].chat)'
    <3> DEFINE c == feed[run.job.update].chat
    <3>1. InJob(run.job.files, c) BY <1>2, <2>1 DEF RunFiles
    <3>2. \A f \in Range(run.job.files) : InChat(f, c) /\ f \in DOMAIN cache'
      <4> HIDE DEF c
      <4> QED BY <1>0, <1>2, <3>1, InJobStays
    <3>3. UNCHANGED feed /\ run'.job = run.job BY <1>2, <2>1
    <3> QED BY <3>2, <3>3 DEF InJob
  <2> QED BY <1>2, <2>1 DEF RunFiles, BelowCache
<1>3. CASE Turns!StartJob
  <2>1. /\ jobs # <<>> /\ UNCHANGED <<feed, cache>>
        /\ run' = [pc |-> "intent", job |-> Head(jobs), did |-> {}, late |-> {},
                   reaction |-> "", sent |-> {}]
    BY <1>3 DEF Turns!StartJob, Turns!Head, Head
  <2>2. Head(jobs) \in Range(jobs) BY <2>1, RangeOfTail DEF JobFiles
  <2>3. InJob(Head(jobs).files, feed[Head(jobs).update].chat) BY <2>2 DEF JobFiles
  <2> QED BY <2>1, <2>3 DEF RunFiles, InJob
<1>4. CASE Turns!UseSendFile
  <2>1. PICK path \in MediaPaths :
          /\ Turns!IsWithinDir(CacheDir, Turns!SendPath(path))
          /\ Turns!Sends(feed[run.job.update].chat, Turns!Resolved(Turns!SendPath(path)).file)
          /\ UNCHANGED <<feed, cache, restarts>> /\ run.pc = "engine" /\ UNCHANGED cache
    BY <1>4 DEF Turns!UseSendFile
  <2>2. PICK s : s.file = Turns!Resolved(Turns!SendPath(path)).file
                 /\ run' = [run EXCEPT !.sent = @ \union {s}]
    BY <2>1 DEF Turns!Sends
  <2>3. BelowCache(s.file) BY <2>1, <2>2, SendsBelow
  <2> QED BY <2>1, <2>2, <2>3 DEF RunFiles, InJob, BelowCache
<1>5. CASE Turns!UseSendVoice
  <2>1. /\ run.pc = "engine" /\ UNCHANGED <<feed, cache>>
        /\ \E s : BelowCache(s.file) /\ run' = [run EXCEPT !.sent = @ \union {s}]
    <3>1. PICK c : \/ Turns!Sends(c, CacheDir \o VoiceFile)
                  \/ \E path \in MediaPaths :
                       /\ Turns!IsWithinDir(CacheDir, Turns!SendPath(path))
                       /\ Turns!Sends(c, Turns!Resolved(Turns!SendPath(path)).file)
      BY <1>5 DEF Turns!UseSendVoice
    <3>2. PICK g : BelowCache(g) /\ Turns!Sends(c, g) BY <3>1, SendsBelow, VoiceBelow
    <3>3. [chat |-> c, file |-> g].file = g OBVIOUS
    <3> QED BY <1>5, <3>2, <3>3 DEF Turns!Sends, Turns!UseSendVoice
  <2>2. PICK s : BelowCache(s.file) /\ run' = [run EXCEPT !.sent = @ \union {s}] BY <2>1
  <2> QED BY <2>1, <2>2 DEF RunFiles, InJob, BelowCache
<1>6. CASE /\ UNCHANGED feed /\ ~Turns!Restart
           /\ \/ Turns!ReactAtOnce \/ Turns!ReactNot \/ Turns!UseReact
              \/ Turns!TellProgress \/ Turns!RunFails \/ Turns!RunEnds
  <2>1. /\ DOMAIN run' = DOMAIN run /\ run'.job = run.job /\ run'.sent = run.sent /\ run.pc # "none"
    BY <1>6 DEF RunFiles, Turns!ReactAtOnce, Turns!ReactNot, Turns!UseReact, Turns!RunFails,
                Turns!TellProgress, Turns!RunEnds, Turns!Says
  <2>2. "job" \in DOMAIN run' BY <2>1 DEF RunFiles
  <2> QED BY <1>2, <1>6, <2>1, <2>2 DEF RunFiles
<1>7. CASE UNCHANGED <<feed, run>> /\ ~Turns!Restart BY <1>2, <1>7 DEF RunFiles
<1>8. UNCHANGED feed BY DEF Turns!Next, turnVars, Turns!GetUpdates, Turns!GetUpdatesFails, Turns!DownloadFails,
         Turns!Take, Turns!ModelAnswers, Turns!FileThere, Turns!BeginDownload, Turns!Downloaded,
         Turns!ReactAtOnce, Turns!ReactNot, Turns!UseReact, Turns!Enqueue, Turns!StartJob,
         Turns!UseSendFile, Turns!UseSendVoice, Turns!TellProgress, Turns!RunFails,
         Turns!RunEnds, Turns!Says, Turns!Restart
<1>9. CASE Turns!Restart BY <1>1, <1>9 DEF Turns!Restart
<1> QED BY <1>3, <1>4, <1>5, <1>6, <1>7, <1>8, <1>9
     DEF Turns!Next, turnVars, Turns!GetUpdates, Turns!GetUpdatesFails, Turns!DownloadFails,
         Turns!Take, Turns!ModelAnswers, Turns!FileThere, Turns!BeginDownload, Turns!Downloaded,
         Turns!Enqueue

LEMMA TurnFilesWhole ==
  ASSUME FilesInv
  PROVE  Turns!FilesAreWhole
<1>1. ASSUME NEW f, NEW c, InChat(f, c)
      PROVE  Turns!IsPrefix(CacheDir \o <<FilesDir, <<c>>>>, f)
  <2>1. PICK id, file : f = CacheDir \o <<FilesDir, <<c>>, <<id, file>>>> BY <1>1 DEF InChat
  <2> DEFINE a == <<FilesDir, <<c>>>>
             z == <<id, file>>
             S == Range(CacheDir) \union {FilesDir, <<c>>, z}
  <2>2. IsList(CacheDir) BY TurnFilesAssumption, ListOfSeq
  <2>3. a \in Seq({FilesDir, <<c>>}) /\ IsList(<<z>>) /\ <<FilesDir, <<c>>, z>> = a \o <<z>>
    BY DEF IsList, Range
  <2>4. IsList(a) BY <2>3, ListOfSeq
  <2> HIDE DEF a, z
  <2>5. IsList(CacheDir \o a) BY <2>2, <2>4, ListOfConcat
  <2>6. CacheDir \o (a \o <<z>>) = (CacheDir \o a) \o <<z>>
    <3>1. CacheDir \in Seq(S) /\ a \in Seq(S) /\ <<z>> \in Seq(S)
      BY <2>2, <2>3, SeqMonotonic DEF IsList
    <3> QED BY <3>1, ConcatAssociative
  <2>7. f = (CacheDir \o a) \o <<z>> BY <2>1, <2>3, <2>6 DEF z
  <2>8. IsPrefix(CacheDir \o a, f) BY <2>3, <2>5, <2>7, ListOfConcat
  <2> QED BY <2>8 DEF a, Turns!IsPrefix, IsPrefix
<1>2. ASSUME NEW j \in Turns!AllJobs PROVE InJob(j.files, feed[j.update].chat)
  BY <1>2 DEF Turns!AllJobs, FilesInv, JobFiles, RunFiles, Turns!Range, Range
<1>3. \A s \in run.sent : Turns!IsStrictPrefix(CacheDir, s.file) /\ Up \notin Turns!Range(s.file)
  BY DEF FilesInv, RunFiles, BelowCache, Turns!IsStrictPrefix, Turns!IsPrefix, IsPrefix,
         Turns!Range, Range
<1>4. \A j \in Turns!AllJobs : \A f \in Turns!Range(j.files) :
        /\ f \in DOMAIN cache /\ cache[f]
        /\ Turns!IsPrefix(CacheDir \o <<FilesDir, <<feed[j.update].chat>>>>, f)
  BY <1>1, <1>2 DEF InJob, FilesInv, CacheWhole, Turns!Range, Range
<1> QED BY <1>3, <1>4 DEF Turns!FilesAreWhole

(* The parts clean paths alike.                                              *)
LEMMA SameClean == \A p : Tools!Clean(p) = Turns!Clean(p)
BY DEF Turns!Clean, Turns!FoldLeft, Turns!MapThenFoldSet, Turns!Max, Turns!Last, Turns!Front,
       Tools!Clean, Tools!FoldLeft, Tools!MapThenFoldSet, Tools!Max, Tools!Last, Tools!Front

LEMMA CleanIsList ==
  ASSUME NEW path, IsList(path.segs)
  PROVE  IsList(Tools!Clean(path))
<1> DEFINE S == Range(path.segs) \union {Up}
<1>1. path.segs \in Seq(S) BY SeqMonotonic DEF IsList
<1>2. PICK H : Cleans(H, path, S) BY <1>1, CleanSteps
<1>3. Len(path.segs) \in 0..Len(path.segs) BY <1>1, LenProperties
<1>4. Turns!Clean(path) \in Seq(S) BY <1>2, <1>3 DEF Cleans
<1> HIDE DEF S
<1>5. Tools!Clean(path) \in Seq(S) BY <1>4, SameClean
<1> QED BY <1>5, ListOfSeq

InABase(bases, f) == Up \notin Range(f) /\ \E b \in Range(bases) : IsPrefix(b, f) /\ b # f

LEMMA ResolvedInABase ==
  ASSUME NEW bases, NEW b \in Range(bases), NEW segs, IsList(segs), Tools!IsWithinDir(b, segs)
  PROVE  InABase(bases, Tools!Resolved(segs).file)
<1> DEFINE p == Turns!Clean(Turns!Path(TRUE, segs))
<1>1. p \in Seq(Range(segs) \ {Up}) BY CleanAbsolute DEF IsList
<1>2. Up \notin Range(p)
  <2> HIDE DEF p
  <2> QED BY <1>1, ListOfSeq
<1>3. Tools!Clean(Tools!Path(TRUE, segs)) = p BY SameClean DEF Tools!Path, Turns!Path
<1>4. Tools!Resolved(segs).file = p BY <1>3 DEF Tools!Resolved
<1>5. IsPrefix(b, p) /\ b # p
  BY <1>3 DEF Tools!IsWithinDir, Tools!IsStrictPrefix, Tools!IsPrefix, IsPrefix
<1> QED BY <1>2, <1>4, <1>5 DEF InABase

(* Bases and what lies in them are lists of segments.                        *)
BasesAreLists(bases) == IsList(bases) /\ \A b \in Range(bases) : IsList(b)

LEMMA BelowIsInABase ==
  ASSUME NEW bases, BasesAreLists(bases), NEW b \in Range(bases) \union {<<>>}, NEW left0, IsList(left0),
         Tools!Below(b, left0).ok
  PROVE  InABase(bases, Tools!Below(b, left0).file)
<1>1. b # <<>> /\ Tools!IsWithinDir(b, b \o left0) /\ Tools!Below(b, left0) = Tools!Resolved(b \o left0)
  BY DEF Tools!Below, Tools!Refused
<1>2. IsList(b \o left0) BY <1>1, ListOfConcat DEF BasesAreLists
<1> QED BY <1>1, <1>2, ResolvedInABase

LEMMA WrittenInABase ==
  ASSUME NEW bases, BasesAreLists(bases), NEW path, IsList(path.segs),
         Tools!ResolveWritePath(bases, path).ok
  PROVE  InABase(bases, Tools!ResolveWritePath(bases, path).file)
<1> DEFINE segs == Tools!Clean(path)
           alias == Tools!Alias(segs)
           r == Tools!ResolveWritePath(bases, path)
<1>1. IsList(segs) BY CleanIsList
<1>2. \A i \in 1..Len(bases) : bases[i] \in Range(bases)
  BY LenProperties DEF BasesAreLists, IsList, Range
<1>3. Len(bases) \in Nat /\ (bases # <<>> => Len(bases) # 0)
  BY LenProperties, EmptySeq DEF BasesAreLists, IsList
<1>4. bases # <<>> BY DEF Tools!ResolveWritePath, Tools!Refused
<1> HIDE DEF segs
<1>5. CASE alias # Up
  <2>1. r = Tools!Below(Tools!BaseFor(bases, alias), Tools!Tail(segs))
    BY <1>4, <1>5 DEF Tools!ResolveWritePath, segs
  <2>2. segs # <<>> BY <1>5 DEF Tools!Alias
  <2>3. IsList(Tail(segs)) BY <1>1, <2>2, RangeOfTail
  <2>4. Tools!BaseFor(bases, alias) \in Range(bases) \union {<<>>}
    <3>1. Len(bases) > 0 => bases[1] \in Range(bases) BY <1>2, <1>3
    <3>2. Len(bases) > 1 => bases[2] \in Range(bases) BY <1>2, <1>3
    <3> QED BY <3>1, <3>2 DEF Tools!BaseFor
  <2> QED BY <2>1, <2>3, <2>4, BelowIsInABase DEF Tools!Tail, Tail
<1>6. CASE alias = Up /\ ~path.abs
  <2>1. r = Tools!Below(bases[1], segs) BY <1>4, <1>6 DEF Tools!ResolveWritePath, segs
  <2>2. bases[1] \in Range(bases) BY <1>2, <1>3, <1>4
  <2> QED BY <1>1, <2>1, <2>2, BelowIsInABase
<1>7. CASE alias = Up /\ path.abs
  <2>1. (\E i \in 1..Len(bases) : Tools!IsWithinDir(bases[i], segs)) /\ r = Tools!Resolved(segs)
    BY <1>4, <1>7 DEF Tools!ResolveWritePath, Tools!Refused, segs
  <2>2. PICK i \in 1..Len(bases) : Tools!IsWithinDir(bases[i], segs) BY <2>1
  <2> QED BY <1>1, <1>2, <2>1, <2>2, ResolvedInABase
<1> QED BY <1>5, <1>6, <1>7

(* What is on the disk is what the caller was told of, where it may be.      *)
DiskAsTold ==
  /\ DOMAIN told = DOMAIN disk
  /\ \A f \in DOMAIN disk : InABase(WriteBases, f) /\ (told[f] # Tools!Unknown => disk[f] = told[f])

CallReady ==
  /\ toolPc # "idle" => IsList(toolCall.path.segs)
  /\ toolPc = "write" => Tools!Target.ok
  /\ toolPc \in {"save", "write"} /\ toolCall.tool = "fetch" => answer.text = req.url.origin

ShownAllowed ==
  shown.file # <<>> => Last(shown.file) \notin {Last(d) : d \in DeniedPaths \ {<<>>}}

LEMMA BasesLists == BasesAreLists(WriteBases) /\ BasesAreLists(CacheBases)
BY ToolPathsAssumption DEF BasesAreLists, IsList

LEMMA CallGoesOn ==
  ASSUME CallReady, [Tools!Next]_toolVars
  PROVE  CallReady'
<1>1. CASE UNCHANGED toolVars BY <1>1 DEF toolVars, CallReady, Tools!Target, Tools!ResolveWritePath
<1>2. CASE Tools!BeginFetch
  <2>1. PICK c \in FetchCalls : toolCall' = c /\ toolPc' = "guard" BY <1>2 DEF Tools!BeginFetch
  <2>2. IsList(c.path.segs) BY ToolPathsAssumption DEF IsList
  <2> QED BY <2>1, <2>2 DEF CallReady
<1>3. CASE Tools!BeginWrite
  <2>1. PICK t \in Texts, path \in WritePaths, mode \in {"write", "append"} :
          toolCall' = [tool |-> mode, path |-> path, text |-> t, profile |-> FALSE]
    BY <1>3 DEF Tools!BeginWrite
  <2>2. IsList(path.segs) BY ToolPathsAssumption DEF IsList
  <2>3. toolPc' = "write" => Tools!ResolveWritePath(WriteBases, toolCall'.path).ok
    BY <1>3 DEF Tools!BeginWrite
  <2>4. toolCall'.tool # "fetch" /\ toolCall'.path = path BY <2>1
  <2>5. (Tools!Target)' = Tools!ResolveWritePath(WriteBases, toolCall'.path) BY <2>4 DEF Tools!Target
  <2> QED BY <2>2, <2>3, <2>4, <2>5 DEF CallReady
<1>4. CASE Tools!Return BY <1>4 DEF Tools!Return, CallReady
<1>5. CASE Tools!ReadBody BY <1>5 DEF Tools!ReadBody, CallReady, Tools!Target
<1>6. CASE Tools!Save BY <1>6 DEF Tools!Save, CallReady, Tools!Target
<1>7. CASE UNCHANGED toolCall /\ toolPc # "idle" /\ toolPc' \notin {"save", "write"}
  BY <1>7 DEF CallReady
<1>8. CASE Tools!ReadFile BY <1>8 DEF Tools!ReadFile, CallReady, Tools!Target
<1>9. \/ UNCHANGED toolVars \/ Tools!BeginFetch \/ Tools!BeginWrite \/ Tools!Return \/ Tools!ReadBody
      \/ Tools!Save \/ Tools!ReadFile
      \/ (UNCHANGED toolCall /\ toolPc # "idle" /\ toolPc' \notin {"save", "write"})
  BY DEF Tools!Next, Tools!GuardDenies, Tools!GuardPasses, Tools!Refuse, Tools!Send, Tools!Answers,
         Tools!Follow, Tools!TakeRedirect, Tools!StopRedirect, Tools!FetchFails, Tools!Truncated,
         Tools!NotSaved, Tools!Write, Tools!WriteFails
<1> QED BY <1>1, <1>2, <1>3, <1>4, <1>5, <1>6, <1>7, <1>8, <1>9

LEMMA TargetInABase ==
  ASSUME CallReady, toolPc = "write"
  PROVE  InABase(WriteBases, Tools!Target.file)
<1> DEFINE bases == IF toolCall.tool = "fetch" THEN CacheBases ELSE WriteBases
<1>1. BasesAreLists(bases) BY BasesLists
<1>2. IsList(toolCall.path.segs) /\ Tools!Target.ok BY DEF CallReady
<1>3. Tools!Target = Tools!ResolveWritePath(bases, toolCall.path) BY DEF Tools!Target
<1> HIDE DEF bases
<1>4. InABase(bases, Tools!Target.file) BY <1>1, <1>2, <1>3, WrittenInABase
<1>5. Range(bases) \subseteq Range(WriteBases) BY ToolPathsAssumption DEF bases
<1> QED BY <1>4, <1>5 DEF InABase

LEMMA DiskGoesOn ==
  ASSUME CallReady, DiskAsTold, [Tools!Next]_toolVars
  PROVE  DiskAsTold'
<1> DEFINE t == Tools!Target.file
<1>1. CASE UNCHANGED <<disk, told>> BY <1>1 DEF DiskAsTold
<1>2. CASE Tools!Write
  <2>1. InABase(WriteBases, t) BY <1>2, TargetInABase DEF Tools!Write
  <2> DEFINE new == Append(Tools!Before(disk), Tools!Piece)
             as == IF toolCall.tool = "append" /\ Tools!Held(told, t) = Tools!Unknown THEN Tools!Unknown
                   ELSE Append(Tools!Before(told), Tools!Wanted)
  <2>2. disk' = Tools!Put(disk, t, new) /\ told' = Tools!Put(told, t, as)
    BY <1>2 DEF Tools!Write
  <2>3. Tools!Piece = Tools!Wanted
    BY <1>2 DEF Tools!Write, CallReady, Tools!Piece, Tools!Wanted
  <2>4. as # Tools!Unknown => Tools!Before(disk) = Tools!Before(told)
    BY DEF DiskAsTold, Tools!Before, Tools!Held
  <2>5. as # Tools!Unknown => new = as BY <2>3, <2>4
  <2> HIDE DEF new, as, t
  <2> QED BY <2>1, <2>2, <2>5 DEF DiskAsTold, Tools!Put
<1>3. CASE Tools!WriteFails /\ ~UNCHANGED <<disk, told>>
  <2>1. InABase(WriteBases, t) BY <1>3, TargetInABase DEF Tools!WriteFails
  <2>2. PICK x : disk' = Tools!Put(disk, t, x) /\ told' = Tools!Put(told, t, Tools!Unknown)
    BY <1>3 DEF Tools!WriteFails
  <2> HIDE DEF t
  <2> QED BY <2>1, <2>2 DEF DiskAsTold, Tools!Put
<1>4. UNCHANGED <<disk, told>> \/ Tools!Write \/ (Tools!WriteFails /\ ~UNCHANGED <<disk, told>>)
  BY DEF Tools!Next, toolVars, Tools!BeginFetch, Tools!GuardDenies, Tools!GuardPasses, Tools!Refuse,
         Tools!Send, Tools!Answers, Tools!Follow, Tools!TakeRedirect, Tools!StopRedirect,
         Tools!FetchFails, Tools!Truncated, Tools!ReadBody, Tools!NotSaved, Tools!Save,
         Tools!BeginWrite, Tools!ReadFile
<1> QED BY <1>1, <1>2, <1>3, <1>4

LEMMA ShownGoesOn ==
  ASSUME ShownAllowed, [Tools!Next]_toolVars
  PROVE  ShownAllowed'
<1>1. CASE UNCHANGED shown BY <1>1 DEF ShownAllowed
<1>2. CASE Tools!ReadFile
  <2>1. \E f, text : \/ shown' = Tools!NoFile
                     \/ (shown' = [file |-> f, text |-> text] /\ ~Tools!DenyPath(f, DeniedPaths))
    <3>1. PICK path \in ReadPaths :
            LET goal == Tools!ResolveReadPath(WriteBases, path)
            IN shown' = IF goal.ok /\ ~Tools!DenyPath(goal.file, DeniedPaths)
                              /\ goal.file \in DOMAIN disk
                          THEN [file |-> goal.file, text |-> disk[goal.file]]
                          ELSE Tools!NoFile
      BY <1>2 DEF Tools!ReadFile
    <3> DEFINE f == Tools!ResolveReadPath(WriteBases, path).file
    <3>2. \/ shown' = Tools!NoFile
          \/ (shown' = [file |-> f, text |-> disk[f]] /\ ~Tools!DenyPath(f, DeniedPaths))
      BY <3>1
    <3> QED BY <3>2
  <2>2. PICK f, text : \/ shown' = Tools!NoFile
                      \/ (shown' = [file |-> f, text |-> text] /\ ~Tools!DenyPath(f, DeniedPaths))
    BY <2>1
  <2> QED BY <2>2 DEF ShownAllowed, Tools!NoFile, Tools!DenyPath, Tools!Last, Last
<1>3. UNCHANGED shown \/ Tools!ReadFile
  BY DEF Tools!Next, toolVars, Tools!BeginFetch, Tools!GuardDenies, Tools!GuardPasses, Tools!Refuse,
         Tools!Send, Tools!Answers, Tools!Follow, Tools!TakeRedirect, Tools!StopRedirect,
         Tools!FetchFails, Tools!Truncated, Tools!ReadBody, Tools!NotSaved, Tools!Save,
         Tools!BeginWrite, Tools!Write, Tools!WriteFails
<1> QED BY <1>1, <1>2, <1>3

LEMMA ToolFilesWhole ==
  ASSUME DiskAsTold, ShownAllowed
  PROVE  Tools!SavedIsWhole
<1>1. ASSUME NEW f \in DOMAIN disk
      PROVE  /\ \E b \in Tools!Range(WriteBases) : Tools!IsPrefix(b, f) /\ f # b
             /\ Up \notin Tools!Range(f)
             /\ Tools!Held(told, f) # Tools!Unknown => disk[f] = Tools!Held(told, f)
  BY DEF DiskAsTold, InABase, Tools!Range, Range, Tools!IsPrefix, IsPrefix, Tools!Held
<1> QED BY <1>1 DEF Tools!SavedIsWhole, ShownAllowed, Tools!Last, Last

LEMMA LettersSteps ==
  ASSUME NEW S, Slash \in S, NEW path \in Seq(Seq(S))
  PROVE  \E H : Spells(Slash, H, path, S, Tools!Letters(path))
<1> DEFINE n == Len(path)
           Next1(text, seg) == text \o <<Slash>> \o seg
           step == [d \in (1..n) \X Seq(S) |-> Next1(d[2], path[d[1]])]
           Eq(F) == F = [s \in SUBSET (DOMAIN path) |->
                           IF s = {} THEN <<>> ELSE Next1(F[s \ {Max(s)}], path[Max(s)])]
           G == CHOOSE F : Eq(F)
<1>1. n \in Nat /\ DOMAIN path = 1..n /\ \A i \in 1..n : path[i] \in Seq(S) BY LenProperties
<1>2. Tools!Letters(path) = G[DOMAIN path]
  BY DEF Tools!Letters, Tools!FoldLeft, Tools!MapThenFoldSet, Tools!Max, Max
<1>3. ASSUME NEW text \in Seq(S), NEW seg \in Seq(S) PROVE Next1(text, seg) \in Seq(S)
  <2>1. <<Slash>> \in Seq(S) OBVIOUS
  <2>2. text \o <<Slash>> \in Seq(S) BY <2>1, ConcatProperties
  <2> QED BY <2>2, ConcatProperties
<1>4. step \in [(1..n) \X Seq(S) -> Seq(S)]
  <2>1. \A d \in (1..n) \X Seq(S) : Next1(d[2], path[d[1]]) \in Seq(S) BY <1>1, <1>3
  <2> HIDE DEF Next1
  <2> QED BY <2>1
<1>5. <<>> \in Seq(S) BY EmptySeq
<1>6. ASSUME NEW F, NEW s \in SUBSET (1..n), s # {}, F[s \ {Max(s)}] \in Seq(S)
      PROVE  Next1(F[s \ {Max(s)}], path[Max(s)]) = step[<<Max(s), F[s \ {Max(s)}]>>]
  <2>1. Max(s) \in 1..n BY <1>1, <1>6, Highest
  <2>2. <<Max(s), F[s \ {Max(s)}]>> \in (1..n) \X Seq(S) BY <1>6, <2>1
  <2> HIDE DEF Next1
  <2> QED BY <2>2
<1> HIDE DEF step, n, Next1
<1>7. PICK F : IsFold(F, n, Seq(S), <<>>, step) BY <1>1, <1>4, <1>5, FoldExists
<1>8. Eq(F) BY <1>1, <1>6, <1>7 DEF IsFold
<1>9. Eq(G)
  <2> HIDE DEF Eq
  <2> QED BY <1>8
<1> HIDE DEF G
<1>10. FoldsLike(G, n, Seq(S), <<>>, step)
  <2>1. G[{}] = <<>> BY <1>1, <1>9
  <2>2. \A s \in SUBSET (1..n) : s # {} /\ G[s \ {Max(s)}] \in Seq(S) =>
          G[s] = step[<<Max(s), G[s \ {Max(s)}]>>]
    BY <1>1, <1>6, <1>9
  <2> QED BY <2>1, <2>2 DEF FoldsLike
<1>11. PICK H : FoldSteps(H, n, Seq(S), <<>>, step, G[1..n])
  BY <1>1, <1>4, <1>5, <1>10, FoldRuns
<1>12. ASSUME NEW i \in 1..n PROVE H[i] = Next1(H[i - 1], path[i])
  <2>1. i - 1 \in 0..n BY <1>1
  <2>2. <<i, H[i - 1]>> \in (1..n) \X Seq(S) /\ H[i] = step[<<i, H[i - 1]>>]
    BY <1>11, <2>1 DEF FoldSteps
  <2> QED BY <2>2 DEF step
<1> QED BY <1>1, <1>2, <1>11, <1>12 DEF FoldSteps, n, Next1, Spells

LEMMA LettersRead ==
  ASSUME NEW path, IsText(Slash, path)
  PROVE  /\ IsList(Tools!Letters(path)) /\ IsList(Tools!Letters(path) \o <<Slash>>)
         /\ \E e : Reads(Slash, Tools!Letters(path) \o <<Slash>>, path, e, Len(path))
<1>1. \A S : Slash \in S /\ path \in Seq(Seq(S)) => \E H : Spells(Slash, H, path, S, Tools!Letters(path))
  BY LettersSteps
<1> QED BY <1>1, SpelledText

LEMMA CleanText ==
  ASSUME NEW path, IsText(Slash, path)
  PROVE  IsText(Slash, Tools!Clean(Tools!Path(TRUE, path)))
<1> DEFINE p == Turns!Clean(Turns!Path(TRUE, path))
<1>1. p \in Seq(Range(path) \ {Up}) BY CleanAbsolute DEF IsText, IsList
<1>2. Tools!Clean(Tools!Path(TRUE, path)) = p BY SameClean DEF Tools!Path, Turns!Path
<1> HIDE DEF p
<1>3. IsList(p) /\ Range(p) \subseteq Range(path) BY <1>1, ListOfSeq
<1> QED BY <1>2, <1>3 DEF IsText

(* What a rule's prefix matches is at or below its path.                     *)
LEMMA MatchIsPrefix ==
  ASSUME NEW path, IsText(Slash, path), NEW prefix, IsText(Slash, prefix), Tools!PathPrefixMatch(path, prefix)
  PROVE  Tools!IsPrefix(Tools!Clean(Tools!Path(TRUE, prefix)), Tools!Clean(Tools!Path(TRUE, path)))
<1> DEFINE a == Tools!Clean(Tools!Path(TRUE, prefix))
           b == Tools!Clean(Tools!Path(TRUE, path))
           pp == Tools!Letters(a)
           rp == Tools!Letters(b)
           ta == pp \o <<Slash>>
           tb == rp \o <<Slash>>
<1>1. IsText(Slash, a) /\ IsText(Slash, b) BY CleanText
<1>2. pp = <<>> \/ rp = pp \/ IsPrefix(ta, rp)
  BY DEF Tools!PathPrefixMatch, Tools!IsPrefix, IsPrefix
<1> HIDE DEF a, b
<1>3. PICK e : Reads(Slash, ta, a, e, Len(a)) BY <1>1, LettersRead
<1>4. PICK f : Reads(Slash, tb, b, f, Len(b)) BY <1>1, LettersRead
<1>5. IsList(pp) /\ IsList(rp) /\ IsList(ta) /\ IsList(tb) BY <1>1, LettersRead
<1>6. Len(ta) \in Nat /\ Len(tb) \in Nat BY <1>5, LenProperties DEF IsList
<1> HIDE DEF rp, pp
<1>7. Begins(ta, tb)
  <2>1. CASE pp = <<>>
    <3>1. ta = <<Slash>> BY <2>1, ConcatEmptySeq
    <3>2. 0 \in 0..Len(b) BY <1>1, LenProperties DEF IsText, IsList
    <3>3. f[0] + 1 \in 1..Len(tb) /\ tb[f[0] + 1] = Slash /\ f[0] = 0 BY <1>4, <3>2 DEF Reads
    <3> DEFINE t == tb
    <3>4. 1 <= Len(t) /\ t[1] = Slash BY <3>3
    <3> HIDE DEF t
    <3>5. Begins(<<Slash>>, t) BY <3>4 DEF Begins
    <3> QED BY <3>1, <3>5 DEF t
  <2>2. CASE rp = pp
    <3>1. ta = tb BY <2>2
    <3> HIDE DEF ta, tb
    <3> QED BY <1>6, <3>1 DEF Begins
  <2>3. CASE IsPrefix(ta, rp)
    <3>1. Begins(ta, rp) BY <1>5, <2>3, BeginsIsPrefix
    <3>2. IsPrefix(rp, tb)
      <4>1. IsList(<<Slash>>) BY DEF IsList, Range
      <4> QED BY <1>5, <4>1, ListOfConcat
    <3>3. Begins(rp, tb) BY <1>5, <3>2, BeginsIsPrefix
    <3>4. Len(rp) \in Nat BY <1>5, LenProperties DEF IsList
    <3> HIDE DEF ta, tb
    <3> QED BY <1>6, <3>1, <3>3, <3>4 DEF Begins
  <2> QED BY <1>2, <2>1, <2>2, <2>3
<1> HIDE DEF ta, tb
<1>8. Begins(a, b) BY <1>1, <1>3, <1>4, <1>6, <1>7, TextBegins
<1>9. IsPrefix(a, b) BY <1>1, <1>8, BeginsIsPrefix DEF IsText
<1> QED BY <1>9 DEF Tools!IsPrefix, IsPrefix, a, b

LEMMA FilesInvariance == Spec => [](TurnInv /\ FilesInv)
<1>1. Init => TurnInv /\ FilesInv
  <2>1. Init => /\ cache = <<>> /\ turn = Turns!NoTurn /\ jobs = <<>> /\ run = Turns!NoRun
    BY DEF Init, Turns!Init
  <2>2. Init => CacheWhole BY <2>1 DEF CacheWhole
  <2>3. Init => TurnFiles BY <2>1 DEF TurnFiles, Turns!NoTurn
  <2>4. Init => JobFiles BY <2>1, EmptySeq DEF JobFiles, IsList, Range
  <2>5. ASSUME Init PROVE RunFiles
    <3>1. run = Turns!NoRun BY <2>1, <2>5
    <3>2. /\ {"pc", "sent"} \subseteq DOMAIN run /\ run.pc = "none" /\ run.sent = {}
      BY <3>1 DEF Turns!NoRun
    <3> QED BY <3>2 DEF RunFiles
  <2>6. Init => TurnInv BY TurnInit DEF Init
  <2> QED BY <2>2, <2>3, <2>4, <2>5, <2>6 DEF FilesInv
<1>2. TurnInv /\ FilesInv /\ [Next]_vars => (TurnInv /\ FilesInv)'
  <2> SUFFICES ASSUME TurnInv, FilesInv, [Next]_vars PROVE (TurnInv /\ FilesInv)' OBVIOUS
  <2>1. [Turns!Next]_turnVars BY PartsRest
  <2>2. CacheWhole /\ TurnFiles /\ JobFiles /\ RunFiles BY DEF FilesInv
  <2>3. CacheWhole' BY <2>1, <2>2, CacheGoesOn
  <2>4. TurnFiles' BY <2>1, <2>2, TurnFilesGoOn
  <2>5. JobFiles' BY <2>1, <2>2, JobFilesGoOn
  <2>6. RunFiles' BY <2>1, <2>2, RunFilesGoOn
  <2>7. TurnInv' BY <2>1, TurnGoesOn
  <2> QED BY <2>3, <2>4, <2>5, <2>6, <2>7 DEF FilesInv
<1> QED BY <1>1, <1>2, PTL DEF Spec

SavedInv == CallReady /\ DiskAsTold /\ ShownAllowed

LEMMA SavedInvariance == Spec => []SavedInv
<1>1. Init => SavedInv
  <2>1. Init => /\ toolPc = "idle" /\ disk = <<>> /\ told = <<>> /\ shown = Tools!NoFile
    BY DEF Init, Tools!Init
  <2> QED BY <2>1 DEF SavedInv, CallReady, DiskAsTold, ShownAllowed, Tools!NoFile
<1>2. SavedInv /\ [Next]_vars => SavedInv'
  BY PartsRest, CallGoesOn, DiskGoesOn, ShownGoesOn DEF SavedInv
<1> QED BY <1>1, <1>2, PTL DEF Spec

(* However a download is cut short, by a failure or a crash, the files a     *)
(* Telegram job names are whole and of its chat, what a run sends lies below *)
(* the cache; and the tools write below their base directories only, where   *)
(* each file holds what the caller was told.                                 *)
THEOREM FilesWhole == Spec => []FilesAreWhole
<1>1. TurnInv /\ FilesInv /\ SavedInv => FilesAreWhole
  BY TurnFilesWhole, ToolFilesWhole DEF SavedInv, FilesAreWhole
<1> QED BY FilesInvariance, SavedInvariance, <1>1, PTL
------------------------------------------------------------------------------
LEMMA TextOf ==
  ASSUME NEW path, path \in Seq(Range(path)),
         \A seg \in Range(path) : seg \in Seq(Range(seg) \ {Slash})
  PROVE  IsText(Slash, path)
<1>1. ASSUME NEW seg \in Range(path) PROVE IsList(seg) /\ Slash \notin Range(seg)
  <2>1. seg \in Seq(Range(seg) \ {Slash}) OBVIOUS
  <2> QED BY <2>1, ListOfSeq
<1> QED BY <1>1 DEF IsText, IsList

(* The request of a call that is under way.                                  *)
KnownUrls == {c.url : c \in FetchCalls} \union Urls

RequestAllowed ==
  /\ {"url", "method", "body", "secret"} \subseteq DOMAIN req /\ req.url \in KnownUrls
  /\ req.secret = toolCall.profile
  /\ req.body => req.method \in Tools!WithBody
  /\ hops \in Nat
  /\ toolCall.profile =>
       /\ config.profile.grants = Tools!Grants
       /\ Tools!IsURLAllowed(config.profile, req.url, req.method)
       /\ hops > 1 => config.profile.follow
  /\ config.guard.on \/ toolCall.profile => req.url.origin = toolCall.url.origin /\ hops <= 4
  /\ Tools!Policy => Tools!GuardAllows(config.guard, req.url)

RequestInv ==
  /\ config \in Configs
  /\ toolPc \in {"guard", "prepare", "sent", "redirected"} => toolCall \in FetchCalls
  /\ toolPc = "prepare" => (Tools!Policy => Tools!GuardAllows(config.guard, toolCall.url))
  /\ toolPc \in {"sent", "redirected"} => RequestAllowed
  /\ toolPc = "redirected" => answer.to \in Urls

LEMMA FirstRequestAllowed ==
  ASSUME RequestInv, Tools!Send
  PROVE  RequestAllowed'
<1>1. /\ toolCall \in FetchCalls /\ Tools!Acceptable(toolCall) /\ UNCHANGED <<config, toolCall>>
      /\ req' = Tools!FirstRequest(toolCall) /\ hops' = 1
      /\ Tools!Policy => Tools!GuardAllows(config.guard, toolCall.url)
  BY DEF Tools!Send, RequestInv
<1>2. /\ {"url", "method", "body", "secret"} = DOMAIN req' /\ req'.url = toolCall.url
      /\ req'.method = toolCall.method /\ req'.body = (toolCall.body # "none")
      /\ req'.secret = toolCall.profile
  BY <1>1 DEF Tools!FirstRequest
<1>3. req'.body => req'.method \in Tools!WithBody
  BY <1>1, <1>2 DEF Tools!Acceptable, Tools!BodyAllowed
<1>4. toolCall.profile => /\ config.profile.grants = Tools!Grants
                          /\ Tools!IsURLAllowed(config.profile, req'.url, req'.method)
  BY <1>1, <1>2 DEF Tools!Acceptable, Tools!ProfileAllows
<1>5. req'.url \in KnownUrls BY <1>1, <1>2 DEF KnownUrls
<1>6. (Tools!Policy)' = Tools!Policy BY <1>1 DEF Tools!Policy
<1> QED BY <1>1, <1>2, <1>3, <1>4, <1>5, <1>6
     DEF RequestAllowed, Tools!Grants, Tools!IsURLAllowed, Tools!GuardAllows, Tools!WithBody

LEMMA NextRequestAllowed ==
  ASSUME RequestInv, Tools!Follow
  PROVE  RequestAllowed'
<1> DEFINE next == Tools!Redirected
<1>1. /\ toolCall \in FetchCalls /\ Tools!FollowRedirects /\ Tools!MayFollow(next)
      /\ UNCHANGED <<config, toolCall>> /\ req' = next /\ hops' = hops + 1
      /\ answer.to \in Urls /\ RequestAllowed
  BY DEF Tools!Follow, RequestInv
<1>2. /\ DOMAIN next = DOMAIN req /\ next.url = answer.to /\ next.secret = req.secret
      /\ next.body => next.method \in Tools!WithBody
  BY <1>1 DEF RequestAllowed, Tools!Redirected
<1> HIDE DEF next
<1>3. next.url \in KnownUrls BY <1>1, <1>2 DEF KnownUrls
<1>4. toolCall.profile => /\ Tools!IsURLAllowed(config.profile, next.url, next.method)
                          /\ config.profile.follow
  BY <1>1 DEF Tools!MayFollow, Tools!FollowRedirects
<1>5. config.guard.on \/ toolCall.profile => next.url.origin = toolCall.url.origin /\ hops < 4
  BY <1>1 DEF Tools!MayFollow, Tools!MaxRequests
<1>6. Tools!Policy => Tools!GuardAllows(config.guard, next.url) BY <1>1 DEF Tools!MayFollow
<1>7. (Tools!Policy)' = Tools!Policy BY <1>1 DEF Tools!Policy
<1>8. hops \in Nat BY <1>1 DEF RequestAllowed
<1> QED BY <1>1, <1>2, <1>3, <1>4, <1>5, <1>6, <1>7, <1>8
     DEF RequestAllowed, Tools!Grants, Tools!IsURLAllowed, Tools!GuardAllows, Tools!WithBody

LEMMA RequestGoesOn ==
  ASSUME RequestInv, [Tools!Next]_toolVars
  PROVE  RequestInv'
<1> USE DEF Tools!Policy, Tools!GuardAllows
<1>1. CASE UNCHANGED toolVars
  BY <1>1 DEF toolVars, RequestInv, RequestAllowed, Tools!IsURLAllowed, Tools!Grants, Tools!WithBody
<1>2. CASE Tools!BeginFetch
  <2>1. toolPc' = "guard" /\ toolCall' \in FetchCalls /\ UNCHANGED config BY <1>2 DEF Tools!BeginFetch
  <2> QED BY <2>1 DEF RequestInv
<1>3. CASE Tools!GuardPasses
  <2>1. toolPc' = "prepare" /\ toolPc = "guard" /\ UNCHANGED <<config, toolCall>>
        /\ (Tools!Policy => Tools!GuardAllows(config.guard, toolCall.url))
    BY <1>3 DEF Tools!GuardPasses
  <2> QED BY <2>1 DEF RequestInv
<1>4. CASE Tools!Send
  <2>1. RequestAllowed' BY <1>4, FirstRequestAllowed
  <2>2. toolPc' = "sent" /\ toolPc = "prepare" /\ UNCHANGED <<config, toolCall>> BY <1>4 DEF Tools!Send
  <2> QED BY <2>1, <2>2 DEF RequestInv
<1>5. CASE Tools!Answers
  <2>1. /\ toolPc = "sent" /\ UNCHANGED <<config, toolCall, req, hops>>
        /\ toolPc' \in {"redirected", "body"} /\ (toolPc' = "redirected" => answer'.to \in Urls)
    BY <1>5 DEF Tools!Answers
  <2>2. toolCall \in FetchCalls /\ RequestAllowed BY <2>1 DEF RequestInv
  <2>3. RequestAllowed'
    BY <2>1, <2>2 DEF RequestAllowed, Tools!IsURLAllowed, Tools!Grants, Tools!WithBody
  <2> QED BY <2>1, <2>2, <2>3 DEF RequestInv
<1>6. CASE Tools!Follow
  <2>1. RequestAllowed' BY <1>6, NextRequestAllowed
  <2>2. toolPc' = "sent" /\ toolPc = "redirected" /\ UNCHANGED <<config, toolCall>>
    BY <1>6 DEF Tools!Follow
  <2> QED BY <2>1, <2>2 DEF RequestInv
<1>7. CASE UNCHANGED config /\ toolPc' \in {"idle", "body", "save", "write"}
  BY <1>7 DEF RequestInv
<1>8. \/ UNCHANGED toolVars \/ Tools!BeginFetch \/ Tools!GuardPasses \/ Tools!Send \/ Tools!Answers
      \/ Tools!Follow \/ (UNCHANGED config /\ toolPc' \in {"idle", "body", "save", "write"})
  BY DEF Tools!Next, Tools!GuardDenies, Tools!Refuse, Tools!TakeRedirect, Tools!StopRedirect,
         Tools!FetchFails, Tools!Truncated, Tools!ReadBody, Tools!Save, Tools!BeginWrite,
         Tools!NotSaved, Tools!Write, Tools!WriteFails, Tools!ReadFile, Tools!Return
<1> QED BY <1>1, <1>2, <1>3, <1>4, <1>5, <1>6, <1>7, <1>8

LEMMA RequestsAreAllowed ==
  ASSUME RequestInv
  PROVE  Tools!EveryRequestAllowed
<1> SUFFICES ASSUME toolPc = "sent" PROVE Tools!EveryRequestAllowed BY DEF Tools!EveryRequestAllowed
<1>1. RequestAllowed /\ config \in Configs BY DEF RequestInv
<1>2. ASSUME toolCall.profile
      PROVE  /\ req.method \in config.profile.methods
             /\ \E rule \in config.profile.prefixes : Tools!Under(req.url, rule)
  <2>1. PICK r \in config.profile.prefixes :
          r.origin = req.url.origin /\ Tools!PathPrefixMatch(req.url.path, r.path)
    BY <1>1, <1>2 DEF RequestAllowed, Tools!IsURLAllowed
  <2>2. IsText(Slash, req.url.path) BY <1>1, UrlPathsAssumption, TextOf DEF RequestAllowed, KnownUrls
  <2>3. IsText(Slash, r.path) BY <1>1, UrlPathsAssumption, TextOf
  <2>4. Tools!Under(req.url, r) BY <2>1, <2>2, <2>3, MatchIsPrefix DEF Tools!Under
  <2>5. req.method \in config.profile.methods
    BY <1>1, <1>2 DEF RequestAllowed, Tools!IsURLAllowed
  <2> QED BY <2>4, <2>5
<1> QED BY <1>1, <1>2 DEF RequestAllowed, Tools!EveryRequestAllowed, Tools!GuardAllows

LEMMA RequestInvariance == Spec => []RequestInv
<1>1. Init => RequestInv
  <2>1. Init => config \in Configs /\ toolPc = "idle" BY DEF Init, Tools!Init
  <2> QED BY <2>1 DEF RequestInv
<1>2. RequestInv /\ [Next]_vars => RequestInv' BY PartsRest, RequestGoesOn
<1> QED BY <1>1, <1>2, PTL DEF Spec

(* Wherever a server redirects to, every request of url_fetch is one its      *)
(* profile or the guard allows: below a path of the profile, by a method it   *)
(* has, on the origin of the call, at most four times.                        *)
THEOREM RequestsAllowed == Spec => []EveryRequestAllowed
<1>1. RequestInv => EveryRequestAllowed
  BY RequestsAreAllowed DEF EveryRequestAllowed
<1> QED BY RequestInvariance, <1>1, PTL
------------------------------------------------------------------------------
(* Prefixes of lists.                                                        *)
LEMMA PrefixOfPrefix ==
  ASSUME NEW a, NEW b, NEW c, IsList(a), IsList(b), IsList(c), IsPrefix(a, b), IsPrefix(b, c)
  PROVE  IsPrefix(a, c)
<1>1. Begins(a, b) /\ Begins(b, c) BY BeginsIsPrefix
<1>2. Len(a) \in Nat /\ Len(b) \in Nat /\ Len(c) \in Nat BY LenProperties DEF IsList
<1>3. Begins(a, c) BY <1>1, <1>2 DEF Begins
<1> QED BY <1>3, BeginsIsPrefix

LEMMA PrefixOfItself ==
  ASSUME NEW a, IsList(a)
  PROVE  IsPrefix(a, a)
<1>1. Len(a) \in Nat BY LenProperties DEF IsList
<1> QED BY <1>1 DEF IsPrefix

LEMMA SameLengthSame ==
  ASSUME NEW a, NEW b, NEW c, IsList(a), IsList(b), IsList(c), IsPrefix(a, c), IsPrefix(b, c),
         Len(a) = Len(b)
  PROVE  a = b
<1> DEFINE S == Range(a) \union Range(b)
<1>1. a \in Seq(S) /\ b \in Seq(S) BY SeqMonotonic DEF IsList
<1>2. Begins(a, c) /\ Begins(b, c) BY BeginsIsPrefix
<1>3. \A i \in 1..Len(a) : a[i] = b[i] BY <1>2 DEF Begins
<1> HIDE DEF S
<1> QED BY <1>1, <1>3, SeqEqual

(* What is appended to a text is a suffix of it.                             *)
LEMMA AppendedIsSuffix ==
  ASSUME NEW s, NEW t, IsList(s), IsList(t)
  PROVE  IsSuffix(t, s \o t)
<1> DEFINE S == Range(s) \union Range(t)
           r == s \o t
           m == Len(s)
           n == Len(t)
           x == Reverse(t)
           y == Reverse(r)
<1>1. s \in Seq(S) /\ t \in Seq(S) BY SeqMonotonic DEF IsList
<1>2. Concats(S, s, t, r) BY <1>1, ConcatIs
<1>3. m \in Nat /\ n \in Nat /\ (\A i \in 1..n : t[i] \in S) BY <1>1, LenProperties
<1>4. Len(r) = m + n /\ r \in Seq(S) /\ \A i \in 1..(m + n) : r[i] \in S
  BY <1>2, <1>3, LenProperties DEF Concats
<1>5. x \in Seq(S) /\ Len(x) = n /\ \A i \in 1..n : x[i] = t[n - i + 1]
  <2>1. x = [i \in 1..n |-> t[n - i + 1]] BY DEF Reverse
  <2>2. \A i \in 1..n : t[n - i + 1] \in S BY <1>3
  <2> HIDE DEF x, n
  <2>3. x \in [1..n -> S] BY <2>1, <2>2
  <2> QED BY <1>3, <2>1, <2>3, SeqDef, LenProperties
<1>6. y \in Seq(S) /\ Len(y) = m + n /\ \A i \in 1..(m + n) : y[i] = r[m + n - i + 1]
  <2>1. y = [i \in 1..(m + n) |-> r[m + n - i + 1]] BY <1>4 DEF Reverse
  <2>2. \A i \in 1..(m + n) : r[m + n - i + 1] \in S BY <1>3, <1>4
  <2>3. PICK k \in Nat : k = m + n BY <1>3
  <2> HIDE DEF y, n, m, r
  <2>4. y \in [1..k -> S] BY <2>1, <2>2, <2>3
  <2> QED BY <2>1, <2>3, <2>4, SeqDef, LenProperties
<1>7. \A i \in 1..n : r[m + n - i + 1] = t[n - i + 1]
  <2>1. \A i \in (m + 1)..(m + n) : r[i] = t[i - m] BY <1>2 DEF Concats
  <2> HIDE DEF r, m, n
  <2> QED BY <1>3, <2>1
<1>8. IsList(x) /\ IsList(y) BY <1>5, <1>6, ListOfSeq
<1>9. Begins(x, y)
  <2> HIDE DEF x, y, m, n, r
  <2> QED BY <1>3, <1>5, <1>6, <1>7 DEF Begins
<1> HIDE DEF x, y
<1>10. IsPrefix(x, y) BY <1>8, <1>9, BeginsIsPrefix
<1> QED BY <1>10 DEF IsSuffix, x, y, r
------------------------------------------------------------------------------
(* A path of segments that are texts; one inside a directory.                *)
IsPath(f) == IsList(f) /\ f # <<>> /\ IsList(Last(f))
InDir(d, f) == IsPrefix(d, f) /\ d # f
Temporary(f) == IsSuffix(TempSuffix, Last(f))

LEMMA InDirIsLonger ==
  ASSUME NEW d, NEW f, IsList(d), IsList(f)
  PROVE  InDir(d, f) <=> Begins(d, f) /\ Len(d) < Len(f)
<1> DEFINE S == Range(d) \union Range(f)
<1>1. d \in Seq(S) /\ f \in Seq(S) BY SeqMonotonic DEF IsList
<1>2. Len(d) \in Nat /\ Len(f) \in Nat BY <1>1, LenProperties
<1>3. IsPrefix(d, f) <=> Begins(d, f) BY BeginsIsPrefix
<1>4. Len(d) < Len(f) => d # f BY <1>2
<1>5. ASSUME Begins(d, f), d # f PROVE Len(d) < Len(f)
  <2>1. Len(d) = Len(f) => d = f
    <3> HIDE DEF S
    <3> QED BY <1>1, <1>5, SeqEqual DEF Begins
  <2> QED BY <1>2, <1>5, <2>1 DEF Begins
<1> QED BY <1>3, <1>4, <1>5 DEF InDir

(* The name of the temporary file: beside the file, and another's only if    *)
(* that one is named like a temporary file itself.                           *)
LEMMA TempOf ==
  ASSUME NEW p, IsPath(p), NEW q, q = Skills!Temp(p)
  PROVE  /\ IsPath(q) /\ Temporary(q) /\ Len(q) = Len(p) /\ q # p
         /\ \A i \in 1..(Len(p) - 1) : q[i] = p[i]
<1> DEFINE x == Last(p) \o TempSuffix
           S == Range(p) \union {x}
           fr == Front(p)
           n == Len(p) - 1
<1>1. p \in Seq(S) /\ x \in S BY SeqMonotonic DEF IsPath, IsList
<1>2. IsList(Last(p)) /\ IsList(TempSuffix) /\ TempSuffix # <<>> /\ p # <<>>
  BY SkillsAssumption DEF IsPath, IsList
<1>3. IsList(x) /\ Last(p) # x /\ IsSuffix(TempSuffix, x)
  BY <1>2, ListOfConcat, AppendedIsSuffix
<1>4. q = Append(fr, x)
  BY DEF Skills!Temp, Skills!Front, Front, Skills!Last, Last
<1> HIDE DEF x, S
<1>5. fr \in Seq(S) /\ Len(fr) = n /\ \A i \in 1..n : fr[i] = p[i] BY <1>1, <1>2, FrontOf
<1>6. Len(p) \in Nat \ {0} BY <1>1, <1>2, EmptySeq
<1> HIDE DEF fr
<1>7. q \in Seq(S) /\ q # <<>> /\ Len(q) = n + 1 /\ (\A i \in 1..n : q[i] = fr[i]) /\ q[n + 1] = x
  BY <1>1, <1>4, <1>5, AppendProperties
<1>8. n + 1 = Len(p) /\ n \in Nat BY <1>6
<1>9. Last(q) = x /\ Len(q) = Len(p) BY <1>7, <1>8 DEF Last
<1>10. IsList(q) BY <1>7, ListOfSeq
<1>11. q # p BY <1>3, <1>9
<1> QED BY <1>2, <1>3, <1>5, <1>7, <1>9, <1>10, <1>11 DEF IsPath, Temporary

LEMMA TempInDir ==
  ASSUME NEW p, IsPath(p), NEW q, q = Skills!Temp(p), NEW d, IsList(d), InDir(d, p)
  PROVE  InDir(d, q)
<1>1. IsPath(q) /\ Len(q) = Len(p) /\ \A i \in 1..(Len(p) - 1) : q[i] = p[i] BY TempOf
<1>2. Begins(d, p) /\ Len(d) < Len(p) BY InDirIsLonger DEF IsPath
<1>3. Len(d) \in Nat /\ Len(p) \in Nat BY LenProperties DEF IsList, IsPath
<1>4. Begins(d, q) /\ Len(d) < Len(q) BY <1>1, <1>2, <1>3 DEF Begins
<1> QED BY <1>1, <1>4, InDirIsLonger DEF IsPath

LEMMA PrefixOfTemp ==
  ASSUME NEW p, IsPath(p), NEW q, q = Skills!Temp(p), NEW f, IsList(f), f # q, IsPrefix(f, q)
  PROVE  IsPrefix(f, p)
<1>1. IsPath(q) /\ Len(q) = Len(p) /\ \A i \in 1..(Len(p) - 1) : q[i] = p[i] BY TempOf
<1>2. Begins(f, q) /\ Len(f) < Len(q) BY <1>1, InDirIsLonger DEF IsPath, InDir
<1>3. Len(f) \in Nat /\ Len(p) \in Nat BY LenProperties DEF IsList, IsPath
<1>4. Begins(f, p) BY <1>1, <1>2, <1>3 DEF Begins
<1> QED BY <1>4, BeginsIsPrefix DEF IsPath
------------------------------------------------------------------------------
LEMMA SkillsClean == \A p : Skills!Clean(p) = Turns!Clean(p)
BY DEF Turns!Clean, Turns!FoldLeft, Turns!MapThenFoldSet, Turns!Max, Turns!Last, Turns!Front,
       Skills!Clean, Skills!FoldLeft, Skills!MapThenFoldSet, Skills!Max, Skills!Last, Skills!Front

(* Cleaned, a path has no ".." after another segment.                        *)
UpsFirst(s) == \A i \in 1..Len(s) : s[i] = Up => s[1] = Up

LEMMA CleanRelative ==
  ASSUME NEW S, Up \in S, NEW path, path.segs \in Seq(S), NEW p, p = Turns!Clean(path),
         p # <<>>, p[1] # Up
  PROVE  p \in Seq(S \ {Up})
<1> DEFINE n == Len(path.segs)
<1>1. PICK H : Cleans(H, path, S) BY CleanSteps
<1>2. /\ H[0] = <<>> /\ p = H[n] /\ n \in Nat
      /\ \A i \in 1..n : H[i] = CleanNext(path.abs, H[i - 1], path.segs[i])
      /\ \A i \in 0..n : H[i] \in Seq(S)
      /\ \A i \in 1..n : path.segs[i] \in S
  BY <1>1, LenProperties DEF Cleans
<1> HIDE DEF n
<1>3. ASSUME NEW i \in 1..n, UpsFirst(H[i - 1]) PROVE UpsFirst(H[i])
  <2> DEFINE d == H[i - 1]
             s == path.segs[i]
             r == H[i]
  <2>1. d \in Seq(S) /\ s \in S /\ r = CleanNext(path.abs, d, s) /\ UpsFirst(d) BY <1>2, <1>3
  <2> SUFFICES UpsFirst(r) OBVIOUS
  <2> HIDE DEF d, s, r
  <2>2. Len(d) \in Nat /\ (d # <<>> => Len(d) # 0) BY <2>1, LenProperties, EmptySeq
  <2>3. ASSUME NEW x \in S, r = Append(d, x), x = Up => d = <<>> \/ d[Len(d)] = Up PROVE UpsFirst(r)
    <3>1. Len(r) = Len(d) + 1 /\ (\A k \in 1..Len(d) : r[k] = d[k]) /\ r[Len(d) + 1] = x
      BY <2>1, <2>3, AppendProperties
    <3>2. d = <<>> => Len(d) = 0 BY <2>1, EmptySeq
    <3> QED BY <2>1, <2>2, <2>3, <3>1, <3>2 DEF UpsFirst
  <2>4. CASE s # Up BY <2>1, <2>3, <2>4 DEF CleanNext
  <2>5. CASE s = Up /\ d # <<>> /\ Last(d) # Up
    <3>1. r = Front(d) BY <2>1, <2>5 DEF CleanNext
    <3>2. Len(r) = Len(d) - 1 /\ \A k \in 1..(Len(d) - 1) : r[k] = d[k] BY <2>1, <2>5, <3>1, FrontOf
    <3> QED BY <2>1, <2>2, <3>2 DEF UpsFirst
  <2>6. CASE s = Up /\ ~(d # <<>> /\ Last(d) # Up)
    <3>1. CASE path.abs BY <2>1, <2>6, <3>1 DEF CleanNext
    <3>2. CASE ~path.abs
      <4>1. r = Append(d, Up) BY <2>1, <2>6, <3>2 DEF CleanNext
      <4>2. d = <<>> \/ d[Len(d)] = Up BY <2>6 DEF Last
      <4> QED BY <2>3, <4>1, <4>2
    <3> QED BY <3>1, <3>2
  <2> QED BY <2>4, <2>5, <2>6
<1>4. UpsFirst(H[0])
  <2>1. Len(H[0]) = 0 BY <1>2, EmptySeq
  <2> QED BY <2>1 DEF UpsFirst
<1>5. UpsFirst(p)
  <2> DEFINE G == {i \in 0..n : UpsFirst(H[i])}
  <2>1. 0 \in G BY <1>2, <1>4
  <2>2. \A i \in 1..n : i - 1 \in G => i \in G BY <1>3
  <2> HIDE DEF G
  <2>3. 0..n \subseteq G BY <1>2, <2>1, <2>2, Induct
  <2>4. n \in G BY <1>2, <2>3
  <2> QED BY <1>2, <2>4 DEF G
<1>6. p \in Seq(S) /\ \A i \in 1..Len(p) : p[i] # Up
  <2>1. n \in 0..n BY <1>2
  <2>2. p \in Seq(S) BY <1>2, <2>1
  <2> QED BY <1>5, <2>2 DEF UpsFirst
<1>7. p \in [1..Len(p) -> S \ {Up}] /\ Len(p) \in Nat BY <1>6, LenProperties
<1> QED BY <1>7, SeqDef

(* A path a remote skill may have, joined to a clean directory, is in it.    *)
LEMMA JoinedIsInside ==
  ASSUME NEW d, IsList(d), Up \notin Range(d), NEW path, IsList(path.segs),
         \A seg \in Range(path.segs) : IsList(seg), Skills!SafeJoin(d, path).ok,
         NEW f, f = Skills!SafeJoin(d, path).file
  PROVE  IsPath(f) /\ InDir(d, f)
<1> DEFINE S == Range(path.segs) \union {Up}
           p == Turns!Clean(path)
           D == Range(d) \union (Range(path.segs) \ {Up})
           full == Turns!Path(TRUE, d \o p)
<1>1. path.segs \in Seq(S) BY SeqMonotonic DEF IsList
<1>2. p # <<>> /\ Head(p) # Up /\ f = Skills!Clean(Skills!Path(TRUE, d \o p))
  BY SkillsClean DEF Skills!SafeJoin, Skills!Refused, Skills!Resolved
<1>3. PICK H : Cleans(H, path, S) BY <1>1, CleanSteps
<1>4. p \in Seq(S)
  <2>1. Len(path.segs) \in 0..Len(path.segs) BY <1>1, LenProperties
  <2> QED BY <1>3, <2>1 DEF Cleans
<1>5. p \in Seq(S \ {Up})
  <2>1. p[1] # Up
    <3> HIDE DEF p
    <3> QED BY <1>2, <1>4
  <2> HIDE DEF S
  <2>2. Up \in S BY DEF S
  <2> QED BY <1>1, <1>2, <2>1, <2>2, CleanRelative
<1> HIDE DEF p
<1>6. p \in Seq(D) /\ d \in Seq(D) BY <1>5, SeqMonotonic DEF IsList
<1>7. Up \notin D OBVIOUS
<1>8. \A x \in Range(p) : IsList(x)
  <2>1. Range(p) \subseteq S \ {Up} BY <1>5, ListOfSeq
  <2> QED BY <2>1
<1> HIDE DEF D, S
<1>9. d \o p \in Seq(D) BY <1>6, ConcatProperties
<1>10. f = d \o p
  <2>1. full.segs \in Seq(D) BY <1>9 DEF Turns!Path
  <2>2. Turns!Clean(full) = full.segs
    <3> HIDE DEF full
    <3> QED BY <1>7, <2>1, CleanSame
  <2>3. f = Turns!Clean(full) BY <1>2, SkillsClean DEF Skills!Path, Turns!Path
  <2> HIDE DEF p
  <2> QED BY <2>2, <2>3 DEF full, Turns!Path
<1>11. IsList(p) BY <1>6, ListOfSeq
<1>12. IsPrefix(d, f) /\ d # f /\ IsList(f) BY <1>2, <1>10, <1>11, ListOfConcat
<1>13. Last(f) = Last(p) /\ Last(p) \in Range(p) /\ f # <<>>
  <2>1. Concats(D, d, p, f) BY <1>6, <1>10, ConcatIs
  <2>2. Len(p) \in Nat \ {0} /\ Len(d) \in Nat /\ DOMAIN p = 1..Len(p) BY <1>2, <1>6, EmptySeq, LenProperties
  <2>3. Len(f) = Len(d) + Len(p) /\ f[Len(d) + Len(p)] = p[Len(p)]
    BY <2>1, <2>2 DEF Concats
  <2>4. f # <<>> BY <2>2, <2>3, EmptySeq
  <2> QED BY <2>2, <2>3, <2>4 DEF Last, Range
<1> QED BY <1>8, <1>12, <1>13 DEF IsPath, InDir
------------------------------------------------------------------------------
(* The elements of a list that are in a set: these, and each once if the list *)
(* has each once.                                                            *)
Once(s) == \A i, j \in 1..Len(s) : s[i] = s[j] => i = j

ThoseNext(set, out, x) == IF x \in set THEN Append(out, x) ELSE out

ThoseRuns(H, list, set) ==
  /\ H[0] = <<>>
  /\ \A i \in 1..Len(list) : H[i] = ThoseNext(set, H[i - 1], list[i])
  /\ \A i \in 0..Len(list) : H[i] \in Seq(Range(list))
  /\ Skills!Those(list, set) = H[Len(list)]

LEMMA ThoseSteps ==
  ASSUME NEW list, IsList(list), NEW set
  PROVE  \E H : ThoseRuns(H, list, set)
<1> DEFINE S == Seq(Range(list))
           n == Len(list)
           step == [d \in (1..n) \X S |-> ThoseNext(set, d[2], list[d[1]])]
           Eq(F) == F = [s \in SUBSET (DOMAIN list) |->
                           IF s = {} THEN <<>> ELSE ThoseNext(set, F[s \ {Max(s)}], list[Max(s)])]
           G == CHOOSE F : Eq(F)
<1>1. n \in Nat /\ DOMAIN list = 1..n /\ \A i \in 1..n : list[i] \in Range(list)
  BY LenProperties DEF IsList
<1>2. Skills!Those(list, set) = G[DOMAIN list]
  BY DEF Skills!Those, Skills!FoldLeft, Skills!MapThenFoldSet, Skills!Max, Max, ThoseNext
<1>3. step \in [(1..n) \X S -> S]
  <2>1. \A d \in (1..n) \X S : ThoseNext(set, d[2], list[d[1]]) \in S
    BY <1>1, AppendProperties DEF ThoseNext
  <2> QED BY <2>1
<1>4. <<>> \in S BY EmptySeq
<1>5. ASSUME NEW F, NEW s \in SUBSET (1..n), s # {}, F[s \ {Max(s)}] \in S
      PROVE  ThoseNext(set, F[s \ {Max(s)}], list[Max(s)]) = step[<<Max(s), F[s \ {Max(s)}]>>]
  <2>1. Max(s) \in 1..n BY <1>1, <1>5, Highest
  <2>2. <<Max(s), F[s \ {Max(s)}]>> \in (1..n) \X S BY <1>5, <2>1
  <2> QED BY <2>2
<1>6. PICK F : IsFold(F, n, S, <<>>, step)
  <2> HIDE DEF step, n, S
  <2> QED BY <1>1, <1>3, <1>4, FoldExists
<1> HIDE DEF step, n
<1>7. Eq(F) BY <1>1, <1>5, <1>6 DEF IsFold
<1>8. Eq(G)
  <2> HIDE DEF Eq
  <2> QED BY <1>7
<1> HIDE DEF G, S
<1>9. PICK H : FoldSteps(H, n, S, <<>>, step, G[1..n])
  <2>1. G[{}] = <<>> BY <1>1, <1>8
  <2>2. \A s \in SUBSET (1..n) : s # {} /\ G[s \ {Max(s)}] \in S =>
          G[s] = step[<<Max(s), G[s \ {Max(s)}]>>]
    BY <1>1, <1>5, <1>8
  <2>3. FoldsLike(G, n, S, <<>>, step) BY <2>1, <2>2 DEF FoldsLike
  <2> QED BY <1>1, <1>3, <1>4, <2>3, FoldRuns
<1>10. ASSUME NEW i \in 1..n PROVE H[i] = ThoseNext(set, H[i - 1], list[i])
  <2>1. i - 1 \in 0..n BY <1>1
  <2>2. <<i, H[i - 1]>> \in (1..n) \X S /\ H[i] = step[<<i, H[i - 1]>>]
    BY <1>9, <2>1 DEF FoldSteps
  <2> QED BY <2>2 DEF step
<1> QED BY <1>1, <1>2, <1>9, <1>10 DEF FoldSteps, n, S, ThoseRuns

LEMMA ThoseOf ==
  ASSUME NEW list, IsList(list), NEW set, NEW r, r = Skills!Those(list, set)
  PROVE  IsList(r) /\ Range(r) = Range(list) \intersect set /\ (Once(list) => Once(r))
<1> DEFINE n == Len(list)
           Upto(i) == {list[k] : k \in 1..i} \intersect set
           Right(s, i) == /\ IsList(s) /\ Range(s) = Upto(i) /\ (Once(list) => Once(s))
<1>1. PICK H : ThoseRuns(H, list, set) BY ThoseSteps
<1>2. /\ H[0] = <<>> /\ r = H[n] /\ n \in Nat /\ DOMAIN list = 1..n
      /\ \A i \in 1..n : H[i] = ThoseNext(set, H[i - 1], list[i])
  BY <1>1, LenProperties DEF ThoseRuns, IsList
<1> HIDE DEF n
<1>3. Right(H[0], 0)
  <2>1. IsList(<<>>) /\ Range(<<>>) = {} /\ Len(<<>>) = 0
    <3> DEFINE e == <<>>
               S == {}
    <3>1. e \in Seq(S) /\ Len(e) = 0 BY EmptySeq
    <3> HIDE DEF e, S
    <3>2. IsList(e) /\ Range(e) \subseteq S BY <3>1, ListOfSeq
    <3> QED BY <3>1, <3>2 DEF e, S
  <2> QED BY <1>2, <2>1 DEF Once
<1>4. ASSUME NEW i \in 1..n, Right(H[i - 1], i - 1) PROVE Right(H[i], i)
  <2> DEFINE d == H[i - 1]
             x == list[i]
             s == H[i]
  <2>1. s = ThoseNext(set, d, x) /\ IsList(d) /\ Range(d) = Upto(i - 1) BY <1>2, <1>4
  <2>2. Upto(i) = Upto(i - 1) \union ({x} \intersect set) BY <1>2
  <2>3. Once(list) => Once(d) /\ (x \in set => x \notin Range(d))
    <3>1. ASSUME Once(list), x \in Range(d) PROVE FALSE
      <4>1. PICK k \in 1..(i - 1) : list[k] = list[i] BY <2>1, <3>1
      <4>2. i \in 1..Len(list) /\ k \in 1..Len(list) /\ k # i BY <1>2 DEF n
      <4> QED BY <3>1, <4>1, <4>2 DEF Once
    <3> QED BY <1>4, <3>1
  <2> HIDE DEF d, s, x, Upto
  <2> SUFFICES Right(s, i) BY DEF s
  <2>4. CASE x \in set
    <3>1. s = Append(d, x) BY <2>1, <2>4 DEF ThoseNext
    <3>2. IsList(s) /\ Range(s) = Range(d) \union {x} BY <2>1, <3>1, RangeOfAppend
    <3>3. Once(list) => Once(s)
      <4>1. d \in Seq(Range(d) \union {x}) BY <2>1, SeqMonotonic DEF IsList
      <4>2. Len(s) = Len(d) + 1 /\ (\A k \in 1..Len(d) : s[k] = d[k]) /\ s[Len(d) + 1] = x /\ Len(d) \in Nat
        BY <3>1, <4>1, AppendProperties, LenProperties
      <4>3. DOMAIN d = 1..Len(d) BY <4>1, LenProperties
      <4>4. Once(list) => \A k \in 1..Len(d) : d[k] # x BY <2>3, <2>4, <4>3 DEF Range
      <4> QED BY <2>3, <4>2, <4>4 DEF Once
    <3> QED BY <2>1, <2>2, <2>4, <3>2, <3>3
  <2>5. CASE x \notin set
    <3>1. s = d BY <2>1, <2>5 DEF ThoseNext
    <3> QED BY <2>1, <2>2, <2>3, <2>5, <3>1
  <2> QED BY <2>4, <2>5
<1> HIDE DEF Right
<1>5. Right(H[n], n)
  <2> DEFINE T == {i \in 0..n : Right(H[i], i)}
  <2>1. 0 \in T BY <1>2, <1>3
  <2>2. \A i \in 1..n : i - 1 \in T => i \in T BY <1>4
  <2> HIDE DEF T
  <2>3. 0..n \subseteq T BY <1>2, <2>1, <2>2, Induct
  <2>4. n \in T BY <1>2, <2>3
  <2> QED BY <2>4 DEF T
<1>6. {list[k] : k \in 1..n} = Range(list) BY <1>2 DEF Range
<1> QED BY <1>2, <1>5, <1>6 DEF Right

(* The files of a remote skill are those of its named entries.               *)
FileOf(d, e) == [source |-> e.url, path |-> Skills!SafeJoin(d, e.path).file]
Twin(taken, f) == \E i \in 1..Len(taken) : Skills!SameKey(taken[i], f)
RemoteNext(d, taken, e) ==
  IF ~Skills!Named(e) \/ Twin(taken, FileOf(d, e)) THEN taken ELSE Append(taken, FileOf(d, e))
NamedFiles(d, entries) == {FileOf(d, e) : e \in {x \in Range(entries) : Skills!Named(x)}}

LEMMA RemoteFilesNamed ==
  ASSUME NEW entries, IsList(entries), NEW d
  PROVE  Skills!RemoteFiles(d, entries) \in Seq(NamedFiles(d, entries))
<1> DEFINE S == Seq(NamedFiles(d, entries))
           n == Len(entries)
           step == [q \in (1..n) \X S |-> RemoteNext(d, q[2], entries[q[1]])]
           Eq(F) == F = [s \in SUBSET (DOMAIN entries) |->
                           IF s = {} THEN <<>> ELSE RemoteNext(d, F[s \ {Max(s)}], entries[Max(s)])]
           G == CHOOSE F : Eq(F)
<1>1. n \in Nat /\ DOMAIN entries = 1..n /\ \A i \in 1..n : entries[i] \in Range(entries)
  BY LenProperties DEF IsList
<1>2. Skills!RemoteFiles(d, entries) = G[DOMAIN entries]
  BY DEF Skills!RemoteFiles, Skills!FoldLeft, Skills!MapThenFoldSet, Skills!Max, Max, RemoteNext,
         FileOf, Twin
<1>3. step \in [(1..n) \X S -> S]
  <2>1. \A q \in (1..n) \X S : RemoteNext(d, q[2], entries[q[1]]) \in S
    <3> TAKE q \in (1..n) \X S
    <3> DEFINE e == entries[q[1]]
               N == NamedFiles(d, entries)
               taken == q[2]
    <3>1. taken \in Seq(N) /\ e \in Range(entries) BY <1>1
    <3>2. Skills!Named(e) => FileOf(d, e) \in N BY <3>1 DEF NamedFiles
    <3> HIDE DEF e, N, taken
    <3>3. RemoteNext(d, taken, e) \in Seq(N) BY <3>1, <3>2, AppendProperties DEF RemoteNext
    <3> QED BY <3>3 DEF e, N, taken
  <2> QED BY <2>1
<1>4. <<>> \in S BY EmptySeq
<1>5. ASSUME NEW F, NEW s \in SUBSET (1..n), s # {}, F[s \ {Max(s)}] \in S
      PROVE  RemoteNext(d, F[s \ {Max(s)}], entries[Max(s)]) = step[<<Max(s), F[s \ {Max(s)}]>>]
  <2>1. Max(s) \in 1..n BY <1>1, <1>5, Highest
  <2>2. <<Max(s), F[s \ {Max(s)}]>> \in (1..n) \X S BY <1>5, <2>1
  <2> QED BY <2>2
<1>6. PICK F : IsFold(F, n, S, <<>>, step)
  <2> HIDE DEF step, n, S
  <2> QED BY <1>1, <1>3, <1>4, FoldExists
<1> HIDE DEF step, n
<1>7. Eq(F) BY <1>1, <1>5, <1>6 DEF IsFold
<1>8. Eq(G)
  <2> HIDE DEF Eq
  <2> QED BY <1>7
<1> HIDE DEF G, S
<1>9. PICK H : FoldSteps(H, n, S, <<>>, step, G[1..n])
  <2>1. G[{}] = <<>> BY <1>1, <1>8
  <2>2. \A s \in SUBSET (1..n) : s # {} /\ G[s \ {Max(s)}] \in S =>
          G[s] = step[<<Max(s), G[s \ {Max(s)}]>>]
    BY <1>1, <1>5, <1>8
  <2>3. FoldsLike(G, n, S, <<>>, step) BY <2>1, <2>2 DEF FoldsLike
  <2> QED BY <1>1, <1>3, <1>4, <2>3, FoldRuns
<1>10. n \in 0..n BY <1>1
<1> QED BY <1>1, <1>2, <1>9, <1>10 DEF FoldSteps, S
------------------------------------------------------------------------------
(* Where a call is: what was asked for, and which file is in progress.       *)
AtFile == {"file", "temp", "rename", "mode"}
Writing == AtFile \union {"skill"}
Asking == {"idle", "select", "keys", "download", "confirm", "review"}

PhaseInv ==
  /\ skillPc \in Asking \union {"confirm plan", "install"} => files = before
  /\ skillPc \in Asking => plan = <<>>
  /\ skillPc \in {"select", "keys"} => ~opts.remote
  /\ skillPc \in {"download", "confirm", "review", "confirm plan"} => opts.remote /\ ~opts.elsewhere
  /\ skillPc \in {"download", "confirm"} => agreed = 0
  /\ skillPc \in {"review", "confirm plan"} => opts.yes \/ agreed = 1
  /\ skillPc \in Writing \union {"install"} /\ opts.remote =>
       ~opts.elsewhere /\ (opts.yes \/ agreed = 2)
  /\ skillPc \in Writing => ~opts.dry
  /\ skillPc \in {"confirm", "review"} => name \in Names
  /\ skillPc = "review" => Skills!ValidName(name)

LEMMA PhaseGoesOn ==
  ASSUME PhaseInv, [Skills!Next]_skillVars
  PROVE  PhaseInv'
<1> USE DEF PhaseInv, AtFile, Writing, Asking
<1>1. CASE Skills!Begin BY <1>1 DEF Skills!Begin, Skills!Ended
<1>2. CASE Skills!SelectAll \/ Skills!OpenTerminal \/ Skills!Key \/ Skills!ConfirmKeys \/ Skills!CancelKeys
  BY <1>2 DEF Skills!SelectAll, Skills!OpenTerminal, Skills!Key, Skills!ConfirmKeys,
       Skills!CancelKeys, Skills!Take, Skills!terminal
<1>3. CASE Skills!Download BY <1>3 DEF Skills!Download, Skills!terminal
<1>8. CASE Skills!Confirm
  <2>1. skillPc = "confirm plan" => agreed' = 2
    <3> SUFFICES ASSUME skillPc = "confirm plan" PROVE agreed' = 2 OBVIOUS
    <3>1. ~opts.yes /\ agreed' = agreed + 1 BY <1>8 DEF Skills!Confirm
    <3>2. agreed = 1 BY <3>1, Zenon
    <3>3. agreed' = 1 + 1 BY ONLY <3>1, <3>2
    <3> QED BY ONLY <3>3
  <2>2. skillPc = "confirm" => agreed' = 1 BY <1>8 DEF Skills!Confirm
  <2> QED BY <1>8, <2>1, <2>2 DEF Skills!Confirm, Skills!terminal, Skills!ValidName
<1>9. CASE Skills!Unasked \/ Skills!Declined
  BY <1>9 DEF Skills!Unasked, Skills!Declined, Skills!terminal, Skills!ValidName
<1>4. CASE Skills!Review \/ Skills!DryRun \/ Skills!Start \/ Skills!StartSkill
  BY <1>4 DEF Skills!Review, Skills!DryRun, Skills!Start, Skills!StartSkill, Skills!terminal
<1>5. CASE Skills!Skip \/ Skills!ReadText \/ Skills!WriteTemp \/ Skills!Rename \/ Skills!SetMode
  BY <1>5 DEF Skills!Skip, Skills!ReadText, Skills!WriteTemp, Skills!Rename, Skills!SetMode,
       Skills!NextFile, Skills!terminal
<1>6. CASE Skills!Fail BY <1>6 DEF Skills!Fail, Skills!terminal, Skills!Ended
<1>7. CASE UNCHANGED skillVars BY <1>7 DEF skillVars, Skills!ValidName
<1> QED BY <1>1, <1>2, <1>3, <1>4, <1>5, <1>6, <1>7, <1>8, <1>9 DEF Skills!Next

(* The plan: every file lies in the directory of a skill that was selected   *)
(* or named, and no two skills share one.                                    *)
TodoOK(p) ==
  /\ DOMAIN p.todo = 1..Len(p.todo) /\ Len(p.todo) \in Nat \ {0}
  /\ \A j \in 1..Len(p.todo) : IsPath(p.todo[j].path) /\ InDir(p.dir, p.todo[j].path)

DirOK(d) == IsList(d) /\ \E s \in Skills!Agreed : s # <<>> /\ IsList(s) /\ d = Append(Skills!Root, s)

PlanInv ==
  /\ Len(plan) \in Nat
  /\ \A i \in 1..Len(plan) :
       /\ TodoOK(plan[i]) /\ DirOK(plan[i].dir)
       /\ opts.remote \/ \A j \in 1..Len(plan[i].todo) : plan[i].todo[j].source \notin GoodUrls
  /\ \A i, k \in 1..Len(plan) : plan[i].dir = plan[k].dir => i = k

ChoiceInv ==
  /\ skillPc \in {"confirm plan", "install"} => plan # <<>>
  /\ chosen \subseteq Range(BuiltIns) /\ cursor \in 1..Len(BuiltIns)

LEMMA RootIsClean ==
  /\ IsList(Skills!Root) /\ Up \notin Range(Skills!Root)
<1>1. Skills!Root \in {SkillsDir, Elsewhere} BY DEF Skills!Root
<1>2. Skills!Root \in Seq(Range(Skills!Root) \ {Up}) BY <1>1, SkillsAssumption
<1> QED BY <1>2, ListOfSeq

LEMMA DirOf ==
  ASSUME NEW s, NEW d, d = Append(Skills!Root, s)
  PROVE  IsList(d) /\ Range(d) = Range(Skills!Root) \union {s} /\ Len(d) = Len(Skills!Root) + 1 /\ Last(d) = s
<1> DEFINE r == Skills!Root
           S == Range(r) \union {s}
<1>1. IsList(d) /\ Range(d) = S BY RootIsClean, RangeOfAppend
<1>2. r \in Seq(S) BY RootIsClean, SeqMonotonic DEF IsList
<1> HIDE DEF r
<1>3. d = Append(r, s) BY DEF r
<1>4. Len(d) = Len(r) + 1 /\ d[Len(r) + 1] = s BY <1>2, <1>3, AppendProperties
<1> QED BY <1>1, <1>4 DEF Last, r

(* What the embedded skills of a selection amount to.                        *)
PlanFor(p, skills) ==
  /\ Len(p) \in Nat
  /\ \A i \in 1..Len(p) :
       /\ TodoOK(p[i]) /\ IsList(p[i].dir)
       /\ \E s \in skills : s # <<>> /\ IsList(s) /\ p[i].dir = Append(Skills!Root, s)
       /\ \A j \in 1..Len(p[i].todo) : p[i].todo[j].source \notin GoodUrls
  /\ \A i, k \in 1..Len(p) : p[i].dir = p[k].dir => i = k

LEMMA BuiltInPlanOK ==
  ASSUME NEW skills, skills \subseteq Range(BuiltIns), NEW p, p = Skills!BuiltInPlan(skills)
  PROVE  PlanFor(p, skills) /\ (skills # {} => p # <<>>) /\ (skills = {} => p = <<>>)
<1> DEFINE names == Skills!Those(BuiltIns, skills)
           n == Len(names)
           Todo(s) == [i \in 1..Len(Assets[s]) |->
                         [source |-> <<s>> \o Assets[s][i], path |-> Skills!Root \o <<s>> \o Assets[s][i]]]
<1>1. IsList(BuiltIns) /\ Once(BuiltIns) BY SkillsAssumption DEF IsList, Once
<1>2. IsList(names) /\ Range(names) = Range(BuiltIns) \intersect skills /\ Once(names)
  BY <1>1, ThoseOf
<1>3. p = [i \in 1..n |-> [dir |-> Append(Skills!Root, names[i]), todo |-> Todo(names[i])]]
  BY DEF Skills!BuiltInPlan
<1>4. n \in Nat /\ DOMAIN names = 1..n BY <1>2, LenProperties DEF IsList
<1> HIDE DEF names, n
<1>5. Len(p) = n
  <2> HIDE DEF Todo
  <2>1. \A i \in 1..n : p[i] \in Range(p) BY <1>3 DEF Range
  <2>2. p \in [1..n -> Range(p)] BY <1>3, <2>1
  <2>3. p \in Seq(Range(p)) BY <1>4, <2>2, SeqDef
  <2>4. DOMAIN p = 1..n BY <1>3
  <2>5. DOMAIN p = 1..Len(p) /\ Len(p) \in Nat BY <2>3, LenProperties
  <2> QED BY <1>4, <2>4, <2>5
<1>6. ASSUME NEW i \in 1..n
      PROVE  /\ names[i] \in skills /\ names[i] \in Range(BuiltIns) /\ names[i] # <<>> /\ IsList(names[i])
             /\ p[i].dir = Append(Skills!Root, names[i]) /\ p[i].todo = Todo(names[i])
  <2>1. names[i] \in Range(names) BY <1>4 DEF Range
  <2>2. names[i] \in skills /\ names[i] \in Range(BuiltIns) BY <1>2, <2>1
  <2>3. names[i] # <<>> /\ IsList(names[i]) BY <2>2, SkillsAssumption DEF IsList
  <2>4. p[i] = [dir |-> Append(Skills!Root, names[i]), todo |-> Todo(names[i])] BY <1>3
  <2> HIDE DEF Todo
  <2> QED BY <2>2, <2>3, <2>4
<1> HIDE DEF Todo
<1>7. ASSUME NEW i \in 1..n, NEW k \in 1..n, p[i].dir = p[k].dir PROVE i = k
  <2>1. names[i] = names[k] BY <1>6, <1>7, DirOf
  <2> QED BY <1>2, <2>1 DEF Once, n
<1>8. ASSUME NEW i \in 1..n
      PROVE  /\ TodoOK(p[i]) /\ IsList(p[i].dir)
             /\ \A j \in 1..Len(p[i].todo) : p[i].todo[j].source \notin GoodUrls
  <2> DEFINE s == names[i]
             as == Assets[s]
             m == Len(as)
             r == Skills!Root
             d == Append(r, s)
             t == p[i].todo
  <2>1. s \in Range(BuiltIns) /\ p[i].dir = d /\ t = Todo(s) BY <1>6
  <2>2. /\ as \in Seq(Range(as)) /\ as # <<>>
        /\ \A a \in Range(as) : /\ a # <<>> /\ IsList(a) /\ (\A seg \in Range(a) : IsList(seg))
                                /\ <<s>> \o a \notin GoodUrls
    <3>1. IsList(as) /\ as # <<>> BY <2>1, SkillsAssumption DEF IsList
    <3>2. ASSUME NEW a \in Range(as) PROVE a # <<>> /\ <<s>> \o a \notin GoodUrls
      BY <2>1, SkillsAssumption
    <3>3. ASSUME NEW a \in Range(as) PROVE IsList(a) /\ \A seg \in Range(a) : IsList(seg)
      BY <2>1, SkillsAssumption DEF IsList, HasTexts
    <3> HIDE DEF as
    <3> QED BY <3>1, <3>2, <3>3 DEF IsList
  <2>3. m \in Nat \ {0} /\ DOMAIN as = 1..m /\ \A j \in 1..m : as[j] \in Range(as)
    <3> HIDE DEF as
    <3> QED BY <2>2, LenProperties, EmptySeq
  <2>4. /\ t = [j \in 1..m |-> [source |-> <<s>> \o as[j], path |-> r \o <<s>> \o as[j]]]
    BY <2>1 DEF Todo
  <2>5. IsList(r) /\ IsList(d) BY RootIsClean, DirOf
  <2> HIDE DEF s, as, m, r, t
  <2>6. DOMAIN t = 1..m /\ Len(t) = m /\ \A j \in 1..m : t[j] = [source |-> <<s>> \o as[j], path |-> r \o <<s>> \o as[j]]
    <3>1. \A j \in 1..m : t[j] \in Range(t) BY <2>4 DEF Range
    <3>2. t \in [1..m -> Range(t)] BY <2>4, <3>1
    <3>3. t \in Seq(Range(t)) BY <2>3, <3>2, SeqDef
    <3>4. DOMAIN t = 1..Len(t) /\ Len(t) \in Nat BY <3>3, LenProperties
    <3> QED BY <2>3, <2>4, <3>4
  <2>7. ASSUME NEW j \in 1..m PROVE IsPath(t[j].path) /\ InDir(d, t[j].path) /\ t[j].source \notin GoodUrls
    <3> DEFINE a == as[j]
               f == d \o a
               S == Range(r) \union {s} \union Range(a)
    <3>1. a # <<>> /\ IsList(a) /\ (\A seg \in Range(a) : IsList(seg)) /\ <<s>> \o a \notin GoodUrls
      BY <2>2, <2>3
    <3>2. t[j].path = r \o <<s>> \o a /\ t[j].source = <<s>> \o a
      <4>1. t[j] = [source |-> <<s>> \o a, path |-> r \o <<s>> \o a] BY <2>6
      <4> HIDE DEF a
      <4> QED BY <4>1
    <3> HIDE DEF a
    <3>3. r \in Seq(S) /\ a \in Seq(S) /\ s \in S /\ d \in Seq(S)
      <4>1. r \in Seq(S) /\ a \in Seq(S) /\ s \in S BY <2>5, <3>1, SeqMonotonic DEF IsList
      <4> HIDE DEF S
      <4> QED BY <4>1, AppendProperties
    <3> HIDE DEF S
    <3>4. d = r \o <<s>> BY <3>3, AppendIsConcat
    <3>5. t[j].path = f BY <3>2, <3>4
    <3> HIDE DEF d
    <3>6. IsPrefix(d, f) /\ d # f /\ IsList(f) BY <2>5, <3>1, ListOfConcat
    <3>7. Last(f) = Last(a) /\ Last(a) \in Range(a) /\ f # <<>>
      <4>1. Concats(S, d, a, f) BY <3>3, ConcatIs
      <4>2. Len(a) \in Nat \ {0} /\ Len(d) \in Nat /\ DOMAIN a = 1..Len(a)
        BY <3>1, <3>3, EmptySeq, LenProperties
      <4> HIDE DEF f
      <4>3. Len(f) = Len(d) + Len(a) /\ f[Len(d) + Len(a)] = a[Len(a)]
        BY <4>1, <4>2 DEF Concats
      <4>4. f # <<>> BY <4>2, <4>3, EmptySeq
      <4> QED BY <4>2, <4>3, <4>4 DEF Last, Range
    <3> QED BY <3>1, <3>2, <3>5, <3>6, <3>7 DEF IsPath, InDir
  <2>8. TodoOK(p[i]) BY <2>1, <2>3, <2>6, <2>7 DEF TodoOK, t
  <2> QED BY <2>1, <2>5, <2>6, <2>7, <2>8 DEF t
<1>9. skills # {} => p # <<>>
  <2>1. ASSUME skills # {} PROVE n # 0 BY <1>2, <1>4, <2>1 DEF Range
  <2> QED BY <1>5, <2>1, EmptySeq
<1>10. skills = {} => p = <<>>
  <2>1. ASSUME skills = {} PROVE n = 0
    <3>1. n # 0 => names[1] \in Range(names) BY <1>4 DEF Range
    <3> QED BY <1>2, <2>1, <3>1
  <2>2. n = 0 => p = [i \in {} |-> p[i]]
    <3>1. n = 0 => DOMAIN p = {} BY <1>3
    <3> QED BY <1>3, <3>1
  <2> QED BY <2>1, <2>2
<1> QED BY <1>4, <1>5, <1>6, <1>7, <1>8, <1>9, <1>10 DEF PlanFor
------------------------------------------------------------------------------
LEMMA MemberOfUnion ==
  ASSUME NEW r \in Reviews, NEW e \in Range(r)
  PROVE  IsList(e.path.segs) /\ \A seg \in Range(e.path.segs) : IsList(seg)
BY SkillsAssumption DEF IsList, HasTexts

LEMMA OneElement ==
  ASSUME NEW x
  PROVE  Len(<<x>>) = 1 /\ <<x>>[1] = x /\ IsList(<<x>>) /\ Range(<<x>>) = {x} /\ <<x>> # <<>>
<1> DEFINE e == <<x>>
<1>1. e \in Seq({x}) /\ Len(e) = 1 /\ e[1] = x OBVIOUS
<1>2. DOMAIN e = 1..1 OBVIOUS
<1> HIDE DEF e
<1>3. IsList(e) BY <1>1, ListOfSeq
<1>4. Range(e) = {x} BY <1>1, <1>2 DEF Range
<1>5. e # <<>> BY <1>1, EmptySeq
<1> QED BY <1>1, <1>3, <1>4, <1>5 DEF e

LEMMA ReviewPlanOK ==
  ASSUME NEW d, name \in Names, Skills!ValidName(name), d = Append(Skills!Root, name),
         NEW r \in Reviews, NEW k \in Nat, NEW entries, entries = SubSeq(r, 1, k), k <= Len(r),
         \A e \in Range(entries) : Skills!Named(e) => Skills!Acceptable(d, e),
         NEW url, NEW todo,
         todo = <<[source |-> url, path |-> Append(d, SkillFile)]>> \o Skills!RemoteFiles(d, entries)
  PROVE  TodoOK([dir |-> d, todo |-> todo]) /\ IsList(d)
<1> DEFINE main == [source |-> url, path |-> Append(d, SkillFile)]
           R == Skills!RemoteFiles(d, entries)
           P == {main} \union NamedFiles(d, entries)
<1>1. IsList(d) /\ Up \notin Range(d)
  <2>1. name # Up BY DEF Skills!ValidName
  <2>2. IsList(d) /\ Range(d) = Range(Skills!Root) \union {name} BY DirOf
  <2> QED BY <2>1, <2>2, RootIsClean
<1>2. IsList(entries) /\ Range(entries) \subseteq Range(r)
  <2>1. r \in Seq(Range(r)) BY SkillsAssumption
  <2> DEFINE S == Range(r)
  <2> HIDE DEF S
  <2>a. r \in Seq(S) BY <2>1 DEF S
  <2>2. 1 \in Int /\ k \in Int /\ \A i \in 1..k : r[i] \in S BY <2>a, LenProperties
  <2>3. entries \in Seq(S) BY <2>2, SubSeqProperties
  <2> QED BY <2>3, ListOfSeq DEF S
<1>3. IsPath(main.path) /\ InDir(d, main.path)
  <2> DEFINE f == Append(d, SkillFile)
             e == <<SkillFile>>
             S == Range(d) \union {SkillFile}
  <2>1. f = d \o e /\ f # <<>> /\ Last(f) = SkillFile
    <3>1. d \in Seq(S) /\ SkillFile \in S BY <1>1, SeqMonotonic DEF IsList
    <3> HIDE DEF S
    <3>2. f # <<>> /\ Len(f) = Len(d) + 1 /\ f[Len(d) + 1] = SkillFile BY <3>1, AppendProperties
    <3> QED BY <3>1, <3>2, AppendIsConcat DEF Last
  <2>2. IsList(e) /\ e # <<>> BY OneElement
  <2> HIDE DEF f, e
  <2>3. IsList(f) /\ IsPrefix(d, f) /\ d # f BY <1>1, <2>1, <2>2, ListOfConcat
  <2>4. IsList(SkillFile) BY SkillsAssumption DEF IsList
  <2> QED BY <2>1, <2>3, <2>4 DEF IsPath, InDir, f
<1>4. ASSUME NEW f \in NamedFiles(d, entries) PROVE IsPath(f.path) /\ InDir(d, f.path)
  <2>1. PICK e \in Range(entries) : Skills!Named(e) /\ f = FileOf(d, e) BY <1>4 DEF NamedFiles
  <2>2. IsList(e.path.segs) /\ (\A seg \in Range(e.path.segs) : IsList(seg)) BY <1>2, MemberOfUnion
  <2>3. Skills!SafeJoin(d, e.path).ok BY <2>1 DEF Skills!Acceptable
  <2>4. f.path = Skills!SafeJoin(d, e.path).file BY <2>1 DEF FileOf
  <2> QED BY <1>1, <2>2, <2>3, <2>4, JoinedIsInside
<1>5. R \in Seq(P) BY <1>2, RemoteFilesNamed, SeqMonotonic
<1>6. <<main>> \in Seq(P) /\ Len(<<main>>) = 1
  <2>1. main \in P OBVIOUS
  <2> HIDE DEF main, P
  <2> QED BY <2>1
<1>7. \A f \in P : IsPath(f.path) /\ InDir(d, f.path)
  <2> HIDE DEF main
  <2> QED BY <1>3, <1>4
<1> HIDE DEF P, R
<1>8. Concats(P, <<main>>, R, todo)
  <2>1. todo = <<main>> \o R BY DEF R
  <2> HIDE DEF main
  <2> QED BY <1>5, <1>6, <2>1, ConcatIs
<1> HIDE DEF main
<1>9. todo \in Seq(P) /\ Len(todo) = 1 + Len(R) /\ Len(R) \in Nat
  BY <1>5, <1>6, <1>8, LenProperties DEF Concats
<1>10. DOMAIN todo = 1..Len(todo) /\ Len(todo) \in Nat \ {0} /\ \A j \in 1..Len(todo) : todo[j] \in P
  <2>1. PICK l \in Nat : l = Len(R) BY <1>9
  <2>2. Len(todo) = 1 + l BY <1>9, <2>1
  <2>3. Len(todo) \in Nat \ {0} BY <2>1, <2>2
  <2> QED BY <1>9, <2>3, LenProperties
<1>11. \A j \in 1..Len(todo) : IsPath(todo[j].path) /\ InDir(d, todo[j].path) BY <1>7, <1>10
<1> QED BY <1>1, <1>10, <1>11 DEF TodoOK

LEMMA BuiltInsListed ==
  1 \in 1..Len(BuiltIns) /\ \A i \in 1..Len(BuiltIns) : BuiltIns[i] \in Range(BuiltIns)
<1>1. BuiltIns \in Seq(Range(BuiltIns)) /\ BuiltIns # <<>> BY SkillsAssumption
<1>2. PICK n \in Nat \ {0} : n = Len(BuiltIns) BY <1>1, EmptySeq
<1>3. DOMAIN BuiltIns = 1..n BY <1>1, <1>2, LenProperties
<1> QED BY <1>2, <1>3 DEF Range

LEMMA ChoiceGoesOn ==
  ASSUME PhaseInv, ChoiceInv, [Skills!Next]_skillVars
  PROVE  ChoiceInv'
<1> USE DEF ChoiceInv
<1>0. 1 \in 1..Len(BuiltIns) /\ \A i \in 1..Len(BuiltIns) : BuiltIns[i] \in Range(BuiltIns) BY BuiltInsListed
<1>1. CASE Skills!Begin BY <1>0, <1>1 DEF Skills!Begin
<1>2. CASE Skills!SelectAll
  <2>1. chosen' = Range(BuiltIns) /\ UNCHANGED cursor /\ Skills!Take(chosen')
    BY <1>2 DEF Skills!SelectAll, Skills!Range, Range
  <2>2. chosen' # {} => plan' # <<>> BY <2>1, BuiltInPlanOK DEF Skills!Take
  <2> QED BY <2>1, <2>2 DEF Skills!Take
<1>3. CASE Skills!ConfirmKeys
  <2>1. UNCHANGED <<chosen, cursor>> /\ Skills!Take(chosen) BY <1>3 DEF Skills!ConfirmKeys, Skills!terminal
  <2>2. chosen # {} => plan' # <<>> BY <2>1, BuiltInPlanOK DEF Skills!Take
  <2> QED BY <2>1, <2>2 DEF Skills!Take
<1>4. CASE Skills!OpenTerminal \/ Skills!Key \/ Skills!CancelKeys
  BY <1>0, <1>4 DEF Skills!OpenTerminal, Skills!Key, Skills!CancelKeys, Skills!Toggled, Skills!Range, Range
<1>5. CASE Skills!Download \/ Skills!Confirm \/ Skills!Unasked \/ Skills!Declined
  BY <1>5 DEF Skills!Download, Skills!Confirm, Skills!Unasked, Skills!Declined, Skills!terminal
<1>6. CASE Skills!Review
  <2>1. UNCHANGED <<chosen, cursor>> /\ skillPc' \in {"confirm plan", "failed"}
        /\ (skillPc' = "confirm plan" => \E x : plan' = <<x>>)
    BY <1>6 DEF Skills!Review, Skills!terminal
  <2> QED BY <2>1, OneElement
<1>7. CASE Skills!DryRun \/ Skills!Start \/ Skills!StartSkill
  BY <1>7 DEF Skills!DryRun, Skills!Start, Skills!StartSkill, Skills!terminal
<1>8. CASE Skills!Skip \/ Skills!ReadText \/ Skills!WriteTemp \/ Skills!Rename \/ Skills!SetMode
  BY <1>8 DEF Skills!Skip, Skills!ReadText, Skills!WriteTemp, Skills!Rename, Skills!SetMode,
       Skills!NextFile, Skills!terminal
<1>9. CASE Skills!Fail BY <1>9 DEF Skills!Fail, Skills!terminal, Skills!Ended
<1>10. CASE UNCHANGED skillVars BY <1>10 DEF skillVars
<1> QED BY <1>1, <1>2, <1>3, <1>4, <1>5, <1>6, <1>7, <1>8, <1>9, <1>10 DEF Skills!Next

LEMMA PlanGoesOn ==
  ASSUME PhaseInv, ChoiceInv, PlanInv, [Skills!Next]_skillVars
  PROVE  PlanInv'
<1>1. CASE plan' = <<>>
  <2>1. Len(plan') = 0 BY <1>1, EmptySeq
  <2> QED BY <2>1 DEF PlanInv
<1>2. ASSUME NEW skills, skills \subseteq Range(BuiltIns), UNCHANGED opts, ~opts.remote,
             chosen' = skills, plan' = Skills!BuiltInPlan(skills)
      PROVE  PlanInv'
  <2>1. Skills!Agreed' = skills /\ Skills!Root' = Skills!Root BY <1>2 DEF Skills!Agreed, Skills!Root
  <2>2. PICK p : p = plan' OBVIOUS
  <2>3. PlanFor(p, skills) BY <1>2, <2>2, BuiltInPlanOK
  <2> QED BY <1>2, <2>1, <2>2, <2>3 DEF PlanInv, DirOK, PlanFor, TodoOK
<1>3. CASE UNCHANGED <<opts, plan>> /\ (UNCHANGED <<chosen, name>> \/ plan = <<>>)
  <2>1. CASE plan = <<>> BY <1>1, <1>3, <2>1
  <2>2. CASE UNCHANGED <<opts, plan, chosen, name>>
    <3>1. Skills!Agreed' = Skills!Agreed /\ Skills!Root' = Skills!Root BY <2>2 DEF Skills!Agreed, Skills!Root
    <3> QED BY <2>2, <3>1 DEF PlanInv, DirOK, TodoOK
  <2> QED BY <1>3, <2>1, <2>2
<1>4. CASE Skills!Begin BY <1>1, <1>4 DEF Skills!Begin
<1>5. CASE Skills!SelectAll
  BY <1>2, <1>5 DEF Skills!SelectAll, Skills!Take, PhaseInv, Skills!Range, Range
<1>6. CASE Skills!ConfirmKeys
  BY <1>2, <1>6 DEF Skills!ConfirmKeys, Skills!Take, Skills!terminal, PhaseInv, ChoiceInv
<1>7. CASE Skills!Review /\ plan' # plan
  <2> DEFINE d == Append(Skills!Root, name)
  <2>1. PICK r \in Reviews :
          LET entries == SubSeq(r, 1, IF Len(r) > MaxReviewed THEN MaxReviewed ELSE Len(r))
          IN /\ \A e \in Range(entries) : Skills!Named(e) => Skills!Acceptable(d, e)
             /\ plan' = <<[dir |-> d, todo |-> <<[source |-> opts.url, path |-> Append(d, SkillFile)]>>
                                                 \o Skills!RemoteFiles(d, entries)]>>
    BY <1>7 DEF Skills!Review, Skills!Range, Range
  <2>2. skillPc = "review" /\ UNCHANGED <<opts, name>> /\ opts.remote /\ name \in Names /\ Skills!ValidName(name)
    BY <1>7 DEF Skills!Review, PhaseInv
  <2>3. PICK k \in Nat : k = (IF Len(r) > MaxReviewed THEN MaxReviewed ELSE Len(r)) /\ k <= Len(r)
    <3>1. Len(r) \in Nat /\ MaxReviewed \in Nat BY SkillsAssumption, LenProperties
    <3> QED BY <3>1
  <2>4. PICK entries : entries = SubSeq(r, 1, k) OBVIOUS
  <2>5. PICK todo : todo = <<[source |-> opts.url, path |-> Append(d, SkillFile)]>>
                             \o Skills!RemoteFiles(d, entries) OBVIOUS
  <2>6. PICK x : x = [dir |-> d, todo |-> todo] OBVIOUS
  <2>7. plan' = <<x>> /\ \A e \in Range(entries) : Skills!Named(e) => Skills!Acceptable(d, e)
    BY <2>1, <2>3, <2>4, <2>5, <2>6
  <2>8. TodoOK(x) /\ IsList(d) /\ x.dir = d
    <3> HIDE DEF d
    <3>1. d = Append(Skills!Root, name) BY DEF d
    <3>2. TodoOK([dir |-> d, todo |-> todo]) /\ IsList(d)
      BY <2>2, <2>3, <2>4, <2>5, <2>7, <3>1, ReviewPlanOK
    <3> QED BY <2>6, <3>2
  <2>9. Skills!Agreed' = {name} /\ Skills!Root' = Skills!Root BY <2>2 DEF Skills!Agreed, Skills!Root
  <2>10. name # <<>> /\ IsList(name) BY <2>2, SkillsAssumption DEF Skills!ValidName, IsList
  <2>11. \E s \in Skills!Agreed' : s # <<>> /\ IsList(s) /\ d = Append(Skills!Root', s) BY <2>9, <2>10
  <2>12. Len(plan') = 1 /\ plan'[1] = x BY <2>7, OneElement
  <2>13. \A i \in 1..Len(plan') : i = 1 /\ plan'[i] = x BY <2>12
  <2> HIDE DEF d
  <2>14. \A i \in 1..Len(plan') : TodoOK(plan'[i]) /\ IsList(plan'[i].dir) /\ plan'[i].dir = d
    BY <2>8, <2>13
  <2>15. \A i \in 1..Len(plan') : \E s \in Skills!Agreed' :
           s # <<>> /\ IsList(s) /\ plan'[i].dir = Append(Skills!Root', s)
    BY <2>11, <2>14
  <2>16. \A i, j \in 1..Len(plan') : i = j BY <2>13
  <2>17. Len(plan') \in Nat /\ opts'.remote BY <2>2, <2>12
  <2> QED BY <2>14, <2>15, <2>16, <2>17 DEF PlanInv, DirOK, TodoOK
<1>8. CASE Skills!Review /\ plan' = plan BY <1>3, <1>8 DEF Skills!Review, Skills!terminal
<1>9. CASE \/ Skills!OpenTerminal \/ Skills!Key \/ Skills!CancelKeys \/ Skills!Download
  <2>1. plan = <<>> BY <1>9 DEF PhaseInv, Asking, Skills!OpenTerminal, Skills!Key, Skills!CancelKeys, Skills!Download
  <2> QED BY <1>3, <1>9, <2>1 DEF Skills!OpenTerminal, Skills!Key, Skills!CancelKeys, Skills!Download
<1>10. CASE Skills!Confirm \/ Skills!Unasked \/ Skills!Declined
  BY <1>3, <1>10 DEF Skills!Confirm, Skills!Unasked, Skills!Declined, Skills!terminal
<1>11. CASE Skills!DryRun \/ Skills!Start \/ Skills!StartSkill
  BY <1>3, <1>11 DEF Skills!DryRun, Skills!Start, Skills!StartSkill, Skills!terminal
<1>12. CASE Skills!Skip \/ Skills!ReadText \/ Skills!WriteTemp \/ Skills!Rename \/ Skills!SetMode
  BY <1>3, <1>12 DEF Skills!Skip, Skills!ReadText, Skills!WriteTemp, Skills!Rename, Skills!SetMode,
       Skills!NextFile, Skills!terminal
<1>13. CASE Skills!Fail BY <1>3, <1>13 DEF Skills!Fail, Skills!terminal
<1>14. CASE UNCHANGED skillVars BY <1>3, <1>14 DEF skillVars
<1> QED BY <1>4, <1>5, <1>6, <1>7, <1>8, <1>9, <1>10, <1>11, <1>12, <1>13, <1>14 DEF Skills!Next
------------------------------------------------------------------------------
WhereInv ==
  /\ skillPc \in Writing => at[1] \in 1..Len(plan) /\ (skillPc = "skill" => at[2] = 0)
  /\ skillPc \in AtFile => at[2] \in 1..Len(plan[at[1]].todo)

LEMMA FirstOfMany == \A n \in Nat \ {0} : 1 \in 1..n
OBVIOUS

LEMMA WhereGoesOn ==
  ASSUME PhaseInv, ChoiceInv, PlanInv, WhereInv, [Skills!Next]_skillVars
  PROVE  WhereInv'
<1> USE DEF Writing, AtFile
<1>0. \A i \in 1..Len(plan) : 1 \in 1..Len(plan[i].todo)
  BY FirstOfMany DEF PlanInv, TodoOK
<1>1. CASE Skills!Start
  <2>1. skillPc = "install" /\ at' = <<1, 0>> /\ skillPc' = "skill" /\ UNCHANGED plan
    BY <1>1 DEF Skills!Start
  <2>2. plan # <<>> BY <2>1 DEF ChoiceInv
  <2>3. 1 \in 1..Len(plan)
    <3>1. Len(plan) \in Nat BY DEF PlanInv
    <3>2. Len(plan) # 0 BY <2>2
    <3> QED BY <3>1, <3>2, FirstOfMany
  <2> QED BY <2>1, <2>3 DEF WhereInv
<1>2. CASE Skills!StartSkill
  <2>1. skillPc = "skill" /\ at' = <<at[1], 1>> /\ skillPc' = "file" /\ UNCHANGED plan
    BY <1>2 DEF Skills!StartSkill
  <2> QED BY <1>0, <2>1 DEF WhereInv
<1>3. CASE Skills!NextFile /\ UNCHANGED plan /\ skillPc \in AtFile
  <2>1. PICK n : n = Len(Skills!Skill.todo) OBVIOUS
  <2>2. PICK m \in Nat : m = Len(plan) BY DEF PlanInv
  <2>3. at[1] \in 1..m /\ at[2] \in 1..n /\ n \in Nat
    BY <1>3, <2>1, <2>2 DEF WhereInv, PlanInv, TodoOK, Skills!Skill
  <2>4. CASE at[2] # n
    <3>1. at' = <<at[1], at[2] + 1>> /\ skillPc' = "file" BY <1>3, <2>1, <2>4 DEF Skills!NextFile
    <3>2. at[2] + 1 \in 1..n BY <2>3, <2>4
    <3> QED BY <1>3, <2>1, <2>2, <2>3, <3>1, <3>2 DEF WhereInv, Skills!Skill
  <2>5. CASE at[2] = n /\ at[1] < m
    <3>1. at' = <<at[1] + 1, 0>> /\ skillPc' = "skill"
      BY <1>3, <2>1, <2>2, <2>5 DEF Skills!NextFile
    <3>2. at[1] + 1 \in 1..m BY <2>3, <2>5
    <3> QED BY <1>3, <2>2, <3>1, <3>2 DEF WhereInv
  <2>6. CASE at[2] = n /\ ~(at[1] < m)
    <3>1. skillPc' = "done" BY <1>3, <2>1, <2>2, <2>6 DEF Skills!NextFile
    <3> QED BY <3>1 DEF WhereInv
  <2> QED BY <2>4, <2>5, <2>6
<1>4. CASE Skills!Skip \/ Skills!SetMode BY <1>3, <1>4 DEF Skills!Skip, Skills!SetMode
<1>5. CASE Skills!ReadText \/ Skills!WriteTemp \/ Skills!Rename
  BY <1>5 DEF Skills!ReadText, Skills!WriteTemp, Skills!Rename, WhereInv
<1>6. CASE skillPc' \notin Writing BY <1>6 DEF WhereInv
<1>7. CASE Skills!Begin BY <1>6, <1>7 DEF Skills!Begin
<1>8. CASE Skills!SelectAll \/ Skills!OpenTerminal \/ Skills!Key \/ Skills!ConfirmKeys \/ Skills!CancelKeys
  BY <1>6, <1>8 DEF Skills!SelectAll, Skills!OpenTerminal, Skills!Key, Skills!ConfirmKeys,
       Skills!CancelKeys, Skills!Take
<1>9. CASE Skills!Download \/ Skills!Confirm \/ Skills!Unasked \/ Skills!Declined
  BY <1>6, <1>9 DEF Skills!Download, Skills!Confirm, Skills!Unasked, Skills!Declined
<1>10. CASE Skills!Review \/ Skills!DryRun \/ Skills!Fail
  BY <1>6, <1>10 DEF Skills!Review, Skills!DryRun, Skills!Fail, WhereInv
<1>11. CASE UNCHANGED skillVars BY <1>11 DEF skillVars, WhereInv
<1> QED BY <1>1, <1>2, <1>4, <1>5, <1>7, <1>8, <1>9, <1>10, <1>11 DEF Skills!Next

LEMMA FileNow ==
  ASSUME PlanInv, WhereInv, skillPc \in Writing
  PROVE  /\ at[1] \in 1..Len(plan) /\ TodoOK(Skills!Skill) /\ DirOK(Skills!Skill.dir)
         /\ skillPc \in AtFile => /\ at[2] \in 1..Len(Skills!Skill.todo)
                                  /\ IsPath(Skills!File.path) /\ InDir(Skills!Skill.dir, Skills!File.path)
<1>1. at[1] \in 1..Len(plan) /\ (skillPc \in AtFile => at[2] \in 1..Len(plan[at[1]].todo)) BY DEF WhereInv
<1>2. TodoOK(plan[at[1]]) /\ DirOK(plan[at[1]].dir) BY <1>1 DEF PlanInv
<1> QED BY <1>1, <1>2 DEF TodoOK, Skills!Skill, Skills!File
------------------------------------------------------------------------------
(* What a step does to the files.                                            *)
OnlyAt(gs, fs, X) ==
  \A f : f \notin X => (f \in DOMAIN gs <=> f \in DOMAIN fs) /\ (f \in DOMAIN fs => gs[f] = fs[f])

LEMMA WithIs ==
  ASSUME NEW fs, NEW f, NEW text, NEW exec, NEW gs, gs = Skills!With(fs, f, text, exec)
  PROVE  /\ OnlyAt(gs, fs, {f}) /\ f \in DOMAIN gs
         /\ gs[f] = [text |-> text, exec |-> exec]
BY DEF Skills!With, OnlyAt

LEMMA WithoutIs ==
  ASSUME NEW fs, NEW X, NEW gs, gs = Skills!Without(fs, X)
  PROVE  OnlyAt(gs, fs, X) /\ DOMAIN gs = DOMAIN fs \ X
BY DEF Skills!Without, OnlyAt

RemovesAll ==
  /\ skillPc = "skill" /\ skillPc' = "file" /\ opts.clean
  /\ \E X : /\ X \subseteq {f \in DOMAIN files : InDir(Skills!Skill.dir, f)}
            /\ files' = Skills!Without(files, X)
WritesTemp ==
  /\ skillPc = "temp"
  /\ \/ skillPc' = "rename" /\ files' = Skills!With(files, Skills!Temp(Skills!File.path), data, FALSE)
     \/ /\ skillPc' = "failed"
        /\ files' = Skills!With(files, Skills!Temp(Skills!File.path),
                                [of |-> Skills!File.source, whole |-> FALSE], FALSE)
Renames ==
  /\ skillPc = "rename" /\ skillPc' = "mode"
  /\ files' = Skills!With(Skills!Without(files, {Skills!Temp(Skills!File.path)}),
                          Skills!File.path, data, FALSE)
RemovesTemp ==
  /\ skillPc = "rename" /\ skillPc' = "failed"
  /\ files' = Skills!Without(files, {Skills!Temp(Skills!File.path)})
SetsMode ==
  /\ skillPc = "mode"
  /\ files' = Skills!With(files, Skills!File.path, files[Skills!File.path].text,
                          ~opts.remote /\ Skills!IsScript(Skills!File.source))
FileVars == <<opts, name, chosen, agreed, before, plan>>

LEMMA FileStep ==
  ASSUME [Skills!Next]_skillVars
  PROVE  \/ UNCHANGED files
         \/ /\ UNCHANGED FileVars
            /\ RemovesAll \/ WritesTemp \/ Renames \/ RemovesTemp \/ SetsMode
<1> USE DEF FileVars
<1>1. CASE Skills!StartSkill /\ opts.clean
  <2>1. PICK stuck : files' = Skills!Without(files, {f \in DOMAIN files : Skills!Inside(Skills!Skill.dir, f)} \ stuck)
    BY <1>1 DEF Skills!StartSkill
  <2>2. \A f : Skills!Inside(Skills!Skill.dir, f) <=> InDir(Skills!Skill.dir, f)
    BY DEF Skills!Inside, InDir, Skills!IsStrictPrefix, Skills!IsPrefix, IsPrefix
  <2>3. PICK X : X = {f \in DOMAIN files : Skills!Inside(Skills!Skill.dir, f)} \ stuck OBVIOUS
  <2>4. X \subseteq {f \in DOMAIN files : InDir(Skills!Skill.dir, f)} BY <2>2, <2>3
  <2> QED BY <1>1, <2>1, <2>3, <2>4 DEF RemovesAll, Skills!StartSkill, Skills!terminal
<1>2. CASE Skills!StartSkill /\ ~opts.clean BY <1>2 DEF Skills!StartSkill
<1>3. CASE Skills!WriteTemp BY <1>3 DEF Skills!WriteTemp, WritesTemp, Skills!terminal
<1>4. CASE Skills!Rename BY <1>4 DEF Skills!Rename, Renames, Skills!terminal
<1>5. CASE Skills!SetMode BY <1>5 DEF Skills!SetMode, SetsMode, Skills!terminal
<1>6. CASE Skills!Fail BY <1>6 DEF Skills!Fail, WritesTemp, RemovesTemp, Skills!terminal
<1>7. CASE \/ Skills!Begin \/ Skills!SelectAll \/ Skills!OpenTerminal \/ Skills!Key
           \/ Skills!ConfirmKeys \/ Skills!CancelKeys \/ Skills!Download \/ Skills!Confirm
           \/ Skills!Unasked \/ Skills!Declined \/ Skills!Review \/ Skills!DryRun \/ Skills!Start
           \/ Skills!Skip \/ Skills!ReadText
  BY <1>7 DEF Skills!Begin, Skills!SelectAll, Skills!OpenTerminal, Skills!Key, Skills!ConfirmKeys,
       Skills!CancelKeys, Skills!Download, Skills!Confirm, Skills!Unasked, Skills!Declined,
       Skills!Review, Skills!DryRun, Skills!Start, Skills!Skip, Skills!ReadText
<1>8. CASE UNCHANGED skillVars BY <1>8 DEF skillVars
<1> QED BY <1>1, <1>2, <1>3, <1>4, <1>5, <1>6, <1>7, <1>8 DEF Skills!Next

(* The paths a step writes or removes: below the directory of a skill of the *)
(* plan, and gone only if temporary or with --clean.                         *)
Touches(X) ==
  /\ OnlyAt(files', files, X)
  /\ \A f \in X : InDir(Skills!Skill.dir, f) /\ (f \in DOMAIN files' \/ opts.clean \/ Temporary(f))

LEMMA StepTouches ==
  ASSUME PlanInv, WhereInv, [Skills!Next]_skillVars, files' # files
  PROVE  skillPc \in Writing /\ UNCHANGED FileVars /\ \E X : Touches(X)
<1> USE DEF Writing, AtFile
<1> DEFINE d == Skills!Skill.dir
           p == Skills!File.path
           q == Skills!Temp(p)
<1>1. UNCHANGED FileVars /\ (RemovesAll \/ WritesTemp \/ Renames \/ RemovesTemp \/ SetsMode)
  BY FileStep
<1>2. ASSUME skillPc \in AtFile
      PROVE  IsPath(p) /\ InDir(d, p) /\ InDir(d, q) /\ Temporary(q)
  <2>1. IsPath(p) /\ InDir(d, p) /\ IsList(d) BY <1>2, FileNow DEF DirOK
  <2> QED BY <2>1, TempOf, TempInDir
<1> HIDE DEF d, p, q
<1>3. CASE RemovesAll
  <2>1. PICK X : X \subseteq {f \in DOMAIN files : InDir(d, f)} /\ files' = Skills!Without(files, X)
    BY <1>3 DEF RemovesAll, d
  <2>2. OnlyAt(files', files, X) BY <2>1, WithoutIs
  <2>3. Touches(X) BY <1>3, <2>1, <2>2 DEF Touches, RemovesAll, d
  <2> QED BY <1>1, <1>3, <2>3 DEF RemovesAll
<1>4. CASE WritesTemp
  <2>1. PICK t : files' = Skills!With(files, q, t, FALSE) BY <1>4 DEF WritesTemp, q, p
  <2>2. OnlyAt(files', files, {q}) /\ q \in DOMAIN files'
    <3>1. OnlyAt(files', files, {q}) BY <2>1, WithIs
    <3>2. q \in DOMAIN files' BY <2>1 DEF Skills!With
    <3> QED BY <3>1, <3>2
  <2>3. skillPc \in AtFile BY <1>4 DEF WritesTemp
  <2>4. Touches({q}) BY <1>2, <2>2, <2>3 DEF Touches, d
  <2> QED BY <1>1, <2>3, <2>4
<1>5. CASE Renames
  <2>1. PICK gs : gs = Skills!Without(files, {q}) OBVIOUS
  <2>2. files' = Skills!With(gs, p, data, FALSE) BY <1>5, <2>1 DEF Renames, q, p
  <2>3. OnlyAt(gs, files, {q}) BY <2>1, WithoutIs
  <2>4. OnlyAt(files', gs, {p}) /\ p \in DOMAIN files'
    <3>1. OnlyAt(files', gs, {p}) BY <2>2, WithIs
    <3>2. p \in DOMAIN files' BY <2>2 DEF Skills!With
    <3> QED BY <3>1, <3>2
  <2>5. OnlyAt(files', files, {p, q}) BY <2>3, <2>4 DEF OnlyAt
  <2>6. skillPc \in AtFile BY <1>5 DEF Renames
  <2>7. Touches({p, q}) BY <1>2, <2>4, <2>5, <2>6 DEF Touches, d
  <2> QED BY <1>1, <2>6, <2>7
<1>6. CASE RemovesTemp
  <2>1. OnlyAt(files', files, {q}) BY <1>6, WithoutIs DEF RemovesTemp, p, q
  <2>2. skillPc \in AtFile BY <1>6 DEF RemovesTemp
  <2>3. Touches({q}) BY <1>2, <2>1, <2>2 DEF Touches, d
  <2> QED BY <1>1, <2>2, <2>3
<1>7. CASE SetsMode
  <2>1. PICK t, x : files' = Skills!With(files, p, t, x) BY <1>7 DEF SetsMode, p
  <2>2. OnlyAt(files', files, {p}) /\ p \in DOMAIN files'
    <3>1. OnlyAt(files', files, {p}) BY <2>1, WithIs
    <3>2. p \in DOMAIN files' BY <2>1 DEF Skills!With
    <3> QED BY <3>1, <3>2
  <2>3. skillPc \in AtFile BY <1>7 DEF SetsMode
  <2>4. Touches({p}) BY <1>2, <2>2, <2>3 DEF Touches, d
  <2> QED BY <1>1, <2>3, <2>4
<1> QED BY <1>1, <1>3, <1>4, <1>5, <1>6, <1>7

LEMMA ChangedGrows ==
  ASSUME NEW X, OnlyAt(files', files, X), UNCHANGED before
  PROVE  Skills!Changed' \subseteq Skills!Changed \union X
BY DEF Skills!Changed, OnlyAt

SkillsInv == PhaseInv /\ ChoiceInv /\ PlanInv /\ WhereInv

LEMMA AgreementGoesOn ==
  ASSUME SkillsInv, Skills!NothingWithoutConsent, [Skills!Next]_skillVars
  PROVE  Skills!NothingWithoutConsent'
<1> USE DEF SkillsInv
<1>1. CASE skillPc \in Asking \union {"confirm plan", "install"} /\ files' = files /\ UNCHANGED before
  <2>1. Skills!Changed' = {} BY <1>1 DEF Skills!Changed, PhaseInv
  <2> QED BY <2>1 DEF Skills!NothingWithoutConsent
<1>2. CASE Skills!Begin
  <2>1. Skills!Changed' = {} BY <1>2 DEF Skills!Changed, Skills!Begin
  <2> QED BY <2>1 DEF Skills!NothingWithoutConsent
<1>3. CASE files' = files /\ UNCHANGED FileVars
  <2>1. Skills!Changed' = Skills!Changed BY <1>3 DEF Skills!Changed, FileVars
  <2>2. Skills!Agreed' = Skills!Agreed /\ Skills!Root' = Skills!Root
    BY <1>3 DEF Skills!Agreed, Skills!Root, FileVars
  <2> QED BY <1>3, <2>1, <2>2 DEF Skills!NothingWithoutConsent, FileVars
<1>4. CASE files' # files
  <2>1. skillPc \in Writing /\ UNCHANGED FileVars BY <1>4, StepTouches
  <2>2. PICK X : Touches(X) BY <1>4, StepTouches
  <2>3. UNCHANGED <<opts, name, chosen, agreed, before, plan>> BY <2>1 DEF FileVars
  <2>4. Skills!Agreed' = Skills!Agreed /\ Skills!Root' = Skills!Root
    BY <2>3 DEF Skills!Agreed, Skills!Root
  <2>5. Skills!Changed' \subseteq Skills!Changed \union X BY <2>2, <2>3, ChangedGrows DEF Touches
  <2>6. PICK s \in Skills!Agreed : s # <<>> /\ IsList(s) /\ Skills!Skill.dir = Append(Skills!Root, s)
    BY <2>1, FileNow DEF DirOK
  <2>7. \A f : Skills!Inside(Skills!Skill.dir, f) <=> InDir(Skills!Skill.dir, f)
    BY DEF Skills!Inside, InDir, Skills!IsStrictPrefix, Skills!IsPrefix, IsPrefix
  <2>8. Len(s) > 0
    <3>1. Len(s) \in Nat \ {0} BY <2>6, EmptySeq DEF IsList
    <3> QED BY <3>1
  <2>9. ASSUME NEW f \in Skills!Changed'
        PROVE  \E t \in Skills!Agreed' : Skills!Inside(Append(Skills!Root', t), f) /\ Len(t) > 0
    <3>1. CASE f \in Skills!Changed BY <2>4, <3>1 DEF Skills!NothingWithoutConsent
    <3>2. CASE f \in X
      <4>1. Skills!Inside(Append(Skills!Root, s), f) BY <2>2, <2>6, <2>7, <3>2 DEF Touches
      <4> QED BY <2>4, <2>6, <2>8, <4>1
    <3> QED BY <2>5, <2>9, <3>1, <3>2
  <2>10. ASSUME NEW f \in DOMAIN before' \ DOMAIN files'
         PROVE  opts'.clean \/ Skills!IsSuffix(TempSuffix, Skills!Last(f))
    <3>1. CASE f \in X
      <4>1. opts.clean \/ Temporary(f) BY <2>2, <2>10, <3>1 DEF Touches
      <4> QED BY <2>3, <4>1 DEF Temporary, Skills!IsSuffix, IsSuffix, Skills!IsPrefix, IsPrefix,
                     Skills!Reverse, Reverse, Skills!Last, Last
    <3>2. CASE f \notin X
      <4>1. f \in DOMAIN before \ DOMAIN files BY <2>2, <2>3, <2>10, <3>2 DEF Touches, OnlyAt
      <4>2. f \in Skills!Changed BY <4>1 DEF Skills!Changed
      <4> QED BY <2>3, <4>1, <4>2 DEF Skills!NothingWithoutConsent
    <3> QED BY <3>1, <3>2
  <2>11. ~opts'.dry /\ (opts'.remote => (opts'.yes \/ agreed' = 2) /\ ~opts'.elsewhere)
    BY <2>1, <2>3 DEF PhaseInv
  <2> QED BY <2>9, <2>10, <2>11 DEF Skills!NothingWithoutConsent
<1>5. CASE UNCHANGED <<files, before>> /\ (skillPc \notin Asking \union {"confirm plan", "install"} => UNCHANGED FileVars)
  BY <1>1, <1>3, <1>5
<1>6. CASE \/ Skills!SelectAll \/ Skills!OpenTerminal \/ Skills!Key \/ Skills!ConfirmKeys \/ Skills!CancelKeys
           \/ Skills!Download \/ Skills!Confirm \/ Skills!Unasked \/ Skills!Declined \/ Skills!Review
           \/ Skills!DryRun \/ Skills!Start
  BY <1>5, <1>6 DEF Skills!SelectAll, Skills!OpenTerminal, Skills!Key, Skills!ConfirmKeys,
       Skills!CancelKeys, Skills!Download, Skills!Confirm, Skills!Unasked, Skills!Declined,
       Skills!Review, Skills!DryRun, Skills!Start, Asking
<1>7. CASE files' = files /\ (Skills!StartSkill \/ Skills!Skip \/ Skills!ReadText \/ Skills!WriteTemp
                                \/ Skills!Rename \/ Skills!SetMode \/ Skills!Fail)
  BY <1>3, <1>7 DEF FileVars, Skills!StartSkill, Skills!Skip, Skills!ReadText, Skills!WriteTemp,
       Skills!Rename, Skills!SetMode, Skills!Fail, Skills!terminal
<1>8. CASE UNCHANGED skillVars BY <1>3, <1>8 DEF skillVars, FileVars
<1> QED BY <1>2, <1>4, <1>6, <1>7, <1>8 DEF Skills!Next
------------------------------------------------------------------------------
LEMMA SkillsInvGoesOn ==
  ASSUME SkillsInv, [Skills!Next]_skillVars
  PROVE  SkillsInv'
BY PhaseGoesOn, ChoiceGoesOn, PlanGoesOn, WhereGoesOn DEF SkillsInv

LEMMA SkillsInit ==
  ASSUME Skills!Init
  PROVE  SkillsInv /\ Skills!Changed = {}
<1> USE DEF Skills!Init
<1>1. PhaseInv BY DEF PhaseInv, Asking, Writing, AtFile
<1>2. ChoiceInv BY BuiltInsListed DEF ChoiceInv
<1>3. PlanInv
  <2>1. Len(plan) = 0 BY EmptySeq
  <2> QED BY <2>1 DEF PlanInv
<1>4. WhereInv BY DEF WhereInv, Writing, AtFile
<1>5. Skills!Changed = {} BY DEF Skills!Changed
<1> QED BY <1>1, <1>2, <1>3, <1>4, <1>5 DEF SkillsInv

LEMMA SkillsInvariance == Spec => [](SkillsInv /\ Skills!NothingWithoutConsent)
<1>1. Init => SkillsInv /\ Skills!NothingWithoutConsent
  BY SkillsInit DEF Init, Skills!NothingWithoutConsent
<1>2. SkillsInv /\ Skills!NothingWithoutConsent /\ [Next]_vars
        => (SkillsInv /\ Skills!NothingWithoutConsent)'
  <2> SUFFICES ASSUME SkillsInv, Skills!NothingWithoutConsent, [Next]_vars
               PROVE  SkillsInv' /\ Skills!NothingWithoutConsent'
    OBVIOUS
  <2>1. [Skills!Next]_skillVars BY PartsRest
  <2> QED BY <2>1, SkillsInvGoesOn, AgreementGoesOn
<1> QED BY <1>1, <1>2, PTL DEF Spec

(* Whatever was typed, downloaded or reviewed before, a call that changes a  *)
(* file has the user's consent for it: every confirmation or --yes, a skill  *)
(* that was selected or named, and a path below its directory.               *)
THEOREM NothingUnasked == Spec => []NothingWithoutConsent
<1>1. Skills!NothingWithoutConsent => NothingWithoutConsent BY DEF NothingWithoutConsent
<1> QED BY SkillsInvariance, <1>1, PTL
------------------------------------------------------------------------------
Now == [of |-> Skills!File.source, whole |-> TRUE]

DataInv ==
  /\ skillPc \in {"temp", "rename"} => data = Now
  /\ skillPc = "mode" => Skills!File.path \in DOMAIN files /\ files[Skills!File.path].text = Now

LEMMA DataGoesOn ==
  ASSUME DataInv, [Skills!Next]_skillVars
  PROVE  DataInv'
<1>1. CASE skillPc' \notin {"temp", "rename", "mode"} BY <1>1 DEF DataInv
<1>2. CASE skillPc' = skillPc /\ UNCHANGED <<data, plan, at, files>>
  BY <1>2 DEF DataInv, Now, Skills!File, Skills!Skill
<1>3. CASE Skills!ReadText
  BY <1>3 DEF Skills!ReadText, DataInv, Now, Skills!File, Skills!Skill
<1>4. CASE Skills!WriteTemp
  BY <1>4 DEF Skills!WriteTemp, DataInv, Now, Skills!File, Skills!Skill
<1>5. CASE Skills!Rename
  <2>1. PICK gs : gs = Skills!Without(files, {Skills!Temp(Skills!File.path)}) OBVIOUS
  <2>2. PICK p : p = Skills!File.path OBVIOUS
  <2>3. files' = Skills!With(gs, p, data, FALSE) /\ UNCHANGED <<plan, at>> /\ skillPc = "rename"
        /\ skillPc' = "mode"
    BY <1>5, <2>1, <2>2 DEF Skills!Rename
  <2>4. p \in DOMAIN files' /\ files'[p].text = data BY <2>3 DEF Skills!With
  <2>5. Skills!File' = Skills!File /\ Now' = Now BY <2>3 DEF Skills!File, Skills!Skill, Now
  <2> QED BY <2>2, <2>3, <2>4, <2>5 DEF DataInv
<1>6. CASE Skills!Begin \/ Skills!SelectAll \/ Skills!OpenTerminal \/ Skills!ConfirmKeys
           \/ Skills!CancelKeys \/ Skills!Download \/ Skills!Confirm \/ Skills!Unasked
  BY <1>1, <1>6 DEF Skills!Begin, Skills!SelectAll, Skills!OpenTerminal, Skills!ConfirmKeys,
       Skills!CancelKeys, Skills!Download, Skills!Confirm, Skills!Unasked, Skills!Take
<1>7. CASE Skills!Declined \/ Skills!Review \/ Skills!DryRun \/ Skills!Start \/ Skills!StartSkill
           \/ Skills!Skip \/ Skills!SetMode \/ Skills!Fail
  BY <1>1, <1>7 DEF Skills!Declined, Skills!Review, Skills!DryRun, Skills!Start, Skills!StartSkill,
       Skills!Skip, Skills!SetMode, Skills!Fail, Skills!NextFile
<1>8. CASE Skills!Key BY <1>2, <1>8 DEF Skills!Key
<1>9. CASE UNCHANGED skillVars BY <1>2, <1>9 DEF skillVars
<1> QED BY <1>3, <1>4, <1>5, <1>6, <1>7, <1>8, <1>9 DEF Skills!Next

(* Every file in place is whole, unless it is temporary, and none that was   *)
(* downloaded is executable.                                                 *)
FileOK(f, x) == IsList(f) /\ (~Temporary(f) => x.text.whole) /\ (x.exec => x.text.of \notin GoodUrls)

FilesOK == \A f \in DOMAIN files : FileOK(f, files[f])

LEMMA WithOK ==
  ASSUME NEW fs, \A f \in DOMAIN fs : FileOK(f, fs[f]), NEW g, NEW text, NEW exec,
         FileOK(g, [text |-> text, exec |-> exec]), NEW gs, gs = Skills!With(fs, g, text, exec)
  PROVE  \A f \in DOMAIN gs : FileOK(f, gs[f])
BY DEF Skills!With

LEMMA WithoutOK ==
  ASSUME NEW fs, \A f \in DOMAIN fs : FileOK(f, fs[f]), NEW X, NEW gs, gs = Skills!Without(fs, X)
  PROVE  \A f \in DOMAIN gs : FileOK(f, gs[f])
BY DEF Skills!Without

LEMMA FilesGoOn ==
  ASSUME FilesOK, SkillsInv, DataInv, [Skills!Next]_skillVars
  PROVE  FilesOK'
<1> USE DEF Writing, AtFile, SkillsInv
<1> DEFINE p == Skills!File.path
           q == Skills!Temp(p)
<1>1. UNCHANGED files \/ RemovesAll \/ WritesTemp \/ Renames \/ RemovesTemp \/ SetsMode BY FileStep
<1>2. ASSUME skillPc \in AtFile
      PROVE  IsPath(p) /\ IsPath(q) /\ Temporary(q)
  <2>1. IsPath(p) BY <1>2, FileNow
  <2> QED BY <2>1, TempOf
<1> HIDE DEF p, q
<1>3. CASE UNCHANGED files BY <1>3 DEF FilesOK
<1>4. CASE RemovesAll BY <1>4, WithoutOK DEF RemovesAll, FilesOK
<1>5. CASE WritesTemp
  <2>1. PICK t : files' = Skills!With(files, q, t, FALSE) BY <1>5 DEF WritesTemp, p, q
  <2>2. FileOK(q, [text |-> t, exec |-> FALSE])
    BY <1>2, <1>5 DEF WritesTemp, FileOK, IsPath
  <2> QED BY <2>1, <2>2, WithOK DEF FilesOK
<1>6. CASE Renames
  <2>1. PICK gs : gs = Skills!Without(files, {q}) OBVIOUS
  <2>2. files' = Skills!With(gs, p, data, FALSE) BY <1>6, <2>1 DEF Renames, p, q
  <2>3. FileOK(p, [text |-> data, exec |-> FALSE])
    BY <1>2, <1>6 DEF Renames, DataInv, Now, FileOK, IsPath
  <2>4. \A f \in DOMAIN gs : FileOK(f, gs[f]) BY <2>1, WithoutOK DEF FilesOK
  <2> QED BY <2>2, <2>3, <2>4, WithOK DEF FilesOK
<1>7. CASE RemovesTemp BY <1>7, WithoutOK DEF RemovesTemp, FilesOK
<1>8. CASE SetsMode
  <2>1. files' = Skills!With(files, p, files[p].text, ~opts.remote /\ Skills!IsScript(Skills!File.source))
        /\ skillPc = "mode" /\ files[p].text = Now
    BY <1>8 DEF SetsMode, p, DataInv
  <2>2. opts.remote \/ Skills!File.source \notin GoodUrls
    <3>1. at[1] \in 1..Len(plan) /\ at[2] \in 1..Len(plan[at[1]].todo) BY <2>1 DEF WhereInv
    <3> QED BY <3>1 DEF PlanInv, Skills!File, Skills!Skill
  <2>3. PICK x \in BOOLEAN : x = (~opts.remote /\ Skills!IsScript(Skills!File.source)) OBVIOUS
  <2>4. FileOK(p, [text |-> files[p].text, exec |-> x])
    <3>1. PICK t : t = files[p].text OBVIOUS
    <3>2. t.whole /\ (x => t.of \notin GoodUrls)
      <4>1. x => ~opts.remote BY <2>3
      <4>2. t = [of |-> Skills!File.source, whole |-> TRUE] BY <2>1, <3>1 DEF Now
      <4>3. t.whole BY <4>2
      <4>4. t.of = Skills!File.source BY <4>2
      <4> QED BY <2>2, <4>1, <4>3, <4>4
    <3>3. IsList(p) BY <1>2, <2>1 DEF IsPath
    <3>4. PICK y : y = [text |-> t, exec |-> x] OBVIOUS
    <3>5. y.text = t /\ (y.exec <=> x) BY <3>4
    <3>6. FileOK(p, y) BY <3>2, <3>3, <3>5 DEF FileOK
    <3> QED BY <3>1, <3>4, <3>6
  <2> QED BY <2>1, <2>3, <2>4, WithOK DEF FilesOK
<1> QED BY <1>1, <1>3, <1>4, <1>5, <1>6, <1>7, <1>8
------------------------------------------------------------------------------
(* With --skip-existing, what was in place before is as it was.              *)
SkipInv == opts.skip /\ ~opts.clean =>
  /\ \A f \in DOMAIN before : Temporary(f) \/ f \notin Skills!Changed
  /\ skillPc \in {"temp", "rename", "mode"} =>
       Skills!File.path \notin DOMAIN before \/ Temporary(Skills!File.path)

LEMMA WhereFrom ==
  ASSUME [Skills!Next]_skillVars, skillPc' \in {"temp", "rename", "mode"}
  PROVE  /\ UNCHANGED FileVars /\ at' = at
         /\ \/ skillPc \in {"temp", "rename", "mode"}
            \/ /\ skillPc = "file" /\ ~(opts.skip /\ Skills!Exists(Skills!File.path))
               /\ files' = files
<1> USE DEF FileVars
<1>1. CASE Skills!ReadText \/ Skills!WriteTemp \/ Skills!Rename
  BY <1>1 DEF Skills!ReadText, Skills!WriteTemp, Skills!Rename, Skills!terminal
<1>2. CASE UNCHANGED skillVars BY <1>2 DEF skillVars
<1>3. CASE skillPc' \notin {"temp", "rename", "mode"} BY <1>3
<1>4. CASE Skills!Begin \/ Skills!SelectAll \/ Skills!OpenTerminal \/ Skills!ConfirmKeys
           \/ Skills!CancelKeys \/ Skills!Download \/ Skills!Confirm \/ Skills!Unasked
  BY <1>3, <1>4 DEF Skills!Begin, Skills!SelectAll, Skills!OpenTerminal, Skills!ConfirmKeys,
       Skills!CancelKeys, Skills!Download, Skills!Confirm, Skills!Unasked, Skills!Take
<1>5. CASE Skills!Declined \/ Skills!Review \/ Skills!DryRun \/ Skills!Start \/ Skills!StartSkill
           \/ Skills!Skip \/ Skills!SetMode \/ Skills!Fail \/ Skills!Key
  BY <1>3, <1>5 DEF Skills!Declined, Skills!Review, Skills!DryRun, Skills!Start, Skills!StartSkill,
       Skills!Skip, Skills!SetMode, Skills!Fail, Skills!NextFile, Skills!Key
<1> QED BY <1>1, <1>2, <1>4, <1>5 DEF Skills!Next

LEMMA SameCall ==
  ASSUME [Skills!Next]_skillVars
  PROVE  \/ Skills!Begin
         \/ UNCHANGED <<opts, before>>
BY DEF Skills!Next, skillVars, Skills!SelectAll, Skills!OpenTerminal, Skills!Key, Skills!ConfirmKeys,
       Skills!CancelKeys, Skills!Download, Skills!Confirm, Skills!Unasked, Skills!Declined,
       Skills!Review, Skills!DryRun, Skills!Start, Skills!StartSkill, Skills!Skip, Skills!ReadText,
       Skills!WriteTemp, Skills!Rename, Skills!SetMode, Skills!Fail

LEMMA SkipGoesOn ==
  ASSUME SkipInv, SkillsInv, FilesOK, [Skills!Next]_skillVars
  PROVE  SkipInv'
<1> DEFINE p == Skills!File.path
           q == Skills!Temp(p)
           Intact == \A f \in DOMAIN before : Temporary(f) \/ f \notin Skills!Changed
<1>1. CASE Skills!Begin
  <2>1. Skills!Changed' = {} /\ skillPc' \notin {"temp", "rename", "mode"}
    BY <1>1 DEF Skills!Changed, Skills!Begin
  <2> QED BY <2>1 DEF SkipInv
<1>2. CASE UNCHANGED <<opts, before>> /\ opts.skip /\ ~opts.clean
  <2>1. Intact BY <1>2 DEF SkipInv
  <2>2. ASSUME NEW X, OnlyAt(files', files, X), \A f \in X : Temporary(f) \/ f \notin DOMAIN before
        PROVE  Intact'
    <3>1. Skills!Changed' \subseteq Skills!Changed \union X BY <1>2, <2>2, ChangedGrows
    <3> QED BY <1>2, <2>1, <2>2, <3>1 DEF Temporary
  <2>3. Intact'
    <3>1. ASSUME skillPc \in AtFile PROVE Temporary(q)
      <4>1. IsPath(p) BY <3>1, FileNow DEF Writing, SkillsInv
      <4> QED BY <4>1, TempOf
    <3>2. skillPc \in {"temp", "rename", "mode"} => Temporary(p) \/ p \notin DOMAIN before
      BY <1>2 DEF SkipInv
    <3> HIDE DEF p, q, Intact
    <3>3. CASE UNCHANGED files
      <4>1. OnlyAt(files', files, {}) BY <3>3 DEF OnlyAt
      <4> QED BY <2>2, <4>1
    <3>4. CASE WritesTemp
      <4>1. PICK t : files' = Skills!With(files, q, t, FALSE) BY <3>4 DEF WritesTemp, p, q
      <4>2. OnlyAt(files', files, {q}) BY <4>1, WithIs
      <4>3. Temporary(q) BY <3>1, <3>4 DEF WritesTemp, AtFile
      <4> QED BY <2>2, <4>2, <4>3
    <3>5. CASE Renames
      <4>1. PICK gs : gs = Skills!Without(files, {q}) OBVIOUS
      <4>2. files' = Skills!With(gs, p, data, FALSE) BY <3>5, <4>1 DEF Renames, p, q
      <4>3. OnlyAt(gs, files, {q}) /\ OnlyAt(files', gs, {p}) BY <4>1, <4>2, WithIs, WithoutIs
      <4>4. OnlyAt(files', files, {p, q}) BY <4>3 DEF OnlyAt
      <4>5. Temporary(q) BY <3>1, <3>5 DEF Renames, AtFile
      <4>6. Temporary(p) \/ p \notin DOMAIN before BY <3>2, <3>5 DEF Renames
      <4> QED BY <2>2, <4>4, <4>5, <4>6
    <3>6. CASE RemovesTemp
      <4>1. OnlyAt(files', files, {q}) BY <3>6, WithoutIs DEF RemovesTemp, p, q
      <4>2. Temporary(q) BY <3>1, <3>6 DEF RemovesTemp, AtFile
      <4> QED BY <2>2, <4>1, <4>2
    <3>7. CASE SetsMode
      <4>1. PICK t, x : files' = Skills!With(files, p, t, x) BY <3>7 DEF SetsMode, p
      <4>2. OnlyAt(files', files, {p}) BY <4>1, WithIs
      <4>3. Temporary(p) \/ p \notin DOMAIN before BY <3>2, <3>7 DEF SetsMode
      <4> QED BY <2>2, <4>2, <4>3
    <3>8. ~RemovesAll BY <1>2 DEF RemovesAll
    <3> QED BY <3>3, <3>4, <3>5, <3>6, <3>7, <3>8, FileStep
  <2>4. ASSUME skillPc' \in {"temp", "rename", "mode"}
        PROVE  (p \notin DOMAIN before \/ Temporary(p))'
    <3>1. p' = p BY <2>4, WhereFrom DEF FileVars, Skills!File, Skills!Skill
    <3>2. p \notin DOMAIN before \/ Temporary(p)
      <4>1. CASE skillPc \in {"temp", "rename", "mode"} BY <1>2, <4>1 DEF SkipInv
      <4>2. CASE skillPc = "file" /\ ~Skills!Exists(p)
        <5>1. IsList(p) BY <4>2, FileNow DEF Writing, AtFile, SkillsInv, IsPath
        <5>2. p \notin DOMAIN files BY <4>2, <5>1, PrefixOfItself DEF Skills!IsPrefix, IsPrefix, Skills!Exists
        <5> QED BY <2>1, <5>2 DEF Skills!Changed
      <4> QED BY <1>2, <2>4, <4>1, <4>2, WhereFrom
    <3> HIDE DEF p
    <3> QED BY <1>2, <3>1, <3>2 DEF Temporary
  <2> QED BY <2>3, <2>4 DEF SkipInv
<1>3. CASE UNCHANGED <<opts, before>> /\ ~(opts.skip /\ ~opts.clean) BY <1>3 DEF SkipInv
<1> QED BY <1>1, <1>2, <1>3, SameCall
------------------------------------------------------------------------------
(* The files of the plan the call is past are in place: what --skip-existing *)
(* found, or the whole of the source, unless a later file has taken its name.*)
Todo(i, j) == plan[i].todo[j]
Passed(i, j) == skillPc = "done" \/ i < at[1] \/ (i = at[1] /\ j < at[2])
AtOnce(i, j) == skillPc = "mode" /\ at[1] = i /\ at[2] = j
Again(i, j) ==
  \E k \in 1..Len(plan[i].todo) : /\ k > j /\ Todo(i, k).path = Todo(i, j).path
                                  /\ Passed(i, k) \/ AtOnce(i, k)
Holds(f, source) ==
  /\ f \in DOMAIN files /\ files[f].text.of = source
  /\ files[f].exec = (~opts.remote /\ Skills!IsScript(source))
Kept(i, j) ==
  /\ opts.skip => Skills!Exists(Todo(i, j).path)
  /\ ~opts.skip => /\ Todo(i, j).path \in DOMAIN files
                   /\ Again(i, j) \/ Holds(Todo(i, j).path, Todo(i, j).source)

ProgressInv ==
  skillPc \in Writing \union {"done"} /\ ~opts.dry =>
    \A i \in 1..Len(plan) : \A j \in 1..Len(plan[i].todo) :
      Passed(i, j) /\ ~Temporary(Todo(i, j).path) => Kept(i, j)

LEMMA DirsApart ==
  ASSUME PlanInv, NEW i \in 1..Len(plan), NEW k \in 1..Len(plan), NEW f, IsList(f),
         InDir(plan[i].dir, f), InDir(plan[k].dir, f)
  PROVE  i = k
<1>1. PICK s : plan[i].dir = Append(Skills!Root, s) BY DEF PlanInv, DirOK
<1>2. PICK t : plan[k].dir = Append(Skills!Root, t) BY DEF PlanInv, DirOK
<1>3. PICK a : a = plan[i].dir OBVIOUS
<1>4. PICK b : b = plan[k].dir OBVIOUS
<1>5. IsList(a) /\ Len(a) = Len(Skills!Root) + 1 BY <1>1, <1>3, DirOf
<1>6. IsList(b) /\ Len(b) = Len(Skills!Root) + 1 BY <1>2, <1>4, DirOf
<1>7. a = b BY <1>3, <1>4, <1>5, <1>6, SameLengthSame DEF InDir
<1> QED BY <1>3, <1>4, <1>7 DEF PlanInv

LEMMA BelowInDir ==
  ASSUME NEW d, NEW f, NEW g, IsList(d), IsList(f), IsList(g), InDir(d, f), IsPrefix(f, g)
  PROVE  InDir(d, g)
<1>1. Begins(d, f) /\ Len(d) < Len(f) BY InDirIsLonger
<1>2. Begins(f, g) BY BeginsIsPrefix
<1>3. Len(d) \in Nat /\ Len(f) \in Nat /\ Len(g) \in Nat BY LenProperties DEF IsList
<1>4. Begins(d, g) /\ Len(d) < Len(g) BY <1>1, <1>2, <1>3 DEF Begins
<1> QED BY <1>4, InDirIsLonger

LEMMA TodoIs ==
  ASSUME PlanInv, NEW i \in 1..Len(plan), NEW j \in 1..Len(plan[i].todo)
  PROVE  IsPath(Todo(i, j).path) /\ InDir(plan[i].dir, Todo(i, j).path) /\ IsList(plan[i].dir)
BY DEF PlanInv, TodoOK, DirOK, Todo

LEMMA KeptOn ==
  ASSUME NEW i, NEW j, Kept(i, j), UNCHANGED <<opts, plan>>, NEW f, f = Todo(i, j).path,
         Skills!Exists(f) => Skills!Exists(f)', f \in DOMAIN files => f \in DOMAIN files',
         f \in DOMAIN files => files'[f] = files[f] \/ Again(i, j)',
         Again(i, j) => Again(i, j)'
  PROVE  Kept(i, j)'
<1>1. Todo(i, j)' = Todo(i, j) BY DEF Todo
<1>2. CASE opts.skip BY <1>1, <1>2 DEF Kept
<1>3. CASE ~opts.skip /\ Again(i, j) BY <1>1, <1>3 DEF Kept
<1>4. CASE ~opts.skip /\ ~Again(i, j)
  <2>1. Holds(f, Todo(i, j).source) BY <1>4 DEF Kept
  <2>2. Again(i, j)' \/ Holds(f, Todo(i, j).source)'
    <3>1. CASE files'[f] = files[f] BY <1>1, <2>1, <3>1 DEF Holds, Skills!IsScript, Skills!LowerPath, Skills!Small
    <3> QED BY <2>1, <3>1 DEF Holds
  <2> QED BY <1>1, <1>4, <2>1, <2>2 DEF Kept, Holds
<1> QED BY <1>2, <1>3, <1>4

(* Past a file, the call is past those before it and no other.               *)
LEMMA NextPassed ==
  ASSUME PlanInv, WhereInv, skillPc \in AtFile, Skills!NextFile, UNCHANGED plan
  PROVE  /\ \A i \in 1..Len(plan) : \A j \in 1..Len(plan[i].todo) :
              /\ Passed(i, j)' => Passed(i, j) \/ (i = at[1] /\ j = at[2])
              /\ Passed(i, j) => Passed(i, j)'
              /\ i = at[1] /\ j = at[2] => Passed(i, j)'
         /\ at[1] \in 1..Len(plan) /\ at[2] \in 1..Len(plan[at[1]].todo)
<1> USE DEF AtFile, Writing
<1>1. PICK m \in Nat : m = Len(plan) BY DEF PlanInv
<1>2. PICK n \in Nat : n = Len(plan[at[1]].todo) BY DEF WhereInv, PlanInv, TodoOK
<1>3. at[1] \in 1..m /\ at[2] \in 1..n BY <1>1, <1>2 DEF WhereInv
<1>4. PICK a \in 1..m : a = at[1] BY <1>3
<1>5. PICK b \in 1..n : b = at[2] BY <1>3
<1>6. n = Len(Skills!Skill.todo) BY <1>2 DEF Skills!Skill
<1>7. ASSUME NEW i \in 1..m, NEW j \in Nat, i = a => j \in 1..n
      PROVE  /\ Passed(i, j)' => Passed(i, j) \/ (i = a /\ j = b)
             /\ Passed(i, j) => Passed(i, j)'
             /\ i = a /\ j = b => Passed(i, j)'
  <2>0. skillPc # "done" OBVIOUS
  <2>1. CASE b # n
    <3>1. at' = <<a, b + 1>> /\ skillPc' = "file" BY <1>4, <1>5, <1>6, <2>1 DEF Skills!NextFile
    <3>2. at'[1] = a /\ at'[2] = b + 1 BY <3>1
    <3> QED BY <1>4, <1>5, <1>7, <2>0, <3>1, <3>2 DEF Passed
  <2>2. CASE b = n /\ a < m
    <3>1. at' = <<a + 1, 0>> /\ skillPc' = "skill" BY <1>1, <1>4, <1>5, <1>6, <2>2 DEF Skills!NextFile
    <3>2. at'[1] = a + 1 /\ at'[2] = 0 BY <3>1
    <3> QED BY <1>4, <1>5, <1>7, <2>0, <2>2, <3>1, <3>2 DEF Passed
  <2>3. CASE b = n /\ ~(a < m)
    <3>1. skillPc' = "done" BY <1>1, <1>4, <1>5, <1>6, <2>3 DEF Skills!NextFile
    <3>2. i < a \/ (i = a /\ (j < b \/ j = b)) BY <1>7, <2>3
    <3> QED BY <1>4, <1>5, <2>0, <3>1, <3>2 DEF Passed
  <2> QED BY <2>1, <2>2, <2>3
<1>8. \A i \in 1..Len(plan) : \A j \in 1..Len(plan[i].todo) : j \in Nat /\ i \in 1..m /\ (i = a => j \in 1..n)
  BY <1>1, <1>2, <1>4 DEF PlanInv, TodoOK
<1> QED BY <1>1, <1>2, <1>3, <1>4, <1>5, <1>7, <1>8
------------------------------------------------------------------------------
(* The steps that leave a call at work on its files, or done with them.      *)
LEMMA ProgressStep ==
  ASSUME [Skills!Next]_skillVars, SkillsInv, skillPc' \in Writing \union {"done"}, ~opts'.dry
  PROVE  \/ Len(plan') = 0
         \/ /\ UNCHANGED <<opts, plan>>
            /\ \/ Skills!Start \/ Skills!StartSkill \/ Skills!Skip \/ Skills!ReadText
               \/ Skills!WriteTemp \/ Skills!Rename \/ Skills!SetMode
               \/ UNCHANGED skillVars
<1> USE DEF Writing, AtFile
<1>1. CASE plan' = <<>> BY <1>1, EmptySeq
<1>2. CASE Skills!SelectAll
  <2>1. chosen' = Range(BuiltIns) /\ Skills!Take(chosen') BY <1>2 DEF Skills!SelectAll, Skills!Range, Range
  <2>2. chosen' = {} => plan' = <<>> BY <2>1, BuiltInPlanOK DEF Skills!Take
  <2> QED BY <1>1, <2>1, <2>2 DEF Skills!Take
<1>3. CASE Skills!ConfirmKeys
  <2>1. Skills!Take(chosen) /\ chosen \subseteq Range(BuiltIns)
    BY <1>3 DEF Skills!ConfirmKeys, SkillsInv, ChoiceInv
  <2>2. chosen = {} => plan' = <<>> BY <2>1, BuiltInPlanOK DEF Skills!Take
  <2> QED BY <1>1, <2>1, <2>2 DEF Skills!Take
<1>4. CASE Skills!CancelKeys
  BY <1>1, <1>4 DEF Skills!CancelKeys, SkillsInv, PhaseInv, Asking
<1>5. CASE Skills!Begin \/ Skills!OpenTerminal \/ Skills!Key \/ Skills!Download \/ Skills!Confirm
  BY <1>5 DEF Skills!Begin, Skills!OpenTerminal, Skills!Key, Skills!Download, Skills!Confirm
<1>6. CASE Skills!Unasked \/ Skills!Declined \/ Skills!Review \/ Skills!DryRun \/ Skills!Fail
  BY <1>6 DEF Skills!Unasked, Skills!Declined, Skills!Review, Skills!DryRun, Skills!Fail
<1>7. UNCHANGED <<opts, plan>> \/ ~(\/ Skills!Start \/ Skills!StartSkill \/ Skills!Skip \/ Skills!ReadText
               \/ Skills!WriteTemp \/ Skills!Rename \/ Skills!SetMode
               \/ UNCHANGED skillVars)
  BY DEF Skills!Start, Skills!StartSkill, Skills!Skip, Skills!ReadText, Skills!WriteTemp,
         Skills!Rename, Skills!SetMode, skillVars
<1> QED BY <1>2, <1>3, <1>4, <1>5, <1>6, <1>7 DEF Skills!Next

(* While a call stays where it is, it is past the same files.                *)
LEMMA StaysPassed ==
  ASSUME UNCHANGED <<plan, at>>, skillPc # "done", skillPc' # "done", NEW i, NEW j
  PROVE  /\ Passed(i, j)' <=> Passed(i, j)
         /\ skillPc # "mode" /\ Again(i, j) => Again(i, j)'
BY DEF Passed, Again, AtOnce, Todo

ThereStill(f) ==
  /\ Skills!Exists(f) => Skills!Exists(f)'
  /\ f \in DOMAIN files => f \in DOMAIN files' /\ files'[f] = files[f]

LEMMA ThereAfterRemove ==
  ASSUME PlanInv, WhereInv, FilesOK, RemovesAll, NEW i \in 1..Len(plan), i # at[1],
         NEW f, IsList(f), InDir(plan[i].dir, f), IsList(plan[i].dir)
  PROVE  ThereStill(f)
<1>1. at[1] \in 1..Len(plan) BY DEF RemovesAll, WhereInv, Writing
<1>2. PICK X : X \subseteq {g \in DOMAIN files : InDir(plan[at[1]].dir, g)} /\ files' = Skills!Without(files, X)
  BY DEF RemovesAll, Skills!Skill
<1>3. \A g \in DOMAIN files : IsList(g) /\ InDir(plan[i].dir, g) => g \notin X
  BY <1>1, <1>2, DirsApart
<1>4. \A g \in DOMAIN files \ X : g \in DOMAIN files' /\ files'[g] = files[g]
  BY <1>2 DEF Skills!Without
<1>5. ASSUME NEW g \in DOMAIN files, IsPrefix(f, g) PROVE g \in DOMAIN files'
  <2>1. IsList(g) BY DEF FilesOK, FileOK
  <2>2. InDir(plan[i].dir, g) BY <1>5, <2>1, BelowInDir
  <2> QED BY <1>3, <1>4, <2>1, <2>2
<1> QED BY <1>3, <1>4, <1>5 DEF ThereStill, Skills!Exists, Skills!IsPrefix, IsPrefix

LEMMA ThereAfterWrite ==
  ASSUME NEW q, NEW f, f # q, NEW t, NEW x, files' = Skills!With(files, q, t, x)
  PROVE  ThereStill(f)
<1>1. \A g \in DOMAIN files : g \in DOMAIN files' /\ (g # q => files'[g] = files[g])
  BY DEF Skills!With
<1> QED BY <1>1 DEF ThereStill, Skills!Exists

LEMMA ThereAfterRename ==
  ASSUME FilesOK, NEW p, IsPath(p), NEW q, q = Skills!Temp(p), NEW f, f # q, IsList(f),
         NEW t, NEW x, files' = Skills!With(Skills!Without(files, {q}), p, t, x)
  PROVE  /\ Skills!Exists(f) => Skills!Exists(f)'
         /\ f \in DOMAIN files => f \in DOMAIN files' /\ (f # p => files'[f] = files[f])
<1>1. PICK gs : gs = Skills!Without(files, {q}) OBVIOUS
<1>2. files' = Skills!With(gs, p, t, x) BY <1>1
<1>3. \A g \in DOMAIN gs : g \in DOMAIN files' /\ (g # p => files'[g] = gs[g])
  BY <1>2 DEF Skills!With
<1>4. p \in DOMAIN files' BY <1>2 DEF Skills!With
<1>5. \A g \in DOMAIN files \ {q} : g \in DOMAIN gs /\ gs[g] = files[g] BY <1>1 DEF Skills!Without
<1>6. ASSUME NEW g \in DOMAIN files, IsPrefix(f, g) PROVE \E h \in DOMAIN files' : IsPrefix(f, h)
  <2>1. CASE g # q BY <1>3, <1>5, <1>6, <2>1
  <2>2. CASE g = q
    <3>1. IsPrefix(f, p) BY <1>6, <2>2, PrefixOfTemp
    <3> QED BY <1>4, <3>1
  <2> QED BY <2>1, <2>2
<1> QED BY <1>3, <1>5, <1>6 DEF Skills!Exists, Skills!IsPrefix, IsPrefix

LEMMA KeptIfThere ==
  ASSUME NEW i, NEW j, Kept(i, j), UNCHANGED <<opts, plan>>, NEW f, f = Todo(i, j).path,
         ThereStill(f), Again(i, j) => Again(i, j)'
  PROVE  Kept(i, j)'
<1>1. Skills!Exists(f) => Skills!Exists(f)' BY DEF ThereStill
<1>2. f \in DOMAIN files => f \in DOMAIN files' /\ files'[f] = files[f] BY DEF ThereStill
<1> QED BY <1>1, <1>2, KeptOn
------------------------------------------------------------------------------
Settled(i, j) == Passed(i, j) /\ ~Temporary(Todo(i, j).path) => Kept(i, j)

LEMMA ProgressIs ==
  ProgressInv <=> (skillPc \in Writing \union {"done"} /\ ~opts.dry =>
                     \A i \in 1..Len(plan) : \A j \in 1..Len(plan[i].todo) : Settled(i, j))
BY DEF ProgressInv, Settled

(* A file is renamed to its own name, from which another one had its name.   *)
LEMMA RenameSettles ==
  ASSUME SkillsInv, FilesOK, Skills!Rename, NEW i \in 1..Len(plan), NEW j \in 1..Len(plan[i].todo),
         Settled(i, j)
  PROVE  Settled(i, j)'
<1> USE DEF Writing, AtFile, SkillsInv
<1> SUFFICES ASSUME Passed(i, j)', ~Temporary(Todo(i, j).path)' PROVE Kept(i, j)' BY DEF Settled
<1>1. /\ skillPc = "rename" /\ skillPc' = "mode" /\ UNCHANGED <<opts, plan, at>>
      /\ files' = Skills!With(Skills!Without(files, {Skills!Temp(Skills!File.path)}), Skills!File.path, data, FALSE)
  BY DEF Skills!Rename
<1>2. PICK p : p = Skills!File.path OBVIOUS
<1>3. PICK q : q = Skills!Temp(p) OBVIOUS
<1>4. PICK f : f = Todo(i, j).path OBVIOUS
<1>5. at[1] \in 1..Len(plan) /\ at[2] \in 1..Len(plan[at[1]].todo) /\ Todo(at[1], at[2]) = Skills!File
  BY <1>1 DEF WhereInv, Todo, Skills!File, Skills!Skill
<1>6. IsPath(p) /\ InDir(plan[at[1]].dir, p) BY <1>2, <1>5, TodoIs
<1>7. IsPath(f) /\ InDir(plan[i].dir, f) BY <1>4, TodoIs
<1>8. Passed(i, j) /\ ~Temporary(f) BY <1>1, <1>4, StaysPassed DEF Todo, Temporary
<1>9. Kept(i, j) BY <1>4, <1>8 DEF Settled
<1>10. f # q BY <1>3, <1>6, <1>8, TempOf
<1>11. files' = Skills!With(Skills!Without(files, {q}), p, data, FALSE) BY <1>1, <1>2, <1>3
<1>12. /\ Skills!Exists(f) => Skills!Exists(f)'
       /\ f \in DOMAIN files => f \in DOMAIN files' /\ (f # p => files'[f] = files[f])
  BY <1>3, <1>6, <1>7, <1>10, <1>11, ThereAfterRename DEF IsPath
<1>13. Again(i, j) => Again(i, j)' BY <1>1, StaysPassed
<1>14. ASSUME f = p PROVE Again(i, j)'
  <2>1. i = at[1] BY <1>5, <1>6, <1>7, <1>14, DirsApart DEF IsPath
  <2>2. j < at[2] BY <1>1, <1>8, <2>1 DEF Passed, WhereInv, PlanInv
  <2>3. AtOnce(i, at[2])' BY <1>1, <2>1 DEF AtOnce
  <2>4. at[2] \in 1..Len(plan'[i].todo) /\ at[2] > j BY <1>1, <1>5, <2>1, <2>2 DEF PlanInv, TodoOK
  <2>5. Todo(i, at[2])'.path = Todo(i, j)'.path BY <1>1, <1>2, <1>4, <1>5, <1>14, <2>1 DEF Todo
  <2> QED BY <1>1, <2>3, <2>4, <2>5 DEF Again, Todo, AtOnce
<1> QED BY <1>1, <1>4, <1>9, <1>12, <1>13, <1>14, KeptOn

LEMMA ModeSettles ==
  ASSUME SkillsInv, FilesOK, DataInv, Skills!SetMode, NEW i \in 1..Len(plan), NEW j \in 1..Len(plan[i].todo),
         Settled(i, j)
  PROVE  Settled(i, j)'
<1> USE DEF Writing, AtFile, SkillsInv
<1> SUFFICES ASSUME Passed(i, j)', ~Temporary(Todo(i, j).path)' PROVE Kept(i, j)' BY DEF Settled
<1>1. /\ skillPc = "mode" /\ UNCHANGED <<opts, plan>> /\ Skills!NextFile
      /\ files' = Skills!With(files, Skills!File.path, files[Skills!File.path].text,
                              ~opts.remote /\ Skills!IsScript(Skills!File.source))
  BY DEF Skills!SetMode
<1>2. PICK p : p = Skills!File.path OBVIOUS
<1>3. PICK f : f = Todo(i, j).path OBVIOUS
<1>4. at[1] \in 1..Len(plan) /\ at[2] \in 1..Len(plan[at[1]].todo) /\ Todo(at[1], at[2]) = Skills!File
  BY <1>1 DEF WhereInv, Todo, Skills!File, Skills!Skill
<1>5. IsPath(p) /\ InDir(plan[at[1]].dir, p) BY <1>2, <1>4, TodoIs
<1>6. IsPath(f) /\ InDir(plan[i].dir, f) /\ ~Temporary(f) BY <1>1, <1>3, TodoIs DEF Todo, Temporary
<1>7. /\ \A a \in 1..Len(plan) : \A b \in 1..Len(plan[a].todo) :
           /\ Passed(a, b)' => Passed(a, b) \/ (a = at[1] /\ b = at[2])
           /\ Passed(a, b) => Passed(a, b)'
           /\ a = at[1] /\ b = at[2] => Passed(a, b)'
  BY <1>1, NextPassed
<1>8. PICK x : x = (~opts.remote /\ Skills!IsScript(Skills!File.source)) OBVIOUS
<1>9. files' = Skills!With(files, p, files[p].text, x) BY <1>1, <1>2, <1>8
<1>10. Again(i, j) => Again(i, j)'
  <2> SUFFICES ASSUME NEW k \in 1..Len(plan[i].todo), k > j, Todo(i, k).path = Todo(i, j).path,
                      Passed(i, k) \/ AtOnce(i, k)
               PROVE  Again(i, j)'
    BY DEF Again
  <2>1. Passed(i, k)' BY <1>7 DEF AtOnce
  <2> QED BY <1>1, <2>1 DEF Again, Todo
<1>11. CASE i = at[1] /\ j = at[2]
  <2>0. PICK src : src = Skills!File.source OBVIOUS
  <2>1. f = p /\ Todo(i, j)'.path = p /\ Todo(i, j)'.source = src BY <1>1, <2>0, <1>2, <1>3, <1>4, <1>11 DEF Todo
  <2>2. p \in DOMAIN files /\ files[p].text = Now BY <1>1, <1>2 DEF DataInv
  <2>3. p \in DOMAIN files' /\ files'[p] = [text |-> Now, exec |-> x]
    BY <1>9, <2>2 DEF Skills!With
  <2>4. files'[p].text.of = src /\ files'[p].exec = x BY <2>0, <2>3 DEF Now
  <2>5. Holds(p, src)'
    BY <1>1, <1>8, <2>0, <2>3, <2>4 DEF Holds, Skills!IsScript, Skills!LowerPath, Skills!Small
  <2>6. Skills!Exists(p)'
    BY <1>5, <2>3, PrefixOfItself DEF Skills!Exists, IsPath, Skills!IsPrefix, IsPrefix
  <2> QED BY <1>3, <2>1, <2>3, <2>5, <2>6 DEF Kept, Todo
<1>12. CASE ~(i = at[1] /\ j = at[2])
  <2>1. Passed(i, j) BY <1>7, <1>12
  <2>2. Kept(i, j) BY <1>3, <1>6, <2>1 DEF Settled
  <2>3. CASE f # p
    <3>1. ThereStill(f) BY <1>9, <2>3, ThereAfterWrite
    <3> QED BY <1>1, <1>3, <1>10, <2>2, <3>1, KeptIfThere
  <2>4. CASE f = p
    <3>1. i = at[1] BY <1>4, <1>5, <1>6, <2>4, DirsApart DEF IsPath
    <3>2. j < at[2] BY <1>1, <2>1, <3>1 DEF Passed, WhereInv, PlanInv
    <3>4. at[2] \in 1..Len(plan'[i].todo) /\ at[2] > j BY <1>1, <1>4, <3>1, <3>2 DEF PlanInv, TodoOK
    <3>5. plan'[i].todo[at[2]].path = plan'[i].todo[j].path BY <1>1, <1>2, <1>3, <1>4, <2>4, <3>1 DEF Todo
    <3>6. PICK k : k = at[2] OBVIOUS
    <3>7. Again(i, j)'
      <4>1. k \in 1..Len(plan'[i].todo) /\ k > j BY <3>4, <3>6
      <4>2. Passed(i, k)' BY <1>4, <1>7, <3>1, <3>6
      <4> QED BY <3>5, <3>6, <4>1, <4>2 DEF Again, Todo
    <3>8. p \in DOMAIN files' /\ \A g \in DOMAIN files : g \in DOMAIN files' BY <1>9 DEF Skills!With
    <3>9. Skills!Exists(f) => Skills!Exists(f)' BY <3>8 DEF Skills!Exists
    <3> QED BY <1>1, <1>3, <1>10, <2>2, <2>4, <3>7, <3>8, <3>9, KeptOn
  <2> QED BY <2>3, <2>4
<1> QED BY <1>11, <1>12
------------------------------------------------------------------------------
LEMMA ProgressGoesOn ==
  ASSUME ProgressInv, SkillsInv, FilesOK, DataInv, [Skills!Next]_skillVars
  PROVE  ProgressInv'
<1> USE DEF Writing, AtFile, SkillsInv
<1> SUFFICES ASSUME skillPc' \in Writing \union {"done"}, ~opts'.dry,
                    NEW i \in 1..Len(plan'), NEW j \in 1..Len(plan'[i].todo)
             PROVE  Settled(i, j)'
  BY DEF ProgressInv, Settled
<1>1. CASE Len(plan') = 0 BY <1>1
<1>2. ASSUME UNCHANGED <<opts, plan>>, skillPc \in Writing \union {"done"}
      PROVE  i \in 1..Len(plan) /\ j \in 1..Len(plan[i].todo) /\ Settled(i, j)
  BY <1>2, ProgressIs
<1>3. ASSUME UNCHANGED <<opts, plan>>, ~Passed(i, j)' PROVE Settled(i, j)'
  BY <1>3 DEF Settled
<1>4. CASE Skills!Start
  <2>1. UNCHANGED <<opts, plan>> /\ at' = <<1, 0>> /\ skillPc' = "skill" BY <1>4 DEF Skills!Start
  <2>2. i \in Nat \ {0} /\ j \in Nat \ {0} BY <2>1 DEF PlanInv, TodoOK
  <2>3. at'[1] = 1 /\ at'[2] = 0 BY <2>1
  <2>4. ~Passed(i, j)' BY <2>1, <2>2, <2>3 DEF Passed
  <2> QED BY <1>3, <2>1, <2>4
<1>5. CASE Skills!StartSkill
  <2>1. UNCHANGED <<opts, plan>> /\ at' = <<at[1], 1>> /\ skillPc = "skill" /\ skillPc' = "file"
    BY <1>5 DEF Skills!StartSkill
  <2>2. i \in 1..Len(plan) /\ j \in 1..Len(plan[i].todo) /\ Settled(i, j) BY <1>2, <2>1
  <2>3. j \in Nat \ {0} /\ i \in Nat /\ at[1] \in Nat BY <2>1, <2>2 DEF PlanInv, TodoOK, WhereInv
  <2>4. at'[1] = at[1] /\ at'[2] = 1 BY <2>1
  <2>5. Passed(i, j)' => i < at[1] BY <2>1, <2>3, <2>4 DEF Passed
  <2>6. CASE ~(i < at[1]) BY <1>3, <2>1, <2>5, <2>6
  <2>7. CASE i < at[1]
    <3> SUFFICES ASSUME ~Temporary(Todo(i, j).path)' PROVE Kept(i, j)' BY DEF Settled
    <3>1. i # at[1] /\ Passed(i, j) BY <2>3, <2>7 DEF Passed
    <3>2. PICK f : f = Todo(i, j).path OBVIOUS
    <3>3. IsPath(f) /\ InDir(plan[i].dir, f) /\ IsList(plan[i].dir) BY <2>2, <3>2, TodoIs
    <3>4. Kept(i, j) BY <2>1, <2>2, <3>1 DEF Settled, Todo, Temporary
    <3>5. ThereStill(f)
      <4>1. CASE files' = files BY <4>1 DEF ThereStill, Skills!Exists
      <4>2. CASE RemovesAll BY <2>2, <3>1, <3>3, <4>2, ThereAfterRemove DEF IsPath
      <4>3. ~(WritesTemp \/ Renames \/ RemovesTemp \/ SetsMode)
        BY <2>1 DEF WritesTemp, Renames, RemovesTemp, SetsMode
      <4> QED BY <4>1, <4>2, <4>3, FileStep
    <3>6. Again(i, j) => Again(i, j)'
      <4> SUFFICES ASSUME NEW k \in 1..Len(plan[i].todo), k > j, Todo(i, k).path = Todo(i, j).path
                   PROVE  Again(i, j)'
        BY DEF Again
      <4>1. Passed(i, k)' BY <2>1, <2>4, <2>7 DEF Passed
      <4> QED BY <2>1, <4>1 DEF Again, Todo
    <3> QED BY <2>1, <3>2, <3>4, <3>5, <3>6, KeptIfThere
  <2> QED BY <2>6, <2>7
<1>6. CASE Skills!Skip
  <2>1. /\ UNCHANGED <<opts, plan, files>> /\ skillPc = "file" /\ Skills!NextFile
        /\ opts.skip /\ Skills!Exists(Skills!File.path)
    BY <1>6 DEF Skills!Skip
  <2>2. i \in 1..Len(plan) /\ j \in 1..Len(plan[i].todo) /\ Settled(i, j) BY <1>2, <2>1
  <2>3. Passed(i, j)' => Passed(i, j) \/ (i = at[1] /\ j = at[2]) BY <2>1, <2>2, NextPassed
  <2>4. i = at[1] /\ j = at[2] => Skills!Exists(Todo(i, j).path)
    BY <2>1 DEF Todo, Skills!File, Skills!Skill
  <2>5. Passed(i, j)' /\ ~Temporary(Todo(i, j).path) => Skills!Exists(Todo(i, j).path)
    BY <2>1, <2>2, <2>3, <2>4 DEF Settled, Kept
  <2> QED BY <2>1, <2>5 DEF Settled, Kept, Todo, Temporary, Skills!Exists
<1>7. CASE Skills!ReadText
  <2>1. UNCHANGED <<opts, plan, at, files>> /\ skillPc = "file" /\ skillPc' = "temp"
    BY <1>7 DEF Skills!ReadText
  <2>2. i \in 1..Len(plan) /\ j \in 1..Len(plan[i].todo) /\ Settled(i, j) BY <1>2, <2>1
  <2>3. (Passed(i, j)' <=> Passed(i, j)) /\ (Again(i, j) => Again(i, j)') BY <2>1, StaysPassed
  <2>4. PICK f : f = Todo(i, j).path OBVIOUS
  <2>5. ThereStill(f) BY <2>1 DEF ThereStill, Skills!Exists
  <2>6. Kept(i, j) => Kept(i, j)' BY <2>1, <2>3, <2>4, <2>5, KeptIfThere
  <2> QED BY <2>1, <2>2, <2>3, <2>6 DEF Settled, Todo, Temporary
<1>8. CASE Skills!WriteTemp
  <2>1. /\ UNCHANGED <<opts, plan, at>> /\ skillPc = "temp" /\ skillPc' = "rename"
        /\ files' = Skills!With(files, Skills!Temp(Skills!File.path), data, FALSE)
    BY <1>8 DEF Skills!WriteTemp
  <2>2. i \in 1..Len(plan) /\ j \in 1..Len(plan[i].todo) /\ Settled(i, j) BY <1>2, <2>1
  <2>3. (Passed(i, j)' <=> Passed(i, j)) /\ (Again(i, j) => Again(i, j)') BY <2>1, StaysPassed
  <2>4. PICK f : f = Todo(i, j).path OBVIOUS
  <2>5. PICK q : q = Skills!Temp(Skills!File.path) OBVIOUS
  <2>6. Temporary(q)
    <3>1. IsPath(Skills!File.path) BY <2>1, FileNow
    <3> QED BY <2>5, <3>1, TempOf
  <2>7. ASSUME ~Temporary(f) PROVE ThereStill(f)
    <3>1. f # q BY <2>6, <2>7
    <3> QED BY <2>1, <2>5, <3>1, ThereAfterWrite
  <2>8. ~Temporary(f) /\ Kept(i, j) => Kept(i, j)' BY <2>1, <2>3, <2>4, <2>7, KeptIfThere
  <2> QED BY <2>1, <2>2, <2>3, <2>4, <2>8 DEF Settled, Todo, Temporary
<1>9. CASE Skills!Rename
  <2>1. UNCHANGED <<opts, plan>> /\ skillPc = "rename" BY <1>9 DEF Skills!Rename
  <2> QED BY <1>2, <1>9, <2>1, RenameSettles
<1>10. CASE Skills!SetMode
  <2>1. UNCHANGED <<opts, plan>> /\ skillPc = "mode" BY <1>10 DEF Skills!SetMode
  <2> QED BY <1>2, <1>10, <2>1, ModeSettles
<1>11. CASE UNCHANGED skillVars
  <2>1. UNCHANGED <<opts, plan, at, files, skillPc>> BY <1>11 DEF skillVars
  <2>2. i \in 1..Len(plan) /\ j \in 1..Len(plan[i].todo) /\ Settled(i, j) BY <1>2, <2>1
  <2> QED BY <2>1, <2>2 DEF Settled, Kept, Again, Holds, Passed, AtOnce, Todo, Temporary, Skills!Exists,
       Skills!IsScript, Skills!LowerPath, Skills!Small
<1> QED BY <1>1, <1>4, <1>5, <1>6, <1>7, <1>8, <1>9, <1>10, <1>11, ProgressStep
------------------------------------------------------------------------------
(* Of the files of a skill with one name, the last.                          *)
LEMMA LastUse ==
  ASSUME PlanInv, NEW i \in 1..Len(plan), NEW j \in 1..Len(plan[i].todo), NEW f,
         f = Todo(i, j).path
  PROVE  \E m \in 1..Len(plan[i].todo) :
           /\ Todo(i, m).path = f /\ Todo(i, m).source = Skills!LastSource(f)
           /\ \A k \in 1..Len(plan[i].todo) : k > m => Todo(i, k).path # f
<1>1. IsList(f) /\ InDir(plan[i].dir, f) BY TodoIs DEF IsPath
<1>2. \A k \in Skills!Writers(f) : k = i
  <2> TAKE k \in Skills!Writers(f)
  <2>1. PICK l \in 1..Len(plan[k].todo) : k \in 1..Len(plan) /\ Todo(k, l).path = f BY DEF Skills!Writers, Todo
  <2>2. InDir(plan[k].dir, f) BY <2>1, TodoIs
  <2> QED BY <1>1, <2>1, <2>2, DirsApart
<1>3. i \in Skills!Writers(f) BY DEF Skills!Writers, Todo
<1>4. (CHOOSE k \in Skills!Writers(f) : TRUE) = i BY <1>2, <1>3
<1> DEFINE todo == plan[i].todo
           uses == {k \in 1..Len(todo) : todo[k].path = f}
<1>5. Skills!LastSource(f) = todo[CHOOSE k \in uses : \A l \in uses : l <= k].source
  BY <1>4 DEF Skills!LastSource
<1>6. PICK n \in Nat : n = Len(todo) BY DEF PlanInv, TodoOK
<1>7. uses \subseteq 1..n /\ j \in uses BY <1>6 DEF Todo
<1> HIDE DEF uses
<1>8. PICK m : m = CHOOSE k \in uses : \A l \in uses : l <= k OBVIOUS
<1>9. m \in uses /\ \A l \in uses : l <= m
  <2>1. \E k \in uses : \A l \in uses : l <= k BY <1>6, <1>7, Highest
  <2> QED BY <1>8, <2>1
<1>10. Skills!LastSource(f) = Todo(i, m).source BY <1>5, <1>8 DEF Todo
<1>11. \A k \in 1..n : k > m => k \notin uses BY <1>7, <1>9
<1> QED BY <1>6, <1>9, <1>10, <1>11 DEF uses, Todo

LEMMA InstalledHolds ==
  ASSUME SkillsInv, FilesOK, SkipInv, ProgressInv
  PROVE  Skills!InstalledIsWhole
<1> USE DEF SkillsInv
<1>1. \A f : Skills!IsSuffix(TempSuffix, Skills!Last(f)) <=> Temporary(f)
  BY DEF Temporary, Skills!IsSuffix, IsSuffix, Skills!IsPrefix, IsPrefix, Skills!Reverse, Reverse,
         Skills!Last, Last
<1>2. \A f \in DOMAIN files : /\ ~Temporary(f) => files[f].text.whole
                              /\ files[f].exec => files[f].text.of \notin GoodUrls
  BY DEF FilesOK, FileOK
<1>3. opts.skip /\ ~opts.clean => \A f \in DOMAIN before : Temporary(f) \/ f \notin Skills!Changed
  BY DEF SkipInv
<1>4. ASSUME skillPc = "done", ~opts.dry, NEW i \in 1..Len(plan),
             NEW f \in {g.path : g \in Range(plan[i].todo)}, ~Temporary(f)
      PROVE  \/ opts.skip /\ Skills!Exists(f)
             \/ /\ ~opts.skip /\ f \in DOMAIN files /\ files[f].text.of = Skills!LastSource(f)
                /\ files[f].exec = (~opts.remote /\ Skills!IsScript(Skills!LastSource(f)))
  <2>1. PICK j \in 1..Len(plan[i].todo) : f = Todo(i, j).path
    <3>1. DOMAIN plan[i].todo = 1..Len(plan[i].todo) BY DEF PlanInv, TodoOK
    <3> QED BY <1>4, <3>1 DEF Range, Todo
  <2>2. PICK m \in 1..Len(plan[i].todo) :
           /\ Todo(i, m).path = f /\ Todo(i, m).source = Skills!LastSource(f)
           /\ \A k \in 1..Len(plan[i].todo) : k > m => Todo(i, k).path # f
    BY <2>1, LastUse
  <2>3. Kept(i, m)
    <3>1. skillPc \in Writing \union {"done"} /\ Passed(i, m) BY <1>4 DEF Passed
    <3>2. ~Temporary(Todo(i, m).path) BY <1>4, <2>2
    <3> QED BY <1>4, <2>2, <3>1, <3>2 DEF ProgressInv
  <2>4. ~Again(i, m) BY <2>2 DEF Again
  <2> QED BY <2>2, <2>3, <2>4 DEF Kept, Holds
<1>5. ASSUME skillPc = "done", ~opts.dry, NEW i \in 1..Len(plan),
             NEW f \in {g.path : g \in Skills!Range(plan[i].todo)}
      PROVE  \/ Skills!IsSuffix(TempSuffix, Skills!Last(f))
             \/ /\ f \in DOMAIN files
                /\ ~opts.skip => /\ files[f].text.of = Skills!LastSource(f)
                                 /\ files[f].exec = (~opts.remote /\ Skills!IsScript(Skills!LastSource(f)))
             \/ opts.skip /\ Skills!Exists(f)
  <2>1. f \in {g.path : g \in Range(plan[i].todo)} BY <1>5 DEF Skills!Range, Range
  <2>2. CASE Temporary(f) BY <1>1, <2>2
  <2>3. CASE ~Temporary(f) BY <1>4, <1>5, <2>1, <2>3
  <2> QED BY <2>2, <2>3
<1> QED BY <1>1, <1>2, <1>3, <1>5 DEF Skills!InstalledIsWhole

InstallInv == SkillsInv /\ FilesOK /\ DataInv /\ SkipInv /\ ProgressInv

LEMMA InstallInvariance == Spec => []InstallInv
<1>1. Init => InstallInv
  <2> SUFFICES ASSUME Init PROVE InstallInv OBVIOUS
  <2>1. Skills!Init BY DEF Init
  <2>2. SkillsInv /\ Skills!Changed = {} BY <2>1, SkillsInit
  <2>3. FilesOK
    <3>1. files = AtFirst BY <2>1 DEF Skills!Init
    <3>2. \A f \in DOMAIN AtFirst : /\ f \in Seq(Range(f))
                                    /\ IsSuffix(TempSuffix, Last(f)) \/ AtFirst[f].text.whole
                                    /\ AtFirst[f].exec => AtFirst[f].text.of \notin GoodUrls
      BY SkillsAssumption
    <3> QED BY <3>1, <3>2 DEF FilesOK, FileOK, IsList, Temporary
  <2>4. skillPc = "idle" BY <2>1 DEF Skills!Init
  <2> QED BY <2>2, <2>3, <2>4 DEF InstallInv, DataInv, SkipInv, ProgressInv, Writing, AtFile
<1>2. InstallInv /\ [Next]_vars => InstallInv'
  <2> SUFFICES ASSUME InstallInv, [Next]_vars PROVE InstallInv' OBVIOUS
  <2>1. [Skills!Next]_skillVars BY PartsRest
  <2> QED BY <2>1, SkillsInvGoesOn, FilesGoOn, DataGoesOn, SkipGoesOn, ProgressGoesOn DEF InstallInv
<1> QED BY <1>1, <1>2, PTL DEF Spec

(* Wherever an installation stops, no file under its own name is partial and *)
(* none that was downloaded is executable; with --skip-existing what was in  *)
(* place stays; one that ends well has put the last source of every file of  *)
(* its plan in place, though two sources share a name.                       *)
THEOREM SkillsInstalled == Spec => []InstalledIsWhole
<1>1. InstallInv => InstalledIsWhole BY InstalledHolds DEF InstallInv, InstalledIsWhole
<1> QED BY InstallInvariance, <1>1, PTL
=============================================================================
