----------------------------- MODULE TelegramTurn -----------------------------
(* From an update of Telegram to its answer: long polling, the commands and  *)
(* the addressing of group messages, the files of a message, the job, and    *)
(* the run that reacts, sends media or answers. The profile of the agent is  *)
(* set up and one chat's jobs run at a time (TelegramChat has the rest).     *)
EXTENDS PathPolicy, FiniteSets

CONSTANTS Feeds,        \* the sequences of messages that may arrive
          AllowedChats, \* empty: every chat is
          CommandsAt,   \* of a command with @ and the name of any bot, what is left
          BotName, Aliases, Junk, Greetings, Openers, Askers,  \* words of a text
          MaxPrefix,    \* telegram.smart_addressing_max_chars, in words
          Users,        \* usernames, in alphabetical order
          UserLimit,    \* mentionUserSnapshotLimit
          CacheDir, FilesDir, VoiceFile,
          EmojiOf,      \* the emoji of each category of reactions
          AllowedEmoji, \* reactions.allow, in order
          Intents,      \* what InferIntent may find in a task
          MediaPaths,   \* the paths a run may send
          MaxMedia,     \* bound: files and voices sent in a run
          MaxRestarts   \* bound

VARIABLES strict,     \* telegram.group_trigger_mode
          feed,       \* the updates that arrive, in order
          confirmed,  \* the server has dropped the updates before this one
          offset,     \* the bot asks for updates from this one on
          batch,      \* the updates fetched and not handled yet
          turn,       \* the update being handled
          usernames,      \* the usernames seen in each group
          cache,      \* the files below CacheDir, and whether each is whole
          jobs, run,
          handled,    \* history: the updates taken since the start
          earlier,     \* history: the last update taken before it
          restarts

vars == <<strict, feed, confirmed, offset, batch, turn, usernames, cache, jobs, run, handled, earlier,
          restarts>>

Chats == UNION {{m.chat : m \in Range(f)} : f \in Feeds}
Allowed(c) == AllowedChats = {} \/ c \in AllowedChats

NoTurn == [pc |-> "none"]
NoRun == [pc |-> "none", did |-> {}, late |-> {}, reaction |-> "", sent |-> {}]
NoneKnown == [c \in Chats |-> {}]

Init == /\ strict \in BOOLEAN /\ feed \in Feeds
        /\ confirmed = 1 /\ cache = <<>> /\ earlier = 0 /\ restarts = 0
        /\ offset = 0 /\ batch = <<>> /\ turn = NoTurn /\ jobs = <<>> /\ run = NoRun
        /\ usernames = NoneKnown /\ handled = <<>>
------------------------------------------------------------------------------
\* What a message asks for. Its text is a sequence of words.
\* splitCommand, normalizeSlashCommand: a name after @ is dropped, whosever it is.
Command(m) ==
  LET said == IF m.text = <<>> THEN "none" ELSE Head(m.text)
      word == IF said \in DOMAIN CommandsAt THEN CommandsAt[said] ELSE said
  IN IF word \in {"/start", "/mem", "/reset", "/ask"} THEN word ELSE "none"

\* stripBotMentions: the first one
Strip(text) == IF BotName \in Range(text)
                 THEN RemoveAt(text, Min({i \in 1..Len(text) : text[i] = BotName}))
                 ELSE text

Dropped == [how |-> "drop", text |-> <<>>]
Task(text) == [how |-> "task", text |-> text]

\* trimLeadingSeparators, skipLeadingAddressingJunk
FirstWord(text) == Min({i \in 1..Len(text) : text[i] \notin Junk} \union {Len(text) + 1})
TrimLeading(text) == SubSeq(text, FirstWord(text), Len(text))

\* looksLikeGreeting, punctuation after it aside
LooksLikeGreeting(text) == Head(text) \in Greetings /\ Range(Tail(text)) \subseteq Junk

LooksLikeRequest(text) == text # <<>> /\ (Head(text) \in Openers \/ Range(text) \cap Askers # {})

\* matchAddressedAliasSmart: a name near the start, behind at most a greeting,
\* with a request after it.
Addressing(text) ==
  {i \in FirstWord(text)..Len(text) :
     LET prefix == SubSeq(text, FirstWord(text), i - 1)
     IN /\ text[i] \in Aliases
        /\ Len(prefix) <= MaxPrefix
        /\ prefix = <<>> \/ LooksLikeGreeting(prefix)
        /\ LooksLikeRequest(TrimLeading(SubSeq(text, i + 1, Len(text))))}

(* The reason decides nothing but what is logged: the model is asked about    *)
(* an alias in either case.                                                   *)
AliasReason(text) == IF Addressing(text) # {} THEN "alias_smart" ELSE "alias_uncertain"

\* groupTriggerDecision
GroupTrigger(m) ==
  CASE m.reply.to = "bot" -> IF m.text = <<>> /\ m.files = <<>> THEN Dropped ELSE Task(Strip(m.text))
    [] m.reply.to # "bot" /\ m.text # <<>> /\ (m.named \/ BotName \in Range(m.text)) ->
         Task(Strip(m.text))
    [] OTHER -> IF ~strict /\ Range(m.text) \cap Aliases # {}
                  THEN [how |-> AliasReason(m.text), text |-> m.text] ELSE Dropped

NothingAsked(m, text) == text = <<>> /\ m.files = <<>> /\ m.reply.to = "none"

Reading(m) ==
  CASE Command(m) \in {"/start", "/mem", "/reset"} \/ ~Allowed(m.chat) -> Dropped
    [] Command(m) = "/ask" /\ Allowed(m.chat) ->
         IF Tail(m.text) = <<>> THEN Dropped ELSE Task(Tail(m.text))
    [] Command(m) = "none" /\ Allowed(m.chat) /\ m.group ->
         LET d == GroupTrigger(m)
         IN IF d.how = "task" /\ NothingAsked(m, d.text) THEN Dropped ELSE d
    [] OTHER -> IF m.text = <<>> /\ m.files = <<>> THEN Dropped ELSE Task(m.text)

\* collectMentionCandidates, addKnownUsernames
Seen(m) == IF m.group THEN usernames[m.chat] \union (m.users \ {BotName}) ELSE usernames[m.chat]

\* mentionUsersSnapshot: the first ones in alphabetical order
Mentioned(m) ==
  LET known == {i \in DOMAIN Users : Users[i] \in usernames[m.chat]}
      first == {i \in known : Cardinality({j \in known : j <= i}) <= UserLimit}
  IN IF m.group THEN {Users[i] : i \in first} ELSE {}
------------------------------------------------------------------------------
\* The poll loop: a request confirms the updates before its offset.
Later(a, b) == IF a > b THEN a ELSE b
Polled == confirmed' = Later(confirmed, offset)

(* Variant: the last update of a batch is asked for again. *)
NextOffsetSame(ids) == IF ids = <<>> THEN offset ELSE Last(ids)

NextOffset(ids) == IF ids = <<>> THEN offset ELSE Last(ids) + 1

GetUpdates ==
  /\ turn = NoTurn /\ batch = <<>>
  /\ Polled
  /\ LET first == Later(confirmed, offset)
     IN \E last \in (first - 1)..Len(feed) :
          batch' = [i \in 1..(last + 1 - first) |-> first + i - 1]
  /\ offset' = NextOffset(batch')
  /\ UNCHANGED <<strict, feed, turn, usernames, cache, jobs, run, handled, earlier, restarts>>

\* The request fails, or its answer is lost: the offset stays.
GetUpdatesFails ==
  /\ turn = NoTurn /\ batch = <<>>
  /\ Polled
  /\ UNCHANGED <<strict, feed, offset, batch, turn, usernames, cache, jobs, run, handled, earlier,
                 restarts>>

\* The files of a message and of the one it replies to, each file once.
Dst(m, id, file) == CacheDir \o <<FilesDir, <<m.chat>>, <<id, file>>>>
Wanted(m) ==
  FoldLeft(LAMBDA want, f : IF f \in Range(m.files) THEN want
                            ELSE Append(want, Dst(m, m.reply.id, f)),
           [i \in DOMAIN m.files |-> Dst(m, m.id, m.files[i])], m.reply.files)

NewTurn(u, d) ==
  [pc |-> IF d.how = "task" THEN "files" ELSE "model", update |-> u, why |-> d.how,
   text |-> d.text, want |-> Wanted(feed[u]), got |-> <<>>]

Take ==
  /\ turn = NoTurn /\ batch # <<>>
  /\ LET u == Head(batch)
         m == feed[u]
         d == Reading(m)
     IN /\ turn' = IF d.how = "drop" THEN NoTurn ELSE NewTurn(u, d)
        /\ usernames' = [usernames EXCEPT ![m.chat] =
                       IF Command(m) = "/reset" /\ Allowed(m.chat) THEN {} ELSE Seen(m)]
        /\ handled' = Append(handled, u)
  /\ batch' = Tail(batch)
  /\ UNCHANGED <<strict, feed, confirmed, offset, cache, jobs, run, earlier, restarts>>

(* Variant: how sure the model is does not matter. *)
AcceptedUnsure(answer) == answer.ok /\ answer.addressed /\ Strip(answer.text) # <<>>

Accepted(answer) == /\ answer.ok /\ answer.addressed /\ answer.sure
                    /\ Strip(answer.text) # <<>>

\* addressingDecisionViaLLM; a task it gives for a message that is not for the
\* bot is dropped.
ModelAnswers ==
  /\ turn.pc = "model"
  /\ \E ok, addressed, sure \in BOOLEAN, some \in BOOLEAN :
       LET answer == [ok |-> ok, addressed |-> addressed, sure |-> sure,
                      text |-> IF addressed /\ some THEN turn.text ELSE <<>>]
       IN turn' = IF Accepted(answer)
                    THEN [turn EXCEPT !.pc = "files", !.text = Strip(answer.text),
                                      !.why = IF sure THEN "model" ELSE "guess"]
                    ELSE NoTurn
  /\ UNCHANGED <<strict, feed, confirmed, offset, batch, usernames, cache, jobs, run, handled, earlier,
                 restarts>>
------------------------------------------------------------------------------
\* The files of a message, one by one.
Wants == Head(turn.want)
Taken == [turn EXCEPT !.pc = "files", !.want = Tail(@), !.got = Append(@, Wants)]

(* Variant: a file is downloaded where it will stay. *)
TempInPlace(file) == file

\* os.CreateTemp in the directory of the chat
Temp(file) == Append(Front(file), Append(Last(file), "tmp"))

Without(file) == [f \in DOMAIN cache \ {file} |-> cache[f]]
With(files, file, whole) == [f \in DOMAIN files \union {file} |-> IF f = file THEN whole ELSE files[f]]

FileThere ==
  /\ turn.pc = "files" /\ turn.want # <<>>
  /\ Wants \in DOMAIN cache
  /\ turn' = Taken
  /\ UNCHANGED <<strict, feed, confirmed, offset, batch, usernames, cache, jobs, run, handled, earlier,
                 restarts>>

BeginDownload ==
  /\ turn.pc = "files" /\ turn.want # <<>>
  /\ Wants \notin DOMAIN cache
  /\ cache' = With(cache, Temp(Wants), FALSE)
  /\ turn' = [turn EXCEPT !.pc = "download"]
  /\ UNCHANGED <<strict, feed, confirmed, offset, batch, usernames, jobs, run, handled, earlier,
                 restarts>>

Downloaded ==
  /\ turn.pc = "download"
  /\ cache' = With(Without(Temp(Wants)), Wants, TRUE)
  /\ turn' = Taken
  /\ UNCHANGED <<strict, feed, confirmed, offset, batch, usernames, jobs, run, handled, earlier,
                 restarts>>

\* The server, the size or the disk: the message is dropped with an error.
DownloadFails ==
  /\ turn.pc = "download" \/ (turn.pc = "files" /\ turn.want # <<>>)
  /\ cache' = IF turn.pc = "download" THEN Without(Temp(Wants)) ELSE cache
  /\ turn' = NoTurn
  /\ UNCHANGED <<strict, feed, confirmed, offset, batch, usernames, jobs, run, handled, earlier,
                 restarts>>

\* buildReplyContext
Quoted(m) == m.reply.to # "none" /\ (m.reply.said \/ m.reply.files # <<>>)

\* appendDownloadedFilesToTask and the texts that stand for a missing one
TaskText(m) == IF turn.text # <<>> THEN turn.text
               ELSE IF turn.got # <<>> THEN <<"process">>
               ELSE IF Quoted(m) THEN <<"proceed">> ELSE <<>>

Enqueue ==
  /\ turn.pc = "files" /\ turn.want = <<>>
  /\ LET m == feed[turn.update]
     IN jobs' = Append(jobs, [update |-> turn.update, why |-> turn.why, text |-> TaskText(m),
                              files |-> turn.got, quoted |-> Quoted(m), users |-> Mentioned(m)])
  /\ turn' = NoTurn
  /\ UNCHANGED <<strict, feed, confirmed, offset, batch, usernames, cache, run, handled, earlier,
                 restarts>>
------------------------------------------------------------------------------
\* The run of a job.
StartJob ==
  /\ run.pc = "none" /\ jobs # <<>>
  /\ run' = [pc |-> "intent", job |-> Head(jobs), did |-> {}, late |-> {}, reaction |-> "",
             sent |-> {}]
  /\ jobs' = Tail(jobs)
  /\ UNCHANGED <<strict, feed, confirmed, offset, batch, turn, usernames, cache, handled, earlier,
                 restarts>>

\* pickReactionEmoji
Emoji(category) ==
  IF category \notin DOMAIN EmojiOf THEN ""
  ELSE IF AllowedEmoji = <<>> \/ EmojiOf[category] \in Range(AllowedEmoji) THEN EmojiOf[category]
  ELSE Head(AllowedEmoji)

\* reactionBlockedByText: a question, or more than one line
Blocked(job) == "?" \in Range(job.text) \/ job.files # <<>> \/ job.quoted

\* decideTelegramReaction: "" for none. The categories an intent names, in its
\* deliverable, its goal and the task, come before the model's.
ReactionTo(job, intent, modelSays) ==
  LET named == SelectSeq(<<intent.deliverable, intent.goal, intent.task, modelSays,
                           IF intent.light THEN "seen" ELSE "">>, LAMBDA c : c # "")
      onlyTask == intent.deliverable = "" /\ intent.goal = "" /\ intent.task # ""
  IN IF job.text = <<>> \/ intent.asks \/ intent.heavy \/ Blocked(job) \/ named = <<>>
        \/ (onlyTask /\ intent.long)
       THEN "" ELSE Emoji(Head(named))

ReactAtOnce ==
  /\ run.pc = "intent"
  /\ \E intent \in Intents, modelSays \in DOMAIN EmojiOf \union {""} :
       LET emoji == ReactionTo(run.job, intent, modelSays)
       IN emoji # "" /\ run' = [run EXCEPT !.pc = "none", !.did = {"reaction"}, !.reaction = emoji]
  /\ UNCHANGED <<strict, feed, confirmed, offset, batch, turn, usernames, cache, jobs, handled, earlier,
                 restarts>>

\* There is no reaction to give, or Telegram refuses it.
ReactNot ==
  /\ run.pc = "intent"
  /\ run' = [run EXCEPT !.pc = "engine"]
  /\ UNCHANGED <<strict, feed, confirmed, offset, batch, turn, usernames, cache, jobs, handled, earlier,
                 restarts>>

\* telegram_react, which any allowed chat and message may be given
UseReact ==
  /\ run.pc = "engine"
  /\ \E c \in Chats, emoji \in Range(EmojiOf) :
       /\ Allowed(c)
       /\ AllowedEmoji = <<>> \/ emoji \in Range(AllowedEmoji)
       /\ run' = [run EXCEPT !.did = @ \union {"reaction"}, !.reaction = emoji]
  /\ UNCHANGED <<strict, feed, confirmed, offset, batch, turn, usernames, cache, jobs, handled, earlier,
                 restarts>>

\* NormalizeFileCacheDirPath and the path of a file to send
SendPath(path) ==
  IF Len(path.segs) > 1 /\ Head(path.segs) = CacheAlias THEN CacheDir \o Tail(path.segs)
  ELSE IF path.abs THEN path.segs ELSE CacheDir \o path.segs

Sends(c, file) == run' = [run EXCEPT !.sent = @ \union {[chat |-> c, file |-> file]}]

UseSendFile ==
  /\ run.pc = "engine" /\ Cardinality(run.sent) < MaxMedia
  /\ \E path \in MediaPaths :
       /\ path.segs # <<>> /\ IsWithinDir(CacheDir, SendPath(path))
       /\ Sends(feed[run.job.update].chat, Resolved(SendPath(path)).file)
  /\ UNCHANGED <<strict, feed, confirmed, offset, batch, turn, usernames, cache, jobs, handled, earlier,
                 restarts>>

\* telegram_send_voice is given no allowed chats: any will do. Without a path
\* it speaks a text into a file of its own.
UseSendVoice ==
  /\ run.pc = "engine" /\ Cardinality(run.sent) < MaxMedia
  /\ \E c \in Chats :
       \/ Sends(c, CacheDir \o VoiceFile)
       \/ \E path \in MediaPaths :
            /\ path.segs # <<>> /\ IsWithinDir(CacheDir, SendPath(path))
            /\ Sends(c, Resolved(SendPath(path)).file)
  /\ UNCHANGED <<strict, feed, confirmed, offset, batch, turn, usernames, cache, jobs, handled, earlier,
                 restarts>>

\* What is said to the chat, and what of it after a reaction was given.
Late(words) == IF "reaction" \in run.did THEN run.late \union words ELSE run.late
Says(pc, words) == run' = [run EXCEPT !.pc = pc, !.did = @ \union words, !.late = Late(words)]

\* planUpdateHook: a tool call that succeeds ends a step of the plan, and the
\* chat is told so, whatever the call was.
TellProgress ==
  /\ run.pc = "engine"
  /\ Says("engine", {"progress"})
  /\ UNCHANGED <<strict, feed, confirmed, offset, batch, turn, usernames, cache, jobs, handled, earlier,
                 restarts>>

\* The error is told, even if the run has reacted before.
RunFails ==
  /\ run.pc \in {"intent", "engine"}
  /\ Says("none", {"error"})
  /\ UNCHANGED <<strict, feed, confirmed, offset, batch, turn, usernames, cache, jobs, handled, earlier,
                 restarts>>

(* Variant: only a reaction before the run stands for the answer. *)
AnswerAnyway(memory) == {"text"} \union memory

\* A reaction stands for the answer, and keeps it out of memory.
Answer(memory) == IF "reaction" \in run.did THEN {} ELSE {"text"} \union memory

\* The memory may be off, have no user or fail; it is written before the text
\* is sent, in pieces of which the first that fails is the last.
RunEnds ==
  /\ run.pc = "engine"
  /\ \E memory \in {{}} \union (IF feed[run.job.update].user THEN {{"memory"}} ELSE {}) :
       Says("none", Answer(memory))
  /\ UNCHANGED <<strict, feed, confirmed, offset, batch, turn, usernames, cache, jobs, handled, earlier,
                 restarts>>

\* CleanupFileCacheDir at the start removes what is old or too much.
Restart ==
  /\ restarts < MaxRestarts
  /\ restarts' = restarts + 1
  /\ earlier' = IF handled = <<>> THEN earlier ELSE Later(earlier, Last(handled))
  /\ \E kept \in SUBSET DOMAIN cache : cache' = [f \in kept |-> cache[f]]
  /\ offset' = 0 /\ batch' = <<>> /\ turn' = NoTurn /\ jobs' = <<>> /\ run' = NoRun
  /\ usernames' = NoneKnown /\ handled' = <<>>
  /\ UNCHANGED <<strict, feed, confirmed>>

Next == \/ GetUpdates \/ GetUpdatesFails \/ Take \/ ModelAnswers
        \/ FileThere \/ BeginDownload \/ Downloaded \/ DownloadFails \/ Enqueue
        \/ StartJob \/ ReactAtOnce \/ ReactNot \/ UseReact \/ UseSendFile \/ UseSendVoice
        \/ TellProgress \/ RunFails \/ RunEnds \/ Restart

Spec == Init /\ [][Next]_vars
------------------------------------------------------------------------------
TypeOK == /\ feed \in Feeds /\ confirmed \in 1..(Len(feed) + 1) /\ offset \in 0..(Len(feed) + 1)
          /\ Range(batch) \subseteq 1..Len(feed)
          /\ turn.pc \in {"none", "model", "files", "download"}
          /\ \A f \in DOMAIN cache : cache[f] \in BOOLEAN
          /\ run.pc \in {"none", "intent", "engine"}
          /\ run.did \subseteq {"reaction", "progress", "text", "error", "memory"}
          /\ run.late \subseteq run.did

LastHandled == IF handled = <<>> THEN earlier ELSE Last(handled)

(* Safety. Whatever requests and answers are lost, the bot handles the       *)
(* updates one after the other, each once; after a restart it goes on no     *)
(* later than where it was, and the server drops none that was not handled.  *)
EveryUpdateInOrder ==
  /\ \A i \in 1..(Len(handled) - 1) : handled[i + 1] = handled[i] + 1
  /\ handled # <<>> => Head(handled) <= earlier + 1
  /\ confirmed <= Later(earlier, LastHandled) + 1

AllJobs == Range(jobs) \union (IF run.pc = "none" THEN {} ELSE {run.job})

(* Safety. A job comes from an allowed chat, and in a group from a message   *)
(* that is a command (whichever bot's name follows it), answers or names the *)
(* bot, or that has an alias and which the model, sure enough, found to be   *)
(* for the bot (never in strict mode); and it knows only users who were seen *)
(* in its chat since a /reset of it.                                         *)
OnlyAddressedRun == \A j \in AllJobs :
  LET m == feed[j.update]
      resets == {u \in Range(handled) : u < j.update /\ feed[u].chat = m.chat
                                        /\ Command(feed[u]) = "/reset"}
  IN /\ Allowed(m.chat)
     /\ m.group => \/ Command(m) = "/ask" \/ m.reply.to = "bot"
                   \/ m.named \/ BotName \in Range(m.text)
                   \/ ~strict /\ j.why = "model" /\ Range(m.text) \cap Aliases # {}
     /\ \A name \in j.users :
          \E u \in Range(handled) : /\ u <= j.update /\ \A r \in resets : r < u
                                    /\ feed[u].chat = m.chat /\ name \in feed[u].users

(* Safety. The files a job names lie in the directory of its chat and are    *)
(* whole, even if a download was cut short by a failure or a crash and the   *)
(* same message is handled again; what a run sends lies below the cache.     *)
FilesAreWhole ==
  /\ \A j \in AllJobs : \A f \in Range(j.files) :
       f \in DOMAIN cache /\ cache[f] /\ IsPrefix(CacheDir \o <<FilesDir, <<feed[j.update].chat>>>>, f)
  /\ \A s \in run.sent : IsStrictPrefix(CacheDir, s.file) /\ Up \notin Range(s.file)

(* Safety. A job that is done was told one end: the final text, an error, or *)
(* a reaction of an allowed emoji that stands for the text. The final text   *)
(* never comes with a reaction or an error; a run that reacted and then      *)
(* failed has the reaction and the error. After a reaction all that is said  *)
(* is the progress of the plan and an error, and only what was answered in   *)
(* words is remembered. (A restart ends a run without a word, and a reaction *)
(* may be to another message than the job's.)                                *)
OneAnswer ==
  /\ run # NoRun /\ run.pc = "none" =>
       \/ "text" \in run.did /\ run.did \cap {"reaction", "error"} = {}
       \/ "text" \notin run.did /\ run.did \cap {"reaction", "error"} # {}
  /\ run.pc # "none" => run.did \subseteq {"reaction", "progress"}
  /\ run.late \subseteq {"progress", "error"}
  /\ "memory" \in run.did => "text" \in run.did
  /\ run.reaction # "" => AllowedEmoji = <<>> \/ run.reaction \in Range(AllowedEmoji)

(* docs/feat/feat_20260205_telegram_reactions.md:176: where the reaction     *)
(* succeeds, no text is sent. No run checks it: the code breaks it by the     *)
(* progress and the errors OneAnswer allows.                                  *)
NoWordsAfterReaction == run.late = {}
==============================================================================
