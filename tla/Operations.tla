------------------------------ MODULE Operations ------------------------------
(* Five parts of the program that share no state with one another, each a    *)
(* module of its own: the record files (MaepLog), the tool calls of a run    *)
(* (ToolCalls), a message to a contact (Delivery), the installation of       *)
(* skills (SkillInstall) and a turn of the Telegram bot (TelegramTurn). A    *)
(* behaviour is one of one part; the others rest.                            *)
EXTENDS Processes, Integers, Sequences, SequencesExt

CONSTANTS Old, New, From, At, Torn, Bad, AnySubject, Limits, MaxLists, MaxFaults
CONSTANTS Configs, FetchCalls, Urls, WritePaths, ReadPaths, WriteBases, CacheBases, DeniedPaths,
          Texts, Slash, User, NoPath, Part, GoRedirects, MaxCalls,
          WorkDir, Up, CacheAlias, StateAlias
CONSTANTS Cases, NoPayload
CONSTANTS Installs, SkillsDir, Elsewhere, BuiltIns, Assets, ShellSuffix, ScriptsDir, SkillFile,
          TempSuffix, Names, NameChars, ReservedNames, Reviews, GoodUrls, NoUrl, Lower,
          MaxReviewed, AtFirst, MaxInstalls
CONSTANTS Feeds, AllowedChats, CommandsAt, BotName, Aliases, Junk, Greetings, Openers, Askers,
          MaxPrefix, Users, UserLimit, CacheDir, FilesDir, VoiceFile, EmojiOf, AllowedEmoji,
          Intents, MediaPaths, MaxMedia, MaxRestarts

\* The records of the earlier version are in order, and lines that are none are not records.
ASSUME LogAssumption ==
  /\ Old \in Seq(Range(Old)) /\ \A i, j \in 1..Len(Old) : Old[i] = Old[j] => i = j
  /\ Range(Old) \intersect New = {}
  /\ {Torn, Bad} \intersect (Range(Old) \union New) = {} /\ Torn # Bad
  /\ \A r \in Range(Old) \union New : At[r] \in Int
  /\ Limits \subseteq Nat

ASSUME FeedsAreSequences == \A f \in Feeds : f \in Seq(Range(f))
ASSUME AllowedEmojiAssumption == AllowedEmoji \in Seq(Range(AllowedEmoji))

\* Files and paths are sequences, and the directories the program uses are clean.
ASSUME TurnFilesAssumption ==
  /\ \A f \in Feeds : \A m \in Range(f) : /\ m.files \in Seq(Range(m.files))
                                          /\ m.reply.files \in Seq(Range(m.reply.files))
  /\ \A p \in MediaPaths : p.segs \in Seq(Range(p.segs))
  /\ CacheDir \in Seq(Range(CacheDir) \ {Up})
  /\ VoiceFile \in Seq(Range(VoiceFile) \ {Up}) /\ VoiceFile # <<>>

ASSUME ToolPathsAssumption ==
  /\ \A bases \in {WriteBases, CacheBases} :
       /\ bases \in Seq(Range(bases))
       /\ \A b \in Range(bases) : b \in Seq(Range(b))
  /\ Range(CacheBases) \subseteq Range(WriteBases)
  /\ \A p \in WritePaths \union {c.path : c \in FetchCalls} : p.segs \in Seq(Range(p.segs))

\* Slashes part the segments of a URL's path, and are in none of them.
ASSUME UrlPathsAssumption ==
  \A u \in {c.url : c \in FetchCalls} \union Urls \union UNION {c.profile.prefixes : c \in Configs} :
    /\ u.path \in Seq(Range(u.path))
    /\ \A seg \in Range(u.path) : seg \in Seq(Range(seg) \ {Slash})

\* The chats of users have no negative numbers; a session is as Delivery says.
ASSUME CasesAssumption == \A c \in Cases :
  /\ LET chats == c.route.contact.chats
     IN /\ chats \in Seq(Range(chats))
        /\ \A x \in Range(chats) : x.id \in Int /\ (x.type = "private" => x.id >= 0)
  /\ c.route.given \in Seq({"direct", "relay"}) /\ c.route.known \in Seq({"direct", "relay"})
  /\ c.input.session \in {"absent", "blank", "not text", "v7", "other"}

\* Skills have a name of their own and files; where they go is absolute and clean. What is
\* embedded was not downloaded, and what is in place is whole.
HasTexts(p) == p \in Seq(Range(p)) /\ \A seg \in Range(p) : seg \in Seq(Range(seg))

ASSUME SkillsAssumption ==
  /\ \A root \in {SkillsDir, Elsewhere} : root \in Seq(Range(root) \ {Up})
  /\ BuiltIns \in Seq(Range(BuiltIns)) /\ BuiltIns # <<>> /\ <<>> \notin Range(BuiltIns)
  /\ \A i, j \in 1..Len(BuiltIns) : BuiltIns[i] = BuiltIns[j] => i = j
  /\ \A s \in Range(BuiltIns) :
       /\ Assets[s] \in Seq(Range(Assets[s])) /\ Assets[s] # <<>>
       /\ \A p \in Range(Assets[s]) : p # <<>> /\ HasTexts(p) /\ <<s>> \o p \notin GoodUrls
  /\ \A r \in Reviews : r \in Seq(Range(r)) /\ \A e \in Range(r) : HasTexts(e.path.segs)
  /\ \A text \in Names \union Range(BuiltIns) \union {SkillFile, TempSuffix} : text \in Seq(Range(text))
  /\ TempSuffix # <<>> /\ MaxReviewed \in Nat
  /\ \A f \in DOMAIN AtFirst :
       /\ f \in Seq(Range(f))
       /\ IsSuffix(TempSuffix, Last(f)) \/ AtFirst[f].text.whole
       /\ AtFirst[f].exec => AtFirst[f].text.of \notin GoodUrls

VARIABLE part  \* the part that runs
VARIABLES kind, legacy, left, hasLog, log, lock, logCall, logPc, rest, acked, begun, due,
          found, mixed, hidden, lists, faults
VARIABLES config, toolCall, toolPc, req, hops, answer, disk, told, shown, made
VARIABLES input, route, stage, payload, target, dial, tried
VARIABLES opts, skillPc, chosen, cursor, name, plan, at, data, files, agreed, before, installs
VARIABLES strict, feed, confirmed, offset, batch, turn, usernames, cache, jobs, run, handled,
          earlier, restarts

logVars == <<kind, legacy, left, hasLog, log, lock, logCall, logPc, rest, acked, begun, due,
             found, mixed, hidden, lists, faults>>
toolVars == <<config, toolCall, toolPc, req, hops, answer, disk, told, shown, made>>
mailVars == <<input, route, stage, payload, target, dial, tried>>
skillVars == <<opts, skillPc, chosen, cursor, name, plan, at, data, files, agreed, before,
               installs>>
turnVars == <<strict, feed, confirmed, offset, batch, turn, usernames, cache, jobs, run, handled,
              earlier, restarts>>
vars == <<part, logVars, toolVars, mailVars, skillVars, turnVars>>

Log == INSTANCE MaepLog WITH call <- logCall, pc <- logPc
Tools == INSTANCE ToolCalls WITH call <- toolCall, pc <- toolPc
Mail == INSTANCE Delivery
Skills == INSTANCE SkillInstall WITH pc <- skillPc
Turns == INSTANCE TelegramTurn

\* What a part that rests is set to.
AnyConfig == CHOOSE c \in Configs : TRUE
AnyCase == CHOOSE c \in Cases : TRUE
AnyFeed == CHOOSE f \in Feeds : TRUE

Init ==
  /\ part \in {"log", "tools", "mail", "skills", "turns"}
  /\ IF part = "log" THEN TRUE ELSE kind = "events"
  /\ IF part = "tools" THEN TRUE ELSE config = AnyConfig
  /\ IF part = "mail" THEN TRUE ELSE input = AnyCase.input /\ route = AnyCase.route
  /\ IF part = "turns" THEN TRUE ELSE feed = AnyFeed /\ strict = FALSE
  /\ Log!Init /\ Tools!Init /\ Mail!Init /\ Skills!Init /\ Turns!Init

LogStep ==
  part = "log" /\ Log!Next /\ UNCHANGED <<part, toolVars, mailVars, skillVars, turnVars>>
ToolStep ==
  part = "tools" /\ Tools!Next /\ UNCHANGED <<part, logVars, mailVars, skillVars, turnVars>>
MailStep ==
  part = "mail" /\ Mail!Next /\ UNCHANGED <<part, logVars, toolVars, skillVars, turnVars>>
SkillStep ==
  part = "skills" /\ Skills!Next /\ UNCHANGED <<part, logVars, toolVars, mailVars, turnVars>>
TurnStep ==
  part = "turns" /\ Turns!Next /\ UNCHANGED <<part, logVars, toolVars, mailVars, skillVars>>

Next == LogStep \/ ToolStep \/ MailStep \/ SkillStep \/ TurnStep

Spec == Init /\ [][Next]_vars
------------------------------------------------------------------------------
(* Types, of the part that runs. *)
TypeOK == CASE part = "log" -> Log!TypeOK
            [] part = "tools" -> Tools!TypeOK
            [] part = "mail" -> Mail!TypeOK
            [] part = "skills" -> Skills!TypeOK
            [] part = "turns" -> Turns!TypeOK

(* Safety, from MaepLog: a list of a record file has every acknowledged and   *)
(* every migrated record that it asks for, and none twice.                    *)
EveryListIsWhole == part = "log" => Log!EveryListIsWhole

(* Safety, from ToolCalls: every request of url_fetch, redirects included, is *)
(* one its profile and the guard allow.                                       *)
EveryRequestAllowed == part = "tools" => Tools!EveryRequestAllowed

(* Safety, from Delivery: a message its sender accepts is not refused for its *)
(* form by a later stage, and arrives with its session.                       *)
NeverRefusedLate == part = "mail" => Mail!NeverRefusedLate

(* Safety, from Delivery: a person is written to only where that is allowed,  *)
(* and a group only where public messages are, but for one named by its       *)
(* number as the contact's id.                                                *)
GroupNeedsConsent == part = "mail" => Mail!GroupNeedsConsent

(* The configuration's word for it, from Delivery: public contexts are        *)
(* avoided where they are not allowed, named by their number or not. (The     *)
(* code breaks it; no run checks it.)                                         *)
GroupsAvoided == part = "mail" => Mail!GroupsAvoided

(* Safety, from SkillInstall: only agreed skills change, by agreed calls.     *)
NothingWithoutConsent == part = "skills" => Skills!NothingWithoutConsent

(* Safety, from SkillInstall: installed files are whole, and downloaded ones  *)
(* are never executable.                                                      *)
InstalledIsWhole == part = "skills" => Skills!InstalledIsWhole

(* Safety, from TelegramTurn: every update is handled in order, and once.     *)
EveryUpdateInOrder == part = "turns" => Turns!EveryUpdateInOrder

(* Safety, from TelegramTurn: in a group only what is for the bot runs.       *)
OnlyAddressedRun == part = "turns" => Turns!OnlyAddressedRun

(* Safety, from ToolCalls and TelegramTurn: the tools write below their base  *)
(* directories only, and the files they report, or that a Telegram job names, *)
(* are whole.                                                                 *)
FilesAreWhole == /\ part = "tools" => Tools!SavedIsWhole
                 /\ part = "turns" => Turns!FilesAreWhole

(* Safety, from TelegramTurn: a job that is done was told one end, and after  *)
(* a reaction only progress and an error.                                     *)
OneAnswer == part = "turns" => Turns!OneAnswer

(* The documents' word for it, from TelegramTurn: no text after a reaction.   *)
(* (The code breaks it; no run checks it.)                                    *)
NoWordsAfterReaction == part = "turns" => Turns!NoWordsAfterReaction
==============================================================================
