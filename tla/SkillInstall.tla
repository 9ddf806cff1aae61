----------------------------- MODULE SkillInstall -----------------------------
(* "skills install": the built-in skills a user selects, or a remote skill   *)
(* that is shown, confirmed, reviewed by a model and confirmed again, copied *)
(* file by file into the skills directory.                                   *)
EXTENDS PathPolicy, FiniteSets

CONSTANTS Installs,    \* the ways the command may be called
          SkillsDir, Elsewhere,    \* its destination, and that of --dest
          BuiltIns,    \* the names of the embedded skills, sorted
          Assets,      \* the paths of the files of each of them, sorted
          ShellSuffix, ScriptsDir, \* ".sh" and "scripts", as letters
          SkillFile,   \* "SKILL.md"
          TempSuffix,  \* ".tmp"
          Names,       \* what a remote SKILL.md may give as its name
          NameChars, ReservedNames,
          Reviews,     \* the lists of additional files a review may return
          GoodUrls, NoUrl,
          Lower,       \* the small letter of each capital one
          MaxReviewed, \* additional files taken from a review (50)
          AtFirst,     \* the files in place before the first call
          MaxInstalls  \* bound: calls of the command

VARIABLES opts,    \* the call: its flags, and whether there is a terminal
          pc,
          chosen,  \* the skills selected on the terminal
          cursor,  \* where its cursor is
          name,    \* the name in the remote SKILL.md
          plan,    \* per skill: its directory and the files to write
          at,      \* the skill and the file in progress
          data,    \* the text of that file, in memory
          files,   \* the file system: a text and an execute bit per path
          agreed,  \* history: the confirmations given
          before,  \* history: the files when the call began
          installs

vars == <<opts, pc, chosen, cursor, name, plan, at, data, files, agreed, before, installs>>
terminal == <<chosen, cursor>>

NoInstall == [remote |-> FALSE]
NoText == [whole |-> FALSE]
Ended == {"idle", "done", "failed"}

TypeOK ==
  /\ opts \in Installs \union {NoInstall}
  /\ pc \in Ended \union {"select", "keys", "download", "confirm", "review", "confirm plan",
                          "install", "skill", "file", "temp", "rename", "mode"}
  /\ chosen \subseteq Range(BuiltIns)
  /\ cursor \in 1..Len(BuiltIns)
  /\ agreed \in 0..2
  /\ at[1] \in 0..Len(plan) /\ (pc \in {"file", "temp", "rename", "mode"} =>
                                  at[2] \in 1..Len(plan[at[1]].todo))

Init ==
  /\ opts = NoInstall /\ pc = "idle"
  /\ chosen = {} /\ cursor = 1
  /\ name = <<>> /\ plan = <<>> /\ at = <<0, 0>> /\ data = NoText
  /\ files = AtFirst /\ before = AtFirst
  /\ agreed = 0 /\ installs = 0

Root == IF opts.elsewhere THEN Elsewhere ELSE SkillsDir

\* A remote skill goes to the default directory only, and needs a model.
Begin ==
  /\ pc \in Ended /\ installs < MaxInstalls
  /\ opts' \in Installs
  /\ pc' = CASE ~opts'.remote -> "select"
             [] opts'.remote /\ (opts'.elsewhere \/ ~opts'.model) -> "failed"
             [] OTHER -> "download"
  /\ chosen' = {} /\ cursor' = 1
  /\ name' = <<>> /\ plan' = <<>> /\ at' = <<0, 0>> /\ data' = NoText
  /\ agreed' = 0 /\ before' = files
  /\ installs' = installs + 1
  /\ UNCHANGED files
------------------------------------------------------------------------------
\* The elements of a list that are in a set, in their order
Those(list, set) == FoldLeft(LAMBDA out, x : IF x \in set THEN Append(out, x) ELSE out, <<>>, list)

\* buildBuiltInSkillPlans
BuiltInPlan(skills) ==
  LET names == Those(BuiltIns, skills)
      Files(s) == [i \in 1..Len(Assets[s]) |->
                     [source |-> <<s>> \o Assets[s][i], path |-> Root \o <<s>> \o Assets[s][i]]]
  IN [i \in 1..Len(names) |-> [dir |-> Append(Root, names[i]), todo |-> Files(names[i])]]

Take(skills) == /\ plan' = BuiltInPlan(skills)
                /\ pc' = IF skills = {} THEN "done" ELSE "install"

\* SelectBuiltInSkills: without a terminal, and with --yes, all of them.
SelectAll ==
  /\ pc = "select"
  /\ opts.yes \/ ~opts.tty
  /\ chosen' = Range(BuiltIns)
  /\ Take(chosen')
  /\ UNCHANGED <<opts, cursor, name, at, data, files, agreed, before, installs>>

OpenTerminal ==
  /\ pc = "select"
  /\ ~opts.yes /\ opts.tty
  /\ chosen' = Range(BuiltIns)
  /\ pc' = "keys"
  /\ UNCHANGED <<opts, cursor, name, plan, at, data, files, agreed, before, installs>>

Toggled(set, s) == IF s \in set THEN set \ {s} ELSE set \union {s}

\* selectBuiltInSkillsInteractive: "a", "n", the space bar, the arrows
Key ==
  /\ pc = "keys"
  /\ \/ chosen' \in {Range(BuiltIns), {}, Toggled(chosen, BuiltIns[cursor])} /\ UNCHANGED cursor
     \/ cursor' \in {cursor - 1, cursor + 1} \intersect (1..Len(BuiltIns)) /\ UNCHANGED chosen
  /\ UNCHANGED <<opts, pc, name, plan, at, data, files, agreed, before, installs>>

ConfirmKeys ==
  /\ pc = "keys"
  /\ Take(chosen)
  /\ UNCHANGED <<opts, terminal, name, at, data, files, agreed, before, installs>>

\* "q", ^C, a lone escape, or the terminal fails
CancelKeys ==
  /\ pc = "keys"
  /\ chosen' = {}
  /\ pc' = "done"
  /\ UNCHANGED <<opts, cursor, name, plan, at, data, files, agreed, before, installs>>
------------------------------------------------------------------------------
\* The SKILL.md is fetched and shown; what ReadText fetches again may differ.
Download ==
  /\ pc = "download"
  /\ name' \in Names
  /\ pc' = "confirm"
  /\ UNCHANGED <<opts, terminal, plan, at, data, files, agreed, before, installs>>

ValidName(n) == /\ n # <<>> /\ Range(n) \subseteq NameChars
                /\ n \notin ReservedNames \union {Up}

\* confirmOnTTY: the answer is yes, anything else, or there is nobody to ask.
Confirm ==
  /\ pc \in {"confirm", "confirm plan"}
  /\ ~opts.yes /\ opts.tty
  /\ agreed' = agreed + 1
  /\ pc' = IF pc = "confirm plan" THEN "install" ELSE IF ValidName(name) THEN "review" ELSE "failed"
  /\ UNCHANGED <<opts, terminal, name, plan, at, data, files, before, installs>>

Unasked ==
  /\ pc \in {"confirm", "confirm plan"}
  /\ opts.yes
  /\ pc' = IF pc = "confirm plan" THEN "install" ELSE IF ValidName(name) THEN "review" ELSE "failed"
  /\ UNCHANGED <<opts, terminal, name, plan, at, data, files, agreed, before, installs>>

Declined ==
  /\ pc \in {"confirm", "confirm plan"}
  /\ ~opts.yes
  /\ pc' = "failed"
  /\ UNCHANGED <<opts, terminal, name, plan, at, data, files, agreed, before, installs>>

(* Variant: the path is looked at before it is cleaned. *)
SafeJoinRaw(root, path) ==
  LET segs == Clean(path)
  IN IF path.abs \/ segs = <<>> \/ Head(path.segs) = Up THEN Refused ELSE Resolved(root \o segs)

SafeJoin(root, path) ==
  LET segs == Clean(path)
  IN IF path.abs \/ segs = <<>> \/ Head(segs) = Up THEN Refused ELSE Resolved(root \o segs)

Small(x) == IF x \in DOMAIN Lower THEN Lower[x] ELSE x
LowerPath(path) == [i \in 1..Len(path) |-> [j \in 1..Len(path[i]) |-> Small(path[i][j])]]
SameKey(f, g) == f.source = g.source /\ LowerPath(f.path) = LowerPath(g.path)

\* buildRemoteFilePlan: entries without a URL or path are left out, and those
\* that repeat both; one bad entry refuses the skill.
Named(e) == e.url # NoUrl /\ (e.path.abs \/ e.path.segs # <<>>)
Acceptable(dir, e) == e.url \in GoodUrls /\ SafeJoin(dir, e.path).ok
RemoteFiles(dir, entries) ==
  FoldLeft(LAMBDA taken, e :
             LET f == [source |-> e.url, path |-> SafeJoin(dir, e.path).file]
             IN IF ~Named(e) \/ \E i \in 1..Len(taken) : SameKey(taken[i], f)
                  THEN taken ELSE Append(taken, f),
           <<>>, entries)

\* reviewRemoteSkill, which may fail as well (Fail)
Review ==
  /\ pc = "review"
  /\ \E review \in Reviews :
       LET dir == Append(Root, name)
           entries == SubSeq(review, 1, IF Len(review) > MaxReviewed THEN MaxReviewed ELSE Len(review))
           main == [source |-> opts.url, path |-> Append(dir, SkillFile)]
       IN IF \A e \in Range(entries) : Named(e) => Acceptable(dir, e)
            THEN /\ plan' = <<[dir |-> dir, todo |-> <<main>> \o RemoteFiles(dir, entries)]>>
                 /\ pc' = "confirm plan"
            ELSE pc' = "failed" /\ UNCHANGED plan
  /\ UNCHANGED <<opts, terminal, name, at, data, files, agreed, before, installs>>
------------------------------------------------------------------------------
DryRun ==
  /\ pc = "install" /\ opts.dry
  /\ pc' = "done"
  /\ UNCHANGED <<opts, terminal, name, plan, at, data, files, agreed, before, installs>>

Start ==
  /\ pc = "install" /\ ~opts.dry
  /\ at' = <<1, 0>>
  /\ pc' = "skill"
  /\ UNCHANGED <<opts, terminal, name, plan, data, files, agreed, before, installs>>

Inside(dir, f) == IsStrictPrefix(dir, f)
Without(fs, gone) == [f \in DOMAIN fs \ gone |-> fs[f]]
With(fs, f, text, exec) ==
  [g \in DOMAIN fs \union {f} |-> IF g = f THEN [text |-> text, exec |-> exec] ELSE fs[g]]

Skill == plan[at[1]]
File == Skill.todo[at[2]]

\* --clean: what RemoveAll could not remove is left without an error.
StartSkill ==
  /\ pc = "skill"
  /\ IF opts.clean
       THEN \E stuck \in SUBSET {f \in DOMAIN files : Inside(Skill.dir, f)} :
              files' = Without(files, {f \in DOMAIN files : Inside(Skill.dir, f)} \ stuck)
       ELSE UNCHANGED files
  /\ at' = <<at[1], 1>>
  /\ pc' = "file"
  /\ UNCHANGED <<opts, terminal, name, plan, data, agreed, before, installs>>

NextFile ==
  LET last == at[2] = Len(Skill.todo)
  IN /\ at' = CASE ~last -> <<at[1], at[2] + 1>>
                [] last /\ at[1] < Len(plan) -> <<at[1] + 1, 0>>
                [] OTHER -> at
     /\ pc' = CASE ~last -> "file" [] last /\ at[1] < Len(plan) -> "skill" [] OTHER -> "done"

Exists(path) == \E f \in DOMAIN files : IsPrefix(path, f)

Skip ==
  /\ pc = "file"
  /\ opts.skip /\ Exists(File.path)
  /\ NextFile
  /\ UNCHANGED <<opts, terminal, name, plan, data, files, agreed, before, installs>>

\* The embedded text, or what the server sends this time
ReadText ==
  /\ pc = "file"
  /\ ~(opts.skip /\ Exists(File.path))
  /\ data' = [of |-> File.source, whole |-> TRUE]
  /\ pc' = "temp"
  /\ UNCHANGED <<opts, terminal, name, plan, at, files, agreed, before, installs>>

(* Variant: the file is written under its own name. *)
TempInPlace(path) == path

Temp(path) == Append(Front(path), Last(path) \o TempSuffix)

\* A file where a directory is needed
Obstructed(path) == \E f \in DOMAIN files : IsStrictPrefix(f, path)

WriteTemp ==
  /\ pc = "temp"
  /\ ~Obstructed(File.path) /\ ~(\E f \in DOMAIN files : IsStrictPrefix(Temp(File.path), f))
  /\ files' = With(files, Temp(File.path), data, FALSE)
  /\ pc' = "rename"
  /\ UNCHANGED <<opts, terminal, name, plan, at, data, agreed, before, installs>>

Rename ==
  /\ pc = "rename"
  /\ ~(\E f \in DOMAIN files : IsStrictPrefix(File.path, f))
  /\ files' = With(Without(files, {Temp(File.path)}), File.path, data, FALSE)
  /\ data' = NoText
  /\ pc' = "mode"
  /\ UNCHANGED <<opts, terminal, name, plan, at, agreed, before, installs>>

\* builtinSkillFileMode; a file that was downloaded is never executable.
IsScript(path) == LET p == LowerPath(path)
                  IN IsSuffix(ShellSuffix, Last(p)) \/ ScriptsDir \in Range(Front(p))

SetMode ==
  /\ pc = "mode"
  /\ files' = With(files, File.path, files[File.path].text, ~opts.remote /\ IsScript(File.source))
  /\ NextFile
  /\ UNCHANGED <<opts, terminal, name, plan, data, agreed, before, installs>>

\* A step fails, or the process is killed: a temporary file may stay, whole or
\* in part; the error of a rename removes it.
Fail ==
  /\ pc \notin Ended \union {"keys", "select", "confirm", "confirm plan"}
  /\ pc' = "failed"
  /\ \/ UNCHANGED files
     \/ /\ pc = "temp" /\ ~Obstructed(File.path)
        /\ files' = With(files, Temp(File.path), [of |-> File.source, whole |-> FALSE], FALSE)
     \/ /\ pc = "rename"
        /\ files' = Without(files, {Temp(File.path)})
  /\ UNCHANGED <<opts, terminal, name, plan, at, data, agreed, before, installs>>

Next == \/ Begin \/ SelectAll \/ OpenTerminal \/ Key \/ ConfirmKeys \/ CancelKeys
        \/ Download \/ Confirm \/ Unasked \/ Declined \/ Review
        \/ DryRun \/ Start \/ StartSkill \/ Skip \/ ReadText \/ WriteTemp \/ Rename
        \/ SetMode \/ Fail

Spec == Init /\ [][Next]_vars
------------------------------------------------------------------------------
Changed == {f \in DOMAIN files \union DOMAIN before :
              f \in DOMAIN files /\ f \in DOMAIN before => files[f] # before[f]}
Agreed == IF opts.remote THEN {name} ELSE chosen

(* Safety. A call changes files only below the directories of the skills the *)
(* user selected or named, and only after every confirmation or with --yes;  *)
(* one that is cancelled, declined or a dry run changes none, and without    *)
(* --clean no file disappears but a temporary one.                           *)
NothingWithoutConsent == Changed # {} =>
  /\ ~opts.dry
  /\ opts.remote => /\ opts.yes \/ agreed = 2
                    /\ ~opts.elsewhere
  /\ \A f \in Changed : \E s \in Agreed : Inside(Append(Root, s), f) /\ Len(s) > 0
  /\ \A f \in DOMAIN before \ DOMAIN files : opts.clean \/ IsSuffix(TempSuffix, Last(f))

Writers(f) == {i \in 1..Len(plan) : \E j \in 1..Len(plan[i].todo) : plan[i].todo[j].path = f}
LastSource(f) ==
  LET todo == plan[CHOOSE i \in Writers(f) : TRUE].todo
      uses == {j \in 1..Len(todo) : todo[j].path = f}
  IN todo[CHOOSE j \in uses : \A k \in uses : k <= j].source

(* Safety. Whatever fails, no file is left in part under its own name, none  *)
(* that was downloaded is executable, and a file that --skip-existing found  *)
(* is as it was; after a call that ended well every file of the plan holds   *)
(* the whole of its last source, and scripts of built-in skills are          *)
(* executable. A file named like the temporary one of another is excepted.   *)
InstalledIsWhole ==
  /\ \A f \in DOMAIN files : /\ ~IsSuffix(TempSuffix, Last(f)) => files[f].text.whole
                             /\ files[f].exec => files[f].text.of \notin GoodUrls
  /\ opts # NoInstall /\ opts.skip /\ ~opts.clean =>
       \A f \in DOMAIN before : IsSuffix(TempSuffix, Last(f)) \/ f \notin Changed
  /\ pc = "done" /\ opts # NoInstall /\ ~opts.dry =>
       \A i \in 1..Len(plan) : \A f \in {g.path : g \in Range(plan[i].todo)} :
         \/ IsSuffix(TempSuffix, Last(f))
         \/ /\ f \in DOMAIN files
            /\ ~opts.skip => /\ files[f].text.of = LastSource(f)
                             /\ files[f].exec = (~opts.remote /\ IsScript(LastSource(f)))
         \/ opts.skip /\ Exists(f)
==============================================================================
