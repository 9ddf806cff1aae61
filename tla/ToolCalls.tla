------------------------------ MODULE ToolCalls ------------------------------
(* The calls of a run that leave the process or its directories: url_fetch   *)
(* with the guard's network policy or an auth profile, its redirects and its *)
(* downloads, write_file and read_file. A run makes one call at a time.      *)
EXTENDS PathPolicy, FiniteSets

CONSTANTS Configs,    \* the guard and profile settings the program may run with
          FetchCalls, \* the url_fetch calls a model may make
          Urls,       \* the URLs servers redirect to
          WritePaths, ReadPaths,
          WriteBases, CacheBases,  \* base directories: cache and state, cache
          DeniedPaths,
          Texts,        \* the contents of write_file, one piece each
          Slash, User,  \* "/" and the user information of a URL
          NoPath,
          Part,         \* what is left of a piece that was cut
          GoRedirects,  \* requests net/http makes when no policy is set
          MaxCalls      \* bound: calls made

VARIABLES config, call, pc,
          req, hops,  \* the request on its way and the number sent
          answer,     \* what the server answered
          disk,       \* the files the tools have written
          told,       \* history: what the caller was told each of them holds
          shown,      \* history: the file read_file showed last
          made        \* calls made

vars == <<config, call, pc, req, hops, answer, disk, told, shown, made>>

Idle == [tool |-> "none"]
NoReq == [method |-> "none"]
NoAnswer == [status |-> 0]
Unknown == <<Part, Part>>
NoFile == [file |-> <<>>, text |-> <<>>]

\* A URL is its origin, its path as segments of letters, whether its host is
\* private and whether it names a user. As text:
Letters(path) == FoldLeft(LAMBDA text, seg : text \o <<Slash>> \o seg, <<>>, path)
Raw(u) == (IF u.user THEN <<User>> ELSE <<>>) \o <<u.origin>> \o Letters(u.path)

\* urlAllowedByPrefixes, isDeniedPrivateHost: the guard compares text.
GuardAllows(g, u) == /\ \E prefix \in g.prefixes : IsPrefix(prefix, Raw(u))
                     /\ ~(g.denyPrivate /\ u.private)

\* pathPrefixMatch, on cleaned paths
PathPrefixMatch(path, prefix) ==
  LET rp == Letters(Clean(Path(TRUE, path)))
      pp == Letters(Clean(Path(TRUE, prefix)))
  IN pp = <<>> \/ rp = pp \/ IsPrefix(pp \o <<Slash>>, rp)

\* parseURLPrefixRules, AuthProfile.IsURLAllowed
IsURLAllowed(profile, u, method) ==
  /\ ~u.user
  /\ method \in profile.methods
  /\ ~(profile.denyPrivate /\ u.private)
  /\ \E r \in profile.prefixes : r.origin = u.origin /\ PathPrefixMatch(u.path, r.path)

\* What a profile needs before its secret is looked up: declared by a skill
\* where that is enforced, secrets enabled, on the allow list, found, valid,
\* with a binding, its secret resolved and its format known.
Grants == {"declared", "enabled", "allowed", "found", "valid", "bound", "resolved"}

Methods == {"GET", "POST", "PUT", "PATCH", "DELETE"}
WithBody == {"POST", "PUT", "PATCH"}

BodyAllowed(c) == /\ c.body # "none" => c.method \in WithBody
                  /\ ~(c.profile /\ c.body = "local path")

\* isDeniedUserHeader, isAllowedUserHeader; a header the profile injects may
\* not be given even where the profile's list has it.
HeadersAllowed(c) ==
  LET p == config.profile
  IN CASE c.headers = "none" -> TRUE
       [] c.headers = "listed" -> c.profile => p.userHeaders
       [] c.headers = "extra" -> c.profile /\ p.userHeaders
       [] OTHER -> FALSE

FirstRequest(c) == [url |-> c.url, method |-> c.method, body |-> c.body # "none",
                    secret |-> c.profile]

TypeOK ==
  /\ config \in Configs
  /\ call = Idle \/ call.tool \in {"fetch", "write", "append"}
  /\ pc \in {"idle", "guard", "prepare", "sent", "redirected", "body", "save", "write"}
  /\ req = NoReq \/ req.method \in Methods
  /\ hops \in 0..GoRedirects
  /\ answer.status \in {0, 200, 303, 307, 404}
  /\ made \in 0..MaxCalls

Init ==
  /\ config \in Configs
  /\ call = Idle /\ pc = "idle"
  /\ req = NoReq /\ hops = 0 /\ answer = NoAnswer
  /\ disk = <<>> /\ told = <<>> /\ shown = NoFile
  /\ made = 0

\* The engine hands the network policy to calls without a profile only.
Policy == config.guard.on /\ ~call.profile

BeginFetch ==
  /\ pc = "idle" /\ made < MaxCalls
  /\ \E c \in FetchCalls : call' = c
  /\ pc' = "guard"
  /\ made' = made + 1
  /\ UNCHANGED <<config, req, hops, answer, disk, told, shown>>

Return == /\ call' = Idle /\ pc' = "idle"
          /\ req' = NoReq /\ hops' = 0 /\ answer' = NoAnswer

\* evalToolCallPre
GuardDenies ==
  /\ pc = "guard"
  /\ Policy /\ ~GuardAllows(config.guard, call.url)
  /\ Return
  /\ UNCHANGED <<config, disk, told, shown, made>>

GuardPasses ==
  /\ pc = "guard"
  /\ Policy => GuardAllows(config.guard, call.url)
  /\ pc' = "prepare"
  /\ UNCHANGED <<config, call, req, hops, answer, disk, told, shown, made>>

ProfileAllows(c) == c.profile => /\ config.profile.grants = Grants
                                 /\ IsURLAllowed(config.profile, c.url, c.method)

Acceptable(c) == BodyAllowed(c) /\ ProfileAllows(c) /\ HeadersAllowed(c)

Refuse ==
  /\ pc = "prepare"
  /\ ~Acceptable(call)
  /\ Return
  /\ UNCHANGED <<config, disk, told, shown, made>>

Send ==
  /\ pc = "prepare"
  /\ Acceptable(call)
  /\ req' = FirstRequest(call)
  /\ hops' = 1
  /\ pc' = "sent"
  /\ UNCHANGED <<config, call, answer, disk, told, shown, made>>

\* The server answers, at last or with a redirect: 303 makes a GET of it and
\* drops the body, 307 keeps both.
Answers ==
  /\ pc = "sent"
  /\ \/ \E status \in {200, 404} : answer' = [status |-> status]
     \/ \E status \in {303, 307}, u \in Urls : answer' = [status |-> status, to |-> u]
  /\ pc' = IF answer'.status \in {303, 307} THEN "redirected" ELSE "body"
  /\ UNCHANGED <<config, call, req, hops, disk, told, shown, made>>

Redirected == IF answer.status = 303
                THEN [req EXCEPT !.url = answer.to, !.method = "GET", !.body = FALSE]
                ELSE [req EXCEPT !.url = answer.to]

FollowRedirects == IF call.profile THEN config.profile.follow
                   ELSE ~config.guard.on \/ config.guard.follow
MaxRequests == IF call.profile \/ config.guard.on THEN 4 ELSE GoRedirects

(* Variant: only the first URL of a call is held against the profile. *)
MayFollowAnyPath(next) ==
  /\ hops < MaxRequests
  /\ (call.profile \/ config.guard.on) => next.url.origin = call.url.origin
  /\ Policy => GuardAllows(config.guard, next.url)

\* CheckRedirect: of the profile, of the guard's policy, or net/http's own.
MayFollow(next) ==
  /\ hops < MaxRequests
  /\ (call.profile \/ config.guard.on) => next.url.origin = call.url.origin
  /\ call.profile => IsURLAllowed(config.profile, next.url, next.method)
  /\ Policy => GuardAllows(config.guard, next.url)

Follow ==
  /\ pc = "redirected" /\ FollowRedirects
  /\ MayFollow(Redirected)
  /\ req' = Redirected
  /\ hops' = hops + 1
  /\ answer' = NoAnswer
  /\ pc' = "sent"
  /\ UNCHANGED <<config, call, disk, told, shown, made>>

\* ErrUseLastResponse: the redirect itself is the answer.
TakeRedirect ==
  /\ pc = "redirected" /\ ~FollowRedirects
  /\ pc' = "body"
  /\ UNCHANGED <<config, call, req, hops, answer, disk, told, shown, made>>

StopRedirect ==
  /\ pc = "redirected" /\ FollowRedirects
  /\ ~MayFollow(Redirected)
  /\ Return
  /\ UNCHANGED <<config, disk, told, shown, made>>

\* A request, or the reading of its body, fails or exceeds its time.
FetchFails ==
  /\ pc \in {"sent", "body"}
  /\ Return
  /\ UNCHANGED <<config, disk, told, shown, made>>

\* The body is longer than max_bytes: shown cut, but never saved.
Truncated ==
  /\ pc = "body"
  /\ Return
  /\ UNCHANGED <<config, disk, told, shown, made>>

ReadBody ==
  /\ pc = "body"
  /\ answer' = [status |-> answer.status, text |-> req.url.origin]
  /\ pc' = "save"
  /\ UNCHANGED <<config, call, req, hops, disk, told, shown, made>>

Target == ResolveWritePath(IF call.tool = "fetch" THEN CacheBases ELSE WriteBases, call.path)

\* An inline answer, a download to a path that is refused, and one of an
\* answer that is no success, which is reported and not saved.
NotSaved ==
  /\ pc = "save"
  /\ call.path = NoPath \/ ~Target.ok \/ answer.status # 200
  /\ Return
  /\ UNCHANGED <<config, disk, told, shown, made>>

Save ==
  /\ pc = "save"
  /\ call.path # NoPath /\ Target.ok /\ answer.status = 200
  /\ pc' = "write"
  /\ UNCHANGED <<config, call, req, hops, answer, disk, told, shown, made>>

\* write_file; a path that is refused is left to NotSaved.
BeginWrite ==
  /\ pc = "idle" /\ made < MaxCalls
  /\ \E t \in Texts, path \in WritePaths, mode \in {"write", "append"} :
       call' = [tool |-> mode, path |-> path, text |-> t, profile |-> FALSE]
  /\ made' = made + 1
  /\ pc' = IF ResolveWritePath(WriteBases, call'.path).ok THEN "write" ELSE "save"
  /\ UNCHANGED <<config, req, hops, answer, disk, told, shown>>

Piece == IF call.tool = "fetch" THEN answer.text ELSE call.text
Wanted == IF call.tool = "fetch" THEN req.url.origin ELSE call.text
Held(files, f) == IF f \in DOMAIN files THEN files[f] ELSE <<>>
Before(files) == IF call.tool = "append" THEN Held(files, Target.file) ELSE <<>>
Put(files, f, text) == [g \in DOMAIN files \union {f} |-> IF g = f THEN text ELSE files[g]]

Write ==
  /\ pc = "write"
  /\ disk' = Put(disk, Target.file, Append(Before(disk), Piece))
  /\ told' = Put(told, Target.file,
                 IF call.tool = "append" /\ Held(told, Target.file) = Unknown THEN Unknown
                 ELSE Append(Before(told), Wanted))
  /\ Return
  /\ UNCHANGED <<config, shown, made>>

\* The directory cannot be made or the file not opened; or the write fails,
\* and as os.WriteFile truncates first it leaves a part.
WriteFails ==
  /\ pc = "write"
  /\ \/ UNCHANGED <<disk, told>>
     \/ /\ \E rest \in {<<>>, <<Part>>} : disk' = Put(disk, Target.file, Before(disk) \o rest)
        /\ told' = Put(told, Target.file, Unknown)
  /\ Return
  /\ UNCHANGED <<config, shown, made>>

\* read_file, which reads what is there
ReadFile ==
  /\ pc = "idle" /\ made < MaxCalls
  /\ \E path \in ReadPaths :
       LET target == ResolveReadPath(WriteBases, path)
       IN shown' = IF target.ok /\ ~DenyPath(target.file, DeniedPaths) /\ target.file \in DOMAIN disk
                     THEN [file |-> target.file, text |-> disk[target.file]]
                     ELSE NoFile
  /\ made' = made + 1
  /\ UNCHANGED <<config, call, pc, req, hops, answer, disk, told>>

Next == \/ BeginFetch \/ GuardDenies \/ GuardPasses \/ Refuse \/ Send \/ Answers \/ Follow
        \/ TakeRedirect \/ StopRedirect \/ FetchFails \/ Truncated \/ ReadBody \/ NotSaved
        \/ Save \/ BeginWrite \/ Write \/ WriteFails \/ ReadFile

Spec == Init /\ [][Next]_vars
------------------------------------------------------------------------------
Under(u, rule) == /\ u.origin = rule.origin
                  /\ IsPrefix(Clean(Path(TRUE, rule.path)), Clean(Path(TRUE, u.path)))

(* Safety. Whatever a server redirects to, every request of a call with an    *)
(* auth profile carries the secret only where the profile allows it, with a   *)
(* method it allows, at most four times and never to another origin; one      *)
(* without a profile never carries it and stays where the guard allows; no    *)
(* method that has no body is sent with one.                                  *)
EveryRequestAllowed == pc = "sent" =>
  /\ req.secret = call.profile
  /\ req.body => req.method \in WithBody
  /\ call.profile =>
       /\ config.profile.grants = Grants
       /\ req.method \in config.profile.methods
       /\ \E rule \in config.profile.prefixes : Under(req.url, rule)
       /\ hops > 1 => config.profile.follow
  /\ config.guard.on \/ call.profile => req.url.origin = call.url.origin /\ hops <= 4
  /\ Policy => \E prefix \in config.guard.prefixes : IsPrefix(prefix, Raw(req.url))

\* Safety. The files the tools wrote are below their base directories and hold
\* what the caller was told: the whole of a download that succeeded, what was
\* written and appended; a call that was refused or whose answer was cut, late
\* or no success changed none.
SavedIsWhole == \A f \in DOMAIN disk :
  /\ \E b \in Range(WriteBases) : IsPrefix(b, f) /\ f # b
  /\ Up \notin Range(f)
  /\ Held(told, f) # Unknown => disk[f] = Held(told, f)
  /\ shown.file # <<>> => Last(shown.file) \notin {Last(d) : d \in DeniedPaths \ {<<>>}}
==============================================================================
