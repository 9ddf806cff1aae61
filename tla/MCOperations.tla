----------------------------- MODULE MCOperations -----------------------------
(* Operations for TLC. A segment of a path is a sequence of letters, a path  *)
(* or URL path a sequence of segments.                                       *)
EXTENDS Operations, Integers, Sequences, TLC

CONSTANTS p1, p2

Symmetry == Permutations(Procs)

\* MaepLog: two records of an earlier version and two to append, about two peers.
TheOld == <<"h1", "h2">>
TheNew == {"n1", "n2"}
TheFrom == [r \in {"h1", "h2", "n1", "n2"} |-> IF r \in {"h2", "n2"} THEN "a" ELSE "b"]
TheAt == [r \in {"h1", "h2", "n1", "n2"} |->
            CASE r = "h1" -> 1 [] r = "h2" -> 2 [] r = "n1" -> 4 [] OTHER -> 3]

TheUp == <<".", ".">>
TheCacheAlias == <<"cache">>
TheStateAlias == <<"state">>
Absolute(segs) == [abs |-> TRUE, segs |-> segs]
Relative(segs) == [abs |-> FALSE, segs |-> segs]
------------------------------------------------------------------------------
\* ToolCalls: an allowed URL, one whose path only begins with the same text, one
\* that leaves the allowed path by "..", one with a user, one that is private.
Url(origin, path, private, user) ==
  [origin |-> origin, path |-> path, private |-> private, user |-> user]
Items == Url("a", <<<<"v">>, <<"i">>>>, FALSE, FALSE)
TheUrls == {Items,
            Url("a", <<<<"v", "x">>, <<"i">>>>, FALSE, FALSE),
            Url("a", <<<<"v">>, TheUp, <<"k">>>>, FALSE, FALSE),
            Url("a", <<<<"v">>>>, FALSE, TRUE),
            Url("p", <<<<"v">>>>, TRUE, FALSE)}

Granted == {"declared", "enabled", "allowed", "found", "valid", "bound", "resolved"}
Profile(grants, follow, userHeaders, denyPrivate) ==
  [grants |-> grants, methods |-> {"GET", "POST"}, denyPrivate |-> denyPrivate,
   prefixes |-> {[origin |-> "a", path |-> <<<<"v">>>>], [origin |-> "p", path |-> <<>>]},
   follow |-> follow, userHeaders |-> userHeaders]
Guard(on, prefixes, denyPrivate, follow) ==
  [on |-> on, prefixes |-> prefixes, denyPrivate |-> denyPrivate, follow |-> follow]
UrlPrefixes == {<<"a", "/", "v">>, <<"p">>}
TheConfigs ==
  {[guard |-> g, profile |-> p] :
     g \in {Guard(TRUE, {}, TRUE, TRUE), Guard(TRUE, UrlPrefixes, TRUE, TRUE),
            Guard(TRUE, UrlPrefixes, FALSE, FALSE), Guard(FALSE, {}, FALSE, FALSE)},
     p \in {Profile(Granted, TRUE, TRUE, TRUE), Profile(Granted, FALSE, FALSE, FALSE),
            Profile(Granted \ {"declared"}, TRUE, TRUE, TRUE),
            Profile(Granted \ {"resolved"}, TRUE, FALSE, TRUE)}}

TheNoPath == Relative(<<>>)
Cached == Relative(<<<<"f">>>>)
Aliased == Absolute(<<TheStateAlias, <<"f">>>>)
Escaping == Relative(<<<<"n">>, TheUp, TheUp, <<"c">>>>)
Inside == Absolute(<<<<"m">>, TheCacheAlias, <<"g">>, TheUp, <<"f">>>>)
Outside == Absolute(<<<<"m">>, <<"other">>, <<"f">>>>)
Settings == Relative(<<TheCacheAlias, <<"conf">>>>)
Leaving == Absolute(<<<<"m">>, TheCacheAlias, TheUp, <<"c">>>>)
TheWritePaths == {Cached, Aliased, Escaping, Inside, Outside, Settings, Leaving}
TheReadPaths == {Cached, Aliased, Inside, Outside, Settings, Escaping,
                 Absolute(<<TheCacheAlias, <<"conf">>>>)}
TheWriteBases == <<<<<<"m">>, TheCacheAlias>>, <<<<"m">>, TheStateAlias>>>>
TheCacheBases == <<<<<<"m">>, TheCacheAlias>>>>
TheDeniedPaths == {<<<<"conf">>>>}
TheWorkDir == <<<<"w">>>>

Fetch(u, profile, method, body, headers, path) ==
  [tool |-> "fetch", url |-> u, profile |-> profile, method |-> method, body |-> body,
   headers |-> headers, path |-> path]
TheFetchCalls ==
  {Fetch(u, p, "GET", "none", "none", TheNoPath) : u \in TheUrls, p \in BOOLEAN}
  \union {Fetch(Items, p, m, b, h, TheNoPath) : p \in BOOLEAN, m \in {"POST", "DELETE"},
            b \in {"text", "local path"}, h \in {"none", "listed", "extra", "injected"}}
  \union {Fetch(Items, TRUE, "GET", "none", "none", path) : path \in {Cached, Escaping}}
------------------------------------------------------------------------------
\* Delivery: payloads that differ from a good one in up to two fields on a usual
\* route, and one message on every route.
Input(origin, dialogue, text, session, reply, p) ==
  [origin |-> origin, dialogue |-> dialogue, text |-> text, session |-> session,
   reply |-> reply, payload |-> p]
Good == [json |-> TRUE, id |-> "said", text |-> "said", alt |-> "absent", sent |-> "time",
         session |-> "v7", reply |-> "given"]
Odd == [id |-> {"blank", "absent"}, text |-> {"blank", "absent"}, alt |-> {"said"},
        sent |-> {"absent"}, session |-> {"absent", "blank", "other", "not text"},
        reply |-> {"absent", "not text"}, json |-> {FALSE}]
Changes(p) == UNION {{[p EXCEPT ![f] = v] : v \in Odd[f]} : f \in DOMAIN Odd}
Payloads == {Good} \union Changes(Good) \union UNION {Changes(p) : p \in Changes(Good)}
Inputs ==
  {Input(o, d, t, s, r, NoPayload) : o \in {"tool", "command"}, d \in BOOLEAN,
     t \in {"said", "blank"}, s \in {"absent", "v7", "other"}, r \in {"absent", "given"}}
  \union {Input("tool", d, "absent", "absent", "absent", p) : d \in BOOLEAN, p \in Payloads}

Chat(id, type) == [id |-> id, type |-> type]
Contact(human, active, trusted, cooling, peer, ids, chats) ==
  [human |-> human, active |-> active, trusted |-> trusted, cooling |-> cooling,
   peer |-> peer, ids |-> ids, chats |-> chats]
NoIds == <<"plain", "plain">>
Peer == Contact(FALSE, TRUE, TRUE, FALSE, TRUE, NoIds, <<>>)
Contacts ==
  {Contact(TRUE, TRUE, TRUE, FALSE, FALSE, ids, chats) :
     ids \in {<<"plain", "tg number">>, <<"tg name", "plain">>, <<"tg junk", "tg number">>,
              <<"tg no name", "plain">>, <<"plain", "tg negative">>},
     chats \in {<<>>, <<Chat(-5, "group")>>, <<Chat(-5, ""), Chat(1, "private")>>,
                <<Chat(-5, "")>>, <<Chat(1, "private"), Chat(-6, "supergroup")>>}}
  \union {Contact(FALSE, a, t, c, p, NoIds, <<>>) : a \in BOOLEAN, t \in BOOLEAN,
            c \in BOOLEAN, p \in BOOLEAN}

Route(c, id, type, human, public, allowed, given, known) ==
  [contact |-> c, sourceId |-> id, sourceType |-> type, allowHuman |-> human,
   allowPublic |-> public, allowed |-> allowed, given |-> given, known |-> known]
Both == <<"relay", "direct">>
Routes ==
  {Route(c, id, type, human, public, TRUE, <<>>, Both) : c \in Contacts, id \in {0, 1, -5},
     type \in {"", "private", "group"}, human \in BOOLEAN, public \in BOOLEAN}
  \union {Route(Peer, 0, "", FALSE, FALSE, allowed, given, known) : allowed \in BOOLEAN,
            given \in {<<>>, Both}, known \in {<<>>, <<"direct", "relay", "direct">>}}
TheCases ==
  {[input |-> i, route |-> Route(Peer, 0, "", FALSE, FALSE, TRUE, <<>>, Both)] : i \in Inputs}
  \union {[input |-> Input("tool", TRUE, "said", "v7", "given", NoPayload), route |-> r] :
            r \in Routes}
------------------------------------------------------------------------------
\* SkillInstall: two built-in skills, and reviews with twin, nested, escaping,
\* repeated, blank and bad entries.
Install(remote, yes, dry, clean, skip, tty, elsewhere, model) ==
  [remote |-> remote, yes |-> yes, dry |-> dry, clean |-> clean, skip |-> skip, tty |-> tty,
   elsewhere |-> elsewhere, model |-> model, url |-> <<<<"u0">>>>]
TheInstalls ==
  {Install(r, y, FALSE, c[1], c[2], TRUE, FALSE, TRUE) : r \in BOOLEAN, y \in BOOLEAN,
     c \in {<<FALSE, FALSE>>, <<FALSE, TRUE>>, <<TRUE, FALSE>>}}
  \union {Install(r, FALSE, TRUE, TRUE, FALSE, TRUE, FALSE, TRUE) : r \in BOOLEAN}
  \union {Install(r, FALSE, FALSE, FALSE, FALSE, t, e, m) : r \in BOOLEAN,
            <<t, e, m>> \in {<<FALSE, FALSE, TRUE>>, <<TRUE, TRUE, TRUE>>, <<TRUE, FALSE, FALSE>>}}

TheSkillsDir == <<<<"s">>>>
TheElsewhere == <<<<"e">>>>
TheSkillFile == <<"m", "d">>
TheShellSuffix == <<".", "s", "h">>
TheScriptsDir == <<"s", "c">>
TheTempSuffix == <<".", "t">>
TheBuiltIns == <<<<"a">>, <<"b">>>>
Shell == <<"r", ".", "s", "h">>
TheAssets == [s \in {<<"a">>, <<"b">>} |->
                IF s = <<"a">> THEN <<<<TheSkillFile>>>> ELSE <<<<TheSkillFile>>, <<<<"x">>, Shell>>>>]
TheNames == {<<>>, <<"a">>, TheUp, <<"c", "/">>}
TheNameChars == {"a", "n", "c", "."}

TheGoodUrls == {<<<<u>>>> : u \in {"u0", "u1", "u2"}}
TheNoUrl == <<<<"none">>>>
Entry(u, path) == [url |-> <<<<u>>>>, path |-> path]
OneFile == Relative(<<<<"f">>>>)
Twin == Relative(<<<<"F">>>>)
TempOfIt == Relative(<<<<"f", ".", "t">>>>)
Nested == Relative(<<<<"f">>, <<"g">>>>)
Main == Relative(<<<<"x">>, TheUp, TheSkillFile>>)
Leaves == Relative(<<<<"x">>, TheUp, TheUp, <<"b">>, TheSkillFile>>)
Script == Relative(<<TheScriptsDir, Shell>>)
TheReviews ==
  {<<>>, <<Entry("u1", OneFile), Entry("u1", Twin), Entry("u2", OneFile)>>,
   <<Entry("u1", TempOfIt), Entry("u1", OneFile)>>,
   <<Entry("u1", OneFile), Entry("u1", Nested)>>, <<Entry("u1", Nested), Entry("u1", OneFile)>>,
   <<Entry("u1", Main)>>, <<Entry("u1", Leaves)>>, <<Entry("u1", Script)>>,
   <<Entry("bad", OneFile)>>, <<Entry("u1", Absolute(<<<<"f">>>>))>>,
   <<Entry("none", OneFile), Entry("u1", TheNoPath), Entry("u1", Script), Entry("u2", Script)>>}
TheLower == [x \in {"F"} |-> "f"]
TheAtFirst ==
  [p \in {<<<<"s">>, <<"a">>, <<"f">>>>, <<<<"s">>, <<"b">>, TheSkillFile>>, <<<<"o">>>>} |->
     [text |-> [of |-> <<<<"old">>>>, whole |-> TRUE], exec |-> FALSE]]
------------------------------------------------------------------------------
\* TelegramTurn: every kind of single message, and short conversations with
\* files, resets and usernames. "p" and "g" are allowed, "x" is not.
NoReply == [to |-> "none", id |-> "", said |-> FALSE, files |-> <<>>]
Reply(to, said, attached) == [to |-> to, id |-> "r", said |-> said, files |-> attached]
Message(chat, group, text, named, attached, reply, users) ==
  [id |-> "m", chat |-> chat, group |-> group, text |-> text, named |-> named,
   files |-> attached, reply |-> reply, users |-> users, user |-> users # {}]
Private(text, attached, reply) == Message("p", FALSE, text, FALSE, attached, reply, {})
Group(text, named, attached, reply) == Message("g", TRUE, text, named, attached, reply, {"ann"})
ByBob(text) == Message("g", TRUE, text, FALSE, <<>>, NoReply, {"bob", "@bot"})
Replies == {NoReply, Reply("bot", TRUE, <<>>), Reply("other", FALSE, <<"f1", "f2">>)}
Singles ==
  {Private(t, f, r) : t \in {<<>>, <<"x">>, <<"/ask">>, <<"/ask", "x", "?">>},
     f \in {<<>>, <<"f1">>}, r \in Replies}
  \union {Group(t, FALSE, f, r) :
            t \in {<<>>, <<"@bot">>, <<"@bot", "x">>, <<"hi", "mia", "please">>,
                   <<"x", "x", "x", "mia">>, <<"/ask">>, <<"/ask", "x", "?">>, <<"/start">>, <<"x">>},
            f \in {<<>>, <<"f1">>}, r \in Replies}
  \union {Group(t, TRUE, f, r) : t \in {<<>>, <<"x">>, <<"@bot", "x">>, <<"/ask">>},
            f \in {<<>>, <<"f1">>}, r \in Replies}
  \union {Group(<<"/ask@other", "x">>, FALSE, <<>>, NoReply)}
  \union {Message("x", FALSE, <<"/ask", "x">>, FALSE, <<>>, NoReply, {})}
WithFile == Private(<<"x">>, <<"f1">>, NoReply)
Reset == Group(<<"/reset">>, FALSE, <<>>, NoReply)
Some == {WithFile, Reset, Group(<<"!", "mia", "?">>, FALSE, <<>>, NoReply), ByBob(<<"@bot">>),
         ByBob(<<"@bot", "x">>)}
TheFeeds ==
  {<<m>> : m \in Singles} \union {<<a, b>> : a \in Some, b \in Some}
  \union {<<a, b, ByBob(<<"@bot", "x">>)>> : a \in {WithFile, ByBob(<<"@bot", "x">>)},
            b \in {Reset, WithFile}}
TheCommandsAt == [c \in {"/ask@other"} |-> "/ask"]
TheUsers == <<"ann", "bob">>
TheCacheDir == <<<<"m">>, TheCacheAlias>>
TheFilesDir == <<"t">>
TheVoiceFile == <<<<"tts">>, <<"v">>>>
TheEmojiOf == [c \in {"thanks", "seen"} |-> IF c = "seen" THEN "eyes" ELSE "hands"]
TheAllowedEmoji == <<"heart", "hands">>
Intent(asks, heavy, light, long, goal, task) ==
  [asks |-> asks, heavy |-> heavy, light |-> light, long |-> long, deliverable |-> "",
   goal |-> goal, task |-> task]
TheIntents ==
  {Intent(a, FALSE, l, long, "", t) : a \in BOOLEAN, l \in BOOLEAN, long \in BOOLEAN,
     t \in {"", "thanks"}}
  \union {Intent(FALSE, h, FALSE, FALSE, "seen", "thanks") : h \in BOOLEAN}
TheMediaPaths == {Cached, Escaping, Inside, Outside, Leaving, Relative(<<TheCacheAlias, <<"f">>>>)}
==============================================================================
