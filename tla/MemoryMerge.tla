---------------------------- MODULE MemoryMerge ----------------------------
(***************************************************************************)
(* The merge rules of package memory (merge.go, update.go) and the         *)
(* semantic merge of the Telegram bot (command.go), as operators on        *)
(* parsed contents.  Texts and titles are model values or numbers; a text  *)
(* is compared as the code compares it, without case or outer blanks.      *)
(*                                                                         *)
(* A task is [text, done]; an entry of a long-term section is              *)
(* [title, size, added].                                                   *)
(***************************************************************************)
EXTENDS Integers, Sequences, FiniteSets, SequencesExt

NoDate == 0

(* The first element of each text or title, in order: what every "seen" map *)
(* does.                                                                    *)
FirstOfEach(field, xs) ==
    FoldLeft(LAMBDA out, x : IF \E i \in DOMAIN out : out[i][field] = x[field]
                             THEN out ELSE Append(out, x), <<>>, xs)

(* What takes the place of an element: an entry without a date keeps the    *)
(* date of the one it replaces.                                             *)
InPlaceOf(old, new) ==
    IF "added" \in DOMAIN new /\ new.added = NoDate THEN [new EXCEPT !.added = old.added]
    ELSE new

(* The list with y put at the last element of its text or title, or at the  *)
(* end.                                                                     *)
Put(field, out, y) ==
    LET at == {i \in DOMAIN out : out[i][field] = y[field]}
    IN  IF at = {} THEN Append(out, y)
        ELSE [out EXCEPT ![CHOOSE i \in at : \A j \in at : j <= i] = InPlaceOf(@, y)]
MergeBy(field, xs, ys) == FoldLeft(LAMBDA out, y : Put(field, out, y), xs, ys)

-----------------------------------------------------------------------------
(* Tasks and follow-ups. *)

Texts(ts) == {t.text : t \in ToSet(ts)}
NormalizeTasks(ts) == FirstOfEach("text", ts)
MergeTasks(existing, incoming) == MergeBy("text", existing, incoming)

(* formatTaskRatio of taskCounts: done and total. *)
TaskRatio(ts) ==
    <<Cardinality({i \in DOMAIN ts : ts[i].done}), Len(ts)>>
Pending(ratio) == ratio[2] > ratio[1]

(* updateTaskList: open tasks among the texts of done become done. *)
FinishTasks(ts, done) ==
    [i \in DOMAIN ts |-> [ts[i] EXCEPT !.done = @ \/ ts[i].text \in done]]

(* ensureMergedTasks: what the model's answer dropped comes back. *)
WithMissing(ts, more) ==
    FoldLeft(LAMBDA out, t : IF t.text \in Texts(out) THEN out ELSE Append(out, t),
             ts, more)
(* Variant: only the draft's tasks come back. *)
EnsureIncomingTasks(existing, incoming, merged) == WithMissing(merged, incoming)
EnsureMergedTasks(existing, incoming, merged) ==
    WithMissing(WithMissing(merged, existing), incoming)

(* applyTaskUpdatesSemantic: an update with the text of a task sets its     *)
(* flag; of the others, those in match (update text -> index, the model's   *)
(* answer) set the flag of that task, and the rest are appended.            *)
FlagKnown(base, updates) ==
    FoldLeft(LAMBDA out, u : IF u.text \in Texts(base) THEN Put("text", out, u) ELSE out,
             base, updates)
ApplyTaskUpdates(base, updates, match) ==
    LET claims(u) == /\ u.text \in DOMAIN match
                     /\ match[u.text] \in DOMAIN base
    IN  FoldLeft(LAMBDA out, u :
                   IF u.text \in Texts(base) THEN out
                   ELSE IF claims(u) THEN [out EXCEPT ![match[u.text]].done = u.done]
                   ELSE Append(out, u),
                 FlagKnown(base, updates), updates)

-----------------------------------------------------------------------------
(* Long-term memory. *)

(* mergeLongTermKV: a new entry is dated today, an old one keeps its date   *)
(* unless the new text brings one.                                          *)
MergeLongTermKV(existing, incoming, today) ==
    LET Known == {x.title : x \in ToSet(existing)}
        In == [i \in DOMAIN incoming |->
                 IF incoming[i].title \in Known \/ incoming[i].added # NoDate THEN incoming[i]
                 ELSE [incoming[i] EXCEPT !.added = today]]
    IN  MergeBy("title", existing, In)

NormalizeEntries(xs) == FirstOfEach("title", xs)
MergeLongTerm(existing, draft, today) ==
    [goals |-> MergeLongTermKV(existing.goals, NormalizeEntries(draft.goals), today),
     facts |-> MergeLongTermKV(existing.facts, NormalizeEntries(draft.facts), today)]

(* Read and parsed: of entries with one title the first counts. *)
ParsedLong(c) ==
    [goals |-> NormalizeEntries(c.goals), facts |-> NormalizeEntries(c.facts)]

DropOldest(c) ==
    CASE c.goals = <<>> /\ c.facts = <<>> -> c
      [] Len(c.goals) >= Len(c.facts) -> [c EXCEPT !.goals = Tail(@)]
      [] OTHER -> [c EXCEPT !.facts = Tail(@)]
LongTermItems(c) == Len(c.goals) + Len(c.facts)
SectionChars(xs) == FoldLeft(LAMBDA n, x : n + x.size, 0, xs)
LongTermChars(c) == SectionChars(c.goals) + SectionChars(c.facts)
(* Variant: one entry more than the limit stays. *)
EnforceLongTermLate(c, maxItems, maxChars) ==
    FoldLeft(LAMBDA out, i :
               IF LongTermItems(out) > maxItems + 1 \/ LongTermChars(out) > maxChars
               THEN DropOldest(out) ELSE out,
             c, [i \in 1 .. LongTermItems(c) |-> i])
(* enforceLongTermLimits: both loops drop until the limits are met. *)
EnforceLongTermLimits(c, maxItems, maxChars) ==
    FoldLeft(LAMBDA out, i :
               IF LongTermItems(out) > maxItems \/ LongTermChars(out) > maxChars
               THEN DropOldest(out) ELSE out,
             c, [i \in 1 .. LongTermItems(c) |-> i])

(* limitPromoteToOne: the first goal, or else the first fact. *)
LimitPromoteToOne(p) ==
    IF p.goals # <<>> THEN [goals |-> <<Head(p.goals)>>, facts |-> <<>>]
    ELSE IF p.facts # <<>> THEN [goals |-> <<>>, facts |-> <<Head(p.facts)>>]
    ELSE p
=============================================================================
