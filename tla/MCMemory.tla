------------------------------ MODULE MCMemory ------------------------------
(* Two chats of one user over two days, one task and one follow-up; the     *)
(* model may answer a merge with nothing, or with a task twice.            *)
EXTENDS Memory
CONSTANTS a, b, me

TheSubject == [c \in Sessions |-> me]
Task(x, d) == [text |-> x, done |-> d]
Entry(x) == [title |-> x, size |-> x, added |-> NoDate]
D(t, f, g, k) == [tasks |-> t, follows |-> f, goals |-> g, facts |-> k]
TheDrafts == {D(<<Task(1, FALSE)>>, <<Task(2, FALSE)>>, <<>>, <<>>),
              D(<<>>, <<Task(2, TRUE)>>, <<>>, <<Entry(1)>>)}
TheAnswers == {<<>>, <<Task(2, FALSE), Task(2, TRUE)>>}
TheLong == [goals |-> <<>>, facts |-> <<[title |-> 2, size |-> 2, added |-> 1]>>]
Symmetry == Permutations({a, b})
=============================================================================
