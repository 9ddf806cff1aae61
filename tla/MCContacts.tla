----------------------------- MODULE MCContacts -----------------------------
(* Two actors and two contacts, one of which may stay active.              *)
EXTENDS Contacts, TLC

CONSTANTS a1, a2
Symmetry == Permutations(Actors)
TheBooks == {<<"active", "active">>, <<"active", "inactive">>, <<"absent", "active">>}
=============================================================================
