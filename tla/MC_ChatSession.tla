--------------------------- MODULE MC_ChatSession ---------------------------
(* Values for model checking ChatSession. *)
EXTENDS ChatSession, TLC

\* Conversation ids are uuids, and turns are named by no one: the specification only
\* compares them.
Symmetry == Permutations(Convs) \cup Permutations(Turns)
=============================================================================
