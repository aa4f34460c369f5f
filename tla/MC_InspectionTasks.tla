------------------------- MODULE MC_InspectionTasks -------------------------
(* Values for model checking InspectionTasks. *)
EXTENDS InspectionTasks, TLC

\* "each": every minute; "even": minutes 2 and 4; "leap": an expression with one
\* run in sight and none within the horizon after it (as "0 0 29 2 *" has on a
\* 29 February).
Matches == [each |-> {1, 2, 3, 4}, even |-> {2, 4}, leap |-> {1}]
MCSlots == [c \in Crons |-> Matches[c]]

\* Run ids are uuids: the specification only compares them.
RunSymmetry == Permutations(Runs)
=============================================================================
