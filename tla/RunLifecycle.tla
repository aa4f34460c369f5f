---------------------------- MODULE RunLifecycle ----------------------------
(***************************************************************************)
(* What a reader of the run history is promised, whatever the scheduler,   *)
(* the manual triggers, deletions and restarts do: a run starts once,      *)
(* settles at most once, is announced at most once and only with the       *)
(* outcome it settled with, and never comes back once it is deleted.       *)
(*                                                                         *)
(* InspectionTasks implements this specification; InspectionTasks_proofs   *)
(* proves it for every number of tasks, runs and concurrent calls.         *)
(***************************************************************************)
EXTENDS Naturals

CONSTANT Runs

VARIABLES
    status,  \* status[r]: absent, running, succeeded, failed or deleted
    notes    \* notes[r][s]: how many notifications of outcome s announce run r

lifecycleVars == <<status, notes>>

Outcome == {"succeeded", "failed"}
None == [s \in Outcome |-> 0]

Init ==
    /\ status = [r \in Runs |-> "absent"]
    /\ notes = [r \in Runs |-> None]

Start(r) ==
    /\ status[r] = "absent"
    /\ status' = [status EXCEPT ![r] = "running"]
    /\ UNCHANGED notes

Finish(r, s) ==
    /\ status[r] = "running"
    /\ status' = [status EXCEPT ![r] = s]
    /\ UNCHANGED notes

Announce(r) ==
    /\ status[r] \in Outcome
    /\ notes[r] = None
    /\ notes' = [notes EXCEPT ![r][status[r]] = 1]
    /\ UNCHANGED status

\* Deleting a task deletes all of its runs, and what announced them, at once.
Delete(D) ==
    /\ \A r \in D : status[r] \in {"running"} \cup Outcome
    /\ status' = [r \in Runs |-> IF r \in D THEN "deleted" ELSE status[r]]
    /\ notes' = [r \in Runs |-> IF r \in D THEN None ELSE notes[r]]

Next ==
    \/ \E r \in Runs : Start(r) \/ Announce(r)
    \/ \E r \in Runs, s \in Outcome : Finish(r, s)
    \/ \E D \in SUBSET Runs : Delete(D)

Spec == Init /\ [][Next]_lifecycleVars
=============================================================================
