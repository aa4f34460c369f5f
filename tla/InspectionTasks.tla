--------------------------- MODULE InspectionTasks ---------------------------
(***************************************************************************)
(* Scheduled inspection tasks: backend/services/inspection_tasks.py, the   *)
(* polling loop of backend/services/inspection_scheduler.py and the        *)
(* notification a finished run leaves (services/task_notifications.py).    *)
(*                                                                         *)
(* Everything runs on one asyncio event loop over one SQLite database, so  *)
(* a step of this specification is the code between two awaits that can    *)
(* let another coroutine commit: a read of rows, or the commit of a        *)
(* session.  The ORM loads a row, the code assigns attributes, and the     *)
(* commit writes only the columns whose value differs from the loaded one  *)
(* (operator Flush): that is what makes the overlap of two sessions on one *)
(* task row interesting.                                                   *)
(*                                                                         *)
(* Time is counted in minutes, the granularity of a cron expression.       *)
(***************************************************************************)
EXTENDS Integers, FiniteSets

CONSTANTS
    Tasks,        \* identifiers (uuid4) of inspection_tasks rows
    Runs,         \* identifiers (uuid4) of inspection_task_runs rows
    Schedulers,   \* InspectionSchedulerRuntime loops (one per server process)
    Requests,     \* POST /{task_id}/trigger handlers that may be in flight
    Editors,      \* PATCH /{task_id} handlers that may be in flight
    Crons,        \* cron expressions
    Slots,        \* Slots[c]: the minutes that match cron expression c
    Horizon,      \* how far next_cron_run_at looks ahead (366 days of minutes)
    MaxTime,      \* bound on the clock
    MaxCrashes,   \* bound on the number of server crashes
    NoTask, NoRun \* "no row"

Executors == Schedulers \cup Requests

ASSUME ConstantsAssumption ==
    /\ Schedulers \cap Requests = {}
    /\ NoTask \notin Tasks
    /\ NoRun \notin Runs
    /\ Crons # {}
    /\ Slots \in [Crons -> SUBSET Nat]
    /\ Horizon \in Nat
    /\ MaxTime \in Nat
    /\ MaxCrashes \in Nat

VARIABLES
    now,       \* the wall clock, in minutes
    taskState, \* taskState[t]: does row t of inspection_tasks exist
    task,      \* task[t]: the columns of that row
    run,       \* run[r]: row r of inspection_task_runs
    conv,      \* conv[r]: the conversation created for run r
    notes,     \* notes[r][s]: the task_notifications rows of run r with status s
    queue,     \* queue[s]: due ids the loop has read and not yet dispatched
    exec,      \* exec[e]: the execute_inspection_task call e is in
    edit,      \* edit[u]: the update_inspection_task call u is in
    crashes    \* how often the server died

tableVars == <<taskState, task, run, conv, notes>>
callVars  == <<queue, exec, edit>>
vars == <<now, taskState, task, run, conv, notes, queue, exec, edit, crashes>>

-----------------------------------------------------------------------------
(* Rows and calls.                                                         *)

NoTime == -1          \* a DateTime column that is NULL
Time   == Nat \cup {NoTime}

Terminal   == {"succeeded", "failed"}
RunStatus  == {"absent", "running", "deleted"} \cup Terminal
TaskStatus == {"idle", "running"} \cup Terminal
RowState   == {"absent", "present", "deleted"}

TaskRow == [enabled: BOOLEAN, cron: Crons, next: Time, last: TaskStatus]

\* link: run.conversation_id - never set, set, or nulled by ON DELETE SET NULL.
\* due (history): the next_run_at for which the loop dispatched this run.
\* agent (history): how the agent runner really ended.
RunRow == [status: RunStatus, task: Tasks \cup {NoTask},
           trigger: {"scheduled", "manual", "none"},
           start: Time, finish: Time,
           link: {"null", "set", "unset"}, due: Time,
           agent: {"none", "ok", "error", "raised"}]

\* Where a call to execute_inspection_task is suspended.
Phase == {"idle", "opened", "committed", "agent", "ended", "raised",
          "finishing", "failing", "notify", "inserting"}

\* loaded: the columns of the task row as this session read them.
\* linked, status: run.conversation_id and run.status as the notification
\* session read them.
Call == [phase: Phase, task: Tasks \cup {NoTask}, run: Runs \cup {NoRun},
         start: Time, loaded: TaskRow,
         linked: BOOLEAN, status: RunStatus]

Edit == [phase: {"idle", "loaded"}, task: Tasks \cup {NoTask},
         at: Time, loaded: TaskRow]

Due == [task: Tasks, at: Nat]

BlankTask == [enabled |-> FALSE, cron |-> CHOOSE c \in Crons : TRUE,
              next |-> NoTime, last |-> "idle"]
BlankRun(status) ==
    [status |-> status, task |-> NoTask, trigger |-> "none",
     start |-> NoTime, finish |-> NoTime, link |-> "null",
     due |-> NoTime, agent |-> "none"]
Idle == [phase |-> "idle", task |-> NoTask, run |-> NoRun, start |-> NoTime,
         loaded |-> BlankTask, linked |-> FALSE, status |-> "absent"]
NoEdit == [phase |-> "idle", task |-> NoTask, at |-> NoTime, loaded |-> BlankTask]
NoNotes == [s \in Terminal |-> 0]

TypeOK ==
    /\ now \in 0..MaxTime
    /\ taskState \in [Tasks -> RowState]
    /\ task \in [Tasks -> TaskRow]
    /\ run \in [Runs -> RunRow]
    /\ conv \in [Runs -> RowState]
    /\ notes \in [Runs -> [Terminal -> Nat]]
    /\ queue \in [Schedulers -> SUBSET Due]
    /\ exec \in [Executors -> Call]
    /\ \A e \in Executors :
         exec[e].phase # "idle" => exec[e].task \in Tasks /\ exec[e].run \in Runs
    /\ edit \in [Editors -> Edit]
    /\ crashes \in 0..MaxCrashes

-----------------------------------------------------------------------------
(* Helpers.                                                                *)

\* The minutes next_cron_run_at would accept: strictly later than the given
\* one and within the search horizon.
Candidates(c, t) == {s \in Slots[c] : t < s /\ s <= t + Horizon}

\* Mutated form: the search starts at the given minute instead of the next.
NextRunAt_SameMinute(c, t) ==
    LET S == {s \in Slots[c] : t <= s /\ s <= t + Horizon}
    IN  IF \E s \in S : \A u \in S : s <= u
        THEN CHOOSE s \in S : \A u \in S : s <= u
        ELSE NoTime

\* next_cron_run_at: the first candidate.  NoTime stands for the ValueError
\* "unable to resolve next cron run within one year".
NextRunAt(c, t) ==
    IF \E s \in Candidates(c, t) : \A u \in Candidates(c, t) : s <= u
    THEN CHOOSE s \in Candidates(c, t) : \A u \in Candidates(c, t) : s <= u
    ELSE NoTime

\* One column of an UPDATE: it is sent only when the assigned value differs
\* from the loaded one; otherwise the row keeps what another session wrote.
Column(current, loaded, assigned) == IF assigned = loaded THEN current ELSE assigned

\* session.commit() of a task row read as `loaded` and assigned `assigned`.
Flush(current, loaded, assigned) ==
    [enabled |-> Column(current.enabled, loaded.enabled, assigned.enabled),
     cron    |-> Column(current.cron, loaded.cron, assigned.cron),
     next    |-> Column(current.next, loaded.next, assigned.next),
     last    |-> Column(current.last, loaded.last, assigned.last)]

Exists(r) == run[r].status \in {"running"} \cup Terminal

Trigger(e) == IF e \in Schedulers THEN "scheduled" ELSE "manual"

\* The rows get_due_inspection_task_ids selects.
IsDue(t) ==
    /\ taskState[t] = "present"
    /\ task[t].enabled
    /\ task[t].next # NoTime
    /\ task[t].next <= now

\* The call e leaves execute_inspection_task, by return or by exception.
Leave(e) == exec' = [exec EXCEPT ![e] = Idle]

-----------------------------------------------------------------------------
(* Editing tasks: the REST handlers.                                       *)

Init ==
    /\ now = 0
    /\ taskState = [t \in Tasks |-> "absent"]
    /\ task = [t \in Tasks |-> BlankTask]
    /\ run = [r \in Runs |-> BlankRun("absent")]
    /\ conv = [r \in Runs |-> "absent"]
    /\ notes = [r \in Runs |-> NoNotes]
    /\ queue = [s \in Schedulers |-> {}]
    /\ exec = [e \in Executors |-> Idle]
    /\ edit = [u \in Editors |-> NoEdit]
    /\ crashes = 0

\* create_inspection_task.  An enabled task needs a next run within the
\* horizon, or next_cron_run_at raises and nothing is stored.
CreateTask(t) ==
    /\ taskState[t] = "absent"
    /\ \E c \in Crons, enabled \in BOOLEAN :
         /\ enabled => NextRunAt(c, now) # NoTime
         /\ task' = [task EXCEPT ![t] =
                       [enabled |-> enabled, cron |-> c, last |-> "idle",
                        next |-> IF enabled THEN NextRunAt(c, now) ELSE NoTime]]
    /\ taskState' = [taskState EXCEPT ![t] = "present"]
    /\ UNCHANGED <<now, run, conv, notes, callVars, crashes>>

\* update_inspection_task reads the row ...
EditRead(u, t) ==
    /\ edit[u].phase = "idle"
    /\ taskState[t] = "present"
    /\ edit' = [edit EXCEPT ![u] =
                  [phase |-> "loaded", task |-> t, at |-> now, loaded |-> task[t]]]
    /\ UNCHANGED <<now, tableVars, queue, exec, crashes>>

\* Mutated form: next_run_at is not recomputed for an enabled task.
Edited_KeepNext(loaded, c, enabled, at) ==
    [loaded EXCEPT !.cron = c, !.enabled = enabled,
                   !.next = IF enabled THEN @ ELSE NoTime]

\* What the PATCH assigns, given the cron expression and the enabled flag the
\* row ends up with (those of the body, or the loaded ones when omitted).
Edited(loaded, c, enabled, at) ==
    [loaded EXCEPT !.cron = c, !.enabled = enabled,
                   !.next = IF enabled THEN NextRunAt(c, at) ELSE NoTime]

\* ... and commits what changed.
EditCommit(u) ==
    /\ edit[u].phase = "loaded"
    /\ LET t == edit[u].task IN
         /\ taskState[t] = "present"
         /\ \E c \in Crons, enabled \in BOOLEAN :
              /\ enabled => NextRunAt(c, edit[u].at) # NoTime
              /\ task' = [task EXCEPT ![t] =
                   Flush(@, edit[u].loaded,
                         Edited(edit[u].loaded, c, enabled, edit[u].at))]
    /\ edit' = [edit EXCEPT ![u] = NoEdit]
    /\ UNCHANGED <<now, taskState, run, conv, notes, queue, exec, crashes>>

\* The body is invalid (ValueError, 400) or the row is gone (StaleDataError).
EditFails(u) ==
    /\ edit[u].phase = "loaded"
    /\ edit' = [edit EXCEPT ![u] = NoEdit]
    /\ UNCHANGED <<now, tableVars, queue, exec, crashes>>

\* The ORM cascade "all, delete-orphan" and the foreign keys' ON DELETE CASCADE.
RunsAfterDelete(t) ==
    [r \in Runs |-> IF run[r].task = t /\ Exists(r) THEN BlankRun("deleted") ELSE run[r]]

\* Mutated form: the notifications of a deleted task survive it.
NotesAfterDelete_Keep(t) == notes

NotesAfterDelete(t) == [r \in Runs |-> IF run[r].task = t THEN NoNotes ELSE notes[r]]

\* delete_inspection_task: the task, its runs and its notifications go in one
\* transaction; the conversations of the runs stay.
DeleteTask(t) ==
    /\ taskState[t] = "present"
    /\ taskState' = [taskState EXCEPT ![t] = "deleted"]
    /\ task' = [task EXCEPT ![t] = BlankTask]
    /\ run' = RunsAfterDelete(t)
    /\ notes' = NotesAfterDelete(t)
    /\ UNCHANGED <<now, conv, callVars, crashes>>

\* DELETE /api/conversations/{id} on the conversation of run r: the foreign
\* key of the run is set to NULL.
DeleteConversation(r) ==
    /\ conv[r] = "present"
    /\ conv' = [conv EXCEPT ![r] = "deleted"]
    /\ run' = [run EXCEPT ![r].link = IF @ = "set" THEN "unset" ELSE @]
    /\ UNCHANGED <<now, taskState, task, notes, callVars, crashes>>

-----------------------------------------------------------------------------
(* execute_inspection_task.                                                *)

\* The loop wakes up and reads the due ids; it polls again only when all the
\* ids of the previous poll have been executed, one after the other.
Poll(s) ==
    /\ exec[s].phase = "idle"
    /\ queue[s] = {}
    /\ queue' = [queue EXCEPT ![s] =
                   {[task |-> t, at |-> task[t].next] : t \in {u \in Tasks : IsDue(u)}}]
    /\ UNCHANGED <<now, tableVars, exec, edit, crashes>>

\* Mutated form: an id that fails stops the loop over the others.
SkipDeleted_Stops(s, d) == FALSE

\* The id of a task deleted since the poll: LookupError, logged by the loop.
SkipDeleted(s, d) ==
    /\ exec[s].phase = "idle"
    /\ d \in queue[s]
    /\ taskState[d.task] # "present"
    /\ queue' = [queue EXCEPT ![s] = @ \ {d}]
    /\ UNCHANGED <<now, tableVars, exec, edit, crashes>>

\* Mutated form: a running row is picked up again instead of a new one inserted.
FreshRun_OrRunning(r) == run[r].status \in {"absent", "running"}

\* The id of the row that is about to be inserted.
FreshRun(r) == run[r].status = "absent"

\* Up to the commit inside create_conversation: the run, still without its
\* conversation, and the conversation are durable; the task is not yet claimed.
Open(e, t, due) ==
    /\ exec[e].phase = "idle"
    /\ taskState[t] = "present"
    /\ \E r \in Runs :
         /\ FreshRun(r)
         /\ run' = [run EXCEPT ![r] =
                      [BlankRun("running") EXCEPT !.task = t, !.trigger = Trigger(e),
                                                  !.start = now, !.due = due]]
         /\ conv' = [conv EXCEPT ![r] = "present"]
         /\ exec' = [exec EXCEPT ![e] =
                       [Idle EXCEPT !.phase = "opened", !.task = t, !.run = r,
                                    !.start = now, !.loaded = task[t]]]
    /\ UNCHANGED <<now, taskState, task, notes, edit, crashes>>

\* The loop takes the next id.  It checks neither enabled nor next_run_at again.
Dispatch(s, d) ==
    /\ d \in queue[s]
    /\ Open(s, d.task, d.at)
    /\ queue' = [queue EXCEPT ![s] = @ \ {d}]

\* POST /{task_id}/trigger.
TriggerManually(m, t) ==
    /\ Open(m, t, NoTime)
    /\ UNCHANGED queue

\* What the claim assigns to the loaded row; NoTime in an enabled scheduled
\* claim is the ValueError of next_cron_run_at.
Claimed(e) ==
    [exec[e].loaded EXCEPT
       !.last = "running",
       !.next = IF e \in Schedulers /\ exec[e].loaded.enabled
                THEN NextRunAt(exec[e].loaded.cron, exec[e].start) ELSE @]

CanClaim(e) ==
    /\ Exists(exec[e].run)
    /\ conv[exec[e].run] = "present"
    /\ (e \in Schedulers /\ exec[e].loaded.enabled) => Claimed(e).next # NoTime

\* The second commit: the run gets its conversation, the task is claimed.
Claim(e) ==
    /\ exec[e].phase = "opened"
    /\ CanClaim(e)
    /\ task' = [task EXCEPT ![exec[e].task] = Flush(@, exec[e].loaded, Claimed(e))]
    /\ run' = [run EXCEPT ![exec[e].run].link = "set"]
    /\ exec' = [exec EXCEPT ![e].phase = "committed"]
    /\ UNCHANGED <<now, taskState, conv, notes, queue, edit, crashes>>

\* No next run within the horizon, or a row that is gone: the exception leaves
\* the function and what the first commit stored stays as it is.
ClaimFails(e) ==
    /\ exec[e].phase = "opened"
    /\ ~CanClaim(e)
    /\ Leave(e)
    /\ UNCHANGED <<now, tableVars, queue, edit, crashes>>

\* refresh(run), refresh(task) and save_message(prompt), outside the try block: a
\* failure also leaves the function.  refresh fails when the rows went between
\* the commit and the refresh, and passes when they went later; the message
\* needs its conversation (a foreign key).
SavePrompt(e) ==
    /\ exec[e].phase = "committed"
    /\ \/ /\ conv[exec[e].run] = "present"
          /\ exec' = [exec EXCEPT ![e].phase = "agent"]
       \/ /\ conv[exec[e].run] # "present" \/ ~Exists(exec[e].run)
          /\ Leave(e)
    /\ UNCHANGED <<now, tableVars, queue, edit, crashes>>

\* The agent runner returns.  run_agent also returns normally after an
\* exception of its own: it emits an "error" event, which on_event ignores.
AgentReturns(e) ==
    /\ exec[e].phase = "agent"
    /\ \E how \in {"ok", "error"} :
         run' = [run EXCEPT ![exec[e].run].agent = IF Exists(exec[e].run) THEN how ELSE @]
    /\ exec' = [exec EXCEPT ![e].phase = "ended"]
    /\ UNCHANGED <<now, taskState, task, conv, notes, queue, edit, crashes>>

\* The agent runner raises: the runtime or a context could not be built.
AgentRaises(e) ==
    /\ exec[e].phase = "agent"
    /\ run' = [run EXCEPT ![exec[e].run].agent = IF Exists(exec[e].run) THEN "raised" ELSE @]
    /\ exec' = [exec EXCEPT ![e].phase = "raised"]
    /\ UNCHANGED <<now, taskState, task, conv, notes, queue, edit, crashes>>

\* A new session loads the run and the task, after the runner returned or
\* raised.  When they are gone the call leaves with LookupError, or re-raises.
SettleRead(e) ==
    /\ exec[e].phase \in {"ended", "raised"}
    /\ IF Exists(exec[e].run)
       THEN exec' = [exec EXCEPT
              ![e].phase = IF exec[e].phase = "ended" THEN "finishing" ELSE "failing",
              ![e].loaded = task[exec[e].task]]
       ELSE Leave(e)
    /\ UNCHANGED <<now, tableVars, queue, edit, crashes>>

\* A manual run of an enabled task recomputes next_run_at - from the minute the
\* run STARTED (current_time), however long the agent took.
Succeeded(e) ==
    [exec[e].loaded EXCEPT
       !.last = "succeeded",
       !.next = IF e \notin Schedulers /\ exec[e].loaded.enabled
                THEN NextRunAt(exec[e].loaded.cron, exec[e].start) ELSE @]

\* Mutated form: a status the clients do not know.
Failed_Error(e) == [exec[e].loaded EXCEPT !.last = "error"]

\* Mutated form: only the run row learns of the failure.
Failed_RunOnly(e) == exec[e].loaded

Failed(e) == [exec[e].loaded EXCEPT !.last = "failed"]

\* Mutated form: the rows are not required to be there any more.
CanSettle_Blind(e) == TRUE

CanSettle(e) ==
    /\ Exists(exec[e].run)
    /\ (exec[e].phase = "finishing" /\ e \notin Schedulers /\ exec[e].loaded.enabled)
          => Succeeded(e).next # NoTime

\* The commit of the outcome: the run and the task row in one transaction.
Settle(e) ==
    /\ exec[e].phase \in {"finishing", "failing"}
    /\ CanSettle(e)
    /\ LET r      == exec[e].run
           status == IF exec[e].phase = "finishing" THEN "succeeded" ELSE "failed"
           row    == IF exec[e].phase = "finishing" THEN Succeeded(e) ELSE Failed(e)
       IN  /\ run' = [run EXCEPT ![r].status = status, ![r].finish = now]
           /\ task' = [task EXCEPT ![exec[e].task] = Flush(@, exec[e].loaded, row)]
    /\ exec' = [exec EXCEPT ![e].phase = "notify"]
    /\ UNCHANGED <<now, taskState, conv, notes, queue, edit, crashes>>

\* The rows went between the read and the commit, or a manual run has no next
\* run: the exception leaves the function and the outcome is not stored.
SettleFails(e) ==
    /\ exec[e].phase \in {"finishing", "failing"}
    /\ ~CanSettle(e)
    /\ Leave(e)
    /\ UNCHANGED <<now, tableVars, queue, edit, crashes>>

\* Mutated form: only a successful run is announced.
NotifyRead_Succeeded(e) ==
    /\ exec[e].phase = "notify"
    /\ IF run[exec[e].run].status = "succeeded"
       THEN exec' = [exec EXCEPT ![e].phase = "inserting", ![e].status = "succeeded",
                                 ![e].linked = (run[exec[e].run].link = "set")]
       ELSE Leave(e)
    /\ UNCHANGED <<now, tableVars, queue, edit, crashes>>

\* create_task_notification_for_run reads task and run in a session of its own.
\* Its LookupError is swallowed by _publish_task_notification.
NotifyRead(e) ==
    /\ exec[e].phase = "notify"
    /\ IF Exists(exec[e].run)
       THEN exec' = [exec EXCEPT ![e].phase = "inserting",
                                 ![e].linked = (run[exec[e].run].link = "set"),
                                 ![e].status = run[exec[e].run].status]
       ELSE Leave(e)
    /\ UNCHANGED <<now, tableVars, queue, edit, crashes>>

\* The foreign keys of the new task_notifications row.
CanInsert(e) ==
    /\ Exists(exec[e].run)
    /\ exec[e].linked => conv[exec[e].run] = "present"

\* The insert commits, or fails on a foreign key and is swallowed as well.
NotifyInsert(e) ==
    /\ exec[e].phase = "inserting"
    /\ IF CanInsert(e)
       THEN notes' = [notes EXCEPT ![exec[e].run][exec[e].status] = @ + 1]
       ELSE UNCHANGED notes
    /\ Leave(e)
    /\ UNCHANGED <<now, taskState, task, run, conv, queue, edit, crashes>>

-----------------------------------------------------------------------------
(* The clock and the server.                                               *)

Tick ==
    /\ now < MaxTime
    /\ now' = now + 1
    /\ UNCHANGED <<tableVars, callVars, crashes>>

\* The server dies, or is stopped: CancelledError is not an Exception, so a
\* cancelled call stores nothing more.  It starts again with empty queues, and
\* nothing looks at the runs it left behind.
Crash ==
    /\ crashes < MaxCrashes
    /\ crashes' = crashes + 1
    /\ queue' = [s \in Schedulers |-> {}]
    /\ exec' = [e \in Executors |-> Idle]
    /\ edit' = [u \in Editors |-> NoEdit]
    /\ UNCHANGED <<now, tableVars>>

\* The steps of a call in progress.
ExecuteStep(e) ==
    \/ Claim(e) \/ ClaimFails(e) \/ SavePrompt(e)
    \/ AgentReturns(e) \/ AgentRaises(e)
    \/ SettleRead(e) \/ Settle(e) \/ SettleFails(e)
    \/ NotifyRead(e) \/ NotifyInsert(e)

\* The steps of the polling loop itself.
LoopStep(s) ==
    \/ Poll(s)
    \/ \E d \in queue[s] : SkipDeleted(s, d) \/ Dispatch(s, d)

Next ==
    \/ \E t \in Tasks : CreateTask(t) \/ DeleteTask(t)
    \/ \E u \in Editors : EditCommit(u) \/ EditFails(u)
    \/ \E u \in Editors, t \in Tasks : EditRead(u, t)
    \/ \E r \in Runs : DeleteConversation(r)
    \/ \E m \in Requests, t \in Tasks : TriggerManually(m, t)
    \/ \E s \in Schedulers : LoopStep(s)
    \/ \E e \in Executors : ExecuteStep(e)
    \/ Tick
    \/ Crash

Spec == Init /\ [][Next]_vars

\* The event loop runs every ready coroutine, so a call in progress and the
\* polling loop do not stop by themselves.
Fairness ==
    /\ \A s \in Schedulers : WF_vars(LoopStep(s))
    /\ \A e \in Executors : WF_vars(ExecuteStep(e))

FairSpec == Spec /\ Fairness

-----------------------------------------------------------------------------
(* Properties.                                                             *)

Owns(e, r) == exec[e].phase # "idle" /\ exec[e].run = r

\* At most one call works on a run, and a call that still has to settle its run
\* finds it running or deleted: no second call, retry or restart ever takes a
\* run over (execute_inspection_task always inserts a new row).
RunOwnership ==
    /\ \A r \in Runs, e, f \in Executors : Owns(e, r) /\ Owns(f, r) => e = f
    /\ \A e \in Executors : exec[e].phase # "idle" =>
         run[exec[e].run].status \in
            (IF exec[e].phase \in {"notify", "inserting"} THEN Terminal ELSE {"running"})
            \cup {"deleted"}

\* A notification tells the truth: its run exists, has settled with the status
\* the notification shows, and there is one notification at most per run -
\* although it is written two sessions after the outcome, while tasks and
\* conversations are being deleted.
NotificationsMatchRuns ==
    \A r \in Runs, s \in Terminal :
        notes[r][s] > 0 => /\ notes[r][s] = 1
                           /\ run[r].status = s
                           /\ taskState[run[r].task] = "present"

\* A task shown as "running" has a running run, whatever overlap of manual runs,
\* scheduled runs and edits wrote last_status last.
RunningTaskHasRun ==
    \A t \in Tasks : task[t].last = "running" =>
        \E r \in Runs : run[r].task = t /\ run[r].status = "running"

\* An enabled task has a next run, so the poll can find it again: with at most
\* one edit in flight, whatever the executor writes back in between.
EnabledTaskIsScheduled ==
    \A t \in Tasks : taskState[t] = "present" /\ task[t].enabled => task[t].next # NoTime

\* The loop runs a due slot once.  The only way to run a slot a second time is
\* a manual run that began before the slot and settled after it: it moves
\* next_run_at back to the first slot after its own start.
SlotServedOnce ==
    \A q, r \in Runs :
        /\ q # r
        /\ run[q].task = run[r].task
        /\ run[q].trigger = "scheduled" /\ run[q].link # "null"
        /\ run[r].trigger = "scheduled" /\ run[r].link # "null"
        /\ run[q].due = run[r].due
        => \E m \in Runs :
              /\ run[m].task = run[r].task
              /\ run[m].trigger = "manual"
              /\ run[m].status = "succeeded"
              /\ run[m].start < run[r].due
              /\ run[m].finish >= run[r].due

\* task-scheduling-design.md 9.2: a failed execution becomes a failed run.
FailureIsRecorded == \A r \in Runs : run[r].status = "succeeded" => run[r].agent = "ok"

\* task-scheduling-design.md 9.2: no execution fails silently.  As long as the
\* server does not die, a run is "running" only while a call works on it.
NoSilentFailure ==
    crashes = 0 => \A r \in Runs : run[r].status = "running" /\ conv[r] = "present" =>
                       \E e \in Executors : Owns(e, r)

\* Every due task is claimed, disabled, rescheduled or deleted: neither a
\* failing id nor a failing run stops the loop.  It needs agent runs that end
\* and (a bound of the model) a run row left to insert.
DueIsServed ==
    \A t \in Tasks : IsDue(t) ~> (~IsDue(t) \/ \A r \in Runs : ~FreshRun(r))

\* As long as the server does not die, every outcome is announced, unless the
\* run or its conversation is deleted first.
OutcomeIsAnnounced ==
    \A r \in Runs :
        run[r].status \in Terminal ~>
            \/ \E s \in Terminal : notes[r][s] > 0
            \/ run[r].status = "deleted" \/ conv[r] = "deleted" \/ crashes > 0

-----------------------------------------------------------------------------
(* The inductive invariant behind the safety properties.                   *)

\* A run that exists belongs to a task that exists (foreign keys); only a run
\* that has settled has notifications.
RowsInv ==
    \A r \in Runs :
        /\ Exists(r) => run[r].task \in Tasks /\ taskState[run[r].task] = "present"
        /\ run[r].status \notin Terminal => notes[r] = NoNotes

\* A call in progress has a task and a run of that task, not yet announced; in
\* its last phase it has read the outcome the run still has.
CallInv ==
    \A e \in Executors : exec[e].phase # "idle" =>
        LET r == exec[e].run IN
        /\ Exists(r) => run[r].task = exec[e].task
        /\ notes[r] = NoNotes
        /\ exec[e].phase = "inserting" =>
             /\ exec[e].status \in Terminal
             /\ Exists(r) => run[r].status = exec[e].status

\* Run r vouches for last_status = "running" of its task: it is running, and a
\* call about to settle it has read "running", so its commit will overwrite it.
Vouches(r, t) ==
    /\ run[r].task = t
    /\ run[r].status = "running"
    /\ \A e \in Executors :
         Owns(e, r) /\ exec[e].phase \in {"finishing", "failing"}
            => exec[e].loaded.last = "running"

LastStatusInv == \A t \in Tasks : task[t].last = "running" => \E r \in Runs : Vouches(r, t)

\* Everything the steps rely on; InspectionTasks_proofs proves it inductive.
IInv ==
    /\ TypeOK
    /\ RowsInv
    /\ CallInv
    /\ RunOwnership
    /\ NotificationsMatchRuns
    /\ LastStatusInv

\* While the only edit in flight is suspended nobody else changes `enabled`, and
\* nobody clears next_run_at.
OneEditInv ==
    \A u \in Editors : edit[u].phase = "loaded" =>
        LET t == edit[u].task IN
        /\ t \in Tasks
        /\ taskState[t] # "absent"
        /\ taskState[t] = "present" =>
             /\ task[t].enabled = edit[u].loaded.enabled
             /\ edit[u].loaded.next # NoTime => task[t].next # NoTime

-----------------------------------------------------------------------------
(* Refinement.                                                             *)

Lifecycle == INSTANCE RunLifecycle WITH
                 status <- [r \in Runs |-> run[r].status], notes <- notes

\* To a reader of the history the runs behave as RunLifecycle says.
ImplementsLifecycle == Lifecycle!Spec
=============================================================================
