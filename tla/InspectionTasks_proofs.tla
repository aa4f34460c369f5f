------------------------ MODULE InspectionTasks_proofs ------------------------
(***************************************************************************)
(* Proofs about InspectionTasks for every set of tasks, runs, schedulers,  *)
(* requests and editors, every cron expression and every bound.            *)
(***************************************************************************)
EXTENDS InspectionTasks, TLAPS

-----------------------------------------------------------------------------
(* Lemmas about the helpers.                                               *)

\* next_cron_run_at returns a minute or raises; what it returns lies ahead.
LEMMA NextRunAtType ==
    ASSUME NEW c \in Crons, NEW t \in Time
    PROVE  /\ NextRunAt(c, t) \in Time
           /\ NextRunAt(c, t) # NoTime => t < NextRunAt(c, t)
<1> DEFINE First(s) == \A u \in Candidates(c, t) : s <= u
<1>1. Slots[c] \in SUBSET Nat
  BY ConstantsAssumption
<1>2. CASE \E s \in Candidates(c, t) : First(s)
  <2>1. PICK s \in Candidates(c, t) : s = NextRunAt(c, t)
    BY <1>2 DEF NextRunAt
  <2>2. s \in Nat /\ t < s
    BY <2>1, <1>1 DEF Candidates
  <2>3. QED
    BY <2>1, <2>2 DEF Time
<1>3. CASE ~\E s \in Candidates(c, t) : First(s)
  BY <1>3 DEF NextRunAt, Time, NoTime
<1>4. QED
  BY <1>2, <1>3

\* A commit leaves a well-formed row.
LEMMA FlushType ==
    ASSUME NEW a \in TaskRow, NEW b \in TaskRow, NEW c \in TaskRow
    PROVE  Flush(a, b, c) \in TaskRow
BY DEF Flush, Column, TaskRow

\* The rows and calls in their initial state are well formed.
LEMMA BlankTypes ==
    /\ BlankTask \in TaskRow
    /\ \A status \in RunStatus : BlankRun(status) \in RunRow
    /\ Idle \in Call
    /\ NoEdit \in Edit
    /\ NoNotes \in [Terminal -> Nat]
<1>1. BlankTask \in TaskRow
  BY ConstantsAssumption DEF BlankTask, TaskRow, TaskStatus, Time
<1>2. \A status \in RunStatus : BlankRun(status) \in RunRow
  BY DEF BlankRun, RunRow, Time
<1>3. Idle \in Call
  BY <1>1 DEF Idle, Call, Phase, Time, RunStatus
<1>4. NoEdit \in Edit
  BY <1>1 DEF NoEdit, Edit, Time
<1>5. NoNotes \in [Terminal -> Nat]
  BY DEF NoNotes
<1>6. QED
  BY <1>1, <1>2, <1>3, <1>4, <1>5

\* Assigning columns of a row, and fields of a call.
LEMMA RunColumns ==
    ASSUME NEW x \in RunRow
    PROVE  /\ \A v \in {"null", "set", "unset"} : [x EXCEPT !.link = v] \in RunRow
           /\ \A v \in {"none", "ok", "error", "raised"} : [x EXCEPT !.agent = v] \in RunRow
           /\ \A v \in Terminal, w \in Time :
                [[x EXCEPT !.status = v] EXCEPT !.finish = w] \in RunRow
           /\ \A t \in Tasks, v \in {"scheduled", "manual"}, w \in Time, d \in Time :
                [x EXCEPT !.task = t, !.trigger = v, !.start = w, !.due = d] \in RunRow
BY DEF RunRow, RunStatus

\* The records the steps of a call store in exec, as operators: a lemma about an
\* operator is easier to apply than one about an EXCEPT.
AtPhase(x, p) == [x EXCEPT !.phase = p]
Loading(x, p, b) == [x EXCEPT !.phase = p, !.loaded = b]
Announcing(x, b, v) == [x EXCEPT !.phase = "inserting", !.linked = b, !.status = v]
Opened(t, r, w, b) ==
    [Idle EXCEPT !.phase = "opened", !.task = t, !.run = r, !.start = w, !.loaded = b]

\* Changing the phase of a call keeps its type, its task and its run.
LEMMA CallPhase ==
    ASSUME NEW x \in Call, NEW p \in Phase
    PROVE  LET y == AtPhase(x, p) IN
           y \in Call /\ y.phase = p /\ y.task = x.task /\ y.run = x.run
BY DEF Call, AtPhase

\* So does loading the task row, at SettleRead ...
LEMMA CallLoading ==
    ASSUME NEW x \in Call, NEW p \in Phase, NEW b \in TaskRow
    PROVE  LET y == Loading(x, p, b) IN
           /\ y \in Call /\ y.phase = p /\ y.task = x.task /\ y.run = x.run
           /\ y.loaded = b
BY DEF Call, Loading

\* ... and reading what the notification will show, at NotifyRead.
LEMMA CallAnnouncing ==
    ASSUME NEW x \in Call, NEW b \in BOOLEAN, NEW v \in RunStatus
    PROVE  LET y == Announcing(x, b, v) IN
           /\ y \in Call /\ y.phase = "inserting" /\ y.task = x.task /\ y.run = x.run
           /\ y.status = v
BY DEF Call, Announcing, Phase

\* A call that has just opened run r of task t.
LEMMA CallOpened ==
    ASSUME NEW t \in Tasks, NEW r \in Runs, NEW w \in Time, NEW b \in TaskRow
    PROVE  LET y == Opened(t, r, w, b) IN
           y \in Call /\ y.phase = "opened" /\ y.task = t /\ y.run = r
BY BlankTypes DEF Call, Opened, Phase, Idle

-----------------------------------------------------------------------------
(* Type correctness.                                                       *)

\* The calls are well typed: what TypeOK says about exec.
ExecTypeOK ==
    /\ exec \in [Executors -> Call]
    /\ \A e \in Executors :
         exec[e].phase # "idle" => exec[e].task \in Tasks /\ exec[e].run \in Runs

\* The program starts with well-typed tables.
LEMMA InitTypeOK == Init => TypeOK
<1> SUFFICES ASSUME Init PROVE TypeOK
  OBVIOUS
<1>1. Idle.phase = "idle"
  BY DEF Idle
<1>2. ExecTypeOK
  BY <1>1, BlankTypes DEF Init, ExecTypeOK
<1>3. QED
  BY <1>2, BlankTypes, ConstantsAssumption
     DEF Init, TypeOK, ExecTypeOK, RowState, RunStatus

\* What a session assigns to the row it loaded is a row.
LEMMA AssignedTypes ==
    ASSUME TypeOK, NEW e \in Executors
    PROVE  /\ Claimed(e) \in TaskRow
           /\ Succeeded(e) \in TaskRow
           /\ Failed(e) \in TaskRow
<1>1. exec[e].loaded \in TaskRow /\ exec[e].start \in Time
  BY DEF TypeOK, Call
<1>2. NextRunAt(exec[e].loaded.cron, exec[e].start) \in Time
  BY <1>1, NextRunAtType DEF TaskRow
<1>3. QED
  BY <1>1, <1>2 DEF Claimed, Succeeded, Failed, TaskRow, TaskStatus, Terminal

\* Replacing one call by a well-typed one, leaving it, or taking it a step
\* further keeps exec well typed.
LEMMA ExecTypes ==
    ASSUME TypeOK, NEW e \in Executors
    PROVE  /\ \A x \in Call :
                /\ x.phase # "idle" => x.task \in Tasks /\ x.run \in Runs
                /\ exec' = [exec EXCEPT ![e] = x]
                => ExecTypeOK'
           /\ Leave(e) => ExecTypeOK'
           /\ \A p \in Phase :
                exec[e].phase # "idle" /\ exec' = [exec EXCEPT ![e].phase = p]
                => ExecTypeOK'
<1>1. ASSUME NEW x \in Call, x.phase # "idle" => x.task \in Tasks /\ x.run \in Runs,
             exec' = [exec EXCEPT ![e] = x]
      PROVE  ExecTypeOK'
  BY <1>1 DEF TypeOK, ExecTypeOK
<1>2. ASSUME Leave(e) PROVE ExecTypeOK'
  <2>1. Idle \in Call /\ Idle.phase = "idle"
    BY BlankTypes DEF Idle
  <2>2. QED
    BY <1>1, <1>2, <2>1 DEF Leave
<1>3. ASSUME NEW p \in Phase, exec[e].phase # "idle",
             exec' = [exec EXCEPT ![e].phase = p]
      PROVE  ExecTypeOK'
  <2> DEFINE x == AtPhase(exec[e], p)
  <2>0. exec[e] \in Call
    BY DEF TypeOK
  <2>1. x \in Call /\ x.task = exec[e].task /\ x.run = exec[e].run
    BY <2>0, CallPhase
  <2>2. exec' = [exec EXCEPT ![e] = x]
    BY <1>3 DEF AtPhase
  <2>3. exec[e].task \in Tasks /\ exec[e].run \in Runs
    BY <1>3 DEF TypeOK
  <2> HIDE DEF x
  <2>4. QED
    BY <1>1, <2>1, <2>2, <2>3
<1>4. QED
  BY <1>1, <1>2, <1>3

\* One more notification.
OneMore(f, s) == [f EXCEPT ![s] = @ + 1]

\* Counting one more notification keeps the type of the counts.
LEMMA OneMoreType ==
    ASSUME NEW f \in [Terminal -> Nat], NEW s \in RunStatus
    PROVE  OneMore(f, s) \in [Terminal -> Nat]
<1>1. CASE s \in Terminal
  BY <1>1 DEF OneMore
<1>2. CASE s \notin Terminal
  BY <1>2 DEF OneMore
<1>3. QED
  BY <1>1, <1>2

\* Every step keeps every variable in its type.
LEMMA TypePreserved == TypeOK /\ [Next]_vars => TypeOK'
<1> SUFFICES ASSUME TypeOK, [Next]_vars PROVE TypeOK'
  OBVIOUS
<1> USE ConstantsAssumption DEF TypeOK, ExecTypeOK
<1>1. ASSUME NEW t \in Tasks, CreateTask(t) PROVE TypeOK'
  <2>1. PICK c \in Crons, enabled \in BOOLEAN :
          task' = [task EXCEPT ![t] =
                     [enabled |-> enabled, cron |-> c, last |-> "idle",
                      next |-> IF enabled THEN NextRunAt(c, now) ELSE NoTime]]
    BY <1>1 DEF CreateTask
  <2>2. NextRunAt(c, now) \in Time
    BY NextRunAtType DEF Time
  <2>3. task' \in [Tasks -> TaskRow]
    BY <2>1, <2>2 DEF TaskRow, TaskStatus, Time
  <2>4. QED
    BY <1>1, <2>3 DEF CreateTask, RowState, callVars
<1>2. ASSUME NEW t \in Tasks, DeleteTask(t) PROVE TypeOK'
  <2>1. /\ task' \in [Tasks -> TaskRow]
        /\ run' \in [Runs -> RunRow]
        /\ notes' \in [Runs -> [Terminal -> Nat]]
    BY <1>2, BlankTypes DEF DeleteTask, RunsAfterDelete, NotesAfterDelete, RunStatus
  <2>2. QED
    BY <1>2, <2>1 DEF DeleteTask, RowState, callVars
<1>3. ASSUME NEW u \in Editors, EditCommit(u) PROVE TypeOK'
  <2> DEFINE t == edit[u].task
             b == edit[u].loaded
  <2>1. PICK c \in Crons, enabled \in BOOLEAN :
          task' = [task EXCEPT ![t] = Flush(@, b, Edited(b, c, enabled, edit[u].at))]
    BY <1>3 DEF EditCommit
  <2>2. b \in TaskRow /\ edit[u].at \in Time
    BY DEF Edit
  <2>3. Edited(b, c, enabled, edit[u].at) \in TaskRow
    BY <2>2, NextRunAtType DEF Edited, TaskRow, Time
  <2>4. task' \in [Tasks -> TaskRow]
    BY <2>1, <2>2, <2>3, FlushType
  <2>5. QED
    BY <1>3, <2>4, BlankTypes DEF EditCommit
<1>4. ASSUME NEW u \in Editors, EditFails(u) PROVE TypeOK'
  BY <1>4, BlankTypes DEF EditFails, tableVars
<1>5. ASSUME NEW u \in Editors, NEW t \in Tasks, EditRead(u, t) PROVE TypeOK'
  BY <1>5 DEF EditRead, Edit, tableVars, Time
<1>6. ASSUME NEW r \in Runs, DeleteConversation(r) PROVE TypeOK'
  <2>1. (IF run[r].link = "set" THEN "unset" ELSE run[r].link) \in {"null", "set", "unset"}
    BY DEF RunRow
  <2>2. run' \in [Runs -> RunRow]
    BY <1>6, <2>1, RunColumns DEF DeleteConversation
  <2>3. QED
    BY <1>6, <2>2 DEF DeleteConversation, RowState, callVars
<1>7. ASSUME NEW e \in Executors, NEW t \in Tasks, NEW due \in Time, Open(e, t, due),
             queue' \in [Schedulers -> SUBSET Due]
      PROVE  TypeOK'
  <2>1. PICK r \in Runs :
          /\ run' = [run EXCEPT ![r] =
                      [BlankRun("running") EXCEPT !.task = t, !.trigger = Trigger(e),
                                                  !.start = now, !.due = due]]
          /\ conv' = [conv EXCEPT ![r] = "present"]
          /\ exec' = [exec EXCEPT ![e] =
                       [Idle EXCEPT !.phase = "opened", !.task = t, !.run = r,
                                    !.start = now, !.loaded = task[t]]]
    BY <1>7 DEF Open
  <2>2. run' \in [Runs -> RunRow]
    <3>1. BlankRun("running") \in RunRow /\ now \in Time
      BY BlankTypes DEF RunStatus, Time
    <3>2. QED
      BY <2>1, <3>1, RunColumns DEF Trigger
  <2>3. ExecTypeOK'
    <3> DEFINE x == Opened(t, r, now, task[t])
    <3>1. now \in Time /\ task[t] \in TaskRow
      BY DEF Time
    <3>2. x \in Call /\ x.task = t /\ x.run = r
      BY <3>1, CallOpened
    <3>3. exec' = [exec EXCEPT ![e] = x]
      BY <2>1 DEF Opened
    <3> HIDE DEF x
    <3>4. QED
      BY <3>2, <3>3, ExecTypes
  <2>4. QED
    BY <1>7, <2>1, <2>2, <2>3 DEF Open, RowState
<1>8. ASSUME NEW m \in Requests, NEW t \in Tasks, TriggerManually(m, t) PROVE TypeOK'
  <2>1. Open(m, t, NoTime) /\ queue' = queue
    BY <1>8 DEF TriggerManually
  <2>2. m \in Executors /\ NoTime \in Time
    BY DEF Executors, Time
  <2>3. QED
    BY <1>7, <2>1, <2>2
<1>9. ASSUME NEW s \in Schedulers, LoopStep(s) PROVE TypeOK'
  <2>1. CASE Poll(s)
    <3>1. \A t \in Tasks : IsDue(t) => [task |-> t, at |-> task[t].next] \in Due
      BY DEF IsDue, Due, TaskRow, Time
    <3>2. queue' \in [Schedulers -> SUBSET Due]
      BY <2>1, <3>1 DEF Poll
    <3>3. QED
      BY <2>1, <3>2 DEF Poll, tableVars
  <2>2. ASSUME NEW d \in queue[s], SkipDeleted(s, d) PROVE TypeOK'
    BY <2>2 DEF SkipDeleted, tableVars
  <2>3. ASSUME NEW d \in queue[s], Dispatch(s, d) PROVE TypeOK'
    <3>1. d.task \in Tasks /\ d.at \in Time
      BY DEF Due, Time
    <3>2. Open(s, d.task, d.at) /\ queue' \in [Schedulers -> SUBSET Due]
      BY <2>3 DEF Dispatch
    <3>3. s \in Executors
      BY DEF Executors
    <3>4. QED
      BY <1>7, <3>1, <3>2, <3>3
  <2>4. QED
    BY <1>9, <2>1, <2>2, <2>3 DEF LoopStep
<1>10. ASSUME NEW e \in Executors, ExecuteStep(e) PROVE TypeOK'
  <2>1. CASE Claim(e)
    <3>1. task' \in [Tasks -> TaskRow]
      BY <2>1, FlushType, AssignedTypes DEF Claim, Call
    <3>2. run' \in [Runs -> RunRow]
      BY <2>1, RunColumns DEF Claim
    <3>3. QED
      BY <2>1, <3>1, <3>2, ExecTypes DEF Claim, Phase
  <2>2. CASE ClaimFails(e)
    BY <2>2, ExecTypes DEF ClaimFails, tableVars
  <2>3. CASE SavePrompt(e)
    <3>1. "agent" \in Phase
      BY DEF Phase
    <3>2. ExecTypeOK'
      BY <2>3, <3>1, ExecTypes DEF SavePrompt
    <3>3. QED
      BY <2>3, <3>2 DEF SavePrompt, tableVars
  <2>4. CASE AgentReturns(e) \/ AgentRaises(e)
    <3>1. PICK how \in {"ok", "error", "raised"} :
            run' = [run EXCEPT ![exec[e].run].agent = IF Exists(exec[e].run) THEN how ELSE @]
      BY <2>4 DEF AgentReturns, AgentRaises
    <3>2. run' \in [Runs -> RunRow]
      <4>1. ASSUME exec[e].run \in Runs
            PROVE  (IF Exists(exec[e].run) THEN how ELSE run[exec[e].run].agent)
                      \in {"none", "ok", "error", "raised"}
        BY <4>1 DEF RunRow
      <4>2. QED
        BY <3>1, <4>1, RunColumns
    <3>3. "ended" \in Phase /\ "raised" \in Phase
      BY DEF Phase
    <3>4. ExecTypeOK'
      BY <2>4, <3>3, ExecTypes DEF AgentReturns, AgentRaises
    <3>5. QED
      BY <2>4, <3>2, <3>4 DEF AgentReturns, AgentRaises
  <2>5. CASE SettleRead(e)
    <3>1. CASE Exists(exec[e].run)
      <4> DEFINE p == IF exec[e].phase = "ended" THEN "finishing" ELSE "failing"
                 b == task[exec[e].task]
                 x == Loading(exec[e], p, b)
      <4>1. p \in Phase
        BY DEF Phase
      <4>2. exec[e].task \in Tasks /\ exec[e].run \in Runs /\ exec[e] \in Call
        BY <2>5 DEF SettleRead
      <4>3. b \in TaskRow
        BY <4>2
      <4>4. exec' = [exec EXCEPT ![e] = x]
        BY <2>5, <3>1 DEF SettleRead, Loading
      <4> HIDE DEF p, b
      <4>5. x \in Call /\ x.task = exec[e].task /\ x.run = exec[e].run
        BY <4>1, <4>2, <4>3, CallLoading
      <4> HIDE DEF x
      <4>6. ExecTypeOK'
        BY <4>2, <4>4, <4>5, ExecTypes
      <4>7. QED
        BY <2>5, <4>6 DEF SettleRead, tableVars
    <3>2. CASE ~Exists(exec[e].run)
      BY <2>5, <3>2, ExecTypes DEF SettleRead, tableVars
    <3>3. QED
      BY <3>1, <3>2
  <2>6. CASE Settle(e)
    <3>1. task' \in [Tasks -> TaskRow]
      BY <2>6, FlushType, AssignedTypes DEF Settle, Call
    <3>2. run' \in [Runs -> RunRow]
      <4>1. now \in Time
        BY DEF Time
      <4>2. QED
        BY <2>6, <4>1, RunColumns DEF Settle, Terminal
    <3>3. QED
      BY <2>6, <3>1, <3>2, ExecTypes DEF Settle, Phase
  <2>7. CASE SettleFails(e)
    BY <2>7, ExecTypes DEF SettleFails, tableVars
  <2>8. CASE NotifyRead(e)
    <3>1. CASE Exists(exec[e].run)
      <4> DEFINE b == (run[exec[e].run].link = "set")
                 v == run[exec[e].run].status
                 x == Announcing(exec[e], b, v)
      <4>1. exec[e].task \in Tasks /\ exec[e].run \in Runs /\ exec[e] \in Call
        BY <2>8 DEF NotifyRead
      <4>2. b \in BOOLEAN /\ v \in RunStatus
        BY <4>1 DEF RunRow
      <4>3. exec' = [exec EXCEPT ![e] = x]
        BY <2>8, <3>1 DEF NotifyRead, Announcing
      <4> HIDE DEF b, v
      <4>4. x \in Call /\ x.task = exec[e].task /\ x.run = exec[e].run
        BY <4>1, <4>2, CallAnnouncing
      <4> HIDE DEF x
      <4>5. ExecTypeOK'
        BY <4>1, <4>3, <4>4, ExecTypes
      <4>6. QED
        BY <2>8, <4>5 DEF NotifyRead, tableVars
    <3>2. CASE ~Exists(exec[e].run)
      BY <2>8, <3>2, ExecTypes DEF NotifyRead, tableVars
    <3>3. QED
      BY <3>1, <3>2
  <2>9. CASE NotifyInsert(e)
    <3>1. exec[e].run \in Runs /\ exec[e].status \in RunStatus
      BY <2>9 DEF NotifyInsert, Call
    <3>2. notes' \in [Runs -> [Terminal -> Nat]]
      <4> DEFINE row == OneMore(notes[exec[e].run], exec[e].status)
      <4>1. row \in [Terminal -> Nat]
        BY <3>1, OneMoreType
      <4>2. notes' = [notes EXCEPT ![exec[e].run] = row] \/ notes' = notes
        BY <2>9 DEF NotifyInsert, OneMore
      <4> HIDE DEF row
      <4>3. QED
        BY <3>1, <4>1, <4>2
    <3>3. QED
      BY <2>9, <3>2, ExecTypes DEF NotifyInsert
  <2>10. QED
    BY <1>10, <2>1, <2>2, <2>3, <2>4, <2>5, <2>6, <2>7, <2>8, <2>9 DEF ExecuteStep
<1>11. CASE Tick
  BY <1>11 DEF Tick, tableVars, callVars
<1>12. CASE Crash
  <2>1. Idle.phase = "idle"
    BY DEF Idle
  <2>2. QED
    BY <1>12, <2>1, BlankTypes DEF Crash, tableVars
<1>13. CASE UNCHANGED vars
  BY <1>13 DEF vars
<1>14. QED
  BY <1>1, <1>2, <1>3, <1>4, <1>5, <1>6, <1>8, <1>9, <1>10, <1>11, <1>12, <1>13 DEF Next

\* Every table, queue and call keeps its type.
THEOREM TypeCorrect == Spec => []TypeOK
BY InitTypeOK, TypePreserved, PTL DEF Spec

-----------------------------------------------------------------------------
(* What the steps of a call do to the tables, pointwise.                   *)

\* Call e goes on to phase p, or leaves; the other calls stay as they are.
Moves(e, p) ==
    /\ exec'[e].phase = p /\ exec'[e].task = exec[e].task /\ exec'[e].run = exec[e].run
    /\ \A f \in Executors : f # e => exec'[f] = exec[f]
Leaves(e) ==
    /\ exec'[e].phase = "idle"
    /\ \A f \in Executors : f # e => exec'[f] = exec[f]

\* No run changes its status or its task.
KeepsRuns == \A r \in Runs : run'[r].status = run[r].status /\ run'[r].task = run[r].task
KeepsTables == KeepsRuns /\ notes' = notes /\ taskState' = taskState

\* A call that leaves is idle again and touches no other call.
LEMMA LeaveShape ==
    ASSUME TypeOK, NEW e \in Executors, Leave(e)
    PROVE  Leaves(e)
BY DEF TypeOK, Leave, Leaves, Idle

\* A call that only changes its phase keeps the status it read.
LEMMA PhaseShape ==
    ASSUME TypeOK, NEW e \in Executors, NEW p \in Phase, exec' = [exec EXCEPT ![e].phase = p]
    PROVE  Moves(e, p) /\ exec'[e].status = exec[e].status
<1> DEFINE x == AtPhase(exec[e], p)
<1>1. exec' = [exec EXCEPT ![e] = x]
  BY DEF AtPhase
<1>2. x.phase = p /\ x.task = exec[e].task /\ x.run = exec[e].run /\ x.status = exec[e].status
  <2>1. exec[e] \in Call
    BY DEF TypeOK
  <2>2. QED
    BY <2>1 DEF Call, AtPhase
<1> HIDE DEF x
<1>3. QED
  BY <1>1, <1>2 DEF TypeOK, Moves

\* The claim changes no run status and needs its run to exist.
LEMMA ClaimShape ==
    ASSUME TypeOK, NEW e \in Executors, Claim(e)
    PROVE  /\ exec[e].phase = "opened" /\ Moves(e, "committed") /\ KeepsTables
           /\ run[exec[e].run].status \in {"running"} \cup Terminal
<1>1. exec[e].run \in Runs
  BY DEF TypeOK, Claim
<1>2. KeepsRuns
  BY <1>1 DEF Claim, TypeOK, KeepsRuns, RunRow
<1>3. Moves(e, "committed")
  BY PhaseShape DEF Claim, Phase
<1>4. QED
  BY <1>1, <1>2, <1>3 DEF Claim, CanClaim, Exists, KeepsTables

\* Saving the prompt changes none of the tables.
LEMMA SavePromptShape ==
    ASSUME TypeOK, NEW e \in Executors, SavePrompt(e)
    PROVE  exec[e].phase = "committed" /\ KeepsTables /\ task' = task
             /\ (Moves(e, "agent") \/ Leaves(e))
<1>1. Moves(e, "agent") \/ Leaves(e)
  BY PhaseShape, LeaveShape DEF SavePrompt, Phase
<1>2. QED
  BY <1>1 DEF SavePrompt, KeepsTables, KeepsRuns, tableVars

\* The end of the agent turn, as the program sees it, changes no table.
LEMMA AgentShape ==
    ASSUME TypeOK, NEW e \in Executors, AgentReturns(e) \/ AgentRaises(e)
    PROVE  /\ exec[e].phase = "agent" /\ KeepsTables /\ task' = task
           /\ Moves(e, "ended") \/ Moves(e, "raised")
<1>1. exec[e].run \in Runs
  BY DEF TypeOK, AgentReturns, AgentRaises
<1>2. PICK how : run' = [run EXCEPT ![exec[e].run].agent = how]
  BY DEF AgentReturns, AgentRaises
<1>3. KeepsRuns
  BY <1>1, <1>2 DEF TypeOK, KeepsRuns, RunRow
<1>4. Moves(e, "ended") \/ Moves(e, "raised")
  BY PhaseShape DEF AgentReturns, AgentRaises, Phase
<1>5. QED
  BY <1>3, <1>4 DEF AgentReturns, AgentRaises, KeepsTables

\* The settling session reads the task row of a run that exists.
LEMMA SettleReadShape ==
    ASSUME TypeOK, NEW e \in Executors, SettleRead(e)
    PROVE  /\ exec[e].phase \in {"ended", "raised"} /\ KeepsTables /\ task' = task
           /\ \/ Leaves(e)
              \/ /\ Moves(e, "finishing") \/ Moves(e, "failing")
                 /\ exec'[e].loaded = task[exec[e].task]
<1>1. exec[e] \in Call /\ exec[e].task \in Tasks /\ task[exec[e].task] \in TaskRow
  BY DEF TypeOK, SettleRead
<1>2. CASE Exists(exec[e].run)
  <2> DEFINE p == IF exec[e].phase = "ended" THEN "finishing" ELSE "failing"
             b == task[exec[e].task]
             x == Loading(exec[e], p, b)
  <2>1. exec' = [exec EXCEPT ![e] = x]
    BY <1>2 DEF SettleRead, Loading
  <2>2. p \in Phase
    BY DEF Phase
  <2>3. p = "finishing" \/ p = "failing"
    OBVIOUS
  <2> HIDE DEF p, b
  <2>4. x.phase = p /\ x.task = exec[e].task /\ x.run = exec[e].run /\ x.loaded = b
    BY <1>1, <2>2, CallLoading DEF b
  <2> HIDE DEF x
  <2>5. Moves(e, p) /\ exec'[e].loaded = b
    BY <2>1, <2>4 DEF TypeOK, Moves
  <2>6. QED
    BY <2>3, <2>5 DEF b, SettleRead, KeepsTables, KeepsRuns, tableVars
<1>3. CASE ~Exists(exec[e].run)
  BY <1>3, LeaveShape DEF SettleRead, KeepsTables, KeepsRuns, tableVars
<1>4. QED
  BY <1>2, <1>3

\* The settling commit ends the run of the call and no other.
LEMMA SettleShape ==
    ASSUME TypeOK, NEW e \in Executors, Settle(e)
    PROVE  LET r == exec[e].run IN
           /\ exec[e].phase \in {"finishing", "failing"} /\ Moves(e, "notify")
           /\ notes' = notes /\ taskState' = taskState
           /\ run[r].status \in {"running"} \cup Terminal
           /\ run'[r].status \in Terminal
           /\ \A q \in Runs : q # r => run'[q].status = run[q].status
           /\ \A q \in Runs : run'[q].task = run[q].task
<1> DEFINE r == exec[e].run
           status == IF exec[e].phase = "finishing" THEN "succeeded" ELSE "failed"
<1>1. r \in Runs /\ status \in Terminal
  BY DEF TypeOK, Settle, Terminal
<1>2. run' = [run EXCEPT ![r].status = status, ![r].finish = now]
  BY DEF Settle
<1> HIDE DEF status
<1>3. /\ run'[r].status = status
      /\ \A q \in Runs : q # r => run'[q].status = run[q].status
      /\ \A q \in Runs : run'[q].task = run[q].task
  BY <1>1, <1>2 DEF TypeOK, RunRow
<1>4. Moves(e, "notify")
  BY PhaseShape DEF Settle, Phase
<1>5. QED
  BY <1>1, <1>3, <1>4 DEF Settle, CanSettle, Exists

\* The notification session reads the status of the run.
LEMMA NotifyReadShape ==
    ASSUME TypeOK, NEW e \in Executors, NotifyRead(e)
    PROVE  /\ exec[e].phase = "notify" /\ KeepsTables /\ task' = task
           /\ \/ Leaves(e)
              \/ Moves(e, "inserting") /\ exec'[e].status = run[exec[e].run].status
                   /\ run[exec[e].run].status \in {"running"} \cup Terminal
<1>1. exec[e] \in Call /\ exec[e].run \in Runs
  BY DEF TypeOK, NotifyRead
<1>2. CASE Exists(exec[e].run)
  <2> DEFINE b == (run[exec[e].run].link = "set")
             v == run[exec[e].run].status
             x == Announcing(exec[e], b, v)
  <2>1. exec' = [exec EXCEPT ![e] = x]
    BY <1>2 DEF NotifyRead, Announcing
  <2>2. b \in BOOLEAN /\ v \in RunStatus
    BY <1>1 DEF TypeOK, RunRow
  <2> HIDE DEF b, v
  <2>3. x.phase = "inserting" /\ x.task = exec[e].task /\ x.run = exec[e].run /\ x.status = v
    BY <1>1, <2>2, CallAnnouncing
  <2> HIDE DEF x
  <2>4. Moves(e, "inserting") /\ exec'[e].status = v
    BY <2>1, <2>3 DEF TypeOK, Moves
  <2>5. QED
    BY <1>2, <2>4 DEF v, Exists, NotifyRead, KeepsTables, KeepsRuns, tableVars
<1>3. CASE ~Exists(exec[e].run)
  BY <1>3, LeaveShape DEF NotifyRead, KeepsTables, KeepsRuns, tableVars
<1>4. QED
  BY <1>2, <1>3

\* The insert adds one notification, of the status read, or none.
LEMMA NotifyInsertShape ==
    ASSUME TypeOK, NEW e \in Executors, NotifyInsert(e)
    PROVE  LET r == exec[e].run
               s == exec[e].status IN
           /\ exec[e].phase = "inserting" /\ Leaves(e)
           /\ KeepsRuns /\ taskState' = taskState /\ task' = task
           /\ \/ notes' = notes
              \/ /\ run[r].status \in {"running"} \cup Terminal
                 /\ notes' = [notes EXCEPT ![r] = OneMore(notes[r], s)]
<1>1. Leaves(e)
  BY LeaveShape DEF NotifyInsert
<1>2. QED
  BY <1>1 DEF NotifyInsert, CanInsert, Exists, OneMore, KeepsRuns

\* Opening a run.
LEMMA OpenShape ==
    ASSUME TypeOK, NEW e \in Executors, NEW t \in Tasks, NEW due \in Time, Open(e, t, due)
    PROVE  /\ exec[e].phase = "idle" /\ taskState[t] = "present"
           /\ taskState' = taskState /\ notes' = notes /\ task' = task
           /\ \E r \in Runs :
                /\ run[r].status = "absent"
                /\ run'[r].status = "running" /\ run'[r].task = t
                /\ \A q \in Runs : q # r => run'[q] = run[q]
                /\ exec'[e].phase = "opened" /\ exec'[e].task = t /\ exec'[e].run = r
                /\ \A f \in Executors : f # e => exec'[f] = exec[f]
<1>1. PICK r \in Runs :
        /\ run[r].status = "absent"
        /\ run' = [run EXCEPT ![r] =
                      [BlankRun("running") EXCEPT !.task = t, !.trigger = Trigger(e),
                                                  !.start = now, !.due = due]]
        /\ exec' = [exec EXCEPT ![e] =
                       [Idle EXCEPT !.phase = "opened", !.task = t, !.run = r,
                                    !.start = now, !.loaded = task[t]]]
  BY DEF Open, FreshRun
<1>2. run'[r].status = "running" /\ run'[r].task = t /\ \A q \in Runs : q # r => run'[q] = run[q]
  BY <1>1 DEF TypeOK, BlankRun
<1>3. /\ exec'[e].phase = "opened" /\ exec'[e].task = t /\ exec'[e].run = r
      /\ \A f \in Executors : f # e => exec'[f] = exec[f]
  <2>1. now \in Time /\ task[t] \in TaskRow
    BY ConstantsAssumption DEF TypeOK, Time
  <2>2. exec' = [exec EXCEPT ![e] = Opened(t, r, now, task[t])]
    BY <1>1 DEF Opened
  <2>3. QED
    BY <2>1, <2>2, CallOpened DEF TypeOK
<1>4. QED
  BY <1>1, <1>2, <1>3 DEF Open

-----------------------------------------------------------------------------
(* The safety invariant.                                                   *)

RunsInv == RowsInv /\ CallInv /\ RunOwnership /\ NotificationsMatchRuns

\* What RunOwnership says of the run of a call suspended at phase p.
Allowed(p) == (IF p \in {"notify", "inserting"} THEN Terminal ELSE {"running"}) \cup {"deleted"}

\* A step of call e keeps the ownership of runs if it touches no run but its own
\* and leaves that one in a status allowed at its next phase.
LEMMA OwnershipStep ==
    ASSUME TypeOK, RunOwnership, NEW e \in Executors, exec[e].phase # "idle",
           \A f \in Executors : f # e => exec'[f] = exec[f],
           exec'[e].phase # "idle" => /\ exec'[e].run = exec[e].run
                                      /\ run'[exec[e].run].status \in Allowed(exec'[e].phase),
           \A q \in Runs : q # exec[e].run => run'[q].status = run[q].status
    PROVE  RunOwnership'
<1>1. \A f \in Executors : exec'[f].phase # "idle" =>
        exec[f].phase # "idle" /\ exec[f].run \in Runs /\ exec'[f].run = exec[f].run
  BY DEF TypeOK
<1>2. \A r \in Runs, f, g \in Executors : Owns(f, r) /\ Owns(g, r) => f = g
  BY DEF RunOwnership
<1>3. \A r \in Runs, f, g \in Executors : Owns(f, r)' /\ Owns(g, r)' => f = g
  BY <1>1, <1>2 DEF Owns
<1>4. ASSUME NEW f \in Executors, exec'[f].phase # "idle"
      PROVE  run'[exec'[f].run].status \in Allowed(exec'[f].phase)
  <2>1. CASE f = e
    BY <1>4, <2>1
  <2>2. CASE f # e
    <3>1. exec'[f] = exec[f] /\ exec[f].run \in Runs /\ exec[f].run # exec[e].run
      BY <1>1, <1>2, <1>4, <2>2 DEF Owns
    <3>2. run[exec[f].run].status \in Allowed(exec[f].phase)
      BY <1>4, <3>1 DEF RunOwnership, Allowed
    <3>3. QED
      BY <3>1, <3>2
  <2>3. QED
    BY <2>1, <2>2
<1>5. QED
  BY <1>3, <1>4 DEF RunOwnership, Allowed

\* The invariants hold of empty tables.
LEMMA InitRunsInv == Init => RunsInv /\ LastStatusInv
BY DEF Init, RunsInv, RowsInv, CallInv, RunOwnership, NotificationsMatchRuns, LastStatusInv,
       Owns, Exists, BlankRun, BlankTask, Idle, NoNotes, Terminal

\* A run without notifications.
LEMMA NotesFacts ==
    /\ NoNotes \in [Terminal -> Nat]
    /\ \A s \in Terminal : NoNotes[s] = 0
BY BlankTypes DEF NoNotes

\* Every step keeps the rows, the calls and the notifications consistent.
LEMMA RunsInvPreserved ==
    ASSUME TypeOK, TypeOK', RunsInv, [Next]_vars
    PROVE  RunsInv'
<1> USE DEF RunsInv, RowsInv, CallInv, RunOwnership, NotificationsMatchRuns, Owns, Exists
<1> DEFINE Live == {"running"} \cup Terminal
<1>1. ASSUME NEW t \in Tasks, CreateTask(t) PROVE RunsInv'
  BY <1>1 DEF CreateTask, callVars, TypeOK
<1>2. ASSUME NEW t \in Tasks, DeleteTask(t) PROVE RunsInv'
  <2>1. \A r \in Runs :
          \/ /\ run[r].task = t /\ run[r].status \in Live
             /\ run'[r].status = "deleted" /\ run'[r].task = NoTask
             /\ notes'[r] = NoNotes
          \/ /\ ~(run[r].task = t /\ run[r].status \in Live)
             /\ run'[r] = run[r]
             /\ notes'[r] = notes[r] \/ notes'[r] = NoNotes
    BY <1>2 DEF DeleteTask, RunsAfterDelete, NotesAfterDelete, BlankRun
  <2>2. taskState' = [taskState EXCEPT ![t] = "deleted"] /\ exec' = exec
    BY <1>2 DEF DeleteTask, callVars
  <2>3. RowsInv'
    BY <2>1, <2>2 DEF TypeOK, Terminal
  <2>4. CallInv'
    BY <2>1, <2>2 DEF TypeOK, Terminal
  <2>5. RunOwnership'
    BY <2>1, <2>2 DEF TypeOK, Terminal
  <2>6. NotificationsMatchRuns'
    BY <2>1, <2>2, NotesFacts DEF TypeOK, Terminal
  <2>7. QED
    BY <2>3, <2>4, <2>5, <2>6
<1>3. ASSUME NEW u \in Editors, EditCommit(u) PROVE RunsInv'
  BY <1>3 DEF EditCommit
<1>4. ASSUME NEW u \in Editors, EditFails(u) PROVE RunsInv'
  BY <1>4 DEF EditFails, tableVars
<1>5. ASSUME NEW u \in Editors, NEW t \in Tasks, EditRead(u, t) PROVE RunsInv'
  BY <1>5 DEF EditRead, tableVars
<1>6. ASSUME NEW r \in Runs, DeleteConversation(r) PROVE RunsInv'
  <2>1. \A q \in Runs : run'[q].status = run[q].status /\ run'[q].task = run[q].task
    BY <1>6 DEF DeleteConversation, TypeOK, RunRow
  <2>2. QED
    BY <1>6, <2>1 DEF DeleteConversation, callVars, TypeOK
<1>7. ASSUME NEW e \in Executors, NEW t \in Tasks, NEW due \in Time, Open(e, t, due)
      PROVE  RunsInv'
  <2>1. PICK r \in Runs :
                /\ run[r].status = "absent"
                /\ run'[r].status = "running" /\ run'[r].task = t
                /\ \A q \in Runs : q # r => run'[q] = run[q]
                /\ exec'[e].phase = "opened" /\ exec'[e].task = t /\ exec'[e].run = r
                /\ \A f \in Executors : f # e => exec'[f] = exec[f]
    BY <1>7, OpenShape
  <2>2. exec[e].phase = "idle" /\ taskState[t] = "present"
        /\ taskState' = taskState /\ notes' = notes
    BY <1>7, OpenShape
  <2>3. \A f \in Executors : f # e /\ exec[f].phase # "idle" => exec[f].run # r
    BY <2>1 DEF Terminal
  <2>4. notes[r] = NoNotes
    BY <2>1 DEF Terminal
  <2>5. RowsInv'
    BY <2>1, <2>2, <2>4 DEF TypeOK, Terminal
  <2>6. CallInv'
    BY <2>1, <2>2, <2>3, <2>4, SMTT(40) DEF TypeOK, Terminal
  <2>7. RunOwnership'
    <3>1. \A q \in Runs, f, g \in Executors : Owns(f, q)' /\ Owns(g, q)' => f = g
      BY <2>1, <2>2, <2>3
    <3>2. ASSUME NEW f \in Executors, exec'[f].phase # "idle"
          PROVE  run'[exec'[f].run].status \in
                   (IF exec'[f].phase \in {"notify", "inserting"} THEN Terminal ELSE {"running"})
                   \cup {"deleted"}
      <4>1. CASE f = e
        BY <2>1, <4>1
      <4>2. CASE f # e
        <5>1. exec'[f] = exec[f] /\ exec[f].run \in Runs /\ exec[f].run # r
          BY <2>1, <2>3, <3>2, <4>2 DEF TypeOK
        <5>2. QED
          BY <2>1, <3>2, <5>1
      <4>3. QED
        BY <4>1, <4>2
    <3>3. QED
      BY <3>1, <3>2
  <2>8. NotificationsMatchRuns'
    BY <2>1, <2>2, <2>4, NotesFacts DEF TypeOK, Terminal
  <2>9. QED
    BY <2>5, <2>6, <2>7, <2>8
<1>8. ASSUME NEW m \in Requests, NEW t \in Tasks, TriggerManually(m, t) PROVE RunsInv'
  BY <1>7, <1>8 DEF TriggerManually, Executors, Time
<1>9. ASSUME NEW s \in Schedulers, LoopStep(s) PROVE RunsInv'
  <2>1. CASE Poll(s)
    BY <2>1 DEF Poll, tableVars
  <2>2. ASSUME NEW d \in queue[s], SkipDeleted(s, d) PROVE RunsInv'
    BY <2>2 DEF SkipDeleted, tableVars
  <2>3. ASSUME NEW d \in queue[s], Dispatch(s, d) PROVE RunsInv'
    <3>1. s \in Executors /\ d.task \in Tasks /\ d.at \in Time
      BY DEF Executors, TypeOK, Due, Time
    <3>2. QED
      BY <1>7, <2>3, <3>1 DEF Dispatch
  <2>4. QED
    BY <1>9, <2>1, <2>2, <2>3 DEF LoopStep
<1>10. ASSUME NEW e \in Executors, ExecuteStep(e) PROVE RunsInv'
  <2> USE DEF KeepsTables, KeepsRuns, Moves, Leaves
  <2>0. \A f \in Executors : exec[f].phase # "idle" => exec[f].run \in Runs /\ exec[f].task \in Tasks
    BY DEF TypeOK
  \* A step that leaves the tables as they are and takes the call to a phase
  \* before the settling commit.
  <2>1. ASSUME NEW p \in {"committed", "agent", "ended", "raised", "finishing", "failing"},
               Moves(e, p), KeepsTables,
               exec[e].phase \in {"opened", "committed", "agent", "ended", "raised"}
        PROVE  RunsInv'
    <3>1. RowsInv'
      BY <2>1
    <3>2. CallInv'
      BY <2>0, <2>1 DEF TypeOK
    <3>3. RunOwnership'
      BY <2>0, <2>1, OwnershipStep DEF Allowed
    <3>4. NotificationsMatchRuns'
      BY <2>1
    <3>5. QED
      BY <3>1, <3>2, <3>3, <3>4
  <2>2. ASSUME Leaves(e), KeepsTables, exec[e].phase # "idle" PROVE RunsInv'
    <3>1. RowsInv'
      BY <2>2
    <3>2. CallInv'
      BY <2>2 DEF TypeOK
    <3>3. RunOwnership'
      BY <2>2, OwnershipStep
    <3>4. NotificationsMatchRuns'
      BY <2>2
    <3>5. QED
      BY <3>1, <3>2, <3>3, <3>4
  <2>3. CASE Claim(e)
    BY <2>1, <2>3, ClaimShape
  <2>4. CASE ClaimFails(e)
    BY <2>2, <2>4, LeaveShape DEF ClaimFails, tableVars
  <2>5. CASE SavePrompt(e)
    BY <2>1, <2>2, <2>5, SavePromptShape
  <2>6. CASE AgentReturns(e) \/ AgentRaises(e)
    BY <2>1, <2>6, AgentShape
  <2>7. CASE SettleRead(e)
    BY <2>1, <2>2, <2>7, SettleReadShape
  <2>8. CASE Settle(e)
    <3> DEFINE r == exec[e].run
    <3>1. /\ exec[e].phase \in {"finishing", "failing"} /\ Moves(e, "notify")
          /\ notes' = notes /\ taskState' = taskState
          /\ run[r].status \in {"running"} \cup Terminal
          /\ run'[r].status \in Terminal
          /\ \A q \in Runs : q # r => run'[q].status = run[q].status
          /\ \A q \in Runs : run'[q].task = run[q].task
      BY <2>8, SettleShape
    <3>2. run[r].status = "running" /\ notes[r] = NoNotes
      BY <3>1 DEF Terminal
    <3>3. RowsInv'
      BY <2>0, <3>1, <3>2
    <3>4. CallInv'
      BY <2>0, <3>1, <3>2 DEF TypeOK
    <3>5. RunOwnership'
      BY <2>0, <3>1, OwnershipStep DEF Allowed
    <3>6. NotificationsMatchRuns'
      <4>1. ASSUME NEW q \in Runs, NEW s \in Terminal, notes'[q][s] > 0
            PROVE  q # r
        BY <3>1, <3>2, <4>1, NotesFacts
      <4>2. QED
        BY <2>0, <3>1, <4>1
    <3>7. QED
      BY <3>3, <3>4, <3>5, <3>6
  <2>9. CASE SettleFails(e)
    BY <2>2, <2>9, LeaveShape DEF SettleFails, tableVars
  <2>10. CASE NotifyRead(e)
    <3>1. CASE Leaves(e)
      BY <2>2, <2>10, <3>1, NotifyReadShape
    <3>2. CASE Moves(e, "inserting") /\ exec'[e].status = run[exec[e].run].status
                 /\ run[exec[e].run].status \in {"running"} \cup Terminal
      <4>1. KeepsTables /\ exec[e].phase = "notify"
        BY <2>10, NotifyReadShape
      <4>2. RowsInv'
        BY <3>2, <4>1
      <4>3. CallInv'
        BY <2>0, <3>2, <4>1 DEF TypeOK, Terminal
      <4>4. RunOwnership'
        BY <2>0, <3>2, <4>1, OwnershipStep DEF Allowed
      <4>5. NotificationsMatchRuns'
        BY <4>1
      <4>6. QED
        BY <4>2, <4>3, <4>4, <4>5
    <3>3. QED
      BY <2>10, <3>1, <3>2, NotifyReadShape
  <2>11. CASE NotifyInsert(e)
    <3> DEFINE r == exec[e].run
               s == exec[e].status
    <3>1. exec[e].phase = "inserting" /\ Leaves(e) /\ KeepsRuns /\ taskState' = taskState
      BY <2>11, NotifyInsertShape
    <3>2. CASE notes' = notes
      BY <2>2, <3>1, <3>2
    <3>3. CASE /\ run[r].status \in {"running"} \cup Terminal
               /\ notes' = [notes EXCEPT ![r] = OneMore(notes[r], s)]
      <4>1. s \in Terminal /\ run[r].status = s /\ notes[r] = NoNotes
        BY <3>1, <3>3 DEF Terminal
      <4>2. /\ notes'[r][s] = 1
            /\ \A u \in Terminal : u # s => notes'[r][u] = 0
            /\ \A q \in Runs : q # r => notes'[q] = notes[q]
        BY <2>0, <3>1, <3>3, <4>1, NotesFacts DEF TypeOK, OneMore
      <4>3. RowsInv'
        BY <2>0, <3>1, <4>1, <4>2
      <4>4. CallInv'
        <5>1. \A f \in Executors : f # e /\ exec[f].phase # "idle" => exec[f].run # r
          BY <2>0, <3>1
        <5>2. QED
          BY <2>0, <3>1, <4>1, <4>2, <5>1
      <4>5. RunOwnership'
        BY <2>0, <3>1, OwnershipStep
      <4>6. NotificationsMatchRuns'
        BY <2>0, <3>1, <4>1, <4>2
      <4>7. QED
        BY <4>3, <4>4, <4>5, <4>6
    <3>4. QED
      BY <2>11, <3>2, <3>3, NotifyInsertShape
  <2>12. QED
    BY <1>10, <2>3, <2>4, <2>5, <2>6, <2>7, <2>8, <2>9, <2>10, <2>11 DEF ExecuteStep
<1>11. CASE Tick
  BY <1>11 DEF Tick, tableVars, callVars
<1>12. CASE Crash
  BY <1>12 DEF Crash, tableVars, Idle
<1>13. CASE UNCHANGED vars
  BY <1>13 DEF vars
<1>14. QED
  BY <1>1, <1>2, <1>3, <1>4, <1>5, <1>6, <1>8, <1>9, <1>10, <1>11, <1>12, <1>13 DEF Next

-----------------------------------------------------------------------------
(* last_status.                                                            *)

Settling(f, r) == exec[f].phase \in {"finishing", "failing"} /\ exec[f].run = r

\* A witness of LastStatusInv stays one when its run keeps its row and nobody
\* gets to settle it with another last_status in mind.
LEMMA VouchStep ==
    ASSUME NEW r \in Runs, NEW t, Vouches(r, t),
           run'[r].status = run[r].status, run'[r].task = run[r].task,
           \A f \in Executors : Settling(f, r)' =>
              \/ Settling(f, r) /\ exec'[f].loaded = exec[f].loaded
              \/ exec'[f].loaded.last = "running"
    PROVE  Vouches(r, t)'
BY DEF Vouches, Owns, Settling

\* A task whose last_status does not become "running" keeps its witness when the
\* runs keep their rows and no call begins to settle.
LEMMA LastStatusFrame ==
    ASSUME LastStatusInv,
           \A t \in Tasks : task'[t].last = "running" => task[t].last = "running",
           KeepsRuns,
           \A f \in Executors, r \in Runs : Settling(f, r)' =>
              Settling(f, r) /\ exec'[f].loaded = exec[f].loaded
    PROVE  LastStatusInv'
<1> SUFFICES ASSUME NEW t \in Tasks, task'[t].last = "running"
             PROVE  \E r \in Runs : Vouches(r, t)'
  BY DEF LastStatusInv
<1>1. PICK r \in Runs : Vouches(r, t)
  BY DEF LastStatusInv
<1>2. Vouches(r, t)'
  BY <1>1, VouchStep DEF KeepsRuns
<1>3. QED
  BY <1>2

\* Every step that leaves "running" in a task row leaves a run to vouch for it.
LEMMA LastStatusPreserved ==
    ASSUME TypeOK, TypeOK', RunsInv, LastStatusInv, [Next]_vars
    PROVE  LastStatusInv'
<1> USE DEF Settling
<1>0. ASSUME task' = task, run' = run, exec' = exec PROVE LastStatusInv'
  BY <1>0, LastStatusFrame DEF KeepsRuns
<1>1. ASSUME NEW t \in Tasks, CreateTask(t) PROVE LastStatusInv'
  <2>1. \A u \in Tasks : task'[u].last = "running" => task[u].last = "running"
    BY <1>1 DEF CreateTask, TypeOK
  <2>2. QED
    BY <1>1, <2>1, LastStatusFrame DEF CreateTask, callVars, KeepsRuns
<1>2. ASSUME NEW t \in Tasks, DeleteTask(t) PROVE LastStatusInv'
  <2> SUFFICES ASSUME NEW u \in Tasks, task'[u].last = "running"
               PROVE  \E r \in Runs : Vouches(r, u)'
    BY DEF LastStatusInv
  <2>1. u # t /\ task[u].last = "running"
    BY <1>2 DEF DeleteTask, BlankTask, TypeOK
  <2>2. PICK r \in Runs : Vouches(r, u)
    BY <2>1 DEF LastStatusInv
  <2>3. run'[r] = run[r] /\ exec' = exec
    BY <1>2, <2>1, <2>2 DEF DeleteTask, RunsAfterDelete, Vouches, callVars
  <2>4. Vouches(r, u)'
    BY <2>2, <2>3, VouchStep
  <2>5. QED
    BY <2>4
<1>3. ASSUME NEW u \in Editors, EditCommit(u) PROVE LastStatusInv'
  <2>1. \A t \in Tasks : task'[t].last = task[t].last
    <3>1. PICK c \in Crons, enabled \in BOOLEAN :
            task' = [task EXCEPT ![edit[u].task] =
                       Flush(@, edit[u].loaded,
                             Edited(edit[u].loaded, c, enabled, edit[u].at))]
      BY <1>3 DEF EditCommit
    <3>2. edit[u].loaded \in TaskRow
      BY DEF TypeOK, Edit
    <3>3. Edited(edit[u].loaded, c, enabled, edit[u].at).last = edit[u].loaded.last
      BY <3>2 DEF Edited, TaskRow
    <3>4. \A x : Flush(x, edit[u].loaded, Edited(edit[u].loaded, c, enabled, edit[u].at)).last
                   = x.last
      BY <3>3 DEF Flush, Column
    <3>5. QED
      BY <3>1, <3>4 DEF TypeOK
  <2>2. QED
    BY <1>3, <2>1, LastStatusFrame DEF EditCommit, KeepsRuns
<1>4. ASSUME NEW u \in Editors, EditFails(u) PROVE LastStatusInv'
  BY <1>0, <1>4 DEF EditFails, tableVars
<1>5. ASSUME NEW u \in Editors, NEW t \in Tasks, EditRead(u, t) PROVE LastStatusInv'
  BY <1>0, <1>5 DEF EditRead, tableVars
<1>6. ASSUME NEW r \in Runs, DeleteConversation(r) PROVE LastStatusInv'
  <2>1. KeepsRuns
    BY <1>6 DEF DeleteConversation, TypeOK, RunRow, KeepsRuns
  <2>2. QED
    BY <1>6, <2>1, LastStatusFrame DEF DeleteConversation, callVars
<1>7. ASSUME NEW e \in Executors, NEW t \in Tasks, NEW due \in Time, Open(e, t, due)
      PROVE  LastStatusInv'
  <2>1. PICK r \in Runs :
                /\ run[r].status = "absent"
                /\ \A q \in Runs : q # r => run'[q] = run[q]
                /\ exec'[e].phase = "opened"
                /\ \A f \in Executors : f # e => exec'[f] = exec[f]
    BY <1>7, OpenShape
  <2>2. task' = task
    BY <1>7, OpenShape
  <2> SUFFICES ASSUME NEW u \in Tasks, task[u].last = "running"
               PROVE  \E q \in Runs : Vouches(q, u)'
    BY <2>2 DEF LastStatusInv
  <2>3. PICK q \in Runs : Vouches(q, u)
    BY DEF LastStatusInv
  <2>4. run'[q] = run[q]
    BY <2>1, <2>3 DEF Vouches
  <2>5. Vouches(q, u)'
    BY <2>1, <2>3, <2>4, VouchStep
  <2>6. QED
    BY <2>5
<1>8. ASSUME NEW m \in Requests, NEW t \in Tasks, TriggerManually(m, t) PROVE LastStatusInv'
  BY <1>7, <1>8 DEF TriggerManually, Executors, Time
<1>9. ASSUME NEW s \in Schedulers, LoopStep(s) PROVE LastStatusInv'
  <2>1. CASE Poll(s)
    BY <1>0, <2>1 DEF Poll, tableVars
  <2>2. ASSUME NEW d \in queue[s], SkipDeleted(s, d) PROVE LastStatusInv'
    BY <1>0, <2>2 DEF SkipDeleted, tableVars
  <2>3. ASSUME NEW d \in queue[s], Dispatch(s, d) PROVE LastStatusInv'
    <3>1. s \in Executors /\ d.task \in Tasks /\ d.at \in Time
      BY DEF Executors, TypeOK, Due, Time
    <3>2. QED
      BY <1>7, <2>3, <3>1 DEF Dispatch
  <2>4. QED
    BY <1>9, <2>1, <2>2, <2>3 DEF LoopStep
<1>10. ASSUME NEW e \in Executors, ExecuteStep(e) PROVE LastStatusInv'
  <2> DEFINE r == exec[e].run
             t == exec[e].task
  \* A step that leaves the rows as they are and does not begin to settle.
  <2>1. ASSUME task' = task, KeepsRuns,
               Leaves(e) \/ \E p \in {"agent", "ended", "raised", "inserting"} : Moves(e, p)
        PROVE  LastStatusInv'
    <3>1. \A f \in Executors, q \in Runs : Settling(f, q)' =>
             Settling(f, q) /\ exec'[f].loaded = exec[f].loaded
      BY <2>1 DEF Leaves, Moves
    <3>2. QED
      BY <2>1, <3>1, LastStatusFrame
  <2>2. CASE Claim(e)
    <3>1. /\ exec[e].phase = "opened" /\ Moves(e, "committed") /\ KeepsRuns
          /\ run[r].status \in {"running"} \cup Terminal
      BY <2>2, ClaimShape DEF KeepsTables
    <3>2. r \in Runs /\ run[r].status = "running" /\ run[r].task = t
      BY <3>1 DEF TypeOK, RunsInv, CallInv, RunOwnership, Exists, Terminal
    <3>3. \A u \in Tasks : u # t => task'[u] = task[u]
      BY <2>2 DEF Claim, TypeOK
    <3>4. \A f \in Executors, q \in Runs : Settling(f, q)' =>
             f # e /\ Settling(f, q) /\ exec'[f].loaded = exec[f].loaded
      BY <3>1 DEF Moves
    <3>5. PICK q \in Runs : q = r
      BY <3>2
    <3>6. ASSUME NEW u \in Tasks, task'[u].last = "running"
          PROVE  \E w \in Runs : Vouches(w, u)'
      <4>1. CASE u = t
        <5>1. \A f \in Executors : ~Settling(f, q)'
          BY <3>1, <3>4, <3>5 DEF RunsInv, RunOwnership, Owns
        <5>2. Vouches(q, u)'
          BY <3>1, <3>2, <3>5, <4>1, <5>1 DEF Vouches, Owns, KeepsRuns
        <5>3. QED
          BY <5>2
      <4>2. CASE u # t
        <5>1. PICK w \in Runs : Vouches(w, u)
          BY <3>3, <3>6, <4>2 DEF LastStatusInv
        <5>2. Vouches(w, u)'
          BY <3>1, <3>4, <5>1, VouchStep DEF KeepsRuns
        <5>3. QED
          BY <5>2
      <4>3. QED
        BY <4>1, <4>2
    <3>7. QED
      BY <3>6 DEF LastStatusInv
  <2>3. CASE ClaimFails(e)
    BY <2>1, <2>3, LeaveShape DEF ClaimFails, tableVars, KeepsRuns
  <2>4. CASE SavePrompt(e)
    BY <2>1, <2>4, SavePromptShape DEF KeepsTables
  <2>5. CASE AgentReturns(e) \/ AgentRaises(e)
    BY <2>1, <2>5, AgentShape DEF KeepsTables
  <2>6. CASE SettleRead(e)
    <3>0. task' = task /\ KeepsRuns
      BY <2>6, SettleReadShape DEF KeepsTables
    <3>1. CASE Leaves(e)
      BY <2>1, <3>0, <3>1
    <3>2. CASE /\ Moves(e, "finishing") \/ Moves(e, "failing")
               /\ exec'[e].loaded = task[t]
      <4> SUFFICES ASSUME NEW u \in Tasks, task[u].last = "running"
                   PROVE  \E q \in Runs : Vouches(q, u)'
        BY <3>0 DEF LastStatusInv
      <4>1. PICK q \in Runs : Vouches(q, u)
        BY DEF LastStatusInv
      <4>2. q = r => u = t
        <5>1. exec[e].phase # "idle"
          BY <2>6 DEF SettleRead
        <5>2. QED
          BY <4>1, <5>1 DEF Vouches, RunsInv, CallInv, Exists
      <4>3. ASSUME NEW f \in Executors, Settling(f, q)'
            PROVE  \/ Settling(f, q) /\ exec'[f].loaded = exec[f].loaded
                   \/ exec'[f].loaded.last = "running"
        <5>1. CASE f = e
          BY <3>2, <4>2, <4>3, <5>1 DEF Moves
        <5>2. CASE f # e
          BY <3>2, <4>3, <5>2 DEF Moves
        <5>3. QED
          BY <5>1, <5>2
      <4>4. Vouches(q, u)'
        BY <3>0, <4>1, <4>3, VouchStep DEF KeepsRuns
      <4>5. QED
        BY <4>4
    <3>3. QED
      BY <2>6, <3>1, <3>2, SettleReadShape
  <2>7. CASE Settle(e)
    <3>1. /\ exec[e].phase \in {"finishing", "failing"} /\ Moves(e, "notify")
          /\ \A q \in Runs : q # r => run'[q].status = run[q].status
          /\ \A q \in Runs : run'[q].task = run[q].task
      BY <2>7, SettleShape
    <3>2. r \in Runs /\ t \in Tasks /\ run[r].task = t
      BY <2>7, <3>1 DEF TypeOK, RunsInv, CallInv, Settle, CanSettle
    <3>3. PICK row \in {Succeeded(e), Failed(e)} :
            task' = [task EXCEPT ![t] = Flush(@, exec[e].loaded, row)]
      BY <2>7 DEF Settle
    <3>4. row.last # "running"
      <4>1. exec[e].loaded \in TaskRow
        BY DEF TypeOK, Call
      <4>2. QED
        BY <3>3, <4>1 DEF Succeeded, Failed, TaskRow
    <3>5. task'[t].last = "running" => task[t].last = "running" /\ exec[e].loaded.last # "running"
      BY <3>2, <3>3, <3>4 DEF TypeOK, Flush, Column
    <3>6. ASSUME NEW u \in Tasks, task'[u].last = "running"
          PROVE  \E q \in Runs : Vouches(q, u)'
      <4>1. task[u].last = "running"
        BY <3>3, <3>5, <3>6 DEF TypeOK
      <4>2. PICK q \in Runs : Vouches(q, u)
        BY <4>1 DEF LastStatusInv
      <4>3. q # r
        <5>1. CASE u = t
          BY <3>1, <3>5, <3>6, <4>2, <5>1 DEF Vouches, Owns
        <5>2. CASE u # t
          BY <3>2, <4>2, <5>2 DEF Vouches
        <5>3. QED
          BY <5>1, <5>2
      <4>4. Vouches(q, u)'
        BY <3>1, <4>2, <4>3, VouchStep DEF Moves
      <4>5. QED
        BY <4>4
    <3>7. QED
      BY <3>6 DEF LastStatusInv
  <2>8. CASE SettleFails(e)
    BY <2>1, <2>8, LeaveShape DEF SettleFails, tableVars, KeepsRuns
  <2>9. CASE NotifyRead(e)
    BY <2>1, <2>9, NotifyReadShape DEF KeepsTables
  <2>10. CASE NotifyInsert(e)
    BY <2>1, <2>10, NotifyInsertShape
  <2>11. QED
    BY <1>10, <2>2, <2>3, <2>4, <2>5, <2>6, <2>7, <2>8, <2>9, <2>10 DEF ExecuteStep
<1>11. CASE Tick
  BY <1>0, <1>11 DEF Tick, tableVars, callVars
<1>12. CASE Crash
  BY <1>12, LastStatusFrame DEF Crash, tableVars, Idle, KeepsRuns
<1>13. CASE UNCHANGED vars
  BY <1>0, <1>13 DEF vars
<1>14. QED
  BY <1>1, <1>2, <1>3, <1>4, <1>5, <1>6, <1>8, <1>9, <1>10, <1>11, <1>12, <1>13 DEF Next

-----------------------------------------------------------------------------
(* The theorems.                                                           *)

\* The inductive invariant holds initially ...
LEMMA InitIInv == Init => IInv
BY InitTypeOK, InitRunsInv DEF IInv, RunsInv

\* ... and every step preserves it.
LEMMA IInvPreserved == IInv /\ [Next]_vars => IInv'
BY TypePreserved, RunsInvPreserved, LastStatusPreserved DEF IInv, RunsInv

\* The invariant the safety properties follow from.
THEOREM InvariantHolds == Spec => []IInv
BY InitIInv, IInvPreserved, PTL DEF Spec

\* No run is ever taken over by a second call: execute_inspection_task inserts a
\* new row, so loops, manual triggers and restarts never share one.
THEOREM OwnershipHolds == Spec => []RunOwnership
<1>1. IInv => RunOwnership
  BY DEF IInv
<1>2. QED
  BY InvariantHolds, <1>1, PTL

\* Every notification row announces an outcome its run really has, once.
THEOREM NotificationsHold == Spec => []NotificationsMatchRuns
<1>1. IInv => NotificationsMatchRuns
  BY DEF IInv
<1>2. QED
  BY InvariantHolds, <1>1, PTL

\* last_status = "running" is never left behind by the overlap of two runs of a
\* task: while a task row shows it, one of its runs is running.
THEOREM RunningTaskHolds == Spec => []RunningTaskHasRun
<1>1. IInv => RunningTaskHasRun
  BY DEF IInv, LastStatusInv, RunningTaskHasRun, Vouches
<1>2. QED
  BY InvariantHolds, <1>1, PTL

-----------------------------------------------------------------------------
(* Enabled tasks stay scheduled, with one editor.                          *)

EnabledInv == EnabledTaskIsScheduled /\ OneEditInv

\* What a commit of the executor changes of a task row: never `enabled`, and
\* next_run_at only to a minute.
LEMMA ExecutorKeepsSchedule ==
    ASSUME TypeOK, NEW e \in Executors, ExecuteStep(e), NEW t \in Tasks
    PROVE  /\ task'[t].enabled = task[t].enabled
           /\ task[t].next # NoTime => task'[t].next # NoTime
<1>0. exec[e].loaded \in TaskRow
  BY DEF TypeOK, Call
<1>1. ASSUME task' = task
      PROVE  /\ task'[t].enabled = task[t].enabled
             /\ task[t].next # NoTime => task'[t].next # NoTime
  BY <1>1
<1>2. CASE Claim(e)
  <2>1. /\ Claimed(e).enabled = exec[e].loaded.enabled
        /\ Claimed(e).next # NoTime \/ Claimed(e).next = exec[e].loaded.next
    BY <1>0, <1>2 DEF Claim, CanClaim, Claimed, TaskRow
  <2>2. task' = [task EXCEPT ![exec[e].task] = Flush(@, exec[e].loaded, Claimed(e))]
    BY <1>2 DEF Claim
  <2>3. QED
    BY <2>1, <2>2 DEF TypeOK, Flush, Column
<1>3. CASE Settle(e)
  <2>1. PICK row :
          /\ row.enabled = exec[e].loaded.enabled
          /\ row.next # NoTime \/ row.next = exec[e].loaded.next
          /\ task' = [task EXCEPT ![exec[e].task] = Flush(@, exec[e].loaded, row)]
    <3>1. CASE exec[e].phase = "finishing"
      <4>1. /\ Succeeded(e).enabled = exec[e].loaded.enabled
            /\ Succeeded(e).next # NoTime \/ Succeeded(e).next = exec[e].loaded.next
        BY <1>0, <1>3, <3>1 DEF Settle, CanSettle, Succeeded, TaskRow
      <4>2. QED
        BY <1>3, <3>1, <4>1 DEF Settle
    <3>2. CASE exec[e].phase # "finishing"
      <4>1. /\ Failed(e).enabled = exec[e].loaded.enabled
            /\ Failed(e).next = exec[e].loaded.next
        BY <1>0 DEF Failed, TaskRow
      <4>2. QED
        BY <1>3, <3>2, <4>1 DEF Settle
    <3>3. QED
      BY <3>1, <3>2
  <2>2. QED
    BY <2>1 DEF TypeOK, Flush, Column
<1>4. QED
  BY <1>1, <1>2, <1>3
     DEF ExecuteStep, ClaimFails, SavePrompt, AgentReturns, AgentRaises, SettleRead,
         SettleFails, NotifyRead, NotifyInsert, tableVars

\* With one editor every step keeps enabled tasks scheduled.
LEMMA EnabledPreserved ==
    ASSUME \A u, v \in Editors : u = v,
           TypeOK, TypeOK', EnabledInv, [Next]_vars
    PROVE  EnabledInv'
<1> USE DEF EnabledInv, EnabledTaskIsScheduled, OneEditInv
\* A step that edits nothing, creates nothing and keeps the schedules.
<1>0. ASSUME edit' = edit,
             \A t \in Tasks : taskState'[t] = taskState[t] \/ taskState'[t] = "deleted",
             \A t \in Tasks : taskState'[t] = "present" =>
                /\ task'[t].enabled = task[t].enabled
                /\ task[t].next # NoTime => task'[t].next # NoTime
      PROVE  EnabledInv'
  BY <1>0 DEF TypeOK
<1>1. ASSUME NEW t \in Tasks, CreateTask(t) PROVE EnabledInv'
  <2>1. /\ taskState[t] = "absent" /\ edit' = edit
        /\ taskState' = [taskState EXCEPT ![t] = "present"]
        /\ \A u \in Tasks : u # t => task'[u] = task[u]
        /\ task'[t].enabled => task'[t].next # NoTime
    BY <1>1 DEF CreateTask, callVars, TypeOK
  <2>2. QED
    BY <2>1 DEF TypeOK
<1>2. ASSUME NEW t \in Tasks, DeleteTask(t) PROVE EnabledInv'
  BY <1>0, <1>2 DEF DeleteTask, callVars, TypeOK
<1>3. ASSUME NEW u \in Editors, EditCommit(u) PROVE EnabledInv'
  <2> DEFINE t == edit[u].task
             b == edit[u].loaded
  <2>1. PICK c \in Crons, enabled \in BOOLEAN :
          /\ enabled => NextRunAt(c, edit[u].at) # NoTime
          /\ task' = [task EXCEPT ![t] = Flush(@, b, Edited(b, c, enabled, edit[u].at))]
    BY <1>3 DEF EditCommit
  <2>2. b \in TaskRow /\ t \in Tasks /\ taskState[t] = "present" /\ taskState' = taskState
    BY <1>3 DEF TypeOK, Edit, EditCommit
  <2>3. /\ Edited(b, c, enabled, edit[u].at).enabled = enabled
        /\ enabled => Edited(b, c, enabled, edit[u].at).next # NoTime
    BY <2>1, <2>2 DEF Edited, TaskRow
  <2>4. task[t].enabled = b.enabled /\ (b.next # NoTime => task[t].next # NoTime)
    BY <1>3, <2>2 DEF EditCommit
  <2>5. task'[t].enabled => task'[t].next # NoTime
    <3> DEFINE row == Edited(b, c, enabled, edit[u].at)
    <3>1. task'[t] = Flush(task[t], b, row)
      BY <2>1, <2>2 DEF TypeOK
    <3>2. /\ task'[t].enabled = Column(task[t].enabled, b.enabled, row.enabled)
          /\ task'[t].next = Column(task[t].next, b.next, row.next)
      BY <3>1 DEF Flush
    <3> HIDE DEF row
    <3>3. task'[t].enabled = row.enabled
      BY <2>4, <3>2 DEF Column
    <3>4. row.next # NoTime => task'[t].next # NoTime
      BY <2>4, <3>2 DEF Column
    <3>5. QED
      BY <2>3, <3>3, <3>4 DEF row
  <2>6. \A v \in Tasks : v # t => task'[v] = task[v]
    BY <2>1 DEF TypeOK
  <2>7. EnabledTaskIsScheduled'
    BY <2>2, <2>5, <2>6
  <2>8. OneEditInv'
    <3>1. \A v \in Editors : edit'[v].phase # "loaded"
      BY <1>3 DEF EditCommit, NoEdit, TypeOK
    <3>2. QED
      BY <3>1
  <2>9. QED
    BY <2>7, <2>8
<1>4. ASSUME NEW u \in Editors, EditFails(u) PROVE EnabledInv'
  <2>1. \A v \in Editors : edit'[v].phase # "loaded"
    BY <1>4 DEF EditFails, NoEdit, TypeOK
  <2>2. QED
    BY <1>4, <2>1 DEF EditFails, tableVars
<1>5. ASSUME NEW u \in Editors, NEW t \in Tasks, EditRead(u, t) PROVE EnabledInv'
  <2>1. \A v \in Editors : v = u
    OBVIOUS
  <2>2. edit'[u].task = t /\ edit'[u].loaded = task[t]
    BY <1>5 DEF EditRead, TypeOK
  <2>3. QED
    BY <1>5, <2>1, <2>2 DEF EditRead, tableVars
<1>6. ASSUME NEW r \in Runs, DeleteConversation(r) PROVE EnabledInv'
  BY <1>0, <1>6 DEF DeleteConversation, callVars
<1>7. ASSUME NEW m \in Requests, NEW t \in Tasks, TriggerManually(m, t) PROVE EnabledInv'
  BY <1>0, <1>7 DEF TriggerManually, Open
<1>8. ASSUME NEW s \in Schedulers, LoopStep(s) PROVE EnabledInv'
  <2>1. edit' = edit /\ taskState' = taskState /\ task' = task
    BY <1>8 DEF LoopStep, Poll, SkipDeleted, Dispatch, Open, tableVars
  <2>2. QED
    BY <1>0, <2>1
<1>9. ASSUME NEW e \in Executors, ExecuteStep(e) PROVE EnabledInv'
  <2>1. edit' = edit /\ taskState' = taskState
    BY <1>9 DEF ExecuteStep, Claim, ClaimFails, SavePrompt, AgentReturns, AgentRaises,
                SettleRead, Settle, SettleFails, NotifyRead, NotifyInsert, tableVars
  <2>2. QED
    BY <1>0, <1>9, <2>1, ExecutorKeepsSchedule, SMTT(30)
<1>10. CASE Tick
  BY <1>0, <1>10 DEF Tick, tableVars, callVars
<1>11. CASE Crash
  <2>1. \A v \in Editors : edit'[v].phase # "loaded"
    BY <1>11 DEF Crash, NoEdit
  <2>2. QED
    BY <1>11, <2>1 DEF Crash, tableVars
<1>12. CASE UNCHANGED vars
  BY <1>0, <1>12 DEF vars
<1>13. QED
  BY <1>1, <1>2, <1>3, <1>4, <1>5, <1>6, <1>7, <1>8, <1>9, <1>10, <1>11, <1>12 DEF Next

\* While edits do not overlap, an enabled task always has a next run, whatever
\* the executor writes to the row between the read and the commit of an edit.
THEOREM EnabledHolds ==
    ASSUME \A u, v \in Editors : u = v
    PROVE  Spec => []EnabledTaskIsScheduled
<1>1. Init => EnabledInv
  BY DEF Init, EnabledInv, EnabledTaskIsScheduled, OneEditInv, NoEdit
<1>2. TypeOK /\ TypeOK' /\ EnabledInv /\ [Next]_vars => EnabledInv'
  BY EnabledPreserved
<1>3. EnabledInv => EnabledTaskIsScheduled
  BY DEF EnabledInv
<1>4. QED
  BY <1>1, <1>2, <1>3, TypeCorrect, PTL DEF Spec

-----------------------------------------------------------------------------
(* A slot is served once.                                                  *)

\* Run r is a run of slot d of task t that the loop has claimed.
Served(r, t, d) ==
    /\ run[r].task = t /\ run[r].due = d
    /\ run[r].trigger = "scheduled" /\ run[r].link # "null"

\* A manual run that began before minute d moved next_run_at of task t after it.
MovedBack(t, d) ==
    \E m \in Runs :
        /\ run[m].task = t /\ run[m].trigger = "manual" /\ run[m].status = "succeeded"
        /\ run[m].start < d /\ run[m].finish >= d

\* Slot d of task t is not due again, unless a manual run moved it back.
Past(t, d) == task[t].next = NoTime \/ task[t].next > d \/ MovedBack(t, d)

ScheduledInv ==
    \A r \in Runs : run[r].trigger = "scheduled" =>
        Exists(r) /\ run[r].due \in Nat /\ run[r].due <= now

\* A call knows when and by whom its run was started.
StartInv ==
    \A e \in Executors : exec[e].phase # "idle" =>
        /\ exec[e].start \in Nat
        /\ Exists(exec[e].run) => /\ run[exec[e].run].start = exec[e].start
                                  /\ run[exec[e].run].trigger = Trigger(e)

\* The loop has each task once, and not the one it is running.
QueueInv ==
    \A s \in Schedulers : \A d \in queue[s] :
        /\ d.at <= now
        /\ taskState[d.task] # "absent"
        /\ taskState[d.task] = "present" => task[d.task].enabled
        /\ \A x \in queue[s] : x.task = d.task => x = d
        /\ exec[s].phase # "idle" => exec[s].task # d.task
        /\ \A r \in Runs : Served(r, d.task, d.at) => MovedBack(d.task, d.at)

\* What was served is past.
PastInv == \A r \in Runs, t \in Tasks, d \in Nat : Served(r, t, d) => Past(t, d)

\* A run about to be claimed: nothing later than its start was served, its slot was not
\* unless it was moved back, and only its own claim or such a move changed next_run_at.
ClaimInv ==
    \A s \in Schedulers : exec[s].phase = "opened" /\ Exists(exec[s].run) =>
        LET t == exec[s].task
            d == run[exec[s].run].due
        IN  /\ exec[s].loaded.enabled
            /\ run[exec[s].run].link = "null"
            /\ d <= exec[s].start
            /\ \A r \in Runs, c \in Nat : Served(r, t, c) => c <= exec[s].start
            /\ \A r \in Runs : Served(r, t, d) => MovedBack(t, d)
            /\ task[t].next # exec[s].loaded.next => Past(t, d)

OnceInv ==
    \A q, r \in Runs : q # r =>
        \A t \in Tasks, d \in Nat : Served(q, t, d) /\ Served(r, t, d) => MovedBack(t, d)

SlotInv == ScheduledInv /\ StartInv /\ QueueInv /\ PastInv /\ ClaimInv /\ OnceInv

\* What is left of run r: everything that says which slot it served, and how it ended.
Kept(r) ==
    /\ run'[r].task = run[r].task /\ run'[r].trigger = run[r].trigger
    /\ run'[r].due = run[r].due /\ run'[r].start = run[r].start
    /\ Exists(r)' <=> Exists(r)
    /\ run[r].status = "succeeded" => run'[r].status = "succeeded" /\ run'[r].finish = run[r].finish
    /\ run[r].trigger = "scheduled" => (run'[r].link = "null" <=> run[r].link = "null")

\* Call f stays as it is, goes on, or leaves; it does not open a run.
GoesOn(f) ==
    exec'[f].phase # "idle" =>
        /\ exec[f].phase # "idle"
        /\ exec'[f].task = exec[f].task /\ exec'[f].run = exec[f].run
        /\ exec'[f].start = exec[f].start
        /\ exec'[f].phase = "opened" => exec[f].phase = "opened" /\ exec'[f].loaded = exec[f].loaded

LEMMA ServedKept ==
    ASSUME NEW r \in Runs, Kept(r), NEW t, NEW d
    PROVE  Served(r, t, d)' <=> Served(r, t, d)
BY DEF Kept, Served

LEMMA MovedKept ==
    ASSUME NEW t, NEW d, MovedBack(t, d), \A m \in Runs : run[m].task = t => Kept(m)
    PROVE  MovedBack(t, d)'
<1>1. PICK m \in Runs : /\ run[m].task = t /\ run[m].trigger = "manual" /\ run[m].status = "succeeded"
                        /\ run[m].start < d /\ run[m].finish >= d
  BY DEF MovedBack
<1>2. Kept(m)
  BY <1>1
<1>3. QED
  BY <1>1, <1>2 DEF MovedBack, Kept

\* What ScheduledInv and the types say of a run that was served.
LEMMA ServedFacts ==
    ASSUME TypeOK, RowsInv, ScheduledInv, NEW r \in Runs, run[r].trigger = "scheduled"
    PROVE  /\ Exists(r) /\ run[r].task \in Tasks /\ taskState[run[r].task] = "present"
           /\ run[r].due \in Nat /\ run[r].due <= now
BY DEF ScheduledInv, RowsInv

\* The invariant is about a slot of a task, the property about the runs.
LEMMA OnceMeans ==
    ASSUME TypeOK, RowsInv, ScheduledInv, OnceInv
    PROVE  SlotServedOnce
<1> SUFFICES ASSUME NEW q \in Runs, NEW r \in Runs, q # r, run[q].task = run[r].task,
                    run[q].trigger = "scheduled", run[q].link # "null",
                    run[r].trigger = "scheduled", run[r].link # "null",
                    run[q].due = run[r].due
             PROVE  MovedBack(run[r].task, run[r].due)
  BY DEF SlotServedOnce, MovedBack
<1>1. run[r].task \in Tasks /\ run[r].due \in Nat
  BY ServedFacts
<1>2. Served(q, run[r].task, run[r].due) /\ Served(r, run[r].task, run[r].due)
  BY DEF Served
<1>3. QED
  BY <1>1, <1>2 DEF OnceInv

\* The steps of a call, except its claim and its settlement.
LEMMA OtherSteps ==
    ASSUME TypeOK, NEW e \in Executors, ExecuteStep(e), ~Claim(e), ~Settle(e)
    PROVE  /\ \A f \in Executors : GoesOn(f)
           /\ \A r \in Runs : Kept(r)
           /\ task' = task /\ taskState' = taskState /\ queue' = queue /\ now' = now
<1> USE DEF TypeOK
<1>1. exec[e] \in Call
  OBVIOUS
<1>2. ASSUME NEW x \in Call, x.phase # "opened", exec' = [exec EXCEPT ![e] = x],
             \/ x.phase = "idle"
             \/ /\ exec[e].phase # "idle" /\ x.task = exec[e].task
                /\ x.run = exec[e].run /\ x.start = exec[e].start
      PROVE  \A f \in Executors : GoesOn(f)
  BY <1>2 DEF GoesOn
<1>3. ASSUME Leave(e) PROVE \A f \in Executors : GoesOn(f)
  BY <1>3 DEF Leave, GoesOn, Idle
<1>4. ASSUME NEW p \in Phase, p # "opened", exec[e].phase # "idle", exec' = [exec EXCEPT ![e].phase = p]
      PROVE  \A f \in Executors : GoesOn(f)
  <2>1. exec' = [exec EXCEPT ![e] = AtPhase(exec[e], p)] /\ AtPhase(exec[e], p).start = exec[e].start
    BY <1>1, <1>4 DEF AtPhase, Call
  <2>2. QED
    BY <1>1, <1>2, <1>4, <2>1, CallPhase
<1>5. ASSUME run' = run PROVE \A r \in Runs : Kept(r)
  BY <1>5 DEF Kept, Exists
<1>6. CASE ClaimFails(e) \/ SettleFails(e)
  BY <1>3, <1>5, <1>6 DEF ClaimFails, SettleFails, tableVars
<1>7. CASE SavePrompt(e)
  BY <1>3, <1>4, <1>5, <1>7 DEF SavePrompt, Phase, tableVars
<1>8. CASE AgentReturns(e) \/ AgentRaises(e)
  <2>1. PICK how : run' = [run EXCEPT ![exec[e].run].agent = how]
    BY <1>8 DEF AgentReturns, AgentRaises
  <2>2. \A r \in Runs : Kept(r)
    BY <2>1 DEF Kept, RunRow, Exists
  <2>3. QED
    BY <1>4, <1>8, <2>2 DEF AgentReturns, AgentRaises, Phase
<1>9. CASE SettleRead(e)
  <2>1. CASE Exists(exec[e].run)
    <3> DEFINE p == IF exec[e].phase = "ended" THEN "finishing" ELSE "failing"
               b == task[exec[e].task]
    <3>1. exec' = [exec EXCEPT ![e] = Loading(exec[e], p, b)] /\ exec[e].phase # "idle"
      BY <1>9, <2>1 DEF SettleRead, Loading
    <3>2. p \in Phase /\ p # "opened" /\ b \in TaskRow
      BY <3>1 DEF Phase
    <3> HIDE DEF p, b
    <3>3. Loading(exec[e], p, b).start = exec[e].start
      BY <1>1 DEF Loading, Call
    <3>4. \A f \in Executors : GoesOn(f)
      BY <1>1, <1>2, <3>1, <3>2, <3>3, CallLoading, ZenonT(60)
    <3>5. QED
      BY <1>5, <1>9, <3>4 DEF SettleRead, tableVars
  <2>2. CASE ~Exists(exec[e].run)
    BY <1>3, <1>5, <1>9, <2>2 DEF SettleRead, tableVars
  <2>3. QED
    BY <2>1, <2>2
<1>10. CASE NotifyRead(e)
  <2>1. CASE Exists(exec[e].run)
    <3> DEFINE b == (run[exec[e].run].link = "set")
               v == run[exec[e].run].status
    <3>1. exec' = [exec EXCEPT ![e] = Announcing(exec[e], b, v)] /\ exec[e].phase # "idle"
      BY <1>10, <2>1 DEF NotifyRead, Announcing
    <3>2. b \in BOOLEAN /\ v \in RunStatus
      BY <3>1 DEF RunRow
    <3> HIDE DEF b, v
    <3>3. Announcing(exec[e], b, v).start = exec[e].start
      BY <1>1 DEF Announcing, Call
    <3>4. \A f \in Executors : GoesOn(f)
      BY <1>1, <1>2, <3>1, <3>2, <3>3, CallAnnouncing, ZenonT(60)
    <3>5. QED
      BY <1>5, <1>10, <3>4 DEF NotifyRead, tableVars
  <2>2. CASE ~Exists(exec[e].run)
    BY <1>3, <1>5, <1>10, <2>2 DEF NotifyRead, tableVars
  <2>3. QED
    BY <2>1, <2>2
<1>11. CASE NotifyInsert(e)
  BY <1>3, <1>5, <1>11 DEF NotifyInsert
<1>12. QED
  BY <1>6, <1>7, <1>8, <1>9, <1>10, <1>11 DEF ExecuteStep

\* Steps that serve no slot: what was served stays served, and past.  The tasks of G are
\* created or deleted by the step.
LEMMA SlotFrame ==
    ASSUME TypeOK, TypeOK', RowsInv, CallInv, SlotInv, NEW G \in SUBSET Tasks,
           now <= now',
           \A s \in Schedulers : queue'[s] \subseteq queue[s],
           \A f \in Executors : GoesOn(f),
           \A r \in Runs : Kept(r) \/ /\ run[r].task \in G
                                      /\ run'[r].trigger = "none" /\ run'[r].status = "deleted",
           \A r \in Runs : run'[r].trigger = "scheduled" => run'[r].task \notin G,
           \A t \in Tasks \ G :
              /\ taskState'[t] = taskState[t] /\ task'[t].enabled = task[t].enabled
              /\ task'[t].next = task[t].next \/ \A d \in Nat : d <= now => Past(t, d)',
           \A t \in G : taskState'[t] = "deleted" \/ taskState[t] = "absent"
    PROVE  SlotInv'
<1> USE DEF SlotInv
<1>0. /\ now \in Nat /\ now' \in Nat /\ \A s \in Schedulers : s \in Executors
      /\ \A s \in Schedulers : queue[s] \subseteq Due /\ queue'[s] \subseteq Due
  BY ConstantsAssumption DEF TypeOK, Executors
<1>1. \A r \in Runs : run'[r].trigger = "scheduled" => Kept(r)
  OBVIOUS
<1>2. \A r \in Runs : \A t, d : Served(r, t, d)' => Served(r, t, d) /\ t \notin G
  <2> SUFFICES ASSUME NEW r \in Runs, NEW t, NEW d, Served(r, t, d)'
               PROVE  Served(r, t, d) /\ t \notin G
    OBVIOUS
  <2>1. run'[r].trigger = "scheduled" /\ run'[r].task = t
    BY DEF Served
  <2>2. QED
    BY <1>1, <2>1, ServedKept
<1>3. \A t, d : t \notin G /\ MovedBack(t, d) => MovedBack(t, d)'
  BY MovedKept
<1>4. \A t \in Tasks, d \in Nat : t \notin G /\ d <= now /\ Past(t, d) => Past(t, d)'
  <2> SUFFICES ASSUME NEW t \in Tasks, NEW d \in Nat, t \notin G, d <= now, Past(t, d)
               PROVE  Past(t, d)'
    OBVIOUS
  <2>1. CASE task'[t].next = task[t].next
    BY <1>3, <2>1 DEF Past
  <2>2. CASE \A c \in Nat : c <= now => Past(t, c)'
    BY <2>2
  <2>3. QED
    BY <2>1, <2>2
<1>5. \A r \in Runs : Exists(r)' => Exists(r) /\ Kept(r)
  BY DEF Exists, Kept, Terminal
<1>6. ScheduledInv'
  <2> SUFFICES ASSUME NEW r \in Runs, run'[r].trigger = "scheduled"
               PROVE  Exists(r)' /\ run'[r].due \in Nat /\ run'[r].due <= now'
    BY DEF ScheduledInv
  <2>1. Kept(r) /\ Exists(r) /\ run[r].due \in Nat /\ run[r].due <= now
    BY <1>1 DEF Kept, ScheduledInv
  <2>2. QED
    BY <1>0, <2>1 DEF Kept
<1>7. StartInv'
  <2> SUFFICES ASSUME NEW e \in Executors, NEW r \in Runs, exec'[e].phase # "idle", exec'[e].run = r
               PROVE  /\ exec'[e].start \in Nat
                      /\ Exists(r)' => run'[r].start = exec'[e].start /\ run'[r].trigger = Trigger(e)
    BY DEF StartInv, Trigger, TypeOK, Exists
  <2>1. exec[e].phase # "idle" /\ r = exec[e].run /\ exec'[e].start = exec[e].start
    BY DEF GoesOn
  <2>2. QED
    BY <1>5, <2>1 DEF StartInv, Kept
<1>8. QueueInv'
  <2> SUFFICES ASSUME NEW s \in Schedulers, NEW d \in queue'[s]
               PROVE  /\ d.at <= now'
                      /\ taskState'[d.task] # "absent"
                      /\ taskState'[d.task] = "present" => task'[d.task].enabled
                      /\ \A x \in queue'[s] : x.task = d.task => x = d
                      /\ exec'[s].phase # "idle" => exec'[s].task # d.task
                      /\ \A r \in Runs : Served(r, d.task, d.at)' => MovedBack(d.task, d.at)'
    BY DEF QueueInv
  <2>1. d \in queue[s] /\ d.task \in Tasks /\ d.at \in Nat
    BY <1>0 DEF Due
  <2>2. d.at <= now /\ taskState[d.task] # "absent"
        /\ (taskState[d.task] = "present" => task[d.task].enabled)
        /\ (\A x \in queue[s] : x.task = d.task => x = d)
        /\ (exec[s].phase # "idle" => exec[s].task # d.task)
        /\ (\A r \in Runs : Served(r, d.task, d.at) => MovedBack(d.task, d.at))
    BY <2>1 DEF QueueInv
  <2>3. /\ taskState'[d.task] # "absent"
        /\ taskState'[d.task] = "present" => task'[d.task].enabled
    BY <2>1, <2>2
  <2>4. exec'[s].phase # "idle" => exec'[s].task # d.task
    BY <1>0, <2>2 DEF GoesOn
  <2>5. QED
    BY <1>0, <1>2, <1>3, <2>1, <2>2, <2>3, <2>4
<1>9. PastInv'
  <2> SUFFICES ASSUME NEW r \in Runs, NEW t \in Tasks, NEW d \in Nat, Served(r, t, d)'
               PROVE  Past(t, d)'
    BY DEF PastInv
  <2>1. Served(r, t, d) /\ t \notin G
    BY <1>2
  <2>2. d <= now
    BY <2>1 DEF Served, ScheduledInv
  <2>3. QED
    BY <1>4, <2>1, <2>2 DEF PastInv
<1>10. ClaimInv'
  <2> SUFFICES ASSUME NEW s \in Schedulers, NEW r \in Runs, NEW t \in Tasks, NEW d \in Time,
                      exec'[s].phase = "opened", exec'[s].run = r, exec'[s].task = t,
                      run'[r].due = d, Exists(r)'
               PROVE  /\ exec'[s].loaded.enabled
                      /\ run'[r].link = "null"
                      /\ d <= exec'[s].start
                      /\ \A q \in Runs, c \in Nat : Served(q, t, c)' => c <= exec'[s].start
                      /\ \A q \in Runs : Served(q, t, d)' => MovedBack(t, d)'
                      /\ task'[t].next # exec'[s].loaded.next => Past(t, d)'
    <3>1. \A s \in Schedulers : exec'[s].phase = "opened" =>
              exec'[s].run \in Runs /\ exec'[s].task \in Tasks /\ run'[exec'[s].run].due \in Time
      BY <1>0 DEF TypeOK, RunRow
    <3>2. QED
      BY <3>1 DEF ClaimInv, Exists, Served, MovedBack, Past
  <2>1. /\ exec[s].phase = "opened" /\ exec[s].run = r /\ exec[s].task = t
        /\ exec'[s].start = exec[s].start /\ exec'[s].loaded = exec[s].loaded
    BY <1>0 DEF GoesOn
  <2>2. Exists(r) /\ Kept(r)
    BY <1>5
  <2>3. run[r].task = t /\ run[r].trigger = "scheduled" /\ run[r].due = d
    BY <1>0, <2>1, <2>2 DEF CallInv, StartInv, Trigger, Kept
  <2>4. t \notin G
    BY <2>2, <2>3 DEF Kept
  <2>5. /\ exec[s].loaded.enabled
        /\ run[r].link = "null"
        /\ d <= exec[s].start
        /\ \A q \in Runs, c \in Nat : Served(q, t, c) => c <= exec[s].start
        /\ \A q \in Runs : Served(q, t, d) => MovedBack(t, d)
        /\ task[t].next # exec[s].loaded.next => Past(t, d)
    BY <2>1, <2>2, <2>3 DEF ClaimInv
  <2>6. run'[r].link = "null"
    BY <2>2, <2>3, <2>5 DEF Kept
  <2>7. d \in Nat /\ d <= now
    BY <2>3 DEF ScheduledInv
  <2>8. task'[t].next # exec'[s].loaded.next => Past(t, d)'
    <3>1. CASE task'[t].next = task[t].next
      BY <1>4, <2>1, <2>4, <2>5, <2>7, <3>1
    <3>2. CASE task'[t].next # task[t].next
      BY <2>4, <2>7, <3>2
    <3>3. QED
      BY <3>1, <3>2
  <2>9. QED
    BY <1>2, <1>3, <2>1, <2>4, <2>5, <2>6, <2>8
<1>11. OnceInv'
  BY <1>2, <1>3 DEF OnceInv
<1>12. QED
  BY <1>6, <1>7, <1>8, <1>9, <1>10, <1>11

\* The loop reads the due tasks: each slot it finds was not served, or was moved back.
LEMMA SlotPoll ==
    ASSUME TypeOK, TypeOK', RowsInv, SlotInv, NEW s \in Schedulers, Poll(s)
    PROVE  SlotInv'
<1>1. /\ UNCHANGED <<now, taskState, task, run, exec>> /\ exec[s].phase = "idle"
      /\ \A z \in Schedulers : z # s => queue'[z] = queue[z]
      /\ queue'[s] = {[task |-> t, at |-> task[t].next] : t \in {u \in Tasks : IsDue(u)}}
  BY DEF Poll, tableVars, TypeOK
<1>2. \A t, d : MovedBack(t, d)' <=> MovedBack(t, d)
  BY <1>1 DEF MovedBack
<1>3. \A r \in Runs : \A t, d : Served(r, t, d)' <=> Served(r, t, d)
  BY <1>1 DEF Served
<1>4. ASSUME NEW t \in Tasks, IsDue(t)
      PROVE  /\ taskState[t] = "present" /\ task[t].enabled /\ task[t].next <= now
             /\ \A r \in Runs : Served(r, t, task[t].next) => MovedBack(t, task[t].next)
  <2>1. task[t].next \in Nat
    BY <1>4 DEF IsDue, TypeOK, TaskRow, Time
  <2>2. \A r \in Runs : Served(r, t, task[t].next) => Past(t, task[t].next)
    BY <2>1 DEF SlotInv, PastInv
  <2>3. QED
    BY <1>4, <2>1, <2>2 DEF IsDue, Past
<1>5. QueueInv'
  <2> SUFFICES ASSUME NEW z \in Schedulers, NEW d \in queue'[z]
               PROVE  /\ d.at <= now'
                      /\ taskState'[d.task] # "absent"
                      /\ taskState'[d.task] = "present" => task'[d.task].enabled
                      /\ \A x \in queue'[z] : x.task = d.task => x = d
                      /\ exec'[z].phase # "idle" => exec'[z].task # d.task
                      /\ \A r \in Runs : Served(r, d.task, d.at)' => MovedBack(d.task, d.at)'
    BY DEF QueueInv
  <2>1. CASE z = s
    <3>1. PICK t \in Tasks : IsDue(t) /\ d = [task |-> t, at |-> task[t].next]
      BY <1>1, <2>1
    <3>2. \A x \in queue'[z] : x.task = t => x = d
      BY <1>1, <2>1, <3>1
    <3>3. d.task = t /\ d.at = task[t].next
      BY <3>1
    <3>4. QED
      BY <1>1, <1>2, <1>3, <1>4, <2>1, <3>1, <3>2, <3>3
  <2>2. CASE z # s
    BY <1>1, <1>2, <1>3, <2>2 DEF SlotInv, QueueInv
  <2>3. QED
    BY <2>1, <2>2
<1>6. ScheduledInv' /\ StartInv' /\ PastInv' /\ ClaimInv' /\ OnceInv'
  BY <1>1 DEF SlotInv, ScheduledInv, StartInv, PastInv, ClaimInv, OnceInv, Past, Served, MovedBack,
              Exists
<1>7. QED
  BY <1>5, <1>6 DEF SlotInv

\* A run is opened, by the loop for a slot of its queue, or by hand.
LEMMA SlotOpen ==
    ASSUME TypeOK, TypeOK', RowsInv, CallInv, RunOwnership, SlotInv,
           NEW e \in Executors, NEW t \in Tasks, NEW due \in Time, Open(e, t, due), now' = now,
           \A s \in Schedulers : queue'[s] \subseteq queue[s],
           e \in Schedulers => \E d \in queue[e] : /\ d.task = t /\ d.at = due
                                                   /\ queue'[e] = queue[e] \ {d}
    PROVE  SlotInv'
<1> USE DEF SlotInv
<1>1. PICK r \in Runs :
        /\ run[r].status = "absent"
        /\ run' = [run EXCEPT ![r] =
                      [BlankRun("running") EXCEPT !.task = t, !.trigger = Trigger(e),
                                                  !.start = now, !.due = due]]
        /\ exec' = [exec EXCEPT ![e] = Opened(t, r, now, task[t])]
  BY DEF Open, FreshRun, Opened
<1>2. /\ taskState[t] = "present" /\ taskState' = taskState /\ task' = task
      /\ exec[e].phase = "idle" /\ now \in Nat
      /\ \A s \in Schedulers : s \in Executors
      /\ \A s \in Schedulers : queue[s] \subseteq Due /\ queue'[s] \subseteq Due
  BY ConstantsAssumption DEF Open, TypeOK, Executors
<1>3. /\ run'[r].status = "running" /\ run'[r].task = t /\ run'[r].trigger = Trigger(e)
      /\ run'[r].start = now /\ run'[r].due = due /\ run'[r].link = "null"
      /\ \A q \in Runs : q # r => run'[q] = run[q]
  BY <1>1 DEF TypeOK, BlankRun
<1>4. /\ exec'[e].phase = "opened" /\ exec'[e].task = t /\ exec'[e].run = r
      /\ exec'[e].start = now /\ exec'[e].loaded = task[t]
      /\ \A f \in Executors : f # e => exec'[f] = exec[f]
  <2>1. /\ Opened(t, r, now, task[t]).phase = "opened" /\ Opened(t, r, now, task[t]).task = t
        /\ Opened(t, r, now, task[t]).run = r /\ Opened(t, r, now, task[t]).start = now
        /\ Opened(t, r, now, task[t]).loaded = task[t]
    BY DEF Opened, Idle
  <2>2. QED
    BY <1>1, <2>1 DEF TypeOK
<1>5. run[r].trigger # "scheduled" /\ run[r].status # "succeeded" /\ ~Exists(r)
  BY <1>1 DEF ScheduledInv, Exists, Terminal
<1>6. \A q \in Runs : \A u, d : Served(q, u, d)' <=> Served(q, u, d)
  <2> SUFFICES ASSUME NEW q \in Runs, NEW u, NEW d
               PROVE  Served(q, u, d)' <=> Served(q, u, d)
    OBVIOUS
  <2>1. CASE q = r
    BY <1>3, <1>5, <2>1 DEF Served
  <2>2. CASE q # r
    BY <1>3, <2>2 DEF Served
  <2>3. QED
    BY <2>1, <2>2
<1>7. \A u, d : MovedBack(u, d) => MovedBack(u, d)'
  <2> SUFFICES ASSUME NEW u, NEW d, MovedBack(u, d)
               PROVE  MovedBack(u, d)'
    OBVIOUS
  <2>1. PICK m \in Runs : /\ run[m].task = u /\ run[m].trigger = "manual" /\ run[m].status = "succeeded"
                          /\ run[m].start < d /\ run[m].finish >= d
    BY DEF MovedBack
  <2>2. run'[m] = run[m]
    BY <1>3, <1>5, <2>1
  <2>3. QED
    BY <2>1, <2>2 DEF MovedBack
<1>8. \A u, d : Past(u, d) => Past(u, d)'
  BY <1>2, <1>7 DEF Past
<1>9. \A f \in Executors : f # e /\ exec[f].phase # "idle" /\ exec[f].run # r
                              => run'[exec[f].run] = run[exec[f].run]
  BY <1>3 DEF TypeOK
<1>10. ASSUME e \in Schedulers
       PROVE  /\ due \in Nat /\ due <= now /\ task[t].enabled
              /\ \A x \in queue'[e] : x.task # t
              /\ \A q \in Runs : Served(q, t, due) => MovedBack(t, due)
  <2>1. PICK d \in queue[e] : d.task = t /\ d.at = due /\ queue'[e] = queue[e] \ {d}
    BY <1>10
  <2>2. d.at \in Nat
    BY <1>2, <1>10 DEF Due
  <2>3. QED
    BY <1>2, <1>10, <2>1, <2>2 DEF QueueInv
<1>11. ScheduledInv'
  <2>1. run'[r].trigger = "scheduled" => e \in Schedulers
    BY <1>3 DEF Trigger
  <2>2. \A q \in Runs : run'[q].trigger = "scheduled" =>
            run'[q].status \in {"running"} \cup Terminal /\ run'[q].due \in Nat /\ run'[q].due <= now
    BY <1>3, <1>10, <2>1 DEF ScheduledInv, Exists
  <2>3. QED
    BY <2>2 DEF ScheduledInv, Exists
<1>12. \A f \in Executors : exec'[f].phase # "idle" /\ f # e =>
          exec[f].phase # "idle" /\ exec'[f].run # r /\ exec'[f] = exec[f]
  BY <1>1, <1>4 DEF RunOwnership, Terminal
<1>13. StartInv'
  <2> SUFFICES ASSUME NEW f \in Executors, NEW q \in Runs, exec'[f].phase # "idle", exec'[f].run = q
               PROVE  /\ exec'[f].start \in Nat
                      /\ Exists(q)' => run'[q].start = exec'[f].start /\ run'[q].trigger = Trigger(f)
    BY DEF StartInv, Trigger, TypeOK, Exists
  <2>1. CASE f = e
    BY <1>2, <1>3, <1>4, <2>1
  <2>2. CASE f # e
    BY <1>3, <1>12, <2>2 DEF StartInv, Exists
  <2>3. QED
    BY <2>1, <2>2
<1>14. QueueInv'
  <2> SUFFICES ASSUME NEW s \in Schedulers, NEW d \in queue'[s]
               PROVE  /\ d.at <= now'
                      /\ taskState'[d.task] # "absent"
                      /\ taskState'[d.task] = "present" => task'[d.task].enabled
                      /\ \A x \in queue'[s] : x.task = d.task => x = d
                      /\ exec'[s].phase # "idle" => exec'[s].task # d.task
                      /\ \A q \in Runs : Served(q, d.task, d.at)' => MovedBack(d.task, d.at)'
    BY DEF QueueInv
  <2>1. d \in queue[s]
    OBVIOUS
  <2>2. exec'[s].phase # "idle" => exec'[s].task # d.task
    <3>1. CASE s = e
      BY <1>4, <1>10, <3>1
    <3>2. CASE s # e
      BY <1>2, <1>4, <2>1, <3>2 DEF QueueInv
    <3>3. QED
      BY <3>1, <3>2
  <2>3. QED
    BY <1>2, <1>6, <1>7, <2>1, <2>2 DEF QueueInv
<1>15. PastInv' /\ OnceInv'
  BY <1>6, <1>7, <1>8 DEF PastInv, OnceInv
<1>16. ClaimInv'
  <2> SUFFICES ASSUME NEW s \in Schedulers, NEW p \in Runs, NEW u \in Tasks, NEW d \in Time,
                      exec'[s].phase = "opened", exec'[s].run = p, exec'[s].task = u,
                      run'[p].due = d, Exists(p)'
               PROVE  /\ exec'[s].loaded.enabled
                      /\ run'[p].link = "null"
                      /\ d <= exec'[s].start
                      /\ \A q \in Runs, c \in Nat : Served(q, u, c)' => c <= exec'[s].start
                      /\ \A q \in Runs : Served(q, u, d)' => MovedBack(u, d)'
                      /\ task'[u].next # exec'[s].loaded.next => Past(u, d)'
    <3>1. \A s \in Schedulers : exec'[s].phase = "opened" =>
              exec'[s].run \in Runs /\ exec'[s].task \in Tasks /\ run'[exec'[s].run].due \in Time
      BY <1>2 DEF TypeOK, RunRow
    <3>2. QED
      BY <3>1 DEF ClaimInv, Exists, Served, MovedBack, Past
  <2>1. CASE s = e
    <3>1. p = r /\ u = t /\ d = due
      BY <1>3, <1>4, <2>1
    <3>2. \A q \in Runs, c \in Nat : Served(q, t, c) => c <= now
      BY DEF Served, ScheduledInv
    <3>3. QED
      BY <1>2, <1>3, <1>4, <1>6, <1>7, <1>10, <2>1, <3>1, <3>2
  <2>2. CASE s # e
    <3>1. exec'[s] = exec[s] /\ p # r /\ run'[p] = run[p]
      BY <1>2, <1>3, <1>12, <2>2
    <3>2. Exists(p)
      BY <3>1 DEF Exists
    <3>3. QED
      BY <1>2, <1>6, <1>7, <1>8, <3>1, <3>2 DEF ClaimInv
  <2>3. QED
    BY <2>1, <2>2
<1>17. QED
  BY <1>11, <1>13, <1>14, <1>15, <1>16

\* The claim of a run by the loop: the slot is served, and past.  The loop is the only one.
LEMMA SlotClaim ==
    ASSUME TypeOK, TypeOK', RowsInv, CallInv, RunOwnership, SlotInv,
           NEW e \in Schedulers, \A s \in Schedulers : s = e, Claim(e)
    PROVE  SlotInv'
<1> USE DEF SlotInv
<1> DEFINE row == Claimed(e)
<1>1. PICK r \in Runs, t \in Tasks, d \in Nat :
        exec[e].run = r /\ exec[e].task = t /\ run[r].due = d /\ run[r].trigger = "scheduled"
        /\ Exists(r) /\ run[r].task = t /\ run[r].start = exec[e].start
  <2>1. e \in Executors
    BY DEF Executors
  <2>2. exec[e].phase # "idle" /\ Exists(exec[e].run)
    BY DEF Claim, CanClaim
  <2>3. exec[e].run \in Runs /\ exec[e].task \in Tasks /\ run[exec[e].run].trigger = "scheduled"
        /\ run[exec[e].run].task = exec[e].task /\ run[exec[e].run].start = exec[e].start
    BY <2>1, <2>2 DEF TypeOK, StartInv, CallInv, Trigger
  <2>4. QED
    BY <2>2, <2>3 DEF ScheduledInv
<1>2. /\ exec[e].phase = "opened" /\ UNCHANGED <<now, taskState, queue>>
      /\ task' = [task EXCEPT ![t] = Flush(@, exec[e].loaded, row)]
      /\ run' = [run EXCEPT ![r].link = "set"]
      /\ exec' = [exec EXCEPT ![e].phase = "committed"]
      /\ now \in Nat
  BY <1>1, ConstantsAssumption DEF Claim, TypeOK
<1>3. e \in Executors /\ exec[e] \in Call /\ exec[e].loaded \in TaskRow /\ exec[e].start \in Nat
      /\ task[t] \in TaskRow
  BY <1>2 DEF Executors, TypeOK, Call, StartInv
<1>4. /\ exec[e].loaded.enabled /\ run[r].link = "null" /\ d <= exec[e].start
      /\ \A q \in Runs, c \in Nat : Served(q, t, c) => c <= exec[e].start
      /\ \A q \in Runs : Served(q, t, d) => MovedBack(t, d)
      /\ task[t].next # exec[e].loaded.next => Past(t, d)
  BY <1>1, <1>2 DEF ClaimInv
<1>5. row.next \in Nat /\ row.next > exec[e].start /\ row.enabled = exec[e].loaded.enabled
  <2>1. row.next = NextRunAt(exec[e].loaded.cron, exec[e].start) /\ row.next # NoTime
        /\ row.enabled = exec[e].loaded.enabled
    BY <1>2, <1>3, <1>4 DEF Claim, CanClaim, Claimed, TaskRow
  <2>2. exec[e].loaded.cron \in Crons /\ exec[e].start \in Time
    BY <1>3 DEF TaskRow, Time
  <2>3. QED
    BY <1>3, <2>1, <2>2, NextRunAtType DEF Time, NoTime
<1> HIDE DEF row
<1>6. /\ \A u \in Tasks : u # t => task'[u] = task[u]
      /\ task'[t].enabled = task[t].enabled
      /\ task'[t].next = IF row.next = exec[e].loaded.next THEN task[t].next ELSE row.next
  BY <1>2, <1>5 DEF TypeOK, Flush, Column
<1>7. /\ \A q \in Runs : q # r => run'[q] = run[q]
      /\ run'[r].link = "set" /\ run'[r].task = t /\ run'[r].due = d /\ run'[r].trigger = "scheduled"
      /\ run'[r].status = run[r].status /\ run'[r].start = run[r].start
      /\ run'[r].finish = run[r].finish
  BY <1>1, <1>2 DEF TypeOK, RunRow
<1>8. /\ \A f \in Executors : f # e => exec'[f] = exec[f]
      /\ exec'[e].phase = "committed" /\ exec'[e].task = t /\ exec'[e].run = r
      /\ exec'[e].start = exec[e].start
  BY <1>1, <1>2, <1>3 DEF TypeOK, Call
<1>9. \A q \in Runs : q # r => \A u, c : Served(q, u, c)' <=> Served(q, u, c)
  BY <1>7 DEF Served
<1>10. \A u, c : Served(r, u, c)' <=> u = t /\ c = d
  BY <1>7 DEF Served
<1>11. \A q \in Runs : Exists(q)' <=> Exists(q)
  BY <1>7 DEF Exists
<1>12. \A u, c : MovedBack(u, c) => MovedBack(u, c)'
  <2> SUFFICES ASSUME NEW u, NEW c, MovedBack(u, c)
               PROVE  MovedBack(u, c)'
    OBVIOUS
  <2>1. PICK m \in Runs : /\ run[m].task = u /\ run[m].trigger = "manual" /\ run[m].status = "succeeded"
                          /\ run[m].start < c /\ run[m].finish >= c
    BY DEF MovedBack
  <2>2. run'[m] = run[m]
    BY <1>1, <1>7, <2>1
  <2>3. QED
    BY <2>1, <2>2 DEF MovedBack
<1>13. \A u \in Tasks, c \in Nat : u # t /\ Past(u, c) => Past(u, c)'
  BY <1>6, <1>12 DEF Past
<1>14. ASSUME NEW c \in Nat, c <= exec[e].start, task[t].next # exec[e].loaded.next => Past(t, c),
              Past(t, c) \/ c = d
       PROVE  Past(t, c)'
  <2>1. CASE row.next # exec[e].loaded.next
    BY <1>3, <1>5, <1>6, <1>14, <2>1 DEF Past
  <2>2. CASE row.next = exec[e].loaded.next
    <3>1. CASE Past(t, c)
      BY <1>6, <1>12, <2>2, <3>1 DEF Past
    <3>2. CASE task[t].next = exec[e].loaded.next
      BY <1>3, <1>5, <1>6, <1>14, <2>2, <3>2 DEF Past
    <3>3. QED
      BY <1>14, <3>1, <3>2
  <2>3. QED
    BY <2>1, <2>2
<1>15. PastInv'
  <2> SUFFICES ASSUME NEW q \in Runs, NEW u \in Tasks, NEW c \in Nat, Served(q, u, c)'
               PROVE  Past(u, c)'
    BY DEF PastInv
  <2>1. CASE q = r
    BY <1>4, <1>10, <1>14, <2>1
  <2>2. CASE q # r
    <3>1. Served(q, u, c) /\ Past(u, c)
      BY <1>9, <2>2 DEF PastInv
    <3>2. QED
      BY <1>4, <1>13, <1>14, <3>1
  <2>3. QED
    BY <2>1, <2>2
<1>16. OnceInv'
  <2> SUFFICES ASSUME NEW p \in Runs, NEW q \in Runs, p # q, NEW u \in Tasks, NEW c \in Nat,
                      Served(p, u, c)', Served(q, u, c)'
               PROVE  MovedBack(u, c)'
    BY DEF OnceInv
  <2>1. CASE p = r
    BY <1>4, <1>9, <1>10, <1>12, <2>1
  <2>2. CASE q = r
    BY <1>4, <1>9, <1>10, <1>12, <2>2
  <2>3. CASE p # r /\ q # r
    BY <1>9, <1>12, <2>3 DEF OnceInv
  <2>4. QED
    BY <2>1, <2>2, <2>3
<1>17. ScheduledInv'
  BY <1>1, <1>2, <1>7, <1>11 DEF ScheduledInv
<1>18. StartInv'
  <2> SUFFICES ASSUME NEW f \in Executors, NEW q \in Runs, exec'[f].phase # "idle", exec'[f].run = q
               PROVE  /\ exec'[f].start \in Nat
                      /\ Exists(q)' => run'[q].start = exec'[f].start /\ run'[q].trigger = Trigger(f)
    BY DEF StartInv, Trigger, TypeOK, Exists
  <2>1. exec[f].phase # "idle" /\ exec[f].run = q /\ exec'[f].start = exec[f].start
    BY <1>1, <1>2, <1>8
  <2>2. run'[q].start = run[q].start /\ run'[q].trigger = run[q].trigger
    BY <1>1, <1>7
  <2>3. QED
    BY <1>11, <2>1, <2>2 DEF StartInv
<1>19. QueueInv'
  <2> SUFFICES ASSUME NEW x \in queue[e]
               PROVE  /\ x.at <= now
                      /\ taskState[x.task] # "absent"
                      /\ taskState[x.task] = "present" => task'[x.task].enabled
                      /\ \A y \in queue[e] : y.task = x.task => y = x
                      /\ t # x.task
                      /\ \A q \in Runs : Served(q, x.task, x.at)' => MovedBack(x.task, x.at)'
    BY <1>2, <1>8 DEF QueueInv
  <2>1. x.task \in Tasks
    BY DEF TypeOK, Due
  <2>2. t # x.task /\ task'[x.task] = task[x.task]
    BY <1>1, <1>2, <1>6, <2>1 DEF QueueInv
  <2>3. QED
    BY <1>9, <1>10, <1>12, <2>2 DEF QueueInv
<1>20. ClaimInv'
  BY <1>8 DEF ClaimInv
<1>21. QED
  BY <1>15, <1>16, <1>17, <1>18, <1>19, <1>20

\* The settlement of a run: only one of a manual run changes next_run_at, and either to a
\* later slot, or its run is the one that moved it back.
LEMMA SlotSettle ==
    ASSUME TypeOK, TypeOK', RowsInv, CallInv, RunOwnership, SlotInv, NEW e \in Executors, Settle(e)
    PROVE  SlotInv'
<1> USE DEF SlotInv
<1>1. PICK r \in Runs, t \in Tasks :
        exec[e].run = r /\ exec[e].task = t /\ Exists(r) /\ run[r].task = t
        /\ run[r].trigger = Trigger(e) /\ run[r].start = exec[e].start /\ run[r].status = "running"
        /\ exec[e].start \in Nat
  <2>1. exec[e].phase \in {"finishing", "failing"} /\ Exists(exec[e].run)
    BY DEF Settle, CanSettle
  <2>2. exec[e].run \in Runs /\ exec[e].task \in Tasks
    BY <2>1 DEF TypeOK
  <2>3. run[exec[e].run].status \in {"running"} \cup {"deleted"}
    BY <2>1 DEF RunOwnership
  <2>4. run[exec[e].run].status = "running"
    BY <2>1, <2>3 DEF Exists, Terminal
  <2>5. QED
    BY <2>1, <2>2, <2>4 DEF StartInv, CallInv
<1> DEFINE status == IF exec[e].phase = "finishing" THEN "succeeded" ELSE "failed"
           row == IF exec[e].phase = "finishing" THEN Succeeded(e) ELSE Failed(e)
<1>2. /\ run' = [run EXCEPT ![r].status = status, ![r].finish = now]
      /\ task' = [task EXCEPT ![t] = Flush(@, exec[e].loaded, row)]
      /\ exec' = [exec EXCEPT ![e].phase = "notify"]
      /\ UNCHANGED <<now, taskState, queue>> /\ exec[e].phase \in {"finishing", "failing"}
      /\ now \in Nat
  BY <1>1, ConstantsAssumption DEF Settle, TypeOK
<1>3. exec[e] \in Call /\ exec[e].loaded \in TaskRow /\ task[t] \in TaskRow
  BY DEF TypeOK, Call
<1>4. /\ row.enabled = exec[e].loaded.enabled
      /\ row.next # exec[e].loaded.next =>
            /\ exec[e].phase = "finishing" /\ e \notin Schedulers
            /\ row.next \in Nat /\ row.next > exec[e].start
  <2>1. CASE exec[e].phase = "finishing" /\ e \notin Schedulers /\ exec[e].loaded.enabled
    <3>1. row.next = NextRunAt(exec[e].loaded.cron, exec[e].start) /\ row.next # NoTime
          /\ row.enabled = exec[e].loaded.enabled
      BY <1>3, <2>1 DEF Settle, CanSettle, Succeeded, TaskRow
    <3>2. exec[e].loaded.cron \in Crons /\ exec[e].start \in Time
      BY <1>1, <1>3 DEF TaskRow, Time
    <3>3. QED
      BY <2>1, <3>1, <3>2, NextRunAtType DEF Time, NoTime
  <2>2. CASE ~(exec[e].phase = "finishing" /\ e \notin Schedulers /\ exec[e].loaded.enabled)
    BY <1>3, <2>2 DEF Succeeded, Failed, TaskRow
  <2>3. QED
    BY <2>1, <2>2
<1> HIDE DEF row
<1>5. /\ \A u \in Tasks : u # t => task'[u] = task[u]
      /\ task'[t].enabled = task[t].enabled
      /\ task'[t].next = IF row.next = exec[e].loaded.next THEN task[t].next ELSE row.next
  BY <1>2, <1>4 DEF TypeOK, Flush, Column
<1>6. /\ \A q \in Runs : q # r => run'[q] = run[q]
      /\ run'[r].status = status /\ run'[r].finish = now
      /\ run'[r].task = t /\ run'[r].trigger = run[r].trigger /\ run'[r].start = run[r].start
      /\ run'[r].due = run[r].due /\ run'[r].link = run[r].link
  BY <1>1, <1>2 DEF TypeOK, RunRow
<1>7. \A q \in Runs : Kept(q)
  <2>1. Kept(r)
    BY <1>1, <1>6 DEF Kept, Exists, Terminal
  <2>2. \A q \in Runs : q # r => Kept(q)
    BY <1>6 DEF Kept, Exists
  <2>3. QED
    BY <2>1, <2>2
<1>8. \A f \in Executors : GoesOn(f)
  <2>1. /\ exec'[e].phase = "notify" /\ exec'[e].run = r /\ exec'[e].task = t
        /\ exec'[e].start = exec[e].start /\ \A f \in Executors : f # e => exec'[f] = exec[f]
    BY <1>1, <1>2, <1>3 DEF TypeOK, Call
  <2>2. QED
    BY <1>1, <1>2, <2>1 DEF GoesOn
<1>9. ASSUME task'[t].next # task[t].next, NEW d \in Nat, d <= now
      PROVE  Past(t, d)'
  <2>1. exec[e].phase = "finishing" /\ e \notin Schedulers
        /\ row.next \in Nat /\ row.next > exec[e].start /\ task'[t].next = row.next
    BY <1>4, <1>5, <1>9
  <2>2. CASE d <= exec[e].start
    BY <1>1, <2>1, <2>2 DEF Past
  <2>3. CASE exec[e].start < d
    <3>1. run'[r].status = "succeeded" /\ run'[r].trigger = "manual"
      BY <1>1, <1>6, <2>1 DEF Trigger
    <3>2. QED
      BY <1>1, <1>2, <1>6, <1>9, <2>3, <3>1 DEF Past, MovedBack
  <2>4. QED
    BY <1>1, <2>2, <2>3
<1>10. QED
  <2>1. \A u \in Tasks \ {} :
            /\ taskState'[u] = taskState[u] /\ task'[u].enabled = task[u].enabled
            /\ task'[u].next = task[u].next \/ \A d \in Nat : d <= now => Past(u, d)'
    BY <1>2, <1>5, <1>9
  <2>2. {} \in SUBSET Tasks /\ now <= now' /\ \A s \in Schedulers : queue'[s] \subseteq queue[s]
    BY <1>2
  <2>3. QED
    BY <1>7, <1>8, <2>1, <2>2, SlotFrame

\* The claim of a manual run leaves next_run_at as it is.
LEMMA SlotManualClaim ==
    ASSUME TypeOK, TypeOK', RowsInv, CallInv, SlotInv,
           NEW e \in Executors, e \notin Schedulers, Claim(e)
    PROVE  SlotInv'
<1> USE DEF SlotInv
<1>1. PICK r \in Runs, t \in Tasks :
        exec[e].run = r /\ exec[e].task = t /\ Exists(r) /\ run[r].task = t /\ run[r].trigger = "manual"
  <2>1. exec[e].phase # "idle" /\ Exists(exec[e].run)
    BY DEF Claim, CanClaim
  <2>2. exec[e].run \in Runs /\ exec[e].task \in Tasks /\ run[exec[e].run].trigger = "manual"
        /\ run[exec[e].run].task = exec[e].task
    BY <2>1 DEF TypeOK, StartInv, CallInv, Trigger
  <2>3. QED
    BY <2>1, <2>2
<1>2. /\ exec[e].phase = "opened" /\ UNCHANGED <<now, taskState, queue>>
      /\ task' = [task EXCEPT ![t] = Flush(@, exec[e].loaded, Claimed(e))]
      /\ run' = [run EXCEPT ![r].link = "set"]
      /\ exec' = [exec EXCEPT ![e].phase = "committed"]
      /\ now \in Nat
  BY <1>1, ConstantsAssumption DEF Claim, TypeOK
<1>3. exec[e] \in Call /\ exec[e].loaded \in TaskRow /\ task[t] \in TaskRow
  BY DEF TypeOK, Call
<1>4. Claimed(e).enabled = exec[e].loaded.enabled /\ Claimed(e).next = exec[e].loaded.next
  BY <1>3 DEF Claimed, TaskRow
<1>5. /\ \A u \in Tasks : u # t => task'[u] = task[u]
      /\ task'[t].enabled = task[t].enabled /\ task'[t].next = task[t].next
  BY <1>2, <1>4 DEF TypeOK, Flush, Column
<1>6. \A q \in Runs : Kept(q)
  <2>1. Kept(r)
    BY <1>1, <1>2 DEF Kept, Exists, TypeOK, RunRow
  <2>2. \A q \in Runs : q # r => Kept(q)
    BY <1>2 DEF Kept, Exists, TypeOK
  <2>3. QED
    BY <2>1, <2>2
<1>7. \A f \in Executors : GoesOn(f)
  <2>1. /\ exec'[e].phase = "committed" /\ exec'[e].run = r /\ exec'[e].task = t
        /\ exec'[e].start = exec[e].start /\ \A f \in Executors : f # e => exec'[f] = exec[f]
    BY <1>1, <1>2, <1>3 DEF TypeOK, Call
  <2>2. QED
    BY <1>1, <1>2, <2>1 DEF GoesOn
<1>8. \A u \in Tasks \ {} :
          taskState'[u] = taskState[u] /\ task'[u].enabled = task[u].enabled /\ task'[u].next = task[u].next
  BY <1>2, <1>5
<1>9. {} \in SUBSET Tasks /\ now <= now' /\ \A s \in Schedulers : queue'[s] \subseteq queue[s]
  BY <1>2
<1>10. QED
  BY <1>6, <1>7, <1>8, <1>9, SlotFrame

LEMMA SlotInitially == Init => SlotInv
<1> SUFFICES ASSUME Init PROVE SlotInv
  OBVIOUS
<1>1. /\ \A r \in Runs : run[r].trigger = "none"
      /\ \A e \in Executors : exec[e].phase = "idle"
      /\ \A s \in Schedulers : queue[s] = {} /\ s \in Executors
  BY DEF Init, BlankRun, Idle, Executors
<1>2. ScheduledInv /\ StartInv /\ PastInv /\ OnceInv
  BY <1>1 DEF ScheduledInv, StartInv, PastInv, OnceInv, Served
<1>3. QueueInv /\ ClaimInv
  BY <1>1 DEF QueueInv, ClaimInv
<1>4. QED
  BY <1>2, <1>3 DEF SlotInv

\* With one loop and no edits every step keeps served slots in the past.
LEMMA SlotStep ==
    ASSUME Editors = {}, \A s, z \in Schedulers : s = z, IInv, TypeOK', SlotInv, [Next]_vars
    PROVE  SlotInv'
<1> USE DEF IInv
<1>0. ASSUME \A f \in Executors : GoesOn(f), \A r \in Runs : Kept(r), now <= now',
             \A s \in Schedulers : queue'[s] \subseteq queue[s], task' = task, taskState' = taskState
      PROVE  SlotInv'
  <2>1. {} \in SUBSET Tasks
    OBVIOUS
  <2>2. QED
    BY <1>0, <2>1, SlotFrame
<1>1. now \in Nat
  BY ConstantsAssumption DEF TypeOK
<1>2. ASSUME run' = run PROVE \A r \in Runs : Kept(r)
  BY <1>2 DEF Kept, Exists
<1>3. ASSUME exec' = exec PROVE \A f \in Executors : GoesOn(f)
  BY <1>3 DEF GoesOn
<1>4. ASSUME NEW t \in Tasks, CreateTask(t) PROVE SlotInv'
  <2>1. /\ taskState[t] = "absent" /\ UNCHANGED <<now, run, queue, exec>>
        /\ \A u \in Tasks \ {t} : task'[u] = task[u] /\ taskState'[u] = taskState[u]
    BY <1>4 DEF CreateTask, callVars, TypeOK
  <2>2. \A r \in Runs : run'[r].trigger = "scheduled" => run'[r].task \notin {t}
    BY <2>1 DEF SlotInv, ScheduledInv, RowsInv
  <2>3. {t} \in SUBSET Tasks /\ now <= now' /\ \A s \in Schedulers : queue'[s] \subseteq queue[s]
    BY <1>1, <2>1
  <2>4. /\ \A f \in Executors : GoesOn(f)
        /\ \A r \in Runs : Kept(r)
    BY <1>2, <1>3, <2>1
  <2>5. /\ \A u \in Tasks \ {t} : /\ taskState'[u] = taskState[u] /\ task'[u].enabled = task[u].enabled
                                /\ task'[u].next = task[u].next
        /\ \A u \in {t} : taskState[u] = "absent"
    BY <2>1
  <2>6. QED
    BY <2>2, <2>3, <2>4, <2>5, SlotFrame
<1>5. ASSUME NEW t \in Tasks, DeleteTask(t) PROVE SlotInv'
  <2>1. /\ UNCHANGED <<now, queue, exec>> /\ run' = RunsAfterDelete(t)
        /\ taskState'[t] = "deleted"
        /\ \A u \in Tasks \ {t} : task'[u] = task[u] /\ taskState'[u] = taskState[u]
    BY <1>5 DEF DeleteTask, callVars, TypeOK
  <2>2. \A r \in Runs : IF run[r].task = t /\ Exists(r)
                        THEN run'[r].trigger = "none" /\ run'[r].status = "deleted"
                        ELSE run'[r] = run[r]
    BY <2>1 DEF RunsAfterDelete, BlankRun
  <2>3. \A r \in Runs : Kept(r) \/ /\ run[r].task \in {t}
                                   /\ run'[r].trigger = "none" /\ run'[r].status = "deleted"
    BY <2>2 DEF Kept, Exists
  <2>4. \A r \in Runs : run'[r].trigger = "scheduled" => run'[r].task \notin {t}
    BY <2>2 DEF SlotInv, ScheduledInv
  <2>5. /\ {t} \in SUBSET Tasks /\ now <= now' /\ \A s \in Schedulers : queue'[s] \subseteq queue[s]
        /\ \A f \in Executors : GoesOn(f)
    BY <1>1, <1>3, <2>1
  <2>6. /\ \A u \in Tasks \ {t} : /\ taskState'[u] = taskState[u] /\ task'[u].enabled = task[u].enabled
                                /\ task'[u].next = task[u].next
        /\ \A u \in {t} : taskState'[u] = "deleted"
    BY <2>1
  <2>7. QED
    BY <2>3, <2>4, <2>5, <2>6, SlotFrame
<1>6. ASSUME NEW r \in Runs, DeleteConversation(r) PROVE SlotInv'
  <2>1. run' = [run EXCEPT ![r].link = IF @ = "set" THEN "unset" ELSE @]
        /\ UNCHANGED <<now, task, taskState, queue, exec>>
    BY <1>6 DEF DeleteConversation, callVars
  <2>2. \A q \in Runs : Kept(q)
    <3>1. Kept(r)
      BY <2>1 DEF Kept, Exists, TypeOK, RunRow
    <3>2. \A q \in Runs : q # r => Kept(q)
      BY <2>1 DEF Kept, Exists, TypeOK
    <3>3. QED
      BY <3>1, <3>2
  <2>3. QED
    BY <1>0, <1>1, <1>3, <2>1, <2>2
<1>7. ASSUME NEW m \in Requests, NEW t \in Tasks, TriggerManually(m, t) PROVE SlotInv'
  <2>1. m \in Executors /\ m \notin Schedulers /\ NoTime \in Time
    BY ConstantsAssumption DEF Executors, Time
  <2>2. Open(m, t, NoTime) /\ queue' = queue /\ now' = now
    BY <1>7 DEF TriggerManually, Open
  <2>3. QED
    BY <2>1, <2>2, SlotOpen
<1>8. ASSUME NEW s \in Schedulers, LoopStep(s) PROVE SlotInv'
  <2>1. CASE Poll(s)
    BY <2>1, SlotPoll
  <2>2. ASSUME NEW d \in queue[s], SkipDeleted(s, d) PROVE SlotInv'
    <3>1. UNCHANGED <<now, task, taskState, run, exec>>
          /\ \A z \in Schedulers : queue'[z] \subseteq queue[z]
      BY <2>2 DEF SkipDeleted, tableVars, TypeOK
    <3>2. QED
      BY <1>0, <1>1, <1>2, <1>3, <3>1
  <2>3. ASSUME NEW d \in queue[s], Dispatch(s, d) PROVE SlotInv'
    <3>1. d.task \in Tasks /\ d.at \in Time /\ s \in Executors
      BY DEF TypeOK, Due, Time, Executors
    <3>2. Open(s, d.task, d.at) /\ now' = now /\ queue'[s] = queue[s] \ {d}
          /\ \A z \in Schedulers : queue'[z] \subseteq queue[z]
      BY <2>3 DEF Dispatch, Open, TypeOK
    <3>3. QED
      BY <3>1, <3>2, SlotOpen
  <2>4. QED
    BY <1>8, <2>1, <2>2, <2>3 DEF LoopStep
<1>9. ASSUME NEW e \in Executors, ExecuteStep(e) PROVE SlotInv'
  <2>1. CASE Claim(e)
    <3>1. CASE e \in Schedulers
      BY <2>1, <3>1, SlotClaim
    <3>2. CASE e \notin Schedulers
      BY <2>1, <3>2, SlotManualClaim
    <3>3. QED
      BY <3>1, <3>2
  <2>2. CASE Settle(e)
    BY <2>2, SlotSettle
  <2>3. CASE ~Claim(e) /\ ~Settle(e)
    BY <1>0, <1>1, <1>9, <2>3, OtherSteps
  <2>4. QED
    BY <2>1, <2>2, <2>3
<1>10. CASE Tick
  BY <1>0, <1>1, <1>2, <1>3, <1>10 DEF Tick, tableVars, callVars
<1>11. CASE Crash
  <2>1. \A f \in Executors : GoesOn(f)
    BY <1>11 DEF Crash, GoesOn, Idle
  <2>2. QED
    BY <1>0, <1>1, <1>2, <1>11, <2>1 DEF Crash, tableVars
<1>12. CASE UNCHANGED vars
  BY <1>0, <1>1, <1>2, <1>3, <1>12 DEF vars, tableVars, callVars
<1>13. QED
  BY <1>4, <1>5, <1>6, <1>7, <1>8, <1>9, <1>10, <1>11, <1>12 DEF Next

\* One loop that nobody's edits disturb runs a slot twice only if a manual run, begun
\* before the slot and settled after it, moved next_run_at back to it - whatever is
\* deleted, fails or crashes between the poll, the claim and the settlement.
THEOREM SlotsServedOnce ==
    ASSUME Editors = {}, \A s, z \in Schedulers : s = z
    PROVE  Spec => []SlotServedOnce
<1>1. IInv /\ TypeOK' /\ SlotInv /\ [Next]_vars => SlotInv'
  BY SlotStep
<1>2. IInv /\ SlotInv => SlotServedOnce
  BY OnceMeans DEF IInv, SlotInv
<1>3. QED
  BY <1>1, <1>2, SlotInitially, InvariantHolds, TypeCorrect, PTL DEF Spec

-----------------------------------------------------------------------------
(* Refinement.                                                             *)

statuses == [r \in Runs |-> run[r].status]

\* The initial states map to an initial state of RunLifecycle.
LEMMA InitLifecycle == Init => Lifecycle!Init
BY DEF Init, Lifecycle!Init, Lifecycle!None, Lifecycle!Outcome, NoNotes, Terminal, BlankRun

\* Steps that change neither the status nor the notifications of a run.
LEMMA StutterStep ==
    ASSUME KeepsRuns, notes' = notes
    PROVE  UNCHANGED Lifecycle!lifecycleVars
<1>1. statuses' = statuses
  BY DEF KeepsRuns, statuses
<1>2. QED
  BY <1>1 DEF Lifecycle!lifecycleVars, statuses

\* Every step maps to a step of RunLifecycle or to a stutter.
LEMMA StepLifecycle ==
    ASSUME IInv, [Next]_vars
    PROVE  [Lifecycle!Next]_(Lifecycle!lifecycleVars)
<1> USE DEF IInv
<1>0. ASSUME run' = run, notes' = notes PROVE UNCHANGED Lifecycle!lifecycleVars
  BY <1>0, StutterStep DEF KeepsRuns
<1>1. ASSUME NEW t \in Tasks, CreateTask(t) PROVE UNCHANGED Lifecycle!lifecycleVars
  BY <1>0, <1>1 DEF CreateTask
<1>2. ASSUME NEW t \in Tasks, DeleteTask(t) PROVE Lifecycle!Next
  <2>1. PICK D \in SUBSET Runs : D = {r \in Runs : run[r].task = t /\ Exists(r)}
    OBVIOUS
  <2>2. \A r \in D : statuses[r] \in {"running"} \cup Lifecycle!Outcome
    BY <2>1 DEF Exists, statuses, Lifecycle!Outcome, Terminal
  <2>3. statuses' = [r \in Runs |-> IF r \in D THEN "deleted" ELSE statuses[r]]
    BY <1>2, <2>1 DEF DeleteTask, RunsAfterDelete, BlankRun, statuses
  <2>4. notes' = [r \in Runs |-> IF r \in D THEN Lifecycle!None ELSE notes[r]]
    <3>1. NoNotes = Lifecycle!None
      BY DEF NoNotes, Lifecycle!None, Lifecycle!Outcome, Terminal
    <3>2. \A r \in Runs : ~Exists(r) => notes[r] = NoNotes
      BY DEF RowsInv, Exists, Terminal
    <3>3. QED
      BY <1>2, <2>1, <3>1, <3>2 DEF DeleteTask, NotesAfterDelete
  <2>5. Lifecycle!Delete(D)
    BY <2>2, <2>3, <2>4 DEF Lifecycle!Delete, statuses
  <2>6. QED
    BY <2>5 DEF Lifecycle!Next
<1>3. ASSUME NEW u \in Editors, EditCommit(u) \/ EditFails(u)
      PROVE  UNCHANGED Lifecycle!lifecycleVars
  BY <1>0, <1>3 DEF EditCommit, EditFails, tableVars
<1>4. ASSUME NEW u \in Editors, NEW t \in Tasks, EditRead(u, t)
      PROVE  UNCHANGED Lifecycle!lifecycleVars
  BY <1>0, <1>4 DEF EditRead, tableVars
<1>5. ASSUME NEW r \in Runs, DeleteConversation(r) PROVE UNCHANGED Lifecycle!lifecycleVars
  <2>1. KeepsRuns
    BY <1>5 DEF DeleteConversation, TypeOK, RunRow, KeepsRuns
  <2>2. QED
    BY <1>5, <2>1, StutterStep DEF DeleteConversation
<1>6. ASSUME NEW e \in Executors, NEW t \in Tasks, NEW due \in Time, Open(e, t, due)
      PROVE  Lifecycle!Next
  <2>1. PICK r \in Runs :
          /\ run[r].status = "absent"
          /\ run'[r].status = "running"
          /\ \A q \in Runs : q # r => run'[q] = run[q]
    BY <1>6, OpenShape
  <2>2. statuses[r] = "absent" /\ statuses' = [statuses EXCEPT ![r] = "running"]
    BY <2>1 DEF statuses
  <2>3. notes' = notes
    BY <1>6, OpenShape
  <2>4. Lifecycle!Start(r)
    BY <2>2, <2>3 DEF Lifecycle!Start, statuses
  <2>5. QED
    BY <2>4 DEF Lifecycle!Next
<1>7. ASSUME NEW m \in Requests, NEW t \in Tasks, TriggerManually(m, t) PROVE Lifecycle!Next
  BY <1>6, <1>7 DEF TriggerManually, Executors, Time
<1>8. ASSUME NEW s \in Schedulers, LoopStep(s)
      PROVE  Lifecycle!Next \/ UNCHANGED Lifecycle!lifecycleVars
  <2>1. CASE Poll(s)
    BY <1>0, <2>1 DEF Poll, tableVars
  <2>2. ASSUME NEW d \in queue[s], SkipDeleted(s, d) PROVE UNCHANGED Lifecycle!lifecycleVars
    BY <1>0, <2>2 DEF SkipDeleted, tableVars
  <2>3. ASSUME NEW d \in queue[s], Dispatch(s, d) PROVE Lifecycle!Next
    <3>1. s \in Executors /\ d.task \in Tasks /\ d.at \in Time
      BY DEF Executors, TypeOK, Due, Time
    <3>2. QED
      BY <1>6, <2>3, <3>1 DEF Dispatch
  <2>4. QED
    BY <1>8, <2>1, <2>2, <2>3 DEF LoopStep
<1>9. ASSUME NEW e \in Executors, ExecuteStep(e)
      PROVE  Lifecycle!Next \/ UNCHANGED Lifecycle!lifecycleVars
  <2> DEFINE r == exec[e].run
  <2>0. exec[e].phase # "idle" => r \in Runs
    BY DEF TypeOK
  <2>1. CASE Settle(e)
    <3>1. /\ exec[e].phase \in {"finishing", "failing"}
          /\ notes' = notes
          /\ run[r].status \in {"running"} \cup Terminal
          /\ run'[r].status \in Terminal
          /\ \A q \in Runs : q # r => run'[q].status = run[q].status
      BY <2>1, SettleShape
    <3>2. run[r].status = "running"
      BY <3>1 DEF RunOwnership, Terminal
    <3>3. PICK q \in Runs : q = r
      BY <2>0, <3>1
    <3>4. PICK s \in Terminal : s = run'[q].status
      BY <2>1, <3>3, SettleShape, <3>1
    <3>5. statuses[q] = "running" /\ statuses' = [statuses EXCEPT ![q] = s]
      BY <3>1, <3>2, <3>3, <3>4 DEF statuses
    <3>6. Lifecycle!Finish(q, s)
      BY <3>1, <3>5 DEF Lifecycle!Finish, statuses
    <3>7. QED
      BY <3>6 DEF Lifecycle!Next, Lifecycle!Outcome, Terminal
  <2>2. CASE NotifyInsert(e)
    <3> DEFINE s == exec[e].status
    <3>1. exec[e].phase = "inserting" /\ KeepsRuns
      BY <2>2, NotifyInsertShape
    <3>2. CASE notes' = notes
      BY <3>1, <3>2, StutterStep
    <3>3. CASE /\ run[r].status \in {"running"} \cup Terminal
               /\ notes' = [notes EXCEPT ![r] = OneMore(notes[r], s)]
      <4>1. s \in Terminal /\ run[r].status = s /\ notes[r] = NoNotes
        BY <3>1, <3>3 DEF CallInv, Exists, Terminal
      <4>2. OneMore(NoNotes, s) = [NoNotes EXCEPT ![s] = 1]
        <5>1. NoNotes[s] + 1 = 1
          BY <4>1, NotesFacts
        <5>2. QED
          BY <5>1 DEF OneMore
      <4>3. notes' = [notes EXCEPT ![r] = [NoNotes EXCEPT ![s] = 1]]
        BY <3>3, <4>1, <4>2
      <4>4. PICK q \in Runs : q = r
        BY <2>0, <3>1
      <4>5. statuses[q] = s /\ statuses' = statuses
        BY <3>1, <4>1, <4>4 DEF statuses, KeepsRuns
      <4>6. NoNotes = Lifecycle!None
        BY DEF NoNotes, Lifecycle!None, Lifecycle!Outcome, Terminal
      <4>7. notes' = [notes EXCEPT ![q][statuses[q]] = 1]
        BY <4>1, <4>3, <4>4, <4>5
      <4>8. Lifecycle!Announce(q)
        BY <4>1, <4>4, <4>5, <4>6, <4>7
           DEF Lifecycle!Announce, Lifecycle!Outcome, Terminal, statuses
      <4>9. QED
        BY <4>8 DEF Lifecycle!Next
    <3>4. QED
      BY <2>2, <3>2, <3>3, NotifyInsertShape
  <2>3. CASE Claim(e)
    BY <2>3, ClaimShape, StutterStep DEF KeepsTables
  <2>4. CASE ClaimFails(e) \/ SavePrompt(e) \/ SettleRead(e) \/ SettleFails(e) \/ NotifyRead(e)
    BY <1>0, <2>4 DEF ClaimFails, SavePrompt, SettleRead, SettleFails, NotifyRead, tableVars
  <2>5. CASE AgentReturns(e) \/ AgentRaises(e)
    BY <2>5, AgentShape, StutterStep DEF KeepsTables
  <2>6. QED
    BY <1>9, <2>1, <2>2, <2>3, <2>4, <2>5 DEF ExecuteStep
<1>10. CASE Tick
  BY <1>0, <1>10 DEF Tick, tableVars
<1>11. CASE Crash
  BY <1>0, <1>11 DEF Crash, tableVars
<1>12. CASE UNCHANGED vars
  BY <1>0, <1>12 DEF vars
<1>13. QED
  BY <1>1, <1>2, <1>3, <1>4, <1>5, <1>7, <1>8, <1>9, <1>10, <1>11, <1>12 DEF Next

\* The executor, the scheduler, deletions and restarts together implement the
\* life cycle a reader of the run history relies on.
THEOREM LifecycleImplemented == Spec => ImplementsLifecycle
<1>1. Init => Lifecycle!Init
  BY InitLifecycle
<1>2. IInv /\ [Next]_vars => [Lifecycle!Next]_(Lifecycle!lifecycleVars)
  BY StepLifecycle
<1>3. QED
  BY <1>1, <1>2, InvariantHolds, PTL DEF Spec, ImplementsLifecycle, Lifecycle!Spec
=============================================================================
