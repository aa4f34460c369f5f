# A verification project for ops-skills-agent-demo

The repository is an operations assistant: a FastAPI server (`src/backend`) that
runs LLM agents for interactive chats and for scheduled inspection tasks, stores
everything in one SQLite database, and a Vue client (`src/frontend`). This
directory holds TLA+ models of the parts whose correctness depends on the order
in which things happen, the TLC configurations that check them, and proofs that
the TLA+ proof system checks. `PROJECT.json` maps every definition to the lines
it models, lists the runs, the mutants that show each property can fail, the
hazards and the theorems.

All paths below are relative to `src/` unless they name a file of this directory.

## 1. Inventory

Everything on the server runs on one asyncio event loop in one process over one
SQLite database (WAL, foreign keys on, `expire_on_commit=False`). There are no
threads of the program's own: two activities interleave exactly where one of them
awaits - a query, a commit, the agent, a sleep, a lock.

| Component | State it keeps | Operations | Hard behaviour | What makes it correct |
|---|---|---|---|---|
| Scheduled inspection tasks (`backend/services/inspection_tasks.py`) | rows of `inspection_tasks` and `inspection_task_runs`; one conversation per run | create, update, delete, execute, due query | a run spans five database sessions and an agent that works for minutes; manual and scheduled runs of one task overlap; edits and deletions come in between | a run belongs to one call; the outcome is recorded once and truthfully; an enabled task stays scheduled; a slot is served once |
| Scheduler loop (`backend/services/inspection_scheduler.py`) | the due list it is working through | poll, dispatch one id after the other, stop | stale due list, failing ids, the server stopping inside a run | due tasks are served whatever the other ids do |
| Cron expressions (`next_cron_run_at` in `inspection_tasks.py`) | none | parse, next match | ranges, steps, day-of-month against day-of-week, no match within 366 days | the result is the first later minute that matches |
| Task notifications (`backend/services/task_notifications.py`) | rows of `task_notifications` | create for a run, list, mark read, mark all read, unread count | creation races deletion; counts are read after the commit and sent later | at most one notification per run, with its outcome; the count a client shows becomes the true one |
| Realtime events (`backend/services/realtime_events.py`) | the set of sockets | register, unregister, broadcast | sends to a snapshot of the set | an online client is told |
| Run stream (`backend/api/routers/inspection_tasks.py`, SSE) | the ids it has sent | open, poll, send, end | three reads per poll while the run saves and settles | nothing lost, nothing twice, ends with the true outcome |
| Chat session (`backend/api/ws/chat.py`) | per socket: bound conversation, agent task, event state, delta buffer, flush task, abort flag, image message | message, abort, init, clear, disconnect; on_event for each agent event | the receive loop, the turns (also the replaced ones) and the flush task share these variables | the stored answer is what the turn produced; an abort stops it; text the client saw is stored |
| Agent turn (`backend/agent.py`, `message_preprocess.py`, OCR) | FIFO of tool inputs per tool | run turn, stream events | errors become events; parallel calls of one tool | one end event per turn; a result is matched to its call |
| Event state (`agent_event_state.py`, `agent_event_identity.py`) | text, thinking, open tool calls | apply event, snapshot | as above | as above |
| Runtime manager (`backend/agent_manager.py`) | checkpointer, store, cached runtimes | init, get_runtime, invalidate, close | double-checked lock; invalidation and close take no lock | no runtime older than the last configuration is handed out |
| Agent registry (`agent_profiles.py`, `agents/loader.py`) | cached snapshot or cached error | load, reload, resolve | the error is cached for ever | supervisors and subagents form a valid tree |
| MCP registry (`services/mcp_registry.py`, `routers/mcp.py`) | the configuration file; test results in memory | save, test, load tools | a slow test writes its result on a newer configuration; names and aliases of agents | what was accepted is what is loaded; no agent keeps tools of an older configuration |
| Attachments (`services/conversation_attachments.py`) | files and rows | upload, delete, snapshot | check-then-act on the limit; file and row are two steps | rows and files agree |
| Memory and RAG (`services/memory.py`, `services/rag.py`) | documents, chunks, index | write, sync, delete, reindex, search | overlapping syncs of one document; embedding and index fail or the process dies between the steps | the index shows the latest content |
| Cloud instances (`services/cloud_credentials.py`, `cloud_instance_candidates.py`) | the credential registry | save, resolve a message to an instance and a credential | precedence of four sources of a credential, ties, malformed documents | the best instance, or none |
| Skill store CLI (`cli/skills_store_cli.py`, `skills_upgrade.py`) | skill directories, the lock file, its own files | install, upgrade, self-upgrade at each start | killed between any two writes; versions of index, package and lock file differ | an interrupted upgrade is found and repeated |
| Health analyzer (`skills/volcengine-rds-health-analyzer`) | none | statistics, spikes, pressure, score, correlation | window edges, missing points, merged nodes, thresholds | verdicts follow the load and do not contradict each other |
| Conversations and messages (`services/conversation_state.py`, `conversation_messages.py`) | rows of `conversations` and `messages` | create, delete, clear, save, update | writers outlive the conversation | a message belongs to a conversation that exists |
| Authentication (`backend/auth`) | users, roles | check a token, check a permission | none: stateless | table lookup |
| Lifecycle (`main.py`, `db/session.py`) | none | start, stop | order of shutdown | see Crash in InspectionTasks |
| Frontend stores (`frontend/src/stores/chat`) | lists, counters, the open conversation | fetch, switch, stream, read, events | answers and events out of order | what is shown belongs to what is open |

How they interact: the scheduler loop and the trigger route call
`execute_inspection_task`, which calls the agent, saves messages and, at the end,
creates a notification and broadcasts it over the sockets that the chat handler
registered. The run stream reads what a run writes. The chat handler and the
executor drive the same agent turn, each with an `on_event` callback of its own.
Deletions come from REST handlers at any moment and reach the other tables through
the cascades of the foreign keys.

`PROJECT.json` lists all components with their status, and 40 hazards at their lines.

## 2. Plan

The order puts the state that outlives a request first.

| # | Modules | What | Status |
|---|---|---|---|
| 1 | `InspectionTasks`, `RunLifecycle`, `InspectionTasks_proofs` | tasks, runs, the scheduler, notifications of runs; the abstract life of a run; proofs | done |
| 2 | `ChatSession`, `ChatSession_proofs` | one socket with its turns, abort, deltas, stored rows; proofs | done |
| 3 | `RunStream`, `RunStream_proofs` | the SSE stream over `RunLifecycle` | done |
| 4 | `TaskNotifications` | unread count, read, read-all, broadcast and the frontend store; proofs in `Services_proofs` | done |
| 5 | `AgentRuntimes`, `FreshReads`, `AgentRuntimes_proofs` | init / get / invalidate / close over their locks, with saving and testing MCP servers; the abstract promise of a configuration cache | done |
| 6 | `Attachments`, `RagIndex`, `Documents_proofs` | rows against files; documents against overlapping syncs, deletions and reindexing | done |
| 7 | `SkillStore`, `ToolEvents`, `SkillStore_proofs`, `Services_proofs` | the CLI's files under failure and kills; tool results against their inputs; the services put together | done |
| 8 | `AgentProfiles`, `McpServers`, `CloudInstances`, `HealthSignals`, `StableSort`, `Algorithms_proofs` | pure algorithms, checked over bounded inputs and proved for all | done |
| 9 | proofs for 3 to 8 and of the composition of 4 to 7 | see section 6 | done |
| 10 | `ChatStore`, `Cron` | the frontend conversation store: switching while fetches, streams and turns are in flight; the calendar behind an expression | later |

Composition: `RunLifecycle` is the interface between 1 and 3 - InspectionTasks
implements it, RunStream takes its actions as environment. TaskNotifications starts
where InspectionTasks ends: with the row of a settled run. McpServers extends
AgentProfiles, whose resolution of agent ids it uses. The services of 4 to 7 share no
state with each other; `MC_Services` puts them beside each other without letting two
of them move in one behaviour, which loses nothing and keeps the state space a sum
instead of a product.

Abstract specifications: the life of a run (`RunLifecycle`); a cache that never serves a
value older than the last acknowledged change (`FreshReads`, implemented by
AgentRuntimes).

Every safety property that a passing run checks is proved, see section 6; what is left is
`ChatStore` and `Cron`, with their theorems. The modules are written for proofs: constants
with named assumptions, one action per operation, no RECURSIVE operator.

## 3. The modules

### InspectionTasks

A step is the code between two awaits that can let another coroutine commit: one
read of rows, or one commit. A call of `execute_inspection_task` is a record in
`exec[e]` whose `phase` says where it is suspended:

    Open            read the task, insert the run row           commit inside create_conversation
    Claim           last_status, next_run_at, conversation id   second commit
    SavePrompt      the user message
    AgentReturns / AgentRaises
    SettleRead      load run and task again                     phase finishing or failing
    Settle          status, last_status, next_run_at            commit
    NotifyRead      load run and task for the notification
    NotifyInsert    insert the notification, broadcast

`ClaimFails` and `SettleFails` are the exceptions of these sessions (the row is gone,
or the cron expression has no match). `Poll`, `Dispatch` and `SkipDeleted` are the
loop; `TriggerManually` is the route; `EditRead` and `EditCommit` are the two ends of
a PATCH; `Crash` ends every call and leaves the tables.

Two points carry most of the interesting behaviour. SQLAlchemy writes only the
columns whose assigned value differs from the loaded one, so overlapping sessions
merge column by column: operator `Flush`. And the run row becomes durable earlier
than the code suggests, because `create_conversation` commits the session.

Left out: names, prompts, report references; database errors such as a locked
database; agents (their registry is fixed, so a task whose agent id is gone, which
raises at every poll before anything is stored, does not appear). Time is in minutes;
an expression is the set of minutes it matches.

### RunLifecycle

The abstract specification of a run for whoever reads the history: it starts once,
settles at most once, is announced at most once and with its outcome, and does not
come back after a deletion.

### ChatSession

One connection. The variables are the handler's: `conv` (current_conv_id),
`agentTask`, `aborted` (abort_event), `text` (event_state), `buffer` (delta_buffer),
`timer` (flush_task), `image` (current_turn_image_message_id), and `handler`, which
says whether the receive loop waits for a message, is about to start a turn or is in
`do_abort`. `turn[t]` is the agent task of message `t`; it stays after `agent_task` was
replaced, because nothing cancels it. Sends do not yield; reads and commits do, so a
row is "about to be stored" (`turn[t].row`, `draft`) between the send and the commit.

Text is a sequence of chunks, each named by the turn that produced it: that is enough
to tell whole, partial and mixed answers apart. A tool call and a tool result are `Step`:
sent, then stored. A browser tool with a screenshot is `Screenshot`: the image row is
stored first, and `SaveRow` then sends its payload - without another look at `abort_event`,
as the code does - and goes on to the row of the tool result. What OCR read is `OcrResult`:
of the OCR agent it is stored and sent like a screenshot, or, when OCR is not available,
stored and not sent; of the OCR stage before the turn it is not followed by a tool result,
and no handler of `run_agent` turns its failure into an error event (`Preprocessing`). `Notice`
is what is sent and not stored before the agent starts. `Fail` is the exception inside
`run_agent`, `BuildTurn` may fail before it. `CancelCommit` is a cancelled commit that the
database thread finishes nevertheless.

`timer` has three values, because a flush task that was cancelled is not `done()` before
the event loop comes to it (`FlushTaskEnds`), and `Delta` arms a new one only when there is
none. A coroutine that awaits the database lets it end, hence the guard of `SaveRow` and
`StartTurn`. `late[t]` (history) counts what turn t sent, payloads included, since
`abort_event` was set.

Left out: attachments, thinking text (`thinking_delta` is sent at once and neither flushes
nor leaves a row of its own), titles, agent ids, wording.

### RunStream

The generator's program counter (`phase`), the run's status as it was read (`loaded`),
the messages it has read and not yet come to (`batch`), those already sent. `New` is the
test against the ids already sent, `Due` picks the message the loop over the batch sends
next, `BatchIsSent` ends the loop. Its environment are the actions of
`RunLifecycle` plus the saving, clearing and deletion of messages. `worked[r]` says
whether a call works on run r: a run that a crash left running is not worked on.

### AgentRuntimes and FreshReads

The variables are those of `AgentManager`: `stack` (the connections with the model and the
two stores), `initLock` and `lock` (each a queue: its holder, then the waiters, as
asyncio.Lock serves them), `runtimes`; and of the MCP routes: `file` and `tested`. A
coroutine is `caller[c]`, its `pc` the place where it waits. `GetRuntime` runs without
yielding as far as the code does: through `init` when the connections are open, into the
cache (`Lookup`), and, when the lock is free, up to the first MCP server (`Enter`). Both
take the connections as a parameter, because a coroutine that has just opened them goes on
into the cache in the same step and builds on the new ones.
`Built` stores the runtime with whatever servers answered and on the connections of that
moment; `BuildFails` covers a missing prompt, a model that close() took away, and
cancellation. `SaveConfig` and a passed test (`Tested`) invalidate under the lock, at once
or from the queue (`Clear`). `StartClose` and `FinishClose` are the two ends of close(), which
takes no lock. `epochNow` and `answered` are history: how often the configuration changed,
and the latest change whose request was answered. `FreshReads` says what a user of the
settings page relies on in these terms, and the refinement maps a coroutine that asks
for a runtime to a read.

### TaskNotifications

`rows` and `readRows` are the table; `publisher[n]` announces notification n, `registered` is
the realtime manager's set, `socket[k]` the connection of page k with the events on their
way, `page[k]` what the page shows, `request[k]` its REST request. `Insert` commits the row,
`CountAndSnapshot` counts in a query of its own and copies the set, `Send` and
`FinishBroadcast` are the loop over the copy and the dropping of dead sockets. `FetchRows`
and `FetchCount` are the two queries behind a list. A page loads once, and a socket that
reconnects loads nothing again, as in the store. `DeleteNote` is the deletion of a task
that a page asks for: the rows of its notifications go with it (the foreign key
cascades), no event is sent and no page loads its notifications again. A publisher whose
row is gone at the refresh ends without a broadcast (`RefreshFails`; the executor logs it), and a
read whose row is gone at the refresh is answered by an error (`ReadFails`). `Listed` is the store's list after an
event: the notification in front, and the rest without its `Place`, as an id is in a list
once at most (which the proofs show). `disturbed` (history) collects the pages
for which the code promises nothing, see section 5.

### Attachments

`attached` are the rows, `files` and `dirs` the disk, `ocr` the conversations with saved OCR
results in their directory; `job[j]` is a request. Disk operations do not yield, so
`CountAndWrite` counts and writes in one step, and `Unlink` removes the file and the empty
directory in one; the commits are steps of their own and may fail. The deletion of a
conversation works through the list it took at its start (`DeleteListed`, `CommitListed`)
and ends at the first attachment that is already gone. `KillProcess` may come between any
two steps.

### RagIndex

A document is its version and its length in chunks. `stored` is the store (memory
documents, or the rows of text attachments), `index[s][i]` the version chunk i of source s is
of. A sync is `ReadBack`, `Embed`, `Empty`, `Fill`; a deletion `Erase`; a reindex reads every
document first (`LoadNext`) and then indexes what it has read (`IndexNext`). Each step ends
where the code awaits, each call of the embedding service or of the index may fail, the
process may die. Two writers are no operations of the index at all: the agents, whose file
tools write and edit /memories/ through `StoreBackend` (`AgentWrite`), and the deletion of a
conversation, with which the rows of attachments uploaded since they were listed go
(`DropRow`). `raced` and `unsure` (history) record which operations on one source overlapped,
and which sources were changed behind the index.

### SkillStore

The files of the CLI's own directory (`cliHome`, 0 for a torn one), the skill directories,
the lock file, and one process `cli`. A write is two steps, truncation and content, as
`copyfile` and `write_text` do it; `AbandonCli` stops the process between any two. The
self-upgrade copies in `CopyOrder`. Versions are numbers; how a version text is compared,
checksums and archives are abstracted into "the package is good" or not.

### ToolEvents

The queue of tool inputs of `run_agent` and the one that `AgentEventState` keeps beside it,
both by tool name. `CallTool`, `ToolEnds` and `ToolFails` are the framework's three events;
the last is not handled by the code.

### The algorithms

`AgentProfiles`: what a registry is (`IsRegistry`: `_read_string` lets no empty id or alias
pass), which ones the loader accepts (`Loads`), how ids, memory roots and
event agents are resolved, and the tree `_build_subagents` unfolds. `McpServers`: how an
entry (`Entries`) is parsed, written back, and handed to agents. `CloudInstances`: the answer to a
message about an instance. `HealthSignals`: distribution, trend, spikes, pressure,
saturation, score, window status and correlation of metrics; values are integers and both
sides of a comparison are multiplied instead of divided, so the rounding to four digits is
left out. `StableSort` is Python's `sorted` and its comprehensions with an `if`, as positions:
`Arranged` puts a position after those that come before it, `ByKey` keeps the order of equal
keys, `Taken` are the elements at some positions. All recursion is in recursive functions
and folds.

## 4. Runs

| Run | Configuration | Question | Size |
|---|---|---|---|
| tasks_overlap | `Tasks_overlap.cfg` | a scheduled and a manual run of one task overlap, an expression runs out of matches, deletions at every await, one crash: types, ownership, notifications, last_status, refinement of RunLifecycle | 1.5 M states |
| tasks_edits | `Tasks_edits.cfg` | a PATCH suspended between read and commit: the inductive invariant, and an enabled task stays scheduled | 1.7 M states |
| tasks_slots | `Tasks_slots.cfg` | three runs of a task over two minutes: when is a slot run twice | 1.4 M states |
| tasks_live | `Tasks_live.cfg` | two tasks, one loop, fairness: due tasks are served, outcomes announced | 0.15 M states |
| tasks_failure | `Tasks_failure.cfg` | finding: a failed agent run is recorded as succeeded | violation |
| tasks_silent | `Tasks_silent.cfg` | finding: a run stays running with nobody working on it | violation |
| chat_session | `Chat_session.cfg` | two turns, three agent events, one abort, one init/clear/delete, a disconnect: all safety properties | 8.1 M states |
| chat_turn_ends | `Chat_turn_ends.cfg` | every started turn ends | 0.41 M states |
| chat_online | `Chat_online.cfg` | finding: an open connection that is no longer registered | violation |
| stream_run | `Stream_run.cfg` | a stream against saves, settlement, clearing and deletion | 0.98 M states |
| services | `Services.cfg` | the runtime cache, notifications, attachments, the vector index, the CLI, tool results: one of them per behaviour | 4.1 M states |
| algorithms | `Algorithms.cfg` | registries, MCP entries, credentials, health verdicts, spikes: one case per behaviour | 0.11 M states |

Bounds, and why they are enough to meet the cases. Tasks: two executors (one loop, one
request) are what it takes for two sessions to overlap on one row, two runs for one to
settle under the other, three (tasks_slots) for a slot to be run a second time after a
manual run moved it back; the clock runs over at least one full period of the
expressions used, and "leap" has a match and then none within the horizon. Chat: two
turns are needed for one to replace the other, three events for a screenshot followed
by text that is aborted, or for text of both turns around a step. The second
conversation is what an init can bind the connection to; a second
abort adds only a second copy, which `SecondCopyNeedsAbort` counts against the number of
aborts. Stream: three messages are
one in the history, one in a poll and one after the outcome was read. Services: three callers are
needed for one to build, one to wait behind it and one to invalidate; three configurations
for a test that began before a change and ends after it; one close with a reopening. Two
notifications with a list of one row make the list be cut; two pages, one of which reads or
goes, with the budgets of `MCBudgets` (one page that loads and reads while the other loads,
and two that are only connected). Two requests on one conversation with three attachments
and a limit of two overlap every pair of upload, deletion and conversation deletion, with
one death in between. Two operations with two versions of up to two chunks on two sources
are what it takes for a longer document to leave a tail, or for a reindex to overlap with
a write. One release after the first of CLI and skills makes every version newer, equal or
older than another. Four tool calls of two tools make both queues hold two. Algorithms:
three agents give every tree of subagents up to a cycle of three; all combinations of the
fields of an MCP entry with two agent ids; three instance records for a tie beside a
worse one; samples of twenty points in which median, 95th percentile and maximum lie on
either side of each threshold; series of up to six points and windows of three and five,
so that windows have edges and series are shorter than a window. Symmetry is used
for run and conversation ids (uuids, only compared) and for the turns of chat_session (their
identity is only compared, and no constant names one), and only in runs without liveness
properties.

`CHECK_DEADLOCK FALSE` where ids, the clock or the counters of the model run out, or the
connection is closed.

Every property has a mutant in `PROJECT.json`: a plausible bug in a mapped definition
(written next to it as "Mutated form") under which TLC finds the property violated.

### Fairness

One event loop runs every ready coroutine, so a suspended call, turn, generator or
loop is resumed: weak fairness of `ExecuteStep(e)`, `LoopStep(s)`, `TurnStep(t)`, the receive
loop's own steps, the flush timer and `StreamStep`. The agent behind a call is assumed to
return or raise in the end (the code sets no timeout on it). The services of run `services` are checked
for safety only, without fairness: what they wait for (an embedding service, an MCP server
without a timeout, a browser) may never answer. Nothing the user does is
fair: no message, abort, edit, trigger or deletion is ever required, and neither is the
clock.

## 5. What the runs show

Held:

- However runs, edits and deletions of a task interleave, a run row is worked on by one
  call only, a notification shows the status its run has, a task shown as running has
  a running run, and (with one PATCH at a time) an enabled task has a next run.
- A slot is run twice only if a manual run that began before it settled after it: on
  success the settlement recomputes next_run_at from its own start.
- The answer stored for a turn is exactly its text, and the client was sent all of it,
  unless two turns of the connection ran at once; rows go to the conversation the turn
  was started for unless the client bound the connection elsewhere; an abort silences
  the replaced turns as well, which it does not cancel, but for the one screenshot or OCR
  text such a turn was storing when the abort came.
- A finished stream has sent all messages of its run, once and in order, because each
  poll reads the run before its messages.

- Who asks for a runtime after a saved configuration was answered never gets an older
  one, an agent is built once between two invalidations, and nobody waits for a lock
  that is not going to be released, also when the connections fail to open.
- A page that nothing overlapped with, and since whose loading no task was deleted, shows
  the rows, which are read, and the count; a dead socket of one page does not keep another from being told.
- Deleting one attachment never takes the file of another, and an upload either has both
  row and file or neither.
- The index holds exactly the chunks of the current document, no tail of a longer one
  and nothing of a deleted one, however operations on other documents go; a document an
  agent wrote since is not meant, see below.
- The skill store CLI, killed anywhere, leaves itself a script or its backup, finds an
  unfinished self-upgrade at its next start, and records no version a skill does not have.
- A tool result is shown with an input of its own tool and no input is shown twice.
- An accepted agent registry gives finite trees of subagents and disjoint memories; an
  accepted MCP configuration reads back as itself; an instance is chosen only when it is
  the single best one, in whatever order the documents come; a sample that is nowhere
  below another has no better score; a spike is found at any place of the series and
  belongs to its node.

Exceptions the new properties name, each of them behaviour of the code:

- `disturbed` pages: while a list, an event or an answer was on its way the rows changed;
  another page read notifications, or anybody deleted a task (nobody tells the pages, not
  even the one that asked for it); an event did not reach the page; or its list was cut.
  They may show a wrong list or badge until they load again, which only a reload of the
  page does.
- `excused` attachments: a commit failed after the disk was changed, the process died, or
  the upload overlapped with the deletion of its conversation. The limit of attachments
  can be exceeded by concurrent uploads; the directory with OCR results survives its
  conversation.
- `unsure` sources: two operations on one document overlapped, one failed, or the document
  became blank, which leaves its old chunks in the index; an agent wrote or edited the
  memory document, after which nothing syncs it; or the row of an attachment went with its
  conversation without a deletion from the index. A later operation that reads the
  source, and does not overlap or fail, makes up for it.
- After an abort (`LastWord`): a replaced turn that is storing a screenshot or what OCR read has
  passed the test of `abort_event`, and sends it when the row is committed.
- Buffered text may wait for the next tool call when another turn ran at the same time, or
  another turn's row could not be stored: such a turn can cancel the flush task just before
  a delta that relies on it.
- `downgraded` skills: installed from a package older than an entry of theirs, or recorded
  with the version of the first search result, which may be another skill's. A skill whose
  download failed stays empty, and later upgrades skip it; a cut while `skills_upgrade.py`
  is copied leaves a CLI that cannot start.
- `torn`: a runtime that was being built while close() ran is cached on closed connections.
- `mixed` tools: calls of one tool overlapped, or one failed; then inputs may be swapped.
- One malformed credential cell in any document answers every request with an error.
- A test of an MCP server that outlives a change of the configuration writes its result
  onto the new one (in the model, without a property: nothing promises the contrary).

Limits the older properties state, and that a reader should know: two messages in a row
without waiting for "done" give two turns that mix their text in one event state; an init
or a task replay during a turn moves its remaining rows to the other conversation; an
abort that comes after the answer was stored stores it a second time as interrupted; a
disconnect cancels the turn without storing the text that was streamed. With two PATCH
requests suspended at the same time an enabled task can end without a next run
(each writes only the columns in which it differs from what it had loaded, so one may
write `enabled` and the other next_run_at): `EnabledTaskIsScheduled` is therefore checked
and proved with one editor.
A run that was in progress when the server stopped stays "running" for ever, and so
does every stream opened on it: nothing at start-up looks for it.

Findings (three runs that are expected to be violated):

- `FailureIsRecorded` - `run_agent` turns its exceptions into "error" events and returns, the
  executor's callback ignores them, and the run is settled as succeeded.
- `NoSilentFailure` - the run row is committed by `create_conversation`; an expression without
  a next match then raises outside the try block, and the run stays running, at
  every poll a new one.
- `OnlineIsRegistered` - `do_abort` unregisters the socket from the realtime manager and the
  connection goes on without it.

## 6. What is proved

`InspectionTasks_proofs` proves, for any number of tasks, runs, loops, requests and
editors and any expressions (assumption `ConstantsAssumption`):

- `TypeCorrect`: `Spec => []TypeOK`.
- `InvariantHolds`: `Spec => []IInv`.
- `OwnershipHolds`, `NotificationsHold`, `RunningTaskHolds`: the three safety properties.
- `EnabledHolds`: `EnabledTaskIsScheduled`, assuming at most one editor.
- `SlotsServedOnce`: `SlotServedOnce`, assuming one loop and no edits. Both assumptions are
  needed: two loops poll the same slot, and a PATCH that read the row before a slot and
  commits another expression after it moves next_run_at back as a manual run does. One
  process runs one loop; edits are what the theorem does not cover.
- `LifecycleImplemented`: the refinement of `RunLifecycle`.

The argument. None of the three properties is inductive. `NotificationsMatchRuns` needs to
know that the call about to insert has read the outcome the run still has, and that
no notification exists yet (`CallInv`), and that a run whose task is gone has none
(`RowsInv`); these need `RunOwnership`, since a second call on the run could settle it in
between. `RunningTaskHasRun` needs `LastStatusInv`: some running run *vouches* for the
status, that is, it is running and a call about to settle it loaded "running", so that
its commit, which skips columns that did not change, will overwrite it. `IInv` is the
conjunction; the run tasks_edits checks it before the proof relies on it.
`EnabledHolds` adds `OneEditInv`: while the only PATCH is suspended, nobody else changes `enabled`
or clears next_run_at.
`SlotsServedOnce` adds `SlotInv`: a slot that was claimed is past - next_run_at is later, or a
manual run began before the slot and settled after it (`PastInv`); what the loop has read
and not yet dispatched was not served, or was so moved back (`QueueInv`); and between the
insertion of a run and its claim nothing but such a move changes next_run_at, so that the
claim, which skips a column that did not change, cannot leave an old slot (`ClaimInv`).

The proofs first state, per action, what it does to the tables pointwise (the "Shape"
lemmas), and then prove the invariants from these facts, one step per action.

`ChatSession_proofs` proves, for any conversations, turns and bounds (assumption
`ChatAssumption`):

- `TypeCorrect`: `Spec => []TypeOK`; in particular every row that `save_message` and
  `update_message` leave is in a conversation, and no caption is stored as a row of its
  own. The type invariant is inductive: the rows about to be stored (`turn[t].row`,
  `draft`) are well-formed rows, and `CanStore` lets only those with a conversation or
  an image pass.
- `BufferIsArmed`: text in the delta buffer has a flush task coming, unless another turn ran
  at the same time as the one whose text it is, or ended in an error. A flush empties the
  buffer and a new turn inherits the task but not the buffer; what needs an invariant is a
  delta that finds the task cancelled and not done. `ArmedInv`: while the task is in that
  state, every turn that could produce text is excused. The turn that cancelled it stores a
  row next and is done only when the task is, has told an error, or had nothing to flush of
  its own, so that the text was of a turn it ran beside.
- `AbortIsSilent`: between an abort and the next message no turn produces text, ends or sends
  anything (`Quiet`), but for one payload of a turn that was storing it (`LastWord`). The
  steps that send (`Emits`, `Fail`, the error event of `SaveFails`) are behind the test in
  `on_event`, except for the payload that `SaveRow` sends. That there is only one is
  `LateInv`: rows with a payload are only made while nothing is aborted, and until then
  nothing is counted; so a turn that has sent something since the abort waits with no
  payload any more, and has sent one.

- `RowsGoHome`: `MessagesGoHome`. Inductive with `HomeInv`: a turn that was not moved is at
  home in the bound conversation (`BoundHome`); a row is followed from the event that makes
  it, as the turn's row or the draft, to the table (`WaitingHome`, `DraftHome`,
  `StoredHome`); a turn nobody joined has the event state to itself (`AloneInv`); and,
  because a caption is written into the row of the current image, images have numbers of
  their own and the current one is of the turn that is alone (`ImageInv`).
- `AnswersAreWhole`: `AnswerIsWhole`. Inductive with `WholeInv`: the event state of an active
  turn that runs alone is its text, and as long as the connection is open what was shown
  and what the buffer holds add up to it (`TalkInv`); the event that ends a turn is the
  last one and leaves nothing of it in the buffer (`OverInv`); so the row made at that
  moment is whole, and stays so while it waits (`AnswerInv`).

- `ShownIsStored`: `ShownTextIsStored`. Inductive with `ShownInv`, on top of `HomeInv`: the text
  of a turn that ended is in the row it waits for, then in the table or in the draft of
  `do_abort` (`KeptInv`). While the turn works its text is the event state, and the current
  image is a row that is there (`OwnInv`), so that `do_abort` finds both; a turn that is alone
  is the agent task, and once the loop is in `do_abort` that task is over (`LoopInv`). A row
  in the table keeps its text, because a caption that waits for an image is the whole text
  of the turn the image is of (`CaptionInv`).
- `CopiesNeedAborts`: `SecondCopyNeedsAbort`. Inductive with `CopyInv`, which counts: the rows
  with text of the turn, plus one unless the turn is over, plus one if the draft holds its
  text, are at most one more than the aborts (`CountInv`). An image has a number of its own, so
  that a caption changes one row (`UniqueInv`), and only the turn itself, when it is done,
  has its text in the row it waits for (`SpeaksInv`).

`HomeInv`, `WholeInv`, `ShownInv` and `CopyInv` were checked as invariants over the states of
run chat_session before they were proved, the last two also with two aborts.

`RunStream_proofs` proves, for any runs and messages:

- `StreamTypes`, `SentInOrder` (`MessagesInOrder`), `OutcomesAreTrue` (`OutcomeIsTrue`) and
  `FinishedIsComplete` (`FinishedStreamIsComplete`).

The argument (`StreamInv`) relates three sets of messages: those sent, those of the batch and
those of the conversation. Every message of the batch was sent or was saved after all that
were sent (`BatchInv`); every message of the conversation is one of these or was saved after
them (`NextBatchInv`): that gives the order. Completeness is `PassInv`: a stream that read an
outcome read the messages after it, nothing is saved by the run any more, so what is left
of its messages is in the batch; and it ends only with an outcome.

`AgentRuntimes_proofs` proves, for any agents, servers, callers and bounds:

- `RuntimesTypes`, and `NobodyForgotten` (`NobodyIsForgotten`): whoever waits for a lock is in
  the queue of a lock that somebody holds. `LocksInv` states the two queues once (`Queue`):
  everybody who waits is in it, once, and who works under the lock is its head; a lemma
  each says what joining, taking and leaving do to it.
- `RuntimesFresh`: the refinement of `FreshReads`. `FreshInv`: what is cached and what
  is being built is at least as new as the last answered change, because invalidation
  comes before the answer, also from the queue; nobody else has cached the agent while
  one builds it, which gives `RuntimeShared` as well (between two invalidations a cached
  runtime is not replaced).
- `CachedOnOpenStore` (`CachedIsOnOpenStore`): `OpenInv` adds that nobody builds while the
  connections are closed, unless somebody did when they closed (`torn`).

`Documents_proofs` proves `AttachmentTypes` and `FilesAndRowsMatch` (`FilesMatchRows`), for any
conversations, attachments and requests: two uploads never have the same id and an upload
owns a file that is not yet a row (`UploadsInv`); who has removed a file is about to remove
its row (`UnlinksInv`); and a deletion of a conversation still has every attachment on its
list whose file is there, except those that an overlapping upload added (`DeletesInv`). And
`RagTypes` and `IndexTrue` (`IndexIsTrue`), for any sources, operations, versions and lengths of
documents: two operations that touch one source both know that they raced for it
(`RaceInv`); an operation that did not race for a source holds what the store has, and the
index of that source is empty while it fills it (`KnowsInv`): a write of an agent races with
those that have read the source, and not with those that still will; and a source nobody
is at work on, and nothing went wrong with, has its chunks (`QuietInv`).

`SkillStore_proofs` proves, for any skills and releases, `SkillStoreTypes`, `UpgradeIsRetried`
(`SelfUpgradeIsRetried`) and `LockStaysBehind` (`LockIsNotAhead`). The first rests on the order of
the writes (`CopyInOrder`): the backup is whole before the script is truncated, and the
version file is written when the script is the new one. The second (`LockInv`) follows the
versions from the lock file through the process and back: what a process has read or is
about to write is not ahead of the directories either, and while it replaces a skill the
entry is no newer than the version it brings.

`Services_proofs` proves `ToolEventsTypes`, `InputsAreKept` (`ResultsKeepTheirInput`), `NotesTypes`,
`EverybodyIsTold` (`OnlineIsTold`), `PagesAreTrue` (`UndisturbedPageIsTrue`), and of the composition
`ServicesCompose`, `ServicesTypes` (`ServicesTypeOK`) and `ServicesHold`. `ToolInv`: the two queues of a tool are
the same or only the second is used; their inputs are of calls of that tool, one each, not
yet shown, and at least as many as calls are running; and the queue of a tool whose calls
follow one another has the one running call at most.

The notifications need `NotesInv`, for any pages, notifications and limit of a list. `KnownInv`:
the rows are there once each, and so is what a list or a request names, of notifications that
were announced; a deletion takes a row out of the middle and leaves the others in order.
`TrueInv`, of an undisturbed page: once loaded it is up to date (`UpToDate`: the rows, which
are read, the unread count), or exactly one notification is being announced or on its
connection (`Coming`) and it lacks just that one (`Lacks`), or it waits for the answer to
what it read; while it loads, what the first of the two queries returned is still true.
`DueInv`: who is due a notification is connected, and was told, or is on the list of the
broadcast, or has the event on its connection.

`ServicesCompose` shows that `MC_Services`, which run `services` checks, behaves in each of its
parts as the part alone. `Services_proofs` extends the proof modules of the services, so
that `ServicesTypes` and `ServicesHold` follow: the type invariant and the nine safety properties
that the run checks hold of the composition, for every value of the constants.

`Algorithms_proofs` proves the five properties of run `algorithms` twice over: as invariants of
what that run enumerates (`RegistryIsAlwaysSound`, `SavedConfigIsAlwaysLoaded`,
`CandidateIsAlwaysBest`, `HealthIsAlwaysCoherent`, `SpikesAreAlwaysTrue`: `CheckSpec => []...`), and,
which says more, as theorems about every input under the preconditions named here:

- `TreesAreSound` and `NamesMeanOneAgent`, of every registry (`IsRegistry`) that `Loads`: each chain
  of subagents is free of repetitions and follows the handoffs, the tree reaches exactly
  what the relation reaches, and every name means one agent. The tree is characterised by
  its paths: `SubagentPaths` gives those of the relation that repeat nobody, of which there are
  finitely many, and what is reached at all is reached by one of them.
- `ConfigurationIsKept`, of every such registry and every entry with any list of ids: an
  accepted entry is read back as itself, and written a second time as the first time.
- `AnswersAreBest`, of every registry of credentials that is accepted and any list of records:
  unless a malformed cell makes it an error, the answer is the one instance that nobody
  ties with, with its reference by precedence, or says that there is none or several, and
  it does not depend on the order of the records.
- `MoreLoadIsNoHealthier`, of any two samples of one length of which one is nowhere below the
  other; `SignalsNeverWeaken`, of any levels of the metrics; `PlateausAreCalm`, of any
  throughput series, window and day. The k-th value in order is known by counting - fewer
  than k values are below it, at least k up to it (`SortedIs`) - so raising a sample lowers none
  of its order statistics (`SortedIsMonotone`).
- `SpikesAreEverywhere`, of any series and any window of at least three (the code looks at no
  smaller one): reversing the series mirrors its spikes, and one value among equal ones is the
  only spike. Windows are mirrored one by one, the values of a window and of its
  mirror are rearrangements of each other, and what is computed from values does not
  depend on their order (`SortedIsTheSame`, `SumIsTheSame`, `DistributionIsTheSame`).
- `InstancesAreTheirNodes`, of any nodes with labels of their own, each with one value at a time
  and no more values than the span has periods: the instance has the spikes of its nodes and
  lacks the points they lack, and its evidence does not depend on the order in which the
  monitor returned them. Each merged point is traced to its
  node and place (`Spread`), filtering by the node gives the points of the node back in order
  (`SamePoints`), so spikes are counted node by node (`MarkedAreSummed`), and what the nodes
  lack adds up (`LacksAddUp`).

Induction is done without operators as parameters: a
property is the set of the numbers or of the subsets that have it, and a set that is not all
has a least counterexample (`Induction`, `LeastNumber`, `LeastSet`). A recursive function is
what its equation says only once a solution is known to exist, so each proof exhibits one
first (`Recursion`, `SumsExist`, `FlattenIs`).

### Assumptions

A constant is assumed to be what the code makes of it, and no more: a bound is a natural
number, `NoTask` is no task. That `Agents`, `Servers`, `Skills`, `Convs`, `Uploads` and `Sources` are
not empty is assumed where a coroutine that has no agent, job or source yet is modelled by
a record with an arbitrary one; the configuration of the program always has a supervisor,
and without the others the service has nothing to do. `Jobs` and `Uploads` are finite as one
request takes at most the attachments that are there.

### What the attempts corrected

- AgentRuntimes: what a coroutine finds when it goes into the cache was read from the
  connections before the step, although in the step in which it has just opened them they
  are open. `Lookup` and `Enter` now take the connections they see.
- ChatSession: a test of the silence after an abort that watched text and the last event of
  a turn missed the payloads sent after a commit. `late` counts every send, and the one
  that does come is named. The flush task was disarmed by its cancellation at once; it is
  done one iteration later, and a turn that runs beside another can rely on it in between.
- RagIndex: the store was changed by the operations of the index only. `AgentWrite` and
  `DropRow` are the writers that never tell the index.
- TaskNotifications: no row ever went. `DeleteNote` deletes them, the announcements and
  requests that were under way included.
- RunStream: the batch was filtered in one operator. It is now the loop of the code over the
  batch, with its test, which is what can be reasoned about.
- TaskNotifications: the store's list after an event was a filter over a sequence, and what a
  filter returns is an induction over the sequence. `Listed` now removes the notification at
  its `Place`; that this is the same, because an id is listed once, is part of `KnownInv`.
- AgentProfiles: the recursion of the tree takes the agents above and gives the paths below
  every agent; what can be reached is the smallest closed set, so that the tree is not
  compared with a second recursion. The theorems are false of a registry in which
  the empty id is an agent, which `_read_string` rejects: hence `IsRegistry`.
- CloudInstances and HealthSignals: sorting with a strict order by `SortSeq` says nothing of
  ties, and of filters nothing could be proved. `StableSort` says where every element goes,
  also those with equal keys, as Python's `sorted` promises.
- HealthSignals: that one value among equal ones is a spike needs a window of three, and that
  an instance has the spikes of its nodes and lacks what they lack needs nodes with one
  value at a time and no more values than periods: the code cuts what is missing at zero,
  so a surplus of one node would hide what another lacks. The run's inputs met these
  preconditions silently; the theorems state them.
- Several invariants held in every reachable state and were not inductive: `PassInv` without
  "a stream that ended has loaded an outcome", `RowsGoHome` without the numbers of the
  images, `AnswersAreWhole` without the turns that have said nothing (`FreshInv`).

### What is only model-checked

- Liveness and fairness: `DueIsServed`, `OutcomeIsAnnounced`, `TurnEnds` and `StreamEnds`. The
  prover handles neither ENABLED nor a well-founded argument about behaviours.
- The three properties of the findings, which are false.

## 7. Not modelled

Planned: the frontend conversation and socket stores (`ChatStore`), the calendar behind a
cron expression (`Cron`). Left out of modelled components: search and the status file of the
RAG service and a disabled index; the cached snapshot or error of the agent registry and
the parsing of TOML fields; the second lock file of the CLI (clawhub), its search, and two
CLI processes at once; thinking text; the reasons, drivers and rounding of the health
analyzer. Not planned: authentication and permissions (stateless lookups), the LLM helpers
and OCR models (free text), browser and image runtimes (I/O around libraries), the other
skills (prompts and API calls), rendering. `PROJECT.json` gives the reason for each
component.
