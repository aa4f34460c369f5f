----------------------------- MODULE ChatSession -----------------------------
(***************************************************************************)
(* One WebSocket connection of the chat: backend/api/ws/chat.py, with the  *)
(* agent turns it starts (backend/agent.py) and the message rows they      *)
(* leave (backend/services/conversation_messages.py).                      *)
(*                                                                         *)
(* The receive loop and every agent turn are coroutines of one event loop. *)
(* They share the handler's variables (nonlocal of on_event and do_abort), *)
(* and they interleave where one of them awaits the database or the agent; *)
(* a send to the socket does not yield.  A turn that is not agent_task any *)
(* more goes on running: nothing cancels it.                               *)
(*                                                                         *)
(* Text is a sequence of chunks, each named by the turn that produced it.  *)
(***************************************************************************)
EXTENDS Naturals, Sequences, FiniteSets

CONSTANTS
    Convs,     \* identifiers (uuid4) of conversations
    Turns,     \* one per accepted "message"
    MaxEvents, \* bound on the text deltas and tool events of all turns
    MaxAborts, \* bound on the "abort" messages
    MaxMoves,  \* bound on the inits, clears and deletions
    NoConv,    \* current_conv_id is None
    NoTurn     \* None, where a turn is expected

ASSUME ChatAssumption ==
    /\ NoConv \notin Convs
    /\ NoTurn \notin Turns
    /\ MaxEvents \in Nat /\ MaxAborts \in Nat /\ MaxMoves \in Nat

VARIABLES
    existing,   \* existing[c]: row c of conversations
    stored,     \* the rows of messages
    link,       \* the socket
    registered, \* is the socket registered with the realtime manager
    handler,    \* where the receive loop is suspended
    draft,      \* the row do_abort is about to store
    conv,       \* current_conv_id
    agentTask,  \* agent_task
    aborted,    \* abort_event
    text,       \* event_state.text
    buffer,     \* delta_buffer
    timer,      \* flush_task: none that is not done(), pending, or cancelled and not done() yet
    image,      \* current_turn_image_message_id: the nth of its row, 0 for None
    turn,       \* turn[t]: the agent task started for message t
    shown,      \* history: the text chunks sent to the client
    late,       \* history: late[t]: what turn t sent to the client since abort_event was set
    aborts,     \* how many "abort" messages were handled
    moves,      \* how many inits, clears and deletions were handled
    events      \* how many text deltas and tool events there were

dbVars    == <<existing, stored>>
stateVars == <<text, buffer, timer, image>>
counts    == <<aborts, moves, events>>
loopVars  == <<handler, draft, conv, agentTask, aborted, counts>>
vars == <<existing, stored, link, registered, handler, draft, conv, agentTask,
          aborted, text, buffer, timer, image, turn, shown, late, aborts, moves,
          events>>

-----------------------------------------------------------------------------
(* Rows and turns.                                                         *)

Chunks == Seq(Turns)

\* by: the turn the row is about; nth: tells images, and partial answers, apart.  A screenshot
\* ("image") gets the answer of the turn as its caption; an update of a row that
\* is there already is written as a row of kind "caption".  What OCR read is an "ocr" row.
Kind == {"user", "step", "image", "ocr", "answer", "partial", "error", "caption"}
Row == [kind: Kind, conv: Convs \cup {NoConv}, by: Turns \cup {NoTurn},
        text: Chunks, nth: Nat]
\* A row of the table: in a conversation, and a caption is in the row of its image.
StoredRow == [kind: Kind \ {"caption"}, conv: Convs, by: Turns \cup {NoTurn},
              text: Chunks, nth: Nat]
NoRow == [kind |-> "step", conv |-> NoConv, by |-> NoTurn, text |-> <<>>, nth |-> 0]

Phase == {"none", "queued", "created", "running", "saving", "answering", "failing",
          "ended"}
Alive == {"created", "running", "saving", "answering", "failing"}

\* told: the event that ended the turn for the client.
\* marks (history): what happened to the turn from outside.  "joined": another
\* turn ran at the same time; "moved": the client bound the connection to
\* another conversation; "erased": rows were cleared or deleted with their
\* conversation; "cut": the client went away.
Marks == {"joined", "moved", "erased", "cut"}
Turn == [phase: Phase, home: Convs \cup {NoConv}, chunks: Nat, row: Row,
         told: {"none", "done", "error"}, marks: SUBSET Marks]
NewTurn == [phase |-> "none", home |-> NoConv, chunks |-> 0, row |-> NoRow,
            told |-> "none", marks |-> {}]

TypeOK ==
    /\ existing \in [Convs -> {"absent", "present", "deleted"}]
    /\ stored \subseteq StoredRow
    /\ link \in {"open", "closed"}
    /\ registered \in BOOLEAN
    /\ handler \in {"recv", "starting", "aborting"}
    /\ draft \in Row
    /\ conv \in Convs \cup {NoConv}
    /\ agentTask \in Turns \cup {NoTurn}
    /\ aborted \in BOOLEAN
    /\ text \in Chunks
    /\ buffer \in Chunks
    /\ timer \in {"none", "pending", "cancelled"}
    /\ image \in Nat
    /\ turn \in [Turns -> Turn]
    /\ shown \in Chunks
    /\ late \in [Turns -> Nat]
    /\ aborts \in 0..MaxAborts
    /\ moves \in 0..MaxMoves
    /\ events \in 0..MaxEvents

Init ==
    /\ existing = [c \in Convs |-> "absent"]
    /\ stored = {}
    /\ link = "open"
    /\ registered = TRUE
    /\ handler = "recv"
    /\ draft = NoRow
    /\ conv = NoConv
    /\ agentTask = NoTurn
    /\ aborted = FALSE
    /\ text = <<>>
    /\ buffer = <<>>
    /\ timer = "none"
    /\ image = 0
    /\ turn = [t \in Turns |-> NewTurn]
    /\ shown = <<>>
    /\ late = [t \in Turns |-> 0]
    /\ aborts = 0
    /\ moves = 0
    /\ events = 0

-----------------------------------------------------------------------------
(* Helpers.                                                                *)

Running == {t \in Turns : turn[t].phase \in Alive}

\* The image message that row m is the caption of, if it is still there.
ImageOf(m) == {i \in stored : i.kind = "image" /\ i.nth = m.nth}

\* save_message needs its conversation (a foreign key, and NOT NULL);
\* update_message needs its message.
CanStore(m) ==
    IF m.kind = "caption"
    THEN ImageOf(m) # {}
    ELSE m.conv # NoConv /\ existing[m.conv] = "present"

\* Mutated form: the caption goes to every image of the conversation.
StoredWith_AllImages(m) ==
    IF m.kind = "caption"
    THEN {IF i.kind = "image" /\ i.conv = m.conv THEN [i EXCEPT !.text = m.text] ELSE i :
             i \in stored}
    ELSE stored \cup {m}

\* Mutated form: the update is an insert.
StoredWith_Inserts(m) == stored \cup {m}

StoredWith(m) ==
    IF m.kind = "caption"
    THEN (stored \ ImageOf(m)) \cup {[i EXCEPT !.text = m.text] : i \in ImageOf(m)}
    ELSE stored \cup {m}

\* The row that stores the accumulated text: a caption when the turn made an image.
TextRow(kind, t, n) ==
    IF image # 0
    THEN [kind |-> "caption", conv |-> conv, by |-> t, text |-> text, nth |-> image]
    ELSE [kind |-> kind, conv |-> conv, by |-> t, text |-> text, nth |-> n]

\* Mutated form: only the text that was not sent yet goes to the row.
AbortRow_Unsent(n) ==
    IF text # <<>> /\ conv # NoConv
    THEN [TextRow("partial", agentTask, n) EXCEPT !.text = buffer] ELSE NoRow

\* The row do_abort stores.
AbortRow(n) ==
    IF text # <<>> /\ conv # NoConv THEN TextRow("partial", agentTask, n) ELSE NoRow

PlainRow(kind, t, n) ==
    [kind |-> kind, conv |-> conv, by |-> t, text |-> <<>>, nth |-> n]

\* flush_delta on an open socket, with the cancellation of the flush task, which is
\* done() only when the event loop comes to it.
Flush ==
    /\ buffer' = <<>>
    /\ timer' = IF timer = "pending" /\ buffer # <<>> THEN "cancelled" ELSE timer
    /\ shown' = shown \o buffer

\* An event or a payload of turn t is sent to the client.
Sends(t) == late' = IF aborted THEN [late EXCEPT ![t] = @ + 1] ELSE late

\* Mutated form: on_event does not look at abort_event.
Silenced_Never == FALSE

\* on_event raises CancelledError for every turn once abort_event is set.
Silenced == aborted

End(t) == turn' = [turn EXCEPT ![t].phase = "ended", ![t].row = NoRow]

\* What happened to the turns that history remembers.
Marked(T, mark) ==
    [t \in Turns |-> IF t \in T /\ turn[t].phase # "none"
                     THEN [turn[t] EXCEPT !.marks = @ \cup {mark}] ELSE turn[t]]

Awaiting == {"saving", "answering", "failing"}

\* agent_task is cancelled.  Where it was storing a row, the commit may have
\* happened already, without the turn having learned of it.
CancelCommit ==
    \/ UNCHANGED stored
    \/ /\ agentTask # NoTurn
       /\ turn[agentTask].phase \in Awaiting
       /\ CanStore(turn[agentTask].row)
       /\ stored' = StoredWith(turn[agentTask].row)

\* The handler ends, by a disconnect or by an exception: agent_task, and only
\* that one, is cancelled.
Close ==
    /\ CancelCommit
    /\ link' = "closed"
    /\ registered' = FALSE
    /\ turn' = [t \in Turns |->
                  IF t = agentTask /\ t \in Running
                  THEN [turn[t] EXCEPT !.phase = "ended", !.row = NoRow,
                                       !.marks = @ \cup {"cut"}]
                  ELSE turn[t]]

-----------------------------------------------------------------------------
(* The receive loop.                                                       *)

Receiving == link = "open" /\ handler = "recv"

\* An init, a clear or a deletion: as many as the bound allows.
Moves == moves < MaxMoves /\ moves' = moves + 1

\* The loop notices that agent_task has ended.
ReapTurn ==
    /\ Receiving
    /\ agentTask # NoTurn
    /\ turn[agentTask].phase = "ended"
    /\ agentTask' = NoTurn
    /\ UNCHANGED <<dbVars, link, registered, handler, draft, conv, aborted, counts,
                   stateVars, turn, shown, late>>

\* create_conversation: some id that is not in use.
Created(c) == existing[c] = "absent" /\ existing' = [existing EXCEPT ![c] = "present"]

\* The conversation a "message" goes to: the bound one, or a new one.
Bound(c) == IF conv # NoConv THEN c = conv /\ UNCHANGED existing ELSE Created(c)

\* Mutated form: every message opens a conversation of its own.
ReceiveMessage_Opens(t) ==
    /\ Receiving
    /\ turn[t].phase = "none"
    /\ \E c \in Convs :
         /\ Created(c)
         /\ conv' = c
         /\ stored' = stored \cup
              {[kind |-> "user", conv |-> c, by |-> t, text |-> <<>>, nth |-> 0]}
         /\ turn' = [turn EXCEPT ![t].phase = "queued", ![t].home = c]
    /\ handler' = "starting"
    /\ UNCHANGED <<link, registered, draft, agentTask, aborted, counts, stateVars, shown, late>>

\* "message": the user's message is stored before the turn is started, whether
\* or not another turn is running.
ReceiveMessage(t) ==
    /\ Receiving
    /\ turn[t].phase = "none"
    /\ \E c \in Convs :
         /\ Bound(c)
         /\ existing'[c] = "present"
         /\ conv' = c
         /\ stored' = stored \cup
              {[kind |-> "user", conv |-> c, by |-> t, text |-> <<>>, nth |-> 0]}
         /\ turn' = [turn EXCEPT ![t].phase = "queued", ![t].home = c]
    /\ handler' = "starting"
    /\ UNCHANGED <<link, registered, draft, agentTask, aborted, counts, stateVars, shown, late>>

\* The bound conversation has been deleted: save_message raises, and the handler
\* ends with an error.
ReceiveMessageFails ==
    /\ Receiving
    /\ conv # NoConv
    /\ existing[conv] # "present"
    /\ Close
    /\ UNCHANGED <<existing, loopVars, stateVars, shown, late>>

\* A message with plaintext credentials is refused, after its conversation was
\* created.
RefuseMessage ==
    /\ Receiving
    /\ conv = NoConv
    /\ \E c \in Convs : Created(c) /\ conv' = c
    /\ UNCHANGED <<stored, link, registered, handler, draft, agentTask, aborted, counts,
                   stateVars, turn, shown, late>>

\* Mutated form: the event state of the previous turn is kept.
FreshText_Kept == text

FreshText == <<>>

\* The turn gets a fresh event state and becomes agent_task - in place of a turn
\* that may still be running, and whose buffered deltas are dropped.  The rows were
\* awaited meanwhile, so that a cancelled flush task is done.
StartTurn(t) ==
    /\ handler = "starting"
    /\ turn[t].phase = "queued"
    /\ timer # "cancelled"
    /\ LET others == {u \in Turns : turn[u].phase \in {"created", "running", "saving"}}
           met    == IF others = {} THEN {} ELSE {"joined"}
       IN  turn' = [u \in Turns |->
                      IF u = t THEN [turn[t] EXCEPT !.phase = "created", !.marks = @ \cup met]
                      ELSE IF u \in others THEN [turn[u] EXCEPT !.marks = @ \cup met]
                      ELSE turn[u]]
    /\ text' = FreshText
    /\ buffer' = <<>>
    /\ aborted' = FALSE
    /\ image' = 0
    /\ agentTask' = t
    /\ late' = [u \in Turns |-> 0]
    /\ handler' = "recv"
    /\ UNCHANGED <<dbVars, link, registered, draft, conv, timer, shown, counts>>

\* "abort": abort_event is set, agent_task is cancelled and awaited if it still
\* runs, the buffer is flushed and the text so far goes to a row.
ReceiveAbort ==
    /\ Receiving
    /\ aborts < MaxAborts
    /\ aborts' = aborts + 1
    /\ aborted' = TRUE
    /\ CancelCommit
    /\ turn' = [t \in Turns |->
                  IF t = agentTask /\ t \in Running
                  THEN [turn[t] EXCEPT !.phase = "ended", !.row = NoRow] ELSE turn[t]]
    /\ buffer' = <<>>
    /\ shown' = shown \o buffer
    /\ draft' = AbortRow(aborts + 1)
    /\ handler' = "aborting"
    /\ UNCHANGED <<existing, link, registered, conv, agentTask, moves, events, text, timer,
                   image, late>>

\* The rest of do_abort: the row is stored, "done" is sent, and the socket is
\* unregistered from the realtime manager.
FinishAbort ==
    /\ handler = "aborting"
    /\ draft = NoRow \/ CanStore(draft)
    /\ stored' = IF draft = NoRow THEN stored ELSE StoredWith(draft)
    /\ draft' = NoRow
    /\ registered' = FALSE
    /\ agentTask' = NoTurn
    /\ image' = 0
    /\ handler' = "recv"
    /\ UNCHANGED <<existing, link, conv, aborted, text, buffer, timer, turn, shown, late, counts>>

\* The row cannot be stored: the exception ends the handler.
FinishAbortFails ==
    /\ handler = "aborting"
    /\ draft # NoRow /\ ~CanStore(draft)
    /\ Close
    /\ draft' = NoRow
    /\ handler' = "recv"
    /\ UNCHANGED <<existing, conv, agentTask, aborted, counts, stateVars, shown, late>>

\* "init" without an id, with the id of a conversation, or with an id that is
\* gone, for which a new conversation is created.
ReceiveInit ==
    /\ Receiving
    /\ Moves
    /\ \/ conv' = NoConv /\ UNCHANGED existing
       \/ \E c \in Convs : /\ existing[c] = "present"
                           /\ conv' = c
                           /\ UNCHANGED existing
       \/ /\ \E c \in Convs : existing[c] = "deleted"
          /\ \E c \in Convs : Created(c) /\ conv' = c
    /\ turn' = Marked({t \in Turns : turn[t].home # conv'}, "moved")
    /\ UNCHANGED <<stored, link, registered, handler, draft, agentTask, aborted, aborts, events,
                   stateVars, shown, late>>

\* "clear": the messages of the bound conversation go, those of a running turn
\* included; the turn goes on.
ReceiveClear ==
    /\ Receiving
    /\ Moves
    /\ conv # NoConv
    /\ stored' = {m \in stored : m.conv # conv}
    /\ turn' = Marked({t \in Turns : turn[t].home = conv}, "erased")
    /\ UNCHANGED <<existing, link, registered, handler, draft, conv, agentTask, aborted,
                   aborts, events, stateVars, shown, late>>

Disconnect ==
    /\ Receiving
    /\ Close
    /\ UNCHANGED <<existing, loopVars, stateVars, shown, late>>

\* DELETE /api/conversations/{id}, by any client.
DeleteConversation(c) ==
    /\ Moves
    /\ existing[c] = "present"
    /\ existing' = [existing EXCEPT ![c] = "deleted"]
    /\ stored' = {m \in stored : m.conv # c}
    /\ turn' = Marked({t \in Turns : turn[t].home = c}, "erased")
    /\ UNCHANGED <<link, registered, handler, draft, conv, agentTask, aborted, aborts,
                   events, stateVars, shown, late>>

-----------------------------------------------------------------------------
(* An agent turn: run_agent_turn, run_agent, and on_event for its events.  The *)
(* OCR stage and the tools are events like any other: text deltas, steps       *)
(* (tool calls, tool results, OCR results), screenshots, "done" or "error".    *)

\* The runtime and the contexts are built, or that raises: then the task ends
\* and the client is told nothing.
BuildTurn(t) ==
    /\ turn[t].phase = "created"
    /\ \E phase \in {"running", "ended"} : turn' = [turn EXCEPT ![t].phase = phase]
    /\ UNCHANGED <<dbVars, link, registered, loopVars, stateVars, shown, late>>

\* A text delta or a tool event: as many as the bound allows.
Event == events < MaxEvents /\ events' = events + 1

\* Mutated form: a delta arms the flush only when there is no text yet.
Delta_FirstOnly(t) ==
    /\ turn[t].phase = "running"
    /\ ~Silenced
    /\ Event
    /\ turn' = [turn EXCEPT ![t].chunks = @ + 1]
    /\ text' = Append(text, t)
    /\ buffer' = Append(buffer, t)
    /\ timer' = IF timer = "none" /\ text = <<>> THEN "pending" ELSE timer
    /\ UNCHANGED <<dbVars, link, registered, handler, draft, conv, agentTask, aborted,
                   aborts, moves, image, shown, late>>

\* "text_delta": accumulated at once, sent later by the flush task - by a new one, if
\* none is there that is not done().
Delta(t) ==
    /\ turn[t].phase = "running"
    /\ ~Silenced
    /\ Event
    /\ turn' = [turn EXCEPT ![t].chunks = @ + 1]
    /\ text' = Append(text, t)
    /\ buffer' = Append(buffer, t)
    /\ timer' = IF timer = "none" THEN "pending" ELSE timer
    /\ UNCHANGED <<dbVars, link, registered, handler, draft, conv, agentTask, aborted,
                   aborts, moves, image, shown, late>>

\* The flush task fires; on a closed socket its send raises and the text is gone.
FireTimer ==
    /\ timer = "pending"
    /\ timer' = "none"
    /\ buffer' = <<>>
    /\ shown' = IF link = "open" THEN shown \o buffer ELSE shown
    /\ UNCHANGED <<dbVars, link, registered, loopVars, text, image, turn, late>>

\* The cancelled flush task ends, in the next iteration of the event loop.
FlushTaskEnds ==
    /\ timer = "cancelled"
    /\ timer' = "none"
    /\ UNCHANGED <<dbVars, link, registered, loopVars, text, buffer, image, turn, shown, late>>

\* A discrete event of a running turn that is sent to the client.
Emits(t) ==
    /\ turn[t].phase = "running"
    /\ ~Silenced
    /\ link = "open"
    /\ Flush
    /\ Sends(t)

\* Sent, and nothing stored: before the agent starts, how the OCR stage goes on, or what it
\* read when no conversation is bound.
Notice(t) ==
    /\ Emits(t)
    /\ turn[t].chunks = 0
    /\ Event
    /\ UNCHANGED <<dbVars, link, registered, handler, draft, conv, agentTask, aborted,
                   aborts, moves, text, image, turn>>

\* A step: sent, then stored.
Step(t) ==
    /\ Emits(t)
    /\ Event
    /\ turn' = [turn EXCEPT ![t].phase = "saving",
                            ![t].row = PlainRow("step", t, 0)]
    /\ UNCHANGED <<dbVars, link, registered, handler, draft, conv, agentTask, aborted,
                   aborts, moves, text, image>>

\* The result of a browser tool with a screenshot: the image message is stored first.
Screenshot(t) ==
    /\ Emits(t)
    /\ conv # NoConv
    /\ Event
    /\ turn' = [turn EXCEPT ![t].phase = "saving",
                            ![t].row = PlainRow("image", t, events + 1)]
    /\ UNCHANGED <<dbVars, link, registered, handler, draft, conv, agentTask, aborted,
                   aborts, moves, text, image>>

\* The result of the OCR stage or of the OCR agent: stored before anything is sent, or, when
\* OCR is not available, stored and not sent at all.
OcrResult(t) ==
    /\ turn[t].phase = "running"
    /\ ~Silenced
    /\ link = "open" \/ buffer = <<>>
    /\ conv # NoConv
    /\ Event
    /\ Flush
    /\ \E kind \in {"ocr", "step"} :
          turn' = [turn EXCEPT ![t].phase = "saving", ![t].row = PlainRow(kind, t, 0)]
    /\ UNCHANGED <<dbVars, link, registered, handler, draft, conv, agentTask, aborted,
                   aborts, moves, text, image, late>>

\* "done": sent to the client before the accumulated text is stored.
Done(t) ==
    /\ Emits(t)
    /\ IF text = <<>>
       THEN /\ turn' = [turn EXCEPT ![t].phase = "ended", ![t].told = "done"]
            /\ image' = 0
       ELSE /\ turn' = [turn EXCEPT ![t].phase = "answering", ![t].told = "done",
                                    ![t].row = TextRow("answer", t, 0)]
            /\ UNCHANGED image
    /\ UNCHANGED <<dbVars, link, registered, loopVars, text>>

\* run_agent catches the exception of the agent stream: an "error" event, and no
\* "done".
Fail(t) ==
    /\ Emits(t)
    /\ turn' = [turn EXCEPT ![t].phase = "failing", ![t].told = "error",
                            ![t].row = PlainRow("error", t, 0)]
    /\ UNCHANGED <<dbVars, link, registered, loopVars, text, image>>

\* The next event after an abort raises CancelledError; on a closed socket the
\* send of a discrete event raises, and so does that of the error it leads to.
Interrupt(t) ==
    /\ turn[t].phase = "running"
    /\ \/ Silenced /\ UNCHANGED buffer
       \/ ~Silenced /\ link = "closed" /\ buffer' = <<>>
    /\ End(t)
    /\ UNCHANGED <<dbVars, link, registered, loopVars, text, timer, image, shown, late>>

\* What is sent once its row is stored; what the OCR stage read, before the agent starts.
Payloads == {"image", "ocr"}
Preprocessing(t) ==
    turn[t].phase = "saving" /\ turn[t].row.kind = "ocr" /\ turn[t].chunks = 0

\* The row of the event is committed; by then a cancelled flush task is done.  A screenshot,
\* or what OCR read, is sent - without another look at abort_event - and the tool result
\* stored after it, if it came from a tool; "done" forgets the image, whoever's it is by now.
SaveRow(t) ==
    /\ turn[t].phase \in Awaiting
    /\ timer # "cancelled"
    /\ CanStore(turn[t].row)
    /\ stored' = StoredWith(turn[t].row)
    /\ image' = IF turn[t].row.kind = "image" THEN turn[t].row.nth
                ELSE IF turn[t].phase = "answering" THEN 0 ELSE image
    /\ IF turn[t].row.kind \in Payloads
       THEN IF link = "open"
            THEN /\ Sends(t)
                 /\ \/ turn' = [turn EXCEPT ![t].row = PlainRow("step", t, 0)]
                    \/ /\ Preprocessing(t)
                       /\ turn' = [turn EXCEPT ![t].phase = "running", ![t].row = NoRow]
            ELSE End(t) /\ UNCHANGED late
       ELSE /\ turn' = [turn EXCEPT ![t].phase = IF @ = "saving" THEN "running" ELSE "ended",
                                    ![t].row = NoRow]
            /\ UNCHANGED late
    /\ UNCHANGED <<existing, link, registered, loopVars, text, buffer, timer, shown>>

\* Mutated form: the turn tries again until the row can be stored.
SaveFails_Waits(t) ==
    /\ turn[t].phase \in Awaiting
    /\ timer # "cancelled"
    /\ ~CanStore(turn[t].row)
    /\ UNCHANGED vars

\* The row cannot be stored.  run_agent turns the exception into an "error"
\* event, if it can still be sent; a second failure, or one of the OCR stage, which
\* is not part of run_agent, ends the turn.
SaveFails(t) ==
    /\ turn[t].phase \in Awaiting
    /\ timer # "cancelled"
    /\ ~CanStore(turn[t].row)
    /\ \/ /\ turn[t].phase # "failing" /\ ~Silenced /\ link = "open"
          /\ Flush
          /\ Sends(t)
          /\ turn' = [turn EXCEPT ![t].phase = "failing", ![t].told = "error",
                                  ![t].row = PlainRow("error", t, 0)]
       \/ /\ turn[t].phase = "failing" \/ Silenced \/ link = "closed" \/ Preprocessing(t)
          /\ UNCHANGED <<buffer, timer, shown, late>>
          /\ End(t)
    /\ UNCHANGED <<dbVars, link, registered, loopVars, text, image>>

TurnStep(t) ==
    \/ BuildTurn(t) \/ Delta(t) \/ Notice(t) \/ Step(t) \/ Screenshot(t) \/ OcrResult(t)
    \/ Done(t) \/ Fail(t) \/ Interrupt(t) \/ SaveRow(t) \/ SaveFails(t)

LoopStep ==
    \/ ReapTurn \/ FinishAbort \/ FinishAbortFails
    \/ \E t \in Turns : StartTurn(t)

ClientStep ==
    \/ \E t \in Turns : ReceiveMessage(t)
    \/ ReceiveMessageFails \/ RefuseMessage
    \/ ReceiveAbort \/ ReceiveInit \/ ReceiveClear \/ Disconnect

Next ==
    \/ ClientStep
    \/ LoopStep
    \/ \E t \in Turns : TurnStep(t)
    \/ FireTimer \/ FlushTaskEnds
    \/ \E c \in Convs : DeleteConversation(c)

Spec == Init /\ [][Next]_vars

\* The event loop runs the ready coroutines and the timers, and the agent of a
\* turn goes on producing events until it is done.
Fairness ==
    /\ WF_vars(LoopStep)
    /\ WF_vars(FireTimer \/ FlushTaskEnds)
    /\ \A t \in Turns : WF_vars(TurnStep(t))

FairSpec == Spec /\ Fairness

-----------------------------------------------------------------------------
(* Properties.                                                             *)

Whole(t) == [i \in 1..turn[t].chunks |-> t]
Undisturbed(t, marks) == turn[t].marks \cap marks = {}

\* The answer stored for a turn is all of its text and nothing else, and the
\* client was sent all of it before "done" - although deltas are buffered, the
\* buffer and the event state belong to the connection, and the row is written
\* after the event.  Only a turn that ran at the same time can mix its text in.
AnswerIsWhole ==
    \A m \in stored : m.kind = "answer" /\ Undisturbed(m.by, {"joined"}) =>
        /\ m.text = Whole(m.by)
        /\ Cardinality({i \in DOMAIN shown : shown[i] = m.by}) = turn[m.by].chunks

\* Text that waits in the buffer has a flush task coming: the client does not wait for
\* the next tool call to read it.  (But one turn may cancel the flush task, and another
\* trust it while it is not done: two that run at the same time, or one whose row could
\* not be stored and whose error comes while the other runs.)
BufferedTextIsArmed ==
    \A i \in DOMAIN buffer :
        \/ timer = "pending"
        \/ ~Undisturbed(buffer[i], {"joined"})
        \/ \E u \in Turns \ {buffer[i]} : turn[u].told = "error"

\* A row of a turn is stored in the conversation the turn was started for, unless
\* the client bound the connection to another one since: tool results and
\* answers follow current_conv_id, not the turn.
MessagesGoHome ==
    \A m \in stored :
        /\ m.kind \notin {"user", "partial"} /\ Undisturbed(m.by, {"moved"})
              => m.conv = turn[m.by].home
        /\ \A i \in DOMAIN m.text :
              Undisturbed(m.text[i], {"moved", "joined"}) => m.conv = turn[m.text[i]].home

\* What the client was shown of a turn that is over is stored, as its answer, its
\* caption or its interrupted answer - except of a turn that failed, was cut off
\* by a disconnect, shared the connection with another turn, or whose
\* conversation was left, cleared or deleted.
ShownTextIsStored ==
    \A t \in Turns :
        /\ turn[t].phase = "ended" /\ turn[t].told # "error" /\ turn[t].marks = {}
        /\ turn[t].chunks > 0
        /\ handler # "aborting"
        => \E m \in stored : m.conv = turn[t].home /\ m.text = Whole(t)

\* The text of a turn is stored once, and once more only by an abort that comes
\* when it is stored already.
SecondCopyNeedsAbort ==
    \A t \in Turns : Undisturbed(t, {"joined"}) =>
        Cardinality({m \in stored : \E i \in DOMAIN m.text : m.text[i] = t}) <= 1 + aborts

\* Turn u tells the client nothing; or it sends the screenshot, or what OCR read, that it
\* was storing, and nothing more was sent before.
Quiet(u) == turn'[u].chunks = turn[u].chunks /\ turn'[u].told = turn[u].told /\ late'[u] = late[u]
LastWord(u) ==
    /\ turn'[u].chunks = turn[u].chunks /\ turn'[u].told = turn[u].told
    /\ late[u] = 0 /\ late'[u] = 1
    /\ turn[u].row.kind \in Payloads

\* An abort silences every turn of the connection, the replaced ones included, which it
\* does not cancel: until the next message none of them produces text or tells the
\* client anything more, but for the one payload that a replaced turn was storing when
\* the abort came.
AbortSilences ==
    [][aborted /\ aborted' => shown' = shown /\ \A u \in Turns : Quiet(u) \/ LastWord(u)]_vars

\* A turn that was started ends: done, failed, cancelled or interrupted, with its
\* rows stored or not.
TurnEnds == \A t \in Turns : turn[t].phase = "created" ~> turn[t].phase = "ended"

\* ARCHITECTURE.md: the outcome of a task is broadcast to the clients that are online.
OnlineIsRegistered == link = "open" => registered
=============================================================================
