------------------------------ MODULE RunStream ------------------------------
(***************************************************************************)
(* The stream a client opens on the conversation of a task run: the        *)
(* generator _stream_inspection_task_run_conversation of                   *)
(* backend/api/routers/inspection_tasks.py.  It replays the messages, and  *)
(* while the run is running it polls the run, the conversation and the     *)
(* messages, in three reads of the database, and sends what is new.        *)
(*                                                                         *)
(* The runs around it are those of RunLifecycle, which InspectionTasks     *)
(* implements.  Messages are saved by the run while it works, and by a     *)
(* chat in the same conversation at any time.                              *)
(***************************************************************************)
EXTENDS Naturals, Sequences, FiniteSets

CONSTANTS
    Runs,   \* identifiers of runs; run r has a conversation of its own
    Msgs    \* identifiers (uuid4) of messages

VARIABLES
    status,       \* the runs, see RunLifecycle
    notes,        \* their notifications, see RunLifecycle
    worked,       \* worked[r]: is a call of execute_inspection_task working on r
    conversation, \* conversation[r]: the row, whose deletion clears run.conversation_id
    messages,     \* messages[r]: its messages, in the order they were saved
    log,          \* history: every message that was saved, in that order
    own,          \* history: the messages the runs saved themselves
    stream,       \* the generator
    sent          \* history: the events it sent

Life == INSTANCE RunLifecycle

runVars == <<status, notes, worked>>
convVars == <<conversation, messages, log, own>>
vars == <<runVars, convVars, stream, sent>>

-----------------------------------------------------------------------------
(* State.                                                                  *)

\* phase: the read or the yield that comes next; loaded: run.status as it was read;
\* batch: the messages the loop has not come to yet; reported: last_reported_status.
Phase == {"closed", "run", "conversation", "messages", "send", "ended", "broken"}
RunStatus == {"running"} \cup Life!Outcome
Stream == [phase: Phase, run: Runs, loaded: RunStatus, batch: Seq(Msgs),
           emitted: SUBSET Msgs, reported: RunStatus \cup {"nothing"}]
Opened(r) == [phase |-> "run", run |-> r, loaded |-> "running", batch |-> <<>>,
              emitted |-> {}, reported |-> "nothing"]

Event == [type: {"message"}, message: Msgs]
           \cup [type: {"run_status", "done"}, status: RunStatus]

TypeOK ==
    /\ status \in [Runs -> {"absent", "deleted"} \cup RunStatus]
    /\ worked \in [Runs -> BOOLEAN]
    /\ conversation \in [Runs -> {"present", "deleted"}]
    /\ messages \in [Runs -> Seq(Msgs)]
    /\ log \in Seq(Msgs)
    /\ own \subseteq Msgs
    /\ stream \in Stream
    /\ sent \in Seq(Event)

\* A run that an earlier crash left running is not worked on.
Init ==
    /\ status \in [Runs -> {"absent", "running"}]
    /\ worked = [r \in Runs |-> FALSE]
    /\ notes = [r \in Runs |-> Life!None]
    /\ conversation = [r \in Runs |-> "present"]
    /\ messages = [r \in Runs |-> <<>>]
    /\ log = <<>>
    /\ own = {}
    /\ \E r \in Runs : stream = [Opened(r) EXCEPT !.phase = "closed"]
    /\ sent = <<>>

Saved(m) == m \in {log[i] : i \in DOMAIN log}

-----------------------------------------------------------------------------
(* The run and its conversation.                                           *)

StartRun(r) ==
    /\ Life!Start(r)
    /\ worked' = [worked EXCEPT ![r] = TRUE]
    /\ UNCHANGED <<convVars, stream, sent>>

\* The call that works on the run settles it.
SettleRun(r) ==
    /\ worked[r]
    /\ \E s \in Life!Outcome : Life!Finish(r, s)
    /\ worked' = [worked EXCEPT ![r] = FALSE]
    /\ UNCHANGED <<convVars, stream, sent>>

AnnounceRun(r) ==
    /\ Life!Announce(r)
    /\ UNCHANGED <<worked, convVars, stream, sent>>

\* The task of the runs is deleted; their conversations stay.
DeleteRuns ==
    /\ \E D \in SUBSET Runs \ {{}} : Life!Delete(D)
    /\ UNCHANGED <<worked, convVars, stream, sent>>

\* A message of the run, or of a chat in its conversation.
SaveMessage(r, m) ==
    /\ status[r] # "absent"
    /\ conversation[r] = "present"
    /\ ~Saved(m)
    /\ messages' = [messages EXCEPT ![r] = Append(@, m)]
    /\ log' = Append(log, m)
    /\ \/ UNCHANGED own
       \/ /\ worked[r] /\ status[r] = "running"
          /\ own' = own \cup {m}
    /\ UNCHANGED <<runVars, conversation, stream, sent>>

ClearMessages(r) ==
    /\ messages[r] # <<>>
    /\ messages' = [messages EXCEPT ![r] = <<>>]
    /\ UNCHANGED <<runVars, conversation, log, own, stream, sent>>

DeleteConversation(r) ==
    /\ conversation[r] = "present"
    /\ status[r] # "absent"
    /\ conversation' = [conversation EXCEPT ![r] = "deleted"]
    /\ messages' = [messages EXCEPT ![r] = <<>>]
    /\ UNCHANGED <<runVars, log, own, stream, sent>>

-----------------------------------------------------------------------------
(* The stream.                                                             *)

Finished == {"closed", "ended", "broken"}

Open(r) ==
    /\ stream.phase \in Finished
    /\ status[r] # "absent"
    /\ stream' = Opened(r)
    /\ sent' = <<>>
    /\ UNCHANGED <<runVars, convVars>>

\* The client closes the stream: the generator is closed at a yield.
Leave ==
    /\ stream.phase = "send"
    /\ stream' = [stream EXCEPT !.phase = "closed"]
    /\ UNCHANGED <<runVars, convVars, sent>>

\* Mutated form: the stream of a run that is gone polls again.
RunGone_Ignored == "run"

\* A run without a row or without a conversation raises: 404 or 400 for the first
\* pass, a broken stream later.
RunGone == "broken"

\* Mutated form: nobody looks whether the run is still there.
Readable_Conversation(r) == conversation[r] = "present"

Readable(r) == status[r] # "deleted" /\ conversation[r] = "present"

ReadRun ==
    /\ stream.phase = "run"
    /\ stream' =
         IF Readable(stream.run)
         THEN [stream EXCEPT !.loaded = status[stream.run], !.phase = "conversation"]
         ELSE [stream EXCEPT !.phase = RunGone]
    /\ UNCHANGED <<runVars, convVars, sent>>

ReadConversation ==
    /\ stream.phase = "conversation"
    /\ stream' = [stream EXCEPT !.phase =
                    IF conversation[stream.run] = "present" THEN "messages" ELSE "broken"]
    /\ UNCHANGED <<runVars, convVars, sent>>

ReadMessages ==
    /\ stream.phase = "messages"
    /\ stream' = [stream EXCEPT !.batch = messages[stream.run], !.phase = "send"]
    /\ UNCHANGED <<runVars, convVars, sent>>

\* Mutated form: the messages that were sent before are sent again.
New_All(m) == TRUE

\* A message that the stream has not sent yet.
New(m) == m \notin stream.emitted

\* The loop over the batch passes over the messages that were sent before.
Due(i) == New(stream.batch[i]) /\ \A j \in 1..(i - 1) : ~New(stream.batch[j])

SendMessage ==
    /\ stream.phase = "send"
    /\ \E i \in DOMAIN stream.batch :
          /\ Due(i)
          /\ sent' = Append(sent, [type |-> "message", message |-> stream.batch[i]])
          /\ stream' = [stream EXCEPT !.batch = SubSeq(@, i + 1, Len(@)),
                                     !.emitted = @ \cup {stream.batch[i]}]
    /\ UNCHANGED <<runVars, convVars>>

BatchIsSent == \A i \in DOMAIN stream.batch : ~New(stream.batch[i])

SendStatus ==
    /\ stream.phase = "send"
    /\ BatchIsSent
    /\ stream.reported # stream.loaded
    /\ sent' = Append(sent, [type |-> "run_status", status |-> stream.loaded])
    /\ stream' = [stream EXCEPT !.reported = stream.loaded]
    /\ UNCHANGED <<runVars, convVars>>

\* Mutated form: the condition of the loop reads the row again.
StillRunning_Now == status[stream.run] = "running"

\* The condition of the polling loop, on the run as it was read.
StillRunning == stream.loaded = "running"

\* Mutated form: a stream that is done says that the run succeeded.
DoneStatus_Succeeded == "succeeded"

DoneStatus == stream.loaded

EndPass ==
    /\ stream.phase = "send"
    /\ BatchIsSent
    /\ stream.reported = stream.loaded
    /\ IF StillRunning
       THEN /\ stream' = [stream EXCEPT !.phase = "run"]
            /\ UNCHANGED sent
       ELSE /\ stream' = [stream EXCEPT !.phase = "ended"]
            /\ sent' = Append(sent, [type |-> "done", status |-> DoneStatus])
    /\ UNCHANGED <<runVars, convVars>>

StreamStep ==
    \/ ReadRun \/ ReadConversation \/ ReadMessages
    \/ SendMessage \/ SendStatus \/ EndPass

Next ==
    \/ \E r \in Runs :
         \/ StartRun(r) \/ SettleRun(r) \/ AnnounceRun(r)
         \/ ClearMessages(r) \/ DeleteConversation(r)
         \/ \E m \in Msgs : SaveMessage(r, m)
         \/ Open(r)
    \/ DeleteRuns
    \/ Leave
    \/ StreamStep

Spec == Init /\ [][Next]_vars

\* The generator is resumed, and a call that works on a run settles it.
Fairness ==
    /\ WF_vars(StreamStep)
    /\ \A r \in Runs : WF_vars(SettleRun(r))

FairSpec == Spec /\ Fairness

-----------------------------------------------------------------------------
(* Properties.                                                             *)

SentMessages == {sent[i].message : i \in {j \in DOMAIN sent : sent[j].type = "message"}}

\* A stream that says "done" has sent every message the run saved, the last ones
\* included, which are saved while the stream is between its reads - unless they
\* were cleared or deleted.
FinishedStreamIsComplete ==
    stream.phase = "ended" =>
        \A i \in DOMAIN messages[stream.run] :
            messages[stream.run][i] \in own => messages[stream.run][i] \in SentMessages

\* A client is told of an outcome only if it is the one the run has, and keeps
\* until it is deleted; "done" is always such an outcome.
OutcomeIsTrue ==
    \A i \in DOMAIN sent :
        /\ sent[i].type \in {"run_status", "done"} /\ sent[i].status # "running"
              => status[stream.run] \in {sent[i].status, "deleted"}
        /\ sent[i].type = "done" => sent[i].status # "running"

Position(m) == CHOOSE i \in DOMAIN log : log[i] = m

\* Messages are sent once and in the order they were saved, although every pass
\* reads all of them again and others are saved and cleared in between.
MessagesInOrder ==
    \A i, j \in DOMAIN sent :
        i < j /\ sent[i].type = "message" /\ sent[j].type = "message"
        => Position(sent[i].message) < Position(sent[j].message)

\* The stream of a run that a call works on, or that is settled, ends.  The
\* stream of a run that a crash left running polls until somebody deletes it.
StreamEnds ==
    stream.phase \notin Finished /\ (worked[stream.run] \/ status[stream.run] # "running")
    ~> stream.phase \in Finished
=============================================================================
