--------------------------- MODULE RunStream_proofs ---------------------------
(***************************************************************************)
(* Proofs about RunStream, for every set of runs and messages: what a      *)
(* client of the stream is sent is complete, true and in order.            *)
(*                                                                         *)
(* What orders the messages of a stream is a relation between three sets:  *)
(* those it sent, those of the batch that it has not come to, and those of *)
(* the conversation.  Every message of the batch was sent before or was    *)
(* saved after all that were sent; every message of the conversation is    *)
(* one of these or was saved after them.                                   *)
(***************************************************************************)
EXTENDS RunStream, TLAPS

Elements(s) == {s[i] : i \in DOMAIN s}

Injective(s) == \A i, j \in DOMAIN s : s[i] = s[j] => i = j

\* In log l, message m was saved before message n.
Before(l, m, n) == \E i, j \in DOMAIN l : i < j /\ l[i] = m /\ l[j] = n

Sorted(l, s) == \A i, j \in DOMAIN s : i < j => Before(l, s[i], s[j])

\* In log l, message m was saved after every message of S.
AfterAll(l, m, S) == \A k \in S : Before(l, k, m)

\* The messages the stream sent or has read.
Known == stream.emitted \cup Elements(stream.batch)

LogInv == Injective(log) /\ own \subseteq Elements(log)

MessagesInv == \A r \in Runs : Elements(messages[r]) \subseteq Elements(log) /\ Sorted(log, messages[r])

BatchInv ==
    /\ Known \subseteq Elements(log)
    /\ Sorted(log, stream.batch)
    /\ \A m \in Elements(stream.batch) : m \in stream.emitted \/ AfterAll(log, m, stream.emitted)

NextBatchInv ==
    \A m \in Elements(messages[stream.run]) : m \in Known \/ AfterAll(log, m, Known)

SentInv ==
    /\ stream.emitted = SentMessages
    /\ \A i, j \in DOMAIN sent :
          i < j /\ sent[i].type = "message" /\ sent[j].type = "message"
          => Before(log, sent[i].message, sent[j].message)

\* What the phase of the stream says of the run and of the batch.
PassInv ==
    /\ stream.phase \in {"run", "conversation", "messages", "ended"}
          => Elements(stream.batch) \subseteq stream.emitted
    /\ stream.phase # "closed" => status[stream.run] # "absent"
    /\ stream.phase = "run" => stream.loaded = "running"
    /\ stream.phase = "ended" => stream.loaded # "running"
    /\ stream.loaded # "running" => status[stream.run] \in {stream.loaded, "deleted"}
    /\ stream.phase \in {"send", "ended"} /\ stream.loaded # "running"
          => Elements(messages[stream.run]) \cap own \subseteq Known

StreamInv == /\ TypeOK /\ LogInv /\ MessagesInv /\ BatchInv /\ NextBatchInv /\ SentInv /\ PassInv
             /\ OutcomeIsTrue

-----------------------------------------------------------------------------
(* The state.                                                               *)

LEMMA StatusTypes ==
    /\ RunStatus = {"running", "succeeded", "failed"} /\ Life!Outcome = {"succeeded", "failed"}
BY DEF RunStatus, Life!Outcome

\* A stream that is opened.
LEMMA OpenedShape ==
    ASSUME NEW r \in Runs
    PROVE  /\ Opened(r) \in Stream /\ Opened(r).phase = "run" /\ Opened(r).run = r
           /\ Opened(r).loaded = "running" /\ Opened(r).batch = <<>> /\ Opened(r).emitted = {}
BY DEF Opened, Stream, Phase, RunStatus

\* A stream that goes on to phase p.
LEMMA PhaseShape ==
    ASSUME NEW x \in Stream, NEW p \in Phase, NEW y, y = [x EXCEPT !.phase = p]
    PROVE  /\ y \in Stream /\ y.phase = p
           /\ y.run = x.run /\ y.loaded = x.loaded /\ y.batch = x.batch
           /\ y.emitted = x.emitted /\ y.reported = x.reported
BY DEF Stream

LEMMA StreamFields ==
    ASSUME TypeOK
    PROVE  /\ stream \in Stream /\ stream.phase \in Phase /\ stream.run \in Runs
           /\ stream.loaded \in RunStatus /\ stream.batch \in Seq(Msgs)
           /\ stream.emitted \subseteq Msgs /\ stream.reported \in RunStatus \cup {"nothing"}
BY DEF TypeOK, Stream

\* The messages of a sequence are elements of its set.
LEMMA ElementsOf ==
    ASSUME NEW S, NEW s \in Seq(S)
    PROVE  /\ DOMAIN s = 1..Len(s) /\ Len(s) \in Nat
           /\ \A i \in DOMAIN s : s[i] \in Elements(s) /\ s[i] \in S
           /\ \A x \in Elements(s) : \E i \in DOMAIN s : s[i] = x
           /\ Elements(s) \subseteq S
BY DEF Elements

LEMMA ElementsOfAppend ==
    ASSUME NEW S, NEW s \in Seq(S), NEW x \in S
    PROVE  Elements(Append(s, x)) = Elements(s) \cup {x}
<1>1. Append(s, x) \in Seq(S) /\ Len(Append(s, x)) = Len(s) + 1
  OBVIOUS
<1>2. \A i \in 1..Len(s) : Append(s, x)[i] = s[i]
  OBVIOUS
<1>3. Append(s, x)[Len(s) + 1] = x
  OBVIOUS
<1>4. QED
  BY <1>1, <1>2, <1>3 DEF Elements

LEMMA ElementsOfEmpty == Elements(<<>>) = {}
BY DEF Elements

-----------------------------------------------------------------------------
(* The steps, as what they do to the fields of the stream.                  *)

\* The steps around the stream that save and delete no message.
RunStep == \/ \E r \in Runs : StartRun(r) \/ SettleRun(r) \/ AnnounceRun(r)
           \/ DeleteRuns

\* The status of a run only goes on: it starts, settles or is deleted.
LEMMA RunStepShape ==
    ASSUME TypeOK, RunStep
    PROVE  /\ UNCHANGED <<convVars, stream, sent>>
           /\ status' \in [Runs -> {"absent", "deleted"} \cup RunStatus]
           /\ worked' \in [Runs -> BOOLEAN]
           /\ \A r \in Runs : \/ status'[r] = status[r] \/ status[r] = "absent"
                              \/ status[r] = "running" /\ status'[r] # "absent"
                              \/ status'[r] = "deleted"
<1>1. CASE \E r \in Runs : StartRun(r)
  <2>1. PICK r \in Runs : StartRun(r)
    BY <1>1
  <2>2. status[r] = "absent" /\ status' = [status EXCEPT ![r] = "running"]
        /\ worked' = [worked EXCEPT ![r] = TRUE] /\ UNCHANGED <<convVars, stream, sent>>
    BY <2>1 DEF StartRun, Life!Start
  <2>3. worked' \in [Runs -> BOOLEAN]
    BY <2>2, Zenon DEF TypeOK
  <2>4. QED
    BY <2>2, <2>3, StatusTypes DEF TypeOK
<1>2. CASE \E r \in Runs : SettleRun(r)
  <2>1. PICK r \in Runs : SettleRun(r)
    BY <1>2
  <2>2. PICK s \in Life!Outcome : Life!Finish(r, s)
    BY <2>1 DEF SettleRun
  <2>3. status[r] = "running" /\ status' = [status EXCEPT ![r] = s]
        /\ worked' = [worked EXCEPT ![r] = FALSE] /\ UNCHANGED <<convVars, stream, sent>>
    BY <2>1, <2>2 DEF SettleRun, Life!Finish
  <2>4. worked' \in [Runs -> BOOLEAN]
    BY <2>3, Zenon DEF TypeOK
  <2>5. QED
    BY <2>3, <2>4, StatusTypes DEF TypeOK
<1>3. CASE \E r \in Runs : AnnounceRun(r)
  BY <1>3 DEF AnnounceRun, Life!Announce, TypeOK
<1>4. CASE DeleteRuns
  <2>1. PICK D \in SUBSET Runs : Life!Delete(D)
    BY <1>4 DEF DeleteRuns
  <2>2. status' = [r \in Runs |-> IF r \in D THEN "deleted" ELSE status[r]]
    BY <2>1 DEF Life!Delete
  <2>3. UNCHANGED <<worked, convVars, stream, sent>>
    BY <1>4 DEF DeleteRuns
  <2>4. QED
    BY <2>2, <2>3 DEF TypeOK
<1>5. QED
  BY <1>1, <1>2, <1>3, <1>4 DEF RunStep

\* The steps of the conversations.
MessageStep == \E r \in Runs : \/ \E m \in Msgs : SaveMessage(r, m)
                               \/ ClearMessages(r) \/ DeleteConversation(r)

\* The messages of a conversation are gone, or one was added that is new, and that is the
\* run's own only while the run is running.
LEMMA MessageStepShape ==
    ASSUME TypeOK, MessageStep
    PROVE  \E r \in Runs :
             /\ UNCHANGED <<runVars, stream, sent>>
             /\ conversation' \in [Runs -> {"present", "deleted"}]
             /\ \/ messages' = [messages EXCEPT ![r] = <<>>] /\ UNCHANGED <<log, own>>
                \/ \E m \in Msgs :
                      /\ m \notin Elements(log) /\ status[r] # "absent"
                      /\ messages' = [messages EXCEPT ![r] = Append(messages[r], m)]
                      /\ log' = Append(log, m)
                      /\ own' \in {own, own \cup {m}} /\ (own' # own => status[r] = "running")
<1>1. PICK r \in Runs : \/ \E m \in Msgs : SaveMessage(r, m)
                        \/ ClearMessages(r) \/ DeleteConversation(r)
  BY DEF MessageStep
<1>2. CASE \E m \in Msgs : SaveMessage(r, m)
  <2>1. PICK m \in Msgs : SaveMessage(r, m)
    BY <1>2
  <2>2. m \notin Elements(log)
    BY <2>1 DEF SaveMessage, Saved, Elements
  <2>3. conversation' = conversation
    BY <2>1 DEF SaveMessage
  <2>4. own' \in {own, own \cup {m}} /\ (own' # own => status[r] = "running")
    BY <2>1 DEF SaveMessage
  <2>5. /\ status[r] # "absent" /\ log' = Append(log, m)
        /\ messages' = [messages EXCEPT ![r] = Append(messages[r], m)]
        /\ UNCHANGED <<runVars, stream, sent>>
    BY <2>1 DEF SaveMessage
  <2>6. conversation' \in [Runs -> {"present", "deleted"}]
    BY <2>3 DEF TypeOK
  <2>7. QED
    BY <2>2, <2>4, <2>5, <2>6
<1>3. CASE ClearMessages(r)
  BY <1>3 DEF ClearMessages, TypeOK
<1>4. CASE DeleteConversation(r)
  BY <1>4 DEF DeleteConversation, TypeOK
<1>5. QED
  BY <1>1, <1>2, <1>3, <1>4

\* The steps that start or stop a stream, or read a row.
ControlStep == (\E r \in Runs : Open(r)) \/ Leave \/ ReadRun \/ ReadConversation \/ ReadMessages

\* A client opens the stream of a run.
LEMMA OpenStep ==
    ASSUME TypeOK, NEW r \in Runs, Open(r)
    PROVE  /\ UNCHANGED <<runVars, convVars>> /\ stream' = Opened(r) /\ sent' = <<>>
           /\ status[r] # "absent"
BY DEF Open

\* The stream goes on, with the status it read.
LEMMA ReadStep ==
    ASSUME TypeOK, Leave \/ ReadRun \/ ReadConversation,
           stream.phase # "closed" => status[stream.run] # "absent"
    PROVE  /\ UNCHANGED <<runVars, convVars, sent>>
           /\ stream' \in Stream /\ stream'.run = stream.run /\ stream'.batch = stream.batch
           /\ stream'.emitted = stream.emitted
           /\ \/ /\ stream.phase = "run" /\ stream'.phase = "conversation"
                 /\ stream'.loaded = status[stream.run] /\ status[stream.run] # "deleted"
              \/ /\ stream'.loaded = stream.loaded
                 /\ \/ stream'.phase \in {"closed", "broken"} /\ stream.phase # "closed"
                    \/ stream.phase = "conversation" /\ stream'.phase = "messages"
<1>1. stream \in Stream /\ UNCHANGED <<runVars, convVars, sent>>
  BY StreamFields DEF Leave, ReadRun, ReadConversation
<1>2. CASE stream.phase = "send" /\ stream' = [stream EXCEPT !.phase = "closed"]
  <2>1. "closed" \in Phase
    BY DEF Phase
  <2>2. QED
    BY <1>1, <1>2, <2>1, PhaseShape
<1>3. CASE stream.phase = "run" /\ stream' = [stream EXCEPT !.phase = "broken"]
  <2>1. "broken" \in Phase
    BY DEF Phase
  <2>2. QED
    BY <1>1, <1>3, <2>1, PhaseShape
<1>4. CASE ReadRun /\ Readable(stream.run)
  <2>1. /\ stream' = [stream EXCEPT !.loaded = status[stream.run], !.phase = "conversation"]
        /\ stream.phase = "run" /\ status[stream.run] # "deleted"
    BY <1>4 DEF ReadRun, Readable
  <2>2. status[stream.run] \in RunStatus
    BY <1>1, <2>1, StreamFields DEF TypeOK
  <2>3. stream' \in Stream /\ stream'.loaded = status[stream.run] /\ stream'.phase = "conversation"
        /\ stream'.run = stream.run /\ stream'.batch = stream.batch
        /\ stream'.emitted = stream.emitted
    BY <1>1, <2>1, <2>2 DEF Stream, Phase
  <2>4. QED
    BY <1>1, <2>1, <2>3
<1>5. CASE ReadConversation
  <2>1. PICK p \in {"messages", "broken"} : stream' = [stream EXCEPT !.phase = p]
    BY <1>5 DEF ReadConversation
  <2>2. p \in Phase /\ stream.phase = "conversation"
    BY <1>5 DEF ReadConversation, Phase
  <2>3. QED
    BY <1>1, <2>1, <2>2, PhaseShape
<1>6. QED
  BY <1>2, <1>3, <1>4, <1>5 DEF Leave, ReadRun, RunGone

\* The messages are read.
LEMMA ReadMessagesStep ==
    ASSUME TypeOK, ReadMessages
    PROVE  /\ UNCHANGED <<runVars, convVars, sent>> /\ stream.phase = "messages"
           /\ stream' \in Stream /\ stream'.run = stream.run /\ stream'.phase = "send"
           /\ stream'.batch = messages[stream.run] /\ stream'.loaded = stream.loaded
           /\ stream'.emitted = stream.emitted
<1>1. /\ messages[stream.run] \in Seq(Msgs) /\ stream \in Stream
      /\ stream' = [stream EXCEPT !.batch = messages[stream.run], !.phase = "send"]
  BY StreamFields DEF ReadMessages, TypeOK
<1>2. UNCHANGED <<runVars, convVars, sent>> /\ stream.phase = "messages"
  BY DEF ReadMessages
<1>3. QED
  BY <1>1, <1>2 DEF Stream, Phase

-----------------------------------------------------------------------------
(* What the stream sends.                                                   *)

\* The rest of a batch after its message i.
LEMMA RestOf ==
    ASSUME NEW s \in Seq(Msgs), NEW i \in DOMAIN s, NEW t, t = SubSeq(s, i + 1, Len(s))
    PROVE  /\ t \in Seq(Msgs) /\ Len(t) = Len(s) - i
           /\ \A j \in DOMAIN t : t[j] = s[i + j] /\ i + j \in DOMAIN s
           /\ \A j \in DOMAIN s : j > i => j - i \in DOMAIN t /\ t[j - i] = s[j]
<1>1. DOMAIN s = 1..Len(s) /\ Len(s) \in Nat /\ i \in 1..Len(s)
  OBVIOUS
<1>2. /\ t \in Seq(Msgs) /\ Len(t) = Len(s) - i
      /\ \A j \in 1..(Len(s) - i) : t[j] = s[i + j]
  BY <1>1
<1>3. DOMAIN t = 1..(Len(s) - i)
  BY <1>2
<1>4. QED
  BY <1>1, <1>2, <1>3, SMTT(30)

\* The message that is sent is new, and the batch goes on behind it.
LEMMA SendMessageStep ==
    ASSUME TypeOK, SendMessage
    PROVE  /\ UNCHANGED <<runVars, convVars>> /\ stream.phase = "send"
           /\ \E i \in DOMAIN stream.batch :
                /\ stream.batch[i] \notin stream.emitted
                /\ \A j \in DOMAIN stream.batch : j < i => stream.batch[j] \in stream.emitted
                /\ sent' = Append(sent, [type |-> "message", message |-> stream.batch[i]])
                /\ stream'.batch = SubSeq(stream.batch, i + 1, Len(stream.batch))
                /\ stream'.emitted = stream.emitted \cup {stream.batch[i]}
           /\ stream' \in Stream /\ stream'.run = stream.run /\ stream'.phase = "send"
           /\ stream'.loaded = stream.loaded
<1>1. UNCHANGED <<runVars, convVars>> /\ stream.phase = "send"
  BY DEF SendMessage
<1>2. PICK i \in DOMAIN stream.batch :
        /\ Due(i)
        /\ sent' = Append(sent, [type |-> "message", message |-> stream.batch[i]])
        /\ stream' = [stream EXCEPT !.batch = SubSeq(@, i + 1, Len(@)),
                                    !.emitted = @ \cup {stream.batch[i]}]
  BY DEF SendMessage
<1>3. stream \in Stream /\ stream.batch \in Seq(Msgs) /\ stream.batch[i] \in Msgs
      /\ stream.emitted \subseteq Msgs /\ DOMAIN stream.batch = 1..Len(stream.batch)
      /\ Len(stream.batch) \in Nat
  BY StreamFields, ElementsOf
<1>4. stream.batch[i] \notin stream.emitted
      /\ \A j \in DOMAIN stream.batch : j < i => stream.batch[j] \in stream.emitted
  BY <1>2, <1>3 DEF Due, New
<1>5. SubSeq(stream.batch, i + 1, Len(stream.batch)) \in Seq(Msgs)
  BY <1>3, RestOf
<1>6. stream' = [stream EXCEPT !.batch = SubSeq(stream.batch, i + 1, Len(stream.batch)),
                               !.emitted = stream.emitted \cup {stream.batch[i]}]
  BY <1>2
<1>7. ASSUME NEW b \in Seq(Msgs), NEW e \in SUBSET Msgs,
             stream' = [stream EXCEPT !.batch = b, !.emitted = e]
      PROVE  /\ stream' \in Stream /\ stream'.batch = b /\ stream'.emitted = e
             /\ stream'.run = stream.run /\ stream'.phase = stream.phase
             /\ stream'.loaded = stream.loaded
  BY <1>3, <1>7 DEF Stream
<1>8. stream.emitted \cup {stream.batch[i]} \in SUBSET Msgs
  BY <1>3
<1>9. /\ stream' \in Stream /\ stream'.batch = SubSeq(stream.batch, i + 1, Len(stream.batch))
      /\ stream'.emitted = stream.emitted \cup {stream.batch[i]}
      /\ stream'.run = stream.run /\ stream'.phase = stream.phase
      /\ stream'.loaded = stream.loaded
  BY <1>5, <1>6, <1>7, <1>8
<1>10. QED
  BY <1>1, <1>2, <1>4, <1>9

\* A status is sent, or the pass is over: the next one begins, or the stream is done.
LEMMA StatusStep ==
    ASSUME TypeOK, SendStatus \/ EndPass
    PROVE  /\ UNCHANGED <<runVars, convVars>> /\ stream.phase = "send"
           /\ \A i \in DOMAIN stream.batch : stream.batch[i] \in stream.emitted
           /\ stream' \in Stream /\ stream'.run = stream.run /\ stream'.loaded = stream.loaded
           /\ stream'.batch = stream.batch /\ stream'.emitted = stream.emitted
           /\ \/ /\ sent' = Append(sent, [type |-> "run_status", status |-> stream.loaded])
                 /\ stream'.phase = "send"
              \/ sent' = sent /\ stream.loaded = "running" /\ stream'.phase = "run"
              \/ /\ sent' = Append(sent, [type |-> "done", status |-> stream.loaded])
                 /\ stream.loaded # "running" /\ stream'.phase = "ended"
<1>1. /\ UNCHANGED <<runVars, convVars>> /\ stream.phase = "send"
      /\ \A i \in DOMAIN stream.batch : stream.batch[i] \in stream.emitted
  BY DEF SendStatus, EndPass, BatchIsSent, New
<1>2. stream \in Stream /\ stream.loaded \in RunStatus
  BY StreamFields
<1>3. CASE SendStatus
  <2>1. /\ sent' = Append(sent, [type |-> "run_status", status |-> stream.loaded])
        /\ stream' = [stream EXCEPT !.reported = stream.loaded]
    BY <1>3 DEF SendStatus
  <2>2. /\ stream' \in Stream /\ stream'.run = stream.run /\ stream'.loaded = stream.loaded
        /\ stream'.batch = stream.batch /\ stream'.emitted = stream.emitted
        /\ stream'.phase = stream.phase
    BY <1>2, <2>1 DEF Stream
  <2>3. QED
    BY <1>1, <2>1, <2>2
<1>4. CASE EndPass /\ stream.loaded = "running"
  <2>1. sent' = sent /\ stream' = [stream EXCEPT !.phase = "run"] /\ "run" \in Phase
    BY <1>4 DEF EndPass, StillRunning, Phase
  <2>2. QED
    BY <1>1, <1>2, <1>4, <2>1, PhaseShape
<1>5. CASE EndPass /\ stream.loaded # "running"
  <2>1. /\ sent' = Append(sent, [type |-> "done", status |-> stream.loaded])
        /\ stream' = [stream EXCEPT !.phase = "ended"] /\ "ended" \in Phase
    BY <1>5 DEF EndPass, StillRunning, DoneStatus, Phase
  <2>2. QED
    BY <1>1, <1>2, <1>5, <2>1, PhaseShape
<1>6. QED
  BY <1>3, <1>4, <1>5

\* Every step is one of these.
LEMMA StepsOfStream ==
    ASSUME Next
    PROVE  \/ RunStep \/ MessageStep \/ (\E r \in Runs : Open(r))
           \/ (Leave \/ ReadRun \/ ReadConversation) \/ ReadMessages
           \/ SendMessage \/ (SendStatus \/ EndPass)
BY DEF Next, StreamStep, RunStep, MessageStep

-----------------------------------------------------------------------------
(* Types.                                                                   *)

LEMMA EventTypes ==
    ASSUME NEW m \in Msgs, NEW s \in RunStatus
    PROVE  /\ [type |-> "message", message |-> m] \in Event
           /\ [type |-> "run_status", status |-> s] \in Event
           /\ [type |-> "done", status |-> s] \in Event
BY DEF Event

LEMMA TypesStep ==
    ASSUME TypeOK, [Next]_vars, stream.phase # "closed" => status[stream.run] # "absent"
    PROVE  TypeOK'
<1>1. CASE RunStep
  BY <1>1, RunStepShape DEF TypeOK, convVars
<1>2. CASE MessageStep
  <2>1. PICK r \in Runs :
          /\ UNCHANGED <<runVars, stream, sent>>
          /\ conversation' \in [Runs -> {"present", "deleted"}]
          /\ \/ messages' = [messages EXCEPT ![r] = <<>>] /\ UNCHANGED <<log, own>>
             \/ \E m \in Msgs :
                   /\ messages' = [messages EXCEPT ![r] = Append(messages[r], m)]
                   /\ log' = Append(log, m)
                   /\ own' \in {own, own \cup {m}}
    BY <1>2, MessageStepShape, Zenon
  <2>2. messages' \in [Runs -> Seq(Msgs)] /\ log' \in Seq(Msgs) /\ own' \subseteq Msgs
    <3>1. messages \in [Runs -> Seq(Msgs)] /\ log \in Seq(Msgs) /\ own \subseteq Msgs
      BY DEF TypeOK
    <3>2. CASE messages' = [messages EXCEPT ![r] = <<>>] /\ UNCHANGED <<log, own>>
      <4>1. <<>> \in Seq(Msgs)
        OBVIOUS
      <4>2. QED
        BY <3>1, <3>2, <4>1
    <3>3. CASE \E m \in Msgs :
                 /\ messages' = [messages EXCEPT ![r] = Append(messages[r], m)]
                 /\ log' = Append(log, m)
                 /\ own' \in {own, own \cup {m}}
      <4>1. PICK m \in Msgs :
              /\ messages' = [messages EXCEPT ![r] = Append(messages[r], m)]
              /\ log' = Append(log, m)
              /\ own' \in {own, own \cup {m}}
        BY <3>3
      <4>2. Append(messages[r], m) \in Seq(Msgs) /\ Append(log, m) \in Seq(Msgs)
        BY <3>1
      <4>3. QED
        BY <3>1, <4>1, <4>2
    <3>4. QED
      BY <2>1, <3>2, <3>3
  <2>3. QED
    BY <2>1, <2>2 DEF TypeOK, runVars
<1>3. CASE \E r \in Runs : Open(r)
  <2>1. PICK r \in Runs : Open(r)
    BY <1>3
  <2>2. sent' = <<>> /\ stream' \in Stream /\ UNCHANGED <<runVars, convVars>>
    BY <2>1, OpenStep, OpenedShape
  <2>3. <<>> \in Seq(Event)
    OBVIOUS
  <2>4. QED
    BY <2>2, <2>3 DEF TypeOK, runVars, convVars
<1>4. CASE Leave \/ ReadRun \/ ReadConversation
  BY <1>4, ReadStep DEF TypeOK, runVars, convVars
<1>5. CASE ReadMessages
  BY <1>5, ReadMessagesStep DEF TypeOK, runVars, convVars
<1>6. CASE SendMessage
  <2>1. PICK m \in Msgs : sent' = Append(sent, [type |-> "message", message |-> m])
    BY <1>6, SendMessageStep, StreamFields, ElementsOf
  <2>2. sent' \in Seq(Event)
    <3>1. [type |-> "message", message |-> m] \in Event
      BY EventTypes, StatusTypes
    <3>2. QED
      BY <2>1, <3>1 DEF TypeOK
  <2>3. QED
    BY <1>6, <2>2, SendMessageStep DEF TypeOK, runVars, convVars
<1>7. CASE SendStatus \/ EndPass
  <2>1. sent' \in Seq(Event)
    <3>1. \E e \in Event : sent' = sent \/ sent' = Append(sent, e)
      BY <1>7, StatusStep, StreamFields DEF Event
    <3>2. sent \in Seq(Event)
      BY DEF TypeOK
    <3>3. \A e \in Event : Append(sent, e) \in Seq(Event)
      BY <3>2
    <3>4. QED
      BY <3>1, <3>2, <3>3, Zenon
  <2>2. QED
    BY <1>7, <2>1, StatusStep DEF TypeOK, runVars, convVars
<1>8. CASE UNCHANGED vars
  BY <1>8 DEF TypeOK, vars, runVars, convVars
<1>9. QED
  BY <1>1, <1>2, <1>3, <1>4, <1>5, <1>6, <1>7, <1>8, StepsOfStream

-----------------------------------------------------------------------------
(* The order in which the messages are saved.                               *)

\* What was ordered stays ordered, and a new message is saved after all others.
LEMMA LogGrows ==
    ASSUME NEW l \in Seq(Msgs), NEW m \in Msgs, NEW k, k = Append(l, m)
    PROVE  /\ Injective(l) /\ m \notin Elements(l) => Injective(k)
           /\ \A a, b : Before(l, a, b) => Before(k, a, b)
           /\ \A a \in Elements(l) : Before(k, a, m)
           /\ Elements(k) = Elements(l) \cup {m}
<1>1. /\ DOMAIN l = 1..Len(l) /\ Len(l) \in Nat /\ DOMAIN k = 1..(Len(l) + 1)
      /\ \A i \in 1..Len(l) : k[i] = l[i] /\ l[i] \in Elements(l)
      /\ k[Len(l) + 1] = m
  BY ElementsOf
<1>2. Injective(l) /\ m \notin Elements(l) => Injective(k)
  BY <1>1 DEF Injective
<1>3. \A a, b : Before(l, a, b) => Before(k, a, b)
  BY <1>1 DEF Before
<1>4. \A a \in Elements(l) : Before(k, a, m)
  <2>1. SUFFICES ASSUME NEW a \in Elements(l) PROVE Before(k, a, m)
    OBVIOUS
  <2>2. PICK i \in DOMAIN l : l[i] = a
    BY ElementsOf
  <2>3. i \in DOMAIN k /\ Len(l) + 1 \in DOMAIN k /\ i < Len(l) + 1
        /\ k[i] = a /\ k[Len(l) + 1] = m
    BY <1>1, <2>2
  <2>4. QED
    BY <2>3 DEF Before
<1>5. Elements(k) = Elements(l) \cup {m}
  BY ElementsOfAppend
<1>6. QED
  BY <1>2, <1>3, <1>4, <1>5

\* A conversation that gets a new message stays in order.
LEMMA SortedAppend ==
    ASSUME NEW l \in Seq(Msgs), NEW m \in Msgs, NEW s \in Seq(Msgs),
           Sorted(l, s), Elements(s) \subseteq Elements(l)
    PROVE  Sorted(Append(l, m), Append(s, m))
<1> DEFINE k == Append(l, m)
<1>1. /\ \A a, b : Before(l, a, b) => Before(k, a, b)
      /\ \A a \in Elements(s) : Before(k, a, m)
  BY LogGrows
<1> HIDE DEF k
<1>2. /\ DOMAIN s = 1..Len(s) /\ Len(s) \in Nat /\ DOMAIN Append(s, m) = 1..(Len(s) + 1)
      /\ \A i \in 1..Len(s) : Append(s, m)[i] = s[i] /\ s[i] \in Elements(s)
      /\ Append(s, m)[Len(s) + 1] = m
  BY ElementsOf
<1>3. ASSUME NEW i \in 1..(Len(s) + 1), NEW j \in 1..(Len(s) + 1), i < j
      PROVE  Before(k, Append(s, m)[i], Append(s, m)[j])
  <2>1. i \in 1..Len(s)
    BY <1>2, <1>3
  <2>2. CASE j \in 1..Len(s)
    BY <1>1, <1>2, <1>3, <2>1, <2>2 DEF Sorted
  <2>3. CASE j = Len(s) + 1
    BY <1>1, <1>2, <2>1, <2>3
  <2>4. QED
    BY <1>2, <2>2, <2>3
<1>4. QED
  BY <1>2, <1>3 DEF Sorted, k

LogKept == /\ \A a, b : Before(log, a, b) => Before(log', a, b)
           /\ Elements(log) \subseteq Elements(log')

\* The log only grows, and the conversations stay in its order.
LEMMA LogStep ==
    ASSUME TypeOK, LogInv, MessagesInv, MessageStep \/ UNCHANGED <<log, own, messages>>
    PROVE  LogInv' /\ MessagesInv' /\ LogKept
<1>0. log \in Seq(Msgs) /\ own \subseteq Elements(log) /\ messages \in [Runs -> Seq(Msgs)]
  BY DEF TypeOK, LogInv
<1>1. CASE UNCHANGED <<log, own, messages>>
  BY <1>1 DEF LogInv, MessagesInv, LogKept
<1>2. CASE MessageStep
  <2>1. PICK r \in Runs :
          \/ messages' = [messages EXCEPT ![r] = <<>>] /\ UNCHANGED <<log, own>>
          \/ \E m \in Msgs :
                /\ m \notin Elements(log)
                /\ messages' = [messages EXCEPT ![r] = Append(messages[r], m)]
                /\ log' = Append(log, m)
                /\ own' \in {own, own \cup {m}}
    BY <1>2, MessageStepShape, Zenon
  <2>2. CASE messages' = [messages EXCEPT ![r] = <<>>] /\ UNCHANGED <<log, own>>
    <3>1. LogInv' /\ LogKept
      BY <2>2 DEF LogInv, LogKept
    <3>2. \A q \in Runs : messages'[q] = messages[q] \/ messages'[q] = <<>>
      BY <1>0, <2>2
    <3>3. Elements(<<>>) = {} /\ Sorted(log, <<>>)
      BY ElementsOfEmpty DEF Sorted
    <3>4. QED
      BY <2>2, <3>1, <3>2, <3>3 DEF MessagesInv
  <2>3. CASE \E m \in Msgs :
               /\ m \notin Elements(log)
               /\ messages' = [messages EXCEPT ![r] = Append(messages[r], m)]
               /\ log' = Append(log, m)
               /\ own' \in {own, own \cup {m}}
    <3>1. PICK m \in Msgs :
            /\ m \notin Elements(log)
            /\ messages' = [messages EXCEPT ![r] = Append(messages[r], m)]
            /\ log' = Append(log, m)
            /\ own' \in {own, own \cup {m}}
      BY <2>3
    <3>2. /\ Injective(log')
          /\ Elements(log') = Elements(log) \cup {m}
          /\ \A a, b : Before(log, a, b) => Before(log', a, b)
      BY <1>0, <3>1, LogGrows DEF LogInv
    <3>3. LogInv' /\ LogKept
      BY <1>0, <3>1, <3>2 DEF LogInv, LogKept
    <3>4. ASSUME NEW q \in Runs
          PROVE  Elements(messages'[q]) \subseteq Elements(log') /\ Sorted(log', messages'[q])
      <4>1. messages[q] \in Seq(Msgs) /\ Elements(messages[q]) \subseteq Elements(log)
            /\ Sorted(log, messages[q])
        BY <1>0 DEF MessagesInv
      <4>2. Sorted(log', Append(messages[q], m)) /\ Sorted(log', messages[q])
        BY <1>0, <3>1, <3>2, <4>1, SortedAppend DEF Sorted
      <4>3. Elements(Append(messages[q], m)) = Elements(messages[q]) \cup {m}
        BY <4>1, ElementsOfAppend
      <4>4. messages'[q] = messages[q] \/ messages'[q] = Append(messages[q], m)
        BY <1>0, <3>1
      <4>5. QED
        BY <3>2, <4>1, <4>2, <4>3, <4>4
    <3>5. QED
      BY <3>3, <3>4 DEF MessagesInv
  <2>4. QED
    BY <2>1, <2>2, <2>3
<1>3. QED
  BY <1>1, <1>2

-----------------------------------------------------------------------------
(* The batch.                                                               *)

\* The steps that leave the batch and what was sent alone.
LEMMA BatchKept ==
    ASSUME BatchInv, LogKept, stream'.batch = stream.batch, stream'.emitted = stream.emitted
    PROVE  BatchInv' /\ Known' = Known
<1>1. Known' = Known
  BY DEF Known
<1>2. Sorted(log', stream'.batch)
  BY DEF BatchInv, LogKept, Sorted
<1>3. \A m \in Elements(stream'.batch) : m \in stream'.emitted \/ AfterAll(log', m, stream'.emitted)
  BY DEF BatchInv, LogKept, AfterAll
<1>4. Known \subseteq Elements(log')
  BY DEF BatchInv, LogKept
<1>5. QED
  BY <1>1, <1>2, <1>3, <1>4 DEF BatchInv

\* The messages of a conversation change: what is new there was saved after all others.
LEMMA NextBatchOfMessages ==
    ASSUME TypeOK, LogInv, MessagesInv, BatchInv, NextBatchInv, MessageStep
    PROVE  NextBatchInv'
<1>1. LogKept
  BY LogStep
<1>2. PICK r \in Runs :
        /\ UNCHANGED <<runVars, stream, sent>>
        /\ \/ messages' = [messages EXCEPT ![r] = <<>>] /\ UNCHANGED <<log, own>>
           \/ \E m \in Msgs :
                 /\ m \notin Elements(log)
                 /\ messages' = [messages EXCEPT ![r] = Append(messages[r], m)]
                 /\ log' = Append(log, m)
  BY MessageStepShape, Zenon
<1>3. stream.run \in Runs /\ messages \in [Runs -> Seq(Msgs)] /\ log \in Seq(Msgs)
      /\ messages[stream.run] \in Seq(Msgs)
  BY StreamFields DEF TypeOK
<1>4. Known' = Known /\ Known \subseteq Elements(log)
  BY <1>2 DEF Known, BatchInv
<1>5. ASSUME NEW x \in Elements(messages'[stream.run])
      PROVE  x \in Known \/ AfterAll(log', x, Known)
  <2>1. CASE x \in Elements(messages[stream.run])
    BY <1>1, <2>1 DEF NextBatchInv, AfterAll, LogKept
  <2>2. CASE x \notin Elements(messages[stream.run])
    <3>1. PICK m \in Msgs : log' = Append(log, m) /\ x = m
      <4>1. messages'[stream.run] # <<>> /\ messages'[stream.run] # messages[stream.run]
        BY <1>5, <2>2, ElementsOfEmpty
      <4>2. PICK m \in Msgs : log' = Append(log, m)
                              /\ messages'[stream.run] = Append(messages[stream.run], m)
        BY <1>2, <1>3, <4>1
      <4>3. x = m
        BY <1>3, <1>5, <2>2, <4>2, ElementsOfAppend
      <4>4. QED
        BY <4>2, <4>3
    <3>2. \A a \in Elements(log) : Before(log', a, x)
      BY <1>3, <3>1, LogGrows
    <3>3. QED
      BY <1>4, <3>2 DEF AfterAll
  <2>3. QED
    BY <2>1, <2>2
<1>6. QED
  BY <1>2, <1>4, <1>5 DEF NextBatchInv

\* The batch goes on behind the message that is sent; all it held is still known.
LEMMA BatchSent ==
    ASSUME TypeOK, BatchInv, SendMessage
    PROVE  BatchInv' /\ Known' = Known
<1>1. PICK i \in DOMAIN stream.batch :
        /\ stream.batch[i] \notin stream.emitted
        /\ \A j \in DOMAIN stream.batch : j < i => stream.batch[j] \in stream.emitted
        /\ stream'.batch = SubSeq(stream.batch, i + 1, Len(stream.batch))
        /\ stream'.emitted = stream.emitted \cup {stream.batch[i]}
  BY SendMessageStep
<1> DEFINE b == stream.batch  c == stream'.batch
<1>2. b \in Seq(Msgs) /\ DOMAIN b = 1..Len(b) /\ Len(b) \in Nat
      /\ \A j \in DOMAIN b : b[j] \in Elements(b)
  BY StreamFields, ElementsOf
<1>3. /\ c \in Seq(Msgs) /\ DOMAIN c = 1..Len(c) /\ Len(c) \in Nat
      /\ \A j \in DOMAIN c : c[j] = b[i + j] /\ i + j \in DOMAIN b
      /\ \A j \in DOMAIN b : j > i => j - i \in DOMAIN c /\ c[j - i] = b[j]
  <2>1. c = SubSeq(b, i + 1, Len(b)) /\ i \in DOMAIN b
    BY <1>1
  <2> HIDE DEF b, c
  <2>2. /\ c \in Seq(Msgs)
        /\ \A j \in DOMAIN c : c[j] = b[i + j] /\ i + j \in DOMAIN b
        /\ \A j \in DOMAIN b : j > i => j - i \in DOMAIN c /\ c[j - i] = b[j]
    BY <1>2, <2>1, RestOf, SMTT(30)
  <2>3. QED
    BY <2>2
<1>4. UNCHANGED log
  BY SendMessageStep DEF convVars
<1> HIDE DEF b, c
<1>5. Elements(c) \subseteq Elements(b)
  BY <1>3 DEF Elements
<1>6. Elements(b) \subseteq stream'.emitted \cup Elements(c)
  <2>1. SUFFICES ASSUME NEW j \in DOMAIN b PROVE b[j] \in stream'.emitted \cup Elements(c)
    BY DEF Elements
  <2>2. CASE j < i
    BY <1>1, <2>2 DEF b
  <2>3. CASE j = i
    BY <1>1, <2>3 DEF b
  <2>4. CASE j > i
    BY <1>3, <2>4 DEF Elements
  <2>5. QED
    BY <1>1, <1>2, <2>2, <2>3, <2>4 DEF b
<1>7. Known' = Known
  <2>1. b[i] \in Elements(b)
    BY <1>1, <1>2 DEF b
  <2>2. stream'.emitted = stream.emitted \cup {b[i]}
    BY <1>1 DEF b
  <2>3. Known' = stream'.emitted \cup Elements(c) /\ Known = stream.emitted \cup Elements(b)
    BY DEF Known, b, c
  <2>4. QED
    BY <1>5, <1>6, <2>1, <2>2, <2>3
<1>8. Sorted(log', c)
  <2>1. Sorted(log, b)
    BY DEF BatchInv, b
  <2>2. \A j, k \in DOMAIN c : j < k => i + j < i + k
    BY <1>1, <1>2, <1>3 DEF b
  <2>3. QED
    BY <1>3, <1>4, <2>1, <2>2 DEF Sorted
<1>9. \A m \in Elements(c) : m \in stream'.emitted \/ AfterAll(log', m, stream'.emitted)
  <2>1. SUFFICES ASSUME NEW j \in DOMAIN c, c[j] \notin stream'.emitted
                 PROVE  AfterAll(log', c[j], stream'.emitted)
    BY DEF Elements
  <2>2. AfterAll(log, c[j], stream.emitted)
    <3>1. c[j] \in Elements(b)
      BY <1>2, <1>3
    <3>2. QED
      BY <1>1, <2>1, <3>1 DEF BatchInv, b
  <2>3. Before(log, b[i], c[j])
    <3>1. i \in DOMAIN b /\ i + j \in DOMAIN b /\ i < i + j /\ c[j] = b[i + j]
      BY <1>1, <1>2, <1>3 DEF b
    <3>2. QED
      BY <3>1 DEF BatchInv, Sorted, b
  <2>4. QED
    BY <1>1, <1>4, <2>2, <2>3 DEF AfterAll, b
<1>10. QED
  BY <1>4, <1>7, <1>8, <1>9 DEF BatchInv, c

\* The messages of the conversation are read when the batch before was sent.
LEMMA BatchRead ==
    ASSUME TypeOK, MessagesInv, BatchInv, NextBatchInv, PassInv, ReadMessages
    PROVE  /\ BatchInv' /\ NextBatchInv' /\ Known' = stream.emitted \cup Elements(messages[stream.run])
<1>1. /\ UNCHANGED <<log, messages>> /\ stream'.run = stream.run
      /\ stream'.batch = messages[stream.run] /\ stream'.emitted = stream.emitted
      /\ stream.run \in Runs
  BY ReadMessagesStep, StreamFields DEF convVars
<1>2. Known = stream.emitted
  BY ReadMessagesStep DEF PassInv, Known
<1>3. Known' = stream.emitted \cup Elements(messages[stream.run])
  BY <1>1 DEF Known
<1>4. Elements(messages[stream.run]) \subseteq Elements(log) /\ Sorted(log, messages[stream.run])
  BY <1>1 DEF MessagesInv
<1>5. BatchInv'
  <2>1. Known' \subseteq Elements(log')
    BY <1>1, <1>2, <1>3, <1>4 DEF BatchInv
  <2>2. \A m \in Elements(messages[stream.run]) :
           m \in stream.emitted \/ AfterAll(log, m, stream.emitted)
    BY <1>2 DEF NextBatchInv
  <2>3. QED
    BY <1>1, <1>4, <2>1, <2>2 DEF BatchInv
<1>6. NextBatchInv'
  BY <1>1, <1>3 DEF NextBatchInv
<1>7. QED
  BY <1>3, <1>5, <1>6

LEMMA BatchStep ==
    ASSUME TypeOK, LogInv, MessagesInv, BatchInv, NextBatchInv, PassInv, [Next]_vars
    PROVE  BatchInv' /\ NextBatchInv'
<1>0. stream.phase # "closed" => status[stream.run] # "absent"
  BY DEF PassInv
<1>1. ASSUME UNCHANGED <<log, messages>>, stream'.run = stream.run,
             stream'.batch = stream.batch, stream'.emitted = stream.emitted
      PROVE  BatchInv' /\ NextBatchInv'
  BY <1>1, BatchKept DEF NextBatchInv, LogKept
<1>2. CASE RunStep
  BY <1>1, <1>2, RunStepShape DEF convVars
<1>3. CASE MessageStep
  <2>1. LogKept
    BY <1>3, LogStep
  <2>2. stream' = stream
    BY <1>3, MessageStepShape
  <2>3. QED
    BY <1>3, <2>1, <2>2, BatchKept, NextBatchOfMessages
<1>4. CASE \E r \in Runs : Open(r)
  <2>1. PICK r \in Runs : stream' = Opened(r)
    BY <1>4, OpenStep
  <2>2. stream'.batch = <<>> /\ stream'.emitted = {}
    BY <2>1, OpenedShape
  <2>3. Known' = {} /\ Elements(stream'.batch) = {} /\ Sorted(log', stream'.batch)
    BY <2>2, ElementsOfEmpty DEF Known, Sorted
  <2>4. QED
    BY <2>3 DEF BatchInv, NextBatchInv, AfterAll
<1>5. CASE Leave \/ ReadRun \/ ReadConversation
  BY <1>0, <1>1, <1>5, ReadStep DEF convVars
<1>6. CASE ReadMessages
  BY <1>6, BatchRead
<1>7. CASE SendMessage
  <2>1. UNCHANGED <<log, messages>> /\ stream'.run = stream.run
    BY <1>7, SendMessageStep DEF convVars
  <2>2. BatchInv' /\ Known' = Known
    BY <1>7, BatchSent
  <2>3. QED
    BY <2>1, <2>2 DEF NextBatchInv
<1>8. CASE SendStatus \/ EndPass
  BY <1>1, <1>8, StatusStep DEF convVars
<1>9. CASE UNCHANGED vars
  BY <1>1, <1>9 DEF vars, convVars
<1>10. QED
  BY <1>2, <1>3, <1>4, <1>5, <1>6, <1>7, <1>8, <1>9, StepsOfStream

-----------------------------------------------------------------------------
(* What was sent.                                                           *)

\* One more event.
LEMMA SentGrows ==
    ASSUME NEW s \in Seq(Event), NEW e \in Event, NEW t, t = Append(s, e)
    PROVE  /\ DOMAIN s = 1..Len(s) /\ Len(s) \in Nat /\ DOMAIN t = 1..(Len(s) + 1)
           /\ \A i \in 1..Len(s) : t[i] = s[i]
           /\ t[Len(s) + 1] = e
OBVIOUS

LEMMA SentStep ==
    ASSUME TypeOK, LogKept, BatchInv, SentInv, [Next]_vars,
           stream.phase # "closed" => status[stream.run] # "absent"
    PROVE  SentInv'
<1>0. sent \in Seq(Event)
  BY DEF TypeOK
<1>1. ASSUME sent' = sent, stream'.emitted = stream.emitted PROVE SentInv'
  <2>1. SentMessages' = SentMessages
    BY <1>1 DEF SentMessages
  <2>2. QED
    BY <1>1, <2>1 DEF SentInv, LogKept
<1>2. ASSUME NEW s \in RunStatus, NEW ty \in {"run_status", "done"}, stream'.emitted = stream.emitted,
             sent' = Append(sent, [type |-> ty, status |-> s])
      PROVE  SentInv'
  <2>1. /\ DOMAIN sent = 1..Len(sent) /\ Len(sent) \in Nat /\ DOMAIN sent' = 1..(Len(sent) + 1)
        /\ \A i \in 1..Len(sent) : sent'[i] = sent[i]
        /\ sent'[Len(sent) + 1] = [type |-> ty, status |-> s]
    BY <1>0, <1>2, SentGrows, EventTypes, StatusTypes DEF Event
  <2>2. sent'[Len(sent) + 1].type # "message"
    BY <2>1
  <2>3. \A i \in DOMAIN sent' : sent'[i].type = "message" => i \in DOMAIN sent /\ sent'[i] = sent[i]
    BY <2>1, <2>2
  <2>4. \A i \in DOMAIN sent : i \in DOMAIN sent' /\ sent'[i] = sent[i]
    BY <2>1
  <2>5. SentMessages' = SentMessages
    BY <2>3, <2>4 DEF SentMessages
  <2>6. QED
    BY <1>2, <2>3, <2>5 DEF SentInv, LogKept
<1>3. CASE RunStep
  BY <1>1, <1>3, RunStepShape
<1>4. CASE MessageStep
  BY <1>1, <1>4, MessageStepShape
<1>5. CASE \E r \in Runs : Open(r)
  <2>1. PICK r \in Runs : stream' = Opened(r) /\ sent' = <<>>
    BY <1>5, OpenStep
  <2>2. stream'.emitted = {} /\ DOMAIN sent' = {}
    BY <2>1, OpenedShape
  <2>3. SentMessages' = {}
    BY <2>2 DEF SentMessages
  <2>4. QED
    BY <2>2, <2>3 DEF SentInv
<1>6. CASE Leave \/ ReadRun \/ ReadConversation
  BY <1>1, <1>6, ReadStep
<1>7. CASE ReadMessages
  BY <1>1, <1>7, ReadMessagesStep
<1>8. CASE SendMessage
  <2>1. PICK i \in DOMAIN stream.batch :
          /\ stream.batch[i] \notin stream.emitted
          /\ sent' = Append(sent, [type |-> "message", message |-> stream.batch[i]])
          /\ stream'.emitted = stream.emitted \cup {stream.batch[i]}
    BY <1>8, SendMessageStep
  <2> DEFINE m == stream.batch[i]
  <2>2. m \in Msgs /\ m \in Elements(stream.batch) /\ m \notin stream.emitted
    BY <2>1, StreamFields, ElementsOf
  <2>3. \A k \in stream.emitted : Before(log', k, m)
    BY <2>2 DEF BatchInv, AfterAll, LogKept
  <2>4. sent' = Append(sent, [type |-> "message", message |-> m])
        /\ stream'.emitted = stream.emitted \cup {m}
    BY <2>1
  <2> HIDE DEF m
  <2>5. [type |-> "message", message |-> m] \in Event
    BY <2>2, EventTypes, StatusTypes
  <2>6. /\ DOMAIN sent = 1..Len(sent) /\ Len(sent) \in Nat /\ DOMAIN sent' = 1..(Len(sent) + 1)
        /\ \A j \in 1..Len(sent) : sent'[j] = sent[j]
        /\ sent'[Len(sent) + 1] = [type |-> "message", message |-> m]
    BY <1>0, <2>4, <2>5, SentGrows
  <2>7. sent'[Len(sent) + 1].type = "message" /\ sent'[Len(sent) + 1].message = m
    BY <2>6
  <2>8. SentMessages' = SentMessages \cup {m}
    <3>1. \A x : x \in SentMessages' <=>
                 \E j \in DOMAIN sent' : sent'[j].type = "message" /\ sent'[j].message = x
      BY DEF SentMessages
    <3>2. \A x : x \in SentMessages <=>
                 \E j \in DOMAIN sent : sent[j].type = "message" /\ sent[j].message = x
      BY DEF SentMessages
    <3>3. DOMAIN sent' = DOMAIN sent \cup {Len(sent) + 1}
      BY <2>6
    <3>4. \A x : x \in SentMessages' <=> x \in SentMessages \/ x = m
      BY <2>6, <2>7, <3>1, <3>2, <3>3
    <3>5. QED
      BY <3>4
  <2>9. \A j \in DOMAIN sent : sent[j].type = "message" => sent[j].message \in stream.emitted
    BY DEF SentInv, SentMessages
  <2>10. ASSUME NEW j \in DOMAIN sent', NEW k \in DOMAIN sent', j < k,
                sent'[j].type = "message", sent'[k].type = "message"
         PROVE  Before(log', sent'[j].message, sent'[k].message)
    <3>1. j \in DOMAIN sent /\ sent'[j] = sent[j]
      BY <2>6, <2>10
    <3>2. CASE k = Len(sent) + 1
      BY <2>3, <2>7, <2>9, <2>10, <3>1, <3>2
    <3>3. CASE k # Len(sent) + 1
      <4>1. k \in DOMAIN sent /\ sent'[k] = sent[k]
        BY <2>6, <3>3
      <4>2. QED
        BY <2>10, <3>1, <4>1 DEF SentInv, LogKept
    <3>4. QED
      BY <3>2, <3>3
  <2>11. QED
    BY <2>4, <2>8, <2>10 DEF SentInv
<1>9. CASE SendStatus \/ EndPass
  <2>1. stream.loaded \in RunStatus /\ stream'.emitted = stream.emitted
    BY <1>9, StatusStep, StreamFields
  <2>2. \/ sent' = sent
        \/ \E ty \in {"run_status", "done"} :
              sent' = Append(sent, [type |-> ty, status |-> stream.loaded])
    BY <1>9, StatusStep
  <2>3. QED
    BY <1>1, <1>2, <2>1, <2>2
<1>10. CASE UNCHANGED vars
  BY <1>1, <1>10 DEF vars
<1>11. QED
  BY <1>3, <1>4, <1>5, <1>6, <1>7, <1>8, <1>9, <1>10, StepsOfStream

-----------------------------------------------------------------------------
(* The status, and what a pass has read.                                    *)

\* A status that was read stays the one the run has, until it is deleted.
LEMMA StatusKept ==
    ASSUME TypeOK, NEW r \in Runs, [Next]_vars
    PROVE  /\ status'[r] = status[r] \/ RunStep
           /\ status[r] # "absent" => status'[r] # "absent"
           /\ \A s \in RunStatus : s # "running" /\ status[r] \in {s, "deleted"}
                                   => status'[r] \in {s, "deleted"}
<1>1. status'[r] = status[r] \/ RunStep
  <2>1. CASE MessageStep
    BY <2>1, MessageStepShape DEF runVars
  <2>2. CASE status' = status
    BY <2>2
  <2>3. Next => RunStep \/ MessageStep \/ status' = status
    BY DEF Next, StreamStep, RunStep, MessageStep, Open, Leave, ReadRun, ReadConversation,
           ReadMessages, SendMessage, SendStatus, EndPass, runVars
  <2>4. QED
    BY <2>1, <2>2, <2>3 DEF vars, runVars
<1>2. CASE RunStep
  <2>1. \/ status'[r] = status[r] \/ status[r] = "absent"
        \/ status[r] = "running" /\ status'[r] # "absent"
        \/ status'[r] = "deleted"
    BY <1>2, RunStepShape
  <2>2. CASE status[r] = "absent"
    BY <1>2, <2>2, StatusTypes
  <2>3. CASE status[r] # "absent"
    BY <1>2, <2>1, <2>3, StatusTypes
  <2>4. QED
    BY <2>2, <2>3
<1>3. QED
  BY <1>1, <1>2

LEMMA OutcomeStep ==
    ASSUME TypeOK, PassInv, OutcomeIsTrue, [Next]_vars
    PROVE  OutcomeIsTrue'
<1>0. sent \in Seq(Event) /\ stream.run \in Runs /\ stream.loaded \in RunStatus
      /\ (stream.phase # "closed" => status[stream.run] # "absent")
  BY StreamFields DEF TypeOK, PassInv
<1>1. ASSUME NEW i \in DOMAIN sent, sent[i].type \in {"run_status", "done"}
      PROVE  sent[i].status \in RunStatus
  <2>1. sent[i] \in Event
    BY <1>0, ElementsOf
  <2>2. QED
    BY <1>1, <2>1 DEF Event
<1>2. ASSUME stream'.run = stream.run, NEW i \in DOMAIN sent
      PROVE  /\ sent[i].type \in {"run_status", "done"} /\ sent[i].status # "running"
                    => status'[stream'.run] \in {sent[i].status, "deleted"}
             /\ sent[i].type = "done" => sent[i].status # "running"
  BY <1>0, <1>1, <1>2, StatusKept DEF OutcomeIsTrue
<1>3. ASSUME stream'.run = stream.run, sent' = sent PROVE OutcomeIsTrue'
  BY <1>2, <1>3 DEF OutcomeIsTrue
<1>4. ASSUME stream'.run = stream.run, NEW e \in Event, sent' = Append(sent, e), UNCHANGED status,
             e.type \in {"run_status", "done"} => e.status = stream.loaded,
             e.type = "done" => stream.loaded # "running"
      PROVE  OutcomeIsTrue'
  <2>1. /\ DOMAIN sent = 1..Len(sent) /\ Len(sent) \in Nat /\ DOMAIN sent' = 1..(Len(sent) + 1)
        /\ \A i \in 1..Len(sent) : sent'[i] = sent[i]
        /\ sent'[Len(sent) + 1] = e
    BY <1>0, <1>4, SentGrows
  <2>2. e.type \in {"run_status", "done"} /\ e.status # "running"
          => status'[stream'.run] \in {e.status, "deleted"}
    BY <1>4 DEF PassInv
  <2>3. QED
    BY <1>2, <1>4, <2>1, <2>2 DEF OutcomeIsTrue
<1>5. CASE RunStep
  BY <1>3, <1>5, RunStepShape
<1>6. CASE MessageStep
  BY <1>3, <1>6, MessageStepShape
<1>7. CASE \E r \in Runs : Open(r)
  BY <1>7, OpenStep DEF OutcomeIsTrue
<1>8. CASE Leave \/ ReadRun \/ ReadConversation
  BY <1>0, <1>3, <1>8, ReadStep
<1>9. CASE ReadMessages
  BY <1>3, <1>9, ReadMessagesStep
<1>10. CASE SendMessage
  <2>1. PICK m \in Msgs : sent' = Append(sent, [type |-> "message", message |-> m])
    BY <1>10, SendMessageStep, StreamFields, ElementsOf
  <2>2. stream'.run = stream.run /\ UNCHANGED status
    BY <1>10, SendMessageStep DEF runVars
  <2>3. QED
    BY <1>4, <2>1, <2>2, EventTypes, StatusTypes
<1>11. CASE SendStatus \/ EndPass
  <2>1. stream'.run = stream.run /\ UNCHANGED status
    BY <1>11, StatusStep DEF runVars
  <2>2. \/ sent' = sent
        \/ sent' = Append(sent, [type |-> "run_status", status |-> stream.loaded])
        \/ sent' = Append(sent, [type |-> "done", status |-> stream.loaded])
           /\ stream.loaded # "running"
    BY <1>11, StatusStep
  <2>3. CASE sent' = sent
    BY <1>3, <2>1, <2>3
  <2>4. CASE sent' = Append(sent, [type |-> "run_status", status |-> stream.loaded])
    <3>1. [type |-> "run_status", status |-> stream.loaded] \in Event
      BY <1>0 DEF Event
    <3>2. QED
      BY <1>4, <2>1, <2>4, <3>1
  <2>5. CASE sent' = Append(sent, [type |-> "done", status |-> stream.loaded])
             /\ stream.loaded # "running"
    <3>1. [type |-> "done", status |-> stream.loaded] \in Event
      BY <1>0 DEF Event
    <3>2. QED
      BY <1>4, <2>1, <2>5, <3>1
  <2>6. QED
    BY <2>2, <2>3, <2>4, <2>5
<1>12. CASE UNCHANGED vars
  BY <1>3, <1>12 DEF vars
<1>13. QED
  BY <1>5, <1>6, <1>7, <1>8, <1>9, <1>10, <1>11, <1>12, StepsOfStream

\* While a stream is on its last pass its run is settled, and saves nothing more.
LEMMA LastPassOfMessages ==
    ASSUME TypeOK, LogInv, MessagesInv, PassInv, MessageStep,
           stream.phase \in {"send", "ended"}, stream.loaded # "running"
    PROVE  Elements(messages'[stream.run]) \cap own' \subseteq Known
<1>1. PICK r \in Runs :
        \/ messages' = [messages EXCEPT ![r] = <<>>] /\ UNCHANGED <<log, own>>
        \/ \E m \in Msgs :
              /\ m \notin Elements(log)
              /\ messages' = [messages EXCEPT ![r] = Append(messages[r], m)]
              /\ own' \in {own, own \cup {m}} /\ (own' # own => status[r] = "running")
  BY MessageStepShape, Zenon
<1>2. /\ messages \in [Runs -> Seq(Msgs)] /\ stream.run \in Runs
      /\ messages[stream.run] \in Seq(Msgs) /\ own \subseteq Elements(log)
      /\ status[stream.run] # "running" /\ Elements(messages[stream.run]) \cap own \subseteq Known
  BY StreamFields, StatusTypes DEF TypeOK, LogInv, PassInv
<1>3. CASE messages' = [messages EXCEPT ![r] = <<>>] /\ UNCHANGED <<log, own>>
  <2>1. messages'[stream.run] = messages[stream.run] \/ messages'[stream.run] = <<>>
    BY <1>2, <1>3
  <2>2. QED
    BY <1>2, <1>3, <2>1, ElementsOfEmpty
<1>4. CASE \E m \in Msgs :
             /\ m \notin Elements(log)
             /\ messages' = [messages EXCEPT ![r] = Append(messages[r], m)]
             /\ own' \in {own, own \cup {m}} /\ (own' # own => status[r] = "running")
  <2>1. PICK m \in Msgs :
          /\ m \notin Elements(log)
          /\ messages' = [messages EXCEPT ![r] = Append(messages[r], m)]
          /\ own' \in {own, own \cup {m}} /\ (own' # own => status[r] = "running")
    BY <1>4
  <2>2. CASE r = stream.run
    <3>1. own' = own /\ messages'[stream.run] = Append(messages[stream.run], m)
      BY <1>2, <2>1, <2>2
    <3>2. Elements(messages'[stream.run]) = Elements(messages[stream.run]) \cup {m}
      BY <1>2, <3>1, ElementsOfAppend
    <3>3. QED
      BY <1>2, <2>1, <3>1, <3>2
  <2>3. CASE r # stream.run
    <3>1. messages'[stream.run] = messages[stream.run]
      BY <1>2, <2>1, <2>3
    <3>2. m \notin Elements(messages[stream.run])
      BY <1>2, <2>1 DEF MessagesInv
    <3>3. QED
      BY <1>2, <2>1, <3>1, <3>2
  <2>4. QED
    BY <2>2, <2>3
<1>5. QED
  BY <1>1, <1>3, <1>4

LEMMA PassStep ==
    ASSUME TypeOK, LogInv, MessagesInv, BatchInv, NextBatchInv, PassInv, [Next]_vars
    PROVE  PassInv'
<1>0. /\ stream.run \in Runs /\ stream.loaded \in RunStatus
      /\ (stream.phase # "closed" => status[stream.run] # "absent")
  BY StreamFields DEF PassInv
<1>1. /\ (stream.phase # "closed" => status'[stream.run] # "absent")
      /\ (stream.loaded # "running" => status'[stream.run] \in {stream.loaded, "deleted"})
  BY <1>0, StatusKept DEF PassInv
<1>2. ASSUME UNCHANGED <<stream, messages, own>> PROVE PassInv'
  <2>1. Known' = Known
    BY <1>2 DEF Known
  <2>2. QED
    BY <1>1, <1>2, <2>1 DEF PassInv
<1>3. CASE RunStep
  BY <1>2, <1>3, RunStepShape DEF convVars
<1>4. CASE MessageStep
  <2>1. stream' = stream
    BY <1>4, MessageStepShape
  <2>2. Known' = Known
    BY <2>1 DEF Known
  <2>3. stream.phase \in {"send", "ended"} /\ stream.loaded # "running"
          => Elements(messages'[stream.run]) \cap own' \subseteq Known
    BY <1>4, LastPassOfMessages
  <2>4. QED
    BY <1>1, <2>1, <2>2, <2>3 DEF PassInv
<1>5. CASE \E r \in Runs : Open(r)
  <2>1. PICK r \in Runs : stream' = Opened(r) /\ status[r] # "absent" /\ UNCHANGED <<runVars, convVars>>
    BY <1>5, OpenStep
  <2>2. stream'.phase = "run" /\ stream'.run = r /\ stream'.loaded = "running" /\ stream'.batch = <<>>
    BY <2>1, OpenedShape
  <2>3. Elements(stream'.batch) = {}
    BY <2>2, ElementsOfEmpty
  <2>4. status' = status
    BY <2>1 DEF runVars
  <2>5. QED
    BY <2>1, <2>2, <2>3, <2>4 DEF PassInv
<1>6. CASE Leave \/ ReadRun \/ ReadConversation
  <2>1. /\ stream'.run = stream.run /\ stream'.batch = stream.batch
        /\ stream'.emitted = stream.emitted /\ status' = status
        /\ \/ /\ stream.phase = "run" /\ stream'.phase = "conversation"
              /\ stream'.loaded = status[stream.run] /\ status[stream.run] # "deleted"
           \/ /\ stream'.loaded = stream.loaded
              /\ \/ stream'.phase \in {"closed", "broken"} /\ stream.phase # "closed"
                 \/ stream.phase = "conversation" /\ stream'.phase = "messages"
    BY <1>0, <1>6, ReadStep DEF runVars
  <2>2. QED
    BY <1>0, <2>1 DEF PassInv
<1>7. CASE ReadMessages
  <2>1. /\ stream'.run = stream.run /\ stream'.loaded = stream.loaded /\ stream'.phase = "send"
        /\ stream.phase = "messages" /\ UNCHANGED <<status, messages, own>>
    BY <1>7, ReadMessagesStep DEF runVars, convVars
  <2>2. Known' = stream.emitted \cup Elements(messages[stream.run])
    BY <1>7, BatchRead
  <2>3. QED
    BY <2>1, <2>2 DEF PassInv
<1>8. CASE SendMessage
  <2>1. /\ stream'.run = stream.run /\ stream'.loaded = stream.loaded /\ stream'.phase = "send"
        /\ stream.phase = "send" /\ UNCHANGED <<status, messages, own>>
    BY <1>8, SendMessageStep DEF runVars, convVars
  <2>2. Known' = Known
    BY <1>8, BatchSent
  <2>3. QED
    BY <2>1, <2>2 DEF PassInv
<1>9. CASE SendStatus \/ EndPass
  <2>1. /\ stream'.run = stream.run /\ stream'.loaded = stream.loaded /\ stream.phase = "send"
        /\ stream'.batch = stream.batch /\ stream'.emitted = stream.emitted
        /\ UNCHANGED <<status, messages, own>>
        /\ \/ stream'.phase = "send"
           \/ stream'.phase = "run" /\ stream.loaded = "running"
           \/ stream'.phase = "ended" /\ stream.loaded # "running"
    BY <1>9, StatusStep DEF runVars, convVars
  <2>2. Elements(stream.batch) \subseteq stream.emitted
    BY <1>9, StatusStep DEF Elements
  <2>3. Known' = Known
    BY <2>1 DEF Known
  <2>4. QED
    BY <2>1, <2>2, <2>3 DEF PassInv
<1>10. CASE UNCHANGED vars
  BY <1>2, <1>10 DEF vars, convVars
<1>11. QED
  BY <1>3, <1>4, <1>5, <1>6, <1>7, <1>8, <1>9, <1>10, StepsOfStream

-----------------------------------------------------------------------------
(* The theorems.                                                            *)

LEMMA StreamInit == Init => StreamInv
<1>1. SUFFICES ASSUME Init PROVE StreamInv
  OBVIOUS
<1>2. PICK r \in Runs : stream = [Opened(r) EXCEPT !.phase = "closed"]
  BY <1>1 DEF Init
<1>3. /\ stream \in Stream /\ stream.phase = "closed" /\ stream.run = r
      /\ stream.loaded = "running" /\ stream.batch = <<>> /\ stream.emitted = {}
  <2>1. "closed" \in Phase
    BY DEF Phase
  <2>2. QED
    BY <1>2, <2>1, OpenedShape, PhaseShape
<1>4. <<>> \in Seq(Msgs) /\ <<>> \in Seq(Event)
  OBVIOUS
<1>5. /\ status \in [Runs -> {"absent", "running"}] /\ sent = <<>> /\ log = <<>> /\ own = {}
      /\ messages = [q \in Runs |-> <<>>] /\ conversation = [q \in Runs |-> "present"]
      /\ worked = [q \in Runs |-> FALSE]
  BY <1>1 DEF Init
<1>6. TypeOK
  <2>1. worked \in [Runs -> BOOLEAN]
    BY <1>5, Zenon
  <2>2. status \in [Runs -> {"absent", "deleted"} \cup RunStatus]
    BY <1>5, StatusTypes
  <2>3. messages \in [Runs -> Seq(Msgs)] /\ conversation \in [Runs -> {"present", "deleted"}]
    BY <1>4, <1>5
  <2>4. log \in Seq(Msgs) /\ sent \in Seq(Event) /\ own \subseteq Msgs
    BY <1>4, <1>5
  <2>5. QED
    BY <1>3, <2>1, <2>2, <2>3, <2>4 DEF TypeOK
<1>7. LogInv /\ MessagesInv
  BY <1>5, ElementsOfEmpty DEF LogInv, MessagesInv, Injective, Sorted
<1>8. Known = {} /\ Elements(stream.batch) = {}
  BY <1>3, ElementsOfEmpty DEF Known
<1>9. BatchInv /\ NextBatchInv
  BY <1>3, <1>8 DEF BatchInv, NextBatchInv, AfterAll, Sorted
<1>10. SentInv /\ OutcomeIsTrue
  <2>1. DOMAIN sent = {}
    BY <1>5
  <2>2. SentMessages = {}
    BY <2>1 DEF SentMessages
  <2>3. QED
    BY <1>3, <2>1, <2>2 DEF SentInv, OutcomeIsTrue
<1>11. PassInv
  BY <1>3, <1>8 DEF PassInv
<1>12. QED
  BY <1>6, <1>7, <1>9, <1>10, <1>11 DEF StreamInv

LEMMA StreamNext == StreamInv /\ [Next]_vars => StreamInv'
<1>1. SUFFICES ASSUME StreamInv, [Next]_vars PROVE StreamInv'
  OBVIOUS
<1>2. /\ TypeOK /\ LogInv /\ MessagesInv /\ BatchInv /\ NextBatchInv /\ SentInv /\ PassInv
      /\ OutcomeIsTrue
  BY <1>1 DEF StreamInv
<1>3. stream.phase # "closed" => status[stream.run] # "absent"
  BY <1>2 DEF PassInv
<1>4. LogInv' /\ MessagesInv' /\ LogKept
  <2>1. Next => MessageStep \/ UNCHANGED <<log, own, messages>>
    BY DEF Next, StreamStep, MessageStep, StartRun, SettleRun, AnnounceRun, DeleteRuns, Open,
           Leave, ReadRun, ReadConversation, ReadMessages, SendMessage, SendStatus, EndPass, convVars
  <2>2. MessageStep \/ UNCHANGED <<log, own, messages>>
    BY <1>1, <2>1 DEF vars, convVars
  <2>3. QED
    BY <1>2, <2>2, LogStep
<1>5. TypeOK'
  BY <1>1, <1>2, <1>3, TypesStep
<1>6. BatchInv' /\ NextBatchInv'
  BY <1>1, <1>2, BatchStep
<1>7. SentInv'
  BY <1>1, <1>2, <1>3, <1>4, SentStep
<1>8. PassInv'
  BY <1>1, <1>2, PassStep
<1>9. OutcomeIsTrue'
  BY <1>1, <1>2, OutcomeStep
<1>10. QED
  BY <1>4, <1>5, <1>6, <1>7, <1>8, <1>9 DEF StreamInv

LEMMA StreamInvHolds == Spec => []StreamInv
BY StreamInit, StreamNext, PTL DEF Spec

\* In every reachable state the run, the conversations, the generator and what it sent have
\* the values the code gives them: no status "absent" or "deleted" is ever loaded or sent.
THEOREM StreamTypes == Spec => []TypeOK
<1>1. StreamInv => TypeOK
  BY DEF StreamInv
<1>2. QED
  BY <1>1, StreamInvHolds, PTL

\* A stream that says "done" has sent every message of the run that was not cleared: the run
\* was settled when the messages were read for the last time, and saves nothing after that.
THEOREM FinishedIsComplete == Spec => []FinishedStreamIsComplete
<1>1. StreamInv => FinishedStreamIsComplete
  <2>1. SUFFICES ASSUME StreamInv, stream.phase = "ended",
                        NEW i \in DOMAIN messages[stream.run], messages[stream.run][i] \in own
                 PROVE  messages[stream.run][i] \in SentMessages
    BY DEF FinishedStreamIsComplete
  <2>2. messages[stream.run][i] \in Elements(messages[stream.run])
    BY DEF Elements
  <2>3. Known = stream.emitted
    BY <2>1 DEF StreamInv, PassInv, Known
  <2>4. stream.loaded # "running"
    BY <2>1 DEF StreamInv, PassInv
  <2>5. QED
    BY <2>1, <2>2, <2>3, <2>4 DEF StreamInv, PassInv, SentInv
<1>2. QED
  BY <1>1, StreamInvHolds, PTL

\* The outcome a client is told is the outcome the run has, until it is deleted.
THEOREM OutcomesAreTrue == Spec => []OutcomeIsTrue
<1>1. StreamInv => OutcomeIsTrue
  BY DEF StreamInv
<1>2. QED
  BY <1>1, StreamInvHolds, PTL

\* The place of a message in a log that holds it once.
LEMMA PositionOf ==
    ASSUME log \in Seq(Msgs), Injective(log), NEW i \in DOMAIN log
    PROVE  Position(log[i]) = i
<1>1. Position(log[i]) \in DOMAIN log /\ log[Position(log[i])] = log[i]
  BY DEF Position
<1>2. QED
  BY <1>1 DEF Injective

\* A client gets every message once and in the order they were saved, whatever is saved,
\* cleared or deleted between the passes.
THEOREM SentInOrder == Spec => []MessagesInOrder
<1>1. StreamInv => MessagesInOrder
  <2>1. SUFFICES ASSUME StreamInv, NEW i \in DOMAIN sent, NEW j \in DOMAIN sent, i < j,
                        sent[i].type = "message", sent[j].type = "message"
                 PROVE  Position(sent[i].message) < Position(sent[j].message)
    BY DEF MessagesInOrder
  <2>2. Before(log, sent[i].message, sent[j].message) /\ log \in Seq(Msgs) /\ Injective(log)
    BY <2>1 DEF StreamInv, SentInv, LogInv, TypeOK
  <2>3. PICK k \in DOMAIN log, l \in DOMAIN log :
          k < l /\ log[k] = sent[i].message /\ log[l] = sent[j].message
    BY <2>2 DEF Before
  <2>4. Position(log[k]) = k /\ Position(log[l]) = l
    BY <2>2, PositionOf
  <2>5. QED
    BY <2>3, <2>4
<1>2. QED
  BY <1>1, StreamInvHolds, PTL
===============================================================================
