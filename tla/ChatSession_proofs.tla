-------------------------- MODULE ChatSession_proofs --------------------------
(***************************************************************************)
(* Proofs about ChatSession for every set of conversations and turns and   *)
(* every bound.                                                            *)
(***************************************************************************)
EXTENDS ChatSession, FiniteSetTheorems, SequenceTheorems, TLAPS

-----------------------------------------------------------------------------
(* Rows.                                                                   *)

\* The rows the handler and the turns are about to store are well formed.
LEMMA RowTypes ==
    ASSUME TypeOK
    PROVE  /\ NoRow \in Row
           /\ \A kind \in Kind, t \in Turns \cup {NoTurn}, n \in Nat :
                PlainRow(kind, t, n) \in Row /\ TextRow(kind, t, n) \in Row
<1>1. conv \in Convs \cup {NoConv} /\ text \in Chunks /\ image \in Nat
  BY ChatAssumption DEF TypeOK
<1>2. <<>> \in Chunks
  BY DEF Chunks
<1>3. NoRow \in Row
  BY <1>2 DEF NoRow, Row, Kind
<1>4. ASSUME NEW kind \in Kind, NEW t \in Turns \cup {NoTurn}, NEW n \in Nat
      PROVE  PlainRow(kind, t, n) \in Row /\ TextRow(kind, t, n) \in Row
  BY <1>1, <1>2 DEF PlainRow, TextRow, Row, Kind
<1>5. QED
  BY <1>3, <1>4

\* What an update leaves of a row: the row with the caption.
Captioned(i, m) == [i EXCEPT !.text = m.text]

\* A row that save_message or update_message accepts leaves well-formed rows.
LEMMA StoredWithType ==
    ASSUME TypeOK, NEW m \in Row, CanStore(m)
    PROVE  StoredWith(m) \subseteq StoredRow
<1>1. CASE m.kind = "caption"
  <2>1. StoredWith(m) = (stored \ ImageOf(m)) \cup {Captioned(i, m) : i \in ImageOf(m)}
    BY <1>1 DEF StoredWith, Captioned
  <2>2. ASSUME NEW i \in StoredRow PROVE Captioned(i, m) \in StoredRow
    BY DEF Captioned, StoredRow, Row
  <2>3. stored \subseteq StoredRow /\ ImageOf(m) \subseteq stored
    BY DEF TypeOK, ImageOf
  <2>4. QED
    BY <2>1, <2>2, <2>3
<1>2. CASE m.kind # "caption"
  <2>1. m \in StoredRow
    BY <1>2 DEF CanStore, Row, StoredRow, Kind
  <2>2. QED
    BY <1>2, <2>1 DEF StoredWith, TypeOK
<1>3. QED
  BY <1>1, <1>2

-----------------------------------------------------------------------------
(* Turns.  The records the steps leave in turn, as operators: a lemma about  *)
(* an operator is easier to apply than one about an EXCEPT.                   *)

AtPhase(x, p) == [x EXCEPT !.phase = p]
AtRow(x, r) == [x EXCEPT !.row = r]
Storing(x, p, r) == [x EXCEPT !.phase = p, !.row = r]
Telling(x, p, e, r) == [x EXCEPT !.phase = p, !.told = e, !.row = r]
ToldOnly(x, p, e) == [x EXCEPT !.phase = p, !.told = e]
Longer(x) == [x EXCEPT !.chunks = @ + 1]
Queued(x, c) == [x EXCEPT !.phase = "queued", !.home = c]
Noted(x, n) == [x EXCEPT !.marks = @ \cup n]
Started(x, n) == [x EXCEPT !.phase = "created", !.marks = @ \cup n]
Cut(x) == [x EXCEPT !.phase = "ended", !.row = NoRow, !.marks = @ \cup {"cut"}]

\* They are turns again, and most of them say as much as before.
LEMMA TurnTypes ==
    ASSUME NEW x \in Turn, NoRow \in Row
    PROVE  /\ \A p \in Phase : AtPhase(x, p) \in Turn
           /\ \A r \in Row : AtRow(x, r) \in Turn
           /\ \A p \in Phase, r \in Row : Storing(x, p, r) \in Turn
           /\ \A p \in Phase, e \in {"none", "done", "error"}, r \in Row :
                Telling(x, p, e, r) \in Turn
           /\ \A p \in Phase, e \in {"none", "done", "error"} : ToldOnly(x, p, e) \in Turn
           /\ Longer(x) \in Turn
           /\ \A c \in Convs : Queued(x, c) \in Turn
           /\ \A n \in SUBSET Marks : Noted(x, n) \in Turn /\ Started(x, n) \in Turn
           /\ Cut(x) \in Turn
<1>1. \A p \in Phase : AtPhase(x, p) \in Turn
  BY DEF Turn, AtPhase
<1>2. \A r \in Row : AtRow(x, r) \in Turn
  BY DEF Turn, AtRow
<1>3. \A p \in Phase, r \in Row : Storing(x, p, r) \in Turn
  BY DEF Turn, Storing
<1>4. \A p \in Phase, e \in {"none", "done", "error"}, r \in Row : Telling(x, p, e, r) \in Turn
  BY DEF Turn, Telling
<1>5. \A p \in Phase, e \in {"none", "done", "error"} : ToldOnly(x, p, e) \in Turn
  BY DEF Turn, ToldOnly
<1>6. Longer(x) \in Turn
  BY DEF Turn, Longer
<1>7. \A c \in Convs : Queued(x, c) \in Turn
  BY DEF Turn, Queued, Phase
<1>8. \A n \in SUBSET Marks : Noted(x, n) \in Turn /\ Started(x, n) \in Turn
  BY DEF Turn, Noted, Started, Phase
<1>9. Cut(x) \in Turn
  BY DEF Turn, Cut, Phase, Marks
<1>10. QED
  BY <1>1, <1>2, <1>3, <1>4, <1>5, <1>6, <1>7, <1>8, <1>9

\* What only changes the phase, the row, the home or the marks says as much.
LEMMA TurnSays ==
    ASSUME NEW x \in Turn
    PROVE  /\ \A p : AtPhase(x, p).chunks = x.chunks /\ AtPhase(x, p).told = x.told
           /\ \A r : AtRow(x, r).chunks = x.chunks /\ AtRow(x, r).told = x.told
           /\ \A p, r : Storing(x, p, r).chunks = x.chunks /\ Storing(x, p, r).told = x.told
           /\ \A c : Queued(x, c).chunks = x.chunks /\ Queued(x, c).told = x.told
           /\ \A n : Noted(x, n).chunks = x.chunks /\ Noted(x, n).told = x.told
           /\ \A n : Started(x, n).chunks = x.chunks /\ Started(x, n).told = x.told
           /\ Cut(x).chunks = x.chunks /\ Cut(x).told = x.told
BY DEF Turn, AtPhase, AtRow, Storing, Queued, Noted, Started, Cut

\* No turn produces text, and none is over for the client.
SaysNothing ==
    \A u \in Turns : turn'[u].chunks = turn[u].chunks /\ turn'[u].told = turn[u].told

\* A step of one turn.
LEMMA OneTurn ==
    ASSUME TypeOK, NEW t \in Turns, NEW y \in Turn, turn' = [turn EXCEPT ![t] = y]
    PROVE  /\ turn' \in [Turns -> Turn]
           /\ y.chunks = turn[t].chunks /\ y.told = turn[t].told => SaysNothing
<1>1. turn \in [Turns -> Turn]
  BY DEF TypeOK
<1>2. QED
  BY <1>1 DEF SaysNothing

\* A step that changes several turns.
LEMMA ManyTurns ==
    ASSUME TypeOK, NEW g, turn' = [u \in Turns |-> g[u]],
           \A u \in Turns : g[u] \in Turn
                            /\ g[u].chunks = turn[u].chunks /\ g[u].told = turn[u].told
    PROVE  turn' \in [Turns -> Turn] /\ SaysNothing
BY DEF SaysNothing

\* What happens to a turn from outside leaves it a turn that said as much.
LEMMA MarkedShape ==
    ASSUME TypeOK, NEW T, NEW mark \in Marks, turn' = Marked(T, mark)
    PROVE  turn' \in [Turns -> Turn] /\ SaysNothing
<1> DEFINE g == [u \in Turns |-> IF u \in T /\ turn[u].phase # "none"
                                 THEN Noted(turn[u], {mark}) ELSE turn[u]]
<1>1. turn' = [u \in Turns |-> g[u]]
  BY DEF Marked, Noted
<1>2. ASSUME NEW u \in Turns
      PROVE  g[u] \in Turn /\ g[u].chunks = turn[u].chunks /\ g[u].told = turn[u].told
  <2>1. turn[u] \in Turn
    BY DEF TypeOK
  <2>2. Noted(turn[u], {mark}) \in Turn
    BY <2>1, TurnTypes, RowTypes
  <2>3. QED
    BY <2>1, <2>2, TurnSays
<1>3. QED
  BY <1>1, <1>2, ManyTurns

\* The end of a turn, and of the handler.
LEMMA EndShape ==
    ASSUME TypeOK, NEW t \in Turns, End(t)
    PROVE  turn' \in [Turns -> Turn] /\ SaysNothing
<1> DEFINE y == Storing(turn[t], "ended", NoRow)
<1>1. turn' = [turn EXCEPT ![t] = y]
  BY DEF End, Storing
<1>2. turn[t] \in Turn
  BY DEF TypeOK
<1>3. y \in Turn
  BY <1>2, TurnTypes, RowTypes DEF Phase
<1>4. y.chunks = turn[t].chunks /\ y.told = turn[t].told
  BY <1>2, TurnSays
<1> HIDE DEF y
<1>5. QED
  BY <1>1, <1>3, <1>4, OneTurn

\* The cancellation of agent_task stores well-formed rows only.
LEMMA CancelShape ==
    ASSUME TypeOK, CancelCommit
    PROVE  stored' \subseteq StoredRow
<1>1. CASE UNCHANGED stored
  BY <1>1 DEF TypeOK
<1>2. CASE /\ agentTask # NoTurn
           /\ CanStore(turn[agentTask].row)
           /\ stored' = StoredWith(turn[agentTask].row)
  <2>1. turn[agentTask].row \in Row
    BY <1>2 DEF TypeOK, Turn
  <2>2. QED
    BY <1>2, <2>1, StoredWithType
<1>3. QED
  BY <1>1, <1>2 DEF CancelCommit

\* The end of the handler cuts one turn off and says nothing.
LEMMA CloseShape ==
    ASSUME TypeOK, Close
    PROVE  /\ turn' \in [Turns -> Turn] /\ SaysNothing
           /\ stored' \subseteq StoredRow
           /\ link' = "closed" /\ registered' = FALSE
<1> DEFINE g == [u \in Turns |-> IF u = agentTask /\ u \in Running THEN Cut(turn[u]) ELSE turn[u]]
<1>1. turn' = [u \in Turns |-> g[u]]
  BY DEF Close, Cut
<1>2. ASSUME NEW u \in Turns
      PROVE  g[u] \in Turn /\ g[u].chunks = turn[u].chunks /\ g[u].told = turn[u].told
  <2>1. turn[u] \in Turn
    BY DEF TypeOK
  <2>2. Cut(turn[u]) \in Turn
    BY <2>1, TurnTypes, RowTypes
  <2>3. QED
    BY <2>1, <2>2, TurnSays
<1> HIDE DEF g
<1>3. turn' \in [Turns -> Turn] /\ SaysNothing
  BY <1>1, <1>2, ManyTurns
<1>4. QED
  BY <1>3, CancelShape DEF Close

-----------------------------------------------------------------------------
(* Type correctness.                                                       *)

\* The connection starts with well-typed variables.
LEMMA InitTypeOK == Init => TypeOK
<1> SUFFICES ASSUME Init PROVE TypeOK
  OBVIOUS
<1>1. <<>> \in Chunks
  BY DEF Chunks
<1>2. NoRow \in Row
  BY <1>1 DEF NoRow, Row, Kind
<1>3. NewTurn \in Turn
  BY <1>2 DEF NewTurn, Turn, Phase, Marks
<1>4. turn \in [Turns -> Turn]
  BY <1>3 DEF Init
<1>5. /\ image \in Nat /\ events \in 0..MaxEvents
      /\ aborts \in 0..MaxAborts /\ moves \in 0..MaxMoves
  BY ChatAssumption DEF Init
<1>6. existing \in [Convs -> {"absent", "present", "deleted"}] /\ stored \subseteq StoredRow
  BY DEF Init
<1>7. text \in Chunks /\ buffer \in Chunks /\ shown \in Chunks /\ draft \in Row
  BY <1>1, <1>2 DEF Init
<1>8. QED
  BY <1>4, <1>5, <1>6, <1>7 DEF Init, TypeOK

\* Buffers and texts stay sequences of chunks.
LEMMA ChunksGrow ==
    ASSUME TypeOK
    PROVE  /\ <<>> \in Chunks
           /\ \A t \in Turns : Append(text, t) \in Chunks /\ Append(buffer, t) \in Chunks
           /\ shown \o buffer \in Chunks
BY DEF TypeOK, Chunks

\* What the flush leaves of the buffer, the timer and the history.
LEMMA FlushTypes ==
    ASSUME TypeOK, Flush
    PROVE  buffer' \in Chunks /\ timer' \in {"none", "pending", "cancelled"} /\ shown' \in Chunks
<1>1. timer' \in {"none", "pending", "cancelled"}
  BY DEF Flush, TypeOK
<1>2. QED
  BY <1>1, ChunksGrow DEF Flush

\* What is sent after an abort is counted.
LEMMA SendsTypes ==
    ASSUME TypeOK, NEW t \in Turns, Sends(t)
    PROVE  late' \in [Turns -> Nat]
BY DEF TypeOK, Sends

\* Counting up to a bound.
LEMMA CountTypes ==
    ASSUME TypeOK
    PROVE  /\ Moves => moves' \in 0..MaxMoves
           /\ Event => events' \in 0..MaxEvents /\ events + 1 \in 0..MaxEvents
           /\ aborts < MaxAborts => aborts + 1 \in 0..MaxAborts
           /\ events \in Nat /\ aborts \in Nat
BY ChatAssumption DEF TypeOK, Moves, Event

\* What the receive loop does to the types.
LEMMA ClientTypes ==
    ASSUME TypeOK, ClientStep
    PROVE  TypeOK' /\ SaysNothing
<1> USE DEF counts, dbVars, stateVars, loopVars
<1>1. ASSUME NEW t \in Turns, ReceiveMessage(t) PROVE TypeOK' /\ SaysNothing
  <2>1. PICK c \in Convs :
          /\ Bound(c) /\ conv' = c
          /\ stored' = stored \cup
               {[kind |-> "user", conv |-> c, by |-> t, text |-> <<>>, nth |-> 0]}
          /\ turn' = [turn EXCEPT ![t].phase = "queued", ![t].home = c]
    BY <1>1 DEF ReceiveMessage
  <2>2. existing' \in [Convs -> {"absent", "present", "deleted"}]
    BY <2>1 DEF Bound, Created, TypeOK
  <2>3. stored' \subseteq StoredRow
    <3>1. [kind |-> "user", conv |-> c, by |-> t, text |-> <<>>, nth |-> 0] \in StoredRow
      BY ChunksGrow DEF StoredRow, Kind
    <3>2. QED
      BY <2>1, <3>1 DEF TypeOK
  <2> DEFINE y == Queued(turn[t], c)
  <2>4. turn' = [turn EXCEPT ![t] = y]
    BY <2>1 DEF Queued
  <2>5. y \in Turn /\ y.chunks = turn[t].chunks /\ y.told = turn[t].told
    <3>1. turn[t] \in Turn
      BY DEF TypeOK
    <3>2. QED
      BY <3>1, TurnTypes, TurnSays, RowTypes
  <2> HIDE DEF y
  <2>6. turn' \in [Turns -> Turn] /\ SaysNothing
    BY <2>4, <2>5, OneTurn
  <2>7. QED
    BY <1>1, <2>1, <2>2, <2>3, <2>6 DEF ReceiveMessage, TypeOK
<1>2. CASE ReceiveMessageFails
  BY <1>2, CloseShape DEF ReceiveMessageFails, TypeOK
<1>3. CASE RefuseMessage
  BY <1>3 DEF RefuseMessage, Created, TypeOK, SaysNothing
<1>4. CASE ReceiveAbort
  <2> DEFINE g == [u \in Turns |-> IF u = agentTask /\ u \in Running
                                   THEN Storing(turn[u], "ended", NoRow) ELSE turn[u]]
  <2>1. turn' = [u \in Turns |-> g[u]]
    BY <1>4 DEF ReceiveAbort, Storing
  <2>2. ASSUME NEW u \in Turns
        PROVE  g[u] \in Turn /\ g[u].chunks = turn[u].chunks /\ g[u].told = turn[u].told
    <3>1. turn[u] \in Turn
      BY DEF TypeOK
    <3>2. Storing(turn[u], "ended", NoRow) \in Turn
      BY <3>1, TurnTypes, RowTypes DEF Phase
    <3>3. QED
      BY <3>1, <3>2, TurnSays
  <2> HIDE DEF g
  <2>3. turn' \in [Turns -> Turn] /\ SaysNothing
    BY <2>1, <2>2, ManyTurns
  <2>4. stored' \subseteq StoredRow
    BY <1>4, CancelShape DEF ReceiveAbort
  <2>5. draft' \in Row
    <3>1. agentTask \in Turns \cup {NoTurn} /\ aborts + 1 \in Nat
      BY CountTypes DEF TypeOK
    <3>2. TextRow("partial", agentTask, aborts + 1) \in Row
      BY <3>1, RowTypes DEF Kind
    <3>3. QED
      BY <1>4, <3>2, RowTypes DEF ReceiveAbort, AbortRow
  <2>6. aborts' \in 0..MaxAborts
    BY <1>4, CountTypes DEF ReceiveAbort
  <2>7. QED
    BY <1>4, <2>3, <2>4, <2>5, <2>6, ChunksGrow DEF ReceiveAbort, TypeOK
<1>5. CASE ReceiveInit
  <2>1. turn' \in [Turns -> Turn] /\ SaysNothing
    BY <1>5, MarkedShape DEF ReceiveInit, Marks
  <2>2. existing' \in [Convs -> {"absent", "present", "deleted"}] /\ conv' \in Convs \cup {NoConv}
    BY <1>5 DEF ReceiveInit, Created, TypeOK
  <2>3. QED
    BY <1>5, <2>1, <2>2, CountTypes DEF ReceiveInit, TypeOK
<1>6. CASE ReceiveClear
  <2>1. turn' \in [Turns -> Turn] /\ SaysNothing
    BY <1>6, MarkedShape DEF ReceiveClear, Marks
  <2>2. QED
    BY <1>6, <2>1, CountTypes DEF ReceiveClear, TypeOK
<1>7. CASE Disconnect
  BY <1>7, CloseShape DEF Disconnect, TypeOK
<1>8. QED
  BY <1>1, <1>2, <1>3, <1>4, <1>5, <1>6, <1>7 DEF ClientStep

\* What the rest of the loop does to the types.
LEMMA LoopTypes ==
    ASSUME TypeOK, LoopStep
    PROVE  TypeOK' /\ SaysNothing
<1> USE DEF counts, dbVars, stateVars
<1>1. CASE ReapTurn
  BY <1>1 DEF ReapTurn, TypeOK, SaysNothing
<1>2. CASE FinishAbort
  <2>1. stored' \subseteq StoredRow
    <3>1. CASE draft = NoRow
      BY <1>2, <3>1 DEF FinishAbort, TypeOK
    <3>2. CASE draft # NoRow
      <4>1. draft \in Row /\ CanStore(draft)
        BY <1>2, <3>2 DEF FinishAbort, TypeOK
      <4>2. QED
        BY <1>2, <3>2, <4>1, StoredWithType DEF FinishAbort
    <3>3. QED
      BY <3>1, <3>2
  <2>2. draft' \in Row /\ image' \in Nat
    BY <1>2, RowTypes, ChatAssumption DEF FinishAbort
  <2>3. QED
    BY <1>2, <2>1, <2>2 DEF FinishAbort, TypeOK, SaysNothing
<1>3. CASE FinishAbortFails
  BY <1>3, CloseShape, RowTypes DEF FinishAbortFails, TypeOK
<1>4. ASSUME NEW t \in Turns, StartTurn(t) PROVE TypeOK' /\ SaysNothing
  <2>1. PICK others \in SUBSET Turns, met \in SUBSET Marks :
          turn' = [u \in Turns |-> IF u = t THEN Started(turn[t], met)
                                   ELSE IF u \in others THEN Noted(turn[u], met) ELSE turn[u]]
    BY <1>4 DEF StartTurn, Started, Noted, Marks
  <2> DEFINE g == [u \in Turns |-> IF u = t THEN Started(turn[t], met)
                                   ELSE IF u \in others THEN Noted(turn[u], met) ELSE turn[u]]
  <2>2. ASSUME NEW u \in Turns
        PROVE  g[u] \in Turn /\ g[u].chunks = turn[u].chunks /\ g[u].told = turn[u].told
    <3>1. turn[u] \in Turn
      BY DEF TypeOK
    <3>2. Started(turn[u], met) \in Turn /\ Noted(turn[u], met) \in Turn
      BY <3>1, TurnTypes, RowTypes
    <3>3. /\ Started(turn[u], met).chunks = turn[u].chunks
          /\ Started(turn[u], met).told = turn[u].told
          /\ Noted(turn[u], met).chunks = turn[u].chunks
          /\ Noted(turn[u], met).told = turn[u].told
      BY <3>1, TurnSays
    <3>4. QED
      BY <3>1, <3>2, <3>3
  <2>3. turn' = [u \in Turns |-> g[u]]
    BY <2>1
  <2> HIDE DEF g
  <2>4. turn' \in [Turns -> Turn] /\ SaysNothing
    BY <2>2, <2>3, ManyTurns
  <2>5. text' \in Chunks /\ buffer' \in Chunks /\ image' \in Nat
    <3>1. text' = <<>> /\ buffer' = <<>> /\ image' = 0
      BY <1>4 DEF StartTurn, FreshText
    <3>2. QED
      BY <3>1, ChunksGrow
  <2>6. UNCHANGED <<existing, stored, link, registered, draft, conv, timer, shown,
                    aborts, moves, events>>
    BY <1>4 DEF StartTurn
  <2>7. agentTask' = t /\ aborted' = FALSE /\ handler' = "recv" /\ late' \in [Turns -> Nat]
    BY <1>4 DEF StartTurn
  <2>8. QED
    BY <2>4, <2>5, <2>6, <2>7 DEF TypeOK
<1>5. QED
  BY <1>1, <1>2, <1>3, <1>4 DEF LoopStep

-----------------------------------------------------------------------------
(* The steps of a turn.                                                    *)

\* A turn is built.
LEMMA BuildTurnTypes ==
    ASSUME TypeOK, NEW t \in Turns, BuildTurn(t)
    PROVE  TypeOK' /\ SaysNothing
<1> USE DEF counts, dbVars, stateVars, loopVars
<1>1. PICK p \in {"running", "ended"} : turn' = [turn EXCEPT ![t] = AtPhase(turn[t], p)]
  BY DEF BuildTurn, AtPhase
<1>2. turn[t] \in Turn
  BY DEF TypeOK
<1>3. AtPhase(turn[t], p) \in Turn
  BY <1>2, TurnTypes, RowTypes DEF Phase
<1>4. turn' \in [Turns -> Turn] /\ SaysNothing
  BY <1>1, <1>2, <1>3, TurnSays, OneTurn, ZenonT(60)
<1>5. QED
  BY <1>4 DEF BuildTurn, TypeOK

\* A delta: the turn has produced one more chunk.
LEMMA DeltaTypes ==
    ASSUME TypeOK, NEW t \in Turns, Delta(t)
    PROVE  TypeOK'
<1> USE DEF dbVars
<1>1. turn' = [turn EXCEPT ![t] = Longer(turn[t])]
  BY DEF Delta, Longer
<1>2. Longer(turn[t]) \in Turn
  BY TurnTypes, RowTypes DEF TypeOK
<1>3. turn' \in [Turns -> Turn]
  BY <1>1, <1>2, OneTurn
<1>4. QED
  BY <1>3, ChunksGrow, CountTypes DEF Delta, TypeOK

\* Something is sent, and nothing stored.
LEMMA NoticeTypes ==
    ASSUME TypeOK, NEW t \in Turns, Notice(t)
    PROVE  TypeOK' /\ SaysNothing
<1> USE DEF dbVars
<1>1. Flush /\ Event /\ Sends(t)
  BY DEF Notice, Emits
<1>2. buffer' \in Chunks /\ timer' \in {"none", "pending", "cancelled"} /\ shown' \in Chunks
  BY <1>1, FlushTypes
<1>3. events' \in 0..MaxEvents /\ late' \in [Turns -> Nat]
  BY <1>1, CountTypes, SendsTypes
<1>4. QED
  BY <1>2, <1>3 DEF Notice, TypeOK, SaysNothing

\* A step, a screenshot or what OCR read: its row is about to be stored.
LEMMA ToolTypes ==
    ASSUME TypeOK, NEW t \in Turns, Step(t) \/ Screenshot(t) \/ OcrResult(t)
    PROVE  TypeOK' /\ SaysNothing
<1> USE DEF dbVars
<1>1. Flush /\ Event
  BY DEF Step, Screenshot, OcrResult, Emits
<1>2. PICK kind \in Kind, n \in Nat :
        turn' = [turn EXCEPT ![t] = Storing(turn[t], "saving", PlainRow(kind, t, n))]
  <2>1. events + 1 \in Nat
    BY CountTypes
  <2>2. CASE Step(t)
    BY <2>2 DEF Step, Storing, Kind
  <2>3. CASE Screenshot(t)
    BY <2>1, <2>3, ZenonT(60) DEF Screenshot, Storing, Kind
  <2>4. CASE OcrResult(t)
    <3>1. PICK kind \in {"ocr", "step"} :
            turn' = [turn EXCEPT ![t].phase = "saving", ![t].row = PlainRow(kind, t, 0)]
      BY <2>4 DEF OcrResult
    <3>2. turn' = [turn EXCEPT ![t] = Storing(turn[t], "saving", PlainRow(kind, t, 0))]
      BY <3>1 DEF Storing
    <3>3. kind \in Kind /\ 0 \in Nat
      BY DEF Kind
    <3>4. QED
      BY <3>2, <3>3
  <2>5. QED
    BY <2>2, <2>3, <2>4
<1> DEFINE y == Storing(turn[t], "saving", PlainRow(kind, t, n))
<1>3. turn[t] \in Turn
  BY DEF TypeOK
<1>4. y \in Turn
  BY <1>3, TurnTypes, RowTypes DEF Phase
<1>5. y.chunks = turn[t].chunks /\ y.told = turn[t].told
  BY <1>3, TurnSays
<1> HIDE DEF y
<1>6. turn' \in [Turns -> Turn] /\ SaysNothing
  BY <1>2, <1>4, <1>5, OneTurn DEF y
<1>7. buffer' \in Chunks /\ timer' \in {"none", "pending", "cancelled"} /\ shown' \in Chunks
  BY <1>1, FlushTypes
<1>8. events' \in 0..MaxEvents
  BY <1>1, CountTypes
<1>9. late' \in [Turns -> Nat]
  BY SendsTypes DEF Step, Screenshot, OcrResult, Emits, TypeOK
<1>10. QED
  BY <1>6, <1>7, <1>8, <1>9 DEF Step, Screenshot, OcrResult, TypeOK

\* A turn tells the client how it ended.
LEMMA EndEventTypes ==
    ASSUME TypeOK, NEW t \in Turns, Done(t) \/ Fail(t)
    PROVE  TypeOK'
<1> USE DEF counts, dbVars, loopVars
<1>1. Flush
  BY DEF Done, Fail, Emits
<1>2. turn[t] \in Turn
  BY DEF TypeOK
<1>3. TextRow("answer", t, 0) \in Row /\ PlainRow("error", t, 0) \in Row
  BY RowTypes DEF Kind
<1>4. turn' \in [Turns -> Turn]
  <2>1. CASE turn' = [turn EXCEPT ![t] = ToldOnly(turn[t], "ended", "done")]
    <3>1. ToldOnly(turn[t], "ended", "done") \in Turn
      BY <1>2, TurnTypes, RowTypes DEF Phase
    <3>2. QED
      BY <2>1, <3>1, OneTurn
  <2>2. CASE turn' = [turn EXCEPT ![t] = Telling(turn[t], "answering", "done",
                                                 TextRow("answer", t, 0))]
    <3>1. Telling(turn[t], "answering", "done", TextRow("answer", t, 0)) \in Turn
      BY <1>2, <1>3, TurnTypes, RowTypes DEF Phase
    <3>2. QED
      BY <2>2, <3>1, OneTurn
  <2>3. CASE turn' = [turn EXCEPT ![t] = Telling(turn[t], "failing", "error",
                                                 PlainRow("error", t, 0))]
    <3>1. Telling(turn[t], "failing", "error", PlainRow("error", t, 0)) \in Turn
      BY <1>2, <1>3, TurnTypes, RowTypes DEF Phase
    <3>2. QED
      BY <2>3, <3>1, OneTurn
  <2>4. QED
    BY <2>1, <2>2, <2>3 DEF Done, Fail, ToldOnly, Telling
<1>5. buffer' \in Chunks /\ timer' \in {"none", "pending", "cancelled"} /\ shown' \in Chunks
  BY <1>1, FlushTypes
<1>6. image' \in Nat
  BY ChatAssumption DEF Done, Fail, TypeOK
<1>7. late' \in [Turns -> Nat]
  BY SendsTypes DEF Done, Fail, Emits
<1>8. QED
  BY <1>4, <1>5, <1>6, <1>7 DEF Done, Fail, TypeOK

\* A turn is interrupted by an abort or by a closed socket.
LEMMA InterruptTypes ==
    ASSUME TypeOK, NEW t \in Turns, Interrupt(t)
    PROVE  TypeOK' /\ SaysNothing
<1> USE DEF counts, dbVars, loopVars
<1>1. turn' \in [Turns -> Turn] /\ SaysNothing
  BY EndShape DEF Interrupt
<1>2. buffer' \in Chunks
  BY ChunksGrow DEF Interrupt, TypeOK
<1>3. QED
  BY <1>1, <1>2 DEF Interrupt, TypeOK

\* The row of a turn is committed.
LEMMA SaveRowTypes ==
    ASSUME TypeOK, NEW t \in Turns, SaveRow(t)
    PROVE  TypeOK' /\ SaysNothing
<1> USE DEF counts, loopVars
<1>1. turn[t] \in Turn /\ turn[t].row \in Row
  BY DEF TypeOK, Turn
<1>2. stored' \subseteq StoredRow
  BY <1>1, StoredWithType DEF SaveRow
<1>3. PlainRow("step", t, 0) \in Row
  BY RowTypes DEF Kind
<1>4. turn' \in [Turns -> Turn] /\ SaysNothing
  <2>1. CASE turn' = [turn EXCEPT ![t] = AtRow(turn[t], PlainRow("step", t, 0))]
    <3>1. AtRow(turn[t], PlainRow("step", t, 0)) \in Turn
      BY <1>1, <1>3, TurnTypes, RowTypes
    <3>2. QED
      BY <1>1, <2>1, <3>1, TurnSays, OneTurn, ZenonT(60)
  <2>2. CASE End(t)
    BY <2>2, EndShape
  <2>3. ASSUME NEW p \in Phase, turn' = [turn EXCEPT ![t] = Storing(turn[t], p, NoRow)]
        PROVE  turn' \in [Turns -> Turn] /\ SaysNothing
    <3> DEFINE y == Storing(turn[t], p, NoRow)
    <3>1. y \in Turn
      BY <1>1, TurnTypes, RowTypes
    <3>2. y.chunks = turn[t].chunks /\ y.told = turn[t].told
      BY <1>1, TurnSays
    <3>3. turn' = [turn EXCEPT ![t] = y]
      BY <2>3
    <3> HIDE DEF y
    <3>4. QED
      BY <3>1, <3>2, <3>3, OneTurn
  <2>4. \/ turn' = [turn EXCEPT ![t] = AtRow(turn[t], PlainRow("step", t, 0))]
        \/ End(t)
        \/ \E p \in Phase : turn' = [turn EXCEPT ![t] = Storing(turn[t], p, NoRow)]
    <3> DEFINE next == IF turn[t].phase = "saving" THEN "running" ELSE "ended"
    <3>1. CASE turn[t].row.kind \in Payloads
      <4>1. "running" \in Phase
        BY DEF Phase
      <4>2. \/ turn' = [turn EXCEPT ![t] = AtRow(turn[t], PlainRow("step", t, 0))]
            \/ End(t)
            \/ turn' = [turn EXCEPT ![t] = Storing(turn[t], "running", NoRow)]
        BY <3>1 DEF SaveRow, AtRow, Storing
      <4>3. QED
        BY <4>1, <4>2
    <3>2. CASE turn[t].row.kind \notin Payloads
      <4>1. turn' = [turn EXCEPT ![t] = Storing(turn[t], next, NoRow)]
        BY <3>2 DEF SaveRow, Storing
      <4>2. next \in Phase
        BY DEF Phase
      <4>3. QED
        BY <4>1, <4>2
    <3>3. QED
      BY <3>1, <3>2
  <2>5. QED
    BY <2>1, <2>2, <2>3, <2>4
<1>5. image' \in Nat /\ late' \in [Turns -> Nat]
  BY <1>1, SendsTypes DEF SaveRow, Row, TypeOK
<1>6. QED
  BY <1>2, <1>4, <1>5 DEF SaveRow, TypeOK

\* The row of a turn cannot be stored: silently, once an abort was handled.
LEMMA SaveFailsTypes ==
    ASSUME TypeOK, NEW t \in Turns, SaveFails(t)
    PROVE  TypeOK' /\ (aborted => SaysNothing)
<1> USE DEF counts, dbVars, loopVars
<1>1. CASE /\ ~Silenced /\ Flush /\ Sends(t)
           /\ turn' = [turn EXCEPT ![t].phase = "failing", ![t].told = "error",
                                   ![t].row = PlainRow("error", t, 0)]
  <2> DEFINE y == Telling(turn[t], "failing", "error", PlainRow("error", t, 0))
  <2>2. turn' = [turn EXCEPT ![t] = y]
    BY <1>1 DEF Telling
  <2>3. PlainRow("error", t, 0) \in Row /\ turn[t] \in Turn
    BY RowTypes DEF Kind, TypeOK
  <2>4. y \in Turn
    BY <2>3, TurnTypes, RowTypes DEF Phase
  <2> HIDE DEF y
  <2>5. turn' \in [Turns -> Turn]
    BY <2>2, <2>4, OneTurn
  <2>6. buffer' \in Chunks /\ timer' \in {"none", "pending", "cancelled"} /\ shown' \in Chunks
    BY <1>1, FlushTypes
  <2>7. late' \in [Turns -> Nat]
    BY <1>1, SendsTypes
  <2>8. QED
    BY <1>1, <2>5, <2>6, <2>7 DEF SaveFails, Silenced, TypeOK
<1>2. CASE End(t) /\ UNCHANGED <<buffer, timer, shown, late>>
  <2>1. turn' \in [Turns -> Turn] /\ SaysNothing
    BY <1>2, EndShape
  <2>2. QED
    BY <1>2, <2>1 DEF SaveFails, TypeOK
<1>3. QED
  BY <1>1, <1>2 DEF SaveFails

\* The steps of a turn keep the types, and are quiet once an abort was handled.
LEMMA TurnStepTypes ==
    ASSUME TypeOK, NEW t \in Turns, TurnStep(t)
    PROVE  TypeOK' /\ (aborted => SaysNothing)
<1>1. CASE BuildTurn(t)
  BY <1>1, BuildTurnTypes
<1>2. CASE Delta(t)
  <2>1. ~aborted
    BY <1>2 DEF Delta, Silenced
  <2>2. QED
    BY <1>2, <2>1, DeltaTypes
<1>3. CASE Notice(t) \/ Step(t) \/ Screenshot(t) \/ OcrResult(t)
  BY <1>3, NoticeTypes, ToolTypes
<1>4. CASE Done(t) \/ Fail(t)
  <2>1. ~aborted
    BY <1>4 DEF Done, Fail, Emits, Silenced
  <2>2. QED
    BY <1>4, <2>1, EndEventTypes
<1>5. CASE Interrupt(t)
  BY <1>5, InterruptTypes
<1>6. CASE SaveRow(t)
  BY <1>6, SaveRowTypes
<1>7. CASE SaveFails(t)
  BY <1>7, SaveFailsTypes
<1>8. QED
  BY <1>1, <1>2, <1>3, <1>4, <1>5, <1>6, <1>7 DEF TurnStep

-----------------------------------------------------------------------------
(* Every step keeps the types.                                             *)

\* Every step keeps the types; after an abort, as long as no new turn takes its
\* place, no turn produces text or tells the client anything.
LEMMA StepTypes ==
    ASSUME TypeOK, [Next]_vars
    PROVE  TypeOK' /\ (aborted => SaysNothing)
<1>1. CASE ClientStep
  BY <1>1, ClientTypes
<1>2. CASE LoopStep
  BY <1>2, LoopTypes
<1>3. ASSUME NEW t \in Turns, TurnStep(t) PROVE TypeOK' /\ (aborted => SaysNothing)
  BY <1>3, TurnStepTypes
<1>4. CASE FireTimer \/ FlushTaskEnds
  BY <1>4, ChunksGrow
  DEF FireTimer, FlushTaskEnds, TypeOK, SaysNothing, dbVars, loopVars, counts
<1>5. ASSUME NEW c \in Convs, DeleteConversation(c) PROVE TypeOK' /\ (aborted => SaysNothing)
  <2>1. turn' \in [Turns -> Turn] /\ SaysNothing
    BY <1>5, MarkedShape DEF DeleteConversation, Marks
  <2>2. moves' \in 0..MaxMoves
    BY <1>5, CountTypes DEF DeleteConversation
  <2>3. existing' \in [Convs -> {"absent", "present", "deleted"}] /\ stored' \subseteq StoredRow
    BY <1>5 DEF DeleteConversation, TypeOK
  <2>4. QED
    BY <1>5, <2>1, <2>2, <2>3 DEF DeleteConversation, TypeOK, stateVars
<1>6. CASE UNCHANGED vars
  BY <1>6 DEF vars, TypeOK, SaysNothing
<1>7. QED
  BY <1>1, <1>2, <1>3, <1>4, <1>5, <1>6 DEF Next

\* Type correctness: every row in the table is in a conversation and is no caption,
\* whatever save_message and update_message were given.
THEOREM TypeCorrect == Spec => []TypeOK
<1>1. TypeOK /\ [Next]_vars => TypeOK'
  BY StepTypes
<1>2. QED
  BY InitTypeOK, <1>1, PTL DEF Spec

-----------------------------------------------------------------------------
(* Where rows go.  A row is stored later than it is made, when another          *)
(* conversation may be bound, and a caption names the row it goes to by a      *)
(* number only.  The invariant follows a row from where it is made to the table. *)

Joined(T, t) == "joined" \in T[t].marks
Moved(T, t) == "moved" \in T[t].marks
Begun(T, t) == T[t].phase # "none"

\* A turn that a turn started now would join.
Active(T, t) == T[t].phase \in {"created", "running", "saving"}
Waits(T, t) == T[t].phase \in Awaiting
InText(s, t) == \E k \in DOMAIN s : s[k] = t

\* The images, stored and about to be.
ImagesOf(S, T) ==
    {i \in S : i.kind = "image"}
       \cup {T[u].row : u \in {w \in Turns : Waits(T, w) /\ T[w].row.kind = "image"}}
Images == ImagesOf(stored, turn)

\* A row that is in the home of the turns it is about.
RowHome(m, T) ==
    /\ m.kind \notin {"user", "partial"} =>
         m.by \in Turns /\ Begun(T, m.by) /\ (~Moved(T, m.by) => m.conv = T[m.by].home)
    /\ \A t \in Turns : InText(m.text, t) =>
         Begun(T, t) /\ (~Moved(T, t) /\ ~Joined(T, t) => m.conv = T[t].home)

\* A caption whose image is of the turns it is about: no image yet to come has its number.
CaptionHome(m, T, I, n) ==
    /\ m.nth <= n
    /\ \A t \in Turns : InText(m.text, t) =>
         Begun(T, t) /\ (~Joined(T, t) => \A i \in I : i.nth = m.nth => i.by = t)

ReadyHome(m, T, I, n) == IF m.kind = "caption" THEN CaptionHome(m, T, I, n) ELSE RowHome(m, T)

\* Until it is moved, a turn is at home in the bound conversation.
BoundHome ==
    \A t \in Turns : Begun(turn, t) =>
        turn[t].home \in Convs /\ (~Moved(turn, t) => turn[t].home = conv)

StoredHome == \A m \in stored : RowHome(m, turn)

WaitingHome ==
    \A t \in Turns : Waits(turn, t) =>
        /\ ReadyHome(turn[t].row, turn, Images, events)
        /\ turn[t].row.by = t
        /\ turn[t].row.kind \notin {"user", "partial"}
        /\ turn[t].row.kind \in Payloads => turn[t].phase = "saving"

DraftHome ==
    draft # NoRow =>
        ReadyHome(draft, turn, Images, events) /\ draft.kind \in {"partial", "caption"}

\* A turn nobody joined has the event state and the connection to itself.
Alone(T, s, t) == ~Joined(T, t) /\ (Active(T, t) \/ InText(s, t))
AloneInv ==
    /\ \A t, u \in Turns : Alone(turn, text, t) /\ Active(turn, u) => u = t
    /\ \A t \in Turns : InText(text, t) => Begun(turn, t)

\* Images have numbers of their own, and the current one is of the turn that is alone.
ImageInv ==
    /\ image <= events
    /\ \A i \in Images : i.nth <= events /\ i.by \in Turns
    /\ \A i, j \in Images : i.nth = j.nth => i.by = j.by
    /\ image # 0 => \A i \in Images, t \in Turns :
                      i.nth = image /\ Alone(turn, text, t) => i.by = t

HomeInv == BoundHome /\ StoredHome /\ WaitingHome /\ DraftHome /\ AloneInv /\ ImageInv

-----------------------------------------------------------------------------
(* What a step does to the turns.                                          *)

\* Turns do not go back: marks stay, and a turn that has begun keeps its home.
Grows(T, T2) ==
    \A u \in Turns :
        /\ T[u].marks \subseteq T2[u].marks
        /\ Begun(T, u) => Begun(T2, u) /\ T2[u].home = T[u].home

\* A row that waits has been waiting, or was made by this step.
RowFrom(u) ==
    Waits(turn', u) =>
        \/ Waits(turn, u) /\ turn'[u].row = turn[u].row /\ turn'[u].phase = turn[u].phase
        \/ Begun(turn, u) /\ turn'[u].row \in {PlainRow("step", u, 0), PlainRow("error", u, 0)}
        \/ Done(u) /\ turn'[u].row = TextRow("answer", u, 0)
        \/ OcrResult(u) /\ turn'[u].row = PlainRow("ocr", u, 0) /\ turn'[u].phase = "saving"
        \/ Screenshot(u) /\ turn'[u].row = PlainRow("image", u, events + 1)
                         /\ turn'[u].phase = "saving"

ActiveFrom(u) == Active(turn', u) => Active(turn, u) \/ StartTurn(u)

BegunFrom(u) == Begun(turn', u) => Begun(turn, u) \/ ReceiveMessage(u)

FreshFrom(u) ==
    turn'[u].phase \in {"none", "queued"} => turn[u].phase \in {"none", "queued"}

\* What a turn says is a delta, or the event it ends with, which is sent after the
\* buffered text.
SaysFrom(u) ==
    \/ turn'[u].chunks = turn[u].chunks /\ turn'[u].told = turn[u].told
    \/ Delta(u) /\ turn'[u].chunks = turn[u].chunks + 1 /\ turn'[u].told = turn[u].told
    \/ /\ Flush /\ link = "open" /\ turn[u].phase \in {"running"} \cup Awaiting
       /\ turn'[u].chunks = turn[u].chunks /\ turn'[u].told # "none"
       /\ turn'[u].phase \in {"answering", "failing", "ended"}

TurnsMove ==
    /\ Grows(turn, turn')
    /\ \A u \in Turns : /\ RowFrom(u) /\ ActiveFrom(u) /\ BegunFrom(u)
                        /\ FreshFrom(u) /\ SaysFrom(u)

\* The fields of the records that the steps leave.
LEMMA TurnFields ==
    ASSUME NEW x \in Turn
    PROVE  /\ \A p : /\ AtPhase(x, p).phase = p /\ AtPhase(x, p).row = x.row
                     /\ AtPhase(x, p).home = x.home /\ AtPhase(x, p).marks = x.marks
           /\ \A r : /\ AtRow(x, r).phase = x.phase /\ AtRow(x, r).row = r
                     /\ AtRow(x, r).home = x.home /\ AtRow(x, r).marks = x.marks
           /\ \A p, r : /\ Storing(x, p, r).phase = p /\ Storing(x, p, r).row = r
                        /\ Storing(x, p, r).home = x.home /\ Storing(x, p, r).marks = x.marks
           /\ \A p, e, r : /\ Telling(x, p, e, r).phase = p /\ Telling(x, p, e, r).row = r
                           /\ Telling(x, p, e, r).told = e
                           /\ Telling(x, p, e, r).home = x.home
                           /\ Telling(x, p, e, r).marks = x.marks
                           /\ Telling(x, p, e, r).chunks = x.chunks
           /\ \A p, e : /\ ToldOnly(x, p, e).phase = p /\ ToldOnly(x, p, e).row = x.row
                        /\ ToldOnly(x, p, e).told = e
                        /\ ToldOnly(x, p, e).home = x.home /\ ToldOnly(x, p, e).marks = x.marks
                        /\ ToldOnly(x, p, e).chunks = x.chunks
           /\ /\ Longer(x).phase = x.phase /\ Longer(x).row = x.row /\ Longer(x).told = x.told
              /\ Longer(x).home = x.home /\ Longer(x).marks = x.marks
              /\ Longer(x).chunks = x.chunks + 1
           /\ \A c : /\ Queued(x, c).phase = "queued" /\ Queued(x, c).row = x.row
                     /\ Queued(x, c).home = c /\ Queued(x, c).marks = x.marks
           /\ \A n : /\ Noted(x, n).phase = x.phase /\ Noted(x, n).row = x.row
                     /\ Noted(x, n).home = x.home /\ Noted(x, n).marks = x.marks \cup n
           /\ \A n : /\ Started(x, n).phase = "created" /\ Started(x, n).row = x.row
                     /\ Started(x, n).home = x.home /\ Started(x, n).marks = x.marks \cup n
           /\ /\ Cut(x).phase = "ended" /\ Cut(x).row = NoRow
              /\ Cut(x).home = x.home /\ Cut(x).marks = x.marks \cup {"cut"}
BY DEF Turn, AtPhase, AtRow, Storing, Telling, ToldOnly, Longer, Queued, Noted, Started, Cut

\* A step of one turn.
LEMMA OneMoves ==
    ASSUME TypeOK, NEW t \in Turns, NEW y, turn' = [turn EXCEPT ![t] = y],
           turn[t].marks \subseteq y.marks,
           Begun(turn, t) => y.phase # "none" /\ y.home = turn[t].home,
           RowFrom(t), ActiveFrom(t), BegunFrom(t), FreshFrom(t), SaysFrom(t)
    PROVE  TurnsMove
<1>1. turn \in [Turns -> Turn]
  BY DEF TypeOK
<1>2. turn'[t] = y /\ \A u \in Turns : u # t => turn'[u] = turn[u]
  BY <1>1
<1>3. \A u \in Turns : u # t => /\ RowFrom(u) /\ ActiveFrom(u) /\ BegunFrom(u)
                                 /\ FreshFrom(u) /\ SaysFrom(u)
  BY <1>2 DEF RowFrom, ActiveFrom, BegunFrom, FreshFrom, SaysFrom, Waits, Active, Begun
<1>4. Grows(turn, turn')
  BY <1>2 DEF Grows, Begun
<1>5. QED
  BY <1>3, <1>4 DEF TurnsMove

\* A step that only notes something about turns, ends some and starts one.
LEMMA ManyMove ==
    ASSUME TypeOK, NEW g, turn' = [u \in Turns |-> g[u]],
           \A u \in Turns :
             /\ turn[u].marks \subseteq g[u].marks
             /\ g[u].home = turn[u].home
             /\ g[u].chunks = turn[u].chunks /\ g[u].told = turn[u].told
             /\ \/ g[u].row = turn[u].row /\ g[u].phase = turn[u].phase
                \/ g[u].phase = "ended" /\ Begun(turn, u)
                \/ g[u].phase = "created" /\ StartTurn(u)
    PROVE  TurnsMove
<1>1. \A u \in Turns : turn'[u] = g[u]
  OBVIOUS
<1>2. Grows(turn, turn')
  BY <1>1 DEF Grows, Begun
<1>3. ASSUME NEW u \in Turns PROVE /\ RowFrom(u) /\ ActiveFrom(u) /\ BegunFrom(u)
                                  /\ FreshFrom(u) /\ SaysFrom(u)
  BY <1>1 DEF RowFrom, ActiveFrom, BegunFrom, FreshFrom, SaysFrom, Waits, Active, Awaiting, Begun, StartTurn
<1>4. QED
  BY <1>2, <1>3 DEF TurnsMove

\* What the receive loop and the other clients do to the turns.
LEMMA ClientMoves ==
    ASSUME TypeOK, ClientStep \/ LoopStep \/ FireTimer \/ FlushTaskEnds \/ (\E c \in Convs : DeleteConversation(c))
    PROVE  TurnsMove
<1>0. turn \in [Turns -> Turn] /\ \A u \in Turns : turn[u] \in Turn
  BY DEF TypeOK
<1>1. ASSUME UNCHANGED turn PROVE TurnsMove
  BY <1>1 DEF TurnsMove, Grows, RowFrom, ActiveFrom, BegunFrom, FreshFrom, SaysFrom, Begun, Waits, Active
<1>2. ASSUME Close PROVE TurnsMove
  <2> DEFINE g == [u \in Turns |-> IF u = agentTask /\ u \in Running THEN Cut(turn[u]) ELSE turn[u]]
  <2>1. turn' = [u \in Turns |-> g[u]]
    BY <1>2 DEF Close, Cut
  <2>2. \A u \in Turns : (g[u] = Cut(turn[u]) /\ Begun(turn, u)) \/ g[u] = turn[u]
    BY DEF Running, Alive, Begun
  <2> HIDE DEF g
  <2>3. QED
    BY <1>0, <2>1, <2>2, TurnFields, TurnSays, ManyMove
<1>3. ASSUME NEW T, NEW mark, turn' = Marked(T, mark) PROVE TurnsMove
  <2> DEFINE g == [u \in Turns |-> IF u \in T /\ turn[u].phase # "none"
                                   THEN Noted(turn[u], {mark}) ELSE turn[u]]
  <2>1. turn' = [u \in Turns |-> g[u]]
    BY <1>3 DEF Marked, Noted
  <2>2. \A u \in Turns : g[u] = Noted(turn[u], {mark}) \/ g[u] = turn[u]
    OBVIOUS
  <2> HIDE DEF g
  <2>3. QED
    BY <1>0, <2>1, <2>2, TurnFields, TurnSays, ManyMove
<1>4. ASSUME NEW t \in Turns, ReceiveMessage(t) PROVE TurnsMove
  <2>1. PICK c \in Convs : turn' = [turn EXCEPT ![t].phase = "queued", ![t].home = c]
    BY <1>4 DEF ReceiveMessage
  <2> DEFINE y == Queued(turn[t], c)
  <2>2. turn' = [turn EXCEPT ![t] = y]
    BY <2>1 DEF Queued
  <2>3. /\ y.phase = "queued" /\ y.marks = turn[t].marks
        /\ y.chunks = turn[t].chunks /\ y.told = turn[t].told
    BY <1>0, TurnFields, TurnSays
  <2> HIDE DEF y
  <2>4. ~Begun(turn, t) /\ turn[t].phase = "none"
    BY <1>4 DEF ReceiveMessage, Begun
  <2>5. turn'[t] = y
    BY <1>0, <2>2
  <2>6. RowFrom(t) /\ ActiveFrom(t) /\ BegunFrom(t) /\ FreshFrom(t) /\ SaysFrom(t)
    BY <1>4, <2>3, <2>4, <2>5 DEF RowFrom, ActiveFrom, BegunFrom, FreshFrom, SaysFrom, Waits, Active, Awaiting
  <2>7. QED
    BY <2>2, <2>3, <2>4, <2>6, OneMoves
<1>5. CASE ReceiveAbort
  <2> DEFINE g == [u \in Turns |-> IF u = agentTask /\ u \in Running
                                   THEN Storing(turn[u], "ended", NoRow) ELSE turn[u]]
  <2>1. turn' = [u \in Turns |-> g[u]]
    BY <1>5 DEF ReceiveAbort, Storing
  <2>2. \A u \in Turns : \/ g[u] = Storing(turn[u], "ended", NoRow) /\ Begun(turn, u)
                         \/ g[u] = turn[u]
    BY DEF Running, Alive, Begun
  <2> HIDE DEF g
  <2>3. QED
    BY <1>0, <2>1, <2>2, TurnFields, TurnSays, ManyMove
<1>6. ASSUME NEW t \in Turns, StartTurn(t) PROVE TurnsMove
  <2>1. PICK others \in SUBSET Turns, met \in SUBSET Marks :
          turn' = [u \in Turns |-> IF u = t THEN Started(turn[t], met)
                                   ELSE IF u \in others THEN Noted(turn[u], met) ELSE turn[u]]
    BY <1>6 DEF StartTurn, Started, Noted, Marks
  <2> DEFINE g == [u \in Turns |-> IF u = t THEN Started(turn[t], met)
                                   ELSE IF u \in others THEN Noted(turn[u], met) ELSE turn[u]]
  <2>2. turn' = [u \in Turns |-> g[u]]
    BY <2>1
  <2>3. \A u \in Turns : \/ u = t /\ g[u] = Started(turn[u], met)
                         \/ g[u] = Noted(turn[u], met) \/ g[u] = turn[u]
    OBVIOUS
  <2> HIDE DEF g
  <2>4. QED
    BY <1>0, <1>6, <2>2, <2>3, TurnFields, TurnSays, ManyMove, SMTT(30)
<1>7. CASE ClientStep
  <2>1. CASE ReceiveMessageFails
    BY <1>2, <2>1 DEF ReceiveMessageFails
  <2>2. CASE RefuseMessage
    BY <1>1, <2>2 DEF RefuseMessage
  <2>3. CASE ReceiveInit
    BY <1>3, <2>3 DEF ReceiveInit
  <2>4. CASE ReceiveClear
    BY <1>3, <2>4 DEF ReceiveClear
  <2>5. CASE Disconnect
    BY <1>2, <2>5 DEF Disconnect
  <2>6. QED
    BY <1>4, <1>5, <1>7, <2>1, <2>2, <2>3, <2>4, <2>5 DEF ClientStep
<1>8. CASE LoopStep
  BY <1>1, <1>2, <1>6, <1>8 DEF LoopStep, ReapTurn, FinishAbort, FinishAbortFails
<1>9. CASE FireTimer \/ FlushTaskEnds
  BY <1>1, <1>9 DEF FireTimer, FlushTaskEnds
<1>10. ASSUME NEW c \in Convs, DeleteConversation(c) PROVE TurnsMove
  BY <1>3, <1>10 DEF DeleteConversation
<1>11. QED
  BY <1>7, <1>8, <1>9, <1>10

\* A step of a turn, the record it leaves.
LEMMA TurnStepRecord ==
    ASSUME TypeOK, NEW t \in Turns, TurnStep(t)
    PROVE  \E y \in Turn :
             /\ turn' = [turn EXCEPT ![t] = y]
             /\ y.marks = turn[t].marks /\ y.home = turn[t].home
             /\ Begun(turn, t) /\ y.phase # "none"
             /\ y.phase \in {"created", "running", "saving"} => Active(turn, t)
             /\ y.phase \notin {"none", "queued"}
             /\ \/ y.chunks = turn[t].chunks /\ y.told = turn[t].told
                \/ Delta(t) /\ y.chunks = turn[t].chunks + 1 /\ y.told = turn[t].told
                \/ /\ Flush /\ link = "open" /\ turn[t].phase \in {"running"} \cup Awaiting
                   /\ y.chunks = turn[t].chunks /\ y.told # "none"
                   /\ y.phase \in {"answering", "failing", "ended"}
             /\ y.phase \in Awaiting =>
                  \/ y.row \in {PlainRow("step", t, 0), PlainRow("error", t, 0)}
                  \/ Done(t) /\ y.row = TextRow("answer", t, 0)
                  \/ OcrResult(t) /\ y.row = PlainRow("ocr", t, 0) /\ y.phase = "saving"
                  \/ Screenshot(t) /\ y.row = PlainRow("image", t, events + 1)
                                   /\ y.phase = "saving"
<1> DEFINE Good(y) ==
             /\ y.marks = turn[t].marks /\ y.home = turn[t].home
             /\ Begun(turn, t) /\ y.phase # "none"
             /\ y.phase \in {"created", "running", "saving"} => Active(turn, t)
             /\ y.phase \notin {"none", "queued"}
             /\ \/ y.chunks = turn[t].chunks /\ y.told = turn[t].told
                \/ Delta(t) /\ y.chunks = turn[t].chunks + 1 /\ y.told = turn[t].told
                \/ /\ Flush /\ link = "open" /\ turn[t].phase \in {"running"} \cup Awaiting
                   /\ y.chunks = turn[t].chunks /\ y.told # "none"
                   /\ y.phase \in {"answering", "failing", "ended"}
             /\ y.phase \in Awaiting =>
                  \/ y.row \in {PlainRow("step", t, 0), PlainRow("error", t, 0)}
                  \/ Done(t) /\ y.row = TextRow("answer", t, 0)
                  \/ OcrResult(t) /\ y.row = PlainRow("ocr", t, 0) /\ y.phase = "saving"
                  \/ Screenshot(t) /\ y.row = PlainRow("image", t, events + 1)
                                   /\ y.phase = "saving"
<1> DEFINE Left(y) == y \in Turn /\ turn' = [turn EXCEPT ![t] = y] /\ Good(y)
<1>0. turn[t] \in Turn /\ turn[t].row \in Row
  BY DEF TypeOK, Turn
<1>1. /\ NoRow \in Row /\ PlainRow("step", t, 0) \in Row /\ PlainRow("error", t, 0) \in Row
      /\ PlainRow("ocr", t, 0) \in Row /\ TextRow("answer", t, 0) \in Row /\ PlainRow("image", t, events + 1) \in Row
  <2>1. events + 1 \in Nat
    BY CountTypes
  <2>2. QED
    BY <2>1, RowTypes DEF Kind
<1>2. ASSUME NEW p \in {"running", "ended"}, turn[t].phase = "created",
             turn' = [turn EXCEPT ![t] = AtPhase(turn[t], p)]
      PROVE  Left(AtPhase(turn[t], p))
  <2> DEFINE y == AtPhase(turn[t], p)
  <2>1. y \in Turn
    BY <1>0, <1>1, <1>2, TurnTypes DEF Phase
  <2>2. /\ y.phase = p
        /\ y.home = turn[t].home /\ y.marks = turn[t].marks
        /\ y.chunks = turn[t].chunks /\ y.told = turn[t].told
    BY <1>0, TurnFields, TurnSays
  <2> HIDE DEF y
  <2>3. turn' = [turn EXCEPT ![t] = y]
    BY <1>2 DEF y
  <2>4. Left(y)
    BY <1>2, <2>1, <2>2, <2>3 DEF Begun, Active, Awaiting
  <2>5. QED
    BY <2>4 DEF y
<1>3. ASSUME Delta(t) PROVE Left(Longer(turn[t]))
  <2>1. turn' = [turn EXCEPT ![t] = Longer(turn[t])] /\ turn[t].phase = "running"
    BY <1>3 DEF Delta, Longer
  <2> DEFINE y == Longer(turn[t])
  <2>2. y \in Turn
    BY <1>0, <1>1, TurnTypes
  <2>3. /\ y.phase = turn[t].phase /\ y.home = turn[t].home /\ y.marks = turn[t].marks
        /\ y.chunks = turn[t].chunks + 1 /\ y.told = turn[t].told
    BY <1>0, TurnFields
  <2>4. turn' = [turn EXCEPT ![t] = y]
    BY <2>1 DEF y
  <2> HIDE DEF y
  <2>5. Left(y)
    BY <1>3, <2>1, <2>2, <2>3, <2>4 DEF Begun, Active, Awaiting
  <2>6. QED
    BY <2>5 DEF y
<1>4. ASSUME NEW r \in Row, turn[t].phase = "running",
             \/ r = PlainRow("step", t, 0)
             \/ OcrResult(t) /\ r = PlainRow("ocr", t, 0)
             \/ Screenshot(t) /\ r = PlainRow("image", t, events + 1),
             turn' = [turn EXCEPT ![t] = Storing(turn[t], "saving", r)]
      PROVE  Left(Storing(turn[t], "saving", r))
  <2> DEFINE y == Storing(turn[t], "saving", r)
  <2>1. y \in Turn
    BY <1>0, <1>1, <1>4, TurnTypes DEF Phase
  <2>2. /\ y.phase = "saving" /\ y.row = r
        /\ y.home = turn[t].home /\ y.marks = turn[t].marks
        /\ y.chunks = turn[t].chunks /\ y.told = turn[t].told
    BY <1>0, TurnFields, TurnSays
  <2> HIDE DEF y
  <2>3. turn' = [turn EXCEPT ![t] = y]
    BY <1>4 DEF y
  <2>4. Left(y)
    BY <1>4, <2>1, <2>2, <2>3 DEF Begun, Active, Awaiting
  <2>5. QED
    BY <2>4 DEF y
<1>5. ASSUME NEW p \in {"answering", "failing"}, NEW e \in {"done", "error"}, NEW r,
             Flush, link = "open", turn[t].phase \in {"running"} \cup Awaiting,
             r = PlainRow("error", t, 0) \/ (Done(t) /\ r = TextRow("answer", t, 0)),
             turn' = [turn EXCEPT ![t] = Telling(turn[t], p, e, r)]
      PROVE  Left(Telling(turn[t], p, e, r))
  <2> DEFINE y == Telling(turn[t], p, e, r)
  <2>1. y \in Turn
    BY <1>0, <1>1, <1>5, TurnTypes DEF Phase
  <2>2. /\ y.phase = p /\ y.row = r
        /\ y.home = turn[t].home /\ y.marks = turn[t].marks
        /\ y.chunks = turn[t].chunks /\ y.told = e
    BY <1>0, TurnFields
  <2> HIDE DEF y
  <2>3. turn' = [turn EXCEPT ![t] = y]
    BY <1>5 DEF y
  <2>4. Left(y)
    BY <1>5, <2>1, <2>2, <2>3 DEF Begun, Active, Awaiting
  <2>5. QED
    BY <2>4 DEF y
<1>6. ASSUME Flush, link = "open", turn[t].phase = "running",
             turn' = [turn EXCEPT ![t] = ToldOnly(turn[t], "ended", "done")]
      PROVE  Left(ToldOnly(turn[t], "ended", "done"))
  <2> DEFINE y == ToldOnly(turn[t], "ended", "done")
  <2>1. y \in Turn
    BY <1>0, <1>1, <1>6, TurnTypes DEF Phase
  <2>2. /\ y.phase = "ended"
        /\ y.home = turn[t].home /\ y.marks = turn[t].marks
        /\ y.chunks = turn[t].chunks /\ y.told = "done"
    BY <1>0, TurnFields
  <2> HIDE DEF y
  <2>3. turn' = [turn EXCEPT ![t] = y]
    BY <1>6 DEF y
  <2>4. Left(y)
    BY <1>6, <2>1, <2>2, <2>3 DEF Begun, Active, Awaiting
  <2>5. QED
    BY <2>4 DEF y
<1>7. ASSUME turn[t].phase # "none", turn' = [turn EXCEPT ![t] = Storing(turn[t], "ended", NoRow)]
      PROVE  Left(Storing(turn[t], "ended", NoRow))
  <2> DEFINE y == Storing(turn[t], "ended", NoRow)
  <2>1. y \in Turn
    BY <1>0, <1>1, <1>7, TurnTypes DEF Phase
  <2>2. /\ y.phase = "ended"
        /\ y.home = turn[t].home /\ y.marks = turn[t].marks
        /\ y.chunks = turn[t].chunks /\ y.told = turn[t].told
    BY <1>0, TurnFields, TurnSays
  <2> HIDE DEF y
  <2>3. turn' = [turn EXCEPT ![t] = y]
    BY <1>7 DEF y
  <2>4. Left(y)
    BY <1>7, <2>1, <2>2, <2>3 DEF Begun, Active, Awaiting
  <2>5. QED
    BY <2>4 DEF y
<1>8. ASSUME turn[t].phase = "saving", turn' = [turn EXCEPT ![t] = Storing(turn[t], "running", NoRow)]
      PROVE  Left(Storing(turn[t], "running", NoRow))
  <2> DEFINE y == Storing(turn[t], "running", NoRow)
  <2>1. y \in Turn
    BY <1>0, <1>1, <1>8, TurnTypes DEF Phase
  <2>2. /\ y.phase = "running"
        /\ y.home = turn[t].home /\ y.marks = turn[t].marks
        /\ y.chunks = turn[t].chunks /\ y.told = turn[t].told
    BY <1>0, TurnFields, TurnSays
  <2> HIDE DEF y
  <2>3. turn' = [turn EXCEPT ![t] = y]
    BY <1>8 DEF y
  <2>4. Left(y)
    BY <1>8, <2>1, <2>2, <2>3 DEF Begun, Active, Awaiting
  <2>5. QED
    BY <2>4 DEF y
<1>9. ASSUME turn[t].phase \in Awaiting,
             turn' = [turn EXCEPT ![t] = AtRow(turn[t], PlainRow("step", t, 0))]
      PROVE  Left(AtRow(turn[t], PlainRow("step", t, 0)))
  <2> DEFINE y == AtRow(turn[t], PlainRow("step", t, 0))
  <2>1. y \in Turn
    BY <1>0, <1>1, <1>9, TurnTypes DEF Phase
  <2>2. /\ y.phase = turn[t].phase /\ y.row = PlainRow("step", t, 0)
        /\ y.home = turn[t].home /\ y.marks = turn[t].marks
        /\ y.chunks = turn[t].chunks /\ y.told = turn[t].told
    BY <1>0, TurnFields, TurnSays
  <2> HIDE DEF y
  <2>3. turn' = [turn EXCEPT ![t] = y]
    BY <1>9 DEF y
  <2>4. Left(y)
    BY <1>9, <2>1, <2>2, <2>3 DEF Begun, Active, Awaiting
  <2>5. QED
    BY <2>4 DEF y
<1> HIDE DEF Left
<1>10. \E y : Left(y)
  <2>1. CASE BuildTurn(t)
    BY <1>2, <2>1 DEF BuildTurn, AtPhase
  <2>2. CASE Delta(t)
    BY <1>3, <2>2
  <2>3. CASE Step(t) \/ OcrResult(t)
    <3>1. PICK kind \in {"ocr", "step"} :
            /\ turn[t].phase = "running"
            /\ turn' = [turn EXCEPT ![t] = Storing(turn[t], "saving", PlainRow(kind, t, 0))]
            /\ kind = "ocr" => OcrResult(t)
      BY <2>3 DEF Step, OcrResult, Emits, Storing
    <3>2. QED
      BY <1>1, <1>4, <3>1
  <2>4. CASE Screenshot(t)
    <3>1. turn[t].phase = "running"
          /\ turn' = [turn EXCEPT ![t] = Storing(turn[t], "saving", PlainRow("image", t, events + 1))]
      BY <2>4 DEF Screenshot, Emits, Storing
    <3>2. QED
      BY <1>1, <1>4, <2>4, <3>1
  <2>5. CASE Done(t)
    BY <1>5, <1>6, <2>5, ZenonT(30) DEF Done, Emits, Telling, ToldOnly
  <2>6. CASE Fail(t)
    BY <1>5, <2>6 DEF Fail, Emits, Telling
  <2>7. CASE Interrupt(t)
    BY <1>7, <2>7 DEF Interrupt, End, Storing
  <2>8. CASE SaveRow(t)
    <3>1. turn[t].phase \in Awaiting /\ turn[t].phase # "none"
      BY <2>8 DEF SaveRow, Awaiting
    <3>2. CASE turn[t].row.kind \in Payloads
      <4>1. CASE turn' = [turn EXCEPT ![t] = AtRow(turn[t], PlainRow("step", t, 0))]
        BY <1>9, <3>1, <4>1
      <4>2. CASE turn' = [turn EXCEPT ![t] = Storing(turn[t], "ended", NoRow)]
        BY <1>7, <3>1, <4>2
      <4>3. CASE /\ turn[t].phase = "saving"
                 /\ turn' = [turn EXCEPT ![t] = Storing(turn[t], "running", NoRow)]
        BY <1>8, <4>3
      <4>4. QED
        BY <2>8, <3>2, <4>1, <4>2, <4>3 DEF SaveRow, End, Preprocessing, Storing, AtRow
    <3>3. CASE turn[t].row.kind \notin Payloads
      <4>1. CASE turn[t].phase = "saving"
        <5>1. turn' = [turn EXCEPT ![t] = Storing(turn[t], "running", NoRow)]
          BY <2>8, <3>3, <4>1 DEF SaveRow, Storing
        <5>2. QED
          BY <1>8, <4>1, <5>1
      <4>2. CASE turn[t].phase # "saving"
        <5>1. turn' = [turn EXCEPT ![t] = Storing(turn[t], "ended", NoRow)]
          BY <2>8, <3>3, <4>2 DEF SaveRow, Storing
        <5>2. QED
          BY <1>7, <3>1, <5>1
      <4>3. QED
        BY <4>1, <4>2
    <3>4. QED
      BY <3>2, <3>3
  <2>9. CASE SaveFails(t)
    <3>1. turn[t].phase # "none"
      BY <2>9 DEF SaveFails, Awaiting
    <3>2. QED
      BY <1>5, <1>7, <2>9, <3>1 DEF SaveFails, End, Telling, Storing
  <2>10. CASE Notice(t)
    <3>1. turn' = [turn EXCEPT ![t] = turn[t]] /\ turn[t].phase = "running"
      BY <2>10 DEF Notice, Emits, TypeOK
    <3>2. Left(turn[t])
      BY <1>0, <3>1 DEF Left, Begun, Active, Awaiting
    <3>3. QED
      BY <3>2
  <2>11. QED
    BY <2>1, <2>2, <2>3, <2>4, <2>5, <2>6, <2>7, <2>8, <2>9, <2>10 DEF TurnStep
<1>11. QED
  BY <1>10 DEF Left

\* What any step does to the turns.
LEMMA StepMoves ==
    ASSUME TypeOK, [Next]_vars
    PROVE  TurnsMove
<1>1. ASSUME NEW t \in Turns, TurnStep(t) PROVE TurnsMove
  <2>1. PICK y \in Turn :
             /\ turn' = [turn EXCEPT ![t] = y]
             /\ y.marks = turn[t].marks /\ y.home = turn[t].home
             /\ Begun(turn, t) /\ y.phase # "none"
             /\ y.phase \in {"created", "running", "saving"} => Active(turn, t)
             /\ y.phase \notin {"none", "queued"}
             /\ \/ y.chunks = turn[t].chunks /\ y.told = turn[t].told
                \/ Delta(t) /\ y.chunks = turn[t].chunks + 1 /\ y.told = turn[t].told
                \/ /\ Flush /\ link = "open" /\ turn[t].phase \in {"running"} \cup Awaiting
                   /\ y.chunks = turn[t].chunks /\ y.told # "none"
                   /\ y.phase \in {"answering", "failing", "ended"}
             /\ y.phase \in Awaiting =>
                  \/ y.row \in {PlainRow("step", t, 0), PlainRow("error", t, 0)}
                  \/ Done(t) /\ y.row = TextRow("answer", t, 0)
                  \/ OcrResult(t) /\ y.row = PlainRow("ocr", t, 0) /\ y.phase = "saving"
                  \/ Screenshot(t) /\ y.row = PlainRow("image", t, events + 1)
                                   /\ y.phase = "saving"
    BY <1>1, TurnStepRecord
  <2>2. turn'[t] = y
    BY <2>1 DEF TypeOK
  <2>3. RowFrom(t) /\ ActiveFrom(t) /\ BegunFrom(t) /\ FreshFrom(t) /\ SaysFrom(t)
    BY <2>1, <2>2 DEF RowFrom, ActiveFrom, BegunFrom, FreshFrom, SaysFrom, Waits, Active
  <2>4. QED
    BY <2>1, <2>3, OneMoves
<1>2. CASE UNCHANGED vars
  BY <1>2 DEF vars, TurnsMove, Grows, RowFrom, ActiveFrom, BegunFrom, FreshFrom, SaysFrom, Begun, Waits, Active
<1>3. QED
  BY <1>1, <1>2, ClientMoves DEF Next

-----------------------------------------------------------------------------
(* The silence after an abort.                                             *)

\* A row to be sent is made while nothing is aborted, so that a turn sends one at most
\* once abort_event is set, and stores none then.
LateInv ==
    /\ aborted => buffer = <<>>
    /\ ~aborted => \A u \in Turns : late[u] = 0
    /\ \A u \in Turns :
         late[u] = 0 \/ (late[u] = 1 /\ ~(Waits(turn, u) /\ turn[u].row.kind \in Payloads))

\* What is sent after an abort is what one turn was storing.
LastSend(u) ==
    /\ aborted /\ Waits(turn, u) /\ turn[u].row.kind \in Payloads
    /\ ~(Waits(turn', u) /\ turn'[u].row.kind \in Payloads)
    /\ late' = [late EXCEPT ![u] = @ + 1]

\* What a step does to the abort event and to what is counted since.
LEMMA StepLate ==
    ASSUME TypeOK, [Next]_vars
    PROVE  \/ late' = late /\ aborted' = aborted
           \/ late' = late /\ aborted' = TRUE /\ buffer' = <<>>
           \/ late' = [u \in Turns |-> 0] /\ aborted' = FALSE
           \/ aborted' = aborted /\ \E u \in Turns : LastSend(u)
<1>1. CASE ClientStep
  BY <1>1 DEF ClientStep, ReceiveMessage, ReceiveMessageFails, RefuseMessage,
              ReceiveAbort, ReceiveInit, ReceiveClear, Disconnect, loopVars
<1>2. CASE LoopStep
  BY <1>2 DEF LoopStep, ReapTurn, FinishAbort, FinishAbortFails, StartTurn
<1>3. ASSUME NEW t \in Turns, TurnStep(t)
      PROVE  \/ late' = late /\ aborted' = aborted
             \/ aborted' = aborted /\ LastSend(t)
  <2>1. aborted' = aborted
    BY <1>3 DEF TurnStep, BuildTurn, Delta, Notice, Step, Screenshot, OcrResult, Done, Fail,
                Interrupt, SaveRow, SaveFails, loopVars
  <2>2. CASE SaveRow(t)
    <3>1. CASE late' = late
      BY <2>1, <3>1
    <3>2. CASE late' # late
      <4>1. /\ turn[t].row.kind \in Payloads /\ turn[t].phase \in Awaiting /\ Sends(t)
            /\ \/ turn' = [turn EXCEPT ![t] = AtRow(turn[t], PlainRow("step", t, 0))]
               \/ turn' = [turn EXCEPT ![t] = Storing(turn[t], "running", NoRow)]
        BY <2>2, <3>2 DEF SaveRow, AtRow, Storing
      <4>2. /\ AtRow(turn[t], PlainRow("step", t, 0)).row = PlainRow("step", t, 0)
            /\ Storing(turn[t], "running", NoRow).phase = "running"
        BY TurnFields DEF TypeOK
      <4>3. turn'[t].row.kind = "step" \/ turn'[t].phase = "running"
        <5>1. \/ turn'[t] = AtRow(turn[t], PlainRow("step", t, 0))
              \/ turn'[t] = Storing(turn[t], "running", NoRow)
          BY <4>1 DEF TypeOK
        <5>2. QED
          BY <4>2, <5>1 DEF PlainRow
      <4>4. ~(Waits(turn', t) /\ turn'[t].row.kind \in Payloads)
        BY <4>3 DEF Waits, Awaiting, Payloads
      <4>5. QED
        BY <2>1, <3>2, <4>1, <4>4 DEF LastSend, Sends, Waits
    <3>3. QED
      BY <3>1, <3>2
  <2>3. CASE ~SaveRow(t)
    BY <1>3, <2>1, <2>3 DEF TurnStep, BuildTurn, Delta, Notice, Step, Screenshot, OcrResult, Done,
                Fail, Interrupt, SaveFails, Emits, Sends, Silenced
  <2>4. QED
    BY <2>2, <2>3
<1>4. CASE FireTimer \/ FlushTaskEnds \/ (\E c \in Convs : DeleteConversation(c)) \/ UNCHANGED vars
  BY <1>4 DEF FireTimer, FlushTaskEnds, DeleteConversation, loopVars, vars
<1>5. QED
  BY <1>1, <1>2, <1>3, <1>4 DEF Next

\* Once abort_event is set, the buffer is not touched, and nothing of it is sent.
LEMMA StepSilence ==
    ASSUME TypeOK, LateInv, [Next]_vars, aborted
    PROVE  buffer' = <<>> /\ shown' = shown
<1>1. buffer = <<>> /\ shown \o buffer = shown
  BY DEF LateInv, TypeOK, Chunks
<1>2. CASE ClientStep
  BY <1>1, <1>2 DEF ClientStep, ReceiveMessage, ReceiveMessageFails, RefuseMessage,
              ReceiveAbort, ReceiveInit, ReceiveClear, Disconnect, stateVars
<1>3. CASE LoopStep
  BY <1>1, <1>3 DEF LoopStep, ReapTurn, FinishAbort, FinishAbortFails, StartTurn, stateVars
<1>4. ASSUME NEW t \in Turns, TurnStep(t) PROVE buffer' = <<>> /\ shown' = shown
  BY <1>1, <1>4 DEF TurnStep, BuildTurn, Delta, Notice, Step, Screenshot, OcrResult, Done, Fail,
              Interrupt, SaveRow, SaveFails, Emits, Silenced, stateVars
<1>5. CASE FireTimer \/ FlushTaskEnds \/ (\E c \in Convs : DeleteConversation(c)) \/ UNCHANGED vars
  BY <1>1, <1>5 DEF FireTimer, FlushTaskEnds, DeleteConversation, stateVars, vars
<1>6. QED
  BY <1>2, <1>3, <1>4, <1>5 DEF Next

\* A row to be sent is stored by a turn that no abort has silenced.
LEMMA PayloadFrom ==
    ASSUME TypeOK, [Next]_vars, NEW u \in Turns, Waits(turn', u), turn'[u].row.kind \in Payloads
    PROVE  \/ Waits(turn, u) /\ turn[u].row.kind \in Payloads
           \/ ~aborted /\ ~aborted'
<1>1. RowFrom(u)
  BY StepMoves DEF TurnsMove
<1>2. CASE OcrResult(u) \/ Screenshot(u)
  BY <1>2 DEF OcrResult, Screenshot, Emits, Silenced
<1>3. turn'[u].row \notin {PlainRow("step", u, 0), PlainRow("error", u, 0)}
  BY DEF PlainRow, Payloads
<1>4. turn'[u].row # TextRow("answer", u, 0)
  BY DEF TextRow, Payloads
<1>5. QED
  BY <1>1, <1>2, <1>3, <1>4 DEF RowFrom

THEOREM LateHolds == Spec => []LateInv
<1>1. Init => LateInv
  BY DEF Init, LateInv
<1>2. ASSUME TypeOK, LateInv, [Next]_vars PROVE LateInv'
  <2>0. late \in [Turns -> Nat]
    BY <1>2 DEF TypeOK
  <2>1. aborted' => buffer' = <<>>
    BY <1>2, StepLate, StepSilence
  <2>2. ~aborted' => \A u \in Turns : late'[u] = 0
    <3>1. SUFFICES ASSUME ~aborted', NEW u \in Turns PROVE late'[u] = 0
      OBVIOUS
    <3>2. CASE late' = [w \in Turns |-> 0]
      BY <3>2
    <3>3. CASE late' = late /\ aborted' = aborted
      BY <1>2, <3>1, <3>3 DEF LateInv
    <3>4. aborted \in BOOLEAN
      BY <1>2 DEF TypeOK
    <3>5. ~(aborted' = aborted /\ \E w \in Turns : LastSend(w))
      BY <3>1 DEF LastSend
    <3>6. QED
      BY <1>2, <3>1, <3>2, <3>3, <3>5, StepLate
  <2>3. ASSUME NEW u \in Turns
        PROVE  \/ late'[u] = 0
               \/ late'[u] = 1 /\ ~(Waits(turn', u) /\ turn'[u].row.kind \in Payloads)
    <3>1. CASE late'[u] = late[u]
      <4>1. CASE late[u] = 0
        BY <3>1, <4>1
      <4>2. CASE late[u] # 0
        <5>1. aborted /\ late[u] = 1 /\ ~(Waits(turn, u) /\ turn[u].row.kind \in Payloads)
          BY <1>2, <4>2 DEF LateInv
        <5>2. QED
          BY <1>2, <3>1, <5>1, PayloadFrom
      <4>3. QED
        BY <4>1, <4>2
    <3>2. CASE LastSend(u)
      <4>1. late[u] = 0
        BY <1>2, <3>2 DEF LateInv, LastSend
      <4>2. QED
        BY <2>0, <3>2, <4>1 DEF LastSend
    <3>3. ASSUME NEW w \in Turns, w # u, LastSend(w) PROVE late'[u] = late[u]
      BY <2>0, <3>3 DEF LastSend
    <3>4. CASE late' = [w \in Turns |-> 0]
      BY <3>4
    <3>5. QED
      BY <1>2, <3>1, <3>2, <3>3, <3>4, StepLate
  <2>4. QED
    BY <2>1, <2>2, <2>3 DEF LateInv
<1>3. QED
  BY <1>1, <1>2, TypeCorrect, PTL DEF Spec

\* on_event raises CancelledError for every turn once abort_event is set, so that
\* an abort silences the turns it does not cancel too: until the next message, such a
\* turn produces no text and tells the client nothing more, but for the one payload -
\* a screenshot, or what OCR read - that it was storing when the abort came.
THEOREM AbortIsSilent == Spec => AbortSilences
<1>1. ASSUME TypeOK, LateInv, [Next]_vars
      PROVE  [aborted /\ aborted' => shown' = shown
                                     /\ \A u \in Turns : Quiet(u) \/ LastWord(u)]_vars
  <2>1. SUFFICES ASSUME aborted, aborted'
                 PROVE  shown' = shown /\ \A u \in Turns : Quiet(u) \/ LastWord(u)
    OBVIOUS
  <2>2. shown' = shown
    BY <1>1, <2>1, StepSilence
  <2>3. SUFFICES ASSUME NEW u \in Turns PROVE Quiet(u) \/ LastWord(u)
    BY <2>2
  <2>4. turn'[u].chunks = turn[u].chunks /\ turn'[u].told = turn[u].told
    BY <1>1, <2>1, StepTypes DEF SaysNothing
  <2>5. CASE late'[u] = late[u]
    BY <2>4, <2>5 DEF Quiet
  <2>6. CASE LastSend(u)
    <3>1. late[u] = 0 /\ late \in [Turns -> Nat]
      BY <1>1, <2>6 DEF LateInv, LastSend, TypeOK
    <3>2. late'[u] = 1
      BY <2>6, <3>1 DEF LastSend
    <3>3. QED
      BY <2>4, <2>6, <3>1, <3>2 DEF LastWord, LastSend
  <2>7. ASSUME NEW w \in Turns, w # u, LastSend(w) PROVE late'[u] = late[u]
    BY <1>1, <2>7 DEF LastSend, TypeOK
  <2>8. QED
    BY <1>1, <2>1, <2>5, <2>6, <2>7, StepLate
<1>2. QED
  BY <1>1, LateHolds, TypeCorrect, PTL DEF Spec, AbortSilences

-----------------------------------------------------------------------------
(* Rows that are in their home stay there.                                 *)

\* No image of J has a number and a turn that no image of I has, unless its
\* number is greater than n.
ImagesFrom(I, J, n) ==
    \A i \in J : i.nth > n \/ (\E j \in I : j.nth = i.nth /\ j.by = i.by)

LEMMA RowKept ==
    ASSUME NEW T, NEW T2, Grows(T, T2), NEW m, RowHome(m, T)
    PROVE  RowHome(m, T2)
BY DEF Grows, RowHome, Begun, Moved, Joined

LEMMA ReadyKept ==
    ASSUME NEW T, NEW T2, Grows(T, T2), NEW I, NEW J, NEW n \in Nat, NEW k \in Nat, n <= k,
           \A i \in J : i.nth \in Nat, ImagesFrom(I, J, n),
           NEW m, m.nth \in Nat, ReadyHome(m, T, I, n)
    PROVE  ReadyHome(m, T2, J, k)
<1>1. CASE m.kind # "caption"
  BY <1>1, RowKept DEF ReadyHome
<1>2. CASE m.kind = "caption"
  <2>1. CaptionHome(m, T, I, n)
    BY <1>2 DEF ReadyHome
  <2>2. m.nth <= n /\ m.nth <= k
    BY <2>1 DEF CaptionHome
  <2>3. ASSUME NEW t \in Turns, InText(m.text, t) PROVE Begun(T2, t)
    BY <2>1, <2>3 DEF CaptionHome, Grows
  <2>4. ASSUME NEW t \in Turns, InText(m.text, t), ~Joined(T2, t), NEW i \in J, i.nth = m.nth
        PROVE  i.by = t
    <3>1. ~Joined(T, t)
      BY <2>4 DEF Grows, Joined
    <3>2. PICK j \in I : j.nth = i.nth /\ j.by = i.by
      BY <2>2, <2>4 DEF ImagesFrom
    <3>3. QED
      BY <2>1, <2>4, <3>1, <3>2 DEF CaptionHome
  <2>5. CaptionHome(m, T2, J, k)
    BY <2>2, <2>3, <2>4 DEF CaptionHome
  <2>6. QED
    BY <1>2, <2>5 DEF ReadyHome
<1>3. QED
  BY <1>1, <1>2

-----------------------------------------------------------------------------
(* Rows that are made.                                                     *)

LEMMA PlainHome ==
    ASSUME BoundHome, NEW t \in Turns, Begun(turn, t), NEW kind \in Kind, kind # "caption", NEW n
    PROVE  RowHome(PlainRow(kind, t, n), turn) /\ PlainRow(kind, t, n).by = t
           /\ PlainRow(kind, t, n).kind = kind /\ PlainRow(kind, t, n).nth = n
<1>1. \A u : ~InText(<<>>, u)
  BY DEF InText
<1>2. QED
  BY <1>1 DEF RowHome, PlainRow, BoundHome, InText

\* The row that stores the accumulated text.
LEMMA TextHome ==
    ASSUME TypeOK, BoundHome, AloneInv, ImageInv, NEW kind \in {"answer", "partial"},
           NEW t, kind = "answer" => t \in Turns /\ Begun(turn, t), NEW n
    PROVE  /\ ReadyHome(TextRow(kind, t, n), turn, Images, events)
           /\ TextRow(kind, t, n).by = t
           /\ TextRow(kind, t, n).kind \in {kind, "caption"}
<1> DEFINE m == TextRow(kind, t, n)
<1>1. CASE image # 0
  <2>1. m.kind = "caption" /\ m.by = t /\ m.text = text /\ m.nth = image
    BY <1>1 DEF TextRow
  <2> HIDE DEF m
  <2>2. CaptionHome(m, turn, Images, events)
    BY <1>1, <2>1 DEF CaptionHome, AloneInv, ImageInv, Alone
  <2>3. QED
    BY <2>1, <2>2 DEF ReadyHome, m
<1>2. CASE image = 0
  <2>1. m.kind = kind /\ m.by = t /\ m.text = text /\ m.conv = conv
    BY <1>2 DEF TextRow
  <2> HIDE DEF m
  <2>2. RowHome(m, turn)
    BY <2>1 DEF RowHome, AloneInv, BoundHome
  <2>3. QED
    BY <2>1, <2>2 DEF ReadyHome, m
<1>3. QED
  BY <1>1, <1>2

-----------------------------------------------------------------------------
(* Rows that are stored.                                                   *)

\* A row that a turn or do_abort is about to store.
Pending(r) == (\E t \in Turns : Waits(turn, t) /\ r = turn[t].row) \/ (draft # NoRow /\ r = draft)

\* Where a row of the table may come from.
UserRow(c, t) == [kind |-> "user", conv |-> c, by |-> t, text |-> <<>>, nth |-> 0]
Comes(m) ==
    \/ m \in stored
    \/ \E c \in Convs, t \in Turns : m = UserRow(c, t)
    \/ \E r \in Row : Pending(r) /\ CanStore(r) /\ m \in StoredWith(r)

LEMMA CancelRows ==
    ASSUME TypeOK, CancelCommit
    PROVE  \A m \in stored' : Comes(m)
<1>1. CASE UNCHANGED stored
  BY <1>1 DEF Comes
<1>2. CASE /\ agentTask # NoTurn
           /\ turn[agentTask].phase \in Awaiting
           /\ CanStore(turn[agentTask].row)
           /\ stored' = StoredWith(turn[agentTask].row)
  <2>1. agentTask \in Turns /\ turn[agentTask].row \in Row
    BY <1>2 DEF TypeOK, Turn
  <2>2. Pending(turn[agentTask].row)
    BY <1>2, <2>1 DEF Pending, Waits
  <2>3. QED
    BY <1>2, <2>1, <2>2 DEF Comes
<1>3. QED
  BY <1>1, <1>2 DEF CancelCommit

LEMMA StepRows ==
    ASSUME TypeOK, [Next]_vars
    PROVE  \A m \in stored' : Comes(m)
<1>1. ASSUME stored' \subseteq stored PROVE \A m \in stored' : Comes(m)
  BY <1>1 DEF Comes
<1>2. ASSUME NEW t \in Turns, ReceiveMessage(t) PROVE \A m \in stored' : Comes(m)
  BY <1>2 DEF ReceiveMessage, Comes, UserRow
<1>3. CASE ClientStep
  BY <1>1, <1>2, <1>3, CancelRows
  DEF ClientStep, ReceiveMessageFails, RefuseMessage, ReceiveAbort, ReceiveInit, ReceiveClear,
      Disconnect, Close
<1>4. CASE FinishAbort
  <2>1. CASE draft = NoRow
    BY <1>1, <1>4, <2>1 DEF FinishAbort
  <2>2. CASE draft # NoRow
    <3>1. draft \in Row /\ Pending(draft)
      BY <2>2 DEF Pending, TypeOK
    <3>2. QED
      BY <1>4, <2>2, <3>1 DEF FinishAbort, Comes
  <2>3. QED
    BY <2>1, <2>2
<1>5. CASE LoopStep
  BY <1>1, <1>4, <1>5, CancelRows
  DEF LoopStep, ReapTurn, FinishAbortFails, StartTurn, Close, dbVars
<1>6. ASSUME NEW t \in Turns, SaveRow(t) PROVE \A m \in stored' : Comes(m)
  <2>1. turn[t].row \in Row /\ Pending(turn[t].row)
    BY <1>6 DEF TypeOK, Turn, SaveRow, Pending, Waits
  <2>2. QED
    BY <1>6, <2>1 DEF SaveRow, Comes
<1>7. ASSUME NEW t \in Turns, TurnStep(t) PROVE \A m \in stored' : Comes(m)
  BY <1>1, <1>6, <1>7
  DEF TurnStep, BuildTurn, Delta, Notice, Step, Screenshot, OcrResult, Done, Fail, Interrupt, SaveFails, dbVars
<1>8. CASE FireTimer \/ FlushTaskEnds
  BY <1>1, <1>8 DEF FireTimer, FlushTaskEnds, dbVars
<1>9. ASSUME NEW c \in Convs, DeleteConversation(c) PROVE \A m \in stored' : Comes(m)
  BY <1>1, <1>9 DEF DeleteConversation
<1>10. CASE UNCHANGED vars
  BY <1>1, <1>10 DEF vars
<1>11. QED
  BY <1>3, <1>5, <1>7, <1>8, <1>9, <1>10 DEF Next

\* What an update leaves of an image.
LEMMA CaptionedFields ==
    ASSUME NEW i \in StoredRow, NEW m
    PROVE  /\ Captioned(i, m).kind = i.kind /\ Captioned(i, m).conv = i.conv
           /\ Captioned(i, m).by = i.by /\ Captioned(i, m).nth = i.nth
           /\ Captioned(i, m).text = m.text
BY DEF Captioned, StoredRow

\* A pending row that can be stored leaves rows that are at home, and no new image.
LEMMA StoreHome ==
    ASSUME TypeOK, HomeInv, NEW r \in Row, Pending(r), NEW m \in StoredWith(r)
    PROVE  /\ RowHome(m, turn)
           /\ m.kind = "image" => \E j \in Images : j.nth = m.nth /\ j.by = m.by
<1>1. ReadyHome(r, turn, Images, events)
  BY DEF Pending, HomeInv, WaitingHome, DraftHome
<1>2. ASSUME m \in stored
      PROVE  /\ RowHome(m, turn)
             /\ m.kind = "image" => \E j \in Images : j.nth = m.nth /\ j.by = m.by
  BY <1>2 DEF HomeInv, StoredHome, Images, ImagesOf
<1>3. CASE r.kind # "caption" /\ m = r
  <2>1. RowHome(m, turn)
    BY <1>1, <1>3 DEF ReadyHome
  <2>2. ASSUME m.kind = "image" PROVE m \in Images
    <3>1. PICK t \in Turns : Waits(turn, t) /\ r = turn[t].row
      BY <1>3, <2>2 DEF Pending, HomeInv, DraftHome
    <3>2. QED
      BY <1>3, <2>2, <3>1 DEF Images, ImagesOf
  <2>3. QED
    BY <2>1, <2>2
<1>4. ASSUME r.kind = "caption", NEW i \in ImageOf(r), m = Captioned(i, r)
      PROVE  /\ RowHome(m, turn)
             /\ m.kind = "image" => \E j \in Images : j.nth = m.nth /\ j.by = m.by
  <2>1. i \in stored /\ i \in StoredRow /\ i.kind = "image" /\ i.nth = r.nth
    BY <1>4 DEF ImageOf, TypeOK
  <2>2. i \in Images
    BY <2>1 DEF Images, ImagesOf
  <2>3. m.kind = "image" /\ m.conv = i.conv /\ m.by = i.by /\ m.nth = i.nth /\ m.text = r.text
    BY <1>4, <2>1, CaptionedFields
  <2>4. RowHome(i, turn)
    BY <2>1 DEF HomeInv, StoredHome
  <2>5. CaptionHome(r, turn, Images, events)
    BY <1>1, <1>4 DEF ReadyHome
  <2>6. m.by \in Turns /\ Begun(turn, m.by) /\ (~Moved(turn, m.by) => m.conv = turn[m.by].home)
    BY <2>1, <2>3, <2>4 DEF RowHome
  <2>7. ASSUME NEW t \in Turns, InText(m.text, t)
        PROVE  Begun(turn, t) /\ (~Joined(turn, t) => m.by = t)
    BY <2>1, <2>2, <2>3, <2>5, <2>7 DEF CaptionHome
  <2>8. RowHome(m, turn)
    BY <2>6, <2>7 DEF RowHome
  <2>9. QED
    BY <2>2, <2>3, <2>8
<1>5. CASE r.kind = "caption"
  <2>1. StoredWith(r) = (stored \ ImageOf(r)) \cup {Captioned(i, r) : i \in ImageOf(r)}
    BY <1>5 DEF StoredWith, Captioned
  <2>2. m \in stored \/ \E i \in ImageOf(r) : m = Captioned(i, r)
    BY <2>1
  <2>3. QED
    BY <1>2, <1>4, <1>5, <2>2
<1>6. CASE r.kind # "caption"
  BY <1>2, <1>3, <1>6 DEF StoredWith
<1>7. QED
  BY <1>5, <1>6

-----------------------------------------------------------------------------
(* What a step does to the images, the text and the current image.          *)

\* One screenshot is made at a time.
LEMMA OneScreenshot ==
    ASSUME TypeOK, NEW t \in Turns, NEW u \in Turns, Screenshot(t), Screenshot(u)
    PROVE  t = u
<1>1. turn[t].phase = "running" /\ turn[u].phase = "running"
  BY DEF Screenshot, Emits
<1>2. turn' = [turn EXCEPT ![t] = Storing(turn[t], "saving", PlainRow("image", t, events + 1))]
      /\ turn' = [turn EXCEPT ![u] = Storing(turn[u], "saving", PlainRow("image", u, events + 1))]
  BY DEF Screenshot, Storing
<1>3. Storing(turn[t], "saving", PlainRow("image", t, events + 1)).phase = "saving"
  BY TurnFields DEF TypeOK
<1>4. turn'[t].phase = "saving"
  BY <1>2, <1>3 DEF TypeOK
<1>5. t # u => turn'[t] = turn[t]
  BY <1>2 DEF TypeOK
<1>6. QED
  BY <1>1, <1>4, <1>5

\* Rows that wait or wait no more have numbers.
LEMMA ImageTypes ==
    ASSUME TypeOK
    PROVE  /\ \A i \in Images : i.nth \in Nat
           /\ \A t \in Turns : turn[t].row.nth \in Nat
           /\ draft.nth \in Nat
           /\ image \in Nat
<1>1. \A i \in stored : i.nth \in Nat
  BY DEF TypeOK, StoredRow
<1>2. \A t \in Turns : turn[t].row.nth \in Nat
  BY DEF TypeOK, Turn, Row
<1>3. draft.nth \in Nat
  BY DEF TypeOK, Row
<1>4. QED
  BY <1>1, <1>2, <1>3 DEF TypeOK, Images, ImagesOf

NewImage(i) == \E t \in Turns :
                 Screenshot(t) /\ i.by = t /\ i.nth = events + 1 /\ events' = events + 1

LEMMA StepImages ==
    ASSUME TypeOK, HomeInv, [Next]_vars
    PROVE  /\ \A i \in ImagesOf(stored', turn') :
                NewImage(i) \/ (\E j \in Images : j.nth = i.nth /\ j.by = i.by)
           /\ ImagesFrom(Images, ImagesOf(stored', turn'), events)
           /\ events \in Nat /\ events' \in Nat /\ events <= events'
           /\ \A i \in ImagesOf(stored', turn') : i.nth \in Nat
<1>1. TurnsMove
  BY StepMoves
<1>2. ASSUME NEW i \in stored', i.kind = "image"
      PROVE  \E j \in Images : j.nth = i.nth /\ j.by = i.by
  <2>1. Comes(i)
    BY <1>2, StepRows
  <2>2. CASE i \in stored
    BY <1>2, <2>2 DEF Images, ImagesOf
  <2>3. ~(\E c \in Convs, t \in Turns : i = UserRow(c, t))
    BY <1>2 DEF UserRow
  <2>4. ASSUME NEW r \in Row, Pending(r), i \in StoredWith(r)
        PROVE  \E j \in Images : j.nth = i.nth /\ j.by = i.by
    BY <1>2, <2>4, StoreHome
  <2>5. QED
    BY <2>1, <2>2, <2>3, <2>4 DEF Comes
<1>3. ASSUME NEW u \in Turns, Waits(turn', u), turn'[u].row.kind = "image"
      PROVE  NewImage(turn'[u].row) \/ (\E j \in Images : j.nth = turn'[u].row.nth /\ j.by = turn'[u].row.by)
  <2>1. RowFrom(u)
    BY <1>1 DEF TurnsMove
  <2>2. CASE Waits(turn, u) /\ turn'[u].row = turn[u].row
    BY <1>3, <2>2 DEF Images, ImagesOf
  <2>3. turn'[u].row \notin {PlainRow("step", u, 0), PlainRow("ocr", u, 0), PlainRow("error", u, 0),
                             TextRow("answer", u, 0)}
    BY <1>3 DEF PlainRow, TextRow
  <2>4. CASE Screenshot(u) /\ turn'[u].row = PlainRow("image", u, events + 1)
    <3>1. turn'[u].row.by = u /\ turn'[u].row.nth = events + 1
      BY <2>4 DEF PlainRow
    <3>2. events' = events + 1
      BY <2>4 DEF Screenshot, Event
    <3>3. NewImage(turn'[u].row)
      BY <2>4, <3>1, <3>2 DEF NewImage
    <3>4. QED
      BY <3>3
  <2>5. QED
    BY <1>3, <2>1, <2>2, <2>3, <2>4 DEF RowFrom
<1>4. \A i \in ImagesOf(stored', turn') :
        NewImage(i) \/ (\E j \in Images : j.nth = i.nth /\ j.by = i.by)
  BY <1>2, <1>3 DEF ImagesOf
<1>5. events \in Nat /\ events' \in Nat /\ events <= events'
  <2>1. events \in Nat
    BY CountTypes, SMTT(30)
  <2>2. events' = events \/ events' = events + 1
    BY DEF Next, ClientStep, LoopStep, TurnStep, ReceiveMessage, ReceiveMessageFails, RefuseMessage,
           ReceiveAbort, ReceiveInit, ReceiveClear, Disconnect, ReapTurn, FinishAbort,
           FinishAbortFails, StartTurn, BuildTurn, Delta, Notice, Step, Screenshot, OcrResult, Done, Fail,
           Interrupt,            SaveRow, SaveFails, FireTimer, FlushTaskEnds, DeleteConversation, Event, loopVars, counts, vars
  <2>3. QED
    BY <2>1, <2>2
<1>6. ImagesFrom(Images, ImagesOf(stored', turn'), events)
  <2>1. ASSUME NEW i, NewImage(i) PROVE i.nth > events
    BY <1>5, <2>1 DEF NewImage
  <2>2. QED
    BY <1>4, <2>1 DEF ImagesFrom
<1>7. \A i \in ImagesOf(stored', turn') : i.nth \in Nat
  BY <1>4, <1>5, ImageTypes DEF NewImage
<1>8. QED
  BY <1>4, <1>5, <1>6, <1>7

\* The text is replaced by a turn that starts, and grows by a delta.
LEMMA StepText ==
    ASSUME [Next]_vars
    PROVE  /\ \/ text' = text
              \/ \E t \in Turns : StartTurn(t) /\ text' = <<>>
              \/ \E t \in Turns : Delta(t) /\ text' = Append(text, t)
           /\ \A t \in Turns : StartTurn(t) => text' = <<>> /\ image' = 0
<1>1. \A t \in Turns : StartTurn(t) => text' = <<>> /\ image' = 0
  BY DEF StartTurn, FreshText
<1>2. ASSUME NEW t \in Turns, TurnStep(t) PROVE text' = text \/ (Delta(t) /\ text' = Append(text, t))
  BY <1>2 DEF TurnStep, BuildTurn, Delta, Notice, Step, Screenshot, OcrResult, Done, Fail, Interrupt, SaveRow,
              SaveFails, stateVars
<1>3. ASSUME ClientStep PROVE text' = text
  BY <1>3 DEF ClientStep, ReceiveMessage, ReceiveMessageFails, RefuseMessage,
              ReceiveAbort, ReceiveInit, ReceiveClear, Disconnect, stateVars
<1>4. ASSUME LoopStep PROVE text' = text \/ (\E t \in Turns : StartTurn(t) /\ text' = <<>>)
  BY <1>1, <1>4 DEF LoopStep, ReapTurn, FinishAbort, FinishAbortFails, stateVars
<1>5. ASSUME FireTimer \/ FlushTaskEnds \/ (\E c \in Convs : DeleteConversation(c)) \/ UNCHANGED vars
      PROVE  text' = text
  BY <1>5 DEF FireTimer, FlushTaskEnds, DeleteConversation, stateVars, vars
<1>6. QED
  BY <1>1, <1>2, <1>3, <1>4, <1>5 DEF Next

\* The current image is forgotten, or is the one that a turn has stored.
LEMMA StepImage ==
    ASSUME [Next]_vars
    PROVE  \/ image' = image \/ image' = 0
           \/ \E t \in Turns : /\ SaveRow(t) /\ turn[t].row.kind = "image"
                               /\ image' = turn[t].row.nth /\ events' = events
<1>1. ASSUME NEW t \in Turns, TurnStep(t)
      PROVE  \/ image' = image \/ image' = 0
             \/ SaveRow(t) /\ turn[t].row.kind = "image" /\ image' = turn[t].row.nth /\ events' = events
  BY <1>1 DEF TurnStep, BuildTurn, Delta, Notice, Step, Screenshot, OcrResult, Done, Fail, Interrupt, SaveRow,
              SaveFails, stateVars, loopVars, counts
<1>2. CASE ClientStep
  BY <1>2 DEF ClientStep, ReceiveMessage, ReceiveMessageFails, RefuseMessage,
              ReceiveAbort, ReceiveInit, ReceiveClear, Disconnect, stateVars
<1>3. CASE LoopStep
  BY <1>3 DEF LoopStep, ReapTurn, FinishAbort, FinishAbortFails, StartTurn, stateVars
<1>4. CASE FireTimer \/ FlushTaskEnds \/ (\E c \in Convs : DeleteConversation(c)) \/ UNCHANGED vars
  BY <1>4 DEF FireTimer, FlushTaskEnds, DeleteConversation, stateVars, vars
<1>5. QED
  BY <1>1, <1>2, <1>3, <1>4 DEF Next

\* A turn that starts joins the active ones.
LEMMA StartJoins ==
    ASSUME TypeOK, NEW s \in Turns, StartTurn(s), NEW t \in Turns, NEW u \in Turns, t # u,
           Active(turn', t), Active(turn', u)
    PROVE  Joined(turn', t)
<1> DEFINE others == {w \in Turns : turn[w].phase \in {"created", "running", "saving"}}
           met == IF others = {} THEN {} ELSE {"joined"}
<1>1. turn' = [w \in Turns |-> IF w = s THEN Started(turn[s], met)
                               ELSE IF w \in others THEN Noted(turn[w], met) ELSE turn[w]]
  BY DEF StartTurn, Started, Noted
<1>2. \A w \in Turns : turn[w] \in Turn
  BY DEF TypeOK
<1>3. \A w \in Turns : w # s /\ Active(turn', w) => w \in others
  BY <1>1, <1>2, TurnFields DEF Active
<1>4. others # {}
  BY <1>3
<1>5. met = {"joined"}
  BY <1>4
<1> HIDE DEF met, others
<1>6. t = s => turn'[t].marks = turn[t].marks \cup met
  BY <1>1, <1>2, TurnFields
<1>7. t # s => turn'[t].marks = turn[t].marks \cup met
  BY <1>1, <1>2, <1>3, TurnFields
<1>8. QED
  BY <1>5, <1>6, <1>7 DEF Joined

\* Unless a turn starts, a turn that is alone was alone.
LEMMA AloneKept ==
    ASSUME TypeOK, [Next]_vars, ~(\E s \in Turns : StartTurn(s)), NEW t \in Turns
    PROVE  /\ Alone(turn', text', t) => Alone(turn, text, t)
           /\ Active(turn', t) => Active(turn, t)
<1>1. TurnsMove
  BY StepMoves
<1>2. Active(turn', t) => Active(turn, t)
  BY <1>1 DEF TurnsMove, ActiveFrom
<1>3. Joined(turn, t) => Joined(turn', t)
  BY <1>1 DEF TurnsMove, Grows, Joined
<1>4. CASE text' = text
  BY <1>2, <1>3, <1>4 DEF Alone
<1>5. ASSUME NEW s \in Turns, Delta(s), text' = Append(text, s)
      PROVE  Alone(turn', text', t) => Alone(turn, text, t)
  <2>1. InText(text', t) => InText(text, t) \/ t = s
    BY <1>5 DEF InText, TypeOK, Chunks
  <2>2. Active(turn, s)
    BY <1>5 DEF Delta, Active
  <2>3. QED
    BY <1>2, <1>3, <2>1, <2>2 DEF Alone
<1>6. QED
  BY <1>2, <1>4, <1>5, StepText

-----------------------------------------------------------------------------
(* The invariant is preserved, part by part.                               *)

LEMMA KeepBoundHome ==
    ASSUME TypeOK, BoundHome, [Next]_vars
    PROVE  BoundHome'
<1>1. TurnsMove
  BY StepMoves
<1>2. \A t \in Turns : turn[t] \in Turn /\ turn'[t] \in Turn
  <2>1. TypeOK'
    BY StepTypes
  <2>2. QED
    BY <2>1 DEF TypeOK
<1>3. ASSUME NEW t \in Turns, ReceiveMessage(t)
      PROVE  turn'[t].home \in Convs /\ turn'[t].home = conv'
  <2>1. PICK c \in Convs : conv' = c /\ turn' = [turn EXCEPT ![t].phase = "queued", ![t].home = c]
    BY <1>3 DEF ReceiveMessage
  <2>2. turn' = [turn EXCEPT ![t] = Queued(turn[t], c)]
    BY <2>1 DEF Queued
  <2>3. turn'[t] = Queued(turn[t], c)
    BY <2>2 DEF TypeOK
  <2>4. QED
    BY <1>2, <2>1, <2>3, TurnFields
<1>4. ASSUME NEW t \in Turns, Begun(turn, t)
      PROVE  /\ turn'[t].home = turn[t].home /\ turn[t].home \in Convs
             /\ ~Moved(turn', t) => turn[t].home = conv
  BY <1>1, <1>4 DEF TurnsMove, Grows, BoundHome, Moved
<1>5. ASSUME conv' = conv PROVE BoundHome'
  BY <1>1, <1>3, <1>4, <1>5 DEF BoundHome, TurnsMove, BegunFrom
<1>6. ASSUME conv = NoConv PROVE BoundHome'
  <2>1. \A t \in Turns : Begun(turn, t) => Moved(turn', t)
    BY <1>4, <1>6, ChatAssumption
  <2>2. QED
    BY <1>1, <1>3, <1>4, <2>1 DEF BoundHome, TurnsMove, BegunFrom
<1>7. CASE ReceiveInit
  <2> DEFINE T == {t \in Turns : turn[t].home # conv'}
  <2>1. turn' = [t \in Turns |-> IF t \in T /\ turn[t].phase # "none"
                                 THEN Noted(turn[t], {"moved"}) ELSE turn[t]]
    BY <1>7 DEF ReceiveInit, Marked, Noted
  <2>2. ASSUME NEW t \in Turns, Begun(turn', t)
        PROVE  turn'[t].home \in Convs /\ (~Moved(turn', t) => turn'[t].home = conv')
    <3>1. Begun(turn, t)
      BY <1>2, <2>1, <2>2, TurnFields DEF Begun
    <3>2. t \in T => Moved(turn', t)
      BY <1>2, <2>1, <3>1, TurnFields, SMTT(30) DEF Moved, Begun
    <3>3. QED
      BY <1>4, <3>1, <3>2
  <2>3. QED
    BY <2>2 DEF BoundHome
<1>8. conv' = conv \/ conv = NoConv \/ ReceiveInit
  BY DEF Next, ClientStep, LoopStep, TurnStep, ReceiveMessage, Bound, ReceiveMessageFails,
         RefuseMessage, ReceiveAbort, ReceiveClear, Disconnect, ReapTurn, FinishAbort,
         FinishAbortFails, StartTurn, BuildTurn, Delta, Notice, Step, Screenshot, OcrResult, Done, Fail,
           Interrupt,          SaveRow, SaveFails, FireTimer, FlushTaskEnds, DeleteConversation, loopVars, vars
<1>9. QED
  BY <1>5, <1>6, <1>7, <1>8

LEMMA KeepAlone ==
    ASSUME TypeOK, AloneInv, [Next]_vars
    PROVE  AloneInv'
<1>1. TurnsMove
  BY StepMoves
<1>2. ASSUME NEW s \in Turns, StartTurn(s)
      PROVE  /\ \A t, u \in Turns : Alone(turn', text', t) /\ Active(turn', u) => u = t
             /\ \A t \in Turns : ~InText(text', t)
  <2>1. text' = <<>>
    BY <1>2, StepText
  <2>2. \A t \in Turns : ~InText(text', t)
    BY <2>1 DEF InText
  <2>3. QED
    BY <1>2, <2>2, StartJoins DEF Alone
<1>3. ASSUME ~(\E s \in Turns : StartTurn(s))
      PROVE  /\ \A t, u \in Turns : Alone(turn', text', t) /\ Active(turn', u) => u = t
             /\ \A t \in Turns : InText(text', t) => Begun(turn', t)
  <2>1. \A t, u \in Turns : Alone(turn', text', t) /\ Active(turn', u) => u = t
    BY <1>3, AloneKept DEF AloneInv
  <2>2. \A t \in Turns : Begun(turn, t) => Begun(turn', t)
    BY <1>1 DEF TurnsMove, Grows
  <2>3. ASSUME NEW s \in Turns, Delta(s), text' = Append(text, s)
        PROVE  \A t \in Turns : InText(text', t) => Begun(turn, t)
    <3>1. Begun(turn, s)
      BY <2>3 DEF Delta, Begun
    <3>2. \A t \in Turns : InText(text', t) => InText(text, t) \/ t = s
      BY <2>3 DEF InText, TypeOK, Chunks
    <3>3. QED
      BY <3>1, <3>2 DEF AloneInv
  <2>4. \A t \in Turns : InText(text', t) => Begun(turn, t)
    BY <1>3, <2>3, StepText DEF AloneInv
  <2>5. QED
    BY <2>1, <2>2, <2>4
<1>4. QED
  BY <1>2, <1>3 DEF AloneInv

LEMMA KeepStored ==
    ASSUME TypeOK, HomeInv, [Next]_vars
    PROVE  StoredHome'
<1>1. Grows(turn, turn')
  BY StepMoves DEF TurnsMove
<1>2. ASSUME NEW m \in stored' PROVE RowHome(m, turn')
  <2>1. CASE m \in stored
    BY <1>1, <2>1, RowKept DEF HomeInv, StoredHome
  <2>2. ASSUME NEW c \in Convs, NEW t \in Turns, m = UserRow(c, t) PROVE RowHome(m, turn')
    BY <2>2 DEF UserRow, RowHome, InText
  <2>3. ASSUME NEW r \in Row, Pending(r), m \in StoredWith(r) PROVE RowHome(m, turn')
    BY <1>1, <2>3, StoreHome, RowKept
  <2>4. QED
    BY <2>1, <2>2, <2>3, StepRows DEF Comes
<1>3. QED
  BY <1>2 DEF StoredHome

LEMMA KeepWaiting ==
    ASSUME TypeOK, HomeInv, [Next]_vars
    PROVE  WaitingHome'
<1>1. TurnsMove
  BY StepMoves
<1> DEFINE I2 == ImagesOf(stored', turn')
<1>2. ASSUME NEW t \in Turns, Waits(turn', t)
      PROVE  /\ ReadyHome(turn'[t].row, turn', I2, events')
             /\ turn'[t].row.by = t
             /\ turn'[t].row.kind \notin {"user", "partial"}
             /\ turn'[t].row.kind \in Payloads => turn'[t].phase = "saving"
  <2> DEFINE r == turn'[t].row
  <2>1. CASE Waits(turn, t) /\ r = turn[t].row /\ turn'[t].phase = turn[t].phase
    <3>1. /\ ReadyHome(r, turn, Images, events) /\ r.by = t
          /\ r.kind \notin {"user", "partial"} /\ (r.kind \in Payloads => turn'[t].phase = "saving")
      BY <2>1 DEF HomeInv, WaitingHome
    <3>2. r.nth \in Nat
      BY <2>1, ImageTypes
    <3>3. QED
      BY <1>1, <3>1, <3>2, ReadyKept, StepImages DEF TurnsMove
  <2>2. ASSUME Begun(turn, t), NEW kind \in {"step", "error", "image", "ocr"}, NEW n \in Nat,
               r = PlainRow(kind, t, n), kind \in Payloads => turn'[t].phase = "saving"
        PROVE  /\ ReadyHome(r, turn', I2, events')
               /\ r.by = t
               /\ r.kind \notin {"user", "partial"}
               /\ r.kind \in Payloads => turn'[t].phase = "saving"
    <3>1. RowHome(r, turn) /\ r.by = t /\ r.kind = kind
      BY <2>2, PlainHome DEF HomeInv, Kind
    <3>2. RowHome(r, turn')
      BY <1>1, <3>1, RowKept DEF TurnsMove
    <3>3. QED
      BY <2>2, <3>1, <3>2 DEF ReadyHome
  <2>3. CASE Done(t) /\ r = TextRow("answer", t, 0)
    <3>1. ReadyHome(r, turn, Images, events) /\ r.by = t /\ r.kind \in {"answer", "caption"}
      BY <2>3, TextHome DEF HomeInv, Done, Emits, Begun
    <3>2. r.nth \in Nat
      BY <2>3, ImageTypes, ChatAssumption DEF TextRow
    <3>3. r.kind \notin {"user", "partial"} \cup Payloads
      BY <3>1 DEF Payloads
    <3>4. QED
      BY <1>1, <3>1, <3>2, <3>3, ReadyKept, StepImages DEF TurnsMove
  <2>4. CASE Screenshot(t) /\ r = PlainRow("image", t, events + 1) /\ turn'[t].phase = "saving"
    <3>1. Begun(turn, t)
      BY <2>4 DEF Screenshot, Emits, Begun
    <3>2. events + 1 \in Nat
      BY CountTypes
    <3>3. QED
      BY <2>2, <2>4, <3>1, <3>2
  <2>5. CASE OcrResult(t) /\ r = PlainRow("ocr", t, 0) /\ turn'[t].phase = "saving"
    <3>1. Begun(turn, t) /\ 0 \in Nat
      BY <2>5 DEF OcrResult, Begun
    <3>2. QED
      BY <2>2, <2>5, <3>1
  <2>6. CASE Begun(turn, t) /\ r \in {PlainRow("step", t, 0), PlainRow("error", t, 0)}
    <3>1. {"step", "error"} \cap Payloads = {} /\ 0 \in Nat
      BY DEF Payloads
    <3>2. QED
      BY <2>2, <2>6, <3>1
  <2>7. RowFrom(t)
    BY <1>1 DEF TurnsMove
  <2>8. QED
    BY <1>2, <2>1, <2>3, <2>4, <2>5, <2>6, <2>7 DEF RowFrom
<1>3. QED
  BY <1>2 DEF WaitingHome, Images

LEMMA KeepDraft ==
    ASSUME TypeOK, HomeInv, [Next]_vars
    PROVE  DraftHome'
<1>1. TurnsMove
  BY StepMoves
<1>2. ASSUME NEW r, ReadyHome(r, turn, Images, events), r.nth \in Nat
      PROVE  ReadyHome(r, turn', ImagesOf(stored', turn'), events')
  BY <1>1, <1>2, ReadyKept, StepImages DEF TurnsMove
<1>3. CASE draft' = draft
  <2>1. draft # NoRow => /\ ReadyHome(draft, turn', ImagesOf(stored', turn'), events')
                         /\ draft.kind \in {"partial", "caption"}
    BY <1>2, ImageTypes DEF HomeInv, DraftHome
  <2>2. QED
    BY <1>3, <2>1 DEF DraftHome, Images
<1>4. CASE draft' = NoRow
  BY <1>4 DEF DraftHome
<1>5. CASE ReceiveAbort
  <2> DEFINE r == TextRow("partial", agentTask, aborts + 1)
  <2>1. ReadyHome(r, turn, Images, events) /\ r.kind \in {"partial", "caption"}
    BY TextHome DEF HomeInv
  <2>2. r.nth \in Nat
    <3>1. aborts + 1 \in Nat
      BY CountTypes
    <3>2. QED
      BY <3>1, ImageTypes DEF TextRow
  <2>3. ReadyHome(r, turn', ImagesOf(stored', turn'), events')
    BY <1>2, <2>1, <2>2
  <2>4. draft' = r \/ draft' = NoRow
    BY <1>5, ZenonT(30) DEF ReceiveAbort, AbortRow
  <2> HIDE DEF r
  <2>5. QED
    BY <2>1, <2>3, <2>4 DEF DraftHome, Images
<1>6. draft' = draft \/ draft' = NoRow \/ ReceiveAbort
  BY DEF Next, ClientStep, LoopStep, TurnStep, ReceiveMessage, ReceiveMessageFails, ReceiveInit,
         RefuseMessage, ReceiveClear, Disconnect, ReapTurn, FinishAbort,
         FinishAbortFails, StartTurn, BuildTurn, Delta, Notice, Step, Screenshot, OcrResult, Done, Fail,
           Interrupt,          SaveRow, SaveFails, FireTimer, FlushTaskEnds, DeleteConversation, loopVars, vars
<1>7. QED
  BY <1>3, <1>4, <1>5, <1>6

LEMMA KeepImages ==
    ASSUME TypeOK, HomeInv, [Next]_vars
    PROVE  ImageInv'
<1> DEFINE I2 == ImagesOf(stored', turn')
<1>0. ImageInv /\ events \in Nat /\ events' \in Nat /\ events <= events' /\ image \in Nat
  BY StepImages DEF HomeInv, TypeOK
<1>1. \A i \in I2 : NewImage(i) \/ (\E j \in Images : j.nth = i.nth /\ j.by = i.by)
  BY StepImages
<1>2. \A i \in Images : i.nth \in Nat /\ i.nth <= events /\ i.by \in Turns
  BY ImageTypes, <1>0 DEF ImageInv
<1> HIDE DEF I2
<1>3. \A i \in I2 : i.nth <= events' /\ i.by \in Turns
  BY <1>0, <1>1, <1>2 DEF NewImage
<1>4. ASSUME NEW i \in I2, NEW j \in I2, i.nth = j.nth PROVE i.by = j.by
  <2>1. CASE NewImage(i) /\ NewImage(j)
    BY <2>1, OneScreenshot DEF NewImage
  <2>2. \A k : NewImage(k) => k.nth = events + 1
    BY DEF NewImage
  <2>3. CASE ~NewImage(i) /\ ~NewImage(j)
    BY <1>0, <1>1, <1>4, <2>3 DEF ImageInv
  <2>4. QED
    BY <1>0, <1>1, <1>2, <1>4, <2>1, <2>2, <2>3
<1>5. image' <= events' /\ (image' # 0 => \A i \in I2, t \in Turns :
                              i.nth = image' /\ Alone(turn', text', t) => i.by = t)
  <2>1. CASE \E s \in Turns : StartTurn(s)
    BY <1>0, <2>1, StepText
  <2>2. CASE image' = 0
    BY <1>0, <2>2
  <2>3. CASE image' = image /\ ~(\E s \in Turns : StartTurn(s))
    <3>1. \A i : NewImage(i) => i.nth # image
      BY <1>0 DEF NewImage, ImageInv
    <3>2. ASSUME image # 0, NEW i \in I2, NEW t \in Turns, i.nth = image, Alone(turn', text', t)
          PROVE  i.by = t
      <4>1. PICK j \in Images : j.nth = i.nth /\ j.by = i.by
        BY <1>1, <3>1, <3>2
      <4>2. Alone(turn, text, t)
        BY <2>3, <3>2, AloneKept
      <4>3. QED
        BY <1>0, <3>2, <4>1, <4>2 DEF ImageInv
    <3>3. QED
      BY <1>0, <2>3, <3>2 DEF ImageInv
  <2>4. ASSUME NEW u \in Turns, SaveRow(u), turn[u].row.kind = "image",
               image' = turn[u].row.nth, events' = events,
               ~(\E s \in Turns : StartTurn(s))
        PROVE  image' <= events' /\ (image' # 0 => \A i \in I2, t \in Turns :
                              i.nth = image' /\ Alone(turn', text', t) => i.by = t)
    <3>1. Waits(turn, u) /\ turn[u].row \in Images
      BY <2>4 DEF SaveRow, Waits, Images, ImagesOf
    <3>2. turn[u].row.by = u /\ Active(turn, u)
      BY <2>4, <3>1 DEF HomeInv, WaitingHome, Active, Payloads
    <3>3. ASSUME NEW i \in I2, NEW t \in Turns, i.nth = image', Alone(turn', text', t)
          PROVE  i.by = t
      <4>1. ~NewImage(i)
        BY <1>0, <2>4 DEF NewImage
      <4>2. PICK j \in Images : j.nth = i.nth /\ j.by = i.by
        BY <1>1, <4>1
      <4>3. i.by = u
        BY <1>0, <2>4, <3>1, <3>2, <3>3, <4>2 DEF ImageInv
      <4>4. u = t
        BY <2>4, <3>2, <3>3, AloneKept DEF HomeInv, AloneInv
      <4>5. QED
        BY <4>3, <4>4
    <3>4. QED
      BY <1>2, <2>4, <3>1, <3>3
  <2>5. QED
    BY <2>1, <2>2, <2>3, <2>4, StepImage
<1>6. QED
  BY <1>3, <1>4, <1>5 DEF ImageInv, Images, I2

\* The rows that are stored, and those a turn or do_abort is about to store, are in
\* the home of their turn or will be, however messages, inits and aborts interleave.
THEOREM HomeHolds == Spec => []HomeInv
<1>1. Init => HomeInv
  <2> SUFFICES ASSUME Init PROVE HomeInv
    OBVIOUS
  <2>1. \A t \in Turns : turn[t].phase = "none"
    BY DEF Init, NewTurn
  <2>2. text = <<>> /\ stored = {} /\ draft = NoRow /\ image = 0 /\ events = 0
    BY DEF Init
  <2>3. Images = {}
    BY <2>1, <2>2 DEF Images, ImagesOf, Waits, Awaiting
  <2>4. BoundHome /\ StoredHome /\ WaitingHome /\ DraftHome
    BY <2>1, <2>2 DEF BoundHome, StoredHome, WaitingHome, DraftHome, Begun, Waits, Awaiting
  <2>5. AloneInv
    BY <2>1, <2>2 DEF AloneInv, Active, InText
  <2>6. ImageInv
    BY <2>2, <2>3 DEF ImageInv
  <2>7. QED
    BY <2>4, <2>5, <2>6 DEF HomeInv
<1>2. TypeOK /\ HomeInv /\ [Next]_vars => HomeInv'
  <2> SUFFICES ASSUME TypeOK, HomeInv, [Next]_vars PROVE HomeInv'
    OBVIOUS
  <2>1. BoundHome' /\ AloneInv'
    BY KeepBoundHome, KeepAlone DEF HomeInv
  <2>2. QED
    BY <2>1, KeepStored, KeepWaiting, KeepDraft, KeepImages DEF HomeInv
<1>3. QED
  BY <1>1, <1>2, TypeCorrect, PTL DEF Spec

\* Tool results and answers follow current_conv_id and captions the number of an
\* image, and still every row of a turn is in the conversation it was started
\* for, unless the client bound the connection to another one.
THEOREM RowsGoHome == Spec => []MessagesGoHome
<1>1. TypeOK /\ HomeInv => MessagesGoHome
  <2> SUFFICES ASSUME TypeOK, HomeInv, NEW m \in stored
               PROVE  /\ m.kind \notin {"user", "partial"} /\ Undisturbed(m.by, {"moved"})
                           => m.conv = turn[m.by].home
                      /\ \A i \in DOMAIN m.text :
                           Undisturbed(m.text[i], {"moved", "joined"})
                               => m.conv = turn[m.text[i]].home
    BY DEF MessagesGoHome
  <2>1. RowHome(m, turn)
    BY DEF HomeInv, StoredHome
  <2>2. \A i \in DOMAIN m.text : m.text[i] \in Turns
    BY DEF TypeOK, StoredRow, Chunks
  <2>3. \A t : /\ Undisturbed(t, {"moved"}) => ~Moved(turn, t)
               /\ Undisturbed(t, {"moved", "joined"}) => ~Moved(turn, t) /\ ~Joined(turn, t)
    BY DEF Undisturbed, Moved, Joined
  <2>4. QED
    BY <2>1, <2>2, <2>3 DEF RowHome, InText
<1>2. QED
  BY <1>1, HomeHolds, TypeCorrect, PTL

-----------------------------------------------------------------------------
(* The answer is the text of its turn.                                     *)

Of(s, t) == {i \in DOMAIN s : s[i] = t}
Count(s, t) == Cardinality(Of(s, t))

\* A turn that was not started has said nothing.
FreshInv ==
    \A t \in Turns : turn[t].phase \in {"none", "queued"} =>
        /\ turn[t].chunks = 0 /\ turn[t].told = "none"
        /\ ~InText(shown, t) /\ ~InText(buffer, t)

\* The event state of an active turn that nobody joined is its text; what was not
\* sent of it is in the buffer.
TalkInv ==
    \A t \in Turns : Active(turn, t) =>
        /\ turn[t].told = "none"
        /\ ~Joined(turn, t) =>
             /\ text = Whole(t)
             /\ link = "open" => Count(shown, t) + Count(buffer, t) = turn[t].chunks

\* The event that ends a turn is the last one.
OverInv ==
    \A t \in Turns : turn[t].told # "none" =>
        turn[t].phase \in {"answering", "failing", "ended"} /\ ~InText(buffer, t)

AnswerOf(m, t) ==
    /\ turn[t].told # "none"
    /\ ~Joined(turn, t) => m.text = Whole(t) /\ Count(shown, t) = turn[t].chunks

AnswerInv ==
    /\ \A m \in stored : m.kind = "answer" => m.by \in Turns /\ AnswerOf(m, m.by)
    /\ \A t \in Turns : Waits(turn, t) /\ turn[t].row.kind = "answer" => AnswerOf(turn[t].row, t)

WholeInv == FreshInv /\ TalkInv /\ OverInv /\ AnswerInv

-----------------------------------------------------------------------------
(* Counting the chunks of a turn.                                          *)

LEMMA OfFinite ==
    ASSUME NEW s \in Chunks, NEW t
    PROVE  IsFiniteSet(Of(s, t)) /\ Count(s, t) \in Nat
<1>1. IsFiniteSet(1..Len(s)) /\ Of(s, t) \in SUBSET (1..Len(s))
  BY FS_Interval DEF Of, Chunks
<1>2. IsFiniteSet(Of(s, t))
  BY <1>1, FS_Subset
<1>3. QED
  BY <1>2, FS_CardinalityType DEF Count

LEMMA CountNone ==
    ASSUME NEW s, NEW t, ~InText(s, t)
    PROVE  Count(s, t) = 0
<1>1. Of(s, t) = {}
  BY DEF Of, InText
<1>2. QED
  BY <1>1, FS_EmptySet DEF Count

LEMMA CountAppend ==
    ASSUME NEW s \in Chunks, NEW t \in Turns
    PROVE  /\ Count(Append(s, t), t) = Count(s, t) + 1
           /\ \A u : u # t => Count(Append(s, t), u) = Count(s, u)
           /\ \A u : InText(Append(s, t), u) <=> InText(s, u) \/ u = t
<1>1. Len(s) \in Nat /\ DOMAIN s = 1..Len(s)
  BY DEF Chunks
<1>2. DOMAIN Append(s, t) = 1..(Len(s) + 1) /\ Append(s, t)[Len(s) + 1] = t
      /\ \A i \in 1..Len(s) : Append(s, t)[i] = s[i]
  BY DEF Chunks
<1>3. Of(Append(s, t), t) = Of(s, t) \cup {Len(s) + 1} /\ Len(s) + 1 \notin Of(s, t)
  BY <1>1, <1>2 DEF Of
<1>4. Count(Append(s, t), t) = Count(s, t) + 1
  BY <1>3, OfFinite, FS_AddElement DEF Count
<1>5. ASSUME NEW u, u # t PROVE Of(Append(s, t), u) = Of(s, u)
  BY <1>1, <1>2, <1>5 DEF Of
<1>6. ASSUME NEW u PROVE InText(Append(s, t), u) <=> InText(s, u) \/ u = t
  BY <1>1, <1>2 DEF InText
<1>7. QED
  BY <1>4, <1>5, <1>6 DEF Count

LEMMA CountConcat ==
    ASSUME NEW s \in Chunks, NEW r \in Chunks, NEW t
    PROVE  /\ Count(s \o r, t) = Count(s, t) + Count(r, t)
           /\ InText(s \o r, t) <=> InText(s, t) \/ InText(r, t)
<1> DEFINE m == Len(s)
           n == Len(r)
           A == Of(s, t)
           B == {i \in (m + 1)..(m + n) : (s \o r)[i] = t}
           f == [i \in Of(r, t) |-> i + m]
<1>1. m \in Nat /\ n \in Nat /\ DOMAIN s = 1..m /\ DOMAIN r = 1..n
  BY DEF Chunks
<1>2. /\ DOMAIN (s \o r) = 1..(m + n)
      /\ \A i \in 1..m : (s \o r)[i] = s[i]
      /\ \A i \in (m + 1)..(m + n) : (s \o r)[i] = r[i - m]
  BY DEF Chunks
<1> HIDE DEF m, n
<1>3. Of(s \o r, t) = A \cup B /\ A \cap B = {}
  BY <1>1, <1>2 DEF Of
<1>4. f \in Bijection(Of(r, t), B)
  <2>1. \A i \in Of(r, t) : i \in 1..n /\ r[i] = t
    BY <1>1 DEF Of
  <2>2. \A i \in Of(r, t) : i + m \in B
    <3>1. ASSUME NEW i \in Of(r, t) PROVE i + m \in B
      <4>1. i + m \in (m + 1)..(m + n) /\ (i + m) - m = i
        BY <1>1, <2>1
      <4>2. (s \o r)[i + m] = t
        BY <1>2, <2>1, <4>1
      <4>3. QED
        BY <4>1, <4>2
    <3>2. QED
      BY <3>1
  <2>3. \A b \in B : b - m \in Of(r, t) /\ (b - m) + m = b
    BY <1>1, <1>2 DEF Of
  <2>4. \A i, j \in Of(r, t) : i + m = j + m => i = j
    BY <1>1, <2>1
  <2> HIDE DEF B
  <2>5. f \in [Of(r, t) -> B] /\ \A i \in Of(r, t) : f[i] = i + m
    BY <2>2
  <2> HIDE DEF f
  <2>6. f \in Injection(Of(r, t), B)
    <3>1. \A i, j \in Of(r, t) : f[i] = f[j] => i = j
      BY <2>4, <2>5, Zenon
    <3>2. QED
      BY <2>5, <3>1 DEF Injection, IsInjective
  <2>7. f \in Surjection(Of(r, t), B)
    BY <2>3, <2>5 DEF Surjection
  <2>8. QED
    BY <2>6, <2>7 DEF Bijection
<1>5. ExistsBijection(Of(r, t), B)
  BY <1>4 DEF ExistsBijection
<1>6. IsFiniteSet(B) /\ Cardinality(B) = Count(r, t)
  BY <1>5, OfFinite, FS_Bijection DEF Count
<1>7. Cardinality(A \cup B) = Cardinality(A) + Cardinality(B)
  <2>1. IsFiniteSet(A)
    BY OfFinite
  <2>2. Cardinality(A \cap B) = 0
    BY <1>3, FS_EmptySet
  <2>3. Cardinality(A) \in Nat /\ Cardinality(B) \in Nat
    BY <1>6, <2>1, FS_CardinalityType
  <2> HIDE DEF A, B
  <2>4. Cardinality(A \cup B) = Cardinality(A) + Cardinality(B) - Cardinality(A \cap B)
    BY <1>6, <2>1, FS_Union, Zenon
  <2>5. QED
    BY <2>2, <2>3, <2>4
<1>8. InText(s \o r, t) <=> InText(s, t) \/ InText(r, t)
  <2>1. ASSUME InText(r, t) PROVE InText(s \o r, t)
    <3>1. PICK i \in Of(r, t) : TRUE
      BY <2>1 DEF InText, Of
    <3>2. f[i] \in B
      BY <1>4 DEF Bijection, Injection
    <3>3. QED
      BY <1>3, <3>2 DEF InText, Of
  <2>2. ASSUME InText(s, t) PROVE InText(s \o r, t)
    BY <1>1, <1>2, <2>2 DEF InText
  <2>3. ASSUME NEW b \in B PROVE InText(r, t)
    <3>1. b - m \in 1..n /\ r[b - m] = t
      BY <1>1, <1>2
    <3>2. QED
      BY <1>1, <3>1 DEF InText
  <2>4. ASSUME InText(s \o r, t) PROVE InText(s, t) \/ InText(r, t)
    <3>1. PICK i \in Of(s \o r, t) : TRUE
      BY <2>4 DEF InText, Of
    <3>2. i \in A \/ i \in B
      BY <1>3
    <3>3. QED
      BY <2>3, <3>2 DEF InText, Of
  <2>5. QED
    BY <2>1, <2>2, <2>4
<1>9. QED
  BY <1>3, <1>6, <1>7, <1>8 DEF Count

\* One more chunk.
LEMMA WholeGrows ==
    ASSUME NEW n \in Nat, NEW t, NEW s, s = [i \in 1..n |-> t]
    PROVE  Append(s, t) = [i \in 1..(n + 1) |-> t]
<1>1. s \in Seq({t}) /\ Len(s) = n
  BY IsASeq
<1>2. QED
  BY <1>1, AppendProperties

-----------------------------------------------------------------------------
(* What a step does to the text on its way to the client.                   *)

\* The buffer is kept, flushed, dropped with the connection or by a turn that
\* starts, or grows by a delta.
LEMMA StepBuffer ==
    ASSUME TypeOK, [Next]_vars
    PROVE  /\ \/ shown' = shown /\ buffer' = buffer
              \/ shown' = shown \o buffer /\ buffer' = <<>>
              \/ shown' = shown /\ buffer' = <<>>
                   /\ (link' = "closed" \/ \E s \in Turns : StartTurn(s))
              \/ \E t \in Turns : Delta(t) /\ buffer' = Append(buffer, t) /\ shown' = shown
           /\ link' = "open" => link = "open"
<1> DEFINE Kept == shown' = shown /\ buffer' = buffer
           Flushed == shown' = shown \o buffer /\ buffer' = <<>>
           Dropped == shown' = shown /\ buffer' = <<>>
<1>0. link \in {"open", "closed"}
  BY DEF TypeOK
<1>1. ASSUME NEW t \in Turns, TurnStep(t)
      PROVE  /\ \/ Kept \/ Flushed \/ (Dropped /\ link = "closed")
                \/ Delta(t) /\ buffer' = Append(buffer, t) /\ shown' = shown
             /\ link' = link
  BY <1>1 DEF TurnStep, BuildTurn, Delta, Notice, Step, Screenshot, OcrResult, Done, Fail, Interrupt, SaveRow,
              SaveFails, Emits, Flush, stateVars
<1>2. ASSUME ClientStep PROVE (Kept \/ Flushed) /\ (link' = link \/ link' = "closed")
  BY <1>2 DEF ClientStep, ReceiveMessage, ReceiveMessageFails, RefuseMessage,
              ReceiveAbort, ReceiveInit, ReceiveClear, Disconnect, Close, stateVars
<1>3. ASSUME LoopStep
      PROVE  /\ Kept \/ (Dropped /\ \E s \in Turns : StartTurn(s))
             /\ link' = link \/ link' = "closed"
  BY <1>3 DEF LoopStep, ReapTurn, FinishAbort, FinishAbortFails, StartTurn, Close, stateVars
<1>4. ASSUME FireTimer PROVE (Flushed \/ (Dropped /\ link = "closed")) /\ link' = link
  BY <1>0, <1>4 DEF FireTimer
<1>5. ASSUME FlushTaskEnds \/ (\E c \in Convs : DeleteConversation(c)) \/ UNCHANGED vars
      PROVE  Kept /\ link' = link
  BY <1>5 DEF FlushTaskEnds, DeleteConversation, stateVars, vars
<1> HIDE DEF Kept, Flushed, Dropped
<1>6. /\ \/ Kept \/ Flushed \/ (Dropped /\ (link' = "closed" \/ \E s \in Turns : StartTurn(s)))
         \/ \E t \in Turns : Delta(t) /\ buffer' = Append(buffer, t) /\ shown' = shown
      /\ link' = link \/ link' = "closed"
  BY <1>1, <1>2, <1>3, <1>4, <1>5 DEF Next
<1>7. QED
  BY <1>6 DEF Kept, Flushed, Dropped

\* A delta adds one chunk everywhere.
LEMMA DeltaAdds ==
    ASSUME TypeOK, NEW t \in Turns, Delta(t)
    PROVE  /\ text' = Append(text, t) /\ buffer' = Append(buffer, t) /\ shown' = shown
           /\ turn'[t].chunks = turn[t].chunks + 1 /\ Active(turn, t) /\ turn[t].phase = "running"
<1>1. turn' = [turn EXCEPT ![t] = Longer(turn[t])]
  BY DEF Delta, Longer
<1>2. turn'[t] = Longer(turn[t]) /\ turn[t] \in Turn
  BY <1>1 DEF TypeOK
<1>3. turn'[t].chunks = turn[t].chunks + 1
  BY <1>2, TurnFields
<1>4. QED
  BY <1>3 DEF Delta, Active

\* A turn that starts drops the buffer.
LEMMA StartDrops ==
    ASSUME NEW t \in Turns, StartTurn(t)
    PROVE  /\ text' = <<>> /\ buffer' = <<>> /\ shown' = shown
           /\ turn[t].phase = "queued" /\ link' = link
BY DEF StartTurn, FreshText

LEMMA NoText == \A t : ~InText(<<>>, t) /\ Count(<<>>, t) = 0
<1>1. \A t : ~InText(<<>>, t)
  BY DEF InText
<1>2. QED
  BY <1>1, CountNone

-----------------------------------------------------------------------------
(* The invariant is preserved, part by part.                               *)

LEMMA KeepFresh ==
    ASSUME TypeOK, FreshInv, [Next]_vars
    PROVE  FreshInv'
<1>1. ASSUME NEW t \in Turns, turn'[t].phase \in {"none", "queued"}
      PROVE  /\ turn'[t].chunks = 0 /\ turn'[t].told = "none"
             /\ ~InText(shown', t) /\ ~InText(buffer', t)
  <2>1. FreshFrom(t) /\ SaysFrom(t)
    BY StepMoves DEF TurnsMove
  <2>2. turn[t].phase \in {"none", "queued"}
    BY <1>1, <2>1 DEF FreshFrom
  <2>3. turn[t].chunks = 0 /\ turn[t].told = "none" /\ ~InText(shown, t) /\ ~InText(buffer, t)
    BY <2>2 DEF FreshInv
  <2>4. turn[t].phase # "running" /\ turn[t].phase \notin Awaiting
    BY <2>2 DEF Awaiting
  <2>5. turn'[t].chunks = 0 /\ turn'[t].told = "none"
    BY <2>1, <2>3, <2>4, DeltaAdds DEF SaysFrom
  <2>6. shown \in Chunks /\ buffer \in Chunks
    BY DEF TypeOK
  <2>7. ASSUME NEW u \in Turns, Delta(u), buffer' = Append(buffer, u) PROVE ~InText(buffer', t)
    BY <2>3, <2>4, <2>6, <2>7, DeltaAdds, CountAppend
  <2>8. ~InText(shown', t) /\ ~InText(buffer', t)
    <3>1. ~InText(shown \o buffer, t) /\ ~InText(<<>>, t)
      BY <2>3, <2>6, CountConcat, NoText
    <3>2. QED
      BY <2>3, <2>7, <3>1, StepBuffer
  <2>9. QED
    BY <2>5, <2>8
<1>2. QED
  BY <1>1 DEF FreshInv

\* What was said of a turn that is over stays.
LEMMA OverStays ==
    ASSUME TypeOK, OverInv, [Next]_vars, NEW t \in Turns, turn[t].told # "none"
    PROVE  /\ turn'[t].told # "none" /\ turn'[t].chunks = turn[t].chunks
           /\ turn'[t].phase \in {"answering", "failing", "ended"}
           /\ ~InText(buffer', t) /\ Count(shown', t) = Count(shown, t)
<1>1. turn[t].phase \in {"answering", "failing", "ended"} /\ ~InText(buffer, t)
  BY DEF OverInv
<1>2. TurnsMove
  BY StepMoves
<1>3. turn'[t].told # "none" /\ turn'[t].chunks = turn[t].chunks
  BY <1>1, <1>2, DeltaAdds DEF TurnsMove, SaysFrom
<1>4. turn'[t].phase \in {"answering", "failing", "ended"}
  <2>1. turn'[t].phase \in Phase
    BY StepTypes DEF TypeOK, Turn
  <2>2. turn'[t].phase \notin {"none", "queued"}
    BY <1>1, <1>2 DEF TurnsMove, FreshFrom
  <2>3. ~Active(turn', t)
    BY <1>1, <1>2, StartDrops DEF TurnsMove, ActiveFrom, Active
  <2>4. QED
    BY <2>1, <2>2, <2>3 DEF Phase, Active
<1>5. shown \in Chunks /\ buffer \in Chunks /\ Count(shown, t) \in Nat /\ Count(buffer, t) = 0
  BY <1>1, OfFinite, CountNone DEF TypeOK
<1>6. ASSUME NEW u \in Turns, Delta(u), buffer' = Append(buffer, u) PROVE ~InText(buffer', t)
  BY <1>1, <1>5, <1>6, DeltaAdds, CountAppend
<1>7. shown' = shown \o buffer => Count(shown', t) = Count(shown, t)
  BY <1>5, CountConcat
<1>8. ~InText(buffer', t) /\ Count(shown', t) = Count(shown, t)
  BY <1>1, <1>6, <1>7, StepBuffer, NoText
<1>9. QED
  BY <1>3, <1>4, <1>8

LEMMA KeepOver ==
    ASSUME TypeOK, OverInv, [Next]_vars
    PROVE  OverInv'
<1>1. ASSUME NEW t \in Turns, turn'[t].told # "none"
      PROVE  turn'[t].phase \in {"answering", "failing", "ended"} /\ ~InText(buffer', t)
  <2>1. CASE turn[t].told # "none"
    BY <2>1, OverStays
  <2>2. CASE turn[t].told = "none"
    <3>1. SaysFrom(t)
      BY StepMoves DEF TurnsMove
    <3>2. Flush /\ turn'[t].phase \in {"answering", "failing", "ended"}
      BY <1>1, <2>2, <3>1 DEF SaysFrom
    <3>3. QED
      BY <3>2, NoText DEF Flush
  <2>3. QED
    BY <2>1, <2>2
<1>2. QED
  BY <1>1 DEF OverInv

LEMMA KeepTalk ==
    ASSUME TypeOK, AloneInv, FreshInv, TalkInv, [Next]_vars
    PROVE  TalkInv'
<1>0. TurnsMove /\ shown \in Chunks /\ buffer \in Chunks
  BY StepMoves DEF TypeOK
<1> DEFINE W(t, n) == [i \in 1..n |-> t]
<1>1. ASSUME NEW t \in Turns, StartTurn(t)
      PROVE  /\ turn'[t].told = "none" /\ text' = W(t, turn'[t].chunks)
             /\ Count(shown', t) + Count(buffer', t) = turn'[t].chunks
  <2>1. turn[t].phase = "queued" /\ text' = <<>> /\ buffer' = <<>> /\ shown' = shown
    BY <1>1, StartDrops
  <2>2. turn[t].chunks = 0 /\ turn[t].told = "none" /\ ~InText(shown, t)
    BY <2>1 DEF FreshInv
  <2>3. turn'[t].chunks = 0 /\ turn'[t].told = "none"
    BY <1>0, <2>1, <2>2, DeltaAdds DEF TurnsMove, SaysFrom, Awaiting
  <2>4. Count(shown', t) = 0 /\ Count(buffer', t) = 0
    BY <2>1, <2>2, CountNone, NoText
  <2>5. <<>> = W(t, 0)
    OBVIOUS
  <2>6. QED
    BY <2>1, <2>3, <2>4, <2>5
<1>2. ASSUME NEW t \in Turns, Active(turn, t), Active(turn', t)
      PROVE  turn'[t].told = "none"
  BY <1>0, <1>2 DEF TurnsMove, SaysFrom, TalkInv, Active
<1>3. ASSUME NEW t \in Turns, Active(turn, t), Active(turn', t), ~Joined(turn', t),
             ~StartTurn(t)
      PROVE  /\ text' = W(t, turn'[t].chunks)
             /\ link' = "open" => Count(shown', t) + Count(buffer', t) = turn'[t].chunks
  <2>0. ~Joined(turn, t) /\ turn[t].chunks \in Nat
    BY <1>0, <1>3 DEF TurnsMove, Grows, Joined, TypeOK, Turn
  <2>1. ASSUME NEW s \in Turns, StartTurn(s) PROVE FALSE
    <3>1. Active(turn', s)
      <4>1. PICK met \in SUBSET Marks : turn'[s] = Started(turn[s], met)
        BY <2>1 DEF StartTurn, Started, Marks
      <4>2. QED
        BY <4>1, TurnFields DEF TypeOK, Active
    <3>2. QED
      BY <1>3, <2>1, <3>1, StartJoins
  <2>2. text = W(t, turn[t].chunks)
        /\ (link = "open" => Count(shown, t) + Count(buffer, t) = turn[t].chunks)
    BY <1>3, <2>0 DEF TalkInv, Whole
  <2>3. \A u \in Turns : Active(turn, u) => u = t
    BY <1>3, <2>0 DEF AloneInv, Alone
  <2>4. Count(shown, t) \in Nat /\ Count(buffer, t) \in Nat
    BY <1>0, OfFinite
  <2> HIDE DEF W
  <2>5. CASE Delta(t)
    <3>1. /\ text' = Append(text, t) /\ buffer' = Append(buffer, t) /\ shown' = shown
          /\ turn'[t].chunks = turn[t].chunks + 1
      BY <2>5, DeltaAdds
    <3>2. Append(text, t) = W(t, turn[t].chunks + 1)
      BY <2>0, <2>2, WholeGrows DEF W
    <3>3. Count(buffer', t) = Count(buffer, t) + 1
      BY <1>0, <3>1, CountAppend
    <3>4. link' = "open" => link = "open"
      BY StepBuffer
    <3>5. QED
      BY <2>0, <2>2, <2>4, <3>1, <3>2, <3>3, <3>4
  <2>6. CASE ~Delta(t)
    <3>1. turn'[t].chunks = turn[t].chunks
      BY <1>0, <1>3, <2>6 DEF TurnsMove, SaysFrom, Active
    <3>2. \A u \in Turns : ~Delta(u)
      BY <2>3, <2>6, DeltaAdds
    <3>3. text' = text
      BY <2>1, <3>2, StepText
    <3>4. \/ shown' = shown /\ buffer' = buffer
          \/ shown' = shown \o buffer /\ buffer' = <<>>
          \/ link' = "closed"
      BY <2>1, <3>2, StepBuffer
    <3>5. shown' = shown \o buffer /\ buffer' = <<>>
            => Count(shown', t) + Count(buffer', t) = Count(shown, t) + Count(buffer, t)
      BY <1>0, <2>4, CountConcat, NoText
    <3>6. link' = "open" => link = "open"
      BY StepBuffer
    <3>7. QED
      BY <2>2, <3>1, <3>3, <3>4, <3>5, <3>6
  <2>7. QED
    BY <2>5, <2>6
<1>4. \A t \in Turns : Active(turn', t) => Active(turn, t) \/ StartTurn(t)
  BY <1>0 DEF TurnsMove, ActiveFrom
<1>5. ASSUME NEW t \in Turns, Active(turn', t)
      PROVE  /\ turn'[t].told = "none"
             /\ ~Joined(turn', t) =>
                  /\ text' = W(t, turn'[t].chunks)
                  /\ link' = "open" => Count(shown', t) + Count(buffer', t) = turn'[t].chunks
  <2>1. CASE StartTurn(t)
    BY <1>1, <2>1
  <2>2. CASE ~StartTurn(t)
    BY <1>2, <1>3, <1>4, <1>5, <2>2
  <2>3. QED
    BY <2>1, <2>2
<1>6. QED
  BY <1>5 DEF TalkInv, Whole, Count, Of

LEMMA KeepAnswer ==
    ASSUME TypeOK, HomeInv, TalkInv, OverInv, AnswerInv, [Next]_vars
    PROVE  AnswerInv'
<1>0. TurnsMove /\ shown \in Chunks /\ buffer \in Chunks
  BY StepMoves DEF TypeOK
<1> DEFINE AnswerNow(m, t) ==
             /\ turn'[t].told # "none"
             /\ ~Joined(turn', t) => /\ m.text = [i \in 1..turn'[t].chunks |-> t]
                                     /\ Count(shown', t) = turn'[t].chunks
<1>1. ASSUME NEW t \in Turns, NEW m, AnswerOf(m, t) PROVE AnswerNow(m, t)
  <2>1. turn[t].told # "none"
    BY <1>1 DEF AnswerOf
  <2>2. /\ turn'[t].told # "none" /\ turn'[t].chunks = turn[t].chunks
        /\ Count(shown', t) = Count(shown, t)
    BY <2>1, OverStays
  <2>3. Joined(turn, t) => Joined(turn', t)
    BY <1>0 DEF TurnsMove, Grows, Joined
  <2>4. QED
    BY <1>1, <2>2, <2>3 DEF AnswerOf, Whole
<1>2. ASSUME NEW m \in stored', m.kind = "answer"
      PROVE  m.by \in Turns /\ AnswerNow(m, m.by)
  <2>1. CASE m \in stored
    BY <1>1, <1>2, <2>1 DEF AnswerInv
  <2>2. ASSUME NEW r \in Row, Pending(r), m \in StoredWith(r), m \notin stored
        PROVE  m.by \in Turns /\ AnswerOf(m, m.by)
    <3>1. r.kind # "caption"
      <4>1. SUFFICES ASSUME r.kind = "caption" PROVE FALSE
        OBVIOUS
      <4>2. StoredWith(r) = (stored \ ImageOf(r)) \cup {Captioned(i, r) : i \in ImageOf(r)}
        BY <4>1 DEF StoredWith, Captioned
      <4>3. PICK i \in ImageOf(r) : m = Captioned(i, r)
        BY <2>2, <4>2
      <4>4. i \in StoredRow /\ i.kind = "image"
        BY DEF ImageOf, TypeOK
      <4>5. QED
        BY <1>2, <4>3, <4>4, CaptionedFields
    <3>2. m = r
      BY <2>2, <3>1 DEF StoredWith
    <3>3. PICK t \in Turns : Waits(turn, t) /\ r = turn[t].row
      BY <1>2, <2>2, <3>2 DEF Pending, HomeInv, DraftHome
    <3>4. r.by = t
      BY <3>3 DEF HomeInv, WaitingHome
    <3>5. QED
      BY <1>2, <3>2, <3>3, <3>4 DEF AnswerInv
  <2>3. ~(\E c \in Convs, t \in Turns : m = UserRow(c, t))
    BY <1>2 DEF UserRow
  <2> HIDE DEF AnswerNow
  <2>4. QED
    BY <1>1, <2>1, <2>2, <2>3, StepRows DEF Comes
<1>3. ASSUME NEW t \in Turns, Waits(turn', t), turn'[t].row.kind = "answer"
      PROVE  AnswerNow(turn'[t].row, t)
  <2>1. CASE Waits(turn, t) /\ turn'[t].row = turn[t].row
    BY <1>1, <1>3, <2>1 DEF AnswerInv
  <2>2. CASE Done(t) /\ turn'[t].row = TextRow("answer", t, 0)
    <3>1. Flush /\ link = "open" /\ turn[t].phase = "running" /\ Active(turn, t)
      BY <2>2 DEF Done, Emits, Active
    <3>2. turn'[t].told # "none" /\ turn'[t].chunks = turn[t].chunks
      <4>1. turn' = [turn EXCEPT ![t] = ToldOnly(turn[t], "ended", "done")]
            \/ turn' = [turn EXCEPT ![t] = Telling(turn[t], "answering", "done",
                                                  TextRow("answer", t, 0))]
        BY <2>2 DEF Done, ToldOnly, Telling
      <4>2. turn'[t] = ToldOnly(turn[t], "ended", "done")
            \/ turn'[t] = Telling(turn[t], "answering", "done", TextRow("answer", t, 0))
        BY <4>1 DEF TypeOK
      <4>3. QED
        BY <4>2, TurnFields DEF TypeOK
    <3>3. turn'[t].row.text = text
      BY <1>3, <2>2 DEF TextRow
    <3>4. Joined(turn, t) => Joined(turn', t)
      BY <1>0 DEF TurnsMove, Grows, Joined
    <3>5. ~Joined(turn, t) => /\ text = Whole(t)
                              /\ Count(shown, t) + Count(buffer, t) = turn[t].chunks
      BY <3>1 DEF TalkInv
    <3>6. Count(shown', t) = Count(shown, t) + Count(buffer, t)
      BY <1>0, <3>1, CountConcat DEF Flush
    <3>7. QED
      BY <3>2, <3>3, <3>4, <3>5, <3>6 DEF Whole
  <2>3. turn'[t].row \notin {PlainRow("step", t, 0), PlainRow("ocr", t, 0), PlainRow("error", t, 0)}
        /\ turn'[t].row # PlainRow("image", t, events + 1)
    BY <1>3 DEF PlainRow
  <2>4. RowFrom(t)
    BY <1>0 DEF TurnsMove
  <2> HIDE DEF AnswerNow
  <2>5. QED
    BY <1>3, <2>1, <2>2, <2>3, <2>4 DEF RowFrom
<1>4. QED
  BY <1>2, <1>3 DEF AnswerInv, AnswerOf, Whole, Count, Of, Waits, Joined

\* The answer of a turn is what the turn produced as long as it had the connection
\* to itself.
THEOREM WholeHolds == Spec => []WholeInv
<1>1. Init => WholeInv
  <2> SUFFICES ASSUME Init PROVE WholeInv
    OBVIOUS
  <2>1. \A t \in Turns : turn[t].phase = "none" /\ turn[t].chunks = 0 /\ turn[t].told = "none"
    BY DEF Init, NewTurn
  <2>2. shown = <<>> /\ buffer = <<>> /\ stored = {}
    BY DEF Init
  <2>3. QED
    BY <2>1, <2>2, NoText
    DEF WholeInv, FreshInv, TalkInv, OverInv, AnswerInv, Active, Waits, Awaiting
<1>2. TypeOK /\ HomeInv /\ WholeInv /\ [Next]_vars => WholeInv'
  <2> SUFFICES ASSUME TypeOK, HomeInv, WholeInv, [Next]_vars PROVE WholeInv'
    OBVIOUS
  <2>1. FreshInv /\ TalkInv /\ OverInv /\ AnswerInv /\ AloneInv
    BY DEF WholeInv, HomeInv
  <2>2. QED
    BY <2>1, KeepFresh, KeepTalk, KeepOver, KeepAnswer DEF WholeInv
<1>3. QED
  BY <1>1, <1>2, TypeCorrect, HomeHolds, PTL DEF Spec

\* The event state, the buffer and the flush task belong to the connection and the
\* answer is stored after it was announced, and still the stored answer of a
\* turn that shared the connection with no other is all of its text, of which
\* the client was sent every chunk.
THEOREM AnswersAreWhole == Spec => []AnswerIsWhole
<1>1. WholeInv => AnswerIsWhole
  <2> SUFFICES ASSUME WholeInv, NEW m \in stored, m.kind = "answer", Undisturbed(m.by, {"joined"})
               PROVE  /\ m.text = Whole(m.by)
                      /\ Cardinality({i \in DOMAIN shown : shown[i] = m.by}) = turn[m.by].chunks
    BY DEF AnswerIsWhole
  <2>1. ~Joined(turn, m.by)
    BY DEF Undisturbed, Joined
  <2>2. QED
    BY <2>1 DEF WholeInv, AnswerInv, AnswerOf, Count, Of
<1>2. QED
  BY <1>1, WholeHolds, PTL

-----------------------------------------------------------------------------
(* What was shown is stored.  The text of a turn is followed from the event    *)
(* state to the row that waits, or to the row of do_abort, and to the table.    *)

Erased(T, t) == "erased" \in T[t].marks
Over(T, t) == T[t].phase \in {"answering", "failing", "ended"}

\* A turn nothing happened to, that said something and has not failed.
Owed(t) == turn[t].marks = {} /\ turn[t].chunks > 0 /\ turn[t].told # "error"

\* Its text is in the table.
Kept(t) == \E m \in stored : m.text = Whole(t)

\* The loop and the turn it awaits: a turn that is alone is agent_task, and the
\* socket is open for it.
LoopInv ==
    /\ handler = "starting" => link = "open"
    /\ agentTask # NoTurn => turn[agentTask].phase \notin {"none", "queued"}
    /\ handler = "aborting" /\ agentTask # NoTurn => turn[agentTask].phase = "ended"
    /\ \A t \in Turns : Active(turn, t) /\ ~Joined(turn, t) =>
         agentTask = t /\ link = "open" /\ ~aborted

\* A turn that is not built yet said nothing, and one that failed said so.
PhaseInv ==
    \A t \in Turns : /\ turn[t].phase = "created" => turn[t].chunks = 0
                     /\ turn[t].phase = "failing" => turn[t].told = "error"

\* The conversation of a turn is there until the turn is erased.
PresentInv ==
    \A t \in Turns : Begun(turn, t) /\ ~Erased(turn, t) => existing[turn[t].home] = "present"

\* The text and the images of a turn nobody joined: the current image is of the turn
\* whose text is in the event state, and a caption that waits is what that turn said.
OwnImage(t) ==
    /\ text = Whole(t)
    /\ turn[t].phase \notin {"none", "queued"}
    /\ \A u \in Turns : Active(turn, u) => u = t

CaptionInv ==
    /\ \A m \in Images, t \in Turns : InText(m.text, t) /\ ~Joined(turn, t) => m.by = t
    /\ image # 0 =>
         \A i \in Images : i.nth = image /\ ~Joined(turn, i.by) => OwnImage(i.by)
    /\ \A r \in Row, i \in Images :
         Pending(r) /\ r.kind = "caption" /\ i.nth = r.nth /\ ~Joined(turn, i.by) =>
             r.text = Whole(i.by) /\ Over(turn, i.by)

\* What agent_task would leave to do_abort: its whole text and an image that is there.
OwnInv ==
    \A t \in Turns : agentTask = t /\ turn[t].marks = {} =>
        /\ turn[t].phase = "answering" => text = Whole(t) /\ turn[t].chunks > 0
        /\ (Active(turn, t) \/ turn[t].phase = "answering") /\ image # 0 =>
             \E i \in stored : i.kind = "image" /\ i.nth = image

\* The text of a turn that is over is on its way to the table, or there.
KeptInv ==
    \A t \in Turns : Owed(t) =>
        /\ turn[t].phase = "answering" =>
             turn[t].row.text = Whole(t) /\ CanStore(turn[t].row)
        /\ turn[t].phase = "ended" =>
             Kept(t) \/ (handler = "aborting" /\ draft # NoRow
                         /\ draft.text = Whole(t) /\ CanStore(draft))

ShownInv == LoopInv /\ PhaseInv /\ PresentInv /\ CaptionInv /\ OwnInv /\ KeptInv

-----------------------------------------------------------------------------
(* How a turn ends, and what the loop does meanwhile.                      *)

\* How a turn comes to its last phases.
Leaves(u) ==
    /\ turn'[u].phase = "ended" =>
         \/ turn[u].phase \in {"created", "ended"}
         \/ ReceiveAbort /\ agentTask = u
         \/ "cut" \in turn'[u].marks
         \/ Done(u) /\ text = <<>>
         \/ Interrupt(u) \/ SaveRow(u) \/ SaveFails(u)
    /\ turn'[u].phase = "answering" =>
         \/ turn[u].phase = "answering" /\ turn'[u].row = turn[u].row
         \/ Done(u) /\ turn'[u].row = TextRow("answer", u, 0) /\ text # <<>>
    /\ turn'[u].phase = "failing" => turn[u].phase = "failing" \/ turn'[u].told = "error"
    /\ turn[u].phase = "ended" => turn'[u].phase = "ended"
    /\ turn'[u].phase = "created" => turn[u].phase = "created" \/ StartTurn(u)
    /\ turn'[u].phase = "running" => turn[u].phase \in {"created", "running"} \/ SaveRow(u)
    /\ turn'[u].told = turn[u].told \/ turn'[u].told = "error" \/ Done(u)

LEMMA OneLeaves ==
    ASSUME TypeOK, NEW t \in Turns, NEW y, turn' = [turn EXCEPT ![t] = y], Leaves(t)
    PROVE  \A u \in Turns : Leaves(u)
<1>1. \A u \in Turns : u # t => turn'[u] = turn[u]
  BY DEF TypeOK
<1>2. QED
  BY <1>1 DEF Leaves

LEMMA ManyLeave ==
    ASSUME TypeOK, NEW g, turn' = [u \in Turns |-> g[u]],
           \A u \in Turns :
             /\ g[u].told = turn[u].told
             /\ \/ g[u].row = turn[u].row /\ g[u].phase = turn[u].phase
                \/ g[u].phase = "ended" /\ "cut" \in g[u].marks
                \/ g[u].phase = "ended" /\ ReceiveAbort /\ agentTask = u
                \/ g[u].phase = "created" /\ StartTurn(u)
    PROVE  \A u \in Turns : Leaves(u)
<1>1. \A u \in Turns : turn'[u] = g[u]
  OBVIOUS
<1>2. QED
  BY <1>1, ZenonT(30) DEF Leaves, StartTurn

LEMMA TurnLeaves ==
    ASSUME TypeOK, HomeInv, NEW t \in Turns, TurnStep(t)
    PROVE  \A u \in Turns : Leaves(u)
<1>0. turn \in [Turns -> Turn] /\ turn[t] \in Turn
  BY DEF TypeOK
<1>1. ASSUME NEW y, turn' = [turn EXCEPT ![t] = y] PROVE turn'[t] = y
  BY <1>0, <1>1
<1>2. CASE BuildTurn(t)
  <2>1. PICK p \in {"running", "ended"} : turn' = [turn EXCEPT ![t] = AtPhase(turn[t], p)]
    BY <1>2 DEF BuildTurn, AtPhase
  <2>2. turn'[t] = AtPhase(turn[t], p) /\ turn[t].phase = "created"
    BY <1>1, <1>2, <2>1 DEF BuildTurn
  <2>3. Leaves(t)
    BY <1>0, <2>2, TurnFields, TurnSays DEF Leaves
  <2>4. QED
    BY <2>1, <2>3, OneLeaves
<1>3. CASE Delta(t)
  <2>1. turn' = [turn EXCEPT ![t] = Longer(turn[t])]
    BY <1>3 DEF Delta, Longer
  <2>2. turn'[t] = Longer(turn[t]) /\ turn[t].phase = "running"
    BY <1>1, <1>3, <2>1 DEF Delta
  <2>3. Leaves(t)
    BY <1>0, <2>2, TurnFields DEF Leaves
  <2>4. QED
    BY <2>1, <2>3, OneLeaves
<1>4. ASSUME NEW r, turn[t].phase = "running",
             turn' = [turn EXCEPT ![t] = Storing(turn[t], "saving", r)]
      PROVE  \A u \in Turns : Leaves(u)
  <2>1. turn'[t] = Storing(turn[t], "saving", r)
    BY <1>1, <1>4
  <2>2. Leaves(t)
    BY <1>0, <1>4, <2>1, TurnFields, TurnSays DEF Leaves
  <2>3. QED
    BY <1>4, <2>2, OneLeaves
<1>5. CASE Step(t)
  BY <1>4, <1>5 DEF Step, Emits, Storing
<1>6. CASE Screenshot(t)
  BY <1>4, <1>6 DEF Screenshot, Emits, Storing
<1>7. CASE Done(t)
  <2>1. turn[t].phase = "running"
    BY <1>7 DEF Done, Emits
  <2>2. CASE text = <<>>
    <3>1. turn' = [turn EXCEPT ![t] = ToldOnly(turn[t], "ended", "done")]
      BY <1>7, <2>2 DEF Done, ToldOnly
    <3>2. turn'[t] = ToldOnly(turn[t], "ended", "done")
      BY <1>1, <3>1
    <3>3. Leaves(t)
      BY <1>0, <1>7, <2>1, <2>2, <3>2, TurnFields DEF Leaves
    <3>4. QED
      BY <3>1, <3>3, OneLeaves
  <2>3. CASE text # <<>>
    <3> DEFINE y == Telling(turn[t], "answering", "done", TextRow("answer", t, 0))
    <3>1. turn' = [turn EXCEPT ![t] = y]
      BY <1>7, <2>3 DEF Done, Telling
    <3>2. turn'[t] = y
      BY <1>1, <3>1
    <3>3. Leaves(t)
      BY <1>0, <1>7, <2>1, <2>3, <3>2, TurnFields DEF Leaves
    <3>4. QED
      BY <3>1, <3>3, OneLeaves
  <2>4. QED
    BY <2>2, <2>3
<1>8. ASSUME turn[t].phase # "ended",
             turn' = [turn EXCEPT ![t] = Telling(turn[t], "failing", "error", PlainRow("error", t, 0))]
      PROVE  \A u \in Turns : Leaves(u)
  <2>1. turn'[t] = Telling(turn[t], "failing", "error", PlainRow("error", t, 0))
    BY <1>1, <1>8
  <2>2. Leaves(t)
    BY <1>0, <1>8, <2>1, TurnFields DEF Leaves
  <2>3. QED
    BY <1>8, <2>2, OneLeaves
<1>9. CASE Fail(t)
  BY <1>8, <1>9 DEF Fail, Emits, Telling
<1>10. ASSUME End(t), Interrupt(t) \/ SaveRow(t) \/ SaveFails(t) PROVE \A u \in Turns : Leaves(u)
  <2>1. turn' = [turn EXCEPT ![t] = Storing(turn[t], "ended", NoRow)]
    BY <1>10 DEF End, Storing
  <2>2. turn'[t] = Storing(turn[t], "ended", NoRow)
    BY <1>1, <2>1
  <2>3. Leaves(t)
    BY <1>0, <1>10, <2>2, TurnFields, TurnSays DEF Leaves
  <2>4. QED
    BY <2>1, <2>3, OneLeaves
<1>11. CASE Interrupt(t)
  BY <1>10, <1>11 DEF Interrupt
<1>12. CASE SaveRow(t)
  <2>1. turn[t].phase \in Awaiting
    BY <1>12 DEF SaveRow
  <2>2. CASE turn' = [turn EXCEPT ![t] = AtRow(turn[t], PlainRow("step", t, 0))]
             /\ turn[t].row.kind \in Payloads
    <3>2. turn'[t] = AtRow(turn[t], PlainRow("step", t, 0))
      BY <1>1, <2>2
    <3>3. turn[t].phase = "saving"
      BY <2>1, <2>2 DEF HomeInv, WaitingHome, Waits
    <3>4. Leaves(t)
      BY <1>0, <3>2, <3>3, TurnFields, TurnSays DEF Leaves
    <3>5. QED
      BY <2>2, <3>4, OneLeaves
  <2>3. CASE End(t)
    BY <1>10, <1>12, <2>3
  <2>4. ASSUME NEW p \in {"running", "ended"}, turn' = [turn EXCEPT ![t] = Storing(turn[t], p, NoRow)]
        PROVE  \A u \in Turns : Leaves(u)
    <3>2. turn'[t] = Storing(turn[t], p, NoRow)
      BY <1>1, <2>4
    <3>3. Leaves(t)
      BY <1>0, <1>12, <2>1, <3>2, TurnFields, TurnSays DEF Leaves, Awaiting
    <3>4. QED
      BY <2>4, <3>3, OneLeaves
  <2>5. CASE turn[t].row.kind \in Payloads
    BY <1>12, <2>2, <2>3, <2>4, <2>5 DEF SaveRow, AtRow, Storing
  <2>6. CASE turn[t].row.kind \notin Payloads
    BY <1>12, <2>4, <2>6 DEF SaveRow, Storing
  <2>7. QED
    BY <2>5, <2>6
<1>13. CASE SaveFails(t)
  <2>1. turn[t].phase # "ended"
    BY <1>13 DEF SaveFails, Awaiting
  <2>2. CASE End(t)
    BY <1>10, <1>13, <2>2
  <2>3. CASE turn' = [turn EXCEPT ![t] = Telling(turn[t], "failing", "error", PlainRow("error", t, 0))]
    BY <1>8, <2>1, <2>3
  <2>4. QED
    BY <1>13, <2>2, <2>3 DEF SaveFails, Telling
<1>14. CASE Notice(t)
  <2>1. turn' = turn
    BY <1>14 DEF Notice
  <2>2. QED
    BY <2>1 DEF Leaves
<1>15. CASE OcrResult(t)
  <2>1. PICK kind \in {"ocr", "step"} :
          /\ turn[t].phase = "running"
          /\ turn' = [turn EXCEPT ![t] = Storing(turn[t], "saving", PlainRow(kind, t, 0))]
    BY <1>15 DEF OcrResult, Storing
  <2>2. turn'[t] = Storing(turn[t], "saving", PlainRow(kind, t, 0))
    BY <1>1, <2>1
  <2>3. Leaves(t)
    BY <1>0, <2>1, <2>2, TurnFields, TurnSays DEF Leaves
  <2>4. QED
    BY <2>1, <2>3, OneLeaves
<1>16. QED
  BY <1>2, <1>3, <1>5, <1>6, <1>7, <1>9, <1>11, <1>12, <1>13, <1>14, <1>15 DEF TurnStep

\* How any step moves the turns to their last phases.
LEMMA StepLeaves ==
    ASSUME TypeOK, HomeInv, [Next]_vars
    PROVE  \A u \in Turns : Leaves(u)
<1>0. \A u \in Turns : turn[u] \in Turn
  BY DEF TypeOK
<1>1. ASSUME UNCHANGED turn PROVE \A u \in Turns : Leaves(u)
  BY <1>1 DEF Leaves
<1>2. ASSUME Close PROVE \A u \in Turns : Leaves(u)
  <2> DEFINE g == [u \in Turns |-> IF u = agentTask /\ u \in Running THEN Cut(turn[u]) ELSE turn[u]]
  <2>1. turn' = [u \in Turns |-> g[u]]
    BY <1>2 DEF Close, Cut
  <2>2. \A u \in Turns : g[u] = Cut(turn[u]) \/ g[u] = turn[u]
    OBVIOUS
  <2> HIDE DEF g
  <2>3. QED
    BY <1>0, <2>1, <2>2, TurnFields, TurnSays, ManyLeave
<1>3. ASSUME NEW T, NEW mark, turn' = Marked(T, mark) PROVE \A u \in Turns : Leaves(u)
  <2> DEFINE g == [u \in Turns |-> IF u \in T /\ turn[u].phase # "none"
                                   THEN Noted(turn[u], {mark}) ELSE turn[u]]
  <2>1. turn' = [u \in Turns |-> g[u]]
    BY <1>3 DEF Marked, Noted
  <2>2. \A u \in Turns : g[u] = Noted(turn[u], {mark}) \/ g[u] = turn[u]
    OBVIOUS
  <2> HIDE DEF g
  <2>3. QED
    BY <1>0, <2>1, <2>2, TurnFields, TurnSays, ManyLeave
<1>4. ASSUME NEW t \in Turns, ReceiveMessage(t) PROVE \A u \in Turns : Leaves(u)
  <2>1. PICK c \in Convs : turn' = [turn EXCEPT ![t].phase = "queued", ![t].home = c]
    BY <1>4 DEF ReceiveMessage
  <2>2. turn' = [turn EXCEPT ![t] = Queued(turn[t], c)] /\ turn[t].phase = "none"
    BY <1>4, <2>1 DEF Queued, ReceiveMessage
  <2>3. turn'[t] = Queued(turn[t], c)
    BY <2>2 DEF TypeOK
  <2>4. Leaves(t)
    BY <1>0, <2>2, <2>3, TurnFields, TurnSays DEF Leaves
  <2>5. QED
    BY <2>2, <2>4, OneLeaves
<1>5. CASE ReceiveAbort
  <2> DEFINE g == [u \in Turns |-> IF u = agentTask /\ u \in Running
                                   THEN Storing(turn[u], "ended", NoRow) ELSE turn[u]]
  <2>1. turn' = [u \in Turns |-> g[u]]
    BY <1>5 DEF ReceiveAbort, Storing
  <2>2. \A u \in Turns : \/ g[u] = Storing(turn[u], "ended", NoRow) /\ agentTask = u
                         \/ g[u] = turn[u]
    OBVIOUS
  <2> HIDE DEF g
  <2>3. QED
    BY <1>0, <1>5, <2>1, <2>2, TurnFields, TurnSays, ManyLeave
<1>6. ASSUME NEW t \in Turns, StartTurn(t) PROVE \A u \in Turns : Leaves(u)
  <2>1. PICK others \in SUBSET Turns, met \in SUBSET Marks :
          turn' = [u \in Turns |-> IF u = t THEN Started(turn[t], met)
                                   ELSE IF u \in others THEN Noted(turn[u], met) ELSE turn[u]]
    BY <1>6 DEF StartTurn, Started, Noted, Marks
  <2> DEFINE g == [u \in Turns |-> IF u = t THEN Started(turn[t], met)
                                   ELSE IF u \in others THEN Noted(turn[u], met) ELSE turn[u]]
  <2>2. turn' = [u \in Turns |-> g[u]]
    BY <2>1
  <2>3. \A u \in Turns : \/ u = t /\ g[u] = Started(turn[u], met)
                         \/ g[u] = Noted(turn[u], met) \/ g[u] = turn[u]
    OBVIOUS
  <2> HIDE DEF g
  <2>4. QED
    BY <1>0, <1>6, <2>2, <2>3, TurnFields, TurnSays, ManyLeave, SMTT(30)
<1>7. CASE ClientStep
  BY <1>1, <1>2, <1>3, <1>4, <1>5, <1>7
  DEF ClientStep, ReceiveMessageFails, RefuseMessage, ReceiveInit, ReceiveClear, Disconnect
<1>8. CASE LoopStep
  BY <1>1, <1>2, <1>6, <1>8 DEF LoopStep, ReapTurn, FinishAbort, FinishAbortFails
<1>9. CASE FireTimer \/ FlushTaskEnds \/ UNCHANGED vars
  BY <1>1, <1>9 DEF FireTimer, FlushTaskEnds, vars
<1>10. ASSUME NEW c \in Convs, DeleteConversation(c) PROVE \A u \in Turns : Leaves(u)
  BY <1>3, <1>10 DEF DeleteConversation
<1>11. QED
  BY <1>7, <1>8, <1>9, <1>10, TurnLeaves DEF Next

-----------------------------------------------------------------------------
(* Buffered text.                                                          *)

\* A turn whose text another turn may have left without a flush task.
Excused(T, t) == Joined(T, t) \/ \E u \in Turns \ {t} : T[u].told = "error"

\* Text in the buffer has a flush task coming; and while a cancelled one is not done,
\* no turn that trusts it is there that has the connection to itself.
ArmedInv ==
    /\ text = <<>> => buffer = <<>>
    /\ \A i \in DOMAIN buffer : timer = "pending" \/ Excused(turn, buffer[i])
    /\ timer = "cancelled" =>
         \A t \in Turns : turn[t].phase \in {"created", "running"} => Excused(turn, t)

\* Turn t cancels the flush task: it stores a row next, or ends, or has produced nothing.
Cancels(t) ==
    /\ timer = "pending" /\ buffer # <<>> /\ buffer' = <<>> /\ timer' = "cancelled"
    /\ turn' = [turn EXCEPT ![t] = turn'[t]]
    /\ \/ /\ turn[t].phase = "running"
          /\ \/ turn'[t].phase \notin {"created", "running"}
             \/ turn[t].chunks = 0
       \/ turn'[t].told = "error" /\ turn'[t].phase = "failing"

\* What a step does to the buffer and to the flush task.
LEMMA StepTimer ==
    ASSUME TypeOK, HomeInv, [Next]_vars
    PROVE  \/ buffer' = buffer /\ timer' = timer
           \/ buffer' = buffer /\ timer = "cancelled" /\ timer' = "none"
           \/ buffer' = <<>> /\ (timer' = timer \/ timer' = "none")
           \/ \E t \in Turns : /\ Delta(t) /\ buffer' = Append(buffer, t)
                               /\ timer' = IF timer = "none" THEN "pending" ELSE timer
           \/ \E t \in Turns : Cancels(t)
<1>1. CASE ClientStep
  BY <1>1 DEF ClientStep, ReceiveMessage, ReceiveMessageFails, RefuseMessage,
              ReceiveAbort, ReceiveInit, ReceiveClear, Disconnect, stateVars
<1>2. CASE LoopStep
  BY <1>2 DEF LoopStep, ReapTurn, FinishAbort, FinishAbortFails, StartTurn, stateVars
<1>3. CASE FireTimer \/ FlushTaskEnds \/ (\E c \in Convs : DeleteConversation(c)) \/ UNCHANGED vars
  BY <1>3 DEF FireTimer, FlushTaskEnds, DeleteConversation, stateVars, vars
<1>4. ASSUME NEW t \in Turns, TurnStep(t), Flush, timer = "pending", buffer # <<>>,
             turn[t].phase = "running" \/ (turn'[t].told = "error" /\ turn'[t].phase = "failing"),
             turn'[t].phase \notin {"created", "running"} \/ turn[t].chunks = 0
      PROVE  Cancels(t)
  <2>1. buffer' = <<>> /\ timer' = "cancelled"
    BY <1>4 DEF Flush
  <2>2. \E y \in Turn : turn' = [turn EXCEPT ![t] = y]
    BY <1>4, TurnStepRecord
  <2>3. turn' = [turn EXCEPT ![t] = turn'[t]]
    BY <2>2 DEF TypeOK
  <2>4. QED
    BY <1>4, <2>1, <2>3 DEF Cancels
<1>5. ASSUME Flush, ~(timer = "pending" /\ buffer # <<>>) PROVE buffer' = <<>> /\ timer' = timer
  BY <1>5 DEF Flush
<1>6. ASSUME NEW t \in Turns, TurnStep(t)
      PROVE  \/ buffer' = buffer /\ timer' = timer
             \/ buffer' = <<>> /\ timer' = timer
             \/ /\ Delta(t) /\ buffer' = Append(buffer, t)
                /\ timer' = IF timer = "none" THEN "pending" ELSE timer
             \/ Cancels(t)
  <2>0. turn \in [Turns -> Turn] /\ turn[t] \in Turn
    BY DEF TypeOK
  <2>1. CASE BuildTurn(t) \/ SaveRow(t)
    BY <2>1 DEF BuildTurn, SaveRow, stateVars
  <2>2. CASE Delta(t)
    BY <2>2 DEF Delta
  <2>3. CASE Interrupt(t)
    BY <2>3 DEF Interrupt
  <2>4. CASE Notice(t)
    BY <1>4, <1>5, <1>6, <2>4 DEF Notice, Emits
  <2>5. ASSUME NEW r, Flush, turn[t].phase = "running",
               turn' = [turn EXCEPT ![t] = Storing(turn[t], "saving", r)]
        PROVE  (buffer' = <<>> /\ timer' = timer) \/ Cancels(t)
    <3>1. turn'[t] = Storing(turn[t], "saving", r)
      BY <2>0, <2>5
    <3>2. turn'[t].phase = "saving"
      BY <2>0, <3>1, TurnFields
    <3>3. QED
      BY <1>4, <1>5, <1>6, <2>5, <3>2
  <2>6. CASE Step(t)
    BY <2>5, <2>6 DEF Step, Emits, Storing
  <2>7. CASE Screenshot(t)
    <3>1. /\ Flush /\ turn[t].phase = "running"
          /\ turn' = [turn EXCEPT ![t] = Storing(turn[t], "saving", PlainRow("image", t, events + 1))]
      BY <2>7 DEF Screenshot, Emits, Storing
    <3>2. QED
      BY <2>5, <3>1
  <2>8. CASE OcrResult(t)
    <3>1. PICK kind \in {"ocr", "step"} :
            /\ Flush /\ turn[t].phase = "running"
            /\ turn' = [turn EXCEPT ![t] = Storing(turn[t], "saving", PlainRow(kind, t, 0))]
      BY <2>8 DEF OcrResult, Storing
    <3>2. QED
      BY <2>5, <3>1
  <2>9. CASE Done(t)
    <3>1. /\ Flush /\ turn[t].phase = "running"
          /\ \/ turn' = [turn EXCEPT ![t] = ToldOnly(turn[t], "ended", "done")]
             \/ turn' = [turn EXCEPT ![t] = Telling(turn[t], "answering", "done",
                                                    TextRow("answer", t, 0))]
      BY <2>9, ZenonT(30) DEF Done, Emits, ToldOnly, Telling
    <3>2. \/ turn'[t] = ToldOnly(turn[t], "ended", "done")
          \/ turn'[t] = Telling(turn[t], "answering", "done", TextRow("answer", t, 0))
      BY <2>0, <3>1
    <3>3. turn'[t].phase \in {"ended", "answering"}
      BY <2>0, <3>2, TurnFields
    <3>4. QED
      BY <1>4, <1>5, <1>6, <3>1, <3>3
  <2>10. CASE Fail(t) \/ SaveFails(t)
    <3>1. CASE UNCHANGED <<buffer, timer, shown, late>>
      BY <3>1
    <3>2. CASE /\ Flush
               /\ turn' = [turn EXCEPT ![t] = Telling(turn[t], "failing", "error",
                                                      PlainRow("error", t, 0))]
      <4>1. turn'[t] = Telling(turn[t], "failing", "error", PlainRow("error", t, 0))
        BY <2>0, <3>2
      <4>2. turn'[t].phase = "failing" /\ turn'[t].told = "error"
        BY <2>0, <4>1, TurnFields
      <4>3. QED
        BY <1>4, <1>5, <1>6, <3>2, <4>2
    <3>3. QED
      BY <2>10, <3>1, <3>2 DEF Fail, SaveFails, Emits, Telling
  <2>11. QED
    BY <1>6, <2>1, <2>2, <2>3, <2>4, <2>6, <2>7, <2>8, <2>9, <2>10 DEF TurnStep
<1>7. QED
  BY <1>1, <1>2, <1>3, <1>6 DEF Next

\* What excuses a turn lasts.
LEMMA ExcusedStays ==
    ASSUME TypeOK, HomeInv, WholeInv, [Next]_vars, NEW t \in Turns, Excused(turn, t)
    PROVE  Excused(turn', t)
<1>1. Joined(turn, t) => Joined(turn', t)
  BY StepMoves DEF TurnsMove, Grows, Joined
<1>2. ASSUME NEW u \in Turns, turn[u].told = "error" PROVE turn'[u].told = "error"
  <2>1. ~Done(u)
    BY <1>2 DEF Done, Emits, WholeInv, OverInv
  <2>2. QED
    BY <1>2, <2>1, StepLeaves DEF Leaves
<1>3. QED
  BY <1>1, <1>2 DEF Excused

LEMMA KeepArmed ==
    ASSUME TypeOK, HomeInv, WholeInv, ArmedInv, [Next]_vars
    PROVE  ArmedInv'
<1>0. /\ turn \in [Turns -> Turn] /\ buffer \in Seq(Turns) /\ text \in Seq(Turns)
      /\ timer \in {"none", "pending", "cancelled"}
  BY DEF TypeOK, Chunks
<1>1. text' = <<>> => buffer' = <<>>
  <2>1. CASE \E s \in Turns : StartTurn(s)
    BY <2>1 DEF StartTurn
  <2>2. CASE \E t \in Turns : Delta(t)
    <3>1. PICK t \in Turns : text' = Append(text, t)
      BY <2>2 DEF Delta
    <3>2. Len(text') = Len(text) + 1 /\ Len(text) \in Nat
      BY <1>0, <3>1
    <3>3. QED
      BY <3>2
  <2>3. CASE text' = text /\ ~(\E t \in Turns : Delta(t))
    BY <2>3, StepBuffer DEF ArmedInv
  <2>4. QED
    BY <2>1, <2>2, <2>3, StepText
<1>2. ASSUME NEW t \in Turns, turn'[t].phase \in {"created", "running"}, timer' = "cancelled",
             timer = "cancelled"
      PROVE  Excused(turn', t)
  <2>1. ~StartTurn(t) /\ ~SaveRow(t)
    BY <1>2 DEF StartTurn, SaveRow
  <2>2. turn[t].phase \in {"created", "running"}
    BY <1>2, <2>1, StepLeaves DEF Leaves
  <2>3. QED
    BY <1>2, <2>2, ExcusedStays DEF ArmedInv
<1>3. ASSUME NEW t \in Turns, Cancels(t),
             NEW u \in Turns, turn'[u].phase \in {"created", "running"}
      PROVE  Excused(turn', u)
  <2>1. CASE u = t
    <3>1. turn[t].phase = "running" /\ turn[t].chunks = 0 /\ text # <<>>
      BY <1>3, <2>1 DEF Cancels, ArmedInv
    <3>2. Joined(turn, t)
      <4>1. SUFFICES ASSUME ~Joined(turn, t) PROVE FALSE
        OBVIOUS
      <4>2. text = Whole(t)
        BY <3>1, <4>1 DEF WholeInv, TalkInv, Active
      <4>3. Whole(t) = <<>>
        BY <3>1 DEF Whole
      <4>4. QED
        BY <3>1, <4>2, <4>3
    <3>3. QED
      BY <2>1, <3>2, ExcusedStays DEF Excused
  <2>2. CASE u # t
    <3>1. turn'[u] = turn[u]
      BY <1>0, <1>3, <2>2 DEF Cancels
    <3>2. CASE turn'[t].told = "error"
      BY <2>2, <3>2 DEF Excused
    <3>3. CASE turn[t].phase = "running"
      <4>1. Active(turn, t) /\ Active(turn, u)
        BY <1>3, <3>1, <3>3 DEF Active
      <4>2. Joined(turn, u)
        BY <2>2, <4>1 DEF HomeInv, AloneInv, Alone
      <4>3. QED
        BY <4>2, ExcusedStays DEF Excused
    <3>4. QED
      BY <1>3, <3>2, <3>3 DEF Cancels
  <2>3. QED
    BY <2>1, <2>2
<1>4. CASE buffer' = buffer /\ timer' = timer
  <2>1. ASSUME NEW i \in DOMAIN buffer' PROVE timer' = "pending" \/ Excused(turn', buffer'[i])
    <3>1. buffer[i] \in Turns
      BY <1>0, <1>4, <2>1
    <3>2. QED
      BY <1>4, <2>1, <3>1, ExcusedStays DEF ArmedInv
  <2>2. QED
    BY <1>1, <1>2, <1>4, <2>1 DEF ArmedInv, Excused, Joined
<1>5. CASE buffer' = buffer /\ timer = "cancelled" /\ timer' = "none"
  <2>1. ASSUME NEW i \in DOMAIN buffer' PROVE Excused(turn', buffer'[i])
    <3>1. buffer[i] \in Turns
      BY <1>0, <1>5, <2>1
    <3>2. QED
      BY <1>5, <2>1, <3>1, ExcusedStays DEF ArmedInv
  <2>2. QED
    BY <1>1, <1>5, <2>1 DEF ArmedInv, Excused, Joined
<1>6. CASE buffer' = <<>> /\ (timer' = timer \/ timer' = "none")
  <2>1. DOMAIN buffer' = {}
    BY <1>6
  <2>2. QED
    BY <1>1, <1>2, <1>6, <2>1 DEF ArmedInv, Excused, Joined
<1>7. ASSUME NEW t \in Turns, Delta(t), buffer' = Append(buffer, t),
             timer' = IF timer = "none" THEN "pending" ELSE timer
      PROVE  ArmedInv'
  <2>1. timer' = "pending" \/ (timer' = "cancelled" /\ timer = "cancelled")
    BY <1>0, <1>7
  <2>2. ASSUME NEW i \in DOMAIN buffer', timer' # "pending" PROVE Excused(turn', buffer'[i])
    <3>1. timer = "cancelled" /\ turn[t].phase = "running"
      BY <1>7, <2>1, <2>2 DEF Delta
    <3>2. Excused(turn', t)
      BY <3>1, ExcusedStays DEF ArmedInv
    <3>3. buffer'[i] = t \/ (i \in DOMAIN buffer /\ buffer'[i] = buffer[i] /\ buffer[i] \in Turns)
      BY <1>0, <1>7, <2>2
    <3>4. QED
      BY <3>1, <3>2, <3>3, ExcusedStays DEF ArmedInv
  <2>3. QED
    BY <1>1, <1>2, <2>1, <2>2 DEF ArmedInv, Excused, Joined
<1>8. ASSUME NEW t \in Turns, Cancels(t) PROVE ArmedInv'
  <2>1. buffer' = <<>> /\ timer' = "cancelled" /\ DOMAIN buffer' = {}
    BY <1>8 DEF Cancels
  <2>2. QED
    BY <1>1, <1>3, <1>8, <2>1 DEF ArmedInv, Excused, Joined
<1>9. QED
  BY <1>4, <1>5, <1>6, <1>7, <1>8, StepTimer

THEOREM ArmedHolds == Spec => []ArmedInv
<1>1. Init => ArmedInv
  BY DEF Init, ArmedInv
<1>2. QED
  BY <1>1, KeepArmed, TypeCorrect, HomeHolds, WholeHolds, PTL DEF Spec

\* A flush leaves no text behind, and every delta arms the flush task unless one is
\* there that is not done(), so that text in delta_buffer has a flush task coming - also
\* when a turn takes the place of a running one, whose flush task it inherits.  It may
\* wait for the next event where another turn has just cancelled the task it trusted.
THEOREM BufferIsArmed == Spec => []BufferedTextIsArmed
<1>1. TypeOK /\ ArmedInv => BufferedTextIsArmed
  BY DEF TypeOK, Chunks, ArmedInv, BufferedTextIsArmed, Excused, Undisturbed, Joined
<1>2. QED
  BY <1>1, TypeCorrect, ArmedHolds, PTL

-----------------------------------------------------------------------------
(* The loop, and the turns that are over.                                   *)

\* What a step does to the loop.
LEMMA StepLoop ==
    ASSUME [Next]_vars
    PROVE  /\ \/ agentTask' = agentTask
              \/ ReapTurn \/ FinishAbort
              \/ \E t \in Turns : StartTurn(t)
           /\ link' = link \/ (Close /\ handler \in {"recv", "aborting"})
           /\ aborted' = aborted \/ ReceiveAbort \/ \E t \in Turns : StartTurn(t)
           /\ handler' = "starting" => (handler = "starting" /\ link' = link)
                                       \/ (Receiving /\ link' = link)
           /\ handler' = "aborting" => (handler = "aborting" /\ agentTask' = agentTask) \/ ReceiveAbort
           /\ draft' \in {draft, NoRow} \/ ReceiveAbort
           /\ handler = "aborting" =>
                \/ handler' = "aborting" /\ draft' = draft
                \/ FinishAbort \/ FinishAbortFails
<1> DEFINE Same == /\ agentTask' = agentTask /\ link' = link /\ aborted' = aborted
                   /\ handler' = handler /\ draft' = draft
           Closed == /\ Close /\ agentTask' = agentTask /\ aborted' = aborted
                     /\ handler' = handler /\ draft' = draft /\ Receiving
<1>1. ASSUME NEW t \in Turns, TurnStep(t) PROVE Same
  BY <1>1 DEF TurnStep, BuildTurn, Delta, Notice, Step, Screenshot, OcrResult, Done, Fail, Interrupt, SaveRow,
              SaveFails, loopVars
<1>2. CASE ReceiveMessageFails \/ Disconnect
  <2>1. Closed
    BY <1>2 DEF ReceiveMessageFails, Disconnect, loopVars
  <2>2. QED
    BY <2>1 DEF Receiving
<1>3. CASE RefuseMessage \/ ReceiveInit \/ ReceiveClear
  <2>1. Same
    BY <1>3 DEF RefuseMessage, ReceiveInit, ReceiveClear
  <2>2. QED
    BY <2>1
<1>4. ASSUME NEW t \in Turns, ReceiveMessage(t)
      PROVE  /\ Receiving /\ link' = link /\ handler' = "starting"
             /\ agentTask' = agentTask /\ aborted' = aborted /\ draft' = draft
  BY <1>4 DEF ReceiveMessage
<1>5. CASE ReceiveAbort
  <2>1. agentTask' = agentTask /\ link' = link /\ handler' = "aborting" /\ handler = "recv"
    BY <1>5 DEF ReceiveAbort, Receiving
  <2>2. QED
    BY <1>5, <2>1
<1>6. CASE ReapTurn
  <2>1. link' = link /\ aborted' = aborted /\ handler' = handler /\ draft' = draft /\ handler = "recv"
    BY <1>6 DEF ReapTurn, Receiving
  <2>2. QED
    BY <1>6, <2>1
<1>7. CASE FinishAbort
  <2>1. /\ link' = link /\ aborted' = aborted /\ handler' = "recv" /\ handler = "aborting"
        /\ draft' = NoRow
    BY <1>7 DEF FinishAbort
  <2>2. QED
    BY <1>7, <2>1
<1>8. CASE FinishAbortFails
  <2>1. /\ Close /\ agentTask' = agentTask /\ aborted' = aborted /\ handler' = "recv"
        /\ handler = "aborting" /\ draft' = NoRow
    BY <1>8 DEF FinishAbortFails
  <2>2. QED
    BY <1>8, <2>1
<1>9. ASSUME NEW t \in Turns, StartTurn(t)
      PROVE  link' = link /\ handler' = "recv" /\ draft' = draft /\ handler = "starting"
  BY <1>9 DEF StartTurn
<1>10. CASE FireTimer \/ FlushTaskEnds \/ (\E c \in Convs : DeleteConversation(c)) \/ UNCHANGED vars
  <2>1. Same
    BY <1>10 DEF FireTimer, FlushTaskEnds, DeleteConversation, loopVars, vars
  <2>2. QED
    BY <2>1
<1>11. CASE \E t \in Turns : StartTurn(t)
  BY <1>9, <1>11
<1>12. CASE \E t \in Turns : ReceiveMessage(t)
  BY <1>4, <1>12 DEF Receiving
<1>13. CASE \E t \in Turns : TurnStep(t)
  BY <1>1, <1>13
<1>14. QED
  BY <1>2, <1>3, <1>5, <1>6, <1>7, <1>8, <1>10, <1>11, <1>12, <1>13 DEF Next, ClientStep, LoopStep

\* A row of conversations is there until it is deleted.
LEMMA StepExisting ==
    ASSUME TypeOK, [Next]_vars, NEW c \in Convs, existing[c] = "present"
    PROVE  existing'[c] = "present" \/ DeleteConversation(c)
<1>1. ASSUME NEW d \in Convs, Created(d) PROVE existing'[c] = "present"
  BY <1>1 DEF Created, TypeOK
<1>2. ASSUME UNCHANGED existing PROVE existing'[c] = "present"
  BY <1>2
<1>3. ASSUME NEW d \in Convs, Bound(d) PROVE existing'[c] = "present"
  BY <1>1, <1>3 DEF Bound
<1>4. ASSUME NEW t \in Turns, TurnStep(t) PROVE UNCHANGED existing
  BY <1>4 DEF TurnStep, BuildTurn, Delta, Notice, Step, Screenshot, OcrResult, Done, Fail, Interrupt, SaveRow,
              SaveFails, dbVars
<1>5. CASE ClientStep
  BY <1>1, <1>2, <1>3, <1>5 DEF ClientStep, ReceiveMessage, ReceiveMessageFails, RefuseMessage,
              ReceiveAbort, ReceiveInit, ReceiveClear, Disconnect
<1>6. CASE LoopStep
  BY <1>6 DEF LoopStep, ReapTurn, FinishAbort, FinishAbortFails, StartTurn, dbVars
<1>7. ASSUME NEW d \in Convs, DeleteConversation(d)
      PROVE existing'[c] = "present" \/ DeleteConversation(c)
  BY <1>7 DEF DeleteConversation, TypeOK
<1>8. CASE FireTimer \/ FlushTaskEnds \/ UNCHANGED vars
  BY <1>8 DEF FireTimer, FlushTaskEnds, dbVars, vars
<1>9. QED
  BY <1>4, <1>5, <1>6, <1>7, <1>8 DEF Next

-----------------------------------------------------------------------------
(* What becomes of a row of the table.                                     *)

\* Every turn that a conversation is the home of is erased by this step, or was.
Gone(c) == \A t \in Turns : Begun(turn, t) /\ turn[t].home = c => Erased(turn', t)

\* A row stays, gets a caption, or goes with its conversation.
Fate(m) ==
    \/ m \in stored'
    \/ \E r \in Row : /\ Pending(r) /\ r.kind = "caption"
                      /\ m \in ImageOf(r) /\ Captioned(m, r) \in stored'
    \/ Gone(m.conv)

LEMMA StoreFate ==
    ASSUME NEW r \in Row, Pending(r), stored' = StoredWith(r), NEW m \in stored
    PROVE  Fate(m)
<1>1. CASE r.kind = "caption"
  <2>1. stored' = (stored \ ImageOf(r)) \cup {Captioned(i, r) : i \in ImageOf(r)}
    BY <1>1 DEF StoredWith, Captioned
  <2>2. CASE m \in ImageOf(r)
    BY <1>1, <2>1, <2>2 DEF Fate
  <2>3. CASE m \notin ImageOf(r)
    BY <2>1, <2>3 DEF Fate
  <2>4. QED
    BY <2>2, <2>3
<1>2. CASE r.kind # "caption"
  BY <1>2 DEF StoredWith, Fate
<1>3. QED
  BY <1>1, <1>2

\* The turns of a conversation whose rows go are erased.
LEMMA MarkedGone ==
    ASSUME TypeOK, NEW c, turn' = Marked({t \in Turns : turn[t].home = c}, "erased")
    PROVE  Gone(c)
<1>1. ASSUME NEW t \in Turns, Begun(turn, t), turn[t].home = c PROVE Erased(turn', t)
  <2>1. turn'[t] = Noted(turn[t], {"erased"})
    BY <1>1 DEF Marked, Noted, Begun
  <2>2. QED
    BY <2>1, TurnFields DEF TypeOK, Erased
<1>2. QED
  BY <1>1 DEF Gone

LEMMA StepFate ==
    ASSUME TypeOK, [Next]_vars, NEW m \in stored
    PROVE  Fate(m)
<1>1. ASSUME m \in stored' PROVE Fate(m)
  BY <1>1 DEF Fate
<1>2. ASSUME CancelCommit PROVE Fate(m)
  <2>1. CASE UNCHANGED stored
    BY <1>1, <2>1
  <2>2. CASE /\ agentTask # NoTurn /\ turn[agentTask].phase \in Awaiting
             /\ stored' = StoredWith(turn[agentTask].row)
    <3>1. agentTask \in Turns /\ turn[agentTask].row \in Row
      BY <2>2 DEF TypeOK, Turn
    <3>2. Pending(turn[agentTask].row)
      BY <2>2, <3>1 DEF Pending, Waits
    <3>3. QED
      BY <2>2, <3>1, <3>2, StoreFate
  <2>3. QED
    BY <1>2, <2>1, <2>2 DEF CancelCommit
<1>3. ASSUME NEW c, stored' = {n \in stored : n.conv # c},
             turn' = Marked({t \in Turns : turn[t].home = c}, "erased")
      PROVE  Fate(m)
  <2>1. CASE m.conv = c
    BY <1>3, <2>1, MarkedGone DEF Fate
  <2>2. CASE m.conv # c
    BY <1>1, <1>3, <2>2
  <2>3. QED
    BY <2>1, <2>2
<1>4. ASSUME NEW t \in Turns, ReceiveMessage(t) PROVE Fate(m)
  BY <1>1, <1>4 DEF ReceiveMessage
<1>5. CASE ClientStep
  <2>1. CASE ReceiveClear
    BY <1>3, <2>1 DEF ReceiveClear
  <2>2. CASE ReceiveMessageFails \/ ReceiveAbort \/ Disconnect
    BY <1>2, <2>2 DEF ReceiveMessageFails, ReceiveAbort, Disconnect, Close
  <2>3. CASE RefuseMessage \/ ReceiveInit
    BY <1>1, <2>3 DEF RefuseMessage, ReceiveInit
  <2>4. QED
    BY <1>4, <1>5, <2>1, <2>2, <2>3 DEF ClientStep
<1>6. CASE LoopStep
  <2>1. CASE FinishAbort
    <3>1. CASE draft = NoRow
      BY <1>1, <2>1, <3>1 DEF FinishAbort
    <3>2. CASE draft # NoRow
      <4>1. draft \in Row /\ Pending(draft)
        BY <3>2 DEF Pending, TypeOK
      <4>2. QED
        BY <2>1, <3>2, <4>1, StoreFate DEF FinishAbort
    <3>3. QED
      BY <3>1, <3>2
  <2>2. CASE FinishAbortFails
    BY <1>2, <2>2 DEF FinishAbortFails, Close
  <2>3. QED
    BY <1>1, <1>6, <2>1, <2>2 DEF LoopStep, ReapTurn, StartTurn, dbVars
<1>7. ASSUME NEW t \in Turns, SaveRow(t) PROVE Fate(m)
  <2>1. turn[t].row \in Row /\ Pending(turn[t].row)
    BY <1>7 DEF TypeOK, Turn, SaveRow, Pending, Waits
  <2>2. QED
    BY <1>7, <2>1, StoreFate DEF SaveRow
<1>8. ASSUME NEW t \in Turns, TurnStep(t) PROVE Fate(m)
  BY <1>1, <1>7, <1>8
  DEF TurnStep, BuildTurn, Delta, Notice, Step, Screenshot, OcrResult, Done, Fail, Interrupt, SaveFails, dbVars
<1>9. ASSUME NEW c \in Convs, DeleteConversation(c) PROVE Fate(m)
  BY <1>3, <1>9 DEF DeleteConversation
<1>10. CASE FireTimer \/ FlushTaskEnds \/ UNCHANGED vars
  BY <1>1, <1>10 DEF FireTimer, FlushTaskEnds, dbVars, vars
<1>11. QED
  BY <1>5, <1>6, <1>8, <1>9, <1>10 DEF Next

\* A row that is stored is in the table, or its text is.
LEMMA StoredText ==
    ASSUME TypeOK, NEW r \in Row, CanStore(r)
    PROVE  \E m \in StoredWith(r) : m.text = r.text
<1>1. CASE r.kind = "caption"
  <2>1. PICK i \in ImageOf(r) : TRUE
    BY <1>1 DEF CanStore
  <2>2. Captioned(i, r) \in StoredWith(r)
    BY <1>1 DEF StoredWith, Captioned
  <2>3. i \in StoredRow
    BY DEF ImageOf, TypeOK
  <2>4. QED
    BY <2>2, <2>3, CaptionedFields
<1>2. CASE r.kind # "caption"
  BY <1>2 DEF StoredWith
<1>3. QED
  BY <1>1, <1>2

\* An image of a turn stays until the turn is erased.
LEMMA ImageStays ==
    ASSUME TypeOK, HomeInv, [Next]_vars, NEW t \in Turns, ~Moved(turn, t), ~Erased(turn', t),
           NEW i \in stored, i.kind = "image", i.by = t
    PROVE  \E j \in stored' : j.kind = "image" /\ j.nth = i.nth
<1>1. Begun(turn, t) /\ turn[t].home = i.conv
  BY DEF HomeInv, StoredHome, RowHome
<1>2. ~Gone(i.conv)
  BY <1>1 DEF Gone
<1>3. i \in StoredRow
  BY DEF TypeOK
<1>4. QED
  BY <1>2, <1>3, StepFate, CaptionedFields DEF Fate

\* The text of a turn that is over stays in the table until the turn is erased.
LEMMA KeptStays ==
    ASSUME TypeOK, HomeInv, CaptionInv, [Next]_vars, NEW t \in Turns,
           ~Moved(turn, t), ~Joined(turn, t), ~Erased(turn', t), turn[t].chunks > 0, Kept(t)
    PROVE  \E m \in stored' : m.text = Whole(t)
<1>1. PICK m \in stored : m.text = Whole(t)
  BY DEF Kept
<1>2. InText(m.text, t)
  <2>1. 1 \in 1..turn[t].chunks
    BY DEF TypeOK, Turn
  <2>2. 1 \in DOMAIN m.text /\ m.text[1] = t
    BY <1>1, <2>1 DEF Whole
  <2>3. QED
    BY <2>2 DEF InText
<1>3. Begun(turn, t) /\ turn[t].home = m.conv
  BY <1>2 DEF HomeInv, StoredHome, RowHome
<1>4. ~Gone(m.conv)
  BY <1>3 DEF Gone
<1>5. CASE m \in stored'
  BY <1>1, <1>5
<1>6. ASSUME NEW r \in Row, Pending(r), r.kind = "caption", m \in ImageOf(r),
             Captioned(m, r) \in stored'
      PROVE  \E n \in stored' : n.text = Whole(t)
  <2>1. m.kind = "image" /\ m.nth = r.nth /\ m \in Images /\ m \in StoredRow
    BY <1>6 DEF ImageOf, Images, ImagesOf, TypeOK
  <2>2. m.by = t
    BY <1>2, <2>1 DEF CaptionInv
  <2>3. r.text = Whole(t)
    BY <1>6, <2>1, <2>2 DEF CaptionInv
  <2>4. QED
    BY <1>6, <2>1, <2>3, CaptionedFields
<1>7. QED
  BY <1>4, <1>5, <1>6, StepFate DEF Fate

\* A row that carries the text of a turn can be stored until the turn is erased.
LEMMA CanStoreStays ==
    ASSUME TypeOK, HomeInv, PresentInv, [Next]_vars, NEW t \in Turns,
           ~Moved(turn, t), ~Joined(turn, t), ~Erased(turn', t),
           NEW r \in Row, ReadyHome(r, turn, Images, events), InText(r.text, t), CanStore(r)
    PROVE  CanStore(r)'
<1>1. CASE r.kind = "caption"
  <2>1. PICK i \in ImageOf(r) : TRUE
    BY <1>1 DEF CanStore
  <2>2. i \in stored /\ i.kind = "image" /\ i.nth = r.nth /\ i \in Images
    BY DEF ImageOf, Images, ImagesOf
  <2>3. i.by = t
    BY <1>1, <2>2 DEF ReadyHome, CaptionHome
  <2>4. PICK j \in stored' : j.kind = "image" /\ j.nth = r.nth
    BY <2>2, <2>3, ImageStays
  <2>5. QED
    BY <1>1, <2>4 DEF CanStore, ImageOf
<1>2. CASE r.kind # "caption"
  <2>1. r.conv = turn[t].home /\ Begun(turn, t)
    BY <1>2 DEF ReadyHome, RowHome
  <2>2. r.conv \in Convs
    BY <2>1 DEF HomeInv, BoundHome
  <2>3. existing[r.conv] = "present"
    BY <1>2 DEF CanStore
  <2>4. ~DeleteConversation(r.conv)
    BY <2>1, MarkedGone DEF DeleteConversation, Gone
  <2>5. existing'[r.conv] = "present" /\ r.conv # NoConv
    BY <2>2, <2>3, <2>4, StepExisting, ChatAssumption
  <2>6. QED
    BY <1>2, <2>5 DEF CanStore
<1>3. QED
  BY <1>1, <1>2

-----------------------------------------------------------------------------
(* The invariant is preserved, part by part.                               *)

LEMMA KeepPresent ==
    ASSUME TypeOK, HomeInv, PresentInv, [Next]_vars
    PROVE  PresentInv'
<1>1. TurnsMove
  BY StepMoves
<1>2. ASSUME NEW t \in Turns, Begun(turn', t), ~Erased(turn', t)
      PROVE  existing'[turn'[t].home] = "present"
  <2>1. CASE Begun(turn, t)
    <3>1. turn'[t].home = turn[t].home /\ ~Erased(turn, t)
      BY <1>1, <1>2, <2>1 DEF TurnsMove, Grows, Erased
    <3>2. turn[t].home \in Convs /\ existing[turn[t].home] = "present"
      BY <2>1, <3>1 DEF HomeInv, BoundHome, PresentInv
    <3>3. ~DeleteConversation(turn[t].home)
      BY <1>2, <2>1, MarkedGone DEF DeleteConversation, Gone
    <3>4. QED
      BY <3>1, <3>2, <3>3, StepExisting
  <2>2. CASE ReceiveMessage(t)
    <3>1. PICK c \in Convs : /\ existing'[c] = "present"
                             /\ turn' = [turn EXCEPT ![t].phase = "queued", ![t].home = c]
      BY <2>2 DEF ReceiveMessage
    <3>2. turn' = [turn EXCEPT ![t] = Queued(turn[t], c)]
      BY <3>1 DEF Queued
    <3>3. turn'[t].home = c
      BY <3>2, TurnFields DEF TypeOK
    <3>4. QED
      BY <3>1, <3>3
  <2>3. QED
    BY <1>1, <1>2, <2>1, <2>2 DEF TurnsMove, BegunFrom
<1>3. QED
  BY <1>2 DEF PresentInv, Begun, Erased

LEMMA KeepPhase ==
    ASSUME TypeOK, HomeInv, FreshInv, PhaseInv, [Next]_vars
    PROVE  PhaseInv'
<1>1. ASSUME NEW t \in Turns, turn'[t].phase = "failing" PROVE turn'[t].told = "error"
  <2>1. Leaves(t)
    BY StepLeaves
  <2>2. CASE turn[t].phase = "failing"
    <3>1. turn[t].told = "error" /\ ~Done(t)
      BY <2>2 DEF PhaseInv, Done, Emits
    <3>2. QED
      BY <2>1, <3>1 DEF Leaves
  <2>3. QED
    BY <1>1, <2>1, <2>2 DEF Leaves
<1>2. ASSUME NEW t \in Turns, turn'[t].phase = "created" PROVE turn'[t].chunks = 0
  <2>1. turn[t].phase \in {"created", "queued"}
    BY <1>2, StepLeaves DEF Leaves, StartTurn
  <2>2. turn[t].chunks = 0
    BY <2>1 DEF PhaseInv, FreshInv
  <2>3. QED
    BY <2>1, <2>2, StepMoves, DeltaAdds DEF TurnsMove, SaysFrom
<1>3. QED
  BY <1>1, <1>2 DEF PhaseInv

\* Only a turn that has not begun starts, and it becomes active.
LEMMA StartActs ==
    ASSUME TypeOK, NEW s \in Turns, StartTurn(s)
    PROVE  /\ turn[s].phase = "queued" /\ Active(turn', s) /\ agentTask' = s
           /\ handler = "starting" /\ ~aborted' /\ link' = link /\ image' = 0
<1>1. PICK met \in SUBSET Marks : turn'[s] = Started(turn[s], met)
  BY DEF StartTurn, Started, Marks
<1>2. Active(turn', s)
  BY <1>1, TurnFields DEF TypeOK, Active
<1>3. QED
  BY <1>2 DEF StartTurn

\* A turn that is active and alone after a step was so before, unless it starts.
LEMMA ActiveBefore ==
    ASSUME TypeOK, [Next]_vars, NEW t \in Turns, Active(turn', t), ~Joined(turn', t), ~StartTurn(t)
    PROVE  Active(turn, t) /\ ~Joined(turn, t) /\ ~(\E s \in Turns : StartTurn(s))
<1>1. Active(turn, t) /\ ~Joined(turn, t)
  BY StepMoves DEF TurnsMove, ActiveFrom, Grows, Joined
<1>2. QED
  BY <1>1, StartActs, StartJoins

\* agent_task ends with an abort, and with the handler.
LEMMA TaskEnds ==
    ASSUME TypeOK, LoopInv, agentTask \in Turns, ReceiveAbort \/ Close
    PROVE  /\ turn'[agentTask].phase = "ended"
           /\ turn[agentTask].phase # "ended" /\ Close => "cut" \in turn'[agentTask].marks
<1>1. turn[agentTask] \in Turn /\ turn[agentTask].phase \in Phase
  BY DEF TypeOK, Turn
<1>2. turn[agentTask].phase \notin {"none", "queued"}
  BY ChatAssumption DEF LoopInv
<1>3. CASE agentTask \in Running
  <2>1. CASE ReceiveAbort
    <3>1. turn'[agentTask] = Storing(turn[agentTask], "ended", NoRow)
      BY <1>3, <2>1 DEF ReceiveAbort, Storing
    <3>2. turn'[agentTask].phase = "ended" /\ turn'[agentTask].marks = turn[agentTask].marks
      BY <1>1, <3>1, TurnFields
    <3>3. ~Close
      <4>1. link' = link /\ link = "open"
        BY <2>1 DEF ReceiveAbort, Receiving
      <4>2. QED
        BY <4>1 DEF Close
    <3>4. QED
      BY <3>2, <3>3
  <2>2. CASE Close
    <3>1. turn'[agentTask] = Cut(turn[agentTask])
      BY <1>3, <2>2 DEF Close, Cut
    <3>2. QED
      BY <1>1, <3>1, TurnFields
  <2>3. QED
    BY <2>1, <2>2
<1>4. CASE agentTask \notin Running
  <2>1. turn[agentTask].phase = "ended"
    BY <1>1, <1>2, <1>4 DEF Running, Alive, Phase
  <2>2. turn'[agentTask] = turn[agentTask]
    BY <1>4 DEF ReceiveAbort, Close
  <2>3. QED
    BY <2>1, <2>2
<1>5. QED
  BY <1>3, <1>4

LEMMA KeepLoop ==
    ASSUME TypeOK, HomeInv, LoopInv, [Next]_vars
    PROVE  LoopInv'
<1>1. handler' = "starting" => link' = "open"
  BY StepLoop DEF LoopInv, Receiving
<1>2. ASSUME agentTask' # NoTurn PROVE turn'[agentTask'].phase \notin {"none", "queued"}
  <2>1. CASE agentTask' = agentTask
    <3>1. agentTask \in Turns /\ turn[agentTask].phase \notin {"none", "queued"}
      BY <1>2, <2>1 DEF TypeOK, LoopInv
    <3>2. QED
      BY <2>1, <3>1, StepMoves DEF TurnsMove, FreshFrom
  <2>2. CASE agentTask' = NoTurn
    BY <1>2, <2>2
  <2>3. ASSUME NEW s \in Turns, StartTurn(s) PROVE turn'[agentTask'].phase \notin {"none", "queued"}
    BY <2>3, StartActs DEF Active
  <2>4. QED
    BY <2>1, <2>2, <2>3, StepLoop DEF ReapTurn, FinishAbort
<1>3. ASSUME handler' = "aborting", agentTask' # NoTurn PROVE turn'[agentTask'].phase = "ended"
  <2>1. CASE handler = "aborting" /\ agentTask' = agentTask
    <3>1. agentTask \in Turns /\ turn[agentTask].phase = "ended"
      BY <1>3, <2>1 DEF TypeOK, LoopInv
    <3>2. QED
      BY <2>1, <3>1, StepLeaves DEF Leaves
  <2>2. CASE ReceiveAbort
    <3>1. agentTask' = agentTask /\ agentTask \in Turns
      BY <1>3, <2>2 DEF ReceiveAbort, TypeOK
    <3>2. QED
      BY <2>2, <3>1, TaskEnds
  <2>3. QED
    BY <1>3, <2>1, <2>2, StepLoop
<1>4. ASSUME NEW t \in Turns, Active(turn', t), ~Joined(turn', t)
      PROVE  agentTask' = t /\ link' = "open" /\ ~aborted'
  <2>1. CASE StartTurn(t)
    BY <2>1, StartActs DEF LoopInv
  <2>2. CASE ~StartTurn(t)
    <3>1. /\ Active(turn, t) /\ ~(\E s \in Turns : StartTurn(s))
          /\ agentTask = t /\ link = "open" /\ ~aborted
      BY <1>4, <2>2, ActiveBefore DEF LoopInv
    <3>2. t # NoTurn /\ turn[t].phase # "ended" /\ turn'[t].phase # "ended"
      BY <1>4, <3>1, ChatAssumption DEF Active
    <3>3. ~ReceiveAbort /\ ~Close
      BY <3>1, <3>2, TaskEnds
    <3>4. ~ReapTurn /\ ~FinishAbort
      BY <3>1, <3>2 DEF ReapTurn, FinishAbort, LoopInv
    <3>5. QED
      BY <3>1, <3>3, <3>4, StepLoop
  <2>3. QED
    BY <2>1, <2>2
<1>5. QED
  BY <1>1, <1>2, <1>3, <1>4 DEF LoopInv, Active, Joined

\* What a turn that is over said is what it had said.
LEMMA OverSays ==
    ASSUME TypeOK, HomeInv, [Next]_vars, NEW t \in Turns, Over(turn, t)
    PROVE  Over(turn', t) /\ turn'[t].chunks = turn[t].chunks
<1>1. TurnsMove /\ TypeOK'
  BY StepMoves, StepTypes
<1>2. turn'[t].phase \in Phase
  BY <1>1 DEF TypeOK, Turn
<1>3. turn'[t].phase \notin {"none", "queued"}
  BY <1>1 DEF TurnsMove, FreshFrom, Over
<1>4. ~Active(turn', t)
  BY <1>1, StartActs DEF TurnsMove, ActiveFrom, Over, Active
<1>5. Over(turn', t)
  BY <1>2, <1>3, <1>4 DEF Over, Active, Phase
<1>6. turn'[t].chunks = turn[t].chunks
  BY <1>1, DeltaAdds DEF TurnsMove, SaysFrom, Over
<1>7. QED
  BY <1>5, <1>6

\* The text of a turn that is over, or that is alone, stays its text until the next
\* turn starts.
LEMMA TextStays ==
    ASSUME TypeOK, [Next]_vars, NEW t \in Turns, text = Whole(t),
           ~(\E s \in Turns : StartTurn(s)), \A u \in Turns : Active(turn, u) => u = t
    PROVE  text' = [i \in 1..turn'[t].chunks |-> t]
<1>1. CASE Delta(t)
  <2>1. text' = Append(text, t) /\ turn'[t].chunks = turn[t].chunks + 1 /\ turn[t].chunks \in Nat
    BY <1>1, DeltaAdds DEF TypeOK, Turn
  <2>2. QED
    BY <2>1, WholeGrows DEF Whole
<1>2. CASE ~Delta(t)
  <2>1. \A u \in Turns : ~Delta(u)
    BY <1>2, DeltaAdds
  <2>2. text' = text
    BY <2>1, StepText
  <2>3. turn'[t].chunks = turn[t].chunks
    BY <1>2, StepMoves DEF TurnsMove, SaysFrom
  <2>4. QED
    BY <2>2, <2>3 DEF Whole
<1>3. QED
  BY <1>1, <1>2

\* The current image stays that of the turn whose text it is.
LEMMA OwnImageStays ==
    ASSUME TypeOK, [Next]_vars, NEW t \in Turns, OwnImage(t), ~(\E s \in Turns : StartTurn(s))
    PROVE  /\ text' = [i \in 1..turn'[t].chunks |-> t]
           /\ turn'[t].phase \notin {"none", "queued"}
           /\ \A u \in Turns : Active(turn', u) => u = t
<1>1. text' = [i \in 1..turn'[t].chunks |-> t]
  BY TextStays DEF OwnImage
<1>2. QED
  BY <1>1, AloneKept, StepMoves DEF OwnImage, TurnsMove, FreshFrom

\* "done" says nothing more, and leaves a row to store.
LEMMA DoneFields ==
    ASSUME TypeOK, NEW t \in Turns, Done(t)
    PROVE  /\ turn'[t].chunks = turn[t].chunks
           /\ turn'[t].phase \in {"ended", "answering"}
           /\ turn[t].phase = "running" /\ Active(turn, t)
<1>1. turn[t] \in Turn /\ turn[t].phase = "running"
  BY DEF TypeOK, Done, Emits
<1>2. \/ turn' = [turn EXCEPT ![t] = ToldOnly(turn[t], "ended", "done")]
      \/ turn' = [turn EXCEPT ![t] = Telling(turn[t], "answering", "done", TextRow("answer", t, 0))]
  BY DEF Done, ToldOnly, Telling
<1>3. \/ turn'[t] = ToldOnly(turn[t], "ended", "done")
      \/ turn'[t] = Telling(turn[t], "answering", "done", TextRow("answer", t, 0))
  BY <1>2 DEF TypeOK
<1>4. QED
  BY <1>1, <1>3, TurnFields DEF Active

LEMMA KeepCaptions ==
    ASSUME TypeOK, HomeInv, CaptionInv, [Next]_vars,
           NEW m \in ImagesOf(stored', turn'), NEW t \in Turns, InText(m.text, t), ~Joined(turn', t)
    PROVE  m.by = t
<1>1. ~Joined(turn, t)
  BY StepMoves DEF TurnsMove, Grows, Joined
<1>2. CASE m \in Images
  BY <1>1, <1>2 DEF CaptionInv
<1>3. ASSUME NEW r \in Row, Pending(r), m \in StoredWith(r), m \notin stored, m.kind = "image"
      PROVE  m.by = t
  <2>1. CASE r.kind = "caption"
    <3>1. PICK i \in ImageOf(r) : m = Captioned(i, r)
      BY <1>3, <2>1 DEF StoredWith, Captioned
    <3>2. i \in Images /\ i \in StoredRow /\ i.nth = r.nth
      BY DEF ImageOf, Images, ImagesOf, TypeOK
    <3>3. m.by = i.by /\ m.text = r.text
      BY <3>1, <3>2, CaptionedFields
    <3>4. CaptionHome(r, turn, Images, events)
      BY <1>3, <2>1 DEF Pending, HomeInv, WaitingHome, DraftHome, ReadyHome
    <3>5. QED
      BY <1>1, <3>2, <3>3, <3>4 DEF CaptionHome
  <2>2. CASE r.kind # "caption"
    <3>1. m = r
      BY <1>3, <2>2 DEF StoredWith
    <3>2. PICK u \in Turns : Waits(turn, u) /\ r = turn[u].row
      BY <1>3, <3>1 DEF Pending, HomeInv, DraftHome
    <3>3. m \in Images
      BY <1>3, <3>1, <3>2 DEF Images, ImagesOf
    <3>4. QED
      BY <1>2, <3>3
  <2>3. QED
    BY <2>1, <2>2
<1>4. CASE m \in stored' /\ m.kind = "image"
  <2>1. Comes(m)
    BY <1>4, StepRows
  <2>2. ~(\E c \in Convs, u \in Turns : m = UserRow(c, u))
    BY <1>4 DEF UserRow
  <2>3. m \in stored => m \in Images
    BY <1>4 DEF Images, ImagesOf
  <2>4. QED
    BY <1>2, <1>3, <1>4, <2>1, <2>2, <2>3 DEF Comes
<1>5. ASSUME NEW u \in Turns, Waits(turn', u), turn'[u].row.kind = "image", m = turn'[u].row
      PROVE  m.by = t
  <2>1. RowFrom(u)
    BY StepMoves DEF TurnsMove
  <2>2. CASE Waits(turn, u) /\ turn'[u].row = turn[u].row
    <3>1. m \in Images
      BY <1>5, <2>2 DEF Images, ImagesOf
    <3>2. QED
      BY <1>2, <3>1
  <2>3. m \notin {PlainRow("step", u, 0), PlainRow("ocr", u, 0), PlainRow("error", u, 0),
               TextRow("answer", u, 0)}
    BY <1>5 DEF PlainRow, TextRow
  <2>4. m # PlainRow("image", u, events + 1)
    <3>1. PlainRow("image", u, events + 1).text = <<>>
      BY DEF PlainRow
    <3>2. QED
      BY <3>1, NoText
  <2>5. QED
    BY <1>5, <2>1, <2>2, <2>3, <2>4 DEF RowFrom
<1>6. QED
  BY <1>4, <1>5 DEF ImagesOf

LEMMA KeepOwnImage ==
    ASSUME TypeOK, HomeInv, TalkInv, CaptionInv, [Next]_vars, image' # 0,
           NEW i \in ImagesOf(stored', turn'), i.nth = image', ~Joined(turn', i.by)
    PROVE  /\ i.by \in Turns
           /\ text' = [k \in 1..turn'[i.by].chunks |-> i.by]
           /\ turn'[i.by].phase \notin {"none", "queued"}
           /\ \A u \in Turns : Active(turn', u) => u = i.by
<1>1. ~(\E s \in Turns : StartTurn(s))
  BY StepText
<1>2. ASSUME NEW t \in Turns, i.by = t, OwnImage(t)
      PROVE  /\ i.by \in Turns
             /\ text' = [k \in 1..turn'[i.by].chunks |-> i.by]
             /\ turn'[i.by].phase \notin {"none", "queued"}
             /\ \A u \in Turns : Active(turn', u) => u = i.by
  BY <1>1, <1>2, OwnImageStays
<1>3. events \in Nat /\ image \in Nat /\ ImageInv
  BY StepImages DEF HomeInv, TypeOK
<1>4. Grows(turn, turn')
  BY StepMoves DEF TurnsMove
<1>5. ASSUME image' <= events PROVE \E j \in Images : j.nth = i.nth /\ j.by = i.by
  BY <1>3, <1>5, StepImages DEF NewImage
<1>6. CASE image' = image
  <2>1. PICK j \in Images : j.nth = i.nth /\ j.by = i.by
    BY <1>3, <1>5, <1>6 DEF ImageInv
  <2>2. i.by \in Turns
    BY <1>3, <2>1 DEF ImageInv
  <2>3. ~Joined(turn, i.by)
    BY <1>4, <2>2 DEF Grows, Joined
  <2>4. OwnImage(i.by)
    BY <1>6, <2>1, <2>3 DEF CaptionInv
  <2>5. QED
    BY <1>2, <2>2, <2>4
<1>7. ASSUME NEW t \in Turns, SaveRow(t), turn[t].row.kind = "image", image' = turn[t].row.nth
      PROVE  /\ i.by \in Turns
             /\ text' = [k \in 1..turn'[i.by].chunks |-> i.by]
             /\ turn'[i.by].phase \notin {"none", "queued"}
             /\ \A u \in Turns : Active(turn', u) => u = i.by
  <2>1. Waits(turn, t) /\ turn[t].row \in Images
    BY <1>7 DEF SaveRow, Waits, Images, ImagesOf
  <2>2. turn[t].row.by = t /\ turn[t].phase = "saving"
    BY <1>7, <2>1 DEF HomeInv, WaitingHome, Payloads
  <2>3. PICK j \in Images : j.nth = i.nth /\ j.by = i.by
    BY <1>3, <1>5, <1>7, <2>1 DEF ImageInv
  <2>4. i.by = t
    BY <1>3, <1>7, <2>1, <2>2, <2>3 DEF ImageInv
  <2>5. ~Joined(turn, t) /\ Active(turn, t)
    BY <1>4, <2>2, <2>4 DEF Grows, Joined, Active
  <2>6. OwnImage(t)
    BY <2>2, <2>5 DEF OwnImage, TalkInv, HomeInv, AloneInv, Alone
  <2>7. QED
    BY <1>2, <2>4, <2>6
<1>8. QED
  BY <1>6, <1>7, StepImage

LEMMA KeepPending ==
    ASSUME TypeOK, HomeInv, CaptionInv, LoopInv, [Next]_vars,
           NEW r \in Row, Pending(r)', r.kind = "caption",
           NEW i \in ImagesOf(stored', turn'), i.nth = r.nth, ~Joined(turn', i.by)
    PROVE  /\ r.text = [k \in 1..turn'[i.by].chunks |-> i.by]
           /\ Over(turn', i.by)
<1>1. events \in Nat /\ image \in Nat /\ ImageInv
  BY StepImages DEF HomeInv, TypeOK
<1>2. Grows(turn, turn')
  BY StepMoves DEF TurnsMove
<1>3. ASSUME r.nth <= events
      PROVE  \E j \in Images : j.nth = r.nth /\ j.by = i.by /\ i.by \in Turns /\ ~Joined(turn, i.by)
  <2>1. PICK j \in Images : j.nth = i.nth /\ j.by = i.by
    BY <1>1, <1>3, StepImages DEF NewImage
  <2>2. i.by \in Turns
    BY <1>1, <2>1 DEF ImageInv
  <2>3. QED
    BY <1>2, <2>1, <2>2 DEF Grows, Joined
<1>4. CASE Pending(r)
  <2>1. r.nth <= events
    BY <1>4 DEF Pending, HomeInv, WaitingHome, DraftHome, ReadyHome, CaptionHome
  <2>2. PICK j \in Images : j.nth = r.nth /\ j.by = i.by /\ i.by \in Turns /\ ~Joined(turn, i.by)
    BY <1>3, <2>1
  <2>3. r.text = Whole(i.by) /\ Over(turn, i.by)
    BY <1>4, <2>2 DEF CaptionInv
  <2>4. QED
    BY <2>2, <2>3, OverSays DEF Whole
<1>5. ASSUME image # 0, r.nth = image
      PROVE  i.by \in Turns /\ ~Joined(turn, i.by) /\ OwnImage(i.by)
  BY <1>1, <1>3, <1>5 DEF ImageInv, CaptionInv
<1>6. ASSUME NEW u \in Turns, Done(u), r = TextRow("answer", u, 0), Waits(turn', u)
      PROVE  r.text = [k \in 1..turn'[i.by].chunks |-> i.by] /\ Over(turn', i.by)
  <2>1. image # 0 /\ r.nth = image /\ r.text = text
    BY <1>6 DEF TextRow
  <2>2. OwnImage(i.by)
    BY <1>5, <2>1
  <2>3. u = i.by
    BY <1>6, <2>2, DoneFields DEF OwnImage
  <2>4. QED
    BY <1>6, <2>1, <2>2, <2>3, DoneFields DEF OwnImage, Over, Whole
<1>7. ASSUME ReceiveAbort, draft' # NoRow, r = draft'
      PROVE  r.text = [k \in 1..turn'[i.by].chunks |-> i.by] /\ Over(turn', i.by)
  <2>1. image # 0 /\ r.nth = image /\ r.text = text
    BY <1>7 DEF ReceiveAbort, AbortRow, TextRow
  <2>2. i.by \in Turns /\ ~Joined(turn, i.by) /\ OwnImage(i.by)
    BY <1>5, <2>1
  <2>3. ~Delta(i.by)
    BY <1>7 DEF ReceiveAbort, Delta, Receiving
  <2>4. turn'[i.by].chunks = turn[i.by].chunks
    BY <2>2, <2>3, StepMoves DEF TurnsMove, SaysFrom
  <2>5. Over(turn', i.by)
    <3>1. CASE Active(turn, i.by)
      <4>1. agentTask = i.by
        BY <2>2, <3>1 DEF LoopInv
      <4>2. QED
        BY <1>7, <2>2, <4>1, TaskEnds DEF Over
    <3>2. CASE ~Active(turn, i.by)
      <4>1. Over(turn, i.by)
        BY <2>2, <3>2 DEF OwnImage, Over, Active, TypeOK, Turn, Phase
      <4>2. QED
        BY <2>2, <4>1, OverSays
    <3>3. QED
      BY <3>1, <3>2
  <2>6. QED
    BY <2>1, <2>2, <2>4, <2>5 DEF OwnImage, Whole
<1>8. ASSUME NEW u \in Turns, Waits(turn', u), r = turn'[u].row
      PROVE  r.text = [k \in 1..turn'[i.by].chunks |-> i.by] /\ Over(turn', i.by)
  <2>1. RowFrom(u)
    BY StepMoves DEF TurnsMove
  <2>2. r \notin {PlainRow("step", u, 0), PlainRow("ocr", u, 0), PlainRow("error", u, 0),
               PlainRow("image", u, events + 1)}
    BY DEF PlainRow
  <2>3. Waits(turn, u) /\ turn'[u].row = turn[u].row => Pending(r)
    BY <1>8 DEF Pending
  <2>4. QED
    BY <1>4, <1>6, <1>8, <2>1, <2>2, <2>3 DEF RowFrom
<1>9. ASSUME draft' # NoRow, r = draft'
      PROVE  r.text = [k \in 1..turn'[i.by].chunks |-> i.by] /\ Over(turn', i.by)
  <2>1. draft' = draft => Pending(r)
    BY <1>9 DEF Pending
  <2>2. QED
    BY <1>4, <1>7, <1>9, <2>1, StepLoop
<1>10. QED
  BY <1>8, <1>9 DEF Pending, Waits

LEMMA KeepCaption ==
    ASSUME TypeOK, HomeInv, TalkInv, LoopInv, CaptionInv, [Next]_vars
    PROVE  CaptionInv'
<1>1. \A m \in ImagesOf(stored', turn'), t \in Turns :
        InText(m.text, t) /\ ~Joined(turn', t) => m.by = t
  BY KeepCaptions
<1>2. image' # 0 =>
        \A i \in ImagesOf(stored', turn') : i.nth = image' /\ ~Joined(turn', i.by) =>
             /\ text' = [k \in 1..turn'[i.by].chunks |-> i.by]
             /\ turn'[i.by].phase \notin {"none", "queued"}
             /\ \A u \in Turns : Active(turn', u) => u = i.by
  BY KeepOwnImage
<1>3. \A r \in Row, i \in ImagesOf(stored', turn') :
         Pending(r)' /\ r.kind = "caption" /\ i.nth = r.nth /\ ~Joined(turn', i.by) =>
             r.text = [k \in 1..turn'[i.by].chunks |-> i.by] /\ Over(turn', i.by)
  BY KeepPending
<1>4. QED
  BY <1>1, <1>2, <1>3 DEF CaptionInv, Images, OwnImage, Whole, Over, Active, Joined

\* A turn nothing happened to was not disturbed before either.
LEMMA UnmarkedBefore ==
    ASSUME TypeOK, [Next]_vars, NEW t \in Turns, turn'[t].marks = {}
    PROVE  /\ turn[t].marks = {}
           /\ ~Moved(turn, t) /\ ~Joined(turn, t) /\ ~Erased(turn, t)
           /\ ~Moved(turn', t) /\ ~Joined(turn', t) /\ ~Erased(turn', t)
<1>1. turn[t].marks \subseteq turn'[t].marks
  BY StepMoves DEF TurnsMove, Grows
<1>2. QED
  BY <1>1 DEF Moved, Joined, Erased

\* Text that a turn alone has in the event state.
LEMMA OwnTextIn ==
    ASSUME NEW t \in Turns, NEW s, turn[t].chunks > 0, turn[t].chunks \in Nat, s = Whole(t)
    PROVE  InText(s, t) /\ s # <<>>
<1>1. 1 \in 1..turn[t].chunks
  OBVIOUS
<1>2. 1 \in DOMAIN s /\ s[1] = t
  BY <1>1 DEF Whole
<1>3. QED
  BY <1>2 DEF InText

\* agent_task alone has the text and the image.
LEMMA OwnAlone ==
    ASSUME TypeOK, HomeInv, TalkInv, OwnInv, NEW t \in Turns, agentTask = t, turn[t].marks = {},
           Active(turn, t) \/ turn[t].phase = "answering"
    PROVE  /\ text = Whole(t)
           /\ Alone(turn, text, t)
           /\ turn[t].phase = "answering" => turn[t].chunks > 0
           /\ image # 0 => \E i \in stored : i.kind = "image" /\ i.nth = image /\ i.by = t
<1>1. ~Joined(turn, t) /\ turn[t].chunks \in Nat
  BY DEF Joined, TypeOK, Turn
<1>2. CASE Active(turn, t)
  <2>1. text = Whole(t) /\ Alone(turn, text, t) /\ turn[t].phase # "answering"
    BY <1>1, <1>2 DEF TalkInv, Alone, Active
  <2>2. QED
    BY <1>2, <2>1 DEF OwnInv, HomeInv, ImageInv, Images, ImagesOf
<1>3. CASE turn[t].phase = "answering"
  <2>1. text = Whole(t) /\ turn[t].chunks > 0
    BY <1>3 DEF OwnInv
  <2>2. Alone(turn, text, t)
    BY <1>1, <2>1, OwnTextIn DEF Alone
  <2>3. QED
    BY <1>3, <2>1, <2>2 DEF OwnInv, HomeInv, ImageInv, Images, ImagesOf
<1>4. QED
  BY <1>2, <1>3

LEMMA KeepOwn ==
    ASSUME TypeOK, HomeInv, TalkInv, LoopInv, OwnInv, [Next]_vars
    PROVE  OwnInv'
<1>1. ASSUME NEW t \in Turns, agentTask' = t, turn'[t].marks = {}, turn'[t].phase = "answering"
      PROVE  text' = [i \in 1..turn'[t].chunks |-> t] /\ turn'[t].chunks > 0
  <2>1. turn[t].marks = {} /\ ~Joined(turn, t) /\ turn[t].chunks \in Nat
    BY <1>1, UnmarkedBefore DEF TypeOK, Turn
  <2>2. t # NoTurn
    BY ChatAssumption
  <2>3. ASSUME NEW s \in Turns, StartTurn(s) PROVE FALSE
    BY <1>1, <2>3, StartActs DEF Active
  <2>4. agentTask = t
    BY <1>1, <2>2, <2>3, StepLoop DEF ReapTurn, FinishAbort
  <2>5. CASE turn[t].phase = "answering"
    <3>1. text = Whole(t) /\ turn[t].chunks > 0 /\ Alone(turn, text, t)
      BY <2>1, <2>4, <2>5, OwnAlone
    <3>2. \A u \in Turns : Active(turn, u) => u = t
      BY <3>1 DEF HomeInv, AloneInv
    <3>3. turn'[t].chunks = turn[t].chunks
      BY <2>5, OverSays DEF Over
    <3>4. QED
      BY <2>3, <3>1, <3>2, <3>3, TextStays
  <2>6. CASE Done(t) /\ text # <<>>
    <3>1. Active(turn, t) /\ turn'[t].chunks = turn[t].chunks
      BY <2>6, DoneFields
    <3>2. text = Whole(t)
      BY <2>1, <3>1 DEF TalkInv
    <3>3. turn[t].chunks > 0
      <4>1. SUFFICES ASSUME turn[t].chunks = 0 PROVE FALSE
        BY <2>1
      <4>2. QED
        BY <2>6, <3>2, <4>1 DEF Whole
    <3>4. text' = text
      BY <2>6 DEF Done
    <3>5. QED
      BY <3>1, <3>2, <3>3, <3>4 DEF Whole
  <2>7. QED
    BY <1>1, <2>5, <2>6, StepLeaves DEF Leaves
<1>2. ASSUME NEW t \in Turns, agentTask' = t, turn'[t].marks = {},
             Active(turn', t) \/ turn'[t].phase = "answering", image' # 0
      PROVE  \E i \in stored' : i.kind = "image" /\ i.nth = image'
  <2>1. /\ turn[t].marks = {} /\ ~Moved(turn, t) /\ ~Joined(turn, t)
        /\ ~Joined(turn', t) /\ ~Erased(turn', t)
    BY <1>2, UnmarkedBefore
  <2>2. t # NoTurn /\ ~(\E s \in Turns : StartTurn(s))
    BY <1>2, StartActs, ChatAssumption
  <2>3. agentTask = t
    BY <1>2, <2>2, StepLoop DEF ReapTurn, FinishAbort
  <2>4. Active(turn, t) \/ turn[t].phase = "answering"
    <3>1. CASE Active(turn', t)
      BY <2>1, <2>2, <3>1, ActiveBefore
    <3>2. CASE turn'[t].phase = "answering"
      BY <3>2, StepLeaves, DoneFields DEF Leaves
    <3>3. QED
      BY <1>2, <3>1, <3>2
  <2>5. CASE image' = image
    <3>1. PICK i \in stored : i.kind = "image" /\ i.nth = image /\ i.by = t
      BY <1>2, <2>1, <2>3, <2>4, <2>5, OwnAlone
    <3>2. QED
      BY <2>1, <2>5, <3>1, ImageStays
  <2>6. ASSUME NEW u \in Turns, SaveRow(u), turn[u].row.kind = "image", image' = turn[u].row.nth
        PROVE  \E i \in stored' : i.kind = "image" /\ i.nth = image'
    <3>1. turn[u].row \in stored'
      BY <2>6 DEF SaveRow, StoredWith
    <3>2. QED
      BY <2>6, <3>1
  <2>7. QED
    BY <1>2, <2>5, <2>6, StepImage
<1>3. QED
  BY <1>1, <1>2 DEF OwnInv, Active, Whole

\* The row of a turn alone can be stored.
LEMMA OwnRow ==
    ASSUME TypeOK, HomeInv, TalkInv, PresentInv, OwnInv, NEW t \in Turns, agentTask = t,
           turn[t].marks = {}, Active(turn, t) \/ turn[t].phase = "answering",
           NEW kind \in {"answer", "partial"}, NEW n
    PROVE  /\ CanStore(TextRow(kind, t, n)) /\ TextRow(kind, t, n).text = Whole(t)
           /\ conv # NoConv
<1>1. /\ text = Whole(t)
      /\ image # 0 => \E i \in stored : i.kind = "image" /\ i.nth = image
  BY OwnAlone
<1>2. Begun(turn, t) /\ ~Moved(turn, t) /\ ~Erased(turn, t)
  BY DEF Begun, Moved, Erased, Active
<1>3. conv = turn[t].home /\ conv \in Convs /\ existing[conv] = "present"
  BY <1>2 DEF HomeInv, BoundHome, PresentInv
<1>4. CASE image # 0
  BY <1>1, <1>3, <1>4, ChatAssumption DEF TextRow, CanStore, ImageOf
<1>5. CASE image = 0
  BY <1>1, <1>3, <1>5, ChatAssumption DEF TextRow, CanStore
<1>6. QED
  BY <1>4, <1>5

LEMMA KeepAnswering ==
    ASSUME TypeOK, HomeInv, TalkInv, LoopInv, PresentInv, OwnInv, KeptInv, [Next]_vars,
           NEW t \in Turns, turn'[t].marks = {}, turn'[t].chunks > 0, turn[t].told # "error",
           turn'[t].phase = "answering"
    PROVE  \E r \in Row : /\ turn'[t].row = r /\ r.text = [i \in 1..turn'[t].chunks |-> t]
                          /\ CanStore(r)'
<1>1. /\ turn[t].marks = {} /\ ~Moved(turn, t) /\ ~Joined(turn, t)
      /\ ~Erased(turn', t) /\ turn[t].chunks \in Nat
  BY UnmarkedBefore DEF TypeOK, Turn
<1>2. CASE turn[t].phase = "answering" /\ turn'[t].row = turn[t].row
  <2>1. turn'[t].chunks = turn[t].chunks
    BY <1>2, OverSays DEF Over
  <2>2. PICK r \in Row : r = turn[t].row
    BY DEF TypeOK, Turn
  <2>3. r.text = Whole(t) /\ CanStore(r)
    BY <1>1, <1>2, <2>1, <2>2 DEF KeptInv, Owed
  <2>4. ReadyHome(r, turn, Images, events)
    BY <1>2, <2>2 DEF HomeInv, WaitingHome, Waits, Awaiting
  <2>5. InText(r.text, t)
    BY <1>1, <2>1, <2>3, OwnTextIn
  <2>6. CanStore(r)'
    BY <1>1, <2>3, <2>4, <2>5, CanStoreStays
  <2>7. QED
    BY <1>2, <2>1, <2>2, <2>3, <2>6 DEF Whole
<1>3. CASE Done(t) /\ turn'[t].row = TextRow("answer", t, 0)
  <2>1. Active(turn, t) /\ turn'[t].chunks = turn[t].chunks
    BY <1>3, DoneFields
  <2>2. agentTask = t
    BY <1>1, <2>1 DEF LoopInv
  <2>3. PICK r \in Row : r = TextRow("answer", t, 0)
    BY RowTypes DEF Kind
  <2>4. r.text = Whole(t) /\ CanStore(r)
    BY <1>1, <2>1, <2>2, <2>3, OwnRow
  <2>5. stored' = stored /\ existing' = existing
    BY <1>3 DEF Done, dbVars
  <2>6. CanStore(r)'
    BY <2>4, <2>5 DEF CanStore, ImageOf
  <2>7. QED
    BY <1>3, <2>1, <2>3, <2>4, <2>6 DEF Whole
<1>4. QED
  BY <1>2, <1>3, StepLeaves DEF Leaves

\* What stays to store, or is stored, of a turn that is over.
KeptNow(t) ==
    \/ \E m \in stored' : m.text = [i \in 1..turn'[t].chunks |-> t]
    \/ \E r \in Row : /\ handler' = "aborting" /\ draft' # NoRow /\ draft' = r
                      /\ r.text = [i \in 1..turn'[t].chunks |-> t] /\ CanStore(r)'

LEMMA KeepEnded ==
    ASSUME TypeOK, HomeInv, PresentInv, CaptionInv, KeptInv, [Next]_vars,
           NEW t \in Turns, turn'[t].marks = {}, turn'[t].chunks > 0, turn[t].told # "error",
           turn[t].phase = "ended"
    PROVE  KeptNow(t)
<1>1. /\ turn[t].marks = {} /\ ~Moved(turn, t) /\ ~Joined(turn, t)
      /\ ~Erased(turn', t) /\ turn[t].chunks \in Nat /\ turn'[t].chunks = turn[t].chunks
  BY UnmarkedBefore, OverSays DEF TypeOK, Turn, Over
<1>2. CASE Kept(t)
  BY <1>1, <1>2, KeptStays DEF KeptNow, Whole
<1>3. CASE handler = "aborting" /\ draft # NoRow /\ draft.text = Whole(t) /\ CanStore(draft)
  <2>1. PICK r \in Row : r = draft
    BY DEF TypeOK
  <2>2. CASE FinishAbort
    <3>1. stored' = StoredWith(r)
      BY <1>3, <2>1, <2>2 DEF FinishAbort
    <3>2. \E m \in StoredWith(r) : m.text = r.text
      BY <1>3, <2>1, StoredText
    <3>3. QED
      BY <1>1, <1>3, <2>1, <3>1, <3>2 DEF KeptNow, Whole
  <2>3. CASE handler' = "aborting" /\ draft' = draft
    <3>1. ReadyHome(r, turn, Images, events)
      BY <1>3, <2>1 DEF HomeInv, DraftHome
    <3>2. InText(r.text, t)
      BY <1>1, <1>3, <2>1, OwnTextIn
    <3>3. CanStore(r)'
      BY <1>1, <1>3, <2>1, <3>1, <3>2, CanStoreStays
    <3>4. QED
      BY <1>1, <1>3, <2>1, <2>3, <3>3 DEF KeptNow, Whole
  <2>4. ~FinishAbortFails
    BY <1>3 DEF FinishAbortFails
  <2>5. QED
    BY <1>3, <2>2, <2>3, <2>4, StepLoop
<1>4. QED
  BY <1>1, <1>2, <1>3 DEF KeptInv, Owed

LEMMA KeepEnding ==
    ASSUME TypeOK, HomeInv, WholeInv, LoopInv, PhaseInv, PresentInv, CaptionInv, OwnInv, KeptInv,
           [Next]_vars,
           NEW t \in Turns, turn'[t].marks = {}, turn'[t].chunks > 0, turn[t].told # "error",
           turn'[t].phase = "ended", turn[t].phase # "ended"
    PROVE  KeptNow(t)
<1>1. /\ turn[t].marks = {} /\ ~Moved(turn, t) /\ ~Joined(turn, t)
      /\ ~Erased(turn', t) /\ turn[t].chunks \in Nat
  BY UnmarkedBefore DEF TypeOK, Turn
<1>2. turn[t].phase # "failing"
  BY DEF PhaseInv
<1>3. Active(turn, t) => agentTask = t /\ link = "open" /\ ~aborted
  BY <1>1 DEF LoopInv
<1>4. ~Delta(t)
  <2>1. ASSUME Delta(t) PROVE FALSE
    <3>1. turn' = [turn EXCEPT ![t] = Longer(turn[t])] /\ turn[t].phase = "running"
      BY <2>1 DEF Delta, Longer
    <3>2. turn'[t].phase = "running"
      BY <3>1, TurnFields DEF TypeOK
    <3>3. QED
      BY <3>2
  <2>2. QED
    BY <2>1
<1>5. turn'[t].chunks = turn[t].chunks
  BY <1>4, StepMoves DEF TurnsMove, SaysFrom
<1>6. turn[t].phase # "created"
  BY <1>5 DEF PhaseInv
<1>7. ~(Done(t) /\ text = <<>>)
  <2>1. SUFFICES ASSUME Done(t), text = <<>> PROVE FALSE
    OBVIOUS
  <2>2. text = Whole(t)
    BY <1>1, <2>1, DoneFields DEF WholeInv, TalkInv
  <2>3. QED
    BY <1>1, <1>5, <2>1, <2>2, OwnTextIn
<1>8. ~Interrupt(t)
  BY <1>3 DEF Interrupt, Active, Silenced
<1>9. ASSUME SaveRow(t) PROVE KeptNow(t)
  <2>1. turn[t].phase # "saving"
    <3>1. SUFFICES ASSUME turn[t].phase = "saving" PROVE FALSE
      OBVIOUS
    <3>2. link = "open"
      BY <1>3, <3>1 DEF Active
    <3>3. \/ turn' = [turn EXCEPT ![t] = AtRow(turn[t], PlainRow("step", t, 0))]
          \/ turn' = [turn EXCEPT ![t] = Storing(turn[t], "running", NoRow)]
      BY <1>9, <3>1, <3>2 DEF SaveRow, AtRow, Storing
    <3>4. turn'[t].phase \in {"saving", "running"}
      BY <3>1, <3>3, TurnFields DEF TypeOK
    <3>5. QED
      BY <3>4
  <2>2. turn[t].phase = "answering"
    BY <1>2, <1>9, <2>1 DEF SaveRow, Awaiting
  <2>3. PICK r \in Row : r = turn[t].row
    BY DEF TypeOK, Turn
  <2>4. r.text = Whole(t) /\ CanStore(r) /\ stored' = StoredWith(r)
    BY <1>1, <1>5, <1>9, <2>2, <2>3 DEF KeptInv, Owed, SaveRow
  <2>5. \E m \in stored' : m.text = r.text
    BY <2>4, StoredText
  <2>6. QED
    BY <1>5, <2>4, <2>5 DEF KeptNow, Whole
<1>10. ~SaveFails(t)
  <2>1. SUFFICES ASSUME SaveFails(t) PROVE FALSE
    OBVIOUS
  <2>2. turn[t].phase # "answering"
    BY <1>1, <1>5, <2>1 DEF KeptInv, Owed, SaveFails
  <2>3. turn[t].phase = "saving"
    BY <1>2, <2>1, <2>2 DEF SaveFails, Awaiting
  <2>4. turn' = [turn EXCEPT ![t] = Telling(turn[t], "failing", "error", PlainRow("error", t, 0))]
    <3>1. ~Preprocessing(t)
      BY <1>1, <1>5 DEF Preprocessing
    <3>2. QED
      BY <1>3, <2>1, <2>3, <3>1 DEF SaveFails, Telling, Active, Silenced
  <2>5. turn'[t].phase = "failing"
    BY <2>4, TurnFields DEF TypeOK
  <2>6. QED
    BY <2>5
<1>11. ASSUME ReceiveAbort, agentTask = t PROVE KeptNow(t)
  <2>1. Active(turn, t) \/ turn[t].phase = "answering"
    <3>1. t # NoTurn
      BY ChatAssumption
    <3>2. QED
      BY <1>2, <1>11, <3>1 DEF LoopInv, Active, TypeOK, Turn, Phase
  <2>2. aborts + 1 \in Nat
    BY CountTypes
  <2>3. PICK r \in Row : r = TextRow("partial", t, aborts + 1)
    BY <2>2, RowTypes DEF Kind
  <2>4. r.text = Whole(t) /\ CanStore(r) /\ conv # NoConv
    BY <1>1, <1>11, <2>1, <2>3, OwnRow DEF WholeInv
  <2>5. InText(r.text, t) /\ r.text # <<>>
    BY <1>1, <1>5, <2>4, OwnTextIn
  <2>6. text # <<>>
    BY <2>3, <2>5 DEF TextRow
  <2>7. draft' = r /\ handler' = "aborting"
    BY <1>11, <2>3, <2>4, <2>6 DEF ReceiveAbort, AbortRow
  <2>8. draft' # NoRow
    BY <2>5, <2>7 DEF NoRow
  <2>9. ReadyHome(r, turn, Images, events)
    BY <2>3, TextHome DEF HomeInv
  <2>10. CanStore(r)'
    BY <1>1, <2>4, <2>5, <2>9, CanStoreStays
  <2>11. QED
    BY <1>5, <2>4, <2>7, <2>8, <2>10 DEF KeptNow, Whole
<1>12. Leaves(t)
  BY StepLeaves
<1>13. QED
  BY <1>6, <1>7, <1>8, <1>9, <1>10, <1>11, <1>12 DEF Leaves

LEMMA KeepKept ==
    ASSUME TypeOK, HomeInv, WholeInv, ShownInv, [Next]_vars
    PROVE  KeptInv'
<1>0. /\ LoopInv /\ PhaseInv /\ PresentInv /\ CaptionInv /\ OwnInv /\ KeptInv
      /\ TalkInv
  BY DEF ShownInv, WholeInv
<1>1. ASSUME NEW t \in Turns, turn'[t].marks = {}, turn'[t].chunks > 0, turn'[t].told # "error"
      PROVE  turn[t].told # "error"
  <2>1. SUFFICES ASSUME turn[t].told = "error" PROVE FALSE
    OBVIOUS
  <2>2. ~Done(t)
    BY <2>1 DEF WholeInv, OverInv, Done, Emits
  <2>3. QED
    BY <1>1, <2>1, <2>2, StepLeaves DEF Leaves
<1>2. ASSUME NEW t \in Turns, turn'[t].marks = {}, turn'[t].chunks > 0, turn'[t].told # "error"
      PROVE  /\ turn'[t].phase = "answering" =>
                  \E r \in Row : /\ turn'[t].row = r
                                 /\ r.text = [i \in 1..turn'[t].chunks |-> t] /\ CanStore(r)'
             /\ turn'[t].phase = "ended" => KeptNow(t)
  BY <1>0, <1>1, <1>2, KeepAnswering, KeepEnded, KeepEnding
<1>3. ASSUME NEW t \in Turns, Owed(t)', turn'[t].phase = "answering"
      PROVE  turn'[t].row.text = Whole(t)' /\ CanStore(turn[t].row)'
  <2>1. PICK r \in Row : /\ turn'[t].row = r
                         /\ r.text = [i \in 1..turn'[t].chunks |-> t] /\ CanStore(r)'
    BY <1>2, <1>3 DEF Owed
  <2>2. QED
    BY <2>1 DEF Whole, CanStore, ImageOf
<1>4. ASSUME NEW t \in Turns, Owed(t)', turn'[t].phase = "ended"
      PROVE  Kept(t)' \/ (handler' = "aborting" /\ draft' # NoRow
                          /\ draft'.text = Whole(t)' /\ CanStore(draft)')
  <2>1. KeptNow(t)
    BY <1>2, <1>4 DEF Owed
  <2>2. CASE \E m \in stored' : m.text = [i \in 1..turn'[t].chunks |-> t]
    BY <2>2 DEF Kept, Whole
  <2>3. CASE \E r \in Row : /\ handler' = "aborting" /\ draft' # NoRow /\ draft' = r
                      /\ r.text = [i \in 1..turn'[t].chunks |-> t] /\ CanStore(r)'
    <3>1. PICK r \in Row : /\ handler' = "aborting" /\ draft' # NoRow /\ draft' = r
                           /\ r.text = [i \in 1..turn'[t].chunks |-> t] /\ CanStore(r)'
      BY <2>3
    <3>2. QED
      BY <3>1 DEF Whole, CanStore, ImageOf
  <2>4. QED
    BY <2>1, <2>2, <2>3 DEF KeptNow
<1>5. QED
  BY <1>3, <1>4 DEF KeptInv

\* The text of a turn that ends is in a row, waits for one or is what do_abort is
\* about to store, wherever the turn is cancelled.
THEOREM ShownHolds == Spec => []ShownInv
<1>1. Init => ShownInv
  <2> SUFFICES ASSUME Init PROVE ShownInv
    OBVIOUS
  <2>1. \A t \in Turns : turn[t].phase = "none" /\ turn[t].chunks = 0
    BY DEF Init, NewTurn
  <2>2. /\ handler = "recv" /\ agentTask = NoTurn /\ stored = {} /\ draft = NoRow /\ image = 0
    BY DEF Init
  <2>3. Images = {}
    BY <2>1, <2>2 DEF Images, ImagesOf, Waits, Awaiting
  <2>4. LoopInv /\ PhaseInv /\ PresentInv
    BY <2>1, <2>2 DEF LoopInv, PhaseInv, PresentInv, Active, Begun
  <2>5. CaptionInv /\ OwnInv
    BY <2>1, <2>2, <2>3, ChatAssumption DEF CaptionInv, OwnInv
  <2>6. KeptInv
    BY <2>1 DEF KeptInv, Owed
  <2>7. QED
    BY <2>4, <2>5, <2>6 DEF ShownInv
<1>2. TypeOK /\ HomeInv /\ WholeInv /\ ShownInv /\ [Next]_vars => ShownInv'
  <2> SUFFICES ASSUME TypeOK, HomeInv, WholeInv, ShownInv, [Next]_vars PROVE ShownInv'
    OBVIOUS
  <2>1. /\ LoopInv /\ PhaseInv /\ PresentInv /\ CaptionInv /\ OwnInv
        /\ FreshInv /\ TalkInv
    BY DEF ShownInv, WholeInv
  <2>2. LoopInv' /\ PhaseInv' /\ PresentInv'
    BY <2>1, KeepLoop, KeepPhase, KeepPresent
  <2>3. CaptionInv' /\ OwnInv'
    BY <2>1, KeepCaption, KeepOwn
  <2>4. KeptInv'
    BY KeepKept
  <2>5. QED
    BY <2>2, <2>3, <2>4 DEF ShownInv
<1>3. QED
  BY <1>1, <1>2, TypeCorrect, HomeHolds, WholeHolds, PTL DEF Spec

\* What the client was shown of a turn that is over is in the table, in the
\* conversation of the turn: "done" is sent before the row is written, the row
\* may be the caption of a screenshot that another step replaces, and an abort
\* may cancel the write - unless the turn failed, was cut off, shared the
\* connection or lost its conversation.
THEOREM ShownIsStored == Spec => []ShownTextIsStored
<1>1. TypeOK /\ HomeInv /\ ShownInv => ShownTextIsStored
  <2> SUFFICES ASSUME TypeOK, HomeInv, ShownInv, NEW t \in Turns,
                      turn[t].phase = "ended", turn[t].told # "error", turn[t].marks = {},
                      turn[t].chunks > 0, handler # "aborting"
               PROVE  \E m \in stored : m.conv = turn[t].home /\ m.text = Whole(t)
    BY DEF ShownTextIsStored
  <2>1. PICK m \in stored : m.text = Whole(t)
    BY DEF ShownInv, KeptInv, Owed, Kept
  <2>2. InText(m.text, t)
    BY <2>1, OwnTextIn DEF TypeOK, Turn
  <2>3. m.conv = turn[t].home
    BY <2>2 DEF HomeInv, StoredHome, RowHome, Moved, Joined
  <2>4. QED
    BY <2>1, <2>3
<1>2. QED
  BY <1>1, ShownHolds, HomeHolds, TypeCorrect, PTL

-----------------------------------------------------------------------------
(* How often a text is stored.                                             *)

Copies(t) == {m \in stored : InText(m.text, t)}

\* The copies that may come: that of the turn, and that of do_abort.
ToCome(t) == IF turn[t].phase \in {"failing", "ended"} THEN 0 ELSE 1
InDraft(t) == IF InText(draft.text, t) THEN 1 ELSE 0

\* A number names one image: a caption changes one row.
UniqueInv ==
    /\ \A i, j \in stored : i.kind = "image" /\ j.kind = "image" /\ i.nth = j.nth => i = j
    /\ \A i \in stored, u \in Turns :
         i.kind = "image" /\ Waits(turn, u) /\ turn[u].row.kind = "image" =>
             i.nth # turn[u].row.nth

\* A row that waits has the text of a turn only where that turn is done.
SpeaksInv ==
    \A t, u \in Turns : Waits(turn, u) /\ InText(turn[u].row.text, t) =>
        turn[u].phase = "answering" /\ (~Joined(turn, t) => u = t)

CountInv ==
    \A t \in Turns : ~Joined(turn, t) =>
        Cardinality(Copies(t)) + ToCome(t) + InDraft(t) <= 1 + aborts

CopyInv == IsFiniteSet(stored) /\ UniqueInv /\ SpeaksInv /\ CountInv

\* What a step does to the table: rows go, the message of the user comes, or a row that
\* was waiting comes, of a turn that does not store it again, or of do_abort.
RowsGo == stored' \subseteq stored
UserSpeaks == \E c \in Convs, t \in Turns : stored' = stored \cup {UserRow(c, t)}
TurnStores ==
    \E u \in Turns : /\ Waits(turn, u) /\ stored' = StoredWith(turn[u].row)
                     /\ ~Waits(turn', u) \/ turn'[u].row.kind = "step"
                     /\ turn[u].phase = "answering" => turn'[u].phase = "ended"
AbortStores == FinishAbort /\ draft # NoRow /\ stored' = StoredWith(draft)

LEMMA StepStored ==
    ASSUME TypeOK, HomeInv, LoopInv, [Next]_vars
    PROVE  RowsGo \/ UserSpeaks \/ TurnStores \/ AbortStores
<1>1. ASSUME CancelCommit, ReceiveAbort \/ Close PROVE RowsGo \/ TurnStores
  <2>1. CASE UNCHANGED stored
    BY <2>1 DEF RowsGo
  <2>2. CASE /\ agentTask # NoTurn /\ turn[agentTask].phase \in Awaiting
             /\ stored' = StoredWith(turn[agentTask].row)
    <3>1. agentTask \in Turns
      BY <2>2 DEF TypeOK
    <3>2. turn'[agentTask].phase = "ended"
      BY <1>1, <3>1, TaskEnds
    <3>3. QED
      BY <2>2, <3>1, <3>2 DEF Waits, Awaiting, TurnStores
  <2>3. QED
    BY <1>1, <2>1, <2>2 DEF CancelCommit
<1>2. ASSUME NEW t \in Turns, ReceiveMessage(t) PROVE UserSpeaks
  BY <1>2 DEF ReceiveMessage, UserRow, UserSpeaks
<1>3. CASE ClientStep
  <2>1. CASE ReceiveMessageFails \/ ReceiveAbort \/ Disconnect
    <3>1. CancelCommit /\ (ReceiveAbort \/ Close)
      BY <2>1 DEF ReceiveMessageFails, ReceiveAbort, Disconnect, Close
    <3>2. QED
      BY <1>1, <3>1
  <2>2. CASE RefuseMessage \/ ReceiveInit \/ ReceiveClear
    <3>1. RowsGo
      BY <2>2 DEF RefuseMessage, ReceiveInit, ReceiveClear, RowsGo
    <3>2. QED
      BY <3>1
  <2>3. CASE \E t \in Turns : ReceiveMessage(t)
    BY <1>2, <2>3
  <2>4. QED
    BY <1>3, <2>1, <2>2, <2>3 DEF ClientStep
<1>4. CASE LoopStep
  <2>1. CASE FinishAbort
    BY <2>1 DEF FinishAbort, RowsGo, AbortStores
  <2>2. CASE FinishAbortFails
    <3>1. Close /\ CancelCommit
      BY <2>2 DEF FinishAbortFails, Close
    <3>2. QED
      BY <1>1, <3>1
  <2>3. CASE ReapTurn \/ \E t \in Turns : StartTurn(t)
    <3>1. RowsGo
      BY <2>3 DEF ReapTurn, StartTurn, dbVars, RowsGo
    <3>2. QED
      BY <3>1
  <2>4. QED
    BY <1>4, <2>1, <2>2, <2>3 DEF LoopStep
<1>5. ASSUME NEW t \in Turns, SaveRow(t) PROVE TurnStores
  <2>1. Waits(turn, t) /\ stored' = StoredWith(turn[t].row) /\ turn[t] \in Turn
    BY <1>5 DEF SaveRow, Waits, TypeOK
  <2>2. CASE turn[t].row.kind \in Payloads
    <3>1. turn[t].phase = "saving"
      BY <2>1, <2>2 DEF HomeInv, WaitingHome
    <3>2. \/ turn' = [turn EXCEPT ![t] = AtRow(turn[t], PlainRow("step", t, 0))]
          \/ \E p \in {"running", "ended"} : turn' = [turn EXCEPT ![t] = Storing(turn[t], p, NoRow)]
      BY <1>5, <2>2 DEF SaveRow, AtRow, End, Storing
    <3>3. \/ turn'[t] = AtRow(turn[t], PlainRow("step", t, 0))
          \/ \E p \in {"running", "ended"} : turn'[t] = Storing(turn[t], p, NoRow)
      BY <3>2 DEF TypeOK
    <3>4. turn'[t].phase \in {"running", "ended"} \/ turn'[t].row = PlainRow("step", t, 0)
      BY <2>1, <3>3, TurnFields
    <3>5. ~Waits(turn', t) \/ turn'[t].row.kind = "step"
      BY <3>4 DEF Waits, Awaiting, PlainRow
    <3>6. QED
      BY <2>1, <3>1, <3>5 DEF TurnStores
  <2>3. CASE turn[t].row.kind \notin Payloads
    <3> DEFINE p == IF turn[t].phase = "saving" THEN "running" ELSE "ended"
    <3>1. turn' = [turn EXCEPT ![t] = Storing(turn[t], p, NoRow)]
      BY <1>5, <2>3 DEF SaveRow, Storing
    <3>2. turn'[t] = Storing(turn[t], p, NoRow)
      BY <3>1 DEF TypeOK
    <3>3. turn'[t].phase = p
      BY <2>1, <3>2, TurnFields
    <3>4. ~Waits(turn', t)
      BY <3>3 DEF Waits, Awaiting
    <3>5. QED
      BY <2>1, <3>3, <3>4 DEF TurnStores
  <2>4. QED
    BY <2>2, <2>3
<1>6. ASSUME NEW t \in Turns, TurnStep(t) PROVE RowsGo \/ TurnStores
  <2>1. CASE SaveRow(t)
    BY <1>5, <2>1
  <2>2. CASE ~SaveRow(t)
    <3>1. RowsGo
      BY <1>6, <2>2
      DEF TurnStep, BuildTurn, Delta, Notice, Step, Screenshot, OcrResult, Done, Fail, Interrupt, SaveFails, dbVars,
          RowsGo
    <3>2. QED
      BY <3>1
  <2>3. QED
    BY <2>1, <2>2
<1>7. CASE FireTimer \/ FlushTaskEnds \/ (\E c \in Convs : DeleteConversation(c)) \/ UNCHANGED vars
  <2>1. RowsGo
    BY <1>7 DEF FireTimer, FlushTaskEnds, DeleteConversation, dbVars, vars, RowsGo
  <2>2. QED
    BY <2>1
<1>8. CASE \E t \in Turns : TurnStep(t)
  BY <1>6, <1>8
<1>9. QED
  BY <1>3, <1>4, <1>7, <1>8 DEF Next

\* The row of do_abort is made by an abort.
LEMMA StepAborts ==
    ASSUME TypeOK, [Next]_vars
    PROVE  /\ aborts' = aborts \/ (ReceiveAbort /\ aborts' = aborts + 1)
           /\ draft' = draft \/ draft' = NoRow \/ (ReceiveAbort /\ aborts' = aborts + 1)
<1>1. ReceiveAbort => aborts' = aborts + 1
  BY DEF ReceiveAbort
<1>2. aborts' = aborts \/ ReceiveAbort
  BY DEF Next, ClientStep, LoopStep, TurnStep, ReceiveMessage, ReceiveMessageFails, ReceiveInit,
         RefuseMessage, ReceiveClear, Disconnect, ReapTurn, FinishAbort,
         FinishAbortFails, StartTurn, BuildTurn, Delta, Notice, Step, Screenshot, OcrResult, Done, Fail,
           Interrupt,          SaveRow, SaveFails, FireTimer, FlushTaskEnds, DeleteConversation, loopVars, counts, vars
<1>3. draft' = draft \/ draft' = NoRow \/ ReceiveAbort
  BY StepLoop
<1>4. QED
  BY <1>1, <1>2, <1>3

\* Storing a row adds one copy of its text, and none of another.
LEMMA StoreOnce ==
    ASSUME TypeOK, IsFiniteSet(stored), UniqueInv, NEW r \in Row, NEW t
    PROVE  LET C == {m \in StoredWith(r) : InText(m.text, t)} IN
           /\ IsFiniteSet(StoredWith(r)) /\ IsFiniteSet(C)
           /\ Cardinality(C) <= Cardinality(Copies(t)) + (IF InText(r.text, t) THEN 1 ELSE 0)
<1> DEFINE C == {m \in StoredWith(r) : InText(m.text, t)}
<1>1. IsFiniteSet(Copies(t)) /\ Cardinality(Copies(t)) \in Nat
  <2>1. Copies(t) \subseteq stored
    BY DEF Copies
  <2>2. QED
    BY <2>1, FS_Subset, FS_CardinalityType
<1>2. \E m : /\ StoredWith(r) \subseteq stored \cup {m}
             /\ m \notin stored => (InText(m.text, t) <=> InText(r.text, t))
  <2>1. CASE r.kind # "caption"
    BY <2>1 DEF StoredWith
  <2>2. CASE r.kind = "caption" /\ ImageOf(r) = {}
    BY <2>2 DEF StoredWith
  <2>3. CASE r.kind = "caption" /\ ImageOf(r) # {}
    <3>1. PICK i \in ImageOf(r) : TRUE
      BY <2>3
    <3>2. ImageOf(r) = {i}
      BY <3>1 DEF ImageOf, UniqueInv
    <3>3. StoredWith(r) = (stored \ {i}) \cup {Captioned(i, r)}
      BY <2>3, <3>2 DEF StoredWith, Captioned
    <3>4. Captioned(i, r).text = r.text
      BY CaptionedFields DEF ImageOf, TypeOK
    <3>5. QED
      BY <3>3, <3>4
  <2>4. QED
    BY <2>1, <2>2, <2>3
<1>3. PICK m : /\ StoredWith(r) \subseteq stored \cup {m}
               /\ m \notin stored => (InText(m.text, t) <=> InText(r.text, t))
  BY <1>2
<1>4. IsFiniteSet(StoredWith(r))
  <2>1. IsFiniteSet(stored \cup {m})
    BY FS_AddElement
  <2>2. QED
    BY <1>3, <2>1, FS_Subset
<1>5. CASE InText(r.text, t)
  <2>1. C \subseteq Copies(t) \cup {m}
    BY <1>3 DEF Copies
  <2>2. /\ IsFiniteSet(Copies(t) \cup {m})
        /\ Cardinality(Copies(t) \cup {m}) <= Cardinality(Copies(t)) + 1
        /\ Cardinality(Copies(t) \cup {m}) \in Nat
    <3>1. /\ IsFiniteSet(Copies(t) \cup {m})
          /\ Cardinality(Copies(t) \cup {m}) = Cardinality(Copies(t))
             \/ Cardinality(Copies(t) \cup {m}) = Cardinality(Copies(t)) + 1
      BY <1>1, FS_AddElement
    <3>2. QED
      BY <1>1, <3>1
  <2>3. IsFiniteSet(C) /\ Cardinality(C) <= Cardinality(Copies(t) \cup {m}) /\ Cardinality(C) \in Nat
    BY <2>1, <2>2, FS_Subset, FS_CardinalityType
  <2> HIDE DEF C
  <2>4. Cardinality(C) <= Cardinality(Copies(t)) + 1
    BY <1>1, <2>2, <2>3
  <2>5. QED
    BY <1>4, <1>5, <2>3, <2>4 DEF C
<1>6. CASE ~InText(r.text, t)
  <2>1. C \subseteq Copies(t)
    BY <1>3, <1>6 DEF Copies
  <2>2. IsFiniteSet(C) /\ Cardinality(C) <= Cardinality(Copies(t))
    BY <1>1, <2>1, FS_Subset
  <2>3. QED
    BY <1>1, <1>4, <1>6, <2>2
<1>7. QED
  BY <1>5, <1>6

LEMMA UniqueStore ==
    ASSUME TypeOK, UniqueInv, NEW r \in Row,
           r.kind = "image" => \A i \in stored : i.kind = "image" => i.nth # r.nth,
           NEW i \in StoredWith(r), NEW j \in StoredWith(r),
           i.kind = "image", j.kind = "image", i.nth = j.nth
    PROVE  i = j
<1>1. CASE r.kind = "caption"
  <2>1. StoredWith(r) = (stored \ ImageOf(r)) \cup {Captioned(k, r) : k \in ImageOf(r)}
    BY <1>1 DEF StoredWith, Captioned
  <2>2. \A k \in ImageOf(r) : k \in stored /\ k.kind = "image" /\ k.nth = r.nth
                              /\ Captioned(k, r).nth = r.nth
    BY CaptionedFields DEF ImageOf, TypeOK
  <2>3. \A k, l \in ImageOf(r) : k = l
    BY <2>2 DEF UniqueInv
  <2>4. \A k \in stored : k.kind = "image" /\ k.nth = r.nth => k \in ImageOf(r)
    BY DEF ImageOf
  <2>5. CASE i \in stored \ ImageOf(r) /\ j \in stored \ ImageOf(r)
    BY <2>5 DEF UniqueInv
  <2>6. QED
    BY <2>1, <2>2, <2>3, <2>4, <2>5
<1>2. CASE r.kind # "caption"
  BY <1>2 DEF StoredWith, UniqueInv
<1>3. QED
  BY <1>1, <1>2

\* The rows that are stored: the row of a turn or of do_abort.
LEMMA StoredRows ==
    ASSUME TypeOK, HomeInv, TurnStores \/ AbortStores
    PROVE  \E r \in Row :
             /\ stored' = StoredWith(r)
             /\ \/ FinishAbort /\ r = draft /\ draft # NoRow /\ r.kind # "image"
                \/ \E u \in Turns : /\ Waits(turn, u) /\ r = turn[u].row /\ r.by = u
                                    /\ ~Waits(turn', u) \/ turn'[u].row.kind = "step"
                                    /\ turn[u].phase = "answering" => turn'[u].phase = "ended"
<1>1. CASE TurnStores
  <2>1. PICK u \in Turns : /\ Waits(turn, u) /\ stored' = StoredWith(turn[u].row)
                           /\ ~Waits(turn', u) \/ turn'[u].row.kind = "step"
                           /\ turn[u].phase = "answering" => turn'[u].phase = "ended"
    BY <1>1 DEF TurnStores
  <2>2. turn[u].row \in Row /\ turn[u].row.by = u
    BY <2>1 DEF TypeOK, Turn, HomeInv, WaitingHome
  <2>3. QED
    BY <2>1, <2>2
<1>2. CASE AbortStores
  <2>1. draft \in Row /\ draft.kind # "image"
    BY <1>2 DEF AbortStores, TypeOK, HomeInv, DraftHome
  <2>2. QED
    BY <1>2, <2>1 DEF AbortStores
<1>3. QED
  BY <1>1, <1>2

LEMMA KeepUnique ==
    ASSUME TypeOK, HomeInv, LoopInv, UniqueInv, [Next]_vars
    PROVE  UniqueInv'
<1>1. ASSUME NEW i \in stored', NEW j \in stored', i.kind = "image", j.kind = "image", i.nth = j.nth
      PROVE  i = j
  <2>1. CASE RowsGo
    BY <1>1, <2>1 DEF RowsGo, UniqueInv
  <2>2. CASE UserSpeaks
    BY <1>1, <2>2 DEF UserSpeaks, UserRow, UniqueInv
  <2>3. CASE TurnStores \/ AbortStores
    <3>1. PICK r \in Row :
             /\ stored' = StoredWith(r)
             /\ \/ FinishAbort /\ r = draft /\ draft # NoRow /\ r.kind # "image"
                \/ \E u \in Turns : /\ Waits(turn, u) /\ r = turn[u].row /\ r.by = u
                                    /\ ~Waits(turn', u) \/ turn'[u].row.kind = "step"
                                    /\ turn[u].phase = "answering" => turn'[u].phase = "ended"
      BY <2>3, StoredRows
    <3>2. r.kind = "image" => \A k \in stored : k.kind = "image" => k.nth # r.nth
      BY <3>1 DEF UniqueInv
    <3>3. QED
      BY <1>1, <3>1, <3>2, UniqueStore
  <2>4. QED
    BY <2>1, <2>2, <2>3, StepStored
<1>2. ASSUME NEW i \in stored', NEW u \in Turns, i.kind = "image", Waits(turn', u),
             turn'[u].row.kind = "image"
      PROVE  i.nth # turn'[u].row.nth
  <2>1. RowFrom(u)
    BY StepMoves DEF TurnsMove
  <2>2. turn'[u].row \notin {PlainRow("step", u, 0), PlainRow("ocr", u, 0), PlainRow("error", u, 0),
                             TextRow("answer", u, 0)}
    BY <1>2 DEF PlainRow, TextRow
  <2>3. CASE Screenshot(u) /\ turn'[u].row = PlainRow("image", u, events + 1)
    <3>1. i \in Images /\ turn'[u].row.nth = events + 1
      BY <1>2, <2>3 DEF Screenshot, dbVars, PlainRow, Images, ImagesOf
    <3>2. i.nth <= events /\ i.nth \in Nat /\ events \in Nat
      BY <3>1, ImageTypes, CountTypes DEF HomeInv, ImageInv
    <3>3. QED
      BY <3>1, <3>2
  <2>4. CASE Waits(turn, u) /\ turn'[u].row = turn[u].row
    <3>1. ASSUME NEW k \in stored, k.kind = "image" PROVE k.nth # turn'[u].row.nth
      BY <1>2, <2>4, <3>1 DEF UniqueInv
    <3>2. CASE RowsGo \/ UserSpeaks
      BY <1>2, <3>1, <3>2 DEF RowsGo, UserSpeaks, UserRow
    <3>3. CASE TurnStores \/ AbortStores
      <4>1. PICK r \in Row :
             /\ stored' = StoredWith(r)
             /\ \/ FinishAbort /\ r = draft /\ draft # NoRow /\ r.kind # "image"
                \/ \E v \in Turns : /\ Waits(turn, v) /\ r = turn[v].row /\ r.by = v
                                    /\ ~Waits(turn', v) \/ turn'[v].row.kind = "step"
                                    /\ turn[v].phase = "answering" => turn'[v].phase = "ended"
        BY <3>3, StoredRows
      <4>2. CASE r.kind = "image"
        <5>1. PICK v \in Turns : /\ Waits(turn, v) /\ r = turn[v].row /\ r.by = v
                                 /\ ~Waits(turn', v) \/ turn'[v].row.kind = "step"
          BY <4>1, <4>2
        <5>2. r \in Images /\ turn[u].row \in Images /\ turn[u].row.by = u
          BY <1>2, <2>4, <4>2, <5>1 DEF Images, ImagesOf, HomeInv, WaitingHome
        <5>3. r.nth # turn[u].row.nth
          BY <1>2, <5>1, <5>2 DEF HomeInv, ImageInv
        <5>4. i \in stored \/ i = r
          BY <1>2, <4>1, <4>2 DEF StoredWith
        <5>5. QED
          BY <1>2, <2>4, <3>1, <5>3, <5>4
      <4>3. CASE r.kind = "caption"
        <5>1. i \in stored \/ \E k \in ImageOf(r) : i = Captioned(k, r)
          BY <1>2, <4>1, <4>3 DEF StoredWith, Captioned
        <5>2. \A k \in ImageOf(r) : /\ k \in stored /\ k.kind = "image"
                                    /\ Captioned(k, r).nth = k.nth
          BY CaptionedFields DEF ImageOf, TypeOK
        <5>3. QED
          BY <1>2, <3>1, <5>1, <5>2
      <4>4. CASE r.kind \notin {"image", "caption"}
        <5>1. i \in stored
          BY <1>2, <4>1, <4>4 DEF StoredWith
        <5>2. QED
          BY <1>2, <3>1, <5>1
      <4>5. QED
        BY <4>2, <4>3, <4>4
    <3>4. QED
      BY <3>2, <3>3, StepStored
  <2>5. QED
    BY <1>2, <2>1, <2>2, <2>3, <2>4 DEF RowFrom
<1>3. QED
  BY <1>1, <1>2 DEF UniqueInv, Waits

LEMMA KeepSpeaks ==
    ASSUME TypeOK, HomeInv, SpeaksInv, [Next]_vars
    PROVE  SpeaksInv'
<1>1. ASSUME NEW t \in Turns, NEW u \in Turns, Waits(turn', u), InText(turn'[u].row.text, t)
      PROVE  turn'[u].phase = "answering" /\ (~Joined(turn', t) => u = t)
  <2>1. RowFrom(u) /\ (Joined(turn, t) => Joined(turn', t))
    BY StepMoves DEF TurnsMove, Grows, Joined
  <2>2. CASE /\ Waits(turn, u) /\ turn'[u].row = turn[u].row
             /\ turn'[u].phase = turn[u].phase
    BY <1>1, <2>1, <2>2 DEF SpeaksInv
  <2>3. \A kind, n : turn'[u].row # PlainRow(kind, u, n)
    BY <1>1, NoText DEF PlainRow
  <2>4. CASE Done(u) /\ turn'[u].row = TextRow("answer", u, 0)
    <3>1. turn'[u].phase = "answering" /\ Active(turn, u)
      BY <1>1, <2>4, DoneFields DEF Waits, Awaiting
    <3>2. InText(text, t)
      BY <1>1, <2>4 DEF TextRow
    <3>3. QED
      BY <2>1, <3>1, <3>2 DEF HomeInv, AloneInv, Alone
  <2>5. QED
    BY <1>1, <2>1, <2>2, <2>3, <2>4 DEF RowFrom
<1>2. QED
  BY <1>1 DEF SpeaksInv, Waits, Joined

LEMMA KeepFinite ==
    ASSUME TypeOK, HomeInv, LoopInv, IsFiniteSet(stored), UniqueInv, [Next]_vars
    PROVE  IsFiniteSet(stored')
<1>1. CASE RowsGo
  BY <1>1, FS_Subset DEF RowsGo
<1>2. CASE UserSpeaks
  BY <1>2, FS_AddElement DEF UserSpeaks
<1>3. CASE TurnStores \/ AbortStores
  <2>1. PICK r \in Row : stored' = StoredWith(r)
    BY <1>3, StoredRows
  <2>2. IsFiniteSet(StoredWith(r))
    BY StoreOnce
  <2>3. QED
    BY <2>1, <2>2
<1>4. QED
  BY <1>1, <1>2, <1>3, StepStored

LEMMA KeepCount ==
    ASSUME TypeOK, HomeInv, LoopInv, IsFiniteSet(stored), UniqueInv, SpeaksInv, CountInv,
           [Next]_vars
    PROVE  CountInv'
<1> SUFFICES ASSUME NEW t \in Turns, ~Joined(turn', t)
             PROVE  Cardinality({m \in stored' : InText(m.text, t)})
                      + ToCome(t)' + InDraft(t)' <= 1 + aborts'
  BY DEF CountInv, Copies, Joined
<1> DEFINE C == {m \in stored' : InText(m.text, t)}
           n == Cardinality(C)
           k == Cardinality(Copies(t))
<1>1. ~Joined(turn, t)
  BY StepMoves DEF TurnsMove, Grows, Joined
<1>2. k \in Nat /\ IsFiniteSet(Copies(t)) /\ n \in Nat
  <2>1. IsFiniteSet(stored')
    BY KeepFinite
  <2>2. C \subseteq stored' /\ Copies(t) \subseteq stored
    BY DEF Copies
  <2>3. QED
    BY <2>1, <2>2, FS_Subset, FS_CardinalityType
<1>3. k + ToCome(t) + InDraft(t) <= 1 + aborts
  BY <1>1 DEF CountInv
<1>4. /\ ToCome(t) \in {0, 1} /\ InDraft(t) \in {0, 1}
      /\ ToCome(t)' \in {0, 1} /\ InDraft(t)' \in {0, 1}
  BY DEF ToCome, InDraft
<1>5. ToCome(t)' <= ToCome(t)
  <2>1. ASSUME turn[t].phase \in {"failing", "ended"} PROVE turn'[t].phase \in {"failing", "ended"}
    <3>1. Over(turn', t)
      BY <2>1, OverSays, SMTT(30) DEF Over
    <3>2. turn'[t].phase # "answering"
      BY <2>1, StepLeaves DEF Leaves, Done, Emits
    <3>3. QED
      BY <3>1, <3>2 DEF Over
  <2>2. QED
    BY <2>1 DEF ToCome
<1>6. ~InText(NoRow.text, t)
  BY NoText DEF NoRow
<1>7. /\ aborts \in Nat /\ aborts' \in Nat
      /\ InDraft(t)' + aborts <= InDraft(t) + aborts'
  <2>1. aborts \in Nat
    BY CountTypes
  <2>2. draft' = draft \/ draft' = NoRow => InDraft(t)' <= InDraft(t)
    BY <1>4, <1>6 DEF InDraft
  <2>3. QED
    BY <1>4, <2>1, <2>2, StepAborts
<1> HIDE DEF n, k
<1>8. CASE n <= k
  BY <1>2, <1>3, <1>4, <1>5, <1>7, <1>8 DEF n, C
<1>9. CASE RowsGo \/ UserSpeaks
  <2>1. C \subseteq Copies(t)
    BY <1>9, NoText DEF RowsGo, UserSpeaks, UserRow, Copies
  <2>2. n <= k
    BY <1>2, <2>1, FS_Subset DEF n, k
  <2>3. QED
    BY <1>8, <2>2
<1>10. CASE TurnStores \/ AbortStores
  <2>1. PICK r \in Row :
             /\ stored' = StoredWith(r)
             /\ \/ FinishAbort /\ r = draft /\ draft # NoRow /\ r.kind # "image"
                \/ \E u \in Turns : /\ Waits(turn, u) /\ r = turn[u].row /\ r.by = u
                                    /\ ~Waits(turn', u) \/ turn'[u].row.kind = "step"
                                    /\ turn[u].phase = "answering" => turn'[u].phase = "ended"
    BY <1>10, StoredRows
  <2>2. n <= k + (IF InText(r.text, t) THEN 1 ELSE 0)
    BY <2>1, StoreOnce DEF n, k
  <2>3. CASE ~InText(r.text, t)
    BY <1>2, <1>8, <2>2, <2>3
  <2>4. CASE InText(r.text, t) /\ FinishAbort /\ r = draft
    <3>1. InDraft(t) = 1 /\ InDraft(t)' = 0 /\ aborts' = aborts
      BY <1>6, <2>4 DEF FinishAbort, InDraft, counts
    <3>2. QED
      BY <1>2, <1>3, <1>4, <1>5, <1>7, <2>2, <2>4, <3>1 DEF n, C
  <2>5. ASSUME InText(r.text, t), NEW u \in Turns, Waits(turn, u), r = turn[u].row,
               turn[u].phase = "answering" => turn'[u].phase = "ended"
        PROVE  n + ToCome(t)' + InDraft(t)' <= 1 + aborts'
    <3>1. turn[u].phase = "answering" /\ u = t
      BY <1>1, <2>5 DEF SpeaksInv
    <3>2. ToCome(t) = 1 /\ ToCome(t)' = 0
      BY <2>5, <3>1 DEF ToCome
    <3>3. QED
      BY <1>2, <1>3, <1>4, <1>7, <2>2, <2>5, <3>2
  <2>6. QED
    BY <2>1, <2>3, <2>4, <2>5 DEF n, C
<1>11. QED
  BY <1>9, <1>10, StepStored

\* Each text is stored by its turn or is still to be, and by every abort at most once more.
THEOREM CopyHolds == Spec => []CopyInv
<1>1. Init => CopyInv
  <2> SUFFICES ASSUME Init PROVE CopyInv
    OBVIOUS
  <2>1. \A t \in Turns : turn[t].phase = "none"
    BY DEF Init, NewTurn
  <2>2. stored = {} /\ draft = NoRow /\ aborts = 0
    BY DEF Init
  <2>3. IsFiniteSet(stored) /\ UniqueInv /\ SpeaksInv
    BY <2>1, <2>2, FS_EmptySet DEF UniqueInv, SpeaksInv, Waits, Awaiting
  <2>4. ASSUME NEW t \in Turns PROVE Cardinality(Copies(t)) + ToCome(t) + InDraft(t) <= 1 + aborts
    <3>1. Cardinality(Copies(t)) = 0
      BY <2>2, FS_EmptySet DEF Copies
    <3>2. ToCome(t) = 1 /\ InDraft(t) = 0
      BY <2>1, <2>2, NoText DEF ToCome, InDraft, NoRow
    <3>3. QED
      BY <2>2, <3>1, <3>2
  <2>5. QED
    BY <2>3, <2>4 DEF CopyInv, CountInv
<1>2. TypeOK /\ HomeInv /\ ShownInv /\ CopyInv /\ [Next]_vars => CopyInv'
  <2> SUFFICES ASSUME TypeOK, HomeInv, ShownInv, CopyInv, [Next]_vars PROVE CopyInv'
    OBVIOUS
  <2>1. LoopInv /\ IsFiniteSet(stored) /\ UniqueInv /\ SpeaksInv /\ CountInv
    BY DEF ShownInv, CopyInv
  <2>2. IsFiniteSet(stored')
    BY <2>1, KeepFinite
  <2>3. UniqueInv' /\ SpeaksInv' /\ CountInv'
    BY <2>1, KeepUnique, KeepSpeaks, KeepCount
  <2>4. QED
    BY <2>2, <2>3 DEF CopyInv
<1>3. QED
  BY <1>1, <1>2, TypeCorrect, HomeHolds, ShownHolds, PTL DEF Spec

\* The text of a turn that shared the connection with no other is in one row, and
\* in one more for each abort: do_abort stores what it finds in the event state,
\* which may be stored already, or committed by the write it cancelled.
THEOREM CopiesNeedAborts == Spec => []SecondCopyNeedsAbort
<1>1. TypeOK /\ CopyInv => SecondCopyNeedsAbort
  <2> SUFFICES ASSUME TypeOK, CopyInv, NEW t \in Turns, Undisturbed(t, {"joined"})
               PROVE  Cardinality(Copies(t)) <= 1 + aborts
    BY DEF SecondCopyNeedsAbort, Copies, InText
  <2>1. Cardinality(Copies(t)) + ToCome(t) + InDraft(t) <= 1 + aborts
    BY DEF CopyInv, CountInv, Undisturbed, Joined
  <2>2. Cardinality(Copies(t)) \in Nat
    <3>1. IsFiniteSet(Copies(t))
      BY FS_Subset DEF CopyInv, Copies
    <3>2. QED
      BY <3>1, FS_CardinalityType
  <2>3. ToCome(t) \in {0, 1} /\ InDraft(t) \in {0, 1} /\ aborts \in Nat
    BY CountTypes DEF ToCome, InDraft
  <2>4. QED
    BY <2>1, <2>2, <2>3
<1>2. QED
  BY <1>1, CopyHolds, TypeCorrect, PTL
===============================================================================
