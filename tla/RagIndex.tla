------------------------------- MODULE RagIndex -------------------------------
(***************************************************************************)
(* The vector index over memory documents and text attachments,              *)
(* backend/services/rag.py, and the writes and deletions that keep it in     *)
(* step, backend/services/memory.py and conversation_attachments.py.  Two    *)
(* others change the documents and leave the index alone: the tools of an    *)
(* agent, agent_manager.py, and the deletion of a conversation, which takes  *)
(* its remaining rows with it.                                               *)
(*                                                                         *)
(* An operation is a coroutine; it yields at the store, at the embedding     *)
(* service, and at every call of the index, which runs in a thread.  Nothing *)
(* orders the operations on one source.                                      *)
(***************************************************************************)
EXTENDS Naturals, FiniteSets

CONSTANTS
    Sources,      \* paths of memory documents, ids of attachments
    Memories,     \* the paths among them
    Ops,          \* coroutines
    MaxVersions,  \* bound on the writes
    MaxChunks,    \* the longest document, in chunks
    MaxDeaths     \* bound on the deaths of the process

ASSUME RagAssumption ==
    /\ Sources # {} /\ Memories \subseteq Sources /\ MaxVersions \in Nat \ {0}
    /\ MaxChunks \in Nat \ {0} /\ MaxDeaths \in Nat

VARIABLES
    stored,    \* stored[s]: the document, ver = 0 for none
    versions,  \* bound: how many were written
    index,     \* index[s][i]: the version chunk i of s is of, 0 for none
    op,        \* the operations
    deaths,    \* bound: how often the process died
    unsure     \* history: sources changed behind the index, or whose last operation
               \* failed, overlapped or was blank

ragVars == <<stored, versions, index, op, deaths, unsure>>

\* A document is its version and its length in chunks; a blank one has none.
Documents == [ver: 0..MaxVersions, len: 0..MaxChunks]
NoDocument == [ver |-> 0, len |-> 0]
Chunks == [1..MaxChunks -> 0..MaxVersions]

ChunksOf(d) == [i \in 1..MaxChunks |-> IF i <= d.len THEN d.ver ELSE 0]
NoChunks == ChunksOf(NoDocument)

\* src, doc: the source at hand; todo: what a reindex still has to read; read: what
\* it has read and not yet indexed; raced: sources that changed meanwhile.
OpStates == {"idle", "put", "loading", "embedding", "emptying", "filling", "erasing"}
OpRecords == [pc: OpStates, src: Sources, doc: Documents, todo: SUBSET Sources,
              read: [Sources -> Documents], all: BOOLEAN, raced: SUBSET Sources]
NoOp == [pc |-> "idle", src |-> CHOOSE s \in Sources : TRUE, doc |-> NoDocument, todo |-> {},
         read |-> [s \in Sources |-> NoDocument], all |-> FALSE, raced |-> {}]

RagTypeOK ==
    /\ stored \in [Sources -> Documents] /\ versions \in 0..MaxVersions
    /\ index \in [Sources -> Chunks]
    /\ op \in [Ops -> OpRecords]
    /\ deaths \in 0..MaxDeaths /\ unsure \subseteq Sources

RagInit ==
    /\ stored = [s \in Sources |-> NoDocument] /\ versions = 0
    /\ index = [s \in Sources |-> NoChunks]
    /\ op = [o \in Ops |-> NoOp]
    /\ deaths = 0 /\ unsure = {}

\* What operation x will read or write.
Touches(x) ==
    (IF x.pc \in {"idle", "loading"} THEN {} ELSE {x.src}) \cup x.todo
        \cup {s \in Sources : x.read[s] # NoDocument}

\* What it has read of the store, or removed from it.
HasRead(x) ==
    (IF x.pc \in {"embedding", "emptying", "filling", "erasing"} THEN {x.src} ELSE {})
        \cup {s \in Sources : x.read[s] # NoDocument}

\* Operation o takes up the sources ss, as x: those that others touch are raced.
Begin(o, x, ss) ==
    op' = [p \in Ops |->
              IF p = o THEN [x EXCEPT !.raced = {s \in ss : \E q \in Ops \ {o} : s \in Touches(op[q])}]
              ELSE [op[p] EXCEPT !.raced = @ \cup (ss \cap Touches(op[p]))]]

\* o is done with the source at hand, or gives up; the rest of a reindex is dropped
\* with it.
Settle(o) ==
    /\ unsure' = IF op[o].src \in op[o].raced THEN unsure \cup {op[o].src}
                 ELSE unsure \ {op[o].src}
    /\ op' = [op EXCEPT ![o] = IF @.all THEN [@ EXCEPT !.pc = "loading"] ELSE NoOp]
GiveUp(o) ==
    /\ unsure' = unsure \cup Touches(op[o])
    /\ op' = [op EXCEPT ![o] = NoOp]

-----------------------------------------------------------------------------
(* Writing and deleting a document.                                          *)

\* write_memory_document, or an upload that commits: the store has the new text.  (An
\* id is not used again; here it may be, once its row is gone.)
Write(o, s) ==
    /\ op[o].pc = "idle" /\ versions < MaxVersions
    /\ s \in Memories \/ stored[s] = NoDocument
    /\ versions' = versions + 1
    /\ \E len \in 0..MaxChunks : stored' = [stored EXCEPT ![s] = [ver |-> versions + 1, len |-> len]]
    /\ Begin(o, [NoOp EXCEPT !.pc = "put", !.src = s], {s})
    /\ UNCHANGED <<index, deaths, unsure>>

\* build_memory_source_document reads it back, or the row is refreshed and its file is
\* read: deleted (404, or the refresh fails) or blank, there is nothing to index, and
\* what is indexed stays.
ReadBack(o) ==
    /\ op[o].pc = "put"
    /\ IF stored[op[o].src].len = 0
       THEN GiveUp(o)
       ELSE /\ op' = [op EXCEPT ![o].pc = "embedding", ![o].doc = stored[op[o].src]]
            /\ UNCHANGED unsure
    /\ UNCHANGED <<stored, versions, index, deaths>>

\* upsert_source_document: the chunks are embedded, or the service fails, ...
Embed(o) ==
    /\ op[o].pc = "embedding"
    /\ \/ op' = [op EXCEPT ![o].pc = "emptying"] /\ UNCHANGED unsure
       \/ GiveUp(o)
    /\ UNCHANGED <<stored, versions, index, deaths>>

\* Mutated form: the new chunks are only laid over the old ones.
Emptied_Not(s) == index

Emptied(s) == [index EXCEPT ![s] = NoChunks]

\* ... the old chunks of the source go, ...
Empty(o) ==
    /\ op[o].pc = "emptying"
    /\ \/ /\ index' = Emptied(op[o].src)
          /\ op' = [op EXCEPT ![o].pc = "filling"]
          /\ UNCHANGED unsure
       \/ GiveUp(o) /\ UNCHANGED index
    /\ UNCHANGED <<stored, versions, deaths>>

\* ... and the new ones are put in; either call of the index may raise.
Fill(o) ==
    /\ op[o].pc = "filling"
    /\ \/ /\ index' = [index EXCEPT ![op[o].src] =
                          [i \in 1..MaxChunks |-> IF i <= op[o].doc.len THEN op[o].doc.ver ELSE @[i]]]
          /\ Settle(o)
       \/ GiveUp(o) /\ UNCHANGED index
    /\ UNCHANGED <<stored, versions, deaths>>

\* delete_memory_document, or the deletion of an attachment.
Delete(o, s) ==
    /\ op[o].pc = "idle" /\ stored[s] # NoDocument
    /\ stored' = [stored EXCEPT ![s] = NoDocument]
    /\ Begin(o, [NoOp EXCEPT !.pc = "erasing", !.src = s], {s})
    /\ UNCHANGED <<versions, index, deaths, unsure>>

\* delete_source: done, or raised and logged.
Erase(o) ==
    /\ op[o].pc = "erasing"
    /\ \/ index' = [index EXCEPT ![op[o].src] = NoChunks] /\ Settle(o)
       \/ GiveUp(o) /\ UNCHANGED index
    /\ UNCHANGED <<stored, versions, deaths>>

-----------------------------------------------------------------------------
(* Changes that no operation follows up in the index.                        *)

\* Source s becomes d: an operation that has read it has something else in hand.
\* One that still has to read it will read d.
ChangeUnseen(s, d) ==
    /\ stored' = [stored EXCEPT ![s] = d]
    /\ op' = [o \in Ops |-> [op[o] EXCEPT !.raced = @ \cup ({s} \cap HasRead(op[o]))]]
    /\ unsure' = unsure \cup {s}
    /\ UNCHANGED <<index, deaths>>

\* A tool of an agent writes or edits a file under /memories/: StoreBackend puts it
\* into the store, and nobody calls sync_memory_document.
AgentWrite(s) ==
    /\ s \in Memories /\ versions < MaxVersions
    /\ versions' = versions + 1
    /\ \E len \in 0..MaxChunks : ChangeUnseen(s, [ver |-> versions + 1, len |-> len])

\* delete_conversation: what was uploaded since the attachments were listed goes with
\* the conversation, without delete_source; the file stays.
DropRow(s) ==
    /\ s \in Sources \ Memories /\ stored[s] # NoDocument
    /\ ChangeUnseen(s, NoDocument)
    /\ UNCHANGED versions

-----------------------------------------------------------------------------
(* POST /rag/reindex.                                                        *)

\* The tree, or the table, is listed.
Reindex(o) ==
    LET present == {s \in Sources : stored[s] # NoDocument}
    IN  /\ op[o].pc = "idle"
        /\ Begin(o, [NoOp EXCEPT !.pc = "loading", !.all = TRUE, !.todo = present], present)
        /\ UNCHANGED <<stored, versions, index, deaths, unsure>>

\* Every document is read; a memory document that was deleted meanwhile ends the
\* request (404), an attachment that was is passed over.
LoadNext(o) ==
    /\ op[o].pc = "loading"
    /\ \E s \in op[o].todo :
          IF s \in Memories /\ stored[s] = NoDocument
          THEN GiveUp(o)
          ELSE /\ op' = [op EXCEPT ![o].todo = @ \ {s},
                            ![o].read = IF stored[s].len = 0 THEN @ ELSE [@ EXCEPT ![s] = stored[s]]]
               /\ UNCHANGED unsure
    /\ UNCHANGED <<stored, versions, index, deaths>>

\* Then they are indexed one after the other, however old they have become.
IndexNext(o) ==
    /\ op[o].pc = "loading" /\ op[o].todo = {}
    /\ IF \A s \in Sources : op[o].read[s] = NoDocument
       THEN op' = [op EXCEPT ![o] = NoOp]
       ELSE \E s \in Sources :
               /\ op[o].read[s] # NoDocument
               /\ op' = [op EXCEPT ![o].pc = "embedding", ![o].src = s, ![o].doc = op[o].read[s],
                                   ![o].read[s] = NoDocument]
    /\ UNCHANGED <<stored, versions, index, deaths, unsure>>

\* The process dies; the store and the index are on disk.
Die ==
    /\ deaths < MaxDeaths
    /\ deaths' = deaths + 1
    /\ unsure' = unsure \cup UNION {Touches(op[o]) : o \in Ops}
    /\ op' = [o \in Ops |-> NoOp]
    /\ UNCHANGED <<stored, versions, index>>

-----------------------------------------------------------------------------

RagNext ==
    \/ \E o \in Ops :
          \/ \E s \in Sources : Write(o, s) \/ Delete(o, s)
          \/ ReadBack(o) \/ Embed(o) \/ Empty(o) \/ Fill(o) \/ Erase(o)
          \/ Reindex(o) \/ LoadNext(o) \/ IndexNext(o)
    \/ \E s \in Sources : AgentWrite(s) \/ DropRow(s)
    \/ Die

RagSpec == RagInit /\ [][RagNext]_ragVars

-----------------------------------------------------------------------------
(* Properties.                                                               *)

\* The index has of a source exactly the chunks of its document: none of a deleted
\* one, and no tail of a longer one it had before.  That is so when no operation is
\* at work on the source and the last one neither failed, nor overlapped with
\* another, nor wrote a blank document, and since then neither an agent wrote it nor
\* its conversation took it along; however the operations on other sources go.  An
\* operation that reads the source after an agent's write makes up for it.
IndexIsTrue ==
    \A s \in Sources \ unsure :
        (\A o \in Ops : s \notin Touches(op[o])) => index[s] = ChunksOf(stored[s])
=============================================================================
