----------------------------- MODULE Attachments -----------------------------
(***************************************************************************)
(* The attachments of conversations: a file on disk and a row for each,      *)
(* backend/services/conversation_attachments.py and its routes, and the      *)
(* deletion of a conversation in backend/api/routers/conversations.py.       *)
(*                                                                         *)
(* A request is a coroutine.  Its steps end where the database is awaited;   *)
(* what it does to the disk it does without yielding.  The process may die   *)
(* between any two steps.                                                    *)
(***************************************************************************)
EXTENDS Naturals, FiniteSets

CONSTANTS
    Convs,             \* conversations
    Uploads,           \* attachments: a file name and a row id are given once
    Jobs,              \* requests in progress
    MaxAttachments,    \* MAX_CONVERSATION_ATTACHMENTS
    MaxKills           \* bound on the deaths of the process

ASSUME AttachmentsAssumption ==
    /\ Convs # {} /\ Uploads # {} /\ MaxAttachments \in Nat \ {0} /\ MaxKills \in Nat
    /\ IsFiniteSet(Jobs) /\ IsFiniteSet(Uploads)

VARIABLES
    convs,       \* conversations: the rows
    attached,    \* conversation_attachments: the rows
    ownerOf,     \* their conversation_id
    files,       \* the files of attachments
    dirs,        \* conversations with a directory
    ocr,         \* conversations with saved OCR results
    job,         \* the requests
    kills,       \* bound: how often the process died
    excused      \* history: attachments a fault or an overlap may separate from their file

attachmentsVars == <<convs, attached, ownerOf, files, dirs, ocr, job, kills, excused>>

JobStates == {"idle", "upload", "found", "written", "unlinked", "listed", "oneUnlinked"}
\* todo: what a conversation that is being deleted still has to delete.
JobRecords == [pc: JobStates, conv: Convs, att: Uploads, todo: SUBSET Uploads]
NoJob == [pc |-> "idle", conv |-> CHOOSE c \in Convs : TRUE, att |-> CHOOSE a \in Uploads : TRUE,
          todo |-> {}]

AttachmentsTypeOK ==
    /\ convs \subseteq Convs /\ dirs \subseteq Convs /\ ocr \subseteq Convs
    /\ attached \subseteq Uploads /\ files \subseteq Uploads /\ excused \subseteq Uploads
    /\ ownerOf \in [Uploads -> Convs]
    /\ job \in [Jobs -> JobRecords]
    /\ kills \in 0..MaxKills

AttachmentsInit ==
    /\ convs = {} /\ attached = {} /\ files = {} /\ dirs = {} /\ ocr = {}
    /\ ownerOf \in [Uploads -> Convs]
    /\ job = [j \in Jobs |-> NoJob]
    /\ kills = 0 /\ excused = {}

Uploading(j) == job[j].pc \in {"upload", "found", "written"}
DeletingConv(j) == job[j].pc \in {"listed", "oneUnlinked"}
Of(c) == {a \in attached : ownerOf[a] = c}

\* a has not been uploaded yet.
Fresh(a) == a \notin attached \cup files \cup excused /\ \A j \in Jobs : job[j].att # a \/ job[j].pc = "idle"

-----------------------------------------------------------------------------
(* POST /attachments.                                                        *)

\* create_conversation, for an upload without a conversation or by the user.
NewConversation(c) ==
    /\ c \notin convs
    /\ \A a \in Uploads : ownerOf[a] = c => Fresh(a)
    /\ c \notin dirs /\ \A j \in Jobs : job[j].pc = "idle" \/ job[j].conv # c
    /\ convs' = convs \cup {c}
    /\ UNCHANGED <<attached, ownerOf, files, dirs, ocr, job, kills, excused>>

\* The route has found the conversation and the name, size and encoding are good:
\* the directory is made.
BeginUpload(j, a) ==
    LET c == ownerOf[a]
    IN  /\ job[j].pc = "idle" /\ Fresh(a)
        /\ c \in convs
        /\ dirs' = dirs \cup {c}
        /\ job' = [job EXCEPT ![j] = [pc |-> "upload", conv |-> c, att |-> a, todo |-> {}]]
        /\ excused' = IF \E i \in Jobs : DeletingConv(i) /\ job[i].conv = c
                      THEN excused \cup {a} ELSE excused
        /\ UNCHANGED <<convs, attached, ownerOf, files, ocr, kills>>

\* create_attachment_record looks for the conversation again: 404.
FindConversation(j) ==
    /\ job[j].pc = "upload"
    /\ job' = [job EXCEPT ![j] = IF @.conv \in convs THEN [@ EXCEPT !.pc = "found"] ELSE NoJob]
    /\ UNCHANGED <<convs, attached, ownerOf, files, dirs, ocr, kills, excused>>

HasRoom(c) == Cardinality(Of(c)) < MaxAttachments

\* The attachments are counted; with the answer the file is written, which fails
\* when the directory went with the last attachment meanwhile.
CountAndWrite(j) ==
    /\ job[j].pc = "found"
    /\ IF HasRoom(job[j].conv) /\ job[j].conv \in dirs
       THEN /\ files' = files \cup {job[j].att}
            /\ job' = [job EXCEPT ![j].pc = "written"]
       ELSE job' = [job EXCEPT ![j] = NoJob] /\ UNCHANGED files
    /\ UNCHANGED <<convs, attached, ownerOf, dirs, ocr, kills, excused>>

\* The row is committed; a conversation that was deleted meanwhile, or a locked
\* database, leaves the file behind.
CommitUpload(j) ==
    /\ job[j].pc = "written"
    /\ \/ job[j].conv \in convs /\ attached' = attached \cup {job[j].att} /\ UNCHANGED excused
       \/ excused' = excused \cup {job[j].att} /\ UNCHANGED attached
    /\ job' = [job EXCEPT ![j] = NoJob]
    /\ UNCHANGED <<convs, ownerOf, files, dirs, ocr, kills>>

\* save_ocr_result, during a turn of the conversation.
SaveOcr(c) ==
    /\ c \in convs /\ c \notin ocr
    /\ dirs' = dirs \cup {c} /\ ocr' = ocr \cup {c}
    /\ UNCHANGED <<convs, attached, ownerOf, files, job, kills, excused>>

-----------------------------------------------------------------------------
(* DELETE of an attachment, and of a conversation.                           *)

\* Mutated form: the directory goes whatever is in it.
Unlink_Tree(a) ==
    /\ files' = {b \in files : ownerOf[b] # ownerOf[a]}
    /\ dirs' = dirs \ {ownerOf[a]}

\* The file goes, and the directory when it is empty.
Unlink(a) ==
    /\ files' = files \ {a}
    /\ dirs' = IF ownerOf[a] \notin ocr /\ \A b \in files \ {a} : ownerOf[b] # ownerOf[a]
               THEN dirs \ {ownerOf[a]} ELSE dirs

\* delete_conversation_attachment: the row is found, the file goes first.
BeginDelete(j, a) ==
    /\ job[j].pc = "idle" /\ a \in attached
    /\ Unlink(a)
    /\ job' = [job EXCEPT ![j] = [pc |-> "unlinked", conv |-> ownerOf[a], att |-> a, todo |-> {}]]
    /\ UNCHANGED <<convs, attached, ownerOf, ocr, kills, excused>>

\* The row goes, or the commit fails and leaves it without its file.
CommitDelete(j) ==
    /\ job[j].pc = "unlinked"
    /\ \/ attached' = attached \ {job[j].att} /\ UNCHANGED excused
       \/ excused' = excused \cup {job[j].att} /\ UNCHANGED attached
    /\ job' = [job EXCEPT ![j] = NoJob]
    /\ UNCHANGED <<convs, ownerOf, files, dirs, ocr, kills>>

\* DELETE of a conversation: its attachments are listed.  Uploads that are on
\* their way are not on the list.
BeginDeleteConversation(j, c) ==
    /\ job[j].pc = "idle" /\ c \in convs
    /\ job' = [job EXCEPT ![j] = [NoJob EXCEPT !.pc = "listed", !.conv = c, !.todo = Of(c)]]
    /\ excused' = excused \cup {job[i].att : i \in {i \in Jobs : Uploading(i) /\ job[i].conv = c}}
    /\ UNCHANGED <<convs, attached, ownerOf, files, dirs, ocr, kills>>

\* One after the other; one that somebody else has deleted ends the request: 404.
DeleteListed(j) ==
    /\ job[j].pc = "listed"
    /\ \E a \in job[j].todo :
          IF a \in attached
          THEN /\ Unlink(a)
               /\ job' = [job EXCEPT ![j].pc = "oneUnlinked", ![j].att = a, ![j].todo = @ \ {a}]
          ELSE job' = [job EXCEPT ![j] = NoJob] /\ UNCHANGED <<files, dirs>>
    /\ UNCHANGED <<convs, attached, ownerOf, ocr, kills, excused>>

CommitListed(j) ==
    /\ job[j].pc = "oneUnlinked"
    /\ \/ /\ attached' = attached \ {job[j].att}
          /\ job' = [job EXCEPT ![j].pc = "listed"]
          /\ UNCHANGED excused
       \/ /\ excused' = excused \cup {job[j].att}
          /\ job' = [job EXCEPT ![j] = NoJob]
          /\ UNCHANGED attached
    /\ UNCHANGED <<convs, ownerOf, files, dirs, ocr, kills>>

MayDropConversation(x) == x.todo = {}

\* The conversation goes, and the rows that refer to it; its images went before.
DropConversation(j) ==
    /\ job[j].pc = "listed" /\ MayDropConversation(job[j])
    /\ convs' = convs \ {job[j].conv}
    /\ attached' = {a \in attached : ownerOf[a] # job[j].conv}
    /\ job' = [job EXCEPT ![j] = NoJob]
    /\ UNCHANGED <<ownerOf, files, dirs, ocr, kills, excused>>

\* The process dies; the rows and the files stay as they are.
KillProcess ==
    /\ kills < MaxKills
    /\ kills' = kills + 1
    /\ excused' = excused \cup {job[j].att : j \in {j \in Jobs : job[j].pc \in
                                    {"upload", "found", "written", "unlinked", "oneUnlinked"}}}
    /\ job' = [j \in Jobs |-> NoJob]
    /\ UNCHANGED <<convs, attached, ownerOf, files, dirs, ocr>>

-----------------------------------------------------------------------------

AttachmentsNext ==
    \/ \E c \in Convs : NewConversation(c) \/ SaveOcr(c)
    \/ \E j \in Jobs :
          \/ \E a \in Uploads : BeginUpload(j, a) \/ BeginDelete(j, a)
          \/ \E c \in Convs : BeginDeleteConversation(j, c)
          \/ FindConversation(j) \/ CountAndWrite(j) \/ CommitUpload(j)
          \/ CommitDelete(j) \/ DeleteListed(j) \/ CommitListed(j) \/ DropConversation(j)
    \/ KillProcess

AttachmentsSpec == AttachmentsInit /\ [][AttachmentsNext]_attachmentsVars

-----------------------------------------------------------------------------
(* Properties.                                                               *)

\* The file of an attachment that is listed can be read until its own deletion has
\* begun, whatever becomes of the other attachments of the directory; and a file
\* without a row is about to get one.  Only a fault, or an upload that overlaps the
\* deletion of its conversation, separates them for good.
RowHasFile(a) == a \in files \/ \E j \in Jobs : job[j].pc \in {"unlinked", "oneUnlinked"} /\ job[j].att = a
FileHasRow(a) == a \in attached \/ \E j \in Jobs : job[j].pc = "written" /\ job[j].att = a
FilesMatchRows == /\ \A a \in attached \ excused : RowHasFile(a)
                  /\ \A a \in files \ excused : FileHasRow(a)
=============================================================================
