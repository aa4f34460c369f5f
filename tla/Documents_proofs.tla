--------------------------- MODULE Documents_proofs ---------------------------
(***************************************************************************)
(* Proofs about what the service keeps of documents.                       *)
(*                                                                         *)
(* Attachments, for every number of conversations, uploads, requests and   *)
(* deaths of the process: files and rows match, except where a fault or an *)
(* overlapping deletion separated them.  What carries it: an upload on its *)
(* way owns its file name, no row has it and no deletion is at work on it; *)
(* and a deletion of a conversation still has on its list, or has          *)
(* unlinked, every row of the conversation that no upload added meanwhile. *)
(*                                                                         *)
(* RagIndex, for every number of sources, operations, writes and deaths of *)
(* the process, and for documents of any length: the index has of a source *)
(* exactly the chunks of its document.  What carries it: two operations    *)
(* that touch the same source both know that they raced.  An operation     *)
(* that did not race has in hand what the store has, and fills an index    *)
(* that it has emptied itself.  A change that nobody follows up makes the  *)
(* source unsure, and races with those who have read it, not with those    *)
(* who have yet to.                                                        *)
(***************************************************************************)
EXTENDS Attachments, RagIndex, TLAPS

-----------------------------------------------------------------------------
(* Attachments.                                                            *)


Unlinking(j) == job[j].pc \in {"unlinked", "oneUnlinked"}

UploadsInv ==
    /\ \A j \in Jobs : Uploading(j) => job[j].att \notin attached /\ job[j].conv = ownerOf[job[j].att]
    /\ \A i, j \in Jobs : Uploading(i) /\ Uploading(j) /\ job[i].att = job[j].att => i = j
    /\ \A j \in Jobs : job[j].pc = "written" => job[j].att \in files

UnlinksInv ==
    /\ \A j \in Jobs : Unlinking(j) => job[j].att \notin files
    /\ \A i, j \in Jobs : Uploading(i) /\ Unlinking(j) => job[i].att # job[j].att

DeletesInv ==
    /\ \A i, j \in Jobs : DeletingConv(j) /\ Uploading(i) /\ job[i].conv = job[j].conv
                          => job[i].att \in excused
    /\ \A j \in Jobs : DeletingConv(j) =>
          \A a \in attached \ excused : ownerOf[a] = job[j].conv => a \in job[j].todo \/ a \notin files

AttachInv == AttachmentsTypeOK /\ UploadsInv /\ UnlinksInv /\ DeletesInv /\ FilesMatchRows

-----------------------------------------------------------------------------
(* The requests.                                                            *)

LEMMA NoJobShape == NoJob \in JobRecords /\ NoJob.pc = "idle"
<1>1. (CHOOSE c \in Convs : TRUE) \in Convs /\ (CHOOSE a \in Uploads : TRUE) \in Uploads
  BY AttachmentsAssumption
<1>2. QED
  BY <1>1 DEF NoJob, JobRecords, JobStates

LEMMA JobFields ==
    ASSUME AttachmentsTypeOK, NEW j \in Jobs
    PROVE  /\ job[j] \in JobRecords /\ job[j].att \in Uploads /\ job[j].conv \in Convs
           /\ job[j].todo \subseteq Uploads /\ job[j].pc \in JobStates
BY DEF AttachmentsTypeOK, JobRecords

\* A request that goes on to state p.
LEMMA JobAt ==
    ASSUME NEW x \in JobRecords, NEW p \in JobStates, NEW y, y = [x EXCEPT !.pc = p]
    PROVE  /\ y \in JobRecords /\ y.pc = p /\ y.conv = x.conv /\ y.att = x.att /\ y.todo = x.todo
BY DEF JobRecords

\* One request moves.
LEMMA JobMoves ==
    ASSUME AttachmentsTypeOK, NEW j \in Jobs, NEW y \in JobRecords, job' = [job EXCEPT ![j] = y]
    PROVE  job' \in [Jobs -> JobRecords] /\ \A i \in Jobs : job'[i] = IF i = j THEN y ELSE job[i]
BY DEF AttachmentsTypeOK

\* What the steps of an upload do to their request and to the files.
LEMMA UploadShapes ==
    ASSUME AttachmentsTypeOK, NEW j \in Jobs
    PROVE  /\ \A a \in Uploads : BeginUpload(j, a) =>
                 \E y \in JobRecords : job' = [job EXCEPT ![j] = y] /\ y.pc = "upload" /\ y.att = a
                                       /\ y.conv = ownerOf[a]
           /\ FindConversation(j) =>
                 \E y \in JobRecords : /\ job' = [job EXCEPT ![j] = y]
                                       /\ \/ y.pc = "idle"
                                          \/ y.pc = "found" /\ y.att = job[j].att /\ y.conv = job[j].conv
           /\ CountAndWrite(j) =>
                 \E y \in JobRecords :
                    /\ job' = [job EXCEPT ![j] = y]
                    /\ \/ y.pc = "idle" /\ UNCHANGED files
                       \/ /\ y.pc = "written" /\ y.att = job[j].att /\ y.conv = job[j].conv
                          /\ files' = files \cup {job[j].att}
<1>1. \A p \in {"upload", "found", "written", "idle"} : p \in JobStates
  BY DEF JobStates
<1>2. ASSUME NEW a \in Uploads, BeginUpload(j, a)
      PROVE  \E y \in JobRecords : job' = [job EXCEPT ![j] = y] /\ y.pc = "upload" /\ y.att = a
                                   /\ y.conv = ownerOf[a]
  <2> DEFINE y == [pc |-> "upload", conv |-> ownerOf[a], att |-> a, todo |-> {}]
  <2>1. y \in JobRecords /\ y.pc = "upload" /\ y.att = a /\ y.conv = ownerOf[a]
    BY <1>1 DEF JobRecords, AttachmentsTypeOK
  <2>2. job' = [job EXCEPT ![j] = y]
    BY <1>2 DEF BeginUpload
  <2>3. QED
    BY <2>1, <2>2
<1>3. ASSUME FindConversation(j)
      PROVE  \E y \in JobRecords : /\ job' = [job EXCEPT ![j] = y]
                                   /\ \/ y.pc = "idle"
                                      \/ y.pc = "found" /\ y.att = job[j].att /\ y.conv = job[j].conv
  <2> DEFINE x == [job[j] EXCEPT !.pc = "found"]
  <2>1. x \in JobRecords /\ x.pc = "found" /\ x.att = job[j].att /\ x.conv = job[j].conv
    BY <1>1, JobFields, JobAt
  <2>2. job' = [job EXCEPT ![j] = x] \/ job' = [job EXCEPT ![j] = NoJob]
    BY <1>3 DEF FindConversation
  <2> HIDE DEF x
  <2>3. QED
    BY <2>1, <2>2, NoJobShape
<1>4. ASSUME CountAndWrite(j)
      PROVE  \E y \in JobRecords :
                /\ job' = [job EXCEPT ![j] = y]
                /\ \/ y.pc = "idle" /\ UNCHANGED files
                   \/ /\ y.pc = "written" /\ y.att = job[j].att /\ y.conv = job[j].conv
                      /\ files' = files \cup {job[j].att}
  <2> DEFINE x == [job[j] EXCEPT !.pc = "written"]
  <2>1. x \in JobRecords /\ x.pc = "written" /\ x.att = job[j].att /\ x.conv = job[j].conv
    BY <1>1, JobFields, JobAt
  <2>2. \/ job' = [job EXCEPT ![j] = x] /\ files' = files \cup {job[j].att}
        \/ job' = [job EXCEPT ![j] = NoJob] /\ UNCHANGED files
    BY <1>4 DEF CountAndWrite
  <2> HIDE DEF x
  <2>3. QED
    BY <2>1, <2>2, NoJobShape
<1>5. QED
  BY <1>2, <1>3, <1>4

\* What the steps of a deletion do to their request, the rows and the files.
LEMMA DeleteShapes ==
    ASSUME AttachmentsTypeOK, NEW j \in Jobs
    PROVE  /\ \A a \in Uploads : BeginDelete(j, a) =>
                 \E y \in JobRecords : job' = [job EXCEPT ![j] = y] /\ y.pc = "unlinked" /\ y.att = a
           /\ \A c \in Convs : BeginDeleteConversation(j, c) =>
                 \E y \in JobRecords : job' = [job EXCEPT ![j] = y] /\ y.pc = "listed" /\ y.conv = c
                                       /\ y.todo = Of(c)
           /\ DeleteListed(j) =>
                 \E a \in job[j].todo : \E y \in JobRecords :
                    /\ job' = [job EXCEPT ![j] = y]
                    /\ \/ y.pc = "idle" /\ UNCHANGED files
                       \/ /\ y.pc = "oneUnlinked" /\ y.att = a /\ y.conv = job[j].conv
                          /\ y.todo = job[j].todo \ {a} /\ a \in attached /\ files' = files \ {a}
           /\ CommitListed(j) =>
                 \E y \in JobRecords :
                    /\ job' = [job EXCEPT ![j] = y]
                    /\ \/ /\ y.pc = "listed" /\ y.conv = job[j].conv /\ y.todo = job[j].todo
                          /\ attached' = attached \ {job[j].att} /\ UNCHANGED excused
                       \/ y.pc = "idle" /\ excused' = excused \cup {job[j].att} /\ UNCHANGED attached
<1>1. \A p \in {"unlinked", "listed", "oneUnlinked"} : p \in JobStates
  BY DEF JobStates
<1>2. ASSUME NEW a \in Uploads, BeginDelete(j, a)
      PROVE  \E y \in JobRecords : job' = [job EXCEPT ![j] = y] /\ y.pc = "unlinked" /\ y.att = a
  <2> DEFINE y == [pc |-> "unlinked", conv |-> ownerOf[a], att |-> a, todo |-> {}]
  <2>1. y \in JobRecords /\ y.pc = "unlinked" /\ y.att = a
    BY <1>1 DEF JobRecords, AttachmentsTypeOK
  <2>2. job' = [job EXCEPT ![j] = y]
    BY <1>2 DEF BeginDelete
  <2>3. QED
    BY <2>1, <2>2
<1>3. ASSUME NEW c \in Convs, BeginDeleteConversation(j, c)
      PROVE  \E y \in JobRecords : job' = [job EXCEPT ![j] = y] /\ y.pc = "listed" /\ y.conv = c
                                   /\ y.todo = Of(c)
  <2> DEFINE y == [NoJob EXCEPT !.pc = "listed", !.conv = c, !.todo = Of(c)]
  <2>1. Of(c) \subseteq Uploads
    BY DEF Of, AttachmentsTypeOK
  <2>2. y \in JobRecords /\ y.pc = "listed" /\ y.conv = c /\ y.todo = Of(c)
    BY <1>1, <2>1, NoJobShape DEF JobRecords
  <2>3. job' = [job EXCEPT ![j] = y]
    BY <1>3 DEF BeginDeleteConversation
  <2>4. QED
    BY <2>2, <2>3
<1>4. ASSUME DeleteListed(j)
      PROVE  \E a \in job[j].todo : \E y \in JobRecords :
                /\ job' = [job EXCEPT ![j] = y]
                /\ \/ y.pc = "idle" /\ UNCHANGED files
                   \/ /\ y.pc = "oneUnlinked" /\ y.att = a /\ y.conv = job[j].conv
                      /\ y.todo = job[j].todo \ {a} /\ a \in attached /\ files' = files \ {a}
  <2>1. PICK a \in job[j].todo :
          IF a \in attached
          THEN /\ Unlink(a)
               /\ job' = [job EXCEPT ![j].pc = "oneUnlinked", ![j].att = a, ![j].todo = @ \ {a}]
          ELSE job' = [job EXCEPT ![j] = NoJob] /\ UNCHANGED <<files, dirs>>
    BY <1>4 DEF DeleteListed
  <2> DEFINE x == [job[j] EXCEPT !.pc = "oneUnlinked", !.att = a, !.todo = @ \ {a}]
  <2>2. a \in Uploads /\ job[j].todo \ {a} \subseteq Uploads /\ job[j] \in JobRecords
    BY JobFields
  <2>3. x \in JobRecords /\ x.pc = "oneUnlinked" /\ x.att = a /\ x.conv = job[j].conv
        /\ x.todo = job[j].todo \ {a}
    BY <1>1, <2>2 DEF JobRecords
  <2>4. CASE a \in attached
    <3>1. job' = [job EXCEPT ![j].pc = "oneUnlinked", ![j].att = a, ![j].todo = @ \ {a}]
          /\ files' = files \ {a}
      BY <2>1, <2>4 DEF Unlink
    <3>2. job' = [job EXCEPT ![j] = x]
      BY <3>1, Zenon DEF AttachmentsTypeOK
    <3> HIDE DEF x
    <3>3. QED
      BY <2>3, <2>4, <3>1, <3>2
  <2>5. CASE a \notin attached
    BY <2>1, <2>5, NoJobShape
  <2>6. QED
    BY <2>4, <2>5
<1>5. ASSUME CommitListed(j)
      PROVE  \E y \in JobRecords :
                /\ job' = [job EXCEPT ![j] = y]
                /\ \/ /\ y.pc = "listed" /\ y.conv = job[j].conv /\ y.todo = job[j].todo
                      /\ attached' = attached \ {job[j].att} /\ UNCHANGED excused
                   \/ y.pc = "idle" /\ excused' = excused \cup {job[j].att} /\ UNCHANGED attached
  <2> DEFINE x == [job[j] EXCEPT !.pc = "listed"]
  <2>1. x \in JobRecords /\ x.pc = "listed" /\ x.conv = job[j].conv /\ x.todo = job[j].todo
    BY <1>1, JobFields, JobAt
  <2>2. \/ /\ job' = [job EXCEPT ![j] = x] /\ attached' = attached \ {job[j].att}
           /\ UNCHANGED excused
        \/ /\ job' = [job EXCEPT ![j] = NoJob] /\ excused' = excused \cup {job[j].att}
           /\ UNCHANGED attached
    BY <1>5 DEF CommitListed
  <2> HIDE DEF x
  <2>3. QED
    BY <2>1, <2>2, NoJobShape
<1>6. QED
  BY <1>2, <1>3, <1>4, <1>5

-----------------------------------------------------------------------------
(* The steps.                                                               *)

LEMMA Types ==
    ASSUME AttachmentsTypeOK, [AttachmentsNext]_attachmentsVars
    PROVE  AttachmentsTypeOK'
<1>1. ASSUME NEW c \in Convs, NewConversation(c) \/ SaveOcr(c) PROVE AttachmentsTypeOK'
  BY <1>1 DEF AttachmentsTypeOK, NewConversation, SaveOcr
<1>2. ASSUME NEW j \in Jobs, NEW y \in JobRecords, job' = [job EXCEPT ![j] = y],
             ownerOf' = ownerOf, kills' = kills,
             convs' \subseteq Convs, dirs' \subseteq Convs, ocr' \subseteq Convs,
             attached' \subseteq Uploads, files' \subseteq Uploads, excused' \subseteq Uploads
      PROVE  AttachmentsTypeOK'
  <2>1. job' \in [Jobs -> JobRecords]
    BY <1>2, JobMoves
  <2>2. QED
    BY <1>2, <2>1 DEF AttachmentsTypeOK
<1>3. ASSUME NEW j \in Jobs, NEW a \in Uploads, BeginUpload(j, a) PROVE AttachmentsTypeOK'
  <2>1. PICK y \in JobRecords : job' = [job EXCEPT ![j] = y]
    BY <1>3, UploadShapes
  <2>2. QED
    BY <1>2, <1>3, <2>1 DEF BeginUpload, AttachmentsTypeOK
<1>4. ASSUME NEW j \in Jobs, FindConversation(j) PROVE AttachmentsTypeOK'
  <2>1. PICK y \in JobRecords : job' = [job EXCEPT ![j] = y]
    BY <1>4, UploadShapes
  <2>2. QED
    BY <1>2, <1>4, <2>1 DEF FindConversation, AttachmentsTypeOK
<1>5. ASSUME NEW j \in Jobs, CountAndWrite(j) PROVE AttachmentsTypeOK'
  <2>1. PICK y \in JobRecords : job' = [job EXCEPT ![j] = y]
    BY <1>5, UploadShapes
  <2>2. files' \subseteq Uploads
    BY <1>5, JobFields DEF CountAndWrite, AttachmentsTypeOK
  <2>3. QED
    BY <1>2, <1>5, <2>1, <2>2 DEF CountAndWrite, AttachmentsTypeOK
<1>6. ASSUME NEW j \in Jobs, CommitUpload(j) \/ CommitDelete(j) PROVE AttachmentsTypeOK'
  <2>1. job' = [job EXCEPT ![j] = NoJob]
    BY <1>6 DEF CommitUpload, CommitDelete
  <2>2. attached' \subseteq Uploads /\ excused' \subseteq Uploads
    BY <1>6, JobFields DEF CommitUpload, CommitDelete, AttachmentsTypeOK
  <2>3. QED
    BY <1>2, <1>6, <2>1, <2>2, NoJobShape DEF CommitUpload, CommitDelete, AttachmentsTypeOK
<1>7. ASSUME NEW j \in Jobs, NEW a \in Uploads, BeginDelete(j, a) PROVE AttachmentsTypeOK'
  <2>1. PICK y \in JobRecords : job' = [job EXCEPT ![j] = y]
    BY <1>7, DeleteShapes
  <2>2. files' \subseteq Uploads /\ dirs' \subseteq Convs
    BY <1>7 DEF BeginDelete, Unlink, AttachmentsTypeOK
  <2>3. QED
    BY <1>2, <1>7, <2>1, <2>2 DEF BeginDelete, AttachmentsTypeOK
<1>8. ASSUME NEW j \in Jobs, NEW c \in Convs, BeginDeleteConversation(j, c) PROVE AttachmentsTypeOK'
  <2>1. PICK y \in JobRecords : job' = [job EXCEPT ![j] = y]
    BY <1>8, DeleteShapes
  <2>2. excused' \subseteq Uploads
    BY <1>8, JobFields DEF BeginDeleteConversation, AttachmentsTypeOK
  <2>3. QED
    BY <1>2, <1>8, <2>1, <2>2 DEF BeginDeleteConversation, AttachmentsTypeOK
<1>9. ASSUME NEW j \in Jobs, DeleteListed(j) PROVE AttachmentsTypeOK'
  <2>1. PICK y \in JobRecords : job' = [job EXCEPT ![j] = y]
    BY <1>9, DeleteShapes
  <2>2. files' \subseteq Uploads /\ dirs' \subseteq Convs
    BY <1>9 DEF DeleteListed, Unlink, AttachmentsTypeOK
  <2>3. QED
    BY <1>2, <1>9, <2>1, <2>2 DEF DeleteListed, AttachmentsTypeOK
<1>10. ASSUME NEW j \in Jobs, CommitListed(j) PROVE AttachmentsTypeOK'
  <2>1. PICK y \in JobRecords : job' = [job EXCEPT ![j] = y]
    BY <1>10, DeleteShapes
  <2>2. attached' \subseteq Uploads /\ excused' \subseteq Uploads
    BY <1>10, JobFields DEF CommitListed, AttachmentsTypeOK
  <2>3. QED
    BY <1>2, <1>10, <2>1, <2>2 DEF CommitListed, AttachmentsTypeOK
<1>11. ASSUME NEW j \in Jobs, DropConversation(j) PROVE AttachmentsTypeOK'
  <2>1. job' = [job EXCEPT ![j] = NoJob]
    BY <1>11 DEF DropConversation
  <2>2. QED
    BY <1>2, <1>11, <2>1, NoJobShape DEF DropConversation, AttachmentsTypeOK
<1>12. CASE KillProcess
  <2>1. job' \in [Jobs -> JobRecords]
    BY <1>12, NoJobShape DEF KillProcess
  <2>2. excused' \subseteq Uploads
    BY <1>12, JobFields DEF KillProcess, AttachmentsTypeOK
  <2>3. kills' \in 0..MaxKills
    BY <1>12, AttachmentsAssumption DEF KillProcess, AttachmentsTypeOK
  <2>4. QED
    BY <1>12, <2>1, <2>2, <2>3 DEF KillProcess, AttachmentsTypeOK
<1>13. CASE UNCHANGED attachmentsVars
  BY <1>13 DEF attachmentsVars, AttachmentsTypeOK
<1>14. QED
  BY <1>1, <1>3, <1>4, <1>5, <1>6, <1>7, <1>8, <1>9, <1>10, <1>11, <1>12, <1>13
     DEF AttachmentsNext

\* The invariant without the types.
Rest == UploadsInv /\ UnlinksInv /\ DeletesInv /\ FilesMatchRows

\* Uploads.
LEMMA UploadSteps ==
    ASSUME AttachInv, NEW j \in Jobs
    PROVE  /\ \A a \in Uploads : BeginUpload(j, a) => Rest'
           /\ FindConversation(j) => Rest'
           /\ CountAndWrite(j) => Rest'
           /\ CommitUpload(j) => Rest'
<1> USE DEF UploadsInv, UnlinksInv, DeletesInv, FilesMatchRows, RowHasFile, FileHasRow,
            Uploading, Unlinking, DeletingConv
<1>0. AttachmentsTypeOK /\ Rest
  BY DEF AttachInv, Rest
<1>1. ASSUME NEW a \in Uploads, BeginUpload(j, a) PROVE Rest'
  <2>1. PICK y \in JobRecords : job' = [job EXCEPT ![j] = y] /\ y.pc = "upload" /\ y.att = a
                                 /\ y.conv = ownerOf[a]
    BY <1>0, <1>1, UploadShapes
  <2>2. \A i \in Jobs : job'[i] = IF i = j THEN y ELSE job[i]
    BY <1>0, <2>1, JobMoves
  <2>3. /\ UNCHANGED <<attached, ownerOf, files>> /\ Fresh(a) /\ job[j].pc = "idle"
        /\ excused \subseteq excused'
        /\ (\E i \in Jobs : DeletingConv(i) /\ job[i].conv = ownerOf[a]) => a \in excused'
    BY <1>1 DEF BeginUpload
  <2>4. UploadsInv'
    BY <1>0, <2>1, <2>2, <2>3 DEF Rest, Fresh
  <2>5. UnlinksInv'
    BY <1>0, <2>1, <2>2, <2>3 DEF Rest, Fresh
  <2>6. DeletesInv'
    BY <1>0, <2>1, <2>2, <2>3 DEF Rest, Fresh
  <2>7. FilesMatchRows'
    BY <1>0, <2>1, <2>2, <2>3 DEF Rest, Fresh
  <2>8. QED
    BY <2>4, <2>5, <2>6, <2>7 DEF Rest
<1>2. ASSUME FindConversation(j) PROVE Rest'
  <2>1. PICK y \in JobRecords : /\ job' = [job EXCEPT ![j] = y]
                                /\ \/ y.pc = "idle"
                                   \/ y.pc = "found" /\ y.att = job[j].att /\ y.conv = job[j].conv
    BY <1>0, <1>2, UploadShapes
  <2>2. \A i \in Jobs : job'[i] = IF i = j THEN y ELSE job[i]
    BY <1>0, <2>1, JobMoves
  <2>3. UNCHANGED <<attached, ownerOf, files, excused>> /\ job[j].pc = "upload"
    BY <1>2 DEF FindConversation
  <2>4. UploadsInv'
    BY <1>0, <2>1, <2>2, <2>3 DEF Rest
  <2>5. UnlinksInv'
    BY <1>0, <2>1, <2>2, <2>3 DEF Rest
  <2>6. DeletesInv'
    BY <1>0, <2>1, <2>2, <2>3 DEF Rest
  <2>7. FilesMatchRows'
    BY <1>0, <2>1, <2>2, <2>3 DEF Rest
  <2>8. QED
    BY <2>4, <2>5, <2>6, <2>7 DEF Rest
<1>3. ASSUME CountAndWrite(j) PROVE Rest'
  <2>1. PICK y \in JobRecords :
          /\ job' = [job EXCEPT ![j] = y]
          /\ \/ y.pc = "idle" /\ UNCHANGED files
             \/ /\ y.pc = "written" /\ y.att = job[j].att /\ y.conv = job[j].conv
                /\ files' = files \cup {job[j].att}
    BY <1>0, <1>3, UploadShapes
  <2>2. \A i \in Jobs : job'[i] = IF i = j THEN y ELSE job[i]
    BY <1>0, <2>1, JobMoves
  <2>3. UNCHANGED <<attached, ownerOf, excused>> /\ job[j].pc = "found"
    BY <1>3 DEF CountAndWrite
  <2>4. UploadsInv'
    BY <1>0, <2>1, <2>2, <2>3 DEF Rest
  <2>5. UnlinksInv'
    BY <1>0, <2>1, <2>2, <2>3 DEF Rest
  <2>6. DeletesInv'
    BY <1>0, <2>1, <2>2, <2>3 DEF Rest
  <2>7. FilesMatchRows'
    BY <1>0, <2>1, <2>2, <2>3 DEF Rest
  <2>8. QED
    BY <2>4, <2>5, <2>6, <2>7 DEF Rest
<1>4. ASSUME CommitUpload(j) PROVE Rest'
  <2>2. \A i \in Jobs : job'[i] = IF i = j THEN NoJob ELSE job[i]
    BY <1>0, <1>4, JobMoves, NoJobShape DEF CommitUpload
  <2>3. /\ UNCHANGED <<ownerOf, files>> /\ job[j].pc = "written"
        /\ \/ attached' = attached \cup {job[j].att} /\ UNCHANGED excused
           \/ excused' = excused \cup {job[j].att} /\ UNCHANGED attached
    BY <1>4 DEF CommitUpload
  <2>4. UploadsInv'
    BY <1>0, <2>2, <2>3, NoJobShape DEF Rest
  <2>5. UnlinksInv'
    BY <1>0, <2>2, <2>3, NoJobShape DEF Rest
  <2>6. DeletesInv'
    BY <1>0, <2>2, <2>3, NoJobShape DEF Rest
  <2>7. FilesMatchRows'
    BY <1>0, <2>2, <2>3, NoJobShape DEF Rest
  <2>8. QED
    BY <2>4, <2>5, <2>6, <2>7 DEF Rest
<1>5. QED
  BY <1>1, <1>2, <1>3, <1>4

\* Deletions.
LEMMA DeleteSteps ==
    ASSUME AttachInv, NEW j \in Jobs
    PROVE  /\ \A a \in Uploads : BeginDelete(j, a) => Rest'
           /\ CommitDelete(j) => Rest'
           /\ \A c \in Convs : BeginDeleteConversation(j, c) => Rest'
           /\ DeleteListed(j) => Rest'
           /\ CommitListed(j) => Rest'
           /\ DropConversation(j) => Rest'
<1> USE DEF UploadsInv, UnlinksInv, DeletesInv, FilesMatchRows, RowHasFile, FileHasRow,
            Uploading, Unlinking, DeletingConv
<1>0. AttachmentsTypeOK /\ Rest
  BY DEF AttachInv, Rest
<1>1. ASSUME NEW a \in Uploads, BeginDelete(j, a) PROVE Rest'
  <2>1. PICK y \in JobRecords : job' = [job EXCEPT ![j] = y] /\ y.pc = "unlinked" /\ y.att = a
    BY <1>0, <1>1, DeleteShapes
  <2>2. \A i \in Jobs : job'[i] = IF i = j THEN y ELSE job[i]
    BY <1>0, <2>1, JobMoves
  <2>3. UNCHANGED <<attached, ownerOf, excused>> /\ job[j].pc = "idle" /\ a \in attached
        /\ files' = files \ {a}
    BY <1>1 DEF BeginDelete, Unlink
  <2>4. UploadsInv'
    BY <1>0, <2>1, <2>2, <2>3 DEF Rest
  <2>5. UnlinksInv'
    BY <1>0, <2>1, <2>2, <2>3 DEF Rest
  <2>6. DeletesInv'
    BY <1>0, <2>1, <2>2, <2>3 DEF Rest
  <2>7. FilesMatchRows'
    BY <1>0, <2>1, <2>2, <2>3 DEF Rest
  <2>8. QED
    BY <2>4, <2>5, <2>6, <2>7 DEF Rest
<1>2. ASSUME CommitDelete(j) PROVE Rest'
  <2>2. \A i \in Jobs : job'[i] = IF i = j THEN NoJob ELSE job[i]
    BY <1>0, <1>2, JobMoves, NoJobShape DEF CommitDelete
  <2>3. /\ UNCHANGED <<ownerOf, files>> /\ job[j].pc = "unlinked"
        /\ \/ attached' = attached \ {job[j].att} /\ UNCHANGED excused
           \/ excused' = excused \cup {job[j].att} /\ UNCHANGED attached
    BY <1>2 DEF CommitDelete
  <2>4. UploadsInv'
    BY <1>0, <2>2, <2>3, NoJobShape DEF Rest
  <2>5. UnlinksInv'
    BY <1>0, <2>2, <2>3, NoJobShape DEF Rest
  <2>6. DeletesInv'
    BY <1>0, <2>2, <2>3, NoJobShape DEF Rest
  <2>7. FilesMatchRows'
    BY <1>0, <2>2, <2>3, NoJobShape DEF Rest
  <2>8. QED
    BY <2>4, <2>5, <2>6, <2>7 DEF Rest
<1>3. ASSUME NEW c \in Convs, BeginDeleteConversation(j, c) PROVE Rest'
  <2>1. PICK y \in JobRecords : job' = [job EXCEPT ![j] = y] /\ y.pc = "listed" /\ y.conv = c
                                 /\ y.todo = Of(c)
    BY <1>0, <1>3, DeleteShapes
  <2>2. \A i \in Jobs : job'[i] = IF i = j THEN y ELSE job[i]
    BY <1>0, <2>1, JobMoves
  <2>3. /\ UNCHANGED <<attached, ownerOf, files>> /\ job[j].pc = "idle" /\ excused \subseteq excused'
        /\ \A i \in Jobs : Uploading(i) /\ job[i].conv = c => job[i].att \in excused'
    BY <1>3 DEF BeginDeleteConversation
  <2>4. UploadsInv'
    BY <1>0, <2>1, <2>2, <2>3 DEF Rest, Of
  <2>5. UnlinksInv'
    BY <1>0, <2>1, <2>2, <2>3 DEF Rest, Of
  <2>6. DeletesInv'
    BY <1>0, <2>1, <2>2, <2>3 DEF Rest, Of
  <2>7. FilesMatchRows'
    BY <1>0, <2>1, <2>2, <2>3 DEF Rest, Of
  <2>8. QED
    BY <2>4, <2>5, <2>6, <2>7 DEF Rest
<1>4. ASSUME DeleteListed(j) PROVE Rest'
  <2>1. PICK a \in job[j].todo, y \in JobRecords :
          /\ job' = [job EXCEPT ![j] = y]
          /\ \/ y.pc = "idle" /\ UNCHANGED files
             \/ /\ y.pc = "oneUnlinked" /\ y.att = a /\ y.conv = job[j].conv
                /\ y.todo = job[j].todo \ {a} /\ a \in attached /\ files' = files \ {a}
    BY <1>0, <1>4, DeleteShapes
  <2>2. \A i \in Jobs : job'[i] = IF i = j THEN y ELSE job[i]
    BY <1>0, <2>1, JobMoves
  <2>3. UNCHANGED <<attached, ownerOf, excused>> /\ job[j].pc = "listed"
    BY <1>4 DEF DeleteListed
  <2>4. UploadsInv'
    BY <1>0, <2>1, <2>2, <2>3 DEF Rest
  <2>5. UnlinksInv'
    BY <1>0, <2>1, <2>2, <2>3 DEF Rest
  <2>6. DeletesInv'
    BY <1>0, <2>1, <2>2, <2>3 DEF Rest
  <2>7. FilesMatchRows'
    BY <1>0, <2>1, <2>2, <2>3 DEF Rest
  <2>8. QED
    BY <2>4, <2>5, <2>6, <2>7 DEF Rest
<1>5. ASSUME CommitListed(j) PROVE Rest'
  <2>1. PICK y \in JobRecords :
          /\ job' = [job EXCEPT ![j] = y]
          /\ \/ /\ y.pc = "listed" /\ y.conv = job[j].conv /\ y.todo = job[j].todo
                /\ attached' = attached \ {job[j].att} /\ UNCHANGED excused
             \/ y.pc = "idle" /\ excused' = excused \cup {job[j].att} /\ UNCHANGED attached
    BY <1>0, <1>5, DeleteShapes
  <2>2. \A i \in Jobs : job'[i] = IF i = j THEN y ELSE job[i]
    BY <1>0, <2>1, JobMoves
  <2>3. UNCHANGED <<ownerOf, files>> /\ job[j].pc = "oneUnlinked"
    BY <1>5 DEF CommitListed
  <2>4. UploadsInv'
    BY <1>0, <2>1, <2>2, <2>3 DEF Rest
  <2>5. UnlinksInv'
    BY <1>0, <2>1, <2>2, <2>3 DEF Rest
  <2>6. DeletesInv'
    BY <1>0, <2>1, <2>2, <2>3 DEF Rest
  <2>7. FilesMatchRows'
    BY <1>0, <2>1, <2>2, <2>3 DEF Rest
  <2>8. QED
    BY <2>4, <2>5, <2>6, <2>7 DEF Rest
<1>6. ASSUME DropConversation(j) PROVE Rest'
  <2>2. \A i \in Jobs : job'[i] = IF i = j THEN NoJob ELSE job[i]
    BY <1>0, <1>6, JobMoves, NoJobShape DEF DropConversation
  <2>3. /\ UNCHANGED <<ownerOf, files, excused>> /\ job[j].pc = "listed" /\ job[j].todo = {}
        /\ attached' = {a \in attached : ownerOf[a] # job[j].conv}
    BY <1>6 DEF DropConversation, MayDropConversation
  <2>4. UploadsInv'
    BY <1>0, <2>2, <2>3, NoJobShape DEF Rest
  <2>5. UnlinksInv'
    BY <1>0, <2>2, <2>3, NoJobShape DEF Rest
  <2>6. DeletesInv'
    BY <1>0, <2>2, <2>3, NoJobShape DEF Rest
  <2>7. FilesMatchRows'
    BY <1>0, <2>2, <2>3, NoJobShape DEF Rest
  <2>8. QED
    BY <2>4, <2>5, <2>6, <2>7 DEF Rest
<1>7. QED
  BY <1>1, <1>2, <1>3, <1>4, <1>5, <1>6

\* The process dies: whoever was between a file and its row is excused.
LEMMA KillStep ==
    ASSUME AttachInv, KillProcess
    PROVE  Rest'
<1> USE DEF UploadsInv, UnlinksInv, DeletesInv, FilesMatchRows, RowHasFile, FileHasRow,
            Uploading, Unlinking, DeletingConv
<1>1. AttachmentsTypeOK /\ Rest
  BY DEF AttachInv, Rest
<1>2. \A j \in Jobs : job'[j].pc = "idle"
  BY NoJobShape DEF KillProcess
<1>3. /\ UNCHANGED <<attached, ownerOf, files>> /\ excused \subseteq excused'
      /\ \A j \in Jobs : job[j].pc \in {"written", "unlinked", "oneUnlinked"} => job[j].att \in excused'
  BY DEF KillProcess
<1>4. QED
  BY <1>1, <1>2, <1>3 DEF Rest

LEMMA AttachStep == AttachInv /\ [AttachmentsNext]_attachmentsVars => AttachInv'
<1>1. SUFFICES ASSUME AttachInv, [AttachmentsNext]_attachmentsVars PROVE AttachInv'
  OBVIOUS
<1>2. AttachmentsTypeOK'
  BY <1>1, Types DEF AttachInv
<1>3. ASSUME UNCHANGED <<attached, ownerOf, files, job, excused>> PROVE Rest'
  BY <1>1, <1>3 DEF AttachInv, Rest, UploadsInv, UnlinksInv, DeletesInv, FilesMatchRows, RowHasFile,
                    FileHasRow, Uploading, Unlinking, DeletingConv
<1>4. Rest'
  <2>1. CASE \E c \in Convs : NewConversation(c) \/ SaveOcr(c)
    BY <1>3, <2>1 DEF NewConversation, SaveOcr
  <2>2. CASE \E j \in Jobs :
          \/ \E a \in Uploads : BeginUpload(j, a) \/ BeginDelete(j, a)
          \/ \E c \in Convs : BeginDeleteConversation(j, c)
          \/ FindConversation(j) \/ CountAndWrite(j) \/ CommitUpload(j)
          \/ CommitDelete(j) \/ DeleteListed(j) \/ CommitListed(j) \/ DropConversation(j)
    BY <1>1, <2>2, UploadSteps, DeleteSteps
  <2>3. CASE KillProcess
    BY <1>1, <2>3, KillStep
  <2>4. CASE UNCHANGED attachmentsVars
    BY <1>3, <2>4 DEF attachmentsVars
  <2>5. QED
    BY <1>1, <2>1, <2>2, <2>3, <2>4 DEF AttachmentsNext
<1>5. QED
  BY <1>2, <1>4 DEF AttachInv, Rest

LEMMA AttachInit == AttachmentsInit => AttachInv
<1>1. SUFFICES ASSUME AttachmentsInit PROVE AttachInv
  OBVIOUS
<1>2. \A j \in Jobs : job[j] = NoJob /\ job[j].pc = "idle"
  BY <1>1, NoJobShape DEF AttachmentsInit
<1>3. AttachmentsTypeOK
  BY <1>1, NoJobShape, AttachmentsAssumption DEF AttachmentsInit, AttachmentsTypeOK
<1>4. attached = {} /\ files = {}
  BY <1>1 DEF AttachmentsInit
<1>5. UploadsInv /\ UnlinksInv /\ DeletesInv /\ FilesMatchRows
  BY <1>2, <1>4 DEF UploadsInv, UnlinksInv, DeletesInv, FilesMatchRows, Uploading, Unlinking,
                    DeletingConv
<1>6. QED
  BY <1>3, <1>5 DEF AttachInv

LEMMA AttachInvHolds == AttachmentsSpec => []AttachInv
BY AttachInit, AttachStep, PTL DEF AttachmentsSpec

-----------------------------------------------------------------------------
(* The theorems.                                                            *)

\* Rows, files and requests stay what the code takes them for.
THEOREM AttachmentTypes == AttachmentsSpec => []AttachmentsTypeOK
<1>1. AttachInv => AttachmentsTypeOK
  BY DEF AttachInv
<1>2. QED
  BY <1>1, AttachInvHolds, PTL

\* The file of a listed attachment can be read until its own deletion begins, and a file
\* without a row is about to get one: however uploads and deletions of attachments and of
\* whole conversations interleave, except where a fault, or an upload that overlaps
\* the deletion of its conversation, separated the two.
THEOREM FilesAndRowsMatch == AttachmentsSpec => []FilesMatchRows
<1>1. AttachInv => FilesMatchRows
  BY DEF AttachInv
<1>2. QED
  BY <1>1, AttachInvHolds, PTL

-----------------------------------------------------------------------------
(* The index.                                                              *)


\* Operation x is at work on source s.
AtWork(x, s) == x.pc \notin {"idle", "loading"} /\ x.src = s

RaceInv ==
    \A o, q \in Ops : o # q => Touches(op[o]) \cap Touches(op[q]) \subseteq op[o].raced

\* What operation x, that did not race for source s, knows of it.
Knows(x, s) ==
    /\ x.read[s] # NoDocument => x.read[s] = stored[s]
    /\ AtWork(x, s) =>
          /\ x.pc \in {"embedding", "emptying", "filling"} => x.doc = stored[s]
          /\ x.pc = "filling" => index[s] = NoChunks
          /\ x.pc = "erasing" => stored[s] = NoDocument

KnowsInv == \A o \in Ops : \A s \in Sources : s \notin op[o].raced => Knows(op[o], s)

QuietInv ==
    \A s \in Sources \ unsure :
        (\A o \in Ops : ~AtWork(op[o], s)) => index[s] = ChunksOf(stored[s])

RagInv == RagTypeOK /\ RaceInv /\ KnowsInv /\ QuietInv

-----------------------------------------------------------------------------
(* The operations.                                                          *)

LEMMA DocumentTypes ==
    /\ NoDocument \in Documents /\ NoChunks \in Chunks
    /\ \A d \in Documents : ChunksOf(d) \in Chunks
<1>1. NoDocument \in Documents
  BY RagAssumption DEF NoDocument, Documents
<1>2. ASSUME NEW d \in Documents
      PROVE  ChunksOf(d) \in Chunks
  <2>1. d.ver \in 0..MaxVersions /\ 0 \in 0..MaxVersions
    BY RagAssumption DEF Documents
  <2>2. QED
    BY <2>1 DEF ChunksOf, Chunks
<1>3. QED
  BY <1>1, <1>2 DEF NoChunks

LEMMA NoOpShape ==
    /\ NoOp \in OpRecords /\ NoOp.pc = "idle" /\ NoOp.todo = {} /\ NoOp.raced = {}
    /\ NoOp.all = FALSE /\ NoOp.read = [s \in Sources |-> NoDocument] /\ Touches(NoOp) = {}
<1>1. (CHOOSE s \in Sources : TRUE) \in Sources
  BY RagAssumption
<1>2. "idle" \in OpStates /\ [s \in Sources |-> NoDocument] \in [Sources -> Documents]
  BY DocumentTypes DEF OpStates
<1>3. NoOp \in OpRecords
  BY <1>1, <1>2, DocumentTypes DEF NoOp, OpRecords
<1>4. /\ NoOp.pc = "idle" /\ NoOp.todo = {} /\ NoOp.raced = {}
      /\ NoOp.all = FALSE /\ NoOp.read = [s \in Sources |-> NoDocument]
  BY DEF NoOp
<1>5. \A s \in Sources : NoOp.read[s] = NoDocument
  BY <1>4
<1>6. QED
  BY <1>3, <1>4, <1>5 DEF Touches

LEMMA OpFields ==
    ASSUME RagTypeOK, NEW o \in Ops
    PROVE  /\ op[o] \in OpRecords /\ op[o].pc \in OpStates /\ op[o].src \in Sources
           /\ op[o].doc \in Documents /\ op[o].todo \subseteq Sources
           /\ op[o].read \in [Sources -> Documents] /\ op[o].raced \subseteq Sources
           /\ op[o].all \in BOOLEAN
BY DEF RagTypeOK, OpRecords

\* An operation that goes on to state p.
LEMMA OpAt ==
    ASSUME NEW x \in OpRecords, NEW p \in OpStates, NEW y, y = [x EXCEPT !.pc = p]
    PROVE  /\ y \in OpRecords /\ y.pc = p /\ y.src = x.src /\ y.doc = x.doc /\ y.todo = x.todo
           /\ y.read = x.read /\ y.raced = x.raced
BY DEF OpRecords

LEMMA Moves ==
    ASSUME RagTypeOK, NEW o \in Ops, NEW y \in OpRecords, op' = [op EXCEPT ![o] = y]
    PROVE  op' \in [Ops -> OpRecords] /\ \A q \in Ops : op'[q] = IF q = o THEN y ELSE op[q]
BY DEF RagTypeOK

\* Of a source that an operation does not touch there is nothing to know.
LEMMA Touched ==
    ASSUME NEW x, NEW s \in Sources
    PROVE  /\ s \notin Touches(x) => x.read[s] = NoDocument /\ ~AtWork(x, s)
           /\ s \in Touches(x) <=> \/ x.pc \notin {"idle", "loading"} /\ s = x.src
                                   \/ s \in x.todo \/ x.read[s] # NoDocument
BY DEF Touches, AtWork

\* An operation that takes up the sources ss: it and every other one that touches one
\* of them know that they raced.
LEMMA BeginShape ==
    ASSUME RagTypeOK, NEW o \in Ops, NEW x \in OpRecords, NEW ss \in SUBSET Sources, Begin(o, x, ss)
    PROVE  /\ op' \in [Ops -> OpRecords]
           /\ op'[o].pc = x.pc /\ op'[o].src = x.src /\ op'[o].todo = x.todo /\ op'[o].read = x.read
           /\ op'[o].raced = {s \in ss : \E q \in Ops \ {o} : s \in Touches(op[q])}
           /\ \A q \in Ops \ {o} :
                 /\ op'[q].pc = op[q].pc /\ op'[q].src = op[q].src /\ op'[q].todo = op[q].todo
                 /\ op'[q].read = op[q].read /\ op'[q].doc = op[q].doc
                 /\ op'[q].raced = op[q].raced \cup (ss \cap Touches(op[q]))
<1> DEFINE mine == {s \in ss : \E q \in Ops \ {o} : s \in Touches(op[q])}
           R(q) == IF q = o THEN [x EXCEPT !.raced = mine]
                   ELSE [op[q] EXCEPT !.raced = op[q].raced \cup (ss \cap Touches(op[q]))]
<1>1. op' = [q \in Ops |-> R(q)]
  BY DEF Begin
<1>2. /\ R(o) \in OpRecords /\ R(o).pc = x.pc /\ R(o).src = x.src /\ R(o).todo = x.todo
      /\ R(o).read = x.read /\ R(o).raced = mine
  <2>1. mine \subseteq Sources
    OBVIOUS
  <2> HIDE DEF mine
  <2>2. QED
    BY <2>1 DEF OpRecords
<1>3. ASSUME NEW q \in Ops \ {o}
      PROVE  /\ R(q) \in OpRecords /\ R(q).pc = op[q].pc /\ R(q).src = op[q].src
             /\ R(q).todo = op[q].todo /\ R(q).read = op[q].read /\ R(q).doc = op[q].doc
             /\ R(q).raced = op[q].raced \cup (ss \cap Touches(op[q]))
  <2> DEFINE rr == op[q].raced \cup (ss \cap Touches(op[q]))
  <2>1. op[q] \in OpRecords
    BY OpFields
  <2>2. rr \in SUBSET Sources
    BY OpFields
  <2> HIDE DEF rr
  <2>3. LET y == [op[q] EXCEPT !.raced = rr]
        IN  /\ y \in OpRecords /\ y.pc = op[q].pc /\ y.src = op[q].src /\ y.todo = op[q].todo
            /\ y.read = op[q].read /\ y.doc = op[q].doc /\ y.raced = rr
    BY <2>1, <2>2 DEF OpRecords
  <2>4. QED
    BY <2>3 DEF rr
<1> HIDE DEF R
<1>4. \A q \in Ops : op'[q] = R(q) /\ R(q) \in OpRecords
  BY <1>1, <1>2, <1>3
<1>5. op' \in [Ops -> OpRecords]
  BY <1>1, <1>4
<1>6. QED
  BY <1>2, <1>3, <1>4, <1>5

-----------------------------------------------------------------------------
(* Who raced, and what an operation knows.                                  *)

\* An operation goes on, and takes up nothing new; what it writes into the index is
\* on a source it touches.
LEMMA GoesOn ==
    ASSUME RagTypeOK, RaceInv, KnowsInv, NEW o \in Ops, NEW y \in OpRecords,
           op' = [op EXCEPT ![o] = y], stored' = stored,
           Touches(y) \subseteq Touches(op[o]), Touches(y) \cap op[o].raced \subseteq y.raced,
           \A s \in Sources \ Touches(op[o]) : index'[s] = index[s],
           \A s \in Sources \ y.raced :
              /\ y.read[s] # NoDocument => y.read[s] = stored[s]
              /\ AtWork(y, s) =>
                    /\ y.pc \in {"embedding", "emptying", "filling"} => y.doc = stored[s]
                    /\ y.pc = "filling" => index'[s] = NoChunks
                    /\ y.pc = "erasing" => stored[s] = NoDocument
    PROVE  RaceInv' /\ KnowsInv'
<1>1. \A q \in Ops : op'[q] = IF q = o THEN y ELSE op[q]
  BY Moves
<1>2. RaceInv'
  <2> SUFFICES ASSUME NEW p \in Ops, NEW q \in Ops, p # q
               PROVE  Touches(op'[p]) \cap Touches(op'[q]) \subseteq op'[p].raced
    BY DEF RaceInv
  <2>1. Touches(op[p]) \cap Touches(op[q]) \subseteq op[p].raced
    BY DEF RaceInv
  <2>2. QED
    BY <1>1, <2>1
<1>3. ASSUME NEW q \in Ops, NEW s \in Sources, s \notin op'[q].raced
      PROVE  Knows(op[q], s)' 
  <2>1. CASE q = o
    <3>1. op'[q] = y
      BY <1>1, <2>1
    <3>2. QED
      BY <1>3, <3>1 DEF Knows, AtWork
  <2>2. CASE q # o
    <3>1. op'[q] = op[q]
      BY <1>1, <2>2
    <3>2. CASE s \in Touches(op[o])
      <4>1. s \notin Touches(op[q])
        BY <1>3, <2>2, <3>1, <3>2 DEF RaceInv
      <4>2. op[q].read[s] = NoDocument /\ ~AtWork(op[q], s)
        BY <4>1, Touched
      <4>3. QED
        BY <3>1, <4>2 DEF Knows, AtWork
    <3>3. CASE s \notin Touches(op[o])
      <4>1. Knows(op[q], s) /\ index'[s] = index[s]
        BY <1>3, <3>1, <3>3 DEF KnowsInv
      <4>2. QED
        BY <3>1, <4>1 DEF Knows, AtWork
    <3>4. QED
      BY <3>2, <3>3
  <2>3. QED
    BY <2>1, <2>2
<1>4. QED
  BY <1>2, <1>3 DEF KnowsInv

\* An operation that takes up the sources ss, and writes of them to the store; what
\* it says of them is so.
LEMMA TakesUp ==
    ASSUME RagTypeOK, RaceInv, KnowsInv, NEW o \in Ops, NEW x \in OpRecords, NEW ss \in SUBSET Sources,
           Begin(o, x, ss), Touches(x) \subseteq ss, index' = index,
           \A s \in Sources \ ss : stored'[s] = stored[s],
           x.read = [s \in Sources |-> NoDocument],
           x.pc \notin {"embedding", "emptying", "filling"},
           x.pc = "erasing" => stored'[x.src] = NoDocument
    PROVE  RaceInv' /\ KnowsInv'
<1>1. \A q \in Ops : Touches(op'[q]) = IF q = o THEN Touches(x) ELSE Touches(op[q])
  BY BeginShape DEF Touches
<1>2. RaceInv'
  <2> SUFFICES ASSUME NEW p \in Ops, NEW q \in Ops, p # q,
                      NEW s \in Touches(op'[p]) \cap Touches(op'[q])
               PROVE  s \in op'[p].raced
    BY DEF RaceInv
  <2>1. CASE p = o
    <3>1. s \in ss /\ q \in Ops \ {o} /\ s \in Touches(op[q])
      BY <1>1, <2>1
    <3>2. QED
      BY <2>1, <3>1, BeginShape
  <2>2. CASE q = o
    <3>1. s \in ss /\ p \in Ops \ {o} /\ s \in Touches(op[p])
      BY <1>1, <2>2
    <3>2. QED
      BY <3>1, BeginShape
  <2>3. CASE p # o /\ q # o
    <3>1. s \in Touches(op[p]) /\ s \in Touches(op[q])
      BY <1>1, <2>3
    <3>2. s \in op[p].raced
      BY <3>1 DEF RaceInv
    <3>3. QED
      BY <2>3, <3>2, BeginShape
  <2>4. QED
    BY <2>1, <2>2, <2>3
<1>3. ASSUME NEW q \in Ops, NEW s \in Sources, s \notin op'[q].raced
      PROVE  Knows(op[q], s)'
  <2>1. CASE q = o
    <3>1. op'[q].read[s] = NoDocument /\ op'[q].pc = x.pc /\ op'[q].src = x.src
      BY <2>1, BeginShape
    <3>2. QED
      BY <3>1 DEF Knows, AtWork
  <2>2. CASE q # o
    <3>1. /\ op'[q].pc = op[q].pc /\ op'[q].src = op[q].src /\ op'[q].read = op[q].read
          /\ op'[q].doc = op[q].doc /\ op'[q].raced = op[q].raced \cup (ss \cap Touches(op[q]))
      BY <2>2, BeginShape
    <3>2. CASE s \in Touches(op[q])
      <4>1. stored'[s] = stored[s] /\ s \notin op[q].raced
        BY <1>3, <3>1, <3>2
      <4>2. Knows(op[q], s)
        BY <4>1 DEF KnowsInv
      <4>3. QED
        BY <3>1, <4>1, <4>2 DEF Knows, AtWork
    <3>3. CASE s \notin Touches(op[q])
      <4>1. op[q].read[s] = NoDocument /\ ~AtWork(op[q], s)
        BY <3>3, Touched
      <4>2. QED
        BY <3>1, <4>1 DEF Knows, AtWork
    <3>4. QED
      BY <3>2, <3>3
  <2>3. QED
    BY <2>1, <2>2
<1>4. QED
  BY <1>2, <1>3 DEF KnowsInv

\* A source that was quiet before and is not in the hands of the operation that moves.
LEMMA StaysQuiet ==
    ASSUME QuietInv, NEW o \in Ops, NEW s \in Sources, s \notin unsure, ~AtWork(op[o], s),
           \A q \in Ops \ {o} : ~AtWork(op[q], s), index'[s] = index[s], stored'[s] = stored[s]
    PROVE  index'[s] = ChunksOf(stored'[s])
BY DEF QuietInv

\* An operation that gives up.
LEMMA GivesUp ==
    ASSUME RagInv, NEW o \in Ops, GiveUp(o), UNCHANGED <<stored, index>>
    PROVE  op' \in [Ops -> OpRecords] /\ unsure' \subseteq Sources /\ RaceInv' /\ KnowsInv' /\ QuietInv'
<1>0. RagTypeOK /\ RaceInv /\ KnowsInv /\ QuietInv
  BY DEF RagInv
<1>1. op' = [op EXCEPT ![o] = NoOp] /\ unsure' = unsure \cup Touches(op[o])
  BY DEF GiveUp
<1>2. /\ \A q \in Ops : op'[q] = IF q = o THEN NoOp ELSE op[q]
      /\ op' \in [Ops -> OpRecords]
  BY <1>0, <1>1, NoOpShape, Moves
<1>3. \A s \in Sources : NoOp.read[s] = NoDocument /\ ~AtWork(NoOp, s)
  BY NoOpShape DEF AtWork
<1>4. RaceInv' /\ KnowsInv'
  BY <1>0, <1>1, <1>3, NoOpShape, GoesOn
<1>5. unsure' \subseteq Sources
  BY <1>0, <1>1, OpFields DEF Touches, RagTypeOK
<1>6. QuietInv'
  <2> SUFFICES ASSUME NEW s \in Sources, s \notin unsure', \A q \in Ops : ~AtWork(op'[q], s)
               PROVE  index'[s] = ChunksOf(stored'[s])
    BY DEF QuietInv, AtWork
  <2>1. s \notin unsure /\ ~AtWork(op[o], s) /\ \A q \in Ops \ {o} : ~AtWork(op[q], s)
    BY <1>1, <1>2, Touched
  <2>2. QED
    BY <1>0, <2>1, StaysQuiet
<1>7. QED
  BY <1>2, <1>4, <1>5, <1>6

-----------------------------------------------------------------------------
(* One step of each operation.                                              *)

LEMMA WriteKeeps ==
    ASSUME RagInv, NEW o \in Ops, NEW s \in Sources, Write(o, s)
    PROVE  RagInv'
<1>0. RagTypeOK /\ RaceInv /\ KnowsInv /\ QuietInv
  BY DEF RagInv
<1> DEFINE x == [NoOp EXCEPT !.pc = "put", !.src = s]
<1>1. /\ x \in OpRecords /\ x.pc = "put" /\ x.src = s /\ x.todo = {}
      /\ x.read = [t \in Sources |-> NoDocument]
  <2>1. "put" \in OpStates
    BY DEF OpStates
  <2>2. QED
    BY <2>1, NoOpShape DEF OpRecords
<1>2. Begin(o, x, {s}) /\ op[o].pc = "idle" /\ UNCHANGED <<index, deaths, unsure>>
  BY DEF Write
<1> HIDE DEF x
<1>3. PICK len \in 0..MaxChunks : stored' = [stored EXCEPT ![s] = [ver |-> versions + 1, len |-> len]]
  BY DEF Write
<1>4. versions + 1 \in 0..MaxVersions /\ versions' = versions + 1
  BY <1>0, RagAssumption DEF Write, RagTypeOK
<1>5. stored' \in [Sources -> Documents] /\ \A t \in Sources \ {s} : stored'[t] = stored[t]
  BY <1>0, <1>3, <1>4 DEF RagTypeOK, Documents
<1>6. RaceInv' /\ KnowsInv'
  <2>1. Touches(x) \subseteq {s}
    BY <1>1 DEF Touches
  <2>2. QED
    BY <1>0, <1>1, <1>2, <1>5, <2>1, TakesUp
<1>7. RagTypeOK'
  BY <1>0, <1>1, <1>2, <1>4, <1>5, BeginShape DEF RagTypeOK
<1>8. QuietInv'
  <2> SUFFICES ASSUME NEW t \in Sources, t \notin unsure', \A q \in Ops : ~AtWork(op'[q], t)
               PROVE  index'[t] = ChunksOf(stored'[t])
    BY DEF QuietInv, AtWork
  <2>1. op'[o].pc = "put" /\ op'[o].src = s
    BY <1>0, <1>1, <1>2, BeginShape
  <2>2. t # s /\ ~AtWork(op[o], t)
    BY <1>2, <2>1 DEF AtWork
  <2>3. \A q \in Ops \ {o} : ~AtWork(op[q], t)
    BY <1>0, <1>1, <1>2, BeginShape DEF AtWork
  <2>4. QED
    BY <1>0, <1>2, <1>5, <2>2, <2>3, StaysQuiet
<1>9. QED
  BY <1>6, <1>7, <1>8 DEF RagInv

LEMMA DeleteKeeps ==
    ASSUME RagInv, NEW o \in Ops, NEW s \in Sources, Delete(o, s)
    PROVE  RagInv'
<1>0. RagTypeOK /\ RaceInv /\ KnowsInv /\ QuietInv
  BY DEF RagInv
<1> DEFINE x == [NoOp EXCEPT !.pc = "erasing", !.src = s]
<1>1. /\ x \in OpRecords /\ x.pc = "erasing" /\ x.src = s /\ x.todo = {}
      /\ x.read = [t \in Sources |-> NoDocument]
  <2>1. "erasing" \in OpStates
    BY DEF OpStates
  <2>2. QED
    BY <2>1, NoOpShape DEF OpRecords
<1>2. /\ Begin(o, x, {s}) /\ op[o].pc = "idle" /\ UNCHANGED <<versions, index, deaths, unsure>>
      /\ stored' = [stored EXCEPT ![s] = NoDocument]
  BY DEF Delete
<1> HIDE DEF x
<1>5. /\ stored' \in [Sources -> Documents] /\ stored'[s] = NoDocument
      /\ \A t \in Sources \ {s} : stored'[t] = stored[t]
  BY <1>0, <1>2, DocumentTypes DEF RagTypeOK
<1>6. RaceInv' /\ KnowsInv'
  <2>1. Touches(x) \subseteq {s}
    BY <1>1 DEF Touches
  <2>2. QED
    BY <1>0, <1>1, <1>2, <1>5, <2>1, TakesUp
<1>7. RagTypeOK'
  BY <1>0, <1>1, <1>2, <1>5, BeginShape DEF RagTypeOK
<1>8. QuietInv'
  <2> SUFFICES ASSUME NEW t \in Sources, t \notin unsure', \A q \in Ops : ~AtWork(op'[q], t)
               PROVE  index'[t] = ChunksOf(stored'[t])
    BY DEF QuietInv, AtWork
  <2>1. op'[o].pc = "erasing" /\ op'[o].src = s
    BY <1>0, <1>1, <1>2, BeginShape
  <2>2. t # s /\ ~AtWork(op[o], t)
    BY <1>2, <2>1 DEF AtWork
  <2>3. \A q \in Ops \ {o} : ~AtWork(op[q], t)
    BY <1>0, <1>1, <1>2, BeginShape DEF AtWork
  <2>4. QED
    BY <1>0, <1>2, <1>5, <2>2, <2>3, StaysQuiet
<1>9. QED
  BY <1>6, <1>7, <1>8 DEF RagInv

\* A source changes and no operation follows: those that have it in hand know that
\* they raced, the others have yet to read it.
LEMMA UnseenKeeps ==
    ASSUME RagInv, NEW s \in Sources, NEW d \in Documents, ChangeUnseen(s, d),
           versions' \in 0..MaxVersions
    PROVE  RagInv'
<1>0. RagTypeOK /\ RaceInv /\ KnowsInv /\ QuietInv
  BY DEF RagInv
<1> DEFINE R(o) == [op[o] EXCEPT !.raced = op[o].raced \cup ({s} \cap HasRead(op[o]))]
<1>1. /\ stored' = [stored EXCEPT ![s] = d] /\ unsure' = unsure \cup {s}
      /\ op' = [o \in Ops |-> R(o)] /\ UNCHANGED <<index, deaths>>
  BY DEF ChangeUnseen
<1>2. ASSUME NEW o \in Ops
      PROVE  /\ R(o) \in OpRecords /\ R(o).pc = op[o].pc /\ R(o).src = op[o].src
             /\ R(o).todo = op[o].todo /\ R(o).read = op[o].read /\ R(o).doc = op[o].doc
             /\ R(o).raced = op[o].raced \cup ({s} \cap HasRead(op[o]))
  <2> DEFINE rr == op[o].raced \cup ({s} \cap HasRead(op[o]))
  <2>1. op[o] \in OpRecords /\ rr \in SUBSET Sources
    BY <1>0, OpFields
  <2> HIDE DEF rr
  <2>2. LET y == [op[o] EXCEPT !.raced = rr]
        IN  /\ y \in OpRecords /\ y.pc = op[o].pc /\ y.src = op[o].src /\ y.todo = op[o].todo
            /\ y.read = op[o].read /\ y.doc = op[o].doc /\ y.raced = rr
    BY <2>1 DEF OpRecords
  <2>3. QED
    BY <2>2 DEF rr
<1> HIDE DEF R
<1>3. op' \in [Ops -> OpRecords] /\ \A o \in Ops : op'[o] = R(o)
  BY <1>1, <1>2
<1>4. stored' \in [Sources -> Documents] /\ \A t \in Sources \ {s} : stored'[t] = stored[t]
  BY <1>0, <1>1 DEF RagTypeOK
<1>5. RagTypeOK'
  BY <1>0, <1>1, <1>3, <1>4 DEF RagTypeOK
<1>6. \A o \in Ops : Touches(op'[o]) = Touches(op[o]) /\ op[o].raced \subseteq op'[o].raced
  BY <1>2, <1>3 DEF Touches
<1>7. RaceInv'
  <2> SUFFICES ASSUME NEW p \in Ops, NEW q \in Ops, p # q
               PROVE  Touches(op'[p]) \cap Touches(op'[q]) \subseteq op'[p].raced
    BY DEF RaceInv
  <2>1. Touches(op[p]) \cap Touches(op[q]) \subseteq op[p].raced
    BY <1>0 DEF RaceInv
  <2>2. QED
    BY <1>6, <2>1
<1>8. ASSUME NEW o \in Ops, NEW t \in Sources, t \notin op'[o].raced
      PROVE  Knows(op[o], t)'
  <2>1. Knows(op[o], t)
    BY <1>0, <1>6, <1>8 DEF KnowsInv
  <2>2. CASE t # s
    BY <1>1, <1>2, <1>3, <1>4, <2>1, <2>2 DEF Knows, AtWork
  <2>3. CASE t = s
    <3>1. t \notin HasRead(op[o])
      BY <1>2, <1>3, <1>8, <2>3
    <3>2. op[o].read[t] = NoDocument
      BY <3>1 DEF HasRead
    <3>3. ~(op[o].pc \in {"embedding", "emptying", "filling", "erasing"} /\ op[o].src = t)
      BY <3>1 DEF HasRead
    <3>4. QED
      BY <1>2, <1>3, <3>2, <3>3 DEF Knows, AtWork
  <2>4. QED
    BY <2>2, <2>3
<1>9. QuietInv'
  <2> SUFFICES ASSUME NEW t \in Sources, t \notin unsure', \A o \in Ops : ~AtWork(op'[o], t)
               PROVE  index'[t] = ChunksOf(stored'[t])
    BY DEF QuietInv, AtWork
  <2>1. t # s /\ t \notin unsure /\ \A o \in Ops : ~AtWork(op[o], t)
    BY <1>1, <1>2, <1>3 DEF AtWork
  <2>2. QED
    BY <1>0, <1>1, <1>4, <2>1 DEF QuietInv
<1>10. QED
  BY <1>5, <1>7, <1>8, <1>9 DEF RagInv, KnowsInv

LEMMA AgentWriteKeeps ==
    ASSUME RagInv, NEW s \in Sources, AgentWrite(s)
    PROVE  RagInv'
<1>1. versions + 1 \in 0..MaxVersions /\ versions' = versions + 1
  BY RagAssumption DEF AgentWrite, RagInv, RagTypeOK
<1>2. PICK len \in 0..MaxChunks : ChangeUnseen(s, [ver |-> versions + 1, len |-> len])
  BY DEF AgentWrite
<1>3. [ver |-> versions + 1, len |-> len] \in Documents
  BY <1>1 DEF Documents
<1>4. QED
  BY <1>1, <1>2, <1>3, UnseenKeeps

LEMMA DropRowKeeps ==
    ASSUME RagInv, NEW s \in Sources, DropRow(s)
    PROVE  RagInv'
<1>1. ChangeUnseen(s, NoDocument) /\ versions' \in 0..MaxVersions
  BY DEF DropRow, RagInv, RagTypeOK
<1>2. QED
  BY <1>1, UnseenKeeps, DocumentTypes

LEMMA ReindexKeeps ==
    ASSUME RagInv, NEW o \in Ops, Reindex(o)
    PROVE  RagInv'
<1>0. RagTypeOK /\ RaceInv /\ KnowsInv /\ QuietInv
  BY DEF RagInv
<1> DEFINE ss == {s \in Sources : stored[s] # NoDocument}
           x == [NoOp EXCEPT !.pc = "loading", !.all = TRUE, !.todo = ss]
<1>1. /\ x \in OpRecords /\ x.pc = "loading" /\ x.todo = ss
      /\ x.read = [t \in Sources |-> NoDocument]
  <2>1. "loading" \in OpStates /\ ss \in SUBSET Sources
    BY DEF OpStates
  <2> HIDE DEF ss
  <2>2. QED
    BY <2>1, NoOpShape DEF OpRecords
<1>2. /\ Begin(o, x, ss) /\ op[o].pc = "idle"
      /\ UNCHANGED <<stored, versions, index, deaths, unsure>>
  BY DEF Reindex
<1>3. ss \in SUBSET Sources
  OBVIOUS
<1> HIDE DEF x, ss
<1>4. Touches(x) \subseteq ss
  BY <1>1 DEF Touches
<1>6. RaceInv' /\ KnowsInv'
  BY <1>0, <1>1, <1>2, <1>3, <1>4, TakesUp
<1>7. RagTypeOK'
  BY <1>0, <1>1, <1>2, <1>3, BeginShape DEF RagTypeOK
<1>8. QuietInv'
  <2> SUFFICES ASSUME NEW t \in Sources, t \notin unsure', \A q \in Ops : ~AtWork(op'[q], t)
               PROVE  index'[t] = ChunksOf(stored'[t])
    BY DEF QuietInv, AtWork
  <2>2. ~AtWork(op[o], t)
    BY <1>2 DEF AtWork
  <2>3. \A q \in Ops \ {o} : ~AtWork(op[q], t)
    BY <1>0, <1>1, <1>2, <1>3, BeginShape DEF AtWork
  <2>4. QED
    BY <1>0, <1>2, <2>2, <2>3, StaysQuiet
<1>9. QED
  BY <1>6, <1>7, <1>8 DEF RagInv

LEMMA ReadBackKeeps ==
    ASSUME RagInv, NEW o \in Ops, ReadBack(o)
    PROVE  RagInv'
<1>0. RagTypeOK /\ RaceInv /\ KnowsInv /\ QuietInv
  BY DEF RagInv
<1>1. op[o].pc = "put" /\ UNCHANGED <<stored, versions, index, deaths>>
  BY DEF ReadBack
<1>2. CASE GiveUp(o)
  BY <1>0, <1>1, <1>2, GivesUp DEF RagInv, RagTypeOK
<1>3. CASE ~GiveUp(o)
  <2> DEFINE y == [op[o] EXCEPT !.pc = "embedding", !.doc = stored[op[o].src]]
  <2>1. op' = [op EXCEPT ![o] = y] /\ UNCHANGED unsure
    BY <1>3 DEF ReadBack
  <2>2. /\ y \in OpRecords /\ y.pc = "embedding" /\ y.src = op[o].src /\ y.todo = op[o].todo
        /\ y.read = op[o].read /\ y.raced = op[o].raced /\ y.doc = stored[op[o].src]
    <3>1. "embedding" \in OpStates /\ stored[op[o].src] \in Documents
      BY <1>0, OpFields DEF OpStates, RagTypeOK
    <3>2. QED
      BY <1>0, <3>1, OpFields DEF OpRecords
  <2> HIDE DEF y
  <2>3. Touches(y) \subseteq Touches(op[o])
    BY <1>1, <2>2 DEF Touches
  <2>4. \A s \in Sources \ y.raced : y.read[s] # NoDocument => y.read[s] = stored[s]
    BY <1>0, <2>2 DEF KnowsInv, Knows
  <2>5. RaceInv' /\ KnowsInv'
    BY <1>0, <1>1, <2>1, <2>2, <2>3, <2>4, GoesOn DEF AtWork
  <2>6. op' \in [Ops -> OpRecords] /\ \A q \in Ops : op'[q] = IF q = o THEN y ELSE op[q]
    BY <1>0, <2>1, <2>2, Moves
  <2>7. RagTypeOK'
    BY <1>0, <1>1, <2>1, <2>6 DEF RagTypeOK
  <2>8. QuietInv'
    <3> SUFFICES ASSUME NEW t \in Sources, t \notin unsure', \A q \in Ops : ~AtWork(op'[q], t)
                 PROVE  index'[t] = ChunksOf(stored'[t])
      BY DEF QuietInv, AtWork
    <3>1. ~AtWork(op[o], t)
      BY <1>1, <2>2, <2>6 DEF AtWork
    <3>2. QED
      BY <1>0, <1>1, <2>1, <2>6, <3>1, StaysQuiet
  <2>9. QED
    BY <2>5, <2>7, <2>8 DEF RagInv
<1>4. QED
  BY <1>2, <1>3

LEMMA EmbedKeeps ==
    ASSUME RagInv, NEW o \in Ops, Embed(o)
    PROVE  RagInv'
<1>0. RagTypeOK /\ RaceInv /\ KnowsInv /\ QuietInv
  BY DEF RagInv
<1>1. op[o].pc = "embedding" /\ UNCHANGED <<stored, versions, index, deaths>>
  BY DEF Embed
<1>2. CASE GiveUp(o)
  BY <1>0, <1>1, <1>2, GivesUp DEF RagInv, RagTypeOK
<1>3. CASE ~GiveUp(o)
  <2> DEFINE y == [op[o] EXCEPT !.pc = "emptying"]
  <2>1. op' = [op EXCEPT ![o] = y] /\ UNCHANGED unsure
    BY <1>3 DEF Embed
  <2>2. /\ y \in OpRecords /\ y.pc = "emptying" /\ y.src = op[o].src /\ y.todo = op[o].todo
        /\ y.read = op[o].read /\ y.raced = op[o].raced /\ y.doc = op[o].doc
    <3>1. "emptying" \in OpStates
      BY DEF OpStates
    <3>2. QED
      BY <1>0, <3>1, OpFields, OpAt
  <2> HIDE DEF y
  <2>3. Touches(y) \subseteq Touches(op[o])
    BY <1>1, <2>2 DEF Touches
  <2>4. \A s \in Sources \ y.raced :
           /\ y.read[s] # NoDocument => y.read[s] = stored[s]
           /\ AtWork(y, s) => y.doc = stored[s]
    BY <1>0, <1>1, <2>2 DEF KnowsInv, Knows, AtWork
  <2>5. RaceInv' /\ KnowsInv'
    BY <1>0, <1>1, <2>1, <2>2, <2>3, <2>4, GoesOn
  <2>6. op' \in [Ops -> OpRecords] /\ \A q \in Ops : op'[q] = IF q = o THEN y ELSE op[q]
    BY <1>0, <2>1, <2>2, Moves
  <2>7. RagTypeOK'
    BY <1>0, <1>1, <2>1, <2>6 DEF RagTypeOK
  <2>8. QuietInv'
    <3> SUFFICES ASSUME NEW t \in Sources, t \notin unsure', \A q \in Ops : ~AtWork(op'[q], t)
                 PROVE  index'[t] = ChunksOf(stored'[t])
      BY DEF QuietInv, AtWork
    <3>1. ~AtWork(op[o], t)
      BY <1>1, <2>2, <2>6 DEF AtWork
    <3>2. QED
      BY <1>0, <1>1, <2>1, <2>6, <3>1, StaysQuiet
  <2>9. QED
    BY <2>5, <2>7, <2>8 DEF RagInv
<1>4. QED
  BY <1>2, <1>3

LEMMA EmptyKeeps ==
    ASSUME RagInv, NEW o \in Ops, Empty(o)
    PROVE  RagInv'
<1>0. RagTypeOK /\ RaceInv /\ KnowsInv /\ QuietInv
  BY DEF RagInv
<1>1. op[o].pc = "emptying" /\ UNCHANGED <<stored, versions, deaths>>
  BY DEF Empty
<1>2. CASE GiveUp(o) /\ UNCHANGED index
  BY <1>0, <1>1, <1>2, GivesUp DEF RagInv, RagTypeOK
<1>3. CASE /\ index' = Emptied(op[o].src)
           /\ op' = [op EXCEPT ![o].pc = "filling"]
           /\ UNCHANGED unsure
  <2> DEFINE y == [op[o] EXCEPT !.pc = "filling"]
  <2>1. /\ op[o].pc = "emptying" /\ UNCHANGED <<stored, versions, deaths, unsure>>
        /\ op' = [op EXCEPT ![o] = y] /\ index' = [index EXCEPT ![op[o].src] = NoChunks]
    BY <1>1, <1>3 DEF Emptied
  <2>2. /\ y \in OpRecords /\ y.pc = "filling" /\ y.src = op[o].src /\ y.todo = op[o].todo
        /\ y.read = op[o].read /\ y.raced = op[o].raced /\ y.doc = op[o].doc
    <3>1. "filling" \in OpStates
      BY DEF OpStates
    <3>2. QED
      BY <1>0, <3>1, OpFields, OpAt
  <2> HIDE DEF y
  <2>3. /\ index' \in [Sources -> Chunks] /\ index'[op[o].src] = NoChunks
        /\ \A s \in Sources : s # op[o].src => index'[s] = index[s]
    BY <1>0, <2>1, OpFields, DocumentTypes DEF RagTypeOK
  <2>4. Touches(y) \subseteq Touches(op[o]) /\ op[o].src \in Touches(op[o])
    BY <2>1, <2>2 DEF Touches
  <2>5. \A s \in Sources \ y.raced :
           /\ y.read[s] # NoDocument => y.read[s] = stored[s]
           /\ AtWork(y, s) => y.doc = stored[s] /\ index'[s] = NoChunks
    BY <1>0, <2>1, <2>2, <2>3 DEF KnowsInv, Knows, AtWork
  <2>6. RaceInv' /\ KnowsInv'
    BY <1>0, <2>1, <2>2, <2>3, <2>4, <2>5, GoesOn
  <2>7. op' \in [Ops -> OpRecords] /\ \A q \in Ops : op'[q] = IF q = o THEN y ELSE op[q]
    BY <1>0, <2>1, <2>2, Moves
  <2>8. RagTypeOK'
    BY <1>0, <2>1, <2>3, <2>7 DEF RagTypeOK
  <2>9. QuietInv'
    <3> SUFFICES ASSUME NEW t \in Sources, t \notin unsure', \A q \in Ops : ~AtWork(op'[q], t)
                 PROVE  index'[t] = ChunksOf(stored'[t])
      BY DEF QuietInv, AtWork
    <3>1. t # op[o].src /\ ~AtWork(op[o], t)
      BY <2>1, <2>2, <2>7 DEF AtWork
    <3>2. QED
      BY <1>0, <2>1, <2>3, <2>7, <3>1, StaysQuiet
  <2>10. QED
    BY <2>6, <2>8, <2>9 DEF RagInv
<1>4. QED
  BY <1>1, <1>2, <1>3 DEF Empty

\* An operation that is done with a source of which the index now has the document,
\* unless it raced for it.
LEMMA Settles ==
    ASSUME RagInv, NEW o \in Ops, Settle(o), UNCHANGED <<stored, versions, deaths>>,
           op[o].pc \in {"filling", "erasing"},
           index' \in [Sources -> Chunks],
           \A s \in Sources : s # op[o].src => index'[s] = index[s],
           op[o].src \notin op[o].raced => index'[op[o].src] = ChunksOf(stored[op[o].src])
    PROVE  RagInv'
<1>0. RagTypeOK /\ RaceInv /\ KnowsInv /\ QuietInv
  BY DEF RagInv
<1>1. /\ unsure' \subseteq Sources
      /\ op[o].src \in op[o].raced => op[o].src \in unsure'
      /\ \A s \in Sources : s # op[o].src /\ s \notin unsure' => s \notin unsure
  BY <1>0, OpFields DEF Settle, RagTypeOK
<1>2. PICK y \in OpRecords :
         /\ op' = [op EXCEPT ![o] = y] /\ y.pc \in {"idle", "loading"}
         /\ Touches(y) \subseteq Touches(op[o]) /\ Touches(y) \cap op[o].raced \subseteq y.raced
         /\ \A s \in Sources \ y.raced : y.read[s] # NoDocument =>
               y.read[s] = op[o].read[s] /\ s \notin op[o].raced
  <2> DEFINE x == [op[o] EXCEPT !.pc = "loading"]
  <2>1. /\ x \in OpRecords /\ x.pc = "loading" /\ x.todo = op[o].todo
        /\ x.read = op[o].read /\ x.raced = op[o].raced
    <3>1. "loading" \in OpStates
      BY DEF OpStates
    <3>2. QED
      BY <1>0, <3>1, OpFields, OpAt
  <2>2. op' = [op EXCEPT ![o] = x] \/ op' = [op EXCEPT ![o] = NoOp]
    BY DEF Settle
  <2> HIDE DEF x
  <2>3. CASE op' = [op EXCEPT ![o] = x]
    <3>1. Touches(x) \subseteq Touches(op[o])
      BY <2>1 DEF Touches
    <3>2. QED
      BY <2>1, <2>3, <3>1
  <2>4. CASE op' = [op EXCEPT ![o] = NoOp]
    <3>1. \A s \in Sources : NoOp.read[s] = NoDocument
      BY NoOpShape
    <3>2. QED
      BY <2>4, <3>1, NoOpShape
  <2>5. QED
    BY <2>2, <2>3, <2>4
<1>3. op' \in [Ops -> OpRecords] /\ \A q \in Ops : op'[q] = IF q = o THEN y ELSE op[q]
  BY <1>0, <1>2, Moves
<1>4. RaceInv' /\ KnowsInv'
  <2>1. op[o].src \in Touches(op[o])
    BY DEF Touches
  <2>2. \A s \in Sources \ y.raced : y.read[s] # NoDocument => y.read[s] = stored[s]
    BY <1>0, <1>2 DEF KnowsInv, Knows
  <2>3. \A s \in Sources : ~AtWork(y, s)
    BY <1>2 DEF AtWork
  <2>4. QED
    BY <1>0, <1>2, <2>1, <2>2, <2>3, GoesOn
<1>5. RagTypeOK'
  BY <1>0, <1>1, <1>3 DEF RagTypeOK
<1>6. QuietInv'
  <2> SUFFICES ASSUME NEW t \in Sources, t \notin unsure', \A q \in Ops : ~AtWork(op'[q], t)
               PROVE  index'[t] = ChunksOf(stored'[t])
    BY DEF QuietInv, AtWork
  <2>1. CASE t = op[o].src
    BY <1>1, <2>1
  <2>2. CASE t # op[o].src
    <3>1. ~AtWork(op[o], t) /\ t \notin unsure
      BY <1>1, <2>2 DEF AtWork
    <3>2. QED
      BY <1>0, <1>3, <2>2, <3>1, StaysQuiet
  <2>3. QED
    BY <2>1, <2>2
<1>7. QED
  BY <1>4, <1>5, <1>6 DEF RagInv

LEMMA FillKeeps ==
    ASSUME RagInv, NEW o \in Ops, Fill(o)
    PROVE  RagInv'
<1>0. RagTypeOK /\ KnowsInv
  BY DEF RagInv
<1> DEFINE new == [i \in 1..MaxChunks |-> IF i <= op[o].doc.len THEN op[o].doc.ver ELSE index[op[o].src][i]]
<1>1. op[o].pc = "filling" /\ UNCHANGED <<stored, versions, deaths>>
  BY DEF Fill
<1>2. CASE GiveUp(o) /\ UNCHANGED index
  BY <1>0, <1>1, <1>2, GivesUp DEF RagInv, RagTypeOK
<1>3. CASE index' = [index EXCEPT ![op[o].src] = new] /\ Settle(o)
  <2>1. new \in Chunks
    <3>1. op[o].doc.ver \in 0..MaxVersions /\ index[op[o].src] \in Chunks
      BY <1>0, OpFields DEF RagTypeOK, Documents
    <3>2. QED
      BY <3>1 DEF Chunks
  <2>2. op[o].src \notin op[o].raced => new = ChunksOf(stored[op[o].src])
    <3>1. ASSUME op[o].src \notin op[o].raced
          PROVE  op[o].doc = stored[op[o].src] /\ index[op[o].src] = NoChunks
      BY <1>0, <1>1, <3>1, OpFields DEF KnowsInv, Knows, AtWork
    <3>2. \A i \in 1..MaxChunks : NoChunks[i] = 0
      BY DEF NoChunks, ChunksOf, NoDocument
    <3>3. QED
      BY <3>1, <3>2 DEF ChunksOf
  <2> HIDE DEF new
  <2>3. /\ index' \in [Sources -> Chunks] /\ index'[op[o].src] = new
        /\ \A s \in Sources : s # op[o].src => index'[s] = index[s]
    BY <1>0, <1>3, <2>1, OpFields DEF RagTypeOK
  <2>4. QED
    BY <1>1, <1>3, <2>2, <2>3, Settles
<1>4. QED
  BY <1>2, <1>3 DEF Fill

LEMMA EraseKeeps ==
    ASSUME RagInv, NEW o \in Ops, Erase(o)
    PROVE  RagInv'
<1>0. RagTypeOK /\ KnowsInv
  BY DEF RagInv
<1>1. op[o].pc = "erasing" /\ UNCHANGED <<stored, versions, deaths>>
  BY DEF Erase
<1>2. CASE GiveUp(o) /\ UNCHANGED index
  BY <1>0, <1>1, <1>2, GivesUp DEF RagInv, RagTypeOK
<1>3. CASE index' = [index EXCEPT ![op[o].src] = NoChunks] /\ Settle(o)
  <2>1. /\ index' \in [Sources -> Chunks] /\ index'[op[o].src] = NoChunks
        /\ \A s \in Sources : s # op[o].src => index'[s] = index[s]
    BY <1>0, <1>3, OpFields, DocumentTypes DEF RagTypeOK
  <2>2. op[o].src \notin op[o].raced => NoChunks = ChunksOf(stored[op[o].src])
    BY <1>0, <1>1, OpFields DEF KnowsInv, Knows, AtWork, NoChunks
  <2>3. QED
    BY <1>1, <1>3, <2>1, <2>2, Settles
<1>4. QED
  BY <1>2, <1>3 DEF Erase

LEMMA LoadNextKeeps ==
    ASSUME RagInv, NEW o \in Ops, LoadNext(o)
    PROVE  RagInv'
<1>0. RagTypeOK /\ RaceInv /\ KnowsInv /\ QuietInv
  BY DEF RagInv
<1>1. op[o].pc = "loading" /\ UNCHANGED <<stored, versions, index, deaths>>
  BY DEF LoadNext
<1>2. CASE GiveUp(o)
  BY <1>0, <1>1, <1>2, GivesUp DEF RagInv, RagTypeOK
<1>3. CASE ~GiveUp(o)
  <2> DEFINE r(s) == IF stored[s].len = 0 THEN op[o].read ELSE [op[o].read EXCEPT ![s] = stored[s]]
             x(s) == [op[o] EXCEPT !.todo = op[o].todo \ {s}, !.read = r(s)]
  <2>1. PICK s \in op[o].todo : op' = [op EXCEPT ![o] = x(s)] /\ UNCHANGED unsure
    BY <1>3 DEF LoadNext
  <2>2. s \in Sources
    BY <1>0, OpFields
  <2>3. /\ r(s) \in [Sources -> Documents]
        /\ \A t \in Sources : r(s)[t] = IF t = s /\ stored[s].len # 0 THEN stored[s] ELSE op[o].read[t]
    <3>1. stored[s] \in Documents /\ op[o].read \in [Sources -> Documents]
      BY <1>0, <2>2, OpFields DEF RagTypeOK
    <3>2. CASE stored[s].len = 0
      BY <3>1, <3>2
    <3>3. CASE stored[s].len # 0
      BY <2>2, <3>1, <3>3
    <3>4. QED
      BY <3>2, <3>3
  <2> HIDE DEF r
  <2> DEFINE y == x(s)
  <2>4. /\ y \in OpRecords /\ y.pc = "loading" /\ y.src = op[o].src /\ y.todo = op[o].todo \ {s}
        /\ y.read = r(s) /\ y.raced = op[o].raced
    BY <1>0, <1>1, <2>3, OpFields DEF OpRecords
  <2>5. op' = [op EXCEPT ![o] = y]
    BY <2>1
  <2> HIDE DEF x, y
  <2>6. Touches(y) \subseteq Touches(op[o])
    <3>1. ASSUME NEW t \in Sources, y.read[t] # NoDocument
          PROVE  t \in op[o].todo \/ op[o].read[t] # NoDocument
      BY <2>3, <2>4, <3>1
    <3>2. QED
      BY <1>1, <2>4, <3>1 DEF Touches
  <2>7. \A t \in Sources \ y.raced : y.read[t] # NoDocument => y.read[t] = stored[t]
    <3> SUFFICES ASSUME NEW t \in Sources, t \notin op[o].raced, y.read[t] # NoDocument
                 PROVE  y.read[t] = stored[t]
      BY <2>4
    <3>1. op[o].read[t] # NoDocument => op[o].read[t] = stored[t]
      BY <1>0 DEF KnowsInv, Knows
    <3>2. QED
      BY <2>3, <2>4, <3>1
  <2>8. \A t \in Sources : ~AtWork(y, t)
    BY <2>4 DEF AtWork
  <2>9. RaceInv' /\ KnowsInv'
    BY <1>0, <1>1, <2>4, <2>5, <2>6, <2>7, <2>8, GoesOn
  <2>10. op' \in [Ops -> OpRecords] /\ \A q \in Ops : op'[q] = IF q = o THEN y ELSE op[q]
    BY <1>0, <2>4, <2>5, Moves
  <2>11. RagTypeOK'
    BY <1>0, <1>1, <2>1, <2>10 DEF RagTypeOK
  <2>12. QuietInv'
    <3> SUFFICES ASSUME NEW t \in Sources, t \notin unsure', \A q \in Ops : ~AtWork(op'[q], t)
                 PROVE  index'[t] = ChunksOf(stored'[t])
      BY DEF QuietInv, AtWork
    <3>1. ~AtWork(op[o], t)
      BY <1>1 DEF AtWork
    <3>2. QED
      BY <1>0, <1>1, <2>1, <2>10, <3>1, StaysQuiet
  <2>13. QED
    BY <2>9, <2>11, <2>12 DEF RagInv
<1>4. QED
  BY <1>2, <1>3

LEMMA IndexNextKeeps ==
    ASSUME RagInv, NEW o \in Ops, IndexNext(o)
    PROVE  RagInv'
<1>0. RagTypeOK /\ RaceInv /\ KnowsInv /\ QuietInv
  BY DEF RagInv
<1>1. /\ op[o].pc = "loading" /\ op[o].todo = {}
      /\ UNCHANGED <<stored, versions, index, deaths, unsure>>
  BY DEF IndexNext
<1>2. PICK y \in OpRecords :
         /\ op' = [op EXCEPT ![o] = y]
         /\ Touches(y) \subseteq Touches(op[o]) /\ Touches(y) \cap op[o].raced \subseteq y.raced
         /\ \A s \in Sources \ y.raced :
               /\ y.read[s] # NoDocument => y.read[s] = stored[s]
               /\ AtWork(y, s) => y.pc = "embedding" /\ y.doc = stored[s]
  <2>1. CASE \A s \in Sources : op[o].read[s] = NoDocument
    <3>1. op' = [op EXCEPT ![o] = NoOp]
      BY <2>1 DEF IndexNext
    <3>2. \A s \in Sources : NoOp.read[s] = NoDocument /\ ~AtWork(NoOp, s)
      BY NoOpShape DEF AtWork
    <3>3. QED
      BY <3>1, <3>2, NoOpShape
  <2>2. CASE \E s \in Sources : op[o].read[s] # NoDocument
    <3> DEFINE x(s) == [op[o] EXCEPT !.pc = "embedding", !.src = s, !.doc = op[o].read[s],
                                     !.read = [op[o].read EXCEPT ![s] = NoDocument]]
    <3>1. PICK s \in Sources : op[o].read[s] # NoDocument /\ op' = [op EXCEPT ![o] = x(s)]
      <4>1. PICK s \in Sources :
               /\ op[o].read[s] # NoDocument
               /\ op' = [op EXCEPT ![o].pc = "embedding", ![o].src = s, ![o].doc = op[o].read[s],
                                   ![o].read[s] = NoDocument]
        BY <2>2 DEF IndexNext
      <4>2. op' = [op EXCEPT ![o] = x(s)]
        BY <4>1, Zenon
      <4>3. QED
        BY <4>1, <4>2
    <3>2. /\ [op[o].read EXCEPT ![s] = NoDocument] \in [Sources -> Documents]
          /\ \A t \in Sources : [op[o].read EXCEPT ![s] = NoDocument][t]
                                = IF t = s THEN NoDocument ELSE op[o].read[t]
          /\ op[o].read[s] \in Documents /\ "embedding" \in OpStates
      BY <1>0, OpFields, DocumentTypes DEF OpStates
    <3> DEFINE y == x(s)
               r == [op[o].read EXCEPT ![s] = NoDocument]
    <3>3. /\ y \in OpRecords /\ y.pc = "embedding" /\ y.src = s /\ y.todo = op[o].todo
          /\ y.read = r /\ y.raced = op[o].raced /\ y.doc = op[o].read[s]
      <4>1. y = [op[o] EXCEPT !.pc = "embedding", !.src = s, !.doc = op[o].read[s], !.read = r]
        OBVIOUS
      <4>2. r \in [Sources -> Documents]
        BY <3>2
      <4> HIDE DEF r
      <4>3. QED
        BY <1>0, <3>2, <4>1, <4>2, OpFields DEF OpRecords
    <3>4. \A t \in Sources : y.read[t] = IF t = s THEN NoDocument ELSE op[o].read[t]
      BY <3>2, <3>3
    <3>5. op' = [op EXCEPT ![o] = y]
      BY <3>1
    <3> HIDE DEF x, y, r
    <3>6. Touches(y) \subseteq Touches(op[o])
      BY <1>1, <3>1, <3>3, <3>4 DEF Touches
    <3>7. ASSUME NEW t \in Sources \ y.raced
          PROVE  /\ y.read[t] # NoDocument => y.read[t] = stored[t]
                 /\ AtWork(y, t) => y.pc = "embedding" /\ y.doc = stored[t]
      <4>1. op[o].read[t] # NoDocument => op[o].read[t] = stored[t]
        BY <1>0, <3>3 DEF KnowsInv, Knows
      <4>2. QED
        BY <3>1, <3>3, <3>4, <4>1 DEF AtWork
    <3>8. QED
      BY <3>3, <3>5, <3>6, <3>7
  <2>3. QED
    BY <2>1, <2>2
<1>3. op' \in [Ops -> OpRecords] /\ \A q \in Ops : op'[q] = IF q = o THEN y ELSE op[q]
  BY <1>0, <1>2, Moves
<1>4. RaceInv' /\ KnowsInv'
  BY <1>0, <1>1, <1>2, GoesOn
<1>5. RagTypeOK'
  BY <1>0, <1>1, <1>3 DEF RagTypeOK
<1>6. QuietInv'
  <2> SUFFICES ASSUME NEW t \in Sources, t \notin unsure', \A q \in Ops : ~AtWork(op'[q], t)
               PROVE  index'[t] = ChunksOf(stored'[t])
    BY DEF QuietInv, AtWork
  <2>1. ~AtWork(op[o], t)
    BY <1>1 DEF AtWork
  <2>2. QED
    BY <1>0, <1>1, <1>3, <2>1, StaysQuiet
<1>7. QED
  BY <1>4, <1>5, <1>6 DEF RagInv

LEMMA DieKeeps ==
    ASSUME RagInv, Die
    PROVE  RagInv'
<1>0. RagTypeOK /\ QuietInv
  BY DEF RagInv
<1>1. /\ op' = [o \in Ops |-> NoOp] /\ UNCHANGED <<stored, versions, index>>
      /\ unsure' = unsure \cup UNION {Touches(op[o]) : o \in Ops}
      /\ deaths' = deaths + 1 /\ deaths < MaxDeaths
  BY DEF Die
<1>2. op' \in [Ops -> OpRecords] /\ \A o \in Ops : op'[o] = NoOp
  BY <1>1, NoOpShape
<1>3. unsure' \subseteq Sources
  <2>1. \A o \in Ops : Touches(op[o]) \subseteq Sources
    BY <1>0, OpFields DEF Touches
  <2>2. QED
    BY <1>0, <1>1, <2>1 DEF RagTypeOK
<1>4. RagTypeOK'
  BY <1>0, <1>1, <1>2, <1>3, RagAssumption DEF RagTypeOK
<1>5. RaceInv'
  BY <1>2, NoOpShape DEF RaceInv
<1>6. KnowsInv'
  <2>1. \A s \in Sources : NoOp.read[s] = NoDocument /\ ~AtWork(NoOp, s)
    BY NoOpShape DEF AtWork
  <2>2. QED
    BY <1>2, <2>1 DEF KnowsInv, Knows, AtWork
<1>7. QuietInv'
  <2> SUFFICES ASSUME NEW t \in Sources, t \notin unsure'
               PROVE  index'[t] = ChunksOf(stored'[t])
    BY DEF QuietInv
  <2>1. t \notin unsure /\ \A o \in Ops : t \notin Touches(op[o])
    BY <1>1
  <2>2. \A o \in Ops : ~AtWork(op[o], t)
    BY <2>1, Touched
  <2>3. QED
    BY <1>0, <1>1, <2>1, <2>2 DEF QuietInv
<1>8. QED
  BY <1>4, <1>5, <1>6, <1>7 DEF RagInv

-----------------------------------------------------------------------------
(* The theorems.                                                            *)

LEMMA RagInitially == RagInit => RagInv
<1> SUFFICES ASSUME RagInit
             PROVE  RagInv
  OBVIOUS
<1>1. \A o \in Ops : op[o] = NoOp
  BY DEF RagInit
<1>2. RagTypeOK
  BY NoOpShape, DocumentTypes, RagAssumption DEF RagInit, RagTypeOK
<1>3. RaceInv
  BY <1>1, NoOpShape DEF RaceInv
<1>4. KnowsInv
  <2>1. \A s \in Sources : NoOp.read[s] = NoDocument /\ ~AtWork(NoOp, s)
    BY NoOpShape DEF AtWork
  <2>2. QED
    BY <1>1, <2>1 DEF KnowsInv, Knows
<1>5. QuietInv
  BY DEF QuietInv, RagInit, NoChunks
<1>6. QED
  BY <1>2, <1>3, <1>4, <1>5 DEF RagInv

LEMMA RagStep == RagInv /\ [RagNext]_ragVars => RagInv'
<1> SUFFICES ASSUME RagInv, [RagNext]_ragVars
             PROVE  RagInv'
  OBVIOUS
<1>1. ASSUME NEW o \in Ops, NEW s \in Sources, Write(o, s) \/ Delete(o, s)
      PROVE  RagInv'
  BY <1>1, WriteKeeps, DeleteKeeps
<1>2. ASSUME NEW o \in Ops, ReadBack(o) \/ Embed(o) \/ Empty(o) \/ Fill(o) \/ Erase(o)
      PROVE  RagInv'
  BY <1>2, ReadBackKeeps, EmbedKeeps, EmptyKeeps, FillKeeps, EraseKeeps
<1>3. ASSUME NEW o \in Ops, Reindex(o) \/ LoadNext(o) \/ IndexNext(o)
      PROVE  RagInv'
  BY <1>3, ReindexKeeps, LoadNextKeeps, IndexNextKeeps
<1>4. ASSUME NEW s \in Sources, AgentWrite(s) \/ DropRow(s)
      PROVE  RagInv'
  BY <1>4, AgentWriteKeeps, DropRowKeeps
<1>5. CASE UNCHANGED ragVars
  BY <1>5 DEF ragVars, RagInv, RagTypeOK, RaceInv, KnowsInv, Knows, AtWork, QuietInv, Touches
<1>6. QED
  BY <1>1, <1>2, <1>3, <1>4, <1>5, DieKeeps DEF RagNext

\* A source that no operation touches has nobody at work on it.
LEMMA QuietIsTrue == QuietInv => IndexIsTrue
<1> SUFFICES ASSUME QuietInv, NEW s \in Sources \ unsure, \A o \in Ops : s \notin Touches(op[o])
             PROVE  index[s] = ChunksOf(stored[s])
  BY DEF IndexIsTrue
<1>1. \A o \in Ops : ~AtWork(op[o], s)
  BY Touched
<1>2. QED
  BY <1>1 DEF QuietInv

\* The store, the index and the operations on their way keep their types
\* (rag.py, memory.py, conversation_attachments.py).
THEOREM RagTypes == RagSpec => []RagTypeOK
<1>1. RagInv => RagTypeOK
  BY DEF RagInv
<1>2. QED
  BY <1>1, RagInitially, RagStep, PTL DEF RagSpec

\* Once the operations on a source are over, the last neither failed nor raced, and
\* neither an agent nor the deletion of a conversation changed the document since, the
\* index has exactly its chunks: upsert_source_document, delete_source and the reindex
\* request, rag.py.
THEOREM IndexTrue == RagSpec => []IndexIsTrue
<1>1. RagInv => IndexIsTrue
  BY QuietIsTrue DEF RagInv
<1>2. QED
  BY <1>1, RagInitially, RagStep, PTL DEF RagSpec
===============================================================================
