----------------------------- MODULE MC_Services -----------------------------
(***************************************************************************)
(* The services that share no state, one behaviour for each of them: part    *)
(* says which one moves.                                                     *)
(***************************************************************************)
EXTENDS AgentRuntimes, TaskNotifications, Attachments, RagIndex, SkillStore, ToolEvents, TLC

CONSTANTS k1, k2

VARIABLE part

\* One page that loses its connection and comes back, beside one that only asks; and
\* two that are online of which one goes.
MCBudgets ==
    LET may(c, x, r) == [connects |-> c, closes |-> x, requests |-> r]
    IN  {k1 :> may(1, 0, 2) @@ k2 :> may(0, 0, 1), k1 :> may(1, 0, 0) @@ k2 :> may(2, 1, 0)}

servicesVars == <<runtimesVars, notesVars, attachmentsVars, ragVars, skillStoreVars,
                  toolEventsVars, part>>

\* The inputs to choose from are fixed while another part moves.
ServicesInit ==
    /\ part \in {"runtimes", "notes", "attachments", "rag", "skills", "tools"}
    /\ RuntimesInit /\ NotesInit /\ AttachmentsInit /\ RagInit /\ SkillStoreInit /\ ToolEventsInit
    /\ part # "notes" => left = CHOOSE b \in Budgets : TRUE
    /\ part # "tools" => \A c, d \in Calls : calls[c] = calls[d] /\ calls[c].tool \in TextTools

ServicesNext ==
    /\ \/ part = "runtimes" /\ RuntimesNext
       \/ part # "runtimes" /\ UNCHANGED runtimesVars
    /\ \/ part = "notes" /\ NotesNext
       \/ part # "notes" /\ UNCHANGED notesVars
    /\ \/ part = "attachments" /\ AttachmentsNext
       \/ part # "attachments" /\ UNCHANGED attachmentsVars
    /\ \/ part = "rag" /\ RagNext
       \/ part # "rag" /\ UNCHANGED ragVars
    /\ \/ part = "skills" /\ SkillStoreNext
       \/ part # "skills" /\ UNCHANGED skillStoreVars
    /\ \/ part = "tools" /\ ToolEventsNext
       \/ part # "tools" /\ UNCHANGED toolEventsVars
    /\ UNCHANGED part

ServicesSpec == ServicesInit /\ [][ServicesNext]_servicesVars

-----------------------------------------------------------------------------

\* Every variable of every service has its type.
ServicesTypeOK == /\ RuntimesTypeOK /\ NotesTypeOK /\ AttachmentsTypeOK
                  /\ RagTypeOK /\ SkillStoreTypeOK /\ ToolEventsTypeOK
=============================================================================
