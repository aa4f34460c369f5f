---------------------------- MODULE CloudInstances ----------------------------
(***************************************************************************)
(* Which instance and which credential a message means: the registry of      *)
(* backend/services/cloud_credentials.py and the candidates of               *)
(* backend/services/cloud_instance_candidates.py.                            *)
(*                                                                         *)
(* A record is one instance of a memory document:                            *)
(*   id, project      project is Absent when the document names none         *)
(*   cell             its credential_ref: Absent without one, Malformed when  *)
(*                    nothing is left of it once it is normalised, else a ref *)
(*   hits             the pairs of a keyword of the message and a field of    *)
(*                    the record that contains it                            *)
(* How keywords and fields are cut out of text is abstracted into hits.      *)
(***************************************************************************)
EXTENDS Sequences, SequencesExt, StableSort

CONSTANTS Absent, Malformed

-----------------------------------------------------------------------------
(* The registry: credentials in order, overrides by instance, bindings by project. *)

EmptyRegistry == [credentials |-> <<>>, overrides |-> <<>>, bindings |-> <<>>]

\* _normalize_registry; FALSE stands for the answer 400.
RegistryIsAccepted(g) ==
    LET refs == ToSet(g.credentials)
    IN  /\ Malformed \notin refs /\ Cardinality(refs) = Len(g.credentials)
        /\ \A m \in {g.overrides, g.bindings} : \A x \in DOMAIN m : m[x] \in refs

\* save_cloud_credentials_registry: a payload that is not accepted leaves the document.
SavedRegistry(old, payload) == IF RegistryIsAccepted(payload) THEN payload ELSE old

\* resolve_credential_ref, with its source.
CredentialOf(g, chosen, record) ==
    CASE chosen # Absent -> [ref |-> chosen, source |-> "explicit"]
      [] chosen = Absent /\ record.id \in DOMAIN g.overrides ->
            [ref |-> g.overrides[record.id], source |-> "instance_override"]
      [] chosen = Absent /\ record.id \notin DOMAIN g.overrides /\ record.project \in DOMAIN g.bindings ->
            [ref |-> g.bindings[record.project], source |-> "project_binding"]
      [] OTHER -> [ref |-> Absent, source |-> "none"]

-----------------------------------------------------------------------------
(* resolve_cloud_request_context; explicit is the credential_ref of the request. *)

\* score_instance_candidate.
ScoreOf(record) == 5 * record.hits

Candidates(g, explicit, records) ==
    LET wanted == Taken(records, {i \in DOMAIN records : ScoreOf(records[i]) > 0 \/ explicit # Absent})
        credential(x) == CredentialOf(g, IF explicit # Absent THEN explicit ELSE x.cell, x)
    IN  [k \in DOMAIN wanted |->
            [id |-> wanted[k].id, project |-> wanted[k].project, score |-> ScoreOf(wanted[k]),
             ref |-> credential(wanted[k]).ref, source |-> credential(wanted[k]).source]]

\* Mutated form: the candidates stay in the order of the documents.
Ranked_AsFound(candidates) == candidates

\* By score and then by id, the highest first; equal ones stay as they were found.
Ranked(candidates) ==
    LET before(x, y) == x.score > y.score \/ (x.score = y.score /\ x.id > y.id)
        D == DOMAIN candidates
        order == Arranged([i \in D |->
                    {j \in D : \/ before(candidates[j], candidates[i])
                               \/ ~before(candidates[i], candidates[j]) /\ j < i}])
    IN  [k \in D |-> candidates[order[k]]]

\* select_top_candidates: the places of those with the score of the first one.
TopCandidates(ranked) == {k \in DOMAIN ranked : ranked[k].score = ranked[1].score}

\* What all that have one agree on.
Common(values) == LET given == values \ {Absent}
                  IN  IF Cardinality(given) = 1 THEN CHOOSE v \in given : TRUE ELSE Absent

Unmatched(ref, source) == [status |-> "unmatched", id |-> Absent, project |-> Absent, ref |-> ref,
                           source |-> source]

\* One malformed cell, in any document, is an error of the request, as is an explicit
\* reference that is malformed.
CloudContext(g, explicit, records) ==
    LET ranked == Ranked(Candidates(g, explicit, records))
        top == TopCandidates(ranked)
        common(f) == Common({ranked[k][f] : k \in top})
    IN  CASE explicit = Malformed \/ \E i \in DOMAIN records : records[i].cell = Malformed ->
                [Unmatched(Absent, "none") EXCEPT !.status = "error"]
          [] OTHER ->
                IF ranked = <<>> THEN Unmatched(explicit, IF explicit = Absent THEN "none" ELSE "explicit")
                ELSE IF Cardinality(top) > 1
                THEN [status |-> "ambiguous", id |-> Absent, project |-> common("project"), ref |-> common("ref"),
                      source |-> IF common("ref") = Absent THEN "none" ELSE "project_binding"]
                ELSE [status |-> "matched", id |-> ranked[1].id, project |-> ranked[1].project,
                      ref |-> ranked[1].ref, source |-> ranked[1].source]

-----------------------------------------------------------------------------

\* A request is answered with the one record that fits it best, wherever it is among
\* the documents, with its reference by precedence; when several fit equally well none
\* is chosen, and their reference is given only if no two of them differ in it; a
\* reference that came by the registry is one of its credentials.
AnswerIsBest(g, explicit, records) ==
    LET answer == CloudContext(g, explicit, records)
        wanted == {i \in DOMAIN records : explicit # Absent \/ records[i].hits > 0}
        best == {i \in wanted : \A j \in wanted : records[j].hits <= records[i].hits}
        refOf(i) == CASE explicit # Absent -> explicit
                      [] explicit = Absent /\ records[i].cell # Absent -> records[i].cell
                      [] OTHER -> CredentialOf(g, Absent, records[i]).ref
    IN  answer.status # "error" =>
            /\ answer.status = "matched" <=> Cardinality(best) = 1
            /\ answer.status = "ambiguous" <=> Cardinality(best) > 1
            /\ \A i \in best : answer.status = "matched" =>
                  answer.id = records[i].id /\ answer.ref = refOf(i)
            /\ answer.status = "ambiguous" /\ answer.ref # Absent =>
                  \A i \in best : refOf(i) \in {answer.ref, Absent}
            /\ answer = CloudContext(g, explicit, Reverse(records))
            /\ answer.source = "instance_override" => answer.ref \in ToSet(g.credentials)
=============================================================================
