------------------------------ MODULE McpServers ------------------------------
(***************************************************************************)
(* What backend/services/mcp_registry.py makes of the text of mcp.json, and  *)
(* which servers an agent is given.  An entry is a record of                 *)
(*   command, url  "absent" (missing, null or empty), "blank" or "given"; a   *)
(*                 url may also be "bad", not of http or https                *)
(*   transport     "absent", "stdio", "sse", "http" or "other"                *)
(*   enabled       "absent", "yes" or "no"                                    *)
(*   agentIds      the ids as written, none when there is no list            *)
(* Arguments, environment and headers are only carried along.                *)
(***************************************************************************)
EXTENDS AgentProfiles

Entries(idLists) ==
    [command : {"absent", "blank", "given"}, url : {"absent", "blank", "given", "bad"},
     transport : {"absent", "stdio", "sse", "http", "other"}, enabled : {"absent", "yes", "no"},
     agentIds : idLists]

Rejected == [transport |-> "none", enabled |-> FALSE, agents |-> <<>>]

\* _resolve_transport.
TransportOf(e) ==
    CASE e.transport \in {"stdio", "sse", "http"} -> e.transport
      [] e.transport = "absent" /\ e.command = "given" /\ e.url \notin {"given", "bad"} -> "stdio"
      [] e.transport = "absent" /\ e.command # "given" /\ e.url \in {"given", "bad"} -> "http"
      [] OTHER -> "none"

\* Mutated form: two names of one agent are both kept.
DistinctAgents_AsWritten(r, ids) ==
    LET f[i \in 0..Len(ids)] ==
            IF i = 0 THEN <<>>
            ELSE IF ids[i] = Blank \/ \E j \in 1..(i - 1) : ids[j] = ids[i] THEN f[i - 1]
            ELSE Append(f[i - 1], ResolveKnown(r, ids[i], FALSE, FALSE))
    IN  f[Len(ids)]

\* _normalize_agent_ids: blank ones are dropped, the others resolved, the first of
\* equal ones kept.
DistinctAgents(r, ids) ==
    LET agent(i) == ResolveKnown(r, ids[i], FALSE, FALSE)
        f[i \in 0..Len(ids)] ==
            IF i = 0 THEN <<>>
            ELSE IF ids[i] = Blank \/ \E j \in DOMAIN f[i - 1] : f[i - 1][j] = agent(i) THEN f[i - 1]
            ELSE Append(f[i - 1], agent(i))
    IN  f[Len(ids)]

\* _parse_server: rejected without the endpoint of its transport, with both endpoints,
\* or with an agent that is not known.
ParsedServer(r, e) ==
    LET t == TransportOf(e)
        agents == DistinctAgents(r, e.agentIds)
        accepted == /\ CASE t = "stdio" -> e.command = "given" /\ e.url = "absent"
                         [] t \in {"sse", "http"} -> e.url = "given" /\ e.command = "absent"
                         [] OTHER -> FALSE
                    /\ \A i \in DOMAIN agents : agents[i] # NoAgent
    IN  IF accepted THEN [transport |-> t, enabled |-> e.enabled # "no", agents |-> agents]
        ELSE Rejected

\* The entry as it is written back to the file.
WrittenServer(r, e) ==
    [e EXCEPT !.enabled = IF ParsedServer(r, e).enabled THEN "yes" ELSE "no",
              !.agentIds = DistinctAgents(r, e.agentIds)]

\* get_agent_connections: the servers, by name, that agent id x is given.
ConnectionsOf(r, servers, x) ==
    {s \in DOMAIN servers : LET p == ParsedServer(r, servers[s])
                            IN  /\ p.enabled
                                /\ p.agents # <<>> =>
                                      \E i \in DOMAIN p.agents :
                                         p.agents[i] = ResolveKnown(r, x, FALSE, FALSE)}

-----------------------------------------------------------------------------

\* A configuration that was saved is loaded as what it was accepted as, and gives
\* every agent the same servers under each of its names.
SavedIsLoaded(r, e, names) ==
    ParsedServer(r, e) # Rejected =>
        LET saved == WrittenServer(r, e)
        IN  /\ ParsedServer(r, saved) = ParsedServer(r, e)
            /\ WrittenServer(r, saved) = saved
            /\ Cardinality({saved.agentIds[i] : i \in DOMAIN saved.agentIds}) = Len(saved.agentIds)
            /\ \A x \in names : ResolveKnown(r, x, FALSE, FALSE) # NoAgent =>
                  ConnectionsOf(r, <<saved>>, x) =
                      ConnectionsOf(r, <<e>>, ResolveKnown(r, x, FALSE, FALSE))
=============================================================================
