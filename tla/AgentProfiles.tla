----------------------------- MODULE AgentProfiles -----------------------------
(***************************************************************************)
(* The registry of agent profiles: what backend/agents/loader.py accepts,    *)
(* how backend/agent_profiles.py resolves an agent id and which memory an    *)
(* agent has, and the tree of subagents that backend/agent_manager.py builds *)
(* from it.  A registry is a record of                                       *)
(*   manifests   the agents that have a manifest in a directory of their name *)
(*   default, public, aliases                             of registry.toml    *)
(*   direct, handoffs, subagents         of the manifests: execution_mode is  *)
(*                                       direct, allowed_handoffs, and        *)
(*                                       subagent_configs                     *)
(* The lists keep their order in the code; only membership matters here.     *)
(***************************************************************************)
EXTENDS Naturals, Sequences, FiniteSets

CONSTANTS
    Blank,    \* an agent id that is empty
    NoAgent   \* None, the answer for an id that is not known

-----------------------------------------------------------------------------
(* load_agent_registry.                                                      *)

\* What _read_string lets pass: no id and no alias is empty.
IsRegistry(r) ==
    /\ IsFiniteSet(r.manifests)
    /\ {Blank, NoAgent} \cap (r.manifests \cup DOMAIN r.aliases) = {}

\* Mutated form: an agent may be its own subagent.
RelationsAreValid_OwnSubagent(r) ==
    \A a \in r.manifests : r.handoffs[a] \subseteq r.manifests /\ r.subagents[a] \subseteq r.handoffs[a]

\* _validate_manifest_relationships.
RelationsAreValid(r) ==
    \A a \in r.manifests : /\ a \notin r.handoffs[a] \cup r.subagents[a]
                           /\ r.handoffs[a] \subseteq r.manifests
                           /\ r.subagents[a] \subseteq r.handoffs[a]

\* _validate_registry.
RegistryIsValid(r) ==
    /\ r.default \in r.manifests \cap r.public
    /\ r.public \subseteq r.manifests
    /\ \A x \in DOMAIN r.aliases : x \notin r.manifests /\ r.aliases[x] \in r.manifests
    /\ RelationsAreValid(r)

\* _load_agent_manifests, as far as it looks at more than one field.
ManifestsAreValid(r) ==
    /\ r.manifests # {}
    /\ \A a \in r.manifests \cap r.direct : r.subagents[a] = {}

Loads(r) == ManifestsAreValid(r) /\ RegistryIsValid(r)

-----------------------------------------------------------------------------
(* agent_profiles.py, of a registry that loads.                              *)

Canonical(r, x) == CASE x = Blank -> r.default
                     [] x \in DOMAIN r.aliases -> r.aliases[x]
                     [] OTHER -> x

\* resolve_known_agent_id(default_on_unknown); NoAgent stands for None and for the
\* ValueError.
ResolveKnown(r, x, allowNone, defaultOnUnknown) ==
    CASE x = Blank -> IF allowNone THEN NoAgent ELSE r.default
      [] x # Blank /\ Canonical(r, x) \in r.manifests -> Canonical(r, x)
      [] OTHER -> IF defaultOnUnknown THEN r.default ELSE NoAgent

\* get_agent_memory_roots: directories of the agent and of the aliases it had.
MemoryRoots(r, x) ==
    LET agent == Canonical(r, x)
    IN  {agent} \cup {y \in DOMAIN r.aliases : r.aliases[y] = agent}

\* list_agent_profiles: public ones first, the others when legacy is asked for.
ListedProfiles(r, legacy) == r.public \cup (IF legacy THEN r.manifests ELSE {})

\* resolve_event_agent_id: the agent an event is of, by the event, its metadata, or
\* the agent of the turn.
EventAgent(r, explicit, metadata, fallback) ==
    LET known(x) == ResolveKnown(r, x, TRUE, FALSE)
    IN  CASE known(explicit) # NoAgent -> known(explicit)
          [] known(explicit) = NoAgent /\ known(metadata) # NoAgent -> known(metadata)
          [] OTHER -> ResolveKnown(r, fallback, FALSE, FALSE)

-----------------------------------------------------------------------------

\* _build_subagents, as the paths of the tree below agent a; lineage holds the agents
\* above a.
SubagentPaths(r, a) ==
    LET below[lineage \in SUBSET r.manifests] ==
            [b \in r.manifests |->
                UNION {{<<c>>} \cup {<<c>> \o p : p \in below[lineage \cup {b}][c]} :
                       c \in (r.subagents[b] \cap r.manifests) \ lineage}]
    IN  below[{}][a]

-----------------------------------------------------------------------------
(* What the users of a registry that loads rely on.                          *)

\* The smallest set with the subagents of a and of each of its elements.
ReachedFrom(r, a) ==
    {b \in r.manifests : \A S \in SUBSET r.manifests :
        r.subagents[a] \subseteq S /\ (\A c \in S : r.subagents[c] \subseteq S) => b \in S}

\* No agent is above itself in the tree, each step of it is an allowed handoff, and
\* every agent that can be delegated to is in it.
TreeIsSound(r) ==
    \A a \in r.manifests :
        LET paths == SubagentPaths(r, a)
        IN  /\ \A p \in paths : LET q == <<a>> \o p
                                IN  /\ \A i, j \in DOMAIN q : i # j => q[i] # q[j]
                                    /\ \A i \in DOMAIN p : q[i + 1] \in r.handoffs[q[i]]
            /\ {p[Len(p)] : p \in paths} = ReachedFrom(r, a) \ {a}

\* An id means one agent, however often it is resolved; that agent has the same
\* memory under each of its names and shares none with another one.
NamesAreSound(r, names) ==
    LET agent(x) == ResolveKnown(r, x, FALSE, FALSE)
    IN  /\ \A a \in r.manifests : agent(a) = a
        /\ \A x \in names : agent(x) # NoAgent =>
              /\ agent(agent(x)) = agent(x)
              /\ MemoryRoots(r, x) = MemoryRoots(r, agent(x))
              /\ \A y \in names : agent(y) \notin {NoAgent, agent(x)}
                                  => MemoryRoots(r, x) \cap MemoryRoots(r, y) = {}
              /\ EventAgent(r, Blank, x, r.default) = agent(x)
=============================================================================
