----------------------------- MODULE MC_Algorithms -----------------------------
(***************************************************************************)
(* The algorithms that decide on their inputs alone.  A behaviour is one     *)
(* case: checked is the kind of case and its input.                          *)
(***************************************************************************)
EXTENDS McpServers, CloudInstances, HealthSignals

CONSTANTS a, b, c, legacy, ghost, east, west, ref1, ref2

VARIABLE checked

-----------------------------------------------------------------------------
(* Inputs.                                                                   *)

MCAgents == {a, b, c}
MCNames == MCAgents \cup {legacy, ghost, Blank}

\* Who may be handed to: what the subagents need, nobody, or everyone but oneself.
MCRegistries ==
    {[manifests |-> ms, default |-> a, public |-> p, aliases |-> al, direct |-> d,
      subagents |-> subs, handoffs |-> hs] :
        ms \in {MCAgents}, p \in {{a}, {a, c}, {b}},
        al \in {<<>>, [x \in {legacy} |-> a], [x \in {legacy, ghost} |-> b], [x \in {a} |-> b],
                [x \in {legacy} |-> ghost]},
        d \in {{}, {c}},
        subs \in [MCAgents -> SUBSET MCAgents],
        hs \in {[x \in MCAgents |-> {}], [x \in MCAgents |-> MCAgents \ {x}]}}
    \cup {[manifests |-> {a, b}, default |-> a, public |-> {a}, aliases |-> <<>>, direct |-> {},
           subagents |-> subs, handoffs |-> subs] : subs \in [{a, b} -> SUBSET MCAgents]}

MCRegistry == [manifests |-> MCAgents, default |-> a, public |-> {a},
               aliases |-> [x \in {legacy} |-> a], direct |-> MCAgents,
               subagents |-> [x \in MCAgents |-> {}], handoffs |-> [x \in MCAgents |-> {}]]

ASSUME MCRegistryLoads == IsRegistry(MCRegistry) /\ Loads(MCRegistry)

MCEntries == Entries(BoundedSeq({a, b, legacy, ghost, Blank}, 2))

MCPayloads == {[credentials |-> cs, overrides |-> o, bindings |-> p] :
                   cs \in {<<ref1>>, <<ref1, ref2>>, <<ref1, ref1>>, <<ref1, Malformed>>},
                   o \in {<<>>, [x \in {1} |-> ref2]}, p \in {<<>>, [x \in {east} |-> ref1]}}

MCRecords == BoundedSeq([id : 1..2, project : {east}, cell : {Absent, ref1}, hits : 0..2], 3)
             \cup BoundedSeq([id : 1..2, project : {east, west, Absent}, cell : {Absent, ref1, Malformed},
                              hits : 0..1], 2)

\* Twenty points: ten, nine and one of a level each, so that the median, the 95th
\* percentile and the maximum move on their own; and the same with one of them raised.
MCLevels == <<50, 59, 60, 70, 79, 80, 90, 100>>
MCSample(x) == [i \in 1..20 |-> IF i <= 10 THEN MCLevels[x[1]] ELSE IF i <= 19 THEN MCLevels[x[2]] ELSE MCLevels[x[3]]]

MCSignals == {l \in [Metrics -> {"none", "medium", "high"}] : l["memory"] = "none"}

Series(values, lengths) == UNION {[1..n -> values] : n \in lengths}

Points(s) == [i \in DOMAIN s |-> [ts |-> i, value |-> s[i]]]

-----------------------------------------------------------------------------

CheckRegistry == \E r \in MCRegistries : IsRegistry(r) /\ Loads(r) /\ checked' = [kind |-> "registry", r |-> r]

CheckEntry == \E e \in MCEntries : checked' = [kind |-> "entry", e |-> e]

CheckContext == \E p \in MCPayloads, x \in {Absent, ref2, Malformed}, s \in MCRecords :
    checked' = [kind |-> "context", g |-> SavedRegistry(EmptyRegistry, p), explicit |-> x, records |-> s]

CheckLoad == \E m \in Percents, x \in [1..3 -> DOMAIN MCLevels], i \in 1..3 :
    /\ x[i] < Len(MCLevels)
    /\ checked' = [kind |-> "load", m |-> m, low |-> MCSample(x), high |-> MCSample([x EXCEPT ![i] = @ + 1])]

CheckSignals == \E l \in MCSignals : checked' = [kind |-> "signals", level |-> l]

CheckPlateau == \E s \in Series({0, 60, 70, 300}, {3, 6}), w \in {3, 5} :
    checked' = [kind |-> "plateau", s |-> s, w |-> w]

CheckSeries == \E s \in Series({0, 1, 2, 9}, 2..6), w \in {3, 5} :
    checked' = [kind |-> "series", s |-> s, w |-> w]

CheckNodes == \E s, t \in Series({0, 9, NoValue}, {4}) :
    checked' = [kind |-> "nodes", nodes |-> <<[label |-> "n1", points |-> Points(s)],
                                              [label |-> "n2", points |-> Points(t)]>>]

CheckInit == checked = [kind |-> "none"]

CheckNext ==
    /\ checked.kind = "none"
    /\ \/ CheckRegistry \/ CheckEntry \/ CheckContext \/ CheckLoad
       \/ CheckSignals \/ CheckPlateau \/ CheckSeries \/ CheckNodes

CheckSpec == CheckInit /\ [][CheckNext]_checked

-----------------------------------------------------------------------------

\* A registry that the loader accepts gives every agent a finite tree of subagents that
\* its manifests allow, and every name one agent with a memory of its own
\* (agents/loader.py:247-340, agent_manager.py:163, agent_profiles.py:145-197).
RegistryIsSound ==
    checked.kind = "registry" => TreeIsSound(checked.r) /\ NamesAreSound(checked.r, MCNames)

\* An MCP configuration that was accepted is read back from the file as what it was
\* accepted as, with each agent once (services/mcp_registry.py:122-130, 371-389).
SavedConfigIsLoaded ==
    checked.kind = "entry" => SavedIsLoaded(MCRegistry, checked.e, MCNames)

\* A message is answered with the best instance only when there is one, and with the
\* credential its documents and the registry agree on
\* (services/cloud_credentials.py:278-393).
CandidateIsBest ==
    checked.kind = "context" => AnswerIsBest(checked.g, checked.explicit, checked.records)

\* The verdicts of the health analyzer do not contradict each other or the load
\* (get_instance_info.py:415-563, 803-954).
HealthIsCoherent ==
    /\ checked.kind = "load" => ScoreFollowsLoad(checked.m, checked.low, checked.high)
    /\ checked.kind = "signals" => SignalsFollowMetrics(checked.level)
    /\ checked.kind = "plateau" => PlateauIsCalm("qps", checked.s, checked.w, 288)

\* A spike is found wherever and in whatever order its point arrives, and is one of the
\* node it is of (get_instance_info.py:566-645, 1092-1141).
SpikesAreTrue ==
    /\ checked.kind = "series" => SpikesHaveNoEdge(checked.s, checked.w)
    /\ checked.kind = "nodes" => InstanceIsItsNodes(checked.nodes, 3, 288, 3)
=============================================================================
