------------------------------ MODULE ToolEvents ------------------------------
(***************************************************************************)
(* Which input a tool result is shown with: the queues of run_agent,         *)
(* backend/agent.py, and of AgentEventState, which every consumer of the     *)
(* events keeps again, backend/services/agent_event_state.py.  Both queues   *)
(* are per tool name, first-in first-out; the framework says which tool has  *)
(* ended, not which call.                                                    *)
(***************************************************************************)
EXTENDS Naturals, Sequences

CONSTANTS
    Calls,      \* tool calls of a turn
    Tools,      \* names of tools
    TextTools   \* those whose input is a text, which only AgentEventState makes a dict of

ASSUME ToolEventsAssumption == TextTools \subseteq Tools

VARIABLES
    calls,     \* calls[c]: the tool, and where the call is
    agentQueue,    \* pending_tool_inputs of run_agent: the calls the inputs are of
    stateQueue,    \* _pending_tool_inputs of AgentEventState
    results,   \* _tool_results: <<call, call whose input it is shown with>>, <<call>> for None
    mixed      \* history: tools of which a call failed, or two overlapped

toolEventsVars == <<calls, agentQueue, stateQueue, results, mixed>>

-----------------------------------------------------------------------------

ToolEventsTypeOK ==
    /\ calls \in [Calls -> [tool: Tools, at: {"new", "running", "ended", "failed"}]]
    /\ agentQueue \in [Tools -> Seq(Calls)] /\ stateQueue \in [Tools -> Seq(Calls)]
    /\ results \in Seq(Seq(Calls))
    /\ mixed \subseteq Tools

ToolEventsInit ==
    /\ calls \in [Calls -> [tool: Tools, at: {"new"}]]
    /\ agentQueue = [t \in Tools |-> <<>>] /\ stateQueue = [t \in Tools |-> <<>>]
    /\ results = <<>>
    /\ mixed = {}

RunningCalls(t) == {c \in Calls : calls[c].tool = t /\ calls[c].at = "running"}

\* Mutated form: the input stays in the queue.
Popped_Not(queue) == queue

Popped(queue) == IF queue = <<>> THEN <<>> ELSE Tail(queue)

\* on_tool_start: run_agent queues a dict, apply_event(tool_call) a dict and the text
\* of "execute".
CallTool(c) ==
    LET t == calls[c].tool
    IN  /\ calls[c].at = "new"
        /\ calls' = [calls EXCEPT ![c].at = "running"]
        /\ agentQueue' = IF t \in TextTools THEN agentQueue
                         ELSE [agentQueue EXCEPT ![t] = Append(@, c)]
        /\ stateQueue' = [stateQueue EXCEPT ![t] = Append(@, c)]
        /\ mixed' = IF RunningCalls(t) # {} THEN mixed \cup {t} ELSE mixed
        /\ UNCHANGED results

\* on_tool_end: run_agent takes the input at the head of its queue; apply_event
\* (tool_result) takes that one and drops the head of its own queue, or takes the
\* head when run_agent had none.
ToolEnds(c) ==
    LET t == calls[c].tool
        input == IF agentQueue[t] # <<>> THEN <<Head(agentQueue[t])>>
                 ELSE IF stateQueue[t] # <<>> THEN <<Head(stateQueue[t])>> ELSE <<>>
    IN  /\ calls[c].at = "running"
        /\ calls' = [calls EXCEPT ![c].at = "ended"]
        /\ results' = Append(results, <<c>> \o input)
        /\ agentQueue' = [agentQueue EXCEPT ![t] = Popped(@)]
        /\ stateQueue' = [stateQueue EXCEPT ![t] = Popped(@)]
        /\ UNCHANGED mixed

\* on_tool_error is not handled: the input stays where it is.
ToolFails(c) ==
    /\ calls[c].at = "running"
    /\ calls' = [calls EXCEPT ![c].at = "failed"]
    /\ mixed' = mixed \cup {calls[c].tool}
    /\ UNCHANGED <<agentQueue, stateQueue, results>>

ToolEventsNext == \E c \in Calls : CallTool(c) \/ ToolEnds(c) \/ ToolFails(c)

ToolEventsSpec == ToolEventsInit /\ [][ToolEventsNext]_toolEventsVars

-----------------------------------------------------------------------------

\* However the calls of several tools interleave, no input is shown with two results,
\* a result is shown with an input of its tool, and with its own as long as the calls
\* of that tool followed one another and none failed.
ResultsKeepTheirInput ==
    \A i \in DOMAIN results :
        LET t == calls[results[i][1]].tool
        IN  /\ Len(results[i]) = 2 /\ calls[results[i][2]].tool = t
            /\ t \notin mixed => results[i][2] = results[i][1]
            /\ \A k \in DOMAIN results : results[k][2] = results[i][2] => k = i
=============================================================================
