---------------------------- MODULE Services_proofs ----------------------------
(***************************************************************************)
(* Proofs about the services that share no state, put together in          *)
(* MC_Services: that each of them behaves there as it does alone, so that  *)
(* what AgentRuntimes_proofs, Documents_proofs and SkillStore_proofs prove *)
(* holds of the whole; and, for every number of calls, tools, pages and    *)
(* notifications, what two smaller services promise: the tool results      *)
(* (ToolEvents) and the notifications (TaskNotifications).                 *)
(***************************************************************************)
EXTENDS MC_Services, AgentRuntimes_proofs, Documents_proofs, SkillStore_proofs, SequenceTheorems

-----------------------------------------------------------------------------
(* Tool results.                                                            *)

\* The two queues of a tool are the same, or only the second is used.
QueuesInv ==
    \A t \in Tools : agentQueue[t] = IF t \in TextTools THEN <<>> ELSE stateQueue[t]

\* The inputs that wait: of calls of that tool, one each, and enough of them.
WaitingInv ==
    /\ \A t \in Tools : \A i \in DOMAIN stateQueue[t] :
          calls[stateQueue[t][i]].tool = t /\ calls[stateQueue[t][i]].at # "new"
    /\ \A t \in Tools : \A i, j \in DOMAIN stateQueue[t] : stateQueue[t][i] = stateQueue[t][j] => i = j
    /\ \A t \in Tools : \A i \in DOMAIN stateQueue[t] : \A k \in DOMAIN results :
          results[k][2] # stateQueue[t][i]
    /\ \A t \in Tools : IsFiniteSet(RunningCalls(t)) /\ Cardinality(RunningCalls(t)) <= Len(stateQueue[t])

\* The calls of a tool follow one another.
OrderlyInv ==
    \A t \in Tools \ mixed :
        \/ RunningCalls(t) = {} /\ stateQueue[t] = <<>>
        \/ \E c \in Calls : RunningCalls(t) = {c} /\ stateQueue[t] = <<c>>

ShownInv ==
    \A k \in DOMAIN results :
        /\ Len(results[k]) = 2
        /\ calls[results[k][1]].at # "new" /\ calls[results[k][2]].at # "new"

ToolInv == /\ ToolEventsTypeOK /\ QueuesInv /\ WaitingInv /\ OrderlyInv /\ ShownInv
           /\ ResultsKeepTheirInput

LEMMA Appended ==
    ASSUME NEW S, NEW s \in Seq(S), NEW c \in S
    PROVE  /\ Append(s, c) \in Seq(S) /\ Len(Append(s, c)) = Len(s) + 1 /\ DOMAIN Append(s, c) = 1..Len(s) + 1
           /\ \A i \in DOMAIN Append(s, c) :
                 Append(s, c)[i] = IF i = Len(s) + 1 THEN c ELSE s[i]
           /\ DOMAIN s = 1..Len(s) /\ Len(s) \in Nat /\ \A i \in DOMAIN s : s[i] \in S
OBVIOUS

LEMMA PoppedOff ==
    ASSUME NEW S, NEW s \in Seq(S), s # <<>>
    PROVE  /\ Popped(s) \in Seq(S) /\ Len(Popped(s)) = Len(s) - 1
           /\ \A i \in DOMAIN Popped(s) : i + 1 \in DOMAIN s /\ i \in Nat /\ Popped(s)[i] = s[i + 1]
           /\ 1 \in DOMAIN s /\ Head(s) = s[1] /\ Head(s) \in S
           /\ \A i \in DOMAIN Popped(s) : i + 1 # 1
BY DEF Popped

LEMMA Paired ==
    ASSUME NEW c \in Calls, NEW d \in Calls
    PROVE  <<c>> \o <<d>> = <<c, d>>
<1>1. <<c>> \in Seq(Calls)
  OBVIOUS
<1>2. Append(<<c>>, d) = <<c>> \o <<d>>
  BY <1>1, AppendIsConcat
<1>3. Append(<<c>>, d) = <<c, d>>
  <2>1. /\ Append(<<c>>, d) \in Seq(Calls) /\ Len(Append(<<c>>, d)) = 2
        /\ \A i \in 1..2 : Append(<<c>>, d)[i] = IF i = 2 THEN d ELSE <<c>>[i]
    BY <1>1, Appended
  <2>2. <<c, d>> \in Seq(Calls) /\ Len(<<c, d>>) = 2
    OBVIOUS
  <2>3. \A i \in 1..2 : <<c, d>>[i] = IF i = 2 THEN d ELSE <<c>>[i]
    OBVIOUS
  <2>4. QED
    BY <2>1, <2>2, <2>3, SeqEqual
<1>4. QED
  BY <1>2, <1>3

LEMMA PoppedEmpty == Popped(<<>>) = <<>>
BY DEF Popped

\* A call goes on to p.
LEMMA CallAt ==
    ASSUME ToolEventsTypeOK, NEW c \in Calls, NEW p \in {"running", "ended", "failed"},
           calls' = [calls EXCEPT ![c].at = p]
    PROVE  /\ calls' \in [Calls -> [tool: Tools, at: {"new", "running", "ended", "failed"}]]
           /\ \A d \in Calls : /\ calls'[d].tool = calls[d].tool /\ calls[d].tool \in Tools
                               /\ calls'[d].at = IF d = c THEN p ELSE calls[d].at
<1> DEFINE y == [calls[c] EXCEPT !.at = p]
<1>1. calls' = [calls EXCEPT ![c] = y]
  BY Zenon
<1>2. /\ y \in [tool: Tools, at: {"new", "running", "ended", "failed"}]
      /\ y.tool = calls[c].tool /\ y.at = p
  BY DEF ToolEventsTypeOK
<1> HIDE DEF y
<1>3. QED
  BY <1>1, <1>2 DEF ToolEventsTypeOK

\* The running calls of a tool, when call c starts or ends.
LEMMA RunningGrow ==
    ASSUME ToolEventsTypeOK, NEW c \in Calls, calls[c].at = "new",
           calls' = [calls EXCEPT ![c].at = "running"], NEW t \in Tools
    PROVE  /\ c \notin RunningCalls(t)
           /\ RunningCalls(t)' = IF t = calls[c].tool THEN RunningCalls(t) \cup {c} ELSE RunningCalls(t)
<1>1. \A d \in Calls : calls'[d].tool = calls[d].tool
                       /\ calls'[d].at = IF d = c THEN "running" ELSE calls[d].at
  BY CallAt
<1>2. QED
  BY <1>1 DEF RunningCalls

LEMMA RunningShrink ==
    ASSUME ToolEventsTypeOK, NEW c \in Calls, calls[c].at = "running", NEW p \in {"ended", "failed"},
           calls' = [calls EXCEPT ![c].at = p], NEW t \in Tools
    PROVE  /\ c \in RunningCalls(calls[c].tool)
           /\ RunningCalls(t)' = IF t = calls[c].tool THEN RunningCalls(t) \ {c} ELSE RunningCalls(t)
<1>1. \A d \in Calls : calls'[d].tool = calls[d].tool
                       /\ calls'[d].at = IF d = c THEN p ELSE calls[d].at
  BY CallAt, ZenonT(60)
<1>2. p # "running"
  OBVIOUS
<1>3. c \in RunningCalls(calls[c].tool)
  BY DEF RunningCalls
<1>4. ASSUME NEW d \in Calls
      PROVE  d \in RunningCalls(t)' <=> d \in RunningCalls(t) /\ d # c
  BY <1>1, <1>2 DEF RunningCalls
<1>5. RunningCalls(t) \subseteq Calls /\ RunningCalls(t)' \subseteq Calls
  BY DEF RunningCalls
<1>6. t # calls[c].tool => c \notin RunningCalls(t)
  BY DEF RunningCalls
<1>7. QED
  BY <1>3, <1>4, <1>5, <1>6

\* A running call has an input waiting.
LEMMA InputWaits ==
    ASSUME ToolEventsTypeOK, WaitingInv, NEW c \in Calls, calls[c].at = "running"
    PROVE  stateQueue[calls[c].tool] # <<>>
<1> DEFINE t == calls[c].tool
<1>1. t \in Tools /\ c \in RunningCalls(t)
  BY DEF ToolEventsTypeOK, RunningCalls
<1>2. Cardinality(RunningCalls(t)) \in Nat /\ Cardinality(RunningCalls(t)) # 0
  BY <1>1, FS_CardinalityType, FS_EmptySet DEF WaitingInv
<1>3. Len(stateQueue[t]) # 0
  BY <1>1, <1>2 DEF WaitingInv, ToolEventsTypeOK
<1>4. QED
  BY <1>3

-----------------------------------------------------------------------------

LEMMA CallToolKeeps ==
    ASSUME ToolInv, NEW c \in Calls, CallTool(c)
    PROVE  ToolInv'
<1>0. ToolEventsTypeOK /\ QueuesInv /\ WaitingInv /\ OrderlyInv /\ ShownInv /\ ResultsKeepTheirInput
  BY DEF ToolInv
<1> DEFINE tc == calls[c].tool
<1>1. /\ calls[c].at = "new" /\ calls' = [calls EXCEPT ![c].at = "running"]
      /\ agentQueue' = IF tc \in TextTools THEN agentQueue
                       ELSE [agentQueue EXCEPT ![tc] = Append(agentQueue[tc], c)]
      /\ stateQueue' = [stateQueue EXCEPT ![tc] = Append(stateQueue[tc], c)]
      /\ mixed' = IF RunningCalls(tc) # {} THEN mixed \cup {tc} ELSE mixed
      /\ results' = results
  BY DEF CallTool
<1>2. /\ calls' \in [Calls -> [tool: Tools, at: {"new", "running", "ended", "failed"}]]
      /\ \A d \in Calls : /\ calls'[d].tool = calls[d].tool /\ calls[d].tool \in Tools
                          /\ calls'[d].at = IF d = c THEN "running" ELSE calls[d].at
  BY <1>0, <1>1, CallAt
<1>3. tc \in Tools /\ stateQueue[tc] \in Seq(Calls) /\ agentQueue[tc] \in Seq(Calls)
  BY <1>0, <1>2 DEF ToolEventsTypeOK
<1> DEFINE q == Append(stateQueue[tc], c)
<1>4. /\ q \in Seq(Calls) /\ Len(q) = Len(stateQueue[tc]) + 1 /\ DOMAIN q = 1..Len(stateQueue[tc]) + 1
      /\ \A i \in DOMAIN q : q[i] = IF i = Len(stateQueue[tc]) + 1 THEN c ELSE stateQueue[tc][i]
      /\ DOMAIN stateQueue[tc] = 1..Len(stateQueue[tc]) /\ Len(stateQueue[tc]) \in Nat
      /\ Append(agentQueue[tc], c) \in Seq(Calls)
  BY <1>3, Appended
<1>5. /\ stateQueue' \in [Tools -> Seq(Calls)]
      /\ \A t \in Tools : stateQueue'[t] = IF t = tc THEN q ELSE stateQueue[t]
  BY <1>0, <1>1, <1>3, <1>4 DEF ToolEventsTypeOK
<1>6. ToolEventsTypeOK'
  <2>1. mixed' \subseteq Tools
    BY <1>0, <1>1, <1>3 DEF ToolEventsTypeOK
  <2>2. agentQueue' \in [Tools -> Seq(Calls)]
    BY <1>0, <1>1, <1>3, <1>4 DEF ToolEventsTypeOK
  <2>3. QED
    BY <1>0, <1>1, <1>2, <1>5, <2>1, <2>2 DEF ToolEventsTypeOK
<1>7. QueuesInv'
  <2> SUFFICES ASSUME NEW t \in Tools
               PROVE  agentQueue'[t] = IF t \in TextTools THEN <<>> ELSE stateQueue'[t]
    BY DEF QueuesInv
  <2>1. agentQueue[t] = IF t \in TextTools THEN <<>> ELSE stateQueue[t]
    BY <1>0 DEF QueuesInv
  <2>2. agentQueue'[t] = IF t = tc /\ t \notin TextTools THEN Append(agentQueue[t], c) ELSE agentQueue[t]
    BY <1>0, <1>1, <1>3 DEF ToolEventsTypeOK
  <2>3. QED
    BY <1>5, <2>1, <2>2
<1> HIDE DEF q, tc
\* Nothing of a call that is new is in the queues or the results.
<1>8. /\ \A t \in Tools : \A i \in DOMAIN stateQueue[t] : stateQueue[t][i] # c /\ stateQueue[t][i] \in Calls
      /\ \A k \in DOMAIN results : results[k][1] # c /\ results[k][2] # c
  <2>1. ASSUME NEW t \in Tools, NEW i \in DOMAIN stateQueue[t]
        PROVE  stateQueue[t][i] # c /\ stateQueue[t][i] \in Calls
    BY <1>0, <1>1 DEF WaitingInv, ToolEventsTypeOK
  <2>2. QED
    BY <1>0, <1>1, <2>1 DEF ShownInv
<1>9. WaitingInv'
  <2>1. ASSUME NEW t \in Tools, NEW i \in DOMAIN stateQueue'[t]
        PROVE  /\ calls'[stateQueue'[t][i]].tool = t /\ calls'[stateQueue'[t][i]].at # "new"
               /\ \A k \in DOMAIN results : results[k][2] # stateQueue'[t][i]
    <3>1. CASE t = tc /\ i = Len(stateQueue[tc]) + 1
      <4>1. stateQueue'[t][i] = c
        BY <1>4, <1>5, <2>1, <3>1
      <4>2. QED
        BY <1>2, <1>8, <3>1, <4>1 DEF tc
    <3>2. CASE ~(t = tc /\ i = Len(stateQueue[tc]) + 1)
      <4>1. i \in DOMAIN stateQueue[t] /\ stateQueue'[t][i] = stateQueue[t][i]
        BY <1>4, <1>5, <2>1, <3>2
      <4>2. QED
        BY <1>0, <1>2, <1>8, <4>1 DEF WaitingInv
    <3>3. QED
      BY <3>1, <3>2
  <2>2. ASSUME NEW t \in Tools, NEW i \in DOMAIN stateQueue'[t], NEW j \in DOMAIN stateQueue'[t],
               stateQueue'[t][i] = stateQueue'[t][j]
        PROVE  i = j
    <3>1. CASE t # tc
      BY <1>0, <1>5, <2>2, <3>1 DEF WaitingInv
    <3>2. CASE t = tc
      <4>1. \A m \in DOMAIN q : m # Len(stateQueue[tc]) + 1 => m \in DOMAIN stateQueue[tc] /\ q[m] = stateQueue[tc][m]
        BY <1>4
      <4>2. i \in DOMAIN q /\ j \in DOMAIN q /\ q[i] = q[j]
        BY <1>5, <2>2, <3>2
      <4>3. QED
        BY <1>0, <1>3, <1>4, <1>8, <4>1, <4>2 DEF WaitingInv
    <3>3. QED
      BY <3>1, <3>2
  <2>3. ASSUME NEW t \in Tools
        PROVE  IsFiniteSet(RunningCalls(t)') /\ Cardinality(RunningCalls(t)') <= Len(stateQueue'[t])
    <3>1. /\ c \notin RunningCalls(t)
          /\ RunningCalls(t)' = IF t = tc THEN RunningCalls(t) \cup {c} ELSE RunningCalls(t)
      BY <1>0, <1>1, RunningGrow DEF tc
    <3>2. IsFiniteSet(RunningCalls(t)) /\ Cardinality(RunningCalls(t)) <= Len(stateQueue[t])
      BY <1>0 DEF WaitingInv
    <3>3. /\ IsFiniteSet(RunningCalls(t) \cup {c}) /\ Cardinality(RunningCalls(t)) \in Nat
          /\ Cardinality(RunningCalls(t) \cup {c}) = Cardinality(RunningCalls(t)) + 1
      BY <3>1, <3>2, FS_AddElement, FS_CardinalityType
    <3>4. QED
      BY <1>4, <1>5, <3>1, <3>2, <3>3
  <2>4. QED
    BY <1>1, <2>1, <2>2, <2>3 DEF WaitingInv
<1>10. OrderlyInv'
  <2> SUFFICES ASSUME NEW t \in Tools, t \notin mixed'
               PROVE  \/ RunningCalls(t)' = {} /\ stateQueue'[t] = <<>>
                      \/ \E d \in Calls : RunningCalls(t)' = {d} /\ stateQueue'[t] = <<d>>
    BY DEF OrderlyInv
  <2>1. RunningCalls(t)' = IF t = tc THEN RunningCalls(t) \cup {c} ELSE RunningCalls(t)
    BY <1>0, <1>1, RunningGrow DEF tc
  <2>2. \/ RunningCalls(t) = {} /\ stateQueue[t] = <<>>
        \/ \E d \in Calls : RunningCalls(t) = {d} /\ stateQueue[t] = <<d>>
    BY <1>0, <1>1 DEF OrderlyInv
  <2>3. CASE t # tc
    BY <1>5, <2>1, <2>2, <2>3
  <2>4. CASE t = tc
    <3>1. RunningCalls(t) = {}
      BY <1>1, <2>4 DEF tc
    <3>2. stateQueue[t] = <<>> /\ RunningCalls(t)' = {c}
      BY <2>1, <2>2, <2>4, <3>1
    <3>3. stateQueue'[t] = <<c>>
      BY <1>5, <2>4, <3>2 DEF q
    <3>4. QED
      BY <3>2, <3>3
  <2>5. QED
    BY <2>3, <2>4
<1>11. \A k \in DOMAIN results : results[k] \in Seq(Calls) /\ results[k][1] \in Calls /\ results[k][2] \in Calls
  <2> TAKE k \in DOMAIN results
  <2>1. results[k] \in Seq(Calls) /\ Len(results[k]) = 2
    BY <1>0 DEF ToolEventsTypeOK, ShownInv
  <2>2. QED
    BY <2>1
<1>12. ShownInv'
  BY <1>0, <1>1, <1>2, <1>8, <1>11 DEF ShownInv
<1>13. ResultsKeepTheirInput'
  <2>1. mixed \subseteq mixed'
    BY <1>1
  <2>2. \A k \in DOMAIN results : calls'[results[k][1]].tool = calls[results[k][1]].tool
                                  /\ calls'[results[k][2]].tool = calls[results[k][2]].tool
    BY <1>2, <1>11
  <2>3. QED
    BY <1>0, <1>1, <2>1, <2>2 DEF ResultsKeepTheirInput
<1>14. QED
  BY <1>6, <1>7, <1>9, <1>10, <1>12, <1>13 DEF ToolInv

LEMMA ToolEndsKeeps ==
    ASSUME ToolInv, NEW c \in Calls, ToolEnds(c)
    PROVE  ToolInv'
<1>0. ToolEventsTypeOK /\ QueuesInv /\ WaitingInv /\ OrderlyInv /\ ShownInv /\ ResultsKeepTheirInput
  BY DEF ToolInv
<1> DEFINE tc == calls[c].tool
           h == Head(stateQueue[tc])
           q == Popped(stateQueue[tc])
<1>1. calls[c].at = "running" /\ calls' = [calls EXCEPT ![c].at = "ended"] /\ mixed' = mixed
  BY DEF ToolEnds
<1>2. /\ calls' \in [Calls -> [tool: Tools, at: {"new", "running", "ended", "failed"}]]
      /\ \A d \in Calls : /\ calls'[d].tool = calls[d].tool /\ calls[d].tool \in Tools
                          /\ calls'[d].at = IF d = c THEN "ended" ELSE calls[d].at
  BY <1>0, <1>1, CallAt
<1>3. tc \in Tools /\ stateQueue[tc] \in Seq(Calls) /\ stateQueue[tc] # <<>>
  BY <1>0, <1>1, <1>2, InputWaits DEF ToolEventsTypeOK
<1>4. /\ q \in Seq(Calls) /\ Len(q) = Len(stateQueue[tc]) - 1
      /\ \A i \in DOMAIN q : i + 1 \in DOMAIN stateQueue[tc] /\ i \in Nat /\ q[i] = stateQueue[tc][i + 1]
      /\ 1 \in DOMAIN stateQueue[tc] /\ h = stateQueue[tc][1] /\ h \in Calls
      /\ \A i \in DOMAIN q : i + 1 # 1
  BY <1>3, PoppedOff
\* The result is shown with the input at the head of the queues.
<1>5. results' = Append(results, <<c, h>>)
  <2>1. agentQueue[tc] = IF tc \in TextTools THEN <<>> ELSE stateQueue[tc]
    BY <1>0, <1>3 DEF QueuesInv
  <2>2. results' = Append(results, <<c>> \o <<h>>)
    BY <1>3, <2>1 DEF ToolEnds
  <2>3. <<c>> \o <<h>> = <<c, h>>
    BY <1>4, Paired
  <2>4. QED
    BY <2>2, <2>3
<1>6. /\ stateQueue' = [stateQueue EXCEPT ![tc] = q]
      /\ agentQueue' = [agentQueue EXCEPT ![tc] = Popped(agentQueue[tc])]
  BY DEF ToolEnds
<1> HIDE DEF q, h, tc
<1>7. /\ stateQueue' \in [Tools -> Seq(Calls)]
      /\ \A t \in Tools : stateQueue'[t] = IF t = tc THEN q ELSE stateQueue[t]
  BY <1>0, <1>3, <1>4, <1>6 DEF ToolEventsTypeOK
<1>8. /\ agentQueue' \in [Tools -> Seq(Calls)]
      /\ \A t \in Tools : agentQueue'[t] = IF t \in TextTools THEN <<>> ELSE stateQueue'[t]
  <2>1. \A t \in Tools : agentQueue'[t] = IF t = tc THEN Popped(agentQueue[tc]) ELSE agentQueue[t]
    BY <1>0, <1>3, <1>6 DEF ToolEventsTypeOK
  <2>2. agentQueue[tc] = IF tc \in TextTools THEN <<>> ELSE stateQueue[tc]
    BY <1>0, <1>3 DEF QueuesInv
  <2>3. Popped(agentQueue[tc]) = IF tc \in TextTools THEN <<>> ELSE q
    BY <2>2, PoppedEmpty DEF q
  <2>4. \A t \in Tools : agentQueue[t] = IF t \in TextTools THEN <<>> ELSE stateQueue[t]
    BY <1>0 DEF QueuesInv
  <2>5. \A t \in Tools : agentQueue'[t] = IF t \in TextTools THEN <<>> ELSE stateQueue'[t]
    BY <1>7, <2>1, <2>3, <2>4
  <2>6. <<>> \in Seq(Calls)
    OBVIOUS
  <2>7. agentQueue' = [agentQueue EXCEPT ![tc] = Popped(agentQueue[tc])] /\ Popped(agentQueue[tc]) \in Seq(Calls)
    BY <1>4, <1>6, <2>3, <2>6
  <2>8. agentQueue' \in [Tools -> Seq(Calls)]
    BY <1>0, <2>7 DEF ToolEventsTypeOK
  <2>9. QED
    BY <2>5, <2>8
<1>9. /\ results' \in Seq(Seq(Calls)) /\ DOMAIN results' = 1..Len(results) + 1
      /\ \A k \in DOMAIN results' : results'[k] = IF k = Len(results) + 1 THEN <<c, h>> ELSE results[k]
      /\ \A k \in DOMAIN results' : k # Len(results) + 1 => k \in DOMAIN results
      /\ Len(results) + 1 \in DOMAIN results'
  <2>1. <<c, h>> \in Seq(Calls) /\ results \in Seq(Seq(Calls))
    BY <1>0, <1>4 DEF ToolEventsTypeOK
  <2> DEFINE r == <<c, h>>
  <2> HIDE DEF r
  <2>2. r \in Seq(Calls) /\ results' = Append(results, r)
    BY <1>5, <2>1 DEF r
  <2>3. /\ results' \in Seq(Seq(Calls)) /\ DOMAIN results' = 1..Len(results) + 1
        /\ \A k \in DOMAIN results' : results'[k] = IF k = Len(results) + 1 THEN r ELSE results[k]
        /\ DOMAIN results = 1..Len(results) /\ Len(results) \in Nat
    BY <2>1, <2>2, Appended
  <2>4. QED
    BY <2>3 DEF r
<1>10. ToolEventsTypeOK'
  BY <1>0, <1>1, <1>2, <1>7, <1>8, <1>9 DEF ToolEventsTypeOK
<1>11. QueuesInv'
  BY <1>8 DEF QueuesInv
\* What waits in the new queues, waited, and is not the input that was shown.
<1>12. ASSUME NEW t \in Tools, NEW i \in DOMAIN stateQueue'[t]
       PROVE  \E m \in DOMAIN stateQueue[t] : /\ stateQueue'[t][i] = stateQueue[t][m]
                                              /\ m = IF t = tc THEN i + 1 ELSE i
                                              /\ stateQueue[t][m] # h
  <2>1. CASE t = tc
    <3>1. i + 1 \in DOMAIN stateQueue[t] /\ stateQueue'[t][i] = stateQueue[t][i + 1] /\ i + 1 # 1
      BY <1>4, <1>7, <1>12, <2>1
    <3>2. stateQueue[t][i + 1] # h
      BY <1>0, <1>3, <1>4, <2>1, <3>1 DEF WaitingInv
    <3>3. QED
      BY <2>1, <3>1, <3>2
  <2>2. CASE t # tc
    <3>1. i \in DOMAIN stateQueue[t] /\ stateQueue'[t][i] = stateQueue[t][i]
      BY <1>7, <1>12, <2>2
    <3>2. calls[stateQueue[t][i]].tool = t /\ calls[h].tool = tc
      BY <1>0, <1>3, <1>4, <3>1 DEF WaitingInv
    <3>3. QED
      BY <2>2, <3>1, <3>2
  <2>3. QED
    BY <2>1, <2>2
<1>13. /\ calls[h].tool = tc /\ calls[h].at # "new" /\ \A k \in DOMAIN results : results[k][2] # h
  BY <1>0, <1>3, <1>4 DEF WaitingInv
<1>14. \A k \in DOMAIN results : /\ Len(results[k]) = 2 /\ results[k][1] \in Calls /\ results[k][2] \in Calls
  <2> TAKE k \in DOMAIN results
  <2>1. results[k] \in Seq(Calls) /\ Len(results[k]) = 2
    BY <1>0 DEF ToolEventsTypeOK, ShownInv
  <2>2. QED
    BY <2>1
<1>15. WaitingInv'
  <2>1. ASSUME NEW t \in Tools, NEW i \in DOMAIN stateQueue'[t]
        PROVE  /\ calls'[stateQueue'[t][i]].tool = t /\ calls'[stateQueue'[t][i]].at # "new"
               /\ \A k \in DOMAIN results' : results'[k][2] # stateQueue'[t][i]
    <3>1. PICK m \in DOMAIN stateQueue[t] : stateQueue'[t][i] = stateQueue[t][m] /\ stateQueue[t][m] # h
      BY <1>12, <2>1
    <3>2. /\ calls[stateQueue[t][m]].tool = t /\ calls[stateQueue[t][m]].at # "new"
          /\ \A k \in DOMAIN results : results[k][2] # stateQueue[t][m]
      BY <1>0 DEF WaitingInv
    <3>3. stateQueue[t][m] \in Calls
      BY <1>0, <3>1 DEF ToolEventsTypeOK
    <3>4. \A k \in DOMAIN results' : results'[k][2] # stateQueue[t][m]
      BY <1>9, <3>1, <3>2
    <3>5. QED
      BY <1>2, <3>1, <3>2, <3>3, <3>4
  <2>2. ASSUME NEW t \in Tools, NEW i \in DOMAIN stateQueue'[t], NEW j \in DOMAIN stateQueue'[t],
               stateQueue'[t][i] = stateQueue'[t][j]
        PROVE  i = j
    <3>1. PICK m \in DOMAIN stateQueue[t] : stateQueue'[t][i] = stateQueue[t][m] /\ m = IF t = tc THEN i + 1 ELSE i
      BY <1>12, <2>2
    <3>2. PICK n \in DOMAIN stateQueue[t] : stateQueue'[t][j] = stateQueue[t][n] /\ n = IF t = tc THEN j + 1 ELSE j
      BY <1>12, <2>2
    <3>3. m = n
      BY <1>0, <2>2, <3>1, <3>2, ZenonT(60) DEF WaitingInv
    <3>4. i \in Int /\ j \in Int
      BY <1>7, <2>2
    <3>5. QED
      BY <3>1, <3>2, <3>3, <3>4
  <2>3. ASSUME NEW t \in Tools
        PROVE  IsFiniteSet(RunningCalls(t)') /\ Cardinality(RunningCalls(t)') <= Len(stateQueue'[t])
    <3>1. /\ c \in RunningCalls(tc)
          /\ RunningCalls(t)' = IF t = tc THEN RunningCalls(t) \ {c} ELSE RunningCalls(t)
      BY <1>0, <1>1, RunningShrink DEF tc
    <3>2. IsFiniteSet(RunningCalls(t)) /\ Cardinality(RunningCalls(t)) <= Len(stateQueue[t])
      BY <1>0 DEF WaitingInv
    <3>3. CASE t = tc
      <4>1. /\ IsFiniteSet(RunningCalls(t) \ {c}) /\ Cardinality(RunningCalls(t)) \in Nat
            /\ Cardinality(RunningCalls(t) \ {c}) = Cardinality(RunningCalls(t)) - 1
        BY <3>1, <3>2, <3>3, FS_RemoveElement, FS_CardinalityType
      <4>2. Len(stateQueue[t]) \in Nat
        BY <1>3, <3>3
      <4>3. QED
        BY <1>4, <1>7, <3>1, <3>2, <3>3, <4>1, <4>2
    <3>4. CASE t # tc
      BY <1>7, <3>1, <3>2, <3>4
    <3>5. QED
      BY <3>3, <3>4
  <2>4. QED
    BY <2>1, <2>2, <2>3 DEF WaitingInv
<1>16. OrderlyInv'
  <2> SUFFICES ASSUME NEW t \in Tools, t \notin mixed
               PROVE  \/ RunningCalls(t)' = {} /\ stateQueue'[t] = <<>>
                      \/ \E d \in Calls : RunningCalls(t)' = {d} /\ stateQueue'[t] = <<d>>
    BY <1>1 DEF OrderlyInv
  <2>1. /\ c \in RunningCalls(tc)
        /\ RunningCalls(t)' = IF t = tc THEN RunningCalls(t) \ {c} ELSE RunningCalls(t)
    BY <1>0, <1>1, RunningShrink DEF tc
  <2>2. \/ RunningCalls(t) = {} /\ stateQueue[t] = <<>>
        \/ \E d \in Calls : RunningCalls(t) = {d} /\ stateQueue[t] = <<d>>
    BY <1>0 DEF OrderlyInv
  <2>3. CASE t # tc
    BY <1>7, <2>1, <2>2, <2>3
  <2>4. CASE t = tc
    <3>1. RunningCalls(t) = {c} /\ stateQueue[t] = <<c>>
      BY <2>1, <2>2, <2>4
    <3>2. q = <<>>
      BY <2>4, <3>1 DEF q, Popped
    <3>3. QED
      BY <1>7, <2>1, <2>4, <3>1, <3>2
  <2>5. QED
    BY <2>3, <2>4
<1>17. ShownInv'
  <2> SUFFICES ASSUME NEW k \in DOMAIN results'
               PROVE  /\ Len(results'[k]) = 2
                      /\ calls'[results'[k][1]].at # "new" /\ calls'[results'[k][2]].at # "new"
    BY DEF ShownInv
  <2>1. CASE k = Len(results) + 1
    <3>1. results'[k] = <<c, h>>
      BY <1>9, <2>1
    <3>2. Len(results'[k]) = 2 /\ results'[k][1] = c /\ results'[k][2] = h
      BY <3>1
    <3>3. calls'[c].at # "new" /\ calls'[h].at # "new"
      BY <1>2, <1>4, <1>13
    <3>4. QED
      BY <3>2, <3>3
  <2>2. CASE k # Len(results) + 1
    <3>1. results'[k] = results[k] /\ k \in DOMAIN results
      BY <1>9, <2>2
    <3>2. QED
      BY <1>0, <1>2, <1>14, <3>1 DEF ShownInv
  <2>3. QED
    BY <2>1, <2>2
<1>18. ResultsKeepTheirInput'
  <2>1. ASSUME NEW k \in DOMAIN results'
        PROVE  LET t == calls'[results'[k][1]].tool
               IN  /\ Len(results'[k]) = 2 /\ calls'[results'[k][2]].tool = t
                   /\ t \notin mixed' => results'[k][2] = results'[k][1]
    <3>1. CASE k = Len(results) + 1
      <4>1. results'[k] = <<c, h>>
        BY <1>9, <3>1
      <4>2. Len(results'[k]) = 2 /\ results'[k][1] = c /\ results'[k][2] = h
        BY <4>1
      <4>3. calls'[c].tool = tc /\ calls'[h].tool = tc
        BY <1>2, <1>4, <1>13 DEF tc
      <4>4. ASSUME tc \notin mixed
            PROVE  h = c
        <5>1. c \in RunningCalls(tc)
          BY <1>0, <1>1, <1>3, RunningShrink DEF tc
        <5>2. stateQueue[tc] = <<c>>
          BY <1>0, <1>3, <4>4, <5>1 DEF OrderlyInv
        <5>3. QED
          BY <1>4, <5>2
      <4>5. QED
        BY <1>1, <4>2, <4>3, <4>4
    <3>2. CASE k # Len(results) + 1
      <4>1. results'[k] = results[k] /\ k \in DOMAIN results
        BY <1>9, <3>2
      <4>2. calls'[results[k][1]].tool = calls[results[k][1]].tool
            /\ calls'[results[k][2]].tool = calls[results[k][2]].tool
        BY <1>2, <1>14, <4>1
      <4>3. QED
        BY <1>0, <1>1, <4>1, <4>2 DEF ResultsKeepTheirInput
    <3>3. QED
      BY <3>1, <3>2
  <2>2. ASSUME NEW k \in DOMAIN results', NEW m \in DOMAIN results', results'[k][2] = results'[m][2]
        PROVE  k = m
    <3>1. <<c, h>>[2] = h
      OBVIOUS
    <3>2. \A i \in DOMAIN results' : /\ i = Len(results) + 1 => results'[i][2] = h
                                     /\ i # Len(results) + 1 => i \in DOMAIN results /\ results'[i][2] = results[i][2]
      BY <1>9, <3>1
    <3>3. QED
      BY <1>0, <1>13, <2>2, <3>2 DEF ResultsKeepTheirInput
  <2>3. QED
    BY <2>1, <2>2 DEF ResultsKeepTheirInput
<1>19. QED
  BY <1>10, <1>11, <1>15, <1>16, <1>17, <1>18 DEF ToolInv

LEMMA ToolFailsKeeps ==
    ASSUME ToolInv, NEW c \in Calls, ToolFails(c)
    PROVE  ToolInv'
<1>0. ToolEventsTypeOK /\ QueuesInv /\ WaitingInv /\ OrderlyInv /\ ShownInv /\ ResultsKeepTheirInput
  BY DEF ToolInv
<1> DEFINE tc == calls[c].tool
<1>1. /\ calls[c].at = "running" /\ calls' = [calls EXCEPT ![c].at = "failed"]
      /\ mixed' = mixed \cup {tc} /\ agentQueue' = agentQueue /\ stateQueue' = stateQueue
      /\ results' = results
  BY DEF ToolFails
<1>2. /\ calls' \in [Calls -> [tool: Tools, at: {"new", "running", "ended", "failed"}]]
      /\ \A d \in Calls : /\ calls'[d].tool = calls[d].tool /\ calls[d].tool \in Tools
                          /\ calls'[d].at = IF d = c THEN "failed" ELSE calls[d].at
  BY <1>0, <1>1, CallAt
<1>3. \A t \in Tools : RunningCalls(t)' = IF t = tc THEN RunningCalls(t) \ {c} ELSE RunningCalls(t)
  BY <1>0, <1>1, RunningShrink
<1> HIDE DEF tc
<1>4. \A k \in DOMAIN results : /\ Len(results[k]) = 2 /\ results[k][1] \in Calls /\ results[k][2] \in Calls
  <2> TAKE k \in DOMAIN results
  <2>1. results[k] \in Seq(Calls) /\ Len(results[k]) = 2
    BY <1>0 DEF ToolEventsTypeOK, ShownInv
  <2>2. QED
    BY <2>1
<1>5. ToolEventsTypeOK'
  BY <1>0, <1>1, <1>2 DEF ToolEventsTypeOK, tc
<1>6. QueuesInv'
  BY <1>0, <1>1 DEF QueuesInv
<1>7. WaitingInv'
  <2>1. \A t \in Tools : \A i \in DOMAIN stateQueue[t] : stateQueue[t][i] \in Calls
    BY <1>0 DEF ToolEventsTypeOK
  <2>2. ASSUME NEW t \in Tools
        PROVE  IsFiniteSet(RunningCalls(t)') /\ Cardinality(RunningCalls(t)') <= Len(stateQueue[t])
    <3>1. IsFiniteSet(RunningCalls(t)) /\ Cardinality(RunningCalls(t)) <= Len(stateQueue[t])
      BY <1>0 DEF WaitingInv
    <3>2. RunningCalls(t)' \subseteq RunningCalls(t)
      BY <1>3
    <3>3. /\ IsFiniteSet(RunningCalls(t)') /\ Cardinality(RunningCalls(t)') <= Cardinality(RunningCalls(t))
      BY <3>1, <3>2, FS_Subset
    <3>4. Cardinality(RunningCalls(t)) \in Nat /\ Cardinality(RunningCalls(t)') \in Nat /\ Len(stateQueue[t]) \in Nat
      BY <1>0, <3>1, <3>3, FS_CardinalityType DEF ToolEventsTypeOK
    <3>5. QED
      BY <3>1, <3>3, <3>4
  <2>3. QED
    BY <1>0, <1>1, <1>2, <2>1, <2>2 DEF WaitingInv
<1>8. OrderlyInv'
  BY <1>0, <1>1, <1>3 DEF OrderlyInv
<1>9. ShownInv'
  BY <1>0, <1>1, <1>2, <1>4 DEF ShownInv
<1>10. ResultsKeepTheirInput'
  <2>1. \A k \in DOMAIN results : calls'[results[k][1]].tool = calls[results[k][1]].tool
                                  /\ calls'[results[k][2]].tool = calls[results[k][2]].tool
    BY <1>2, <1>4
  <2>2. QED
    BY <1>0, <1>1, <2>1 DEF ResultsKeepTheirInput
<1>11. QED
  BY <1>5, <1>6, <1>7, <1>8, <1>9, <1>10 DEF ToolInv

LEMMA ToolsInitially == ToolEventsInit => ToolInv
<1> SUFFICES ASSUME ToolEventsInit
             PROVE  ToolInv
  OBVIOUS
<1>1. ToolEventsTypeOK
  <2>1. <<>> \in Seq(Calls) /\ <<>> \in Seq(Seq(Calls))
    OBVIOUS
  <2>2. QED
    BY <2>1 DEF ToolEventsInit, ToolEventsTypeOK
<1>2. \A t \in Tools : RunningCalls(t) = {}
  BY DEF ToolEventsInit, RunningCalls
<1>3. \A t \in Tools : IsFiniteSet(RunningCalls(t)) /\ Cardinality(RunningCalls(t)) <= Len(stateQueue[t])
  BY <1>2, FS_EmptySet DEF ToolEventsInit
<1>4. /\ QueuesInv /\ OrderlyInv
  BY <1>2 DEF ToolEventsInit, QueuesInv, OrderlyInv
<1>5. ShownInv /\ ResultsKeepTheirInput
  BY DEF ToolEventsInit, ShownInv, ResultsKeepTheirInput
<1>6. WaitingInv
  BY <1>3 DEF ToolEventsInit, WaitingInv
<1>7. QED
  BY <1>1, <1>4, <1>5, <1>6 DEF ToolInv

LEMMA ToolsStep == ToolInv /\ [ToolEventsNext]_toolEventsVars => ToolInv'
<1> SUFFICES ASSUME ToolInv, [ToolEventsNext]_toolEventsVars
             PROVE  ToolInv'
  OBVIOUS
<1>1. ASSUME NEW c \in Calls, CallTool(c) \/ ToolEnds(c) \/ ToolFails(c)
      PROVE  ToolInv'
  BY <1>1, CallToolKeeps, ToolEndsKeeps, ToolFailsKeeps
<1>2. CASE UNCHANGED toolEventsVars
  <2>1. UNCHANGED <<calls, agentQueue, stateQueue, results, mixed>>
    BY <1>2 DEF toolEventsVars
  <2>2. \A t \in Tools : RunningCalls(t)' = RunningCalls(t)
    BY <2>1 DEF RunningCalls
  <2>3. (ToolEventsTypeOK /\ QueuesInv /\ ShownInv /\ ResultsKeepTheirInput)'
    BY <2>1 DEF ToolInv, ToolEventsTypeOK, QueuesInv, ShownInv, ResultsKeepTheirInput
  <2>4. (WaitingInv /\ OrderlyInv)'
    BY <2>1, <2>2 DEF ToolInv, WaitingInv, OrderlyInv
  <2>5. QED
    BY <2>3, <2>4 DEF ToolInv
<1>3. QED
  BY <1>1, <1>2 DEF ToolEventsNext

\* The queues of run_agent and of AgentEventState hold calls, the results pairs of
\* them (agent.py, agent_event_state.py).
THEOREM ToolEventsTypes == ToolEventsSpec => []ToolEventsTypeOK
<1>1. ToolInv => ToolEventsTypeOK
  BY DEF ToolInv
<1>2. QED
  BY <1>1, ToolsInitially, ToolsStep, PTL DEF ToolEventsSpec

\* However many calls of however many tools interleave and fail, every result is shown
\* with one input, of a call of its tool, that no other result is shown with; and with
\* its own as long as the calls of the tool followed one another and none failed
\* (on_tool_start and on_tool_end of agent.py, apply_event of agent_event_state.py).
THEOREM InputsAreKept == ToolEventsSpec => []ResultsKeepTheirInput
<1>1. ToolInv => ResultsKeepTheirInput
  BY DEF ToolInv
<1>2. QED
  BY <1>1, ToolsInitially, ToolsStep, PTL DEF ToolEventsSpec

-----------------------------------------------------------------------------
(* Notifications.                                                           *)

\* The rows, newest first.
Backwards == [i \in DOMAIN rows |-> rows[Len(rows) + 1 - i]]

\* No notification twice.
Once(s) == \A i, j \in DOMAIN s : s[i] = s[j] => i = j

\* The notifications that are, or were, rows.
Issued == {n \in Notes : publisher[n].pc # "none"}

\* What page k lists, asks for or is being told are or were rows, each once.
KnownTo(k) ==
    /\ Once(page[k].list) /\ Ids(page[k].list) \subseteq Issued
    /\ Once(request[k].list) /\ Ids(request[k].list) \subseteq Issued
    /\ \A i \in DOMAIN socket[k].chan : socket[k].chan[i].note \in Issued
    /\ request[k].kind \in {"list", "fetched"} => ~page[k].loaded

KnownInv ==
    /\ Once(rows) /\ readRows \subseteq Ids(rows)
    /\ Ids(rows) \subseteq Issued
    /\ \A k \in Clients : KnownTo(k)

\* The announcements that are coming to page k.
Coming(k) == {n \in Notes : \/ publisher[n].pc = "inserted"
                            \/ publisher[n].pc = "sending" /\ k \in publisher[n].todo}

\* Page k shows the rows but for the newest, n, which is unread.
Lacks(k, n) ==
    /\ Backwards = <<n>> \o page[k].list
    /\ n \notin Ids(page[k].list) /\ n \notin readRows
    /\ page[k].read = readRows

\* The five things that a page which loaded may be at: it is up to date, or one
\* notification is being announced to it, or is on the connection, or it waits for
\* the answer to what it read.
UpToDate(k) ==
    /\ Coming(k) = {} /\ socket[k].chan = <<>> /\ request[k].kind = "none"
    /\ page[k].list = Backwards /\ page[k].read = readRows /\ page[k].badge = Unread

Announced(k) ==
    /\ socket[k].chan = <<>> /\ request[k].kind = "none"
    /\ \E n \in Notes : /\ Coming(k) = {n} /\ Lacks(k, n)
                        /\ publisher[n].pc = "sending" => publisher[n].count = Unread

Delivered(k) ==
    /\ Coming(k) = {} /\ request[k].kind = "none"
    /\ Len(socket[k].chan) = 1
    /\ Lacks(k, socket[k].chan[1].note) /\ socket[k].chan[1].count = Unread

ReadOne(k) ==
    /\ Coming(k) = {} /\ socket[k].chan = <<>> /\ request[k].kind = "read"
    /\ page[k].list = Backwards /\ request[k].note \cap Ids(rows) # {}
    /\ readRows = page[k].read \cup (request[k].note \cap Ids(page[k].list))

ReadEvery(k) ==
    /\ Coming(k) = {} /\ socket[k].chan = <<>> /\ request[k].kind = "readAll"
    /\ page[k].list = Backwards /\ readRows = Ids(rows)

\* What the page is about to show is still true.
Loading(k) ==
    /\ Coming(k) = {} /\ socket[k].chan = <<>>
    /\ request[k].list = Backwards /\ request[k].read = readRows
    /\ request[k].kind = "fetched" => request[k].badge = Unread

TrueOf(k) ==
    /\ request[k].kind \in {"list", "fetched"} => Loading(k)
    /\ page[k].loaded => UpToDate(k) \/ Announced(k) \/ Delivered(k) \/ ReadOne(k) \/ ReadEvery(k)

TrueInv == \A k \in Clients \ disturbed : TrueOf(k)

\* Page k was told of n, or the event is on the connection.
Told(n, k) ==
    n \in page[k].got \/ \E i \in DOMAIN socket[k].chan : socket[k].chan[i].note = n

\* Who is due is connected, and was told, or is still on the list of the broadcast.
DueInv ==
    \A n \in Notes : \A k \in publisher[n].due :
        /\ k \in Clients /\ socket[k].up
        /\ Told(n, k) \/ (publisher[n].pc = "sending" /\ k \in publisher[n].todo)

NotesInv == NotesTypeOK /\ KnownInv /\ TrueInv /\ DueInv

\* What is and what is not in a sequence of notifications can be counted.
LEMMA CountedIds ==
    ASSUME NEW s \in Seq(Notes), NEW R
    PROVE  Cardinality(Ids(s) \ R) \in Nat /\ Ids(s) \subseteq Notes
<1>1. Len(s) \in Nat /\ DOMAIN s = 1..Len(s)
  OBVIOUS
<1>2. IsFiniteSet(DOMAIN s)
  BY <1>1, FS_Interval
<1>3. IsFiniteSet(Ids(s))
  <2>1. s \in Surjection(DOMAIN s, Ids(s))
    BY DEF Ids, Surjection
  <2>2. QED
    BY <1>2, <2>1, FS_Surjection
<1>4. IsFiniteSet(Ids(s) \ R)
  BY <1>3, FS_Subset
<1>5. Ids(s) \subseteq Notes
  BY DEF Ids
<1>6. QED
  BY <1>4, <1>5, FS_CardinalityType

\* One notification before the others.
LEMMA PutFirst ==
    ASSUME NEW s \in Seq(Notes), NEW n \in Notes
    PROVE  /\ <<n>> \o s \in Seq(Notes) /\ Len(<<n>> \o s) = Len(s) + 1
           /\ \A i \in 1..Len(s) + 1 : (<<n>> \o s)[i] = IF i = 1 THEN n ELSE s[i - 1]
OBVIOUS

LEMMA BackwardsIs ==
    ASSUME rows \in Seq(Notes)
    PROVE  /\ Backwards \in Seq(Notes) /\ Len(Backwards) = Len(rows) /\ Len(rows) \in Nat
           /\ DOMAIN Backwards = 1..Len(rows)
           /\ \A i \in 1..Len(rows) : Backwards[i] = rows[Len(rows) + 1 - i]
BY DEF Backwards

LEMMA BackwardsIds ==
    ASSUME rows \in Seq(Notes)
    PROVE  Ids(Backwards) = Ids(rows) /\ (Once(rows) => Once(Backwards))
<1>1. /\ DOMAIN Backwards = 1..Len(rows) /\ DOMAIN rows = 1..Len(rows) /\ Len(rows) \in Nat
      /\ \A i \in 1..Len(rows) : Backwards[i] = rows[Len(rows) + 1 - i]
  BY BackwardsIs
<1>2. \A i \in 1..Len(rows) : Len(rows) + 1 - i \in 1..Len(rows) /\ Len(rows) + 1 - (Len(rows) + 1 - i) = i
  BY <1>1
<1>3. Ids(Backwards) \subseteq Ids(rows)
  BY <1>1, <1>2 DEF Ids
<1>4. Ids(rows) \subseteq Ids(Backwards)
  <2>1. \A i \in 1..Len(rows) : rows[i] = Backwards[Len(rows) + 1 - i]
    BY <1>1, <1>2
  <2> HIDE DEF Backwards
  <2>2. QED
    BY <1>1, <1>2, <2>1 DEF Ids
<1>5. ASSUME Once(rows), NEW i \in 1..Len(rows), NEW j \in 1..Len(rows), Backwards[i] = Backwards[j]
      PROVE  i = j
  <2>1. Len(rows) + 1 - i = Len(rows) + 1 - j
    BY <1>1, <1>2, <1>5 DEF Once
  <2>2. QED
    BY <1>1, <2>1
<1>6. QED
  BY <1>1, <1>3, <1>4, <1>5 DEF Once

\* A new row comes first.
LEMMA BackwardsGrows ==
    ASSUME rows \in Seq(Notes), NEW n \in Notes, rows' = Append(rows, n)
    PROVE  Backwards' = <<n>> \o Backwards
<1>1. /\ rows' \in Seq(Notes) /\ Len(rows') = Len(rows) + 1 /\ Len(rows) \in Nat
      /\ \A i \in 1..Len(rows) : rows'[i] = rows[i]
      /\ rows'[Len(rows) + 1] = n
  OBVIOUS
<1>2. /\ Backwards \in Seq(Notes) /\ Len(Backwards) = Len(rows)
      /\ \A i \in 1..Len(rows) : Backwards[i] = rows[Len(rows) + 1 - i]
  BY BackwardsIs
<1>3. /\ Backwards' \in Seq(Notes) /\ Len(Backwards') = Len(rows) + 1
      /\ \A i \in 1..Len(rows) + 1 : Backwards'[i] = rows'[Len(rows) + 2 - i]
  BY <1>1 DEF Backwards
<1>4. /\ <<n>> \o Backwards \in Seq(Notes) /\ Len(<<n>> \o Backwards) = Len(rows) + 1
      /\ \A i \in 1..Len(rows) + 1 : (<<n>> \o Backwards)[i] = IF i = 1 THEN n ELSE Backwards[i - 1]
  BY <1>2, PutFirst
<1>5. ASSUME NEW i \in 1..Len(rows) + 1
      PROVE  Backwards'[i] = (<<n>> \o Backwards)[i]
  <2>1. CASE i = 1
    BY <1>1, <1>3, <1>4, <2>1
  <2>2. CASE i # 1
    <3>1. i - 1 \in 1..Len(rows) /\ Len(rows) + 1 - (i - 1) = Len(rows) + 2 - i
          /\ Len(rows) + 2 - i \in 1..Len(rows)
      BY <1>1, <2>2
    <3>2. Backwards'[i] = rows[Len(rows) + 2 - i]
      BY <1>1, <1>3, <3>1
    <3>3. (<<n>> \o Backwards)[i] = Backwards[i - 1]
      BY <1>4, <2>2
    <3>4. Backwards[i - 1] = rows[Len(rows) + 2 - i]
      BY <1>2, <3>1
    <3>5. QED
      BY <3>2, <3>3, <3>4
  <2>3. QED
    BY <2>1, <2>2
<1> HIDE DEF Backwards
<1>6. QED
  BY <1>3, <1>4, <1>5, SeqEqual

LEMMA NewestIs ==
    ASSUME rows \in Seq(Notes)
    PROVE  /\ Newest \in Seq(Notes) /\ Ids(Newest) \subseteq Ids(rows)
           /\ Once(rows) => Once(Newest)
           /\ Len(rows) <= Limit => Newest = Backwards
<1>1. PICK l \in Nat : l = IF Len(rows) < Limit THEN Len(rows) ELSE Limit
  BY NotesAssumption
<1>2. PICK r \in Nat : r = Len(rows) /\ DOMAIN rows = 1..r
  OBVIOUS
<1>3. l <= r /\ (r <= Limit => l = r)
  BY <1>1, <1>2, NotesAssumption
<1>4. Newest = [i \in 1..l |-> rows[r + 1 - i]]
  BY <1>1, <1>2 DEF Newest
<1>5. \A i \in 1..l : r + 1 - i \in 1..r
  BY <1>3
<1>6. Newest \in Seq(Notes) /\ DOMAIN Newest = 1..l /\ \A i \in 1..l : Newest[i] = rows[r + 1 - i]
  BY <1>2, <1>4, <1>5
<1>7. Ids(Newest) \subseteq Ids(rows)
  BY <1>2, <1>5, <1>6 DEF Ids
<1>8. ASSUME Once(rows), NEW i \in 1..l, NEW j \in 1..l, Newest[i] = Newest[j]
      PROVE  i = j
  <2>1. r + 1 - i = r + 1 - j
    BY <1>2, <1>5, <1>6, <1>8 DEF Once
  <2>2. QED
    BY <2>1
<1>9. Once(rows) => Once(Newest)
  BY <1>6, <1>8 DEF Once
<1>10. r <= Limit => Newest = Backwards
  BY <1>2, <1>3, <1>4 DEF Backwards
<1>11. QED
  BY <1>2, <1>6, <1>7, <1>9, <1>10

\* The place a notification is taken from.
LEMMA PlaceIs ==
    ASSUME NEW list \in Seq(Notes), NEW n \in Notes, Once(list)
    PROVE  /\ Place(list, n) \in 1..Len(list) + 1
           /\ \A i \in 1..Len(list) : list[i] = n <=> i = Place(list, n)
           /\ n \notin Ids(list) => Place(list, n) = Len(list) + 1
<1>1. Len(list) \in Nat /\ DOMAIN list = 1..Len(list)
  OBVIOUS
<1>2. CASE n \in Ids(list)
  <2>1. Place(list, n) = CHOOSE i \in DOMAIN list : list[i] = n
    BY <1>2 DEF Place
  <2>2. PICK j \in DOMAIN list : list[j] = n
    BY <1>2 DEF Ids
  <2>3. Place(list, n) \in DOMAIN list /\ list[Place(list, n)] = n
    BY <2>1, <2>2
  <2>4. QED
    BY <1>1, <1>2, <2>3 DEF Once
<1>3. CASE n \notin Ids(list)
  <2>1. Place(list, n) = Len(list) + 1
    BY <1>3 DEF Place
  <2>2. \A i \in 1..Len(list) : list[i] # n
    BY <1>1, <1>3 DEF Ids
  <2>3. QED
    BY <1>1, <2>1, <2>2
<1>4. QED
  BY <1>2, <1>3

\* What remains without n comes once, and is all if n was not there.
LEMMA WithoutIs ==
    ASSUME NEW list \in Seq(Notes), NEW n \in Notes, Once(list)
    PROVE  /\ Without(list, n) \in Seq(Notes) /\ Once(Without(list, n))
           /\ Ids(Without(list, n)) = Ids(list) \ {n}
           /\ n \notin Ids(list) => Without(list, n) = list
<1>1. PICK l \in Nat : l = Len(list) /\ DOMAIN list = 1..l /\ \A i \in 1..l : list[i] \in Notes
  OBVIOUS
<1>2. PICK p \in 1..l + 1 : /\ p = Place(list, n)
                            /\ \A i \in 1..l : list[i] = n <=> i = p
                            /\ n \notin Ids(list) => p = l + 1
  BY <1>1, PlaceIs
<1>3. PICK front \in Seq(Notes) : front = SubSeq(list, 1, p - 1)
  <2>1. 1 \in Int /\ p - 1 \in Int /\ \A i \in 1..p - 1 : list[i] \in Notes
    BY <1>1
  <2>2. SubSeq(list, 1, p - 1) \in Seq(Notes)
    BY <2>1, SubSeqProperties
  <2>3. QED
    BY <2>2
<1>4. Len(front) = p - 1 /\ \A i \in 1..p - 1 : front[i] = list[i]
  <2>1. \A i \in 1..p - 1 : list[i] \in Notes /\ 1 + i - 1 = i
    BY <1>1
  <2>2. /\ Len(front) = IF 1 <= p - 1 THEN p - 1 - 1 + 1 ELSE 0
        /\ \A i \in 1..p - 1 - 1 + 1 : front[i] = list[1 + i - 1]
    BY <1>3, <2>1, SubSeqProperties
  <2>3. QED
    BY <2>1, <2>2
<1>5. PICK back \in Seq(Notes) : back = SubSeq(list, p + 1, l)
  <2>1. p + 1 \in Int /\ l \in Int /\ \A i \in p + 1..l : list[i] \in Notes
    BY <1>1
  <2>2. SubSeq(list, p + 1, l) \in Seq(Notes)
    BY <2>1, SubSeqProperties
  <2>3. QED
    BY <2>2
<1>6. Len(back) = (IF p <= l THEN l - p ELSE 0) /\ \A i \in 1..l - p : back[i] = list[p + i]
  <2>1. \A i \in p + 1..l : list[i] \in Notes
    BY <1>1
  <2>2. /\ Len(back) = IF p + 1 <= l THEN l - (p + 1) + 1 ELSE 0
        /\ \A i \in 1..l - (p + 1) + 1 : back[i] = list[p + 1 + i - 1]
    BY <1>5, <2>1, SubSeqProperties
  <2>3. l - (p + 1) + 1 = l - p /\ \A i \in 1..l - p : p + 1 + i - 1 = p + i
    OBVIOUS
  <2>4. QED
    BY <2>2, <2>3
<1>7. PICK all \in Seq(Notes) : all = front \o back
  BY ConcatProperties
<1>8. /\ Len(all) = Len(front) + Len(back)
      /\ \A i \in 1..Len(front) + Len(back) :
            all[i] = IF i <= Len(front) THEN front[i] ELSE back[i - Len(front)]
  BY <1>7, ConcatProperties
<1>9. Without(list, n) = all
  BY <1>1, <1>2, <1>3, <1>5, <1>7 DEF Without
<1>10. PICK m \in Nat : m = Len(all) /\ DOMAIN all = 1..m /\ m = IF p <= l THEN l - 1 ELSE l
  BY <1>4, <1>6, <1>8
<1>11. ASSUME NEW i \in 1..m
       PROVE  \E j \in 1..l : j # p /\ all[i] = list[j] /\ j = IF i < p THEN i ELSE i + 1
  <2>1. CASE i < p
    <3>1. i \in 1..p - 1 /\ i \in 1..Len(front) + Len(back) /\ i <= Len(front) /\ i \in 1..l
      BY <1>4, <1>6, <1>10, <2>1
    <3>2. all[i] = list[i]
      BY <1>4, <1>8, <3>1
    <3>3. QED
      BY <2>1, <3>1, <3>2
  <2>2. CASE ~(i < p)
    <3>1. i \in 1..Len(front) + Len(back) /\ ~(i <= Len(front)) /\ p <= l /\ i + 1 \in 1..l
      BY <1>4, <1>6, <1>10, <2>2
    <3>2. i - (p - 1) \in 1..l - p /\ p + (i - (p - 1)) = i + 1
      BY <1>10, <2>2, <3>1
    <3>3. all[i] = back[i - (p - 1)]
      BY <1>4, <1>8, <3>1
    <3>4. all[i] = list[i + 1]
      BY <1>6, <3>2, <3>3
    <3>5. QED
      BY <2>2, <3>1, <3>4
  <2>3. QED
    BY <2>1, <2>2
<1>12. ASSUME NEW j \in 1..l, j # p
       PROVE  \E i \in 1..m : all[i] = list[j]
  <2>1. CASE j < p
    <3>1. j \in 1..m
      BY <1>10, <1>12, <2>1
    <3>2. QED
      BY <1>11, <2>1, <3>1
  <2>2. CASE j > p
    <3>1. j - 1 \in 1..m /\ ~(j - 1 < p) /\ j - 1 + 1 = j
      BY <1>10, <1>12, <2>2
    <3>2. QED
      BY <1>11, <3>1
  <2>3. QED
    BY <1>12, <2>1, <2>2
<1>13. Ids(all) = Ids(list) \ {n}
  <2>1. Ids(all) \subseteq Ids(list) \ {n}
    <3>1. \A i \in 1..m : \E j \in 1..l : all[i] = list[j] /\ list[j] # n
      BY <1>2, <1>11
    <3>2. QED
      BY <1>1, <1>10, <3>1 DEF Ids
  <2>2. Ids(list) \ {n} \subseteq Ids(all)
    <3>1. \A j \in 1..l : list[j] # n => \E i \in 1..m : all[i] = list[j]
      BY <1>2, <1>12
    <3>2. QED
      BY <1>1, <1>10, <3>1 DEF Ids
  <2>3. QED
    BY <2>1, <2>2
<1>14. ASSUME NEW i \in 1..m, NEW j \in 1..m, all[i] = all[j]
       PROVE  i = j
  <2>1. PICK a \in 1..l : all[i] = list[a] /\ a = IF i < p THEN i ELSE i + 1
    BY <1>11
  <2>2. PICK b \in 1..l : all[j] = list[b] /\ b = IF j < p THEN j ELSE j + 1
    BY <1>11
  <2>3. a = b
    BY <1>1, <1>14, <2>1, <2>2 DEF Once
  <2>4. QED
    BY <2>1, <2>2, <2>3
<1>15. Once(all)
  BY <1>10, <1>14 DEF Once
<1>16. ASSUME n \notin Ids(list)
       PROVE  all = list
  <2>1. p = l + 1 /\ p - 1 = l /\ l < p + 1
    BY <1>2, <1>16
  <2>2. front = list /\ back = <<>>
    BY <1>1, <1>3, <1>5, <2>1, SubSeqFull, SubSeqEmpty
  <2>3. QED
    BY <1>7, <2>2, ConcatEmptySeq
<1>17. QED
  BY <1>9, <1>13, <1>15, <1>16

\* The notification comes first, the others come once, and a new one is put before all.
LEMMA ListedIs ==
    ASSUME NEW list \in Seq(Notes), NEW n \in Notes, Once(list)
    PROVE  /\ Listed(list, n) \in Seq(Notes) /\ Once(Listed(list, n))
           /\ Ids(Listed(list, n)) \subseteq Ids(list) \cup {n}
           /\ n \notin Ids(list) => Listed(list, n) = <<n>> \o list
<1>1. PICK rest \in Seq(Notes) : rest = Without(list, n)
  BY WithoutIs
<1>2. Once(rest) /\ Ids(rest) = Ids(list) \ {n} /\ (n \notin Ids(list) => rest = list)
  BY <1>1, WithoutIs
<1>3. PICK l \in Nat : l = Len(rest) /\ DOMAIN rest = 1..l
  OBVIOUS
<1>4. PICK all \in Seq(Notes) : all = <<n>> \o rest
  BY PutFirst
<1>5. /\ Len(all) = l + 1 /\ DOMAIN all = 1..l + 1
      /\ \A i \in 1..l + 1 : all[i] = IF i = 1 THEN n ELSE rest[i - 1]
  BY <1>3, <1>4, PutFirst
<1>6. \A i \in 1..l + 1 : i # 1 => i - 1 \in 1..l /\ all[i] = rest[i - 1]
  BY <1>5
<1>7. \A i \in 1..l : rest[i] \in Ids(list) /\ rest[i] # n
  BY <1>2, <1>3 DEF Ids
<1>8. Ids(all) \subseteq Ids(list) \cup {n}
  BY <1>5, <1>6, <1>7 DEF Ids
<1>9. ASSUME NEW i \in 1..l + 1, NEW j \in 1..l + 1, all[i] = all[j]
      PROVE  i = j
  <2>1. CASE i = 1 \/ j = 1
    BY <1>5, <1>6, <1>7, <1>9, <2>1
  <2>2. CASE i # 1 /\ j # 1
    <3>1. i - 1 \in 1..l /\ j - 1 \in 1..l /\ rest[i - 1] = rest[j - 1]
      BY <1>6, <1>9, <2>2
    <3>2. i - 1 = j - 1
      BY <1>2, <1>3, <3>1 DEF Once
    <3>3. QED
      BY <3>2
  <2>3. QED
    BY <2>1, <2>2
<1>10. Once(all)
  BY <1>5, <1>9 DEF Once
<1>11. QED
  BY <1>1, <1>2, <1>4, <1>8, <1>10 DEF Listed

-----------------------------------------------------------------------------
(* What each step does to the tables.                                       *)

Sockets == [up: BOOLEAN, chan: Seq(NoteEvents)]
Bounds == [connects: Nat, closes: Nat, requests: Nat]

LEMMA NoteTypes ==
    ASSUME NotesTypeOK
    PROVE  /\ rows \in Seq(Notes) /\ readRows \subseteq Notes /\ registered \subseteq Clients
           /\ disturbed \subseteq Clients
           /\ publisher \in [Notes -> PublisherStates] /\ socket \in [Clients -> Sockets]
           /\ left \in [Clients -> Bounds] /\ page \in [Clients -> Pages] /\ request \in [Clients -> Requests]
BY DEF NotesTypeOK, Sockets, Bounds

LEMMA NoteTypesAre ==
    ASSUME rows \in Seq(Notes), readRows \subseteq Notes, registered \subseteq Clients,
           disturbed \subseteq Clients,
           publisher \in [Notes -> PublisherStates], socket \in [Clients -> Sockets],
           left \in [Clients -> Bounds], page \in [Clients -> Pages], request \in [Clients -> Requests]
    PROVE  NotesTypeOK
BY DEF NotesTypeOK, Sockets, Bounds

LEMMA PublisherFields ==
    ASSUME NotesTypeOK, NEW n \in Notes
    PROVE  /\ publisher[n] \in PublisherStates /\ publisher[n].todo \subseteq Clients
           /\ publisher[n].stale \subseteq Clients /\ publisher[n].due \subseteq Clients
           /\ publisher[n].count \in Nat
BY DEF NotesTypeOK, PublisherStates

LEMMA SocketFields ==
    ASSUME NotesTypeOK, NEW k \in Clients
    PROVE  socket[k] \in Sockets /\ socket[k].up \in BOOLEAN /\ socket[k].chan \in Seq(NoteEvents)
BY DEF NotesTypeOK, Sockets

LEMMA PageFields ==
    ASSUME NotesTypeOK, NEW k \in Clients
    PROVE  /\ page[k] \in Pages /\ page[k].list \in Seq(Notes) /\ page[k].read \subseteq Notes
           /\ page[k].badge \in Nat /\ page[k].loaded \in BOOLEAN /\ page[k].got \subseteq Notes
BY DEF NotesTypeOK, Pages

LEMMA RequestFields ==
    ASSUME NotesTypeOK, NEW k \in Clients
    PROVE  /\ request[k] \in Requests /\ request[k].list \in Seq(Notes)
           /\ request[k].read \subseteq Notes /\ request[k].note \subseteq Notes /\ request[k].badge \in Nat
BY DEF NotesTypeOK, Requests

LEMMA UnreadType == NotesTypeOK => Unread \in Nat
BY CountedIds DEF NotesTypeOK, Unread

\* A page asks: its bound goes down.
LEMMA Spends ==
    ASSUME NotesTypeOK, NEW k \in Clients, Spend(k)
    PROVE  left' \in [Clients -> Bounds]
<1> DEFINE x == [left[k] EXCEPT !.requests = left[k].requests - 1]
<1>1. left' = [left EXCEPT ![k] = x]
  BY Zenon DEF Spend
<1>2. left \in [Clients -> Bounds] /\ left[k] \in Bounds /\ left[k].requests > 0
  BY NoteTypes DEF Spend
<1>3. x \in Bounds
  BY <1>2 DEF Bounds
<1> HIDE DEF x
<1>4. QED
  BY <1>1, <1>2, <1>3

LEMMA Asks ==
    ASSUME NotesTypeOK, NEW k \in Clients, Ask(k)
    PROVE  left' \in [Clients -> Bounds] /\ request[k].kind = "none"
BY Spends DEF Ask

LEMMA InsertDoes ==
    ASSUME NotesTypeOK, NEW n \in Notes, Insert(n)
    PROVE  /\ NotesTypeOK'
           /\ publisher[n].pc = "none" /\ publisher'[n].pc = "inserted" /\ rows' = Append(rows, n)
           /\ publisher'[n].due = publisher[n].due
           /\ \A m \in Notes : m # n => publisher'[m] = publisher[m]
           /\ disturbed' = disturbed \cup {k \in Clients : OnItsWay(k)}
           /\ UNCHANGED <<readRows, registered, socket, page, request>>
<1> DEFINE y == [publisher[n] EXCEPT !.pc = "inserted"]
<1>1. publisher' = [publisher EXCEPT ![n] = y]
  BY Zenon DEF Insert
<1>2. /\ publisher[n].pc = "none" /\ rows' = Append(rows, n)
      /\ disturbed' = disturbed \cup {k \in Clients : OnItsWay(k)}
      /\ UNCHANGED <<readRows, registered, socket, page, request, left>>
  BY DEF Insert, DisturbedBy
<1>3. y \in PublisherStates /\ y.pc = "inserted" /\ y.due = publisher[n].due
  BY PublisherFields DEF PublisherStates
<1> HIDE DEF y
<1>4. /\ publisher' \in [Notes -> PublisherStates]
      /\ \A m \in Notes : publisher'[m] = IF m = n THEN y ELSE publisher[m]
  BY <1>1, <1>3, NoteTypes
<1>5. rows' \in Seq(Notes) /\ disturbed' \subseteq Clients
  BY <1>2, NoteTypes
<1>6. NotesTypeOK'
  BY <1>2, <1>4, <1>5 DEF NotesTypeOK
<1>7. QED
  BY <1>2, <1>3, <1>4, <1>6

LEMMA CountAndSnapshotDoes ==
    ASSUME NotesTypeOK, NEW n \in Notes, CountAndSnapshot(n)
    PROVE  /\ NotesTypeOK'
           /\ publisher[n].pc = "inserted" /\ publisher'[n].pc = "sending"
           /\ publisher'[n].todo = registered /\ publisher'[n].count = Unread
           /\ publisher'[n].due = {k \in registered : socket[k].up}
           /\ \A m \in Notes : m # n => publisher'[m] = publisher[m]
           /\ disturbed' = disturbed \cup (Clients \ registered)
           /\ UNCHANGED <<rows, readRows, registered, socket, page, request>>
<1> DEFINE dd == {k \in registered : socket[k].up}
           y == [publisher[n] EXCEPT !.pc = "sending", !.todo = registered, !.due = dd, !.count = Unread]
<1>1. publisher' = [publisher EXCEPT ![n] = y]
  BY Zenon DEF CountAndSnapshot
<1>2. /\ publisher[n].pc = "inserted" /\ disturbed' = disturbed \cup (Clients \ registered)
      /\ UNCHANGED <<rows, readRows, registered, socket, page, request, left>>
  BY DEF CountAndSnapshot, noteRows
<1>3. dd \subseteq Clients /\ registered \subseteq Clients
  BY NoteTypes
<1> HIDE DEF dd
<1>4. /\ y \in PublisherStates /\ y.pc = "sending" /\ y.todo = registered /\ y.due = dd
      /\ y.count = Unread
  BY <1>3, UnreadType, PublisherFields DEF PublisherStates
<1> HIDE DEF y
<1>5. /\ publisher' \in [Notes -> PublisherStates]
      /\ \A m \in Notes : publisher'[m] = IF m = n THEN y ELSE publisher[m]
  BY <1>1, <1>4, NoteTypes
<1>6. NotesTypeOK'
  BY <1>2, <1>5 DEF NotesTypeOK
<1>7. QED
  BY <1>2, <1>4, <1>5, <1>6 DEF dd

LEMMA SendDoes ==
    ASSUME NotesTypeOK, NEW n \in Notes, NEW k \in Clients, Send(n, k)
    PROVE  /\ NotesTypeOK'
           /\ publisher[n].pc = "sending" /\ k \in publisher[n].todo
           /\ publisher'[n].pc = "sending" /\ publisher'[n].todo = publisher[n].todo \ {k}
           /\ publisher'[n].due = publisher[n].due /\ publisher'[n].count = publisher[n].count
           /\ \A m \in Notes : m # n => publisher'[m] = publisher[m]
           /\ \A j \in Clients : j # k => socket'[j] = socket[j]
           /\ socket'[k].up = socket[k].up
           /\ \/ /\ socket[k].up /\ disturbed' = disturbed
                 /\ socket'[k].chan = Append(socket[k].chan, [note |-> n, count |-> publisher[n].count])
              \/ /\ ~socket[k].up /\ disturbed' = disturbed \cup {k}
                 /\ socket' = socket
           /\ UNCHANGED <<rows, readRows, registered, page, request>>
<1>0. /\ publisher[n].pc = "sending" /\ k \in publisher[n].todo
      /\ UNCHANGED <<rows, readRows, registered, page, request, left>>
  BY DEF Send, noteRows
<1>1. CASE socket[k].up
  <2> DEFINE y == [publisher[n] EXCEPT !.todo = publisher[n].todo \ {k}]
             e == [note |-> n, count |-> publisher[n].count]
             x == [socket[k] EXCEPT !.chan = Append(socket[k].chan, e)]
  <2>1. publisher' = [publisher EXCEPT ![n] = y] /\ socket' = [socket EXCEPT ![k] = x]
    BY <1>1, Zenon DEF Send
  <2>2. disturbed' = disturbed
    BY <1>1 DEF Send
  <2>3. /\ y \in PublisherStates /\ y.pc = "sending" /\ y.todo = publisher[n].todo \ {k}
        /\ y.due = publisher[n].due /\ y.count = publisher[n].count
    BY <1>0, PublisherFields DEF PublisherStates
  <2>4. e \in NoteEvents
    BY PublisherFields DEF NoteEvents
  <2> HIDE DEF y, e
  <2>5. Append(socket[k].chan, e) \in Seq(NoteEvents)
    BY <2>4, SocketFields
  <2>6. x \in Sockets /\ x.up = socket[k].up /\ x.chan = Append(socket[k].chan, e)
    BY <2>5, SocketFields DEF Sockets
  <2> HIDE DEF x
  <2>7. /\ publisher' \in [Notes -> PublisherStates]
        /\ \A m \in Notes : publisher'[m] = IF m = n THEN y ELSE publisher[m]
    BY <2>1, <2>3, NoteTypes
  <2>8. /\ socket' \in [Clients -> Sockets]
        /\ \A j \in Clients : socket'[j] = IF j = k THEN x ELSE socket[j]
    BY <2>1, <2>6, NoteTypes
  <2>9. NotesTypeOK'
    BY <1>0, <2>2, <2>7, <2>8 DEF NotesTypeOK, Sockets
  <2>10. QED
    BY <1>0, <1>1, <2>2, <2>3, <2>6, <2>7, <2>8, <2>9 DEF e
<1>2. CASE ~socket[k].up
  <2> DEFINE y == [publisher[n] EXCEPT !.todo = publisher[n].todo \ {k}, !.stale = publisher[n].stale \cup {k}]
  <2>1. publisher' = [publisher EXCEPT ![n] = y]
    BY <1>2, Zenon DEF Send
  <2>2. disturbed' = disturbed \cup {k} /\ socket' = socket
    BY <1>2 DEF Send
  <2>3. /\ y \in PublisherStates /\ y.pc = "sending" /\ y.todo = publisher[n].todo \ {k}
        /\ y.due = publisher[n].due /\ y.count = publisher[n].count
    BY <1>0, PublisherFields DEF PublisherStates
  <2> HIDE DEF y
  <2>4. /\ publisher' \in [Notes -> PublisherStates]
        /\ \A m \in Notes : publisher'[m] = IF m = n THEN y ELSE publisher[m]
    BY <2>1, <2>3, NoteTypes
  <2>5. NotesTypeOK'
    BY <1>0, <2>2, <2>4 DEF NotesTypeOK
  <2>6. QED
    BY <1>0, <1>2, <2>2, <2>3, <2>4, <2>5
<1>3. QED
  BY <1>1, <1>2

LEMMA FinishBroadcastDoes ==
    ASSUME NotesTypeOK, NEW n \in Notes, FinishBroadcast(n)
    PROVE  /\ NotesTypeOK'
           /\ publisher[n].pc = "sending" /\ publisher[n].todo = {} /\ publisher'[n].pc = "done"
           /\ publisher'[n].due = publisher[n].due
           /\ \A m \in Notes : m # n => publisher'[m] = publisher[m]
           /\ UNCHANGED <<rows, readRows, socket, page, request, disturbed>>
<1> DEFINE y == [publisher[n] EXCEPT !.pc = "done", !.stale = {}]
<1>1. publisher' = [publisher EXCEPT ![n] = y]
  BY Zenon DEF FinishBroadcast
<1>2. /\ publisher[n].pc = "sending" /\ publisher[n].todo = {}
      /\ registered' = registered \ publisher[n].stale
      /\ UNCHANGED <<rows, readRows, socket, page, request, disturbed, left>>
  BY DEF FinishBroadcast, noteRows
<1>3. y \in PublisherStates /\ y.pc = "done" /\ y.due = publisher[n].due
  BY PublisherFields DEF PublisherStates
<1> HIDE DEF y
<1>4. /\ publisher' \in [Notes -> PublisherStates]
      /\ \A m \in Notes : publisher'[m] = IF m = n THEN y ELSE publisher[m]
  BY <1>1, <1>3, NoteTypes
<1>5. NotesTypeOK'
  BY <1>2, <1>4 DEF NotesTypeOK
<1>6. QED
  BY <1>2, <1>3, <1>4, <1>5

LEMMA RefreshFailsDoes ==
    ASSUME NotesTypeOK, NEW n \in Notes, RefreshFails(n)
    PROVE  /\ NotesTypeOK'
           /\ publisher[n].pc = "inserted" /\ n \notin Ids(rows) /\ publisher'[n].pc = "done"
           /\ publisher'[n].due = publisher[n].due
           /\ \A m \in Notes : m # n => publisher'[m] = publisher[m]
           /\ UNCHANGED <<rows, readRows, socket, page, request, disturbed>>
<1> DEFINE y == [publisher[n] EXCEPT !.pc = "done"]
<1>1. publisher' = [publisher EXCEPT ![n] = y]
  BY Zenon DEF RefreshFails
<1>2. /\ publisher[n].pc = "inserted" /\ n \notin Ids(rows)
      /\ UNCHANGED <<rows, readRows, registered, socket, page, request, left, disturbed>>
  BY DEF RefreshFails, noteRows
<1>3. y \in PublisherStates /\ y.pc = "done" /\ y.due = publisher[n].due
  BY PublisherFields DEF PublisherStates
<1> HIDE DEF y
<1>4. /\ publisher' \in [Notes -> PublisherStates]
      /\ \A m \in Notes : publisher'[m] = IF m = n THEN y ELSE publisher[m]
  BY <1>1, <1>3, NoteTypes
<1>5. NotesTypeOK'
  BY <1>2, <1>4 DEF NotesTypeOK
<1>6. QED
  BY <1>2, <1>3, <1>4, <1>5

LEMMA ConnectDoes ==
    ASSUME NotesTypeOK, NEW k \in Clients, Connect(k)
    PROVE  /\ NotesTypeOK'
           /\ \A j \in Clients : socket'[j].chan = socket[j].chan /\ (socket[j].up => socket'[j].up)
           /\ UNCHANGED <<rows, readRows, publisher, page, request, disturbed>>
<1> DEFINE x == [socket[k] EXCEPT !.up = TRUE]
           b == [left[k] EXCEPT !.connects = left[k].connects - 1]
<1>1. socket' = [socket EXCEPT ![k] = x] /\ left' = [left EXCEPT ![k] = b]
  BY Zenon DEF Connect
<1>2. /\ left[k].connects > 0 /\ registered' = registered \cup {k}
      /\ UNCHANGED <<rows, readRows, publisher, page, request, disturbed>>
  BY DEF Connect, noteRows
<1>3. x \in Sockets /\ x.up /\ x.chan = socket[k].chan
  BY SocketFields DEF Sockets
<1>4. b \in Bounds
  <2>1. left[k] \in Bounds
    BY NoteTypes
  <2>2. QED
    BY <1>2, <2>1 DEF Bounds
<1> HIDE DEF x, b
<1>5. /\ socket' \in [Clients -> Sockets] /\ left' \in [Clients -> Bounds]
      /\ \A j \in Clients : socket'[j] = IF j = k THEN x ELSE socket[j]
  BY <1>1, <1>3, <1>4, NoteTypes
<1>6. NotesTypeOK'
  BY <1>2, <1>5 DEF NotesTypeOK, Sockets, Bounds
<1>7. QED
  BY <1>2, <1>3, <1>5, <1>6

LEMMA LoseConnectionDoes ==
    ASSUME NotesTypeOK, NEW k \in Clients, LoseConnection(k)
    PROVE  /\ NotesTypeOK'
           /\ socket'[k].chan = <<>>
           /\ \A j \in Clients : j # k => socket'[j] = socket[j]
           /\ \A n \in Notes : /\ publisher'[n].pc = publisher[n].pc
                               /\ publisher'[n].todo = publisher[n].todo
                               /\ publisher'[n].count = publisher[n].count
                               /\ publisher'[n].due = publisher[n].due \ {k}
           /\ disturbed' = IF socket[k].chan = <<>> THEN disturbed ELSE disturbed \cup {k}
           /\ UNCHANGED <<rows, readRows, page, request>>
<1> DEFINE x == [up |-> FALSE, chan |-> <<>>]
           b == [left[k] EXCEPT !.closes = left[k].closes - 1]
           y(n) == [publisher[n] EXCEPT !.due = publisher[n].due \ {k}]
<1>1. /\ socket' = [socket EXCEPT ![k] = x] /\ left' = [left EXCEPT ![k] = b]
      /\ publisher' = [n \in Notes |-> y(n)]
  BY Zenon DEF LoseConnection
<1>2. /\ left[k].closes > 0
      /\ disturbed' = IF socket[k].chan = <<>> THEN disturbed ELSE disturbed \cup {k}
      /\ UNCHANGED <<rows, readRows, registered, page, request>>
  BY DEF LoseConnection, noteRows
<1>3. x \in Sockets /\ x.chan = <<>>
  BY DEF Sockets
<1>4. b \in Bounds
  <2>1. left[k] \in Bounds
    BY NoteTypes
  <2>2. QED
    BY <1>2, <2>1 DEF Bounds
<1>5. ASSUME NEW n \in Notes
      PROVE  /\ y(n) \in PublisherStates /\ y(n).due = publisher[n].due \ {k}
             /\ y(n).pc = publisher[n].pc /\ y(n).todo = publisher[n].todo
             /\ y(n).count = publisher[n].count
  BY PublisherFields DEF PublisherStates
<1> HIDE DEF x, b, y
<1>6. /\ socket' \in [Clients -> Sockets] /\ left' \in [Clients -> Bounds]
      /\ \A j \in Clients : socket'[j] = IF j = k THEN x ELSE socket[j]
  BY <1>1, <1>3, <1>4, NoteTypes
<1>7. publisher' \in [Notes -> PublisherStates] /\ \A n \in Notes : publisher'[n] = y(n)
  BY <1>1, <1>5
<1>8. disturbed' \subseteq Clients
  BY <1>2, NoteTypes
<1>9. NotesTypeOK'
  BY <1>2, <1>6, <1>7, <1>8 DEF NotesTypeOK, Sockets, Bounds
<1>10. QED
  BY <1>2, <1>3, <1>5, <1>6, <1>7, <1>9

LEMMA UnregisterSocketDoes ==
    ASSUME NotesTypeOK, NEW k \in Clients, UnregisterSocket(k)
    PROVE  /\ NotesTypeOK'
           /\ UNCHANGED <<rows, readRows, publisher, socket, page, request, disturbed>>
<1>1. /\ registered' = registered \ {k}
      /\ UNCHANGED <<rows, readRows, publisher, socket, page, request, disturbed, left>>
  BY DEF UnregisterSocket, noteRows
<1>2. QED
  BY <1>1 DEF NotesTypeOK

LEMMA ReceiveDoes ==
    ASSUME NotesTypeOK, KnownInv, NEW k \in Clients, Receive(k)
    PROVE  /\ NotesTypeOK'
           /\ socket[k].chan # <<>> /\ socket'[k].chan = Tail(socket[k].chan)
           /\ \A j \in Clients : socket'[j].up = socket[j].up
           /\ \A j \in Clients : j # k => socket'[j] = socket[j] /\ page'[j] = page[j]
           /\ page'[k].list = Listed(page[k].list, Head(socket[k].chan).note)
           /\ page'[k].read = page[k].read \ {Head(socket[k].chan).note}
           /\ page'[k].badge = Head(socket[k].chan).count
           /\ page'[k].got = page[k].got \cup {Head(socket[k].chan).note}
           /\ page'[k].loaded = page[k].loaded
           /\ UNCHANGED <<rows, readRows, publisher, registered, request, disturbed>>
<1> DEFINE c == socket[k].chan
           e == Head(c)
           L == Listed(page[k].list, e.note)
           x == [page[k] EXCEPT !.list = L, !.read = page[k].read \ {e.note}, !.badge = e.count,
                                !.got = page[k].got \cup {e.note}]
           s == [socket[k] EXCEPT !.chan = Tail(c)]
<1>1. page' = [page EXCEPT ![k] = x] /\ socket' = [socket EXCEPT ![k] = s]
  <2>1. page' = [page EXCEPT ![k] = x]
    BY Zenon DEF Receive
  <2>2. socket' = [socket EXCEPT ![k] = s]
    BY Zenon DEF Receive
  <2>3. QED
    BY <2>1, <2>2
<1>2. c # <<>> /\ UNCHANGED <<rows, readRows, publisher, registered, request, disturbed, left>>
  BY DEF Receive, noteRows
<1>3. Tail(c) \in Seq(NoteEvents) /\ e \in NoteEvents
  BY <1>2, SocketFields
<1>4. e.note \in Notes /\ e.count \in Nat
  BY <1>3 DEF NoteEvents
<1>5. s \in Sockets /\ s.up = socket[k].up /\ s.chan = Tail(c)
  BY <1>3, SocketFields DEF Sockets
<1> HIDE DEF e, s
<1>6. L \in Seq(Notes)
  <2>1. page[k].list \in Seq(Notes) /\ Once(page[k].list)
    BY PageFields DEF KnownInv, KnownTo
  <2>2. QED
    BY <1>4, <2>1, ListedIs
<1> HIDE DEF L
<1>7. /\ x \in Pages /\ x.list = L /\ x.read = page[k].read \ {e.note} /\ x.badge = e.count
      /\ x.got = page[k].got \cup {e.note} /\ x.loaded = page[k].loaded
  BY <1>4, <1>6, PageFields DEF Pages
<1> HIDE DEF x
<1>8. /\ page' \in [Clients -> Pages] /\ \A j \in Clients : page'[j] = IF j = k THEN x ELSE page[j]
      /\ socket' \in [Clients -> Sockets] /\ \A j \in Clients : socket'[j] = IF j = k THEN s ELSE socket[j]
  BY <1>1, <1>5, <1>7, NoteTypes
<1>9. NotesTypeOK'
  BY <1>2, <1>8 DEF NotesTypeOK, Sockets
<1>10. QED
  BY <1>2, <1>5, <1>7, <1>8, <1>9 DEF L, e

LEMMA FetchRowsDoes ==
    ASSUME NotesTypeOK, NEW k \in Clients, FetchRows(k)
    PROVE  /\ NotesTypeOK'
           /\ ~page[k].loaded
           /\ request'[k].kind = "list" /\ request'[k].list = Newest /\ request'[k].read = readRows
           /\ \A j \in Clients : j # k => request'[j] = request[j]
           /\ disturbed' = IF OnItsWay(k) \/ Len(rows) > Limit THEN disturbed \cup {k} ELSE disturbed \ {k}
           /\ UNCHANGED <<rows, readRows, publisher, registered, socket, page>>
<1> DEFINE x == [request[k] EXCEPT !.kind = "list", !.list = Newest, !.read = readRows]
<1>1. request' = [request EXCEPT ![k] = x]
  BY Zenon DEF FetchRows
<1>2. /\ ~page[k].loaded /\ Ask(k)
      /\ disturbed' = IF OnItsWay(k) \/ Len(rows) > Limit THEN disturbed \cup {k} ELSE disturbed \ {k}
      /\ UNCHANGED <<rows, readRows, publisher, registered, socket, page>>
  BY DEF FetchRows, noteRows
<1>3. Newest \in Seq(Notes) /\ readRows \subseteq Notes /\ left' \in [Clients -> Bounds]
  BY <1>2, NewestIs, NoteTypes, Asks
<1>4. x \in Requests /\ x.kind = "list" /\ x.list = Newest /\ x.read = readRows
  BY <1>3, RequestFields DEF Requests
<1> HIDE DEF x
<1>5. /\ request' \in [Clients -> Requests]
      /\ \A j \in Clients : request'[j] = IF j = k THEN x ELSE request[j]
  BY <1>1, <1>4, NoteTypes
<1>6. disturbed' \subseteq Clients
  BY <1>2, NoteTypes
<1>7. NotesTypeOK'
  BY <1>2, <1>3, <1>5, <1>6 DEF NotesTypeOK, Bounds
<1>8. QED
  BY <1>2, <1>4, <1>5, <1>7

LEMMA FetchCountDoes ==
    ASSUME NotesTypeOK, NEW k \in Clients, FetchCount(k)
    PROVE  /\ NotesTypeOK'
           /\ request[k].kind = "list" /\ request'[k].kind = "fetched" /\ request'[k].badge = Unread
           /\ request'[k].list = request[k].list /\ request'[k].read = request[k].read
           /\ \A j \in Clients : j # k => request'[j] = request[j]
           /\ UNCHANGED <<rows, readRows, publisher, registered, socket, page, disturbed>>
<1> DEFINE x == [request[k] EXCEPT !.kind = "fetched", !.badge = Unread]
<1>1. request' = [request EXCEPT ![k] = x]
  BY Zenon DEF FetchCount
<1>2. /\ request[k].kind = "list"
      /\ UNCHANGED <<rows, readRows, publisher, registered, socket, page, disturbed, left>>
  BY DEF FetchCount, noteRows
<1>3. /\ x \in Requests /\ x.kind = "fetched" /\ x.badge = Unread
      /\ x.list = request[k].list /\ x.read = request[k].read
  BY UnreadType, RequestFields DEF Requests
<1> HIDE DEF x
<1>4. /\ request' \in [Clients -> Requests]
      /\ \A j \in Clients : request'[j] = IF j = k THEN x ELSE request[j]
  BY <1>1, <1>3, NoteTypes
<1>5. NotesTypeOK'
  BY <1>2, <1>4 DEF NotesTypeOK
<1>6. QED
  BY <1>2, <1>3, <1>4, <1>5

\* The answer to a request: the page shows x.
LEMMA Answered ==
    ASSUME NotesTypeOK, NEW k \in Clients, NEW x \in Pages,
           page' = [page EXCEPT ![k] = x], request' = [request EXCEPT ![k] = NewRequest],
           UNCHANGED <<rows, readRows, publisher, registered, socket, disturbed, left>>
    PROVE  /\ NotesTypeOK'
           /\ page'[k] = x /\ request'[k].kind = "none" /\ request'[k].list = <<>>
           /\ \A j \in Clients : j # k => request'[j] = request[j] /\ page'[j] = page[j]
<1>1. NewRequest \in Requests /\ NewRequest.kind = "none" /\ NewRequest.list = <<>>
  BY DEF NewRequest, Requests
<1>2. /\ request' \in [Clients -> Requests] /\ page' \in [Clients -> Pages]
      /\ \A j \in Clients : request'[j] = IF j = k THEN NewRequest ELSE request[j]
      /\ \A j \in Clients : page'[j] = IF j = k THEN x ELSE page[j]
  BY <1>1, NoteTypes
<1>3. NotesTypeOK'
  BY <1>2 DEF NotesTypeOK
<1>4. QED
  BY <1>1, <1>2, <1>3

LEMMA FetchedDoes ==
    ASSUME NotesTypeOK, NEW k \in Clients, Fetched(k)
    PROVE  /\ NotesTypeOK'
           /\ request[k].kind = "fetched" /\ request'[k].kind = "none" /\ request'[k].list = <<>>
           /\ page'[k].list = request[k].list /\ page'[k].read = request[k].read
           /\ page'[k].badge = request[k].badge /\ page'[k].got = page[k].got
           /\ \A j \in Clients : j # k => request'[j] = request[j] /\ page'[j] = page[j]
           /\ UNCHANGED <<rows, readRows, publisher, registered, socket, disturbed>>
<1> DEFINE x == [page[k] EXCEPT !.list = request[k].list, !.read = request[k].read,
                                !.badge = request[k].badge, !.loaded = TRUE]
<1>1. page' = [page EXCEPT ![k] = x] /\ request' = [request EXCEPT ![k] = NewRequest]
  BY Zenon DEF Fetched
<1>2. /\ request[k].kind = "fetched"
      /\ UNCHANGED <<rows, readRows, publisher, registered, socket, disturbed, left>>
  BY DEF Fetched, noteRows
<1>3. /\ x \in Pages /\ x.list = request[k].list /\ x.read = request[k].read
      /\ x.badge = request[k].badge /\ x.got = page[k].got
  BY RequestFields, PageFields DEF Pages
<1> HIDE DEF x
<1>4. QED
  BY <1>1, <1>2, <1>3, Answered

LEMMA ReadAnsweredDoes ==
    ASSUME NotesTypeOK, NEW k \in Clients, ReadAnswered(k)
    PROVE  /\ NotesTypeOK'
           /\ request[k].kind = "read" /\ request'[k].kind = "none" /\ request'[k].list = <<>>
           /\ page'[k].list = page[k].list /\ page'[k].got = page[k].got
           /\ page'[k].read = page[k].read \cup (request[k].note \cap Ids(page[k].list))
           /\ page'[k].badge = Cardinality(Ids(page[k].list) \ page'[k].read)
           /\ page'[k].loaded = page[k].loaded
           /\ \A j \in Clients : j # k => request'[j] = request[j] /\ page'[j] = page[j]
           /\ UNCHANGED <<rows, readRows, publisher, registered, socket, disturbed>>
<1> DEFINE R == page[k].read \cup (request[k].note \cap Ids(page[k].list))
           B == Cardinality(Ids(page[k].list) \ R)
           x == [page[k] EXCEPT !.read = R, !.badge = B]
<1>1. page' = [page EXCEPT ![k] = x] /\ request' = [request EXCEPT ![k] = NewRequest]
  BY Zenon DEF ReadAnswered
<1>2. /\ request[k].kind = "read"
      /\ UNCHANGED <<rows, readRows, publisher, registered, socket, disturbed, left>>
  BY DEF ReadAnswered, noteRows
<1>3. R \subseteq Notes /\ B \in Nat
  BY RequestFields, PageFields, CountedIds
<1> HIDE DEF R, B
<1>4. /\ x \in Pages /\ x.list = page[k].list /\ x.read = R /\ x.badge = B
      /\ x.loaded = page[k].loaded /\ x.got = page[k].got
  BY <1>3, PageFields DEF Pages
<1> HIDE DEF x
<1>5. QED
  BY <1>1, <1>2, <1>4, Answered DEF R, B

LEMMA ReadAllAnsweredDoes ==
    ASSUME NotesTypeOK, NEW k \in Clients, ReadAllAnswered(k)
    PROVE  /\ NotesTypeOK'
           /\ request[k].kind = "readAll" /\ request'[k].kind = "none" /\ request'[k].list = <<>>
           /\ page'[k].list = page[k].list /\ page'[k].got = page[k].got
           /\ page'[k].read = Ids(page[k].list) /\ page'[k].badge = 0
           /\ page'[k].loaded = page[k].loaded
           /\ \A j \in Clients : j # k => request'[j] = request[j] /\ page'[j] = page[j]
           /\ UNCHANGED <<rows, readRows, publisher, registered, socket, disturbed>>
<1> DEFINE R == Ids(page[k].list)
           x == [page[k] EXCEPT !.read = R, !.badge = 0]
<1>1. page' = [page EXCEPT ![k] = x] /\ request' = [request EXCEPT ![k] = NewRequest]
  BY Zenon DEF ReadAllAnswered
<1>2. /\ request[k].kind = "readAll"
      /\ UNCHANGED <<rows, readRows, publisher, registered, socket, disturbed, left>>
  BY DEF ReadAllAnswered, noteRows
<1>3. R \subseteq Notes
  BY PageFields, CountedIds
<1> HIDE DEF R
<1>4. /\ x \in Pages /\ x.list = page[k].list /\ x.read = R /\ x.badge = 0
      /\ x.loaded = page[k].loaded /\ x.got = page[k].got
  BY <1>3, PageFields DEF Pages
<1> HIDE DEF x
<1>5. QED
  BY <1>1, <1>2, <1>4, Answered DEF R

LEMMA ReadFailsDoes ==
    ASSUME NotesTypeOK, NEW k \in Clients, ReadFails(k)
    PROVE  /\ NotesTypeOK'
           /\ request[k].kind = "read" /\ request[k].note \cap Ids(rows) = {}
           /\ request'[k].kind = "none" /\ request'[k].list = <<>>
           /\ \A j \in Clients : j # k => request'[j] = request[j]
           /\ UNCHANGED <<rows, readRows, publisher, registered, socket, page, disturbed>>
<1>1. /\ request' = [request EXCEPT ![k] = NewRequest]
      /\ request[k].kind = "read" /\ request[k].note \cap Ids(rows) = {}
      /\ UNCHANGED <<rows, readRows, publisher, registered, socket, page, disturbed, left>>
  BY DEF ReadFails, noteRows
<1>2. NewRequest \in Requests /\ NewRequest.kind = "none" /\ NewRequest.list = <<>>
  BY DEF NewRequest, Requests
<1>3. /\ request' \in [Clients -> Requests]
      /\ \A j \in Clients : request'[j] = IF j = k THEN NewRequest ELSE request[j]
  BY <1>1, <1>2, NoteTypes
<1>4. NotesTypeOK'
  BY <1>1, <1>3 DEF NotesTypeOK
<1>5. QED
  BY <1>1, <1>2, <1>3, <1>4

\* A notification is deleted: every page that shows rows, or is told of some, is disturbed.
LEMMA DeleteNoteDoes ==
    ASSUME NotesTypeOK, KnownInv, NEW k \in Clients, NEW n \in Notes, DeleteNote(k, n)
    PROVE  /\ NotesTypeOK'
           /\ Once(rows') /\ Ids(rows') = Ids(rows) \ {n} /\ readRows' = readRows \ {n}
           /\ \A c \in Clients \ disturbed' : c \notin disturbed /\ ~OnItsWay(c) /\ ~page[c].loaded
           /\ UNCHANGED <<publisher, registered, socket, page, request>>
<1>1. /\ Spend(k) /\ rows' = Without(rows, n) /\ readRows' = readRows \ {n}
      /\ disturbed' = disturbed \cup {c \in Clients : OnItsWay(c)} \cup {c \in Clients : page[c].loaded}
      /\ UNCHANGED <<publisher, registered, socket, page, request>>
  BY DEF DeleteNote, DisturbedBy
<1>2. rows \in Seq(Notes) /\ Once(rows)
  BY NoteTypes DEF KnownInv
<1>3. rows' \in Seq(Notes) /\ Once(rows') /\ Ids(rows') = Ids(rows) \ {n}
  BY <1>1, <1>2, WithoutIs
<1>4. readRows' \subseteq Notes /\ disturbed' \subseteq Clients /\ left' \in [Clients -> Bounds]
  BY <1>1, NoteTypes, Spends
<1>5. NotesTypeOK'
  BY <1>1, <1>3, <1>4 DEF NotesTypeOK, Bounds
<1>6. QED
  BY <1>1, <1>3, <1>5

\* A page reads: what is asked for is done, and disturbs the others.
LEMMA ReadDoes ==
    ASSUME NotesTypeOK, KnownInv, NEW k \in Clients, NEW n \in Notes, ReadNote(k, n)
    PROVE  /\ NotesTypeOK'
           /\ n \in Ids(page[k].list) /\ n \in Ids(rows) /\ readRows' = readRows \cup {n}
           /\ request'[k].kind = "read" /\ request'[k].note = {n} /\ request'[k].list = request[k].list
           /\ \A j \in Clients : j # k => request'[j] = request[j] /\ j \in disturbed'
           /\ k \notin disturbed' => k \notin disturbed /\ ~OnItsWay(k)
           /\ UNCHANGED <<rows, publisher, registered, socket, page>>
<1> DEFINE x == [request[k] EXCEPT !.kind = "read", !.note = {n}]
<1>1. request' = [request EXCEPT ![k] = x]
  BY Zenon DEF ReadNote
<1>2. /\ Ask(k) /\ n \in Ids(page[k].list) /\ n \in Ids(rows) /\ readRows' = readRows \cup {n}
      /\ disturbed' = disturbed \cup {j \in Clients : OnItsWay(j)} \cup (Clients \ {k})
      /\ UNCHANGED <<rows, publisher, registered, socket, page>>
  BY DEF ReadNote, DisturbedBy
<1>3. x \in Requests /\ x.kind = "read" /\ x.note = {n} /\ x.list = request[k].list
  BY RequestFields DEF Requests
<1> HIDE DEF x
<1>4. /\ request' \in [Clients -> Requests]
      /\ \A j \in Clients : request'[j] = IF j = k THEN x ELSE request[j]
  BY <1>1, <1>3, NoteTypes
<1>5. readRows' \subseteq Notes /\ disturbed' \subseteq Clients /\ left' \in [Clients -> Bounds]
  BY <1>2, NoteTypes, Asks
<1>6. NotesTypeOK'
  BY <1>2, <1>4, <1>5 DEF NotesTypeOK, Bounds
<1>7. QED
  BY <1>2, <1>3, <1>4, <1>6

LEMMA ReadAllDoes ==
    ASSUME NotesTypeOK, NEW k \in Clients, ReadAllNotes(k)
    PROVE  /\ NotesTypeOK'
           /\ readRows' = Ids(rows) /\ request'[k].kind = "readAll" /\ request'[k].list = request[k].list
           /\ \A j \in Clients : j # k => request'[j] = request[j] /\ j \in disturbed'
           /\ k \notin disturbed' => k \notin disturbed /\ ~OnItsWay(k)
           /\ UNCHANGED <<rows, publisher, registered, socket, page>>
<1> DEFINE x == [request[k] EXCEPT !.kind = "readAll"]
<1>1. request' = [request EXCEPT ![k] = x]
  BY Zenon DEF ReadAllNotes
<1>2. /\ Ask(k) /\ readRows' = Ids(rows)
      /\ disturbed' = disturbed \cup {j \in Clients : OnItsWay(j)} \cup (Clients \ {k})
      /\ UNCHANGED <<rows, publisher, registered, socket, page>>
  BY DEF ReadAllNotes, DisturbedBy
<1>3. x \in Requests /\ x.kind = "readAll" /\ x.list = request[k].list
  BY RequestFields DEF Requests
<1> HIDE DEF x
<1>4. /\ request' \in [Clients -> Requests]
      /\ \A j \in Clients : request'[j] = IF j = k THEN x ELSE request[j]
  BY <1>1, <1>3, NoteTypes
<1>5. readRows' \subseteq Notes /\ disturbed' \subseteq Clients /\ left' \in [Clients -> Bounds]
  BY <1>2, NoteTypes, Asks, CountedIds
<1>6. NotesTypeOK'
  BY <1>2, <1>4, <1>5 DEF NotesTypeOK, Bounds
<1>7. QED
  BY <1>2, <1>3, <1>4, <1>6

-----------------------------------------------------------------------------
(* What no step but a few touches.                                          *)

LEMMA WayIs ==
    ASSUME NEW k \in Clients
    PROVE  ~OnItsWay(k) <=> Coming(k) = {} /\ socket[k].chan = <<>> /\ request[k].kind = "none"
BY DEF OnItsWay, Coming

\* What is a row, or was one, stays so.
LEMMA IssuedStays ==
    ASSUME \A n \in Notes : publisher'[n].pc = "none" => publisher[n].pc = "none"
    PROVE  Issued \subseteq Issued'
BY DEF Issued

LEMMA KnownFrame ==
    ASSUME KnownInv, NEW k \in Clients,
           \A n \in Notes : publisher'[n].pc = "none" => publisher[n].pc = "none",
           page'[k] = page[k], request'[k] = request[k], socket'[k].chan = socket[k].chan
    PROVE  KnownTo(k)'
<1>1. KnownTo(k) /\ Issued \subseteq Issued'
  BY IssuedStays DEF KnownInv
<1>2. QED
  BY <1>1 DEF KnownTo

LEMMA KnownStays ==
    ASSUME KnownInv, UNCHANGED <<rows, readRows>>,
           \A n \in Notes : publisher'[n].pc = "none" => publisher[n].pc = "none",
           \A k \in Clients : KnownTo(k)'
    PROVE  KnownInv'
<1>1. Ids(rows) \subseteq Issued /\ Issued \subseteq Issued'
  BY IssuedStays DEF KnownInv
<1>2. Ids(rows') \subseteq Issued'
  BY <1>1
<1>3. Once(rows') /\ readRows' \subseteq Ids(rows')
  BY DEF KnownInv
<1>4. QED
  BY <1>2, <1>3 DEF KnownInv

LEMMA TrueFrame ==
    ASSUME NEW k \in Clients, TrueOf(k), UNCHANGED <<rows, readRows>>,
           page'[k] = page[k], request'[k] = request[k], socket'[k].chan = socket[k].chan,
           Coming(k)' = Coming(k),
           \A n \in Coming(k) : publisher'[n].pc = publisher[n].pc /\ publisher'[n].count = publisher[n].count
    PROVE  TrueOf(k)'
<1>1. Backwards' = Backwards /\ Unread' = Unread
  BY DEF Backwards, Unread
<1>2. \A n \in Notes : Lacks(k, n) => Lacks(k, n)'
  BY <1>1 DEF Lacks
<1>3. /\ Loading(k) => Loading(k)'
      /\ UpToDate(k) => UpToDate(k)'
      /\ ReadOne(k) => ReadOne(k)'
      /\ ReadEvery(k) => ReadEvery(k)'
  BY <1>1 DEF Loading, UpToDate, ReadOne, ReadEvery
<1>4. Delivered(k) => Delivered(k)'
  BY <1>1 DEF Delivered, Lacks
<1>5. Announced(k) => Announced(k)'
  <2> SUFFICES ASSUME Announced(k)
               PROVE  Announced(k)'
    OBVIOUS
  <2>1. PICK n \in Notes : Coming(k) = {n} /\ Lacks(k, n) /\ (publisher[n].pc = "sending" => publisher[n].count = Unread)
    BY DEF Announced
  <2>2. Coming(k)' = {n} /\ Lacks(k, n)' /\ (publisher'[n].pc = "sending" => publisher'[n].count = Unread')
    BY <1>1, <1>2, <2>1
  <2>3. socket'[k].chan = <<>> /\ request'[k].kind = "none"
    BY DEF Announced
  <2>4. QED
    BY <2>2, <2>3 DEF Announced
<1>6. QED
  BY <1>3, <1>4, <1>5 DEF TrueOf

LEMMA ComingFrame ==
    ASSUME NEW k \in Clients,
           \A n \in Notes : publisher'[n].pc = publisher[n].pc /\ publisher'[n].todo = publisher[n].todo
    PROVE  Coming(k)' = Coming(k)
BY DEF Coming

\* A step that publishes nothing and leaves page k alone.
LEMMA QuietFrame ==
    ASSUME TrueInv, NEW k \in Clients \ disturbed, UNCHANGED <<rows, readRows, publisher>>,
           page'[k] = page[k], request'[k] = request[k], socket'[k].chan = socket[k].chan
    PROVE  TrueOf(k)'
<1>1. Coming(k)' = Coming(k)
  BY ComingFrame
<1>2. QED
  BY <1>1, TrueFrame DEF TrueInv

LEMMA ToldFrame ==
    ASSUME NEW n \in Notes, NEW k \in Clients, Told(n, k),
           page[k].got \subseteq page'[k].got, socket'[k].chan = socket[k].chan
    PROVE  Told(n, k)'
BY DEF Told

\* Nobody is told anything, and nobody else is due.
LEMMA DueStays ==
    ASSUME DueInv,
           \A k \in Clients : /\ page[k].got \subseteq page'[k].got
                              /\ socket'[k].chan = socket[k].chan /\ (socket[k].up => socket'[k].up),
           \A n \in Notes : /\ publisher'[n].due \subseteq publisher[n].due
                            /\ publisher[n].pc = "sending" /\ publisher[n].todo # {} =>
                                 publisher'[n].pc = "sending" /\ publisher'[n].todo = publisher[n].todo
    PROVE  DueInv'
<1> SUFFICES ASSUME NEW n \in Notes, NEW k \in publisher'[n].due
             PROVE  /\ k \in Clients /\ socket'[k].up
                    /\ Told(n, k)' \/ (publisher'[n].pc = "sending" /\ k \in publisher'[n].todo)
  BY DEF DueInv
<1>1. /\ k \in Clients /\ socket[k].up
      /\ Told(n, k) \/ (publisher[n].pc = "sending" /\ k \in publisher[n].todo)
  BY DEF DueInv
<1>2. Told(n, k) => Told(n, k)'
  BY <1>1, ToldFrame
<1>3. QED
  BY <1>1, <1>2

-----------------------------------------------------------------------------
(* Each step keeps what the pages show true.                                *)

LEMMA InsertKeeps ==
    ASSUME NotesInv, NEW n \in Notes, Insert(n)
    PROVE  NotesInv'
<1>0. NotesTypeOK /\ KnownInv /\ TrueInv /\ DueInv
  BY DEF NotesInv
<1>1. /\ NotesTypeOK'
      /\ publisher[n].pc = "none" /\ publisher'[n].pc = "inserted" /\ rows' = Append(rows, n)
      /\ publisher'[n].due = publisher[n].due
      /\ \A m \in Notes : m # n => publisher'[m] = publisher[m]
      /\ disturbed' = disturbed \cup {k \in Clients : OnItsWay(k)}
      /\ UNCHANGED <<readRows, registered, socket, page, request>>
  BY <1>0, InsertDoes
<1>2. rows \in Seq(Notes) /\ n \notin Ids(rows)
  BY <1>0, <1>1, NoteTypes DEF KnownInv, Issued
<1>3. PICK l \in Nat : /\ l = Len(rows) /\ DOMAIN rows = 1..l /\ DOMAIN rows' = 1..l + 1
                       /\ \A i \in 1..l : rows'[i] = rows[i]
                       /\ rows'[l + 1] = n
  BY <1>1, <1>2
<1>4. Ids(rows') = Ids(rows) \cup {n}
  <2>1. \A i \in 1..l + 1 : i \in 1..l \/ i = l + 1
    OBVIOUS
  <2>2. Ids(rows') \subseteq Ids(rows) \cup {n}
    BY <1>3, <2>1 DEF Ids
  <2>3. Ids(rows) \cup {n} \subseteq Ids(rows')
    BY <1>3 DEF Ids
  <2>4. QED
    BY <2>2, <2>3
<1>5. KnownInv'
  <2>1. Once(rows')
    <3>1. \A i \in 1..l : rows[i] # n
      BY <1>2, <1>3 DEF Ids
    <3>2. \A i, j \in 1..l + 1 : rows'[i] = rows'[j] => i = j
      <4> SUFFICES ASSUME NEW i \in 1..l + 1, NEW j \in 1..l + 1, rows'[i] = rows'[j]
                   PROVE  i = j
        OBVIOUS
      <4>1. CASE i \in 1..l /\ j \in 1..l
        BY <1>0, <1>3, <4>1 DEF KnownInv, Once
      <4>2. CASE i = l + 1 \/ j = l + 1
        BY <1>3, <3>1, <4>2
      <4>3. QED
        BY <4>1, <4>2
    <3>3. QED
      BY <1>3, <3>2 DEF Once
  <2>2. readRows' \subseteq Ids(rows')
    BY <1>0, <1>1, <1>4 DEF KnownInv
  <2>3. Ids(rows') \subseteq Issued'
    <3>1. Ids(rows) \subseteq Issued /\ Issued \subseteq Issued' /\ n \in Issued'
      BY <1>0, <1>1 DEF KnownInv, Issued
    <3>2. QED
      BY <1>4, <3>1
  <2>4. \A k \in Clients : KnownTo(k)'
    BY <1>0, <1>1, KnownFrame
  <2>5. QED
    BY <2>1, <2>2, <2>3, <2>4 DEF KnownInv
<1>6. ASSUME NEW k \in Clients \ disturbed'
      PROVE  TrueOf(k)'
  <2>1. TrueOf(k) /\ Coming(k) = {} /\ socket[k].chan = <<>> /\ request[k].kind = "none"
    BY <1>0, <1>1, <1>6, WayIs DEF TrueInv
  <2>2. CASE ~page[k].loaded
    BY <1>1, <2>1, <2>2 DEF TrueOf
  <2>3. CASE page[k].loaded
    <3>1. UpToDate(k)
      BY <2>1, <2>3 DEF TrueOf, Announced, Delivered, ReadOne, ReadEvery
    <3>2. Coming(k)' = {n}
      <4>1. \A m \in Notes : m \in Coming(k)' <=> m = n
        BY <1>1, <2>1 DEF Coming
      <4>2. QED
        BY <4>1 DEF Coming
    <3>3. Backwards' = <<n>> \o page[k].list
      BY <1>1, <1>2, <3>1, BackwardsGrows DEF UpToDate
    <3>4. n \notin Ids(page[k].list) /\ n \notin readRows
      BY <1>0, <1>1, <1>2 DEF KnownInv, KnownTo, Issued
    <3>5. Lacks(k, n)'
      BY <1>1, <3>1, <3>3, <3>4 DEF Lacks, UpToDate
    <3>6. Announced(k)'
      BY <1>1, <2>1, <3>2, <3>5 DEF Announced
    <3>7. QED
      BY <1>1, <2>1, <3>6 DEF TrueOf
  <2>4. QED
    BY <2>2, <2>3
<1>7. DueInv'
  BY <1>0, <1>1, DueStays
<1>8. QED
  BY <1>1, <1>5, <1>6, <1>7 DEF NotesInv, TrueInv

LEMMA CountAndSnapshotKeeps ==
    ASSUME NotesInv, NEW n \in Notes, CountAndSnapshot(n)
    PROVE  NotesInv'
<1>0. NotesTypeOK /\ KnownInv /\ TrueInv /\ DueInv
  BY DEF NotesInv
<1>1. /\ NotesTypeOK'
      /\ publisher[n].pc = "inserted" /\ publisher'[n].pc = "sending"
      /\ publisher'[n].todo = registered /\ publisher'[n].count = Unread
      /\ publisher'[n].due = {k \in registered : socket[k].up}
      /\ \A m \in Notes : m # n => publisher'[m] = publisher[m]
      /\ disturbed' = disturbed \cup (Clients \ registered)
      /\ UNCHANGED <<rows, readRows, registered, socket, page, request>>
  BY <1>0, CountAndSnapshotDoes
<1>2. KnownInv'
  BY <1>0, <1>1, KnownFrame, KnownStays
<1>3. ASSUME NEW k \in Clients \ disturbed'
      PROVE  TrueOf(k)'
  <2>1. TrueOf(k) /\ k \in registered /\ n \in Coming(k)
    BY <1>0, <1>1, <1>3 DEF TrueInv, Coming
  <2>2. request[k].kind \notin {"list", "fetched"}
    BY <2>1 DEF TrueOf, Loading
  <2>3. CASE ~page[k].loaded
    BY <1>1, <2>2, <2>3 DEF TrueOf
  <2>4. CASE page[k].loaded
    <3>1. Announced(k)
      BY <2>1, <2>4 DEF TrueOf, UpToDate, Delivered, ReadOne, ReadEvery
    <3>2. Coming(k) = {n} /\ Lacks(k, n)
      BY <2>1, <3>1 DEF Announced
    <3>3. \A m \in Notes : m \in Coming(k)' <=> m \in Coming(k)
      BY <1>1, <2>1 DEF Coming
    <3>4. Coming(k)' = {n}
      BY <3>2, <3>3 DEF Coming
    <3>5. Lacks(k, n)' /\ Unread' = Unread
      BY <1>1, <3>2 DEF Lacks, Backwards, Unread
    <3>6. Announced(k)'
      BY <1>1, <3>1, <3>4, <3>5 DEF Announced
    <3>7. QED
      BY <1>1, <2>2, <3>6 DEF TrueOf
  <2>5. QED
    BY <2>3, <2>4
<1>4. DueInv'
  <2> SUFFICES ASSUME NEW m \in Notes, NEW k \in publisher'[m].due
               PROVE  /\ k \in Clients /\ socket[k].up
                      /\ Told(m, k) \/ (publisher'[m].pc = "sending" /\ k \in publisher'[m].todo)
    BY <1>1 DEF DueInv, Told
  <2>1. CASE m = n
    BY <1>0, <1>1, <2>1, NoteTypes
  <2>2. CASE m # n
    BY <1>0, <1>1, <2>2 DEF DueInv
  <2>3. QED
    BY <2>1, <2>2
<1>5. QED
  BY <1>1, <1>2, <1>3, <1>4 DEF NotesInv, TrueInv

\* An event at the end of a connection.
LEMMA ChanGrows ==
    ASSUME NEW c \in Seq(NoteEvents), NEW e \in NoteEvents
    PROVE  /\ \A i \in DOMAIN c : i \in DOMAIN Append(c, e) /\ Append(c, e)[i] = c[i]
           /\ \A i \in DOMAIN Append(c, e) : i \in DOMAIN c \/ Append(c, e)[i] = e
           /\ \E i \in DOMAIN Append(c, e) : Append(c, e)[i] = e
           /\ c = <<>> => Len(Append(c, e)) = 1 /\ Append(c, e)[1] = e
<1>1. /\ Len(c) \in Nat /\ DOMAIN c = 1..Len(c) /\ DOMAIN Append(c, e) = 1..Len(c) + 1
      /\ \A i \in 1..Len(c) : Append(c, e)[i] = c[i]
      /\ Append(c, e)[Len(c) + 1] = e /\ Len(Append(c, e)) = Len(c) + 1
  OBVIOUS
<1>2. \A i \in 1..Len(c) + 1 : i \in 1..Len(c) \/ i = Len(c) + 1
  BY <1>1
<1>3. c = <<>> => Len(c) = 0
  OBVIOUS
<1>4. QED
  BY <1>1, <1>2, <1>3

LEMMA SendKeeps ==
    ASSUME NotesInv, NEW n \in Notes, NEW k \in Clients, Send(n, k)
    PROVE  NotesInv'
<1>0. NotesTypeOK /\ KnownInv /\ TrueInv /\ DueInv
  BY DEF NotesInv
<1> DEFINE e == [note |-> n, count |-> publisher[n].count]
           c == socket[k].chan
<1>1. /\ NotesTypeOK'
      /\ publisher[n].pc = "sending" /\ k \in publisher[n].todo
      /\ publisher'[n].pc = "sending" /\ publisher'[n].todo = publisher[n].todo \ {k}
      /\ publisher'[n].due = publisher[n].due /\ publisher'[n].count = publisher[n].count
      /\ \A m \in Notes : m # n => publisher'[m] = publisher[m]
      /\ \A j \in Clients : j # k => socket'[j] = socket[j]
      /\ socket'[k].up = socket[k].up
      /\ \/ socket[k].up /\ disturbed' = disturbed /\ socket'[k].chan = Append(c, e)
         \/ ~socket[k].up /\ disturbed' = disturbed \cup {k} /\ socket' = socket
      /\ UNCHANGED <<rows, readRows, registered, page, request>>
  BY <1>0, SendDoes
<1>2. e \in NoteEvents /\ e.note = n /\ e.count = publisher[n].count /\ c \in Seq(NoteEvents)
  BY <1>0, PublisherFields, SocketFields DEF NoteEvents
<1> HIDE DEF e
<1>3. /\ \A i \in DOMAIN c : i \in DOMAIN Append(c, e) /\ Append(c, e)[i] = c[i]
      /\ \A i \in DOMAIN Append(c, e) : i \in DOMAIN c \/ Append(c, e)[i] = e
      /\ \E i \in DOMAIN Append(c, e) : Append(c, e)[i] = e
      /\ c = <<>> => Len(Append(c, e)) = 1 /\ Append(c, e)[1] = e
  BY <1>2, ChanGrows
<1>4. KnownInv'
  <2>1. n \in Issued /\ Issued' = Issued
    BY <1>1 DEF Issued
  <2>2. ASSUME NEW j \in Clients
        PROVE  KnownTo(j)'
    <3>1. CASE socket'[j].chan = socket[j].chan
      BY <1>0, <1>1, <3>1, KnownFrame
    <3>2. CASE j = k /\ socket'[k].chan = Append(c, e)
      <4>1. KnownTo(k)
        BY <1>0 DEF KnownInv
      <4>2. \A i \in DOMAIN socket'[k].chan : socket'[k].chan[i].note \in Issued
        BY <1>2, <1>3, <2>1, <3>2, <4>1 DEF KnownTo
      <4>3. QED
        BY <1>1, <2>1, <3>2, <4>1, <4>2 DEF KnownTo
    <3>3. QED
      BY <1>1, <3>1, <3>2
  <2>3. QED
    BY <1>0, <1>1, <2>2, KnownStays
<1>5. ASSUME NEW j \in Clients \ disturbed'
      PROVE  TrueOf(j)'
  <2>1. TrueOf(j) /\ j \notin disturbed
    BY <1>0, <1>1, <1>5 DEF TrueInv
  <2>2. CASE j # k
    <3>1. Coming(j)' = Coming(j)
      BY <1>1, <2>2 DEF Coming
    <3>2. \A m \in Notes : publisher'[m].pc = publisher[m].pc /\ publisher'[m].count = publisher[m].count
      BY <1>1
    <3>3. QED
      BY <1>1, <2>1, <2>2, <3>1, <3>2, TrueFrame DEF Coming
  <2>3. CASE j = k
    <3>1. socket'[k].chan = Append(c, e)
      BY <1>1, <1>5, <2>3
    <3>2. n \in Coming(k)
      BY <1>1 DEF Coming
    <3>3. request[k].kind \notin {"list", "fetched"}
      BY <2>1, <2>3, <3>2 DEF TrueOf, Loading
    <3>4. CASE ~page[k].loaded
      BY <1>1, <2>3, <3>3, <3>4 DEF TrueOf
    <3>5. CASE page[k].loaded
      <4>1. Announced(k)
        BY <2>1, <2>3, <3>2, <3>5 DEF TrueOf, UpToDate, Delivered, ReadOne, ReadEvery
      <4>2. /\ Coming(k) = {n} /\ Lacks(k, n) /\ publisher[n].count = Unread
            /\ c = <<>> /\ request[k].kind = "none"
        BY <1>1, <3>2, <4>1 DEF Announced
      <4>3. \A m \in Notes : m \in Coming(k)' => m \in Coming(k) /\ m # n
        BY <1>1 DEF Coming
      <4>4. Coming(k)' = {}
        BY <4>2, <4>3 DEF Coming
      <4>5. Lacks(k, n)' /\ Unread' = Unread
        BY <1>1, <4>2 DEF Lacks, Backwards, Unread
      <4>6. Delivered(k)'
        BY <1>1, <1>2, <1>3, <3>1, <4>2, <4>4, <4>5 DEF Delivered
      <4>7. QED
        BY <1>1, <2>3, <3>3, <4>6 DEF TrueOf
    <3>6. QED
      BY <3>4, <3>5
  <2>4. QED
    BY <2>2, <2>3
<1>6. DueInv'
  <2> SUFFICES ASSUME NEW m \in Notes, NEW j \in publisher'[m].due
               PROVE  /\ j \in Clients /\ socket'[j].up
                      /\ Told(m, j)' \/ (publisher'[m].pc = "sending" /\ j \in publisher'[m].todo)
    BY DEF DueInv
  <2>1. /\ j \in Clients /\ socket[j].up
        /\ Told(m, j) \/ (publisher[m].pc = "sending" /\ j \in publisher[m].todo)
    BY <1>0, <1>1 DEF DueInv
  <2>2. socket'[j].up
    BY <1>1, <2>1
  <2>3. CASE Told(m, j)
    <3>1. CASE j # k
      BY <1>1, <2>1, <2>2, <2>3, <3>1, ToldFrame
    <3>2. CASE j = k
      <4>1. socket'[k].chan = Append(c, e)
        BY <1>1, <2>1, <3>2
      <4>2. Told(m, k)'
        BY <1>1, <1>3, <2>3, <3>2, <4>1 DEF Told
      <4>3. QED
        BY <2>1, <2>2, <3>2, <4>2
    <3>3. QED
      BY <3>1, <3>2
  <2>4. CASE publisher[m].pc = "sending" /\ j \in publisher[m].todo
    <3>1. CASE m = n /\ j = k
      <4>1. socket'[k].chan = Append(c, e)
        BY <1>1, <2>1, <3>1
      <4>2. Told(n, k)'
        BY <1>2, <1>3, <4>1 DEF Told
      <4>3. QED
        BY <2>1, <2>2, <3>1, <4>2
    <3>2. CASE ~(m = n /\ j = k)
      BY <1>1, <2>1, <2>2, <2>4, <3>2
    <3>3. QED
      BY <3>1, <3>2
  <2>5. QED
    BY <2>1, <2>3, <2>4
<1>7. QED
  BY <1>1, <1>4, <1>5, <1>6 DEF NotesInv, TrueInv

LEMMA FinishBroadcastKeeps ==
    ASSUME NotesInv, NEW n \in Notes, FinishBroadcast(n)
    PROVE  NotesInv'
<1>0. NotesTypeOK /\ KnownInv /\ TrueInv /\ DueInv
  BY DEF NotesInv
<1>1. /\ NotesTypeOK'
      /\ publisher[n].pc = "sending" /\ publisher[n].todo = {} /\ publisher'[n].pc = "done"
      /\ publisher'[n].due = publisher[n].due
      /\ \A m \in Notes : m # n => publisher'[m] = publisher[m]
      /\ UNCHANGED <<rows, readRows, socket, page, request, disturbed>>
  BY <1>0, FinishBroadcastDoes
<1>2. KnownInv'
  BY <1>0, <1>1, KnownFrame, KnownStays
<1>3. ASSUME NEW k \in Clients \ disturbed'
      PROVE  TrueOf(k)'
  <2>1. n \notin Coming(k) /\ Coming(k)' = Coming(k)
    BY <1>1 DEF Coming
  <2>2. \A m \in Coming(k) : publisher'[m] = publisher[m]
    BY <1>1, <2>1 DEF Coming
  <2>3. QED
    BY <1>0, <1>1, <1>3, <2>1, <2>2, TrueFrame DEF TrueInv
<1>4. DueInv'
  BY <1>0, <1>1, DueStays
<1>5. QED
  BY <1>1, <1>2, <1>3, <1>4 DEF NotesInv, TrueInv

LEMMA ConnectionKeeps ==
    ASSUME NotesInv, NEW k \in Clients, Connect(k) \/ LoseConnection(k) \/ UnregisterSocket(k)
    PROVE  NotesInv'
<1>0. NotesTypeOK /\ KnownInv /\ TrueInv /\ DueInv
  BY DEF NotesInv
<1>1. CASE Connect(k) \/ UnregisterSocket(k)
  <2>1. /\ NotesTypeOK'
        /\ \A j \in Clients : socket'[j].chan = socket[j].chan /\ (socket[j].up => socket'[j].up)
        /\ UNCHANGED <<rows, readRows, publisher, page, request, disturbed>>
    BY <1>0, <1>1, ConnectDoes, UnregisterSocketDoes
  <2>2. KnownInv'
    BY <1>0, <2>1, KnownFrame, KnownStays
  <2>3. TrueInv'
    BY <1>0, <2>1, QuietFrame DEF TrueInv
  <2>4. DueInv'
    BY <1>0, <2>1, DueStays
  <2>5. QED
    BY <2>1, <2>2, <2>3, <2>4 DEF NotesInv
<1>2. CASE LoseConnection(k)
  <2>1. /\ NotesTypeOK'
        /\ socket'[k].chan = <<>>
        /\ \A j \in Clients : j # k => socket'[j] = socket[j]
        /\ \A n \in Notes : /\ publisher'[n].pc = publisher[n].pc
                            /\ publisher'[n].todo = publisher[n].todo
                            /\ publisher'[n].count = publisher[n].count
                            /\ publisher'[n].due = publisher[n].due \ {k}
        /\ disturbed' = IF socket[k].chan = <<>> THEN disturbed ELSE disturbed \cup {k}
        /\ UNCHANGED <<rows, readRows, page, request>>
    BY <1>0, <1>2, LoseConnectionDoes
  <2>2. KnownInv'
    <3>1. ASSUME NEW j \in Clients
          PROVE  KnownTo(j)'
      <4>1. CASE j # k
        BY <1>0, <2>1, <4>1, KnownFrame
      <4>2. CASE j = k
        <5>1. KnownTo(k)
          BY <1>0 DEF KnownInv
        <5>2. DOMAIN socket'[k].chan = {} /\ Issued' = Issued
          BY <2>1 DEF Issued
        <5>3. QED
          BY <2>1, <4>2, <5>1, <5>2 DEF KnownTo
      <4>3. QED
        BY <4>1, <4>2
    <3>2. QED
      BY <1>0, <2>1, <3>1, KnownStays
  <2>3. ASSUME NEW j \in Clients \ disturbed'
        PROVE  TrueOf(j)'
    <3>1. j \notin disturbed /\ socket'[j].chan = socket[j].chan
      BY <2>1, <2>3
    <3>2. Coming(j)' = Coming(j)
      BY <2>1, ComingFrame
    <3>3. QED
      BY <1>0, <2>1, <3>1, <3>2, TrueFrame DEF TrueInv, Coming
  <2>4. DueInv'
    <3> SUFFICES ASSUME NEW n \in Notes, NEW j \in publisher'[n].due
                 PROVE  /\ j \in Clients /\ socket'[j].up
                        /\ Told(n, j)' \/ (publisher'[n].pc = "sending" /\ j \in publisher'[n].todo)
      BY DEF DueInv
    <3>1. /\ j # k /\ j \in Clients /\ socket[j].up
          /\ Told(n, j) \/ (publisher[n].pc = "sending" /\ j \in publisher[n].todo)
      BY <1>0, <2>1 DEF DueInv
    <3>2. Told(n, j) => Told(n, j)'
      BY <2>1, <3>1, ToldFrame
    <3>3. QED
      BY <2>1, <3>1, <3>2
  <2>5. QED
    BY <2>1, <2>2, <2>3, <2>4 DEF NotesInv, TrueInv
<1>3. QED
  BY <1>1, <1>2

\* The first event leaves a connection.
LEMMA ChanShrinks ==
    ASSUME NEW c \in Seq(NoteEvents), c # <<>>
    PROVE  /\ 1 \in DOMAIN c /\ Head(c) = c[1] /\ Head(c) \in NoteEvents
           /\ \A i \in DOMAIN c : i # 1 => i - 1 \in DOMAIN Tail(c) /\ Tail(c)[i - 1] = c[i]
           /\ \A i \in DOMAIN Tail(c) : i + 1 \in DOMAIN c /\ Tail(c)[i] = c[i + 1]
           /\ Len(c) = 1 => Tail(c) = <<>>
<1>1. /\ Len(c) \in Nat \ {0} /\ DOMAIN c = 1..Len(c) /\ Head(c) = c[1] /\ Head(c) \in NoteEvents
      /\ Tail(c) \in Seq(NoteEvents) /\ Len(Tail(c)) = Len(c) - 1 /\ DOMAIN Tail(c) = 1..Len(c) - 1
      /\ \A i \in 1..Len(c) - 1 : Tail(c)[i] = c[i + 1]
  OBVIOUS
<1>2. \A i \in 1..Len(c) : i # 1 => i - 1 \in 1..Len(c) - 1 /\ i - 1 + 1 = i
  BY <1>1
<1>3. \A i \in 1..Len(c) - 1 : i + 1 \in 1..Len(c)
  BY <1>1
<1>4. Len(c) = 1 => Tail(c) = <<>>
  BY <1>1, EmptySeq
<1>5. QED
  BY <1>1, <1>2, <1>3, <1>4

LEMMA ReceiveKeeps ==
    ASSUME NotesInv, NEW k \in Clients, Receive(k)
    PROVE  NotesInv'
<1>0. NotesTypeOK /\ KnownInv /\ TrueInv /\ DueInv
  BY DEF NotesInv
<1> DEFINE c == socket[k].chan
           e == Head(c)
<1>1. /\ NotesTypeOK'
      /\ c # <<>> /\ socket'[k].chan = Tail(c)
      /\ \A j \in Clients : socket'[j].up = socket[j].up
      /\ \A j \in Clients : j # k => socket'[j] = socket[j] /\ page'[j] = page[j]
      /\ page'[k].list = Listed(page[k].list, e.note) /\ page'[k].read = page[k].read \ {e.note}
      /\ page'[k].badge = e.count /\ page'[k].got = page[k].got \cup {e.note}
      /\ page'[k].loaded = page[k].loaded
      /\ UNCHANGED <<rows, readRows, publisher, registered, request, disturbed>>
  BY <1>0, ReceiveDoes
<1>2. /\ 1 \in DOMAIN c /\ e = c[1] /\ e \in NoteEvents
      /\ \A i \in DOMAIN c : i # 1 => i - 1 \in DOMAIN Tail(c) /\ Tail(c)[i - 1] = c[i]
      /\ \A i \in DOMAIN Tail(c) : i + 1 \in DOMAIN c /\ Tail(c)[i] = c[i + 1]
      /\ Len(c) = 1 => Tail(c) = <<>>
  <2>1. c \in Seq(NoteEvents)
    BY <1>0, SocketFields
  <2>2. QED
    BY <1>1, <2>1, ChanShrinks
<1> HIDE DEF e
<1>3. e.note \in Notes /\ e.note \in Issued /\ Issued' = Issued
  BY <1>0, <1>1, <1>2 DEF NoteEvents, KnownInv, KnownTo, Issued
<1>4. KnownTo(k) /\ page[k].list \in Seq(Notes)
  BY <1>0, PageFields DEF KnownInv
<1>5. /\ Once(Listed(page[k].list, e.note))
      /\ Ids(Listed(page[k].list, e.note)) \subseteq Ids(page[k].list) \cup {e.note}
      /\ e.note \notin Ids(page[k].list) => Listed(page[k].list, e.note) = <<e.note>> \o page[k].list
  BY <1>3, <1>4, ListedIs DEF KnownTo
<1>6. KnownInv'
  <2>1. KnownTo(k)'
    <3>1. Once(page'[k].list) /\ Ids(page'[k].list) \subseteq Issued
      BY <1>1, <1>3, <1>4, <1>5 DEF KnownTo
    <3>2. \A i \in DOMAIN socket'[k].chan : socket'[k].chan[i].note \in Issued
      BY <1>1, <1>2, <1>4 DEF KnownTo
    <3>3. QED
      BY <1>1, <1>3, <1>4, <3>1, <3>2 DEF KnownTo
  <2>2. \A j \in Clients : j # k => KnownTo(j)'
    BY <1>0, <1>1, KnownFrame
  <2>3. QED
    BY <1>0, <1>1, <2>1, <2>2, KnownStays
<1>7. ASSUME NEW j \in Clients \ disturbed'
      PROVE  TrueOf(j)'
  <2>1. CASE j # k
    BY <1>0, <1>1, <1>7, <2>1, QuietFrame
  <2>2. CASE j = k
    <3>1. TrueOf(k)
      BY <1>0, <1>1, <1>7, <2>2 DEF TrueInv
    <3>2. request[k].kind \notin {"list", "fetched"}
      BY <1>1, <3>1 DEF TrueOf, Loading
    <3>3. CASE ~page[k].loaded
      BY <1>1, <2>2, <3>2, <3>3 DEF TrueOf
    <3>4. CASE page[k].loaded
      <4>1. Delivered(k)
        BY <1>1, <3>1, <3>4 DEF TrueOf, UpToDate, Announced, ReadOne, ReadEvery
      <4>2. /\ Coming(k) = {} /\ request[k].kind = "none" /\ Len(c) = 1
            /\ Lacks(k, e.note) /\ e.count = Unread
        BY <1>2, <4>1 DEF Delivered
      <4>3. Coming(k)' = {} /\ socket'[k].chan = <<>>
        BY <1>1, <1>2, <4>2 DEF Coming
      <4>4. Backwards' = Backwards /\ Unread' = Unread
        BY <1>1 DEF Backwards, Unread
      <4>5. page'[k].list = Backwards /\ page'[k].read = readRows /\ page'[k].badge = Unread
        BY <1>1, <1>5, <4>2 DEF Lacks
      <4>6. UpToDate(k)'
        BY <1>1, <4>2, <4>3, <4>4, <4>5 DEF UpToDate
      <4>7. QED
        BY <1>1, <2>2, <3>2, <4>6 DEF TrueOf
    <3>5. QED
      BY <3>3, <3>4
  <2>3. QED
    BY <2>1, <2>2
<1>8. ASSUME NEW n \in Notes, NEW j \in Clients, Told(n, j)
      PROVE  Told(n, j)'
  <2>1. CASE j # k
    BY <1>1, <1>8, <2>1, ToldFrame
  <2>2. CASE j = k /\ n \in page[k].got
    BY <1>1, <2>2 DEF Told
  <2>3. CASE j = k /\ \E i \in DOMAIN c : c[i].note = n
    <3>1. PICK i \in DOMAIN c : c[i].note = n
      BY <2>3
    <3>2. CASE i = 1
      BY <1>1, <1>2, <2>3, <3>1, <3>2 DEF Told
    <3>3. CASE i # 1
      <4>1. i - 1 \in DOMAIN socket'[k].chan /\ socket'[k].chan[i - 1].note = n
        BY <1>1, <1>2, <3>1, <3>3
      <4>2. QED
        BY <2>3, <4>1 DEF Told
    <3>4. QED
      BY <3>2, <3>3
  <2>4. QED
    BY <1>8, <2>1, <2>2, <2>3 DEF Told
<1>9. DueInv'
  <2> SUFFICES ASSUME NEW n \in Notes, NEW j \in publisher[n].due
               PROVE  /\ j \in Clients /\ socket'[j].up
                      /\ Told(n, j)' \/ (publisher[n].pc = "sending" /\ j \in publisher[n].todo)
    BY <1>1 DEF DueInv
  <2>1. /\ j \in Clients /\ socket[j].up
        /\ Told(n, j) \/ (publisher[n].pc = "sending" /\ j \in publisher[n].todo)
    BY <1>0 DEF DueInv
  <2>2. QED
    BY <1>1, <1>8, <2>1
<1>10. QED
  BY <1>1, <1>6, <1>7, <1>9 DEF NotesInv, TrueInv

LEMMA FetchRowsKeeps ==
    ASSUME NotesInv, NEW k \in Clients, FetchRows(k)
    PROVE  NotesInv'
<1>0. NotesTypeOK /\ KnownInv /\ TrueInv /\ DueInv
  BY DEF NotesInv
<1>1. /\ NotesTypeOK'
      /\ ~page[k].loaded
      /\ request'[k].kind = "list" /\ request'[k].list = Newest /\ request'[k].read = readRows
      /\ \A j \in Clients : j # k => request'[j] = request[j]
      /\ disturbed' = IF OnItsWay(k) \/ Len(rows) > Limit THEN disturbed \cup {k} ELSE disturbed \ {k}
      /\ UNCHANGED <<rows, readRows, publisher, registered, socket, page>>
  BY <1>0, FetchRowsDoes
<1>2. rows \in Seq(Notes) /\ Len(rows) \in Nat /\ Limit \in Nat
  BY <1>0, NoteTypes, NotesAssumption
<1>3. KnownInv'
  <2>1. KnownTo(k)'
    <3>1. /\ KnownTo(k) /\ Once(Newest) /\ Ids(Newest) \subseteq Ids(rows)
          /\ Ids(rows) \subseteq Issued /\ Issued' = Issued
      BY <1>0, <1>1, <1>2, NewestIs DEF KnownInv, Issued
    <3>2. QED
      BY <1>1, <3>1 DEF KnownTo
  <2>2. \A j \in Clients : j # k => KnownTo(j)'
    BY <1>0, <1>1, KnownFrame
  <2>3. QED
    BY <1>0, <1>1, <2>1, <2>2, KnownStays
<1>4. ASSUME NEW j \in Clients \ disturbed'
      PROVE  TrueOf(j)'
  <2>1. CASE j # k
    <3>1. j \notin disturbed
      BY <1>1, <1>4, <2>1
    <3>2. QED
      BY <1>0, <1>1, <2>1, <3>1, QuietFrame
  <2>2. CASE j = k
    <3>1. ~OnItsWay(k) /\ Len(rows) <= Limit
      BY <1>1, <1>2, <1>4, <2>2
    <3>2. Coming(k) = {} /\ socket[k].chan = <<>> /\ Newest = Backwards
      BY <1>2, <3>1, WayIs, NewestIs
    <3>3. Coming(k)' = {} /\ Backwards' = Backwards
      BY <1>1, <3>2 DEF Coming, Backwards
    <3>4. Loading(k)'
      BY <1>1, <3>2, <3>3 DEF Loading
    <3>5. QED
      BY <1>1, <2>2, <3>4 DEF TrueOf
  <2>3. QED
    BY <2>1, <2>2
<1>5. DueInv'
  BY <1>0, <1>1, DueStays
<1>6. QED
  BY <1>1, <1>3, <1>4, <1>5 DEF NotesInv, TrueInv

LEMMA FetchCountKeeps ==
    ASSUME NotesInv, NEW k \in Clients, FetchCount(k)
    PROVE  NotesInv'
<1>0. NotesTypeOK /\ KnownInv /\ TrueInv /\ DueInv
  BY DEF NotesInv
<1>1. /\ NotesTypeOK'
      /\ request[k].kind = "list" /\ request'[k].kind = "fetched" /\ request'[k].badge = Unread
      /\ request'[k].list = request[k].list /\ request'[k].read = request[k].read
      /\ \A j \in Clients : j # k => request'[j] = request[j]
      /\ UNCHANGED <<rows, readRows, publisher, registered, socket, page, disturbed>>
  BY <1>0, FetchCountDoes
<1>2. KnownTo(k) /\ ~page[k].loaded /\ Issued' = Issued
  BY <1>0, <1>1 DEF KnownInv, KnownTo, Issued
<1>3. KnownInv'
  <2>1. KnownTo(k)'
    BY <1>1, <1>2 DEF KnownTo
  <2>2. \A j \in Clients : j # k => KnownTo(j)'
    BY <1>0, <1>1, KnownFrame
  <2>3. QED
    BY <1>0, <1>1, <2>1, <2>2, KnownStays
<1>4. ASSUME NEW j \in Clients \ disturbed'
      PROVE  TrueOf(j)'
  <2>1. CASE j # k
    BY <1>0, <1>1, <1>4, <2>1, QuietFrame
  <2>2. CASE j = k
    <3>1. Loading(k)
      BY <1>0, <1>1, <1>4, <2>2 DEF TrueInv, TrueOf
    <3>2. Coming(k)' = {} /\ Backwards' = Backwards /\ Unread' = Unread
      BY <1>1, <3>1 DEF Loading, Coming, Backwards, Unread
    <3>3. Loading(k)'
      BY <1>1, <3>1, <3>2 DEF Loading
    <3>4. QED
      BY <1>1, <1>2, <2>2, <3>3 DEF TrueOf
  <2>3. QED
    BY <2>1, <2>2
<1>5. DueInv'
  BY <1>0, <1>1, DueStays
<1>6. QED
  BY <1>1, <1>3, <1>4, <1>5 DEF NotesInv, TrueInv

\* An answer arrived at page k: it lists what is or was a row, and if it is true now, all is.
LEMMA AnswerKeeps ==
    ASSUME NotesInv, NotesTypeOK', NEW k \in Clients,
           request'[k].kind = "none", request'[k].list = <<>>,
           Once(page'[k].list), Ids(page'[k].list) \subseteq Issued, page'[k].got = page[k].got,
           \A j \in Clients : j # k => request'[j] = request[j] /\ page'[j] = page[j],
           UNCHANGED <<rows, readRows, publisher, registered, socket, disturbed>>,
           k \notin disturbed /\ page'[k].loaded =>
               /\ Coming(k) = {} /\ socket[k].chan = <<>>
               /\ page'[k].list = Backwards /\ page'[k].read = readRows /\ page'[k].badge = Unread
    PROVE  NotesInv'
<1>0. NotesTypeOK /\ KnownInv /\ TrueInv /\ DueInv
  BY DEF NotesInv
<1>1. KnownInv'
  <2>1. KnownTo(k) /\ Once(<<>>) /\ Ids(<<>>) = {} /\ Issued' = Issued
    BY <1>0 DEF KnownInv, Once, Ids, Issued
  <2>2. KnownTo(k)'
    BY <2>1 DEF KnownTo
  <2>3. \A j \in Clients : j # k => KnownTo(j)'
    BY <1>0, KnownFrame
  <2>4. QED
    BY <1>0, <2>2, <2>3, KnownStays
<1>2. ASSUME NEW j \in Clients \ disturbed'
      PROVE  TrueOf(j)'
  <2>1. CASE j # k
    BY <1>0, <1>2, <2>1, QuietFrame
  <2>2. CASE j = k
    <3>1. CASE ~page'[k].loaded
      BY <2>2, <3>1 DEF TrueOf
    <3>2. CASE page'[k].loaded
      <4>1. /\ Coming(k) = {} /\ socket[k].chan = <<>>
            /\ page'[k].list = Backwards /\ page'[k].read = readRows /\ page'[k].badge = Unread
        BY <1>2, <2>2, <3>2
      <4>2. Coming(k)' = {} /\ Backwards' = Backwards /\ Unread' = Unread
        BY <4>1 DEF Coming, Backwards, Unread
      <4>3. UpToDate(k)'
        BY <4>1, <4>2 DEF UpToDate
      <4>4. QED
        BY <2>2, <4>3 DEF TrueOf
    <3>3. QED
      BY <3>1, <3>2
  <2>3. QED
    BY <2>1, <2>2
<1>3. DueInv'
  <2>1. \A j \in Clients : page'[j].got = page[j].got
    OBVIOUS
  <2>2. QED
    BY <1>0, <2>1, DueStays
<1>4. QED
  BY <1>1, <1>2, <1>3 DEF NotesInv, TrueInv

LEMMA FetchedKeeps ==
    ASSUME NotesInv, NEW k \in Clients, Fetched(k)
    PROVE  NotesInv'
<1>0. NotesTypeOK /\ KnownInv /\ TrueInv
  BY DEF NotesInv
<1>1. /\ NotesTypeOK'
      /\ request[k].kind = "fetched" /\ request'[k].kind = "none" /\ request'[k].list = <<>>
      /\ page'[k].list = request[k].list /\ page'[k].read = request[k].read
      /\ page'[k].badge = request[k].badge /\ page'[k].got = page[k].got
      /\ \A j \in Clients : j # k => request'[j] = request[j] /\ page'[j] = page[j]
      /\ UNCHANGED <<rows, readRows, publisher, registered, socket, disturbed>>
  BY <1>0, FetchedDoes
<1>2. Once(page'[k].list) /\ Ids(page'[k].list) \subseteq Issued
  BY <1>0, <1>1 DEF KnownInv, KnownTo
<1>3. k \notin disturbed =>
         /\ Coming(k) = {} /\ socket[k].chan = <<>>
         /\ page'[k].list = Backwards /\ page'[k].read = readRows /\ page'[k].badge = Unread
  BY <1>0, <1>1 DEF TrueInv, TrueOf, Loading
<1>4. QED
  BY <1>1, <1>2, <1>3, AnswerKeeps

LEMMA ReadAnsweredKeeps ==
    ASSUME NotesInv, NEW k \in Clients, ReadAnswered(k)
    PROVE  NotesInv'
<1>0. NotesTypeOK /\ KnownInv /\ TrueInv
  BY DEF NotesInv
<1>1. /\ NotesTypeOK'
      /\ request[k].kind = "read" /\ request'[k].kind = "none" /\ request'[k].list = <<>>
      /\ page'[k].list = page[k].list /\ page'[k].got = page[k].got
      /\ page'[k].read = page[k].read \cup (request[k].note \cap Ids(page[k].list))
      /\ page'[k].badge = Cardinality(Ids(page[k].list) \ page'[k].read)
      /\ page'[k].loaded = page[k].loaded
      /\ \A j \in Clients : j # k => request'[j] = request[j] /\ page'[j] = page[j]
      /\ UNCHANGED <<rows, readRows, publisher, registered, socket, disturbed>>
  BY <1>0, ReadAnsweredDoes
<1>2. Once(page'[k].list) /\ Ids(page'[k].list) \subseteq Issued
  BY <1>0, <1>1 DEF KnownInv, KnownTo
<1>3. ASSUME k \notin disturbed, page'[k].loaded
      PROVE  /\ Coming(k) = {} /\ socket[k].chan = <<>>
             /\ page'[k].list = Backwards /\ page'[k].read = readRows /\ page'[k].badge = Unread
  <2>1. ReadOne(k)
    BY <1>0, <1>1, <1>3 DEF TrueInv, TrueOf, UpToDate, Announced, Delivered, ReadEvery
  <2>2. /\ Coming(k) = {} /\ socket[k].chan = <<>> /\ page'[k].list = Backwards
        /\ page'[k].read = readRows
    BY <1>1, <2>1 DEF ReadOne
  <2>3. Ids(page[k].list) = Ids(rows)
    BY <1>0, <1>1, <2>2, BackwardsIds, NoteTypes
  <2>4. page'[k].badge = Unread
    BY <1>1, <2>2, <2>3 DEF Unread
  <2>5. QED
    BY <2>2, <2>4
<1>4. QED
  BY <1>1, <1>2, <1>3, AnswerKeeps

LEMMA ReadAllAnsweredKeeps ==
    ASSUME NotesInv, NEW k \in Clients, ReadAllAnswered(k)
    PROVE  NotesInv'
<1>0. NotesTypeOK /\ KnownInv /\ TrueInv
  BY DEF NotesInv
<1>1. /\ NotesTypeOK'
      /\ request[k].kind = "readAll" /\ request'[k].kind = "none" /\ request'[k].list = <<>>
      /\ page'[k].list = page[k].list /\ page'[k].got = page[k].got
      /\ page'[k].read = Ids(page[k].list) /\ page'[k].badge = 0
      /\ page'[k].loaded = page[k].loaded
      /\ \A j \in Clients : j # k => request'[j] = request[j] /\ page'[j] = page[j]
      /\ UNCHANGED <<rows, readRows, publisher, registered, socket, disturbed>>
  BY <1>0, ReadAllAnsweredDoes
<1>2. Once(page'[k].list) /\ Ids(page'[k].list) \subseteq Issued
  BY <1>0, <1>1 DEF KnownInv, KnownTo
<1>3. ASSUME k \notin disturbed, page'[k].loaded
      PROVE  /\ Coming(k) = {} /\ socket[k].chan = <<>>
             /\ page'[k].list = Backwards /\ page'[k].read = readRows /\ page'[k].badge = Unread
  <2>1. ReadEvery(k)
    BY <1>0, <1>1, <1>3 DEF TrueInv, TrueOf, UpToDate, Announced, Delivered, ReadOne
  <2>2. Coming(k) = {} /\ socket[k].chan = <<>> /\ page'[k].list = Backwards /\ readRows = Ids(rows)
    BY <1>1, <2>1 DEF ReadEvery
  <2>3. Ids(page[k].list) = Ids(rows)
    BY <1>0, <1>1, <2>2, BackwardsIds, NoteTypes
  <2>4. Ids(rows) \ readRows = {}
    BY <2>2
  <2>5. Unread = 0
    BY <2>4, FS_EmptySet DEF Unread
  <2>6. QED
    BY <1>1, <2>2, <2>3, <2>5
<1>4. QED
  BY <1>1, <1>2, <1>3, AnswerKeeps

LEMMA ReadFailsKeeps ==
    ASSUME NotesInv, NEW k \in Clients, ReadFails(k)
    PROVE  NotesInv'
<1>0. NotesTypeOK /\ KnownInv /\ TrueInv
  BY DEF NotesInv
<1>1. /\ NotesTypeOK'
      /\ request[k].kind = "read" /\ request[k].note \cap Ids(rows) = {}
      /\ request'[k].kind = "none" /\ request'[k].list = <<>>
      /\ \A j \in Clients : j # k => request'[j] = request[j]
      /\ UNCHANGED <<rows, readRows, publisher, registered, socket, page, disturbed>>
  BY <1>0, ReadFailsDoes
<1>2. Once(page'[k].list) /\ Ids(page'[k].list) \subseteq Issued
  BY <1>0, <1>1 DEF KnownInv, KnownTo
\* The rows did not change under an undisturbed page that waits, so its row is there.
<1>3. ~(k \notin disturbed /\ page[k].loaded)
  <2>1. k \notin disturbed /\ page[k].loaded => ReadOne(k)
    BY <1>0, <1>1 DEF TrueInv, TrueOf, UpToDate, Announced, Delivered, ReadEvery
  <2>2. QED
    BY <1>1, <2>1 DEF ReadOne
<1>4. QED
  BY <1>1, <1>2, <1>3, AnswerKeeps

LEMMA RefreshFailsKeeps ==
    ASSUME NotesInv, NEW n \in Notes, RefreshFails(n)
    PROVE  NotesInv'
<1>0. NotesTypeOK /\ KnownInv /\ TrueInv /\ DueInv
  BY DEF NotesInv
<1>1. /\ NotesTypeOK'
      /\ publisher[n].pc = "inserted" /\ n \notin Ids(rows) /\ publisher'[n].pc = "done"
      /\ publisher'[n].due = publisher[n].due
      /\ \A m \in Notes : m # n => publisher'[m] = publisher[m]
      /\ UNCHANGED <<rows, readRows, socket, page, request, disturbed>>
  BY <1>0, RefreshFailsDoes
<1>2. KnownInv'
  BY <1>0, <1>1, KnownFrame, KnownStays
\* Something was on its way to every page when the row went.
<1>3. ASSUME NEW k \in Clients \ disturbed'
      PROVE  TrueOf(k)'
  <2>1. TrueOf(k) /\ n \in Coming(k)
    BY <1>0, <1>1, <1>3 DEF TrueInv, Coming
  <2>2. request[k].kind \notin {"list", "fetched"}
    BY <2>1 DEF TrueOf, Loading
  <2>3. ~page[k].loaded
    <3>1. page[k].loaded => Announced(k)
      BY <2>1 DEF TrueOf, UpToDate, Delivered, ReadOne, ReadEvery
    <3>2. Announced(k) => Backwards = <<n>> \o page[k].list
      BY <2>1 DEF Announced, Lacks
    <3>3. Backwards = <<n>> \o page[k].list => n \in Ids(Backwards)
      <4>1. page[k].list \in Seq(Notes) /\ Backwards \in Seq(Notes)
        BY <1>0, NoteTypes, PageFields, BackwardsIs
      <4>2. Len(page[k].list) \in Nat /\ 1 \in 1..Len(page[k].list) + 1
        BY <4>1
      <4>3. /\ Len(<<n>> \o page[k].list) = Len(page[k].list) + 1
            /\ (<<n>> \o page[k].list)[1] = n
        BY <4>1, <4>2, PutFirst
      <4> HIDE DEF Backwards
      <4>4. DOMAIN Backwards = 1..Len(Backwards)
        BY <4>1
      <4>5. QED
        BY <4>2, <4>3, <4>4 DEF Ids
    <3>4. n \notin Ids(Backwards)
      BY <1>0, <1>1, NoteTypes, BackwardsIds
    <3>5. QED
      BY <3>1, <3>2, <3>3, <3>4
  <2>4. QED
    BY <1>1, <2>2, <2>3 DEF TrueOf
<1>4. DueInv'
  BY <1>0, <1>1, DueStays
<1>5. QED
  BY <1>1, <1>2, <1>3, <1>4 DEF NotesInv, TrueInv

LEMMA DeleteNoteKeeps ==
    ASSUME NotesInv, NEW k \in Clients, NEW n \in Notes, DeleteNote(k, n)
    PROVE  NotesInv'
<1>0. NotesTypeOK /\ KnownInv /\ TrueInv /\ DueInv
  BY DEF NotesInv
<1>1. /\ NotesTypeOK'
      /\ Once(rows') /\ Ids(rows') = Ids(rows) \ {n} /\ readRows' = readRows \ {n}
      /\ \A c \in Clients \ disturbed' : c \notin disturbed /\ ~OnItsWay(c) /\ ~page[c].loaded
      /\ UNCHANGED <<publisher, registered, socket, page, request>>
  BY <1>0, DeleteNoteDoes
<1>2. KnownInv'
  <2>1. Issued' = Issued
    BY <1>1 DEF Issued
  <2>2. readRows' \subseteq Ids(rows') /\ Ids(rows') \subseteq Issued'
    BY <1>0, <1>1, <2>1 DEF KnownInv
  <2>3. \A c \in Clients : KnownTo(c)'
    BY <1>0, <1>1, KnownFrame
  <2>4. QED
    BY <1>1, <2>2, <2>3 DEF KnownInv
<1>3. ASSUME NEW c \in Clients \ disturbed'
      PROVE  TrueOf(c)'
  <2>1. request[c].kind = "none" /\ ~page[c].loaded
    BY <1>1, <1>3, WayIs
  <2>2. QED
    BY <1>1, <2>1 DEF TrueOf
<1>4. DueInv'
  BY <1>0, <1>1, DueStays
<1>5. QED
  BY <1>1, <1>2, <1>3, <1>4 DEF NotesInv, TrueInv

LEMMA ReadKeeps ==
    ASSUME NotesInv, NEW k \in Clients, ReadAllNotes(k) \/ \E n \in Notes : ReadNote(k, n)
    PROVE  NotesInv'
<1>0. NotesTypeOK /\ KnownInv /\ TrueInv /\ DueInv
  BY DEF NotesInv
<1>1. /\ NotesTypeOK'
      /\ readRows' \subseteq Ids(rows)
      /\ request'[k].list = request[k].list
      /\ \A j \in Clients : j # k => request'[j] = request[j] /\ j \in disturbed'
      /\ k \notin disturbed' => k \notin disturbed /\ ~OnItsWay(k)
      /\ UNCHANGED <<rows, publisher, registered, socket, page>>
      /\ \/ request'[k].kind = "readAll" /\ readRows' = Ids(rows)
         \/ /\ request'[k].kind = "read"
            /\ request'[k].note \cap Ids(rows) # {}
            /\ readRows' = readRows \cup (request'[k].note \cap Ids(page[k].list))
  <2>1. CASE ReadAllNotes(k)
    BY <1>0, <2>1, ReadAllDoes
  <2>2. ASSUME NEW n \in Notes, ReadNote(k, n)
        PROVE  /\ NotesTypeOK'
               /\ readRows' \subseteq Ids(rows)
               /\ request'[k].list = request[k].list
               /\ \A j \in Clients : j # k => request'[j] = request[j] /\ j \in disturbed'
               /\ k \notin disturbed' => k \notin disturbed /\ ~OnItsWay(k)
               /\ UNCHANGED <<rows, publisher, registered, socket, page>>
               /\ request'[k].kind = "read" /\ request'[k].note \cap Ids(rows) # {}
               /\ readRows' = readRows \cup (request'[k].note \cap Ids(page[k].list))
    <3>1. /\ NotesTypeOK'
          /\ n \in Ids(page[k].list) /\ n \in Ids(rows) /\ readRows' = readRows \cup {n}
          /\ request'[k].kind = "read" /\ request'[k].note = {n} /\ request'[k].list = request[k].list
          /\ \A j \in Clients : j # k => request'[j] = request[j] /\ j \in disturbed'
          /\ k \notin disturbed' => k \notin disturbed /\ ~OnItsWay(k)
          /\ UNCHANGED <<rows, publisher, registered, socket, page>>
      BY <1>0, <2>2, ReadDoes
    <3>2. readRows \subseteq Ids(rows)
      BY <1>0 DEF KnownInv
    <3>3. {n} \cap Ids(page[k].list) = {n} /\ {n} \cap Ids(rows) # {}
      BY <3>1
    <3>4. QED
      BY <3>1, <3>2, <3>3
  <2>3. QED
    BY <2>1, <2>2
<1>2. KnownInv'
  <2>0. Issued' = Issued
    BY <1>1 DEF Issued
  <2>1. KnownTo(k)'
    BY <1>0, <1>1, <2>0 DEF KnownInv, KnownTo
  <2>2. \A j \in Clients : j # k => KnownTo(j)'
    BY <1>0, <1>1, KnownFrame
  <2>3. \A j \in Clients : KnownTo(j)'
    BY <2>1, <2>2
  <2>4. QED
    BY <1>0, <1>1, <2>0, <2>3 DEF KnownInv
<1>3. ASSUME NEW j \in Clients \ disturbed'
      PROVE  TrueOf(j)'
  <2>1. j = k /\ TrueOf(k) /\ Coming(k) = {} /\ socket[k].chan = <<>> /\ request[k].kind = "none"
    BY <1>0, <1>1, <1>3, WayIs DEF TrueInv
  <2>2. CASE ~page[k].loaded
    BY <1>1, <2>1, <2>2 DEF TrueOf
  <2>3. CASE page[k].loaded
    <3>1. page[k].list = Backwards /\ page[k].read = readRows
      BY <2>1, <2>3 DEF TrueOf, UpToDate, Announced, Delivered, ReadOne, ReadEvery
    <3>2. Coming(k)' = {} /\ Backwards' = Backwards
      BY <1>1, <2>1 DEF Coming, Backwards
    <3>3. ReadOne(k)' \/ ReadEvery(k)'
      BY <1>1, <2>1, <3>1, <3>2 DEF ReadOne, ReadEvery
    <3>4. QED
      BY <1>1, <2>1, <3>3 DEF TrueOf
  <2>4. QED
    BY <2>2, <2>3
<1>4. DueInv'
  BY <1>0, <1>1, DueStays
<1>5. QED
  BY <1>1, <1>2, <1>3, <1>4 DEF NotesInv, TrueInv

LEMMA NotesInitially == NotesInit => NotesInv
<1> SUFFICES ASSUME NotesInit
             PROVE  NotesInv
  OBVIOUS
<1>1. /\ \A n \in Notes : publisher[n] = NewPublisher
      /\ \A k \in Clients : /\ socket[k] = [up |-> FALSE, chan |-> <<>>]
                            /\ page[k] = NewPage /\ request[k] = NewRequest
      /\ rows = <<>> /\ readRows = {} /\ disturbed = {}
  BY DEF NotesInit
<1>2. NotesTypeOK
  <2>1. NewPublisher \in PublisherStates /\ NewPage \in Pages /\ NewRequest \in Requests
        /\ [up |-> FALSE, chan |-> <<>>] \in Sockets
    BY DEF NewPublisher, PublisherStates, NewPage, Pages, NewRequest, Requests, Sockets
  <2>2. left \in [Clients -> Bounds]
    BY NotesAssumption DEF NotesInit, Bounds
  <2>3. rows \in Seq(Notes) /\ readRows \subseteq Notes /\ registered \subseteq Clients /\ disturbed \subseteq Clients
    BY DEF NotesInit
  <2>4. /\ publisher \in [Notes -> PublisherStates] /\ socket \in [Clients -> Sockets]
        /\ page \in [Clients -> Pages] /\ request \in [Clients -> Requests]
    BY <2>1 DEF NotesInit
  <2>5. QED
    BY <2>2, <2>3, <2>4, NoteTypesAre
<1>3. Ids(<<>>) = {} /\ Once(<<>>)
  BY DEF Ids, Once
<1>4. KnownInv
  BY <1>1, <1>3 DEF KnownInv, KnownTo, NewPublisher, NewPage, NewRequest
<1>5. TrueInv
  BY <1>1 DEF TrueInv, TrueOf, NewPage, NewRequest
<1>6. DueInv
  BY <1>1 DEF DueInv, NewPublisher
<1>7. QED
  BY <1>2, <1>4, <1>5, <1>6 DEF NotesInv

LEMMA NotesStep == NotesInv /\ [NotesNext]_notesVars => NotesInv'
<1> SUFFICES ASSUME NotesInv, [NotesNext]_notesVars
             PROVE  NotesInv'
  OBVIOUS
<1>1. ASSUME NEW n \in Notes, Insert(n) \/ Announce(n)
      PROVE  NotesInv'
  BY <1>1, InsertKeeps, CountAndSnapshotKeeps, SendKeeps, FinishBroadcastKeeps, RefreshFailsKeeps DEF Announce
<1>2. ASSUME NEW k \in Clients,
             \/ Connect(k) \/ LoseConnection(k) \/ UnregisterSocket(k) \/ Receive(k)
             \/ FetchRows(k) \/ Answer(k) \/ ReadAllNotes(k)
             \/ \E n \in Notes : ReadNote(k, n) \/ DeleteNote(k, n)
      PROVE  NotesInv'
  BY <1>2, ConnectionKeeps, ReceiveKeeps, FetchRowsKeeps, FetchCountKeeps, FetchedKeeps,
     ReadAnsweredKeeps, ReadFailsKeeps, ReadAllAnsweredKeeps, ReadKeeps, DeleteNoteKeeps DEF Answer
<1>3. CASE UNCHANGED notesVars
  <2>1. UNCHANGED <<rows, readRows, publisher, registered, socket, page, request, left, disturbed>>
    BY <1>3 DEF notesVars
  <2>2. NotesTypeOK'
    BY <2>1 DEF NotesInv, NotesTypeOK
  <2>3. KnownInv'
    BY <2>1, KnownFrame, KnownStays DEF NotesInv
  <2>4. TrueInv'
    BY <2>1, QuietFrame DEF NotesInv, TrueInv
  <2>5. DueInv'
    BY <2>1, DueStays DEF NotesInv
  <2>6. QED
    BY <2>2, <2>3, <2>4, <2>5 DEF NotesInv
<1>4. QED
  BY <1>1, <1>2, <1>3 DEF NotesNext

\* The notifications, the pages and what is on its way between them keep their types:
\* the badge is never negative, and a list has only notifications.
THEOREM NotesTypes == NotesSpec => []NotesTypeOK
<1>1. NotesInv => NotesTypeOK
  BY DEF NotesInv
<1>2. QED
  BY <1>1, NotesInitially, NotesStep, PTL DEF NotesSpec

\* However many pages connect, drop and come back while however many notifications are
\* broadcast, and whichever sockets raise, each page of the snapshot that keeps its
\* connection is told of the notification, or its event is on the connection
\* (RealtimeEventManager.broadcast of realtime_events.py, handleTaskNotificationEvent).
THEOREM EverybodyIsTold == NotesSpec => []OnlineIsTold
<1>1. NotesInv => OnlineIsTold
  BY DEF NotesInv, DueInv, Told, OnlineIsTold
<1>2. QED
  BY <1>1, NotesInitially, NotesStep, PTL DEF NotesSpec

\* A page that loaded, and was not disturbed since, shows the rows, which of them are
\* read and how many are not, whenever nothing is on its way to it; for any number of
\* pages and notifications, whatever the limit of a list (stores/chat/notifications.ts).
\* Rows go with their task and come to be read elsewhere: a page that is not told of it
\* is disturbed.
THEOREM PagesAreTrue == NotesSpec => []UndisturbedPageIsTrue
<1>1. NotesInv => UndisturbedPageIsTrue
  <2> SUFFICES ASSUME NotesInv, NEW k \in Clients \ disturbed, page[k].loaded, ~OnItsWay(k)
               PROVE  page[k].list = Backwards /\ page[k].read = readRows /\ page[k].badge = Unread
    BY DEF UndisturbedPageIsTrue, Backwards
  <2>1. TrueOf(k) /\ Coming(k) = {} /\ socket[k].chan = <<>> /\ request[k].kind = "none"
    BY WayIs DEF NotesInv, TrueInv
  <2>2. UpToDate(k)
    BY <2>1 DEF TrueOf, Announced, Delivered, ReadOne, ReadEvery
  <2>3. QED
    BY <2>2 DEF UpToDate
<1>2. QED
  BY <1>1, NotesInitially, NotesStep, PTL DEF NotesSpec

-----------------------------------------------------------------------------
(* The services put together.                                               *)

\* Each service behaves among the others as it does alone: one of them moves, the
\* variables of the others stay.
THEOREM ServicesCompose ==
    ServicesSpec => /\ RuntimesSpec /\ NotesSpec /\ AttachmentsSpec
                    /\ RagSpec /\ SkillStoreSpec /\ ToolEventsSpec
<1>1. ServicesInit => /\ RuntimesInit /\ NotesInit /\ AttachmentsInit
                      /\ RagInit /\ SkillStoreInit /\ ToolEventsInit
  BY DEF ServicesInit
<1>2. [ServicesNext]_servicesVars =>
         /\ [RuntimesNext]_runtimesVars /\ [NotesNext]_notesVars
         /\ [AttachmentsNext]_attachmentsVars /\ [RagNext]_ragVars
         /\ [SkillStoreNext]_skillStoreVars /\ [ToolEventsNext]_toolEventsVars
  BY DEF ServicesNext, servicesVars
<1>3. QED
  BY <1>1, <1>2, PTL DEF ServicesSpec, RuntimesSpec, NotesSpec, AttachmentsSpec, RagSpec,
                         SkillStoreSpec, ToolEventsSpec

\* Every variable of every service keeps its type, whichever of them moves.
THEOREM ServicesTypes == ServicesSpec => []ServicesTypeOK
<1>1. RuntimesTypeOK /\ NotesTypeOK /\ AttachmentsTypeOK /\ RagTypeOK /\ SkillStoreTypeOK /\ ToolEventsTypeOK
      => ServicesTypeOK
  BY DEF ServicesTypeOK
<1>2. QED
  BY <1>1, ServicesCompose, RuntimesTypes, NotesTypes, AttachmentTypes, RagTypes, SkillStoreTypes,
     ToolEventsTypes, PTL

\* What is proved of each service alone holds of all of them together: the safety
\* properties that run services checks.
THEOREM ServicesHold ==
    ServicesSpec => [](/\ CachedIsOnOpenStore /\ NobodyIsForgotten
                       /\ UndisturbedPageIsTrue /\ OnlineIsTold
                       /\ FilesMatchRows /\ IndexIsTrue
                       /\ LockIsNotAhead /\ SelfUpgradeIsRetried
                       /\ ResultsKeepTheirInput)
BY ServicesCompose, CachedOnOpenStore, NobodyForgotten, PagesAreTrue, EverybodyIsTold, FilesAndRowsMatch,
   IndexTrue, LockStaysBehind, UpgradeIsRetried, InputsAreKept, PTL
===============================================================================
