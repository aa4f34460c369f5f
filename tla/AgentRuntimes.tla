---------------------------- MODULE AgentRuntimes ----------------------------
(***************************************************************************)
(* The cache of agent runtimes, backend/agent_manager.py, over the MCP       *)
(* configuration, backend/services/mcp_registry.py, as the routes of         *)
(* backend/api/routers/mcp.py change it.                                     *)
(*                                                                         *)
(* A caller is a coroutine: a chat turn or a task run that asks for a        *)
(* runtime, a PUT of the configuration, or a test of a server.  It yields    *)
(* where it waits for a lock, for the SQLite connections to open, or for an  *)
(* MCP server to list its tools; an asyncio.Lock is first-in first-out and   *)
(* taken without yielding when it is free.                                   *)
(***************************************************************************)
EXTENDS Naturals, Sequences, FiniteSets

CONSTANTS
    Agents,    \* profiles
    Servers,   \* names of MCP servers
    Callers,   \* coroutines
    MaxEpoch,  \* bound on the changes: configurations saved and tests passed
    MaxCloses  \* bound on close()

ASSUME RuntimesAssumption ==
    Agents # {} /\ Servers # {} /\ MaxEpoch \in Nat \ {0} /\ MaxCloses \in Nat

VARIABLES
    file,      \* mcp.json: which servers it defines, which ones an agent uses
    epochNow,  \* history: counts saved configurations and passed tests
    answered,  \* history: the latest of those whose request was answered
    tested,    \* _test_states of the routes' registry
    stack,     \* _resource_stack, with _llm and the two SQLite stores
    closes,    \* how often close() has finished; names the connections
    torn,      \* history: a runtime was being built when close() finished
    initLock,  \* _init_lock: its holder, then the waiters
    lock,      \* _runtime_lock: its holder, then the waiters
    runtimes,  \* _runtimes
    caller     \* the coroutines

configVars == <<file, epochNow, answered, tested>>
storeVars == <<stack, closes, torn, initLock>>
runtimesVars == <<file, epochNow, answered, tested, stack, closes, torn, initLock,
                  lock, runtimes, caller>>

-----------------------------------------------------------------------------
(* A runtime knows the configuration it was built from, the servers that gave *)
(* it tools, and the SQLite connections it was built on: 0 for None.         *)

Configs == [ver: 1..MaxEpoch, defined: SUBSET Servers, uses: [Agents -> SUBSET Servers]]
Runtimes == [ver: 0..MaxEpoch, tools: SUBSET Servers, conn: 0..(MaxCloses + 1)]
NoRuntime == [ver |-> 0, tools |-> {}, conn |-> 0]

Waiting == {"init", "opening", "queued", "building", "clearing", "testing"}

\* floor: what was answered when the caller asked for a runtime; epoch, wants:
\* what the caller read; got: what it was given.
CallerStates == [pc: {"idle", "returned"} \cup Waiting, agent: Agents, server: Servers,
                 floor: 0..MaxEpoch, epoch: 0..MaxEpoch, wants: SUBSET Servers, got: Runtimes]
NewCaller == [pc |-> "idle", agent |-> CHOOSE a \in Agents : TRUE,
              server |-> CHOOSE s \in Servers : TRUE, floor |-> 0, epoch |-> 0,
              wants |-> {}, got |-> NoRuntime]
Idle(x) == [x EXCEPT !.pc = "idle", !.floor = 0, !.epoch = 0, !.wants = {}, !.got = NoRuntime]

RuntimesTypeOK ==
    /\ file \in Configs
    /\ epochNow \in 1..MaxEpoch /\ answered \in 1..MaxEpoch
    /\ tested \in [Servers -> {"untested", "ok", "error"}]
    /\ stack \in {"open", "closing", "closed"}
    /\ closes \in 0..MaxCloses
    /\ torn \in BOOLEAN
    /\ initLock \in Seq(Callers) /\ lock \in Seq(Callers)
    /\ runtimes \in [Agents -> Runtimes]
    /\ caller \in [Callers -> CallerStates]

RuntimesInit ==
    /\ file = [ver |-> 1, defined |-> {}, uses |-> [a \in Agents |-> {}]]
    /\ epochNow = 1 /\ answered = 1
    /\ tested = [s \in Servers |-> "untested"]
    /\ stack = "open" /\ closes = 0 /\ torn = FALSE
    /\ initLock = <<>> /\ lock = <<>>
    /\ runtimes = [a \in Agents |-> NoRuntime]
    /\ caller = [c \in Callers |-> NewCaller]

-----------------------------------------------------------------------------
(* Locks and the stores.                                                     *)

Holds(c, q) == q # <<>> /\ Head(q) = c

\* The connections a runtime is built on now.
Connection == IF stack = "closed" THEN 0 ELSE closes + 1

\* x, given runtime r.
Given(x, r) == [x EXCEPT !.pc = "returned", !.got = r, !.epoch = 0, !.wants = {}]

\* Mutated form: the second look at the cache is missing.
Enter_NoSecondLook(x, stores) ==
    IF stores = "closed" THEN Idle(x)
    ELSE [x EXCEPT !.pc = "building", !.epoch = epochNow, !.wants = file.uses[x.agent]]

\* What a caller does once it holds the runtime lock: it finds a runtime that was
\* built meanwhile, or the stores closed, or it starts to load the tools.
Enter(x, stores) ==
    CASE runtimes[x.agent] # NoRuntime -> Given(x, runtimes[x.agent])
      [] runtimes[x.agent] = NoRuntime /\ stores = "closed" -> Idle(x)
      [] OTHER -> [x EXCEPT !.pc = "building", !.epoch = epochNow,
                            !.wants = file.uses[x.agent]]

\* get_runtime after init: the cache, or the queue for the lock, or the lock.
Lookup(c, x, stores) ==
    LET y == Enter(x, stores)
    IN  CASE runtimes[x.agent] # NoRuntime ->
               caller' = [caller EXCEPT ![c] = Given(x, runtimes[x.agent])] /\ UNCHANGED lock
          [] runtimes[x.agent] = NoRuntime /\ lock # <<>> ->
               /\ caller' = [caller EXCEPT ![c] = [x EXCEPT !.pc = "queued"]]
               /\ lock' = Append(lock, c)
          [] OTHER -> /\ caller' = [caller EXCEPT ![c] = y]
                      /\ lock' = IF y.pc = "building" THEN <<c>> ELSE lock

Free(c) == caller[c].pc \in {"idle", "returned"}

\* get_runtime(agent): with the connections open and nobody opening them, init
\* returns at once.
GetRuntime(c, a) ==
    LET x == [Idle(caller[c]) EXCEPT !.agent = a, !.floor = answered]
    IN  /\ Free(c)
        /\ IF initLock # <<>>
           THEN /\ caller' = [caller EXCEPT ![c] = [x EXCEPT !.pc = "init"]]
                /\ initLock' = Append(initLock, c)
                /\ UNCHANGED lock
           ELSE IF stack = "closed"
           THEN /\ caller' = [caller EXCEPT ![c] = [x EXCEPT !.pc = "opening"]]
                /\ initLock' = <<c>>
                /\ UNCHANGED lock
           ELSE Lookup(c, x, stack) /\ UNCHANGED initLock
        /\ UNCHANGED <<configVars, stack, closes, torn, runtimes>>

\* init with its lock: somebody else has opened the connections, or it is our turn.
InitLocked(c) ==
    /\ caller[c].pc = "init" /\ Holds(c, initLock)
    /\ IF stack = "closed"
       THEN /\ caller' = [caller EXCEPT ![c].pc = "opening"]
            /\ UNCHANGED <<initLock, lock>>
       ELSE Lookup(c, caller[c], stack) /\ initLock' = Tail(initLock)
    /\ UNCHANGED <<configVars, stack, closes, torn, runtimes>>

\* The checkpointer and the store open, or raise.
Opened(c) ==
    /\ caller[c].pc = "opening"
    /\ stack' = "open"
    /\ initLock' = Tail(initLock)
    /\ Lookup(c, caller[c], "open")
    /\ UNCHANGED <<configVars, closes, torn, runtimes>>

\* Mutated form: the lock is not released when the stores do not open.
OpenFails_KeepsLock(c) ==
    /\ caller[c].pc = "opening"
    /\ caller' = [caller EXCEPT ![c] = Idle(@)]
    /\ UNCHANGED <<configVars, stack, closes, torn, initLock, lock, runtimes>>

OpenFails(c) ==
    /\ caller[c].pc = "opening"
    /\ initLock' = Tail(initLock)
    /\ caller' = [caller EXCEPT ![c] = Idle(@)]
    /\ UNCHANGED <<configVars, stack, closes, torn, lock, runtimes>>

\* get_runtime with the runtime lock.
GetLocked(c) ==
    LET y == Enter(caller[c], stack)
    IN  /\ caller[c].pc = "queued" /\ Holds(c, lock)
        /\ caller' = [caller EXCEPT ![c] = y]
        /\ lock' = IF y.pc = "building" THEN lock ELSE Tail(lock)
        /\ UNCHANGED <<configVars, storeVars, runtimes>>

\* A prompt file is missing, close() took the model that the subagents need, or the
\* caller was cancelled: nothing is cached.
BuildFails(c) ==
    /\ caller[c].pc = "building"
    /\ caller' = [caller EXCEPT ![c] = Idle(@)]
    /\ lock' = Tail(lock)
    /\ UNCHANGED <<configVars, storeVars, runtimes>>

\* The servers have listed their tools, or failed to: the runtime is built on the
\* connections of this moment and cached.
Built(c) ==
    /\ caller[c].pc = "building"
    /\ \E tools \in SUBSET caller[c].wants :
          LET r == [ver |-> caller[c].epoch, tools |-> tools, conn |-> Connection]
          IN  /\ runtimes' = [runtimes EXCEPT ![caller[c].agent] = r]
              /\ caller' = [caller EXCEPT ![c] = Given(@, r)]
    /\ lock' = Tail(lock)
    /\ UNCHANGED <<configVars, storeVars>>

-----------------------------------------------------------------------------
(* The routes.                                                               *)

NoRuntimes == [a \in Agents |-> NoRuntime]

\* Mutated form: the cache is cleared without its lock.
Invalidate_NoLock(c, e) ==
    /\ runtimes' = NoRuntimes
    /\ answered' = e
    /\ caller' = [caller EXCEPT ![c] = Idle(@)]
    /\ UNCHANGED lock

\* invalidate_runtime_cache for change e: at once, or in the queue for the lock.
Invalidate(c, e) ==
    IF lock = <<>>
    THEN /\ runtimes' = NoRuntimes
         /\ answered' = e
         /\ caller' = [caller EXCEPT ![c] = Idle(@)]
         /\ UNCHANGED lock
    ELSE /\ lock' = Append(lock, c)
         /\ caller' = [caller EXCEPT ![c] = [Idle(@) EXCEPT !.pc = "clearing", !.epoch = e]]
         /\ UNCHANGED <<runtimes, answered>>

\* PUT /mcp/config: the file is written and the test results are forgotten.
SaveConfig(c) ==
    /\ Free(c)
    /\ epochNow < MaxEpoch
    /\ epochNow' = epochNow + 1
    /\ \E defined \in SUBSET Servers : \E uses \in [Agents -> SUBSET defined] :
          file' = [ver |-> epochNow + 1, defined |-> defined, uses |-> uses]
    /\ tested' = [s \in Servers |-> "untested"]
    /\ Invalidate(c, epochNow + 1)
    /\ UNCHANGED storeVars

\* The rest of a request that waited for the lock.
Clear(c) ==
    /\ caller[c].pc = "clearing" /\ Holds(c, lock)
    /\ runtimes' = NoRuntimes
    /\ answered' = IF caller[c].epoch > answered THEN caller[c].epoch ELSE answered
    /\ caller' = [caller EXCEPT ![c] = Idle(@)]
    /\ lock' = Tail(lock)
    /\ UNCHANGED <<file, epochNow, tested, storeVars>>

\* POST /mcp/servers/{name}/test: the server is asked for its tools.
TestServer(c, s) ==
    /\ Free(c)
    /\ s \in file.defined
    /\ caller' = [caller EXCEPT ![c] = [Idle(@) EXCEPT !.pc = "testing", !.server = s]]
    /\ UNCHANGED <<configVars, storeVars, lock, runtimes>>

\* The result is kept for the name of the server, whatever the configuration has
\* become; only a passed test clears the cache.
Tested(c) ==
    /\ caller[c].pc = "testing"
    /\ \/ /\ tested' = [tested EXCEPT ![caller[c].server] = "error"]
          /\ caller' = [caller EXCEPT ![c] = Idle(@)]
          /\ UNCHANGED <<epochNow, answered, lock, runtimes>>
       \/ /\ epochNow < MaxEpoch
          /\ tested' = [tested EXCEPT ![caller[c].server] = "ok"]
          /\ epochNow' = epochNow + 1
          /\ Invalidate(c, epochNow + 1)
    /\ UNCHANGED <<file, storeVars>>

-----------------------------------------------------------------------------
(* close(), at shutdown; turns that nobody cancelled may still run.          *)

StartClose ==
    /\ stack = "open" /\ closes < MaxCloses
    /\ stack' = "closing"
    /\ UNCHANGED <<configVars, closes, torn, initLock, lock, runtimes, caller>>

\* Mutated form: the runtimes are kept.
FinishClose_Keeps ==
    /\ stack = "closing"
    /\ stack' = "closed"
    /\ closes' = closes + 1
    /\ torn' = (torn \/ \E c \in Callers : caller[c].pc = "building")
    /\ UNCHANGED <<configVars, initLock, lock, runtimes, caller>>

FinishClose ==
    /\ stack = "closing"
    /\ stack' = "closed"
    /\ closes' = closes + 1
    /\ torn' = (torn \/ \E c \in Callers : caller[c].pc = "building")
    /\ runtimes' = NoRuntimes
    /\ UNCHANGED <<configVars, initLock, lock, caller>>

-----------------------------------------------------------------------------

\* A caller that waits goes on.
Resume(c) == InitLocked(c) \/ Opened(c) \/ OpenFails(c) \/ GetLocked(c) \/ Built(c)
             \/ BuildFails(c) \/ Clear(c) \/ Tested(c)

RuntimesNext ==
    \/ \E c \in Callers : \/ \E a \in Agents : GetRuntime(c, a)
                          \/ \E s \in Servers : TestServer(c, s)
                          \/ SaveConfig(c) \/ Resume(c)
    \/ StartClose \/ FinishClose

RuntimesSpec == RuntimesInit /\ [][RuntimesNext]_runtimesVars

-----------------------------------------------------------------------------
(* Properties.                                                               *)

\* Who asks for a runtime after the response to a saved configuration, or to a
\* passed test, gets one that was built after it: the readers of the cache that
\* queue ahead of an invalidation are no exception, because they asked earlier.
FreshAbstract ==
    INSTANCE FreshReads WITH
        Readers <- Callers, epoch <- epochNow, acked <- answered,
        reader <- [c \in Callers |->
            [phase |-> CASE caller[c].pc = "returned" -> "returned"
                         [] caller[c].pc \in {"init", "opening", "queued", "building"} -> "reading"
                         [] OTHER -> "idle",
             floor |-> caller[c].floor, got |-> caller[c].got.ver]]
RuntimesAreFresh == FreshAbstract!Spec

\* Between two invalidations an agent is built once: who found no runtime and
\* waited for the lock gets the one that was built meanwhile.
RuntimeIsShared ==
    [][\A a \in Agents : runtimes[a] # NoRuntime /\ runtimes'[a] # NoRuntime
                         => runtimes'[a] = runtimes[a]]_runtimesVars

\* A cached runtime talks to the SQLite connections that are open, unless it was
\* being built when the others were closed.
CachedIsOnOpenStore ==
    stack = "open" /\ ~torn =>
        \A a \in Agents : runtimes[a] # NoRuntime => runtimes[a].conn = Connection

\* Nobody waits for a lock that nobody will release: who waits is queued, once, and
\* who is at the head is doing what the lock is for or is about to go on.
NobodyIsForgotten ==
    \A c \in Callers :
        /\ Cardinality({i \in DOMAIN lock : lock[i] = c}) =
               IF caller[c].pc \in {"queued", "building", "clearing"} THEN 1 ELSE 0
        /\ Cardinality({i \in DOMAIN initLock : initLock[i] = c}) =
               IF caller[c].pc \in {"init", "opening"} THEN 1 ELSE 0
        /\ caller[c].pc = "building" => Head(lock) = c
        /\ caller[c].pc = "opening" => Head(initLock) = c
=============================================================================
