------------------------- MODULE AgentRuntimes_proofs -------------------------
(***************************************************************************)
(* Proofs about AgentRuntimes for every set of agents, servers and callers *)
(* and every bound.                                                        *)
(***************************************************************************)
EXTENDS AgentRuntimes, FiniteSetTheorems, TLAPS

-----------------------------------------------------------------------------
(* The queue of an asyncio.Lock.  waiting: who is in it; working: who runs   *)
(* under the lock.                                                          *)

Queue(q, waiting, working) ==
    /\ \A c \in waiting : \E i \in DOMAIN q : q[i] = c
    /\ \A i \in DOMAIN q : q[i] \in waiting
    /\ \A i, j \in DOMAIN q : q[i] = q[j] => i = j
    /\ \A c \in working : q # <<>> /\ Head(q) = c

\* Who asks for the lock is last in the queue.
LEMMA QueueJoin ==
    ASSUME NEW S, NEW q \in Seq(S), NEW waiting, NEW working, Queue(q, waiting, working),
           NEW c \in S, c \notin waiting, q # <<>>
    PROVE  Queue(Append(q, c), waiting \cup {c}, working)
<1> DEFINE r == Append(q, c)
<1>1. r \in Seq(S) /\ DOMAIN q = 1..Len(q) /\ DOMAIN r = 1..(Len(q) + 1) /\ Len(q) \in Nat \ {0}
      /\ r[Len(q) + 1] = c /\ \A i \in 1..Len(q) : r[i] = q[i]
  OBVIOUS
<1>2. \A d \in waiting \cup {c} : \E i \in DOMAIN r : r[i] = d
  BY <1>1 DEF Queue
<1>3. \A i \in DOMAIN r : r[i] \in waiting \cup {c}
  BY <1>1 DEF Queue
<1>4. \A i, j \in DOMAIN r : r[i] = r[j] => i = j
  BY <1>1 DEF Queue
<1>5. r # <<>> /\ Head(r) = Head(q)
  BY <1>1
<1>6. QED
  BY <1>2, <1>3, <1>4, <1>5 DEF Queue

\* A free lock is taken at once.
LEMMA QueueTake ==
    ASSUME NEW waiting, NEW working, Queue(<<>>, waiting, working), NEW c
    PROVE  Queue(<<c>>, waiting \cup {c}, working \cup {c})
<1>1. DOMAIN <<>> = {}
  OBVIOUS
<1>2. waiting = {} /\ working = {}
  BY <1>1 DEF Queue
<1>3. <<c>> # <<>> /\ Head(<<c>>) = c /\ DOMAIN <<c>> = {1} /\ <<c>>[1] = c
  OBVIOUS
<1>4. QED
  BY <1>2, <1>3 DEF Queue

\* The holder gives the lock to the next one, who has not gone on yet.
LEMMA QueueLeave ==
    ASSUME NEW S, NEW q \in Seq(S), NEW waiting, NEW working, Queue(q, waiting, working),
           NEW c, Holds(c, q)
    PROVE  Queue(Tail(q), waiting \ {c}, working \ {c}) /\ working \ {c} = {}
<1> DEFINE r == Tail(q)
<1>1. q # <<>> /\ q[1] = c /\ DOMAIN q = 1..Len(q) /\ Len(q) \in Nat \ {0}
  BY DEF Holds
<1>2. r \in Seq(S) /\ DOMAIN r = 1..(Len(q) - 1) /\ \A i \in DOMAIN r : r[i] = q[i + 1]
  BY <1>1
<1>3. \A d \in waiting \ {c} : \E i \in DOMAIN r : r[i] = d
  <2>1. ASSUME NEW d \in waiting, d # c PROVE \E i \in DOMAIN r : r[i] = d
    <3>1. PICK i \in DOMAIN q : q[i] = d
      BY <2>1 DEF Queue
    <3>2. i - 1 \in DOMAIN r /\ r[i - 1] = d
      BY <1>1, <1>2, <2>1, <3>1
    <3>3. QED
      BY <3>2
  <2>2. QED
    BY <2>1
<1>4. \A i \in DOMAIN r : r[i] \in waiting \ {c}
  BY <1>1, <1>2 DEF Queue
<1>5. \A i, j \in DOMAIN r : r[i] = r[j] => i = j
  BY <1>1, <1>2 DEF Queue
<1>6. working \ {c} = {}
  BY DEF Queue, Holds
<1>7. QED
  BY <1>3, <1>4, <1>5, <1>6 DEF Queue

\* The holder begins its work.
LEMMA QueueWork ==
    ASSUME NEW q, NEW waiting, NEW working, Queue(q, waiting, working),
           NEW c \in waiting, Holds(c, q)
    PROVE  Queue(q, waiting \cup {c}, working \cup {c})
<1>1. waiting \cup {c} = waiting
  OBVIOUS
<1>2. QED
  BY <1>1 DEF Queue, Holds

\* Everybody in the queue is in it once.
LEMMA QueueCounts ==
    ASSUME NEW q, NEW waiting, NEW working, Queue(q, waiting, working), NEW c
    PROVE  Cardinality({i \in DOMAIN q : q[i] = c}) = IF c \in waiting THEN 1 ELSE 0
<1>1. CASE c \in waiting
  <2>1. PICK i \in DOMAIN q : q[i] = c
    BY <1>1 DEF Queue
  <2>2. {j \in DOMAIN q : q[j] = c} = {i}
    BY <2>1 DEF Queue
  <2>3. QED
    BY <1>1, <2>2, FS_Singleton
<1>2. CASE c \notin waiting
  <2>1. {j \in DOMAIN q : q[j] = c} = {}
    BY <1>2 DEF Queue
  <2>2. QED
    BY <1>2, <2>1, FS_EmptySet
<1>3. QED
  BY <1>1, <1>2

-----------------------------------------------------------------------------
(* Callers.  The records the steps leave in caller, as operators.            *)

InPhase(P) == {c \in Callers : caller[c].pc \in P}
LockWaits == {"queued", "building", "clearing"}
InitWaits == {"init", "opening"}

At(x, p) == [x EXCEPT !.pc = p]
Asking(x, a) == [Idle(x) EXCEPT !.agent = a, !.floor = answered]
Building(x) == [x EXCEPT !.pc = "building", !.epoch = epochNow, !.wants = file.uses[x.agent]]
Clearing(x, e) == [Idle(x) EXCEPT !.pc = "clearing", !.epoch = e]
Testing(x, s) == [Idle(x) EXCEPT !.pc = "testing", !.server = s]

LEMMA RuntimesConstantTypes ==
    /\ MaxEpoch \in Nat \ {0} /\ MaxCloses \in Nat
    /\ NoRuntime \in Runtimes /\ NewCaller \in CallerStates /\ NoRuntimes \in [Agents -> Runtimes]
<1>1. MaxEpoch \in Nat \ {0} /\ MaxCloses \in Nat
  BY RuntimesAssumption
<1>2. NoRuntime \in Runtimes
  BY <1>1 DEF NoRuntime, Runtimes
<1>3. (CHOOSE a \in Agents : TRUE) \in Agents /\ (CHOOSE s \in Servers : TRUE) \in Servers
  BY RuntimesAssumption
<1>4. NewCaller \in CallerStates
  BY <1>1, <1>2, <1>3 DEF NewCaller, CallerStates
<1>5. QED
  BY <1>1, <1>2, <1>4 DEF NoRuntimes

\* A caller that forgets what it did.
LEMMA IdleShape ==
    ASSUME NEW x \in CallerStates
    PROVE  /\ Idle(x) \in CallerStates
           /\ Idle(x).pc = "idle" /\ Idle(x).floor = 0 /\ Idle(x).got = NoRuntime
           /\ Idle(x).agent = x.agent
<1>1. 0 \in 0..MaxEpoch /\ {} \in SUBSET Servers /\ NoRuntime \in Runtimes
  BY RuntimesConstantTypes
<1>2. Idle(x) \in CallerStates
  BY <1>1 DEF Idle, CallerStates
<1>3. QED
  BY <1>2 DEF Idle, CallerStates

\* A caller that only moves on.
LEMMA AtShape ==
    ASSUME NEW x \in CallerStates, NEW p \in {"idle", "returned"} \cup Waiting
    PROVE  /\ At(x, p) \in CallerStates /\ At(x, p).pc = p /\ At(x, p).floor = x.floor
           /\ At(x, p).got = x.got /\ At(x, p).agent = x.agent /\ At(x, p).epoch = x.epoch
BY DEF At, CallerStates

\* A caller that gets a runtime.
LEMMA GivenShape ==
    ASSUME NEW x \in CallerStates, NEW r \in Runtimes
    PROVE  /\ Given(x, r) \in CallerStates /\ Given(x, r).pc = "returned"
           /\ Given(x, r).floor = x.floor /\ Given(x, r).got = r
<1>1. 0 \in 0..MaxEpoch /\ {} \in SUBSET Servers
  BY RuntimesConstantTypes
<1>2. Given(x, r) \in CallerStates
  BY <1>1 DEF Given, CallerStates
<1>3. QED
  BY <1>2 DEF Given, CallerStates

\* A caller that asks for one.
LEMMA AskingShape ==
    ASSUME RuntimesTypeOK, NEW x \in CallerStates, NEW a \in Agents
    PROVE  /\ Asking(x, a) \in CallerStates /\ Asking(x, a).floor = answered
           /\ Asking(x, a).got = NoRuntime /\ Asking(x, a).agent = a
<1>1. answered \in 0..MaxEpoch
  BY RuntimesConstantTypes DEF RuntimesTypeOK
<1>2. QED
  BY <1>1, IdleShape DEF Asking, CallerStates

\* A caller that builds one.
LEMMA BuildingShape ==
    ASSUME RuntimesTypeOK, NEW x \in CallerStates
    PROVE  /\ Building(x) \in CallerStates /\ Building(x).pc = "building"
           /\ Building(x).epoch = epochNow /\ Building(x).floor = x.floor
           /\ Building(x).got = x.got /\ Building(x).agent = x.agent
<1>1. epochNow \in 0..MaxEpoch
  BY RuntimesConstantTypes DEF RuntimesTypeOK
<1>2. x.agent \in Agents /\ file.uses \in [Agents -> SUBSET Servers]
  BY DEF RuntimesTypeOK, Configs, CallerStates
<1>3. file.uses[x.agent] \in SUBSET Servers
  BY <1>2
<1>4. QED
  BY <1>1, <1>3 DEF Building, CallerStates, Waiting

\* A caller that waits to clear the cache, and one that tests a server.
LEMMA RequestShape ==
    ASSUME NEW x \in CallerStates
    PROVE  /\ \A e \in 0..MaxEpoch :
                /\ Clearing(x, e) \in CallerStates /\ Clearing(x, e).pc = "clearing"
                /\ Clearing(x, e).floor = 0 /\ Clearing(x, e).got = NoRuntime
                /\ Clearing(x, e).epoch = e
           /\ \A s \in Servers :
                /\ Testing(x, s) \in CallerStates /\ Testing(x, s).pc = "testing"
                /\ Testing(x, s).floor = 0 /\ Testing(x, s).got = NoRuntime
<1>1. ASSUME NEW e \in 0..MaxEpoch
      PROVE  /\ Clearing(x, e) \in CallerStates /\ Clearing(x, e).pc = "clearing"
             /\ Clearing(x, e).floor = 0 /\ Clearing(x, e).got = NoRuntime
             /\ Clearing(x, e).epoch = e
  BY IdleShape DEF Clearing, CallerStates, Waiting
<1>2. ASSUME NEW s \in Servers
      PROVE  /\ Testing(x, s) \in CallerStates /\ Testing(x, s).pc = "testing"
             /\ Testing(x, s).floor = 0 /\ Testing(x, s).got = NoRuntime
  BY IdleShape DEF Testing, CallerStates, Waiting
<1>3. QED
  BY <1>1, <1>2

\* What a caller becomes with the runtime lock.
LEMMA EnterShape ==
    ASSUME RuntimesTypeOK, NEW x \in CallerStates, NEW stores
    PROVE  /\ Enter(x, stores) \in CallerStates
           /\ \/ runtimes[x.agent] # NoRuntime /\ Enter(x, stores) = Given(x, runtimes[x.agent])
              \/ /\ runtimes[x.agent] = NoRuntime /\ stores = "closed"
                 /\ Enter(x, stores) = Idle(x)
              \/ /\ runtimes[x.agent] = NoRuntime /\ stores # "closed"
                 /\ Enter(x, stores) = Building(x)
<1>1. runtimes[x.agent] \in Runtimes
  BY DEF RuntimesTypeOK, CallerStates
<1>2. CASE runtimes[x.agent] # NoRuntime
  BY <1>1, <1>2, GivenShape DEF Enter
<1>3. CASE runtimes[x.agent] = NoRuntime /\ stores = "closed"
  BY <1>3, IdleShape DEF Enter
<1>4. CASE runtimes[x.agent] = NoRuntime /\ stores # "closed"
  BY <1>4, BuildingShape DEF Enter, Building
<1>5. QED
  BY <1>2, <1>3, <1>4

\* What get_runtime does once the stores are open: y is the caller after it.
Looked(c, x, stores, y) ==
    \/ runtimes[x.agent] # NoRuntime /\ y = Given(x, runtimes[x.agent]) /\ lock' = lock
    \/ y = At(x, "queued") /\ lock # <<>> /\ lock' = Append(lock, c)
    \/ y = Idle(x) /\ lock' = lock
    \/ /\ runtimes[x.agent] = NoRuntime /\ stores # "closed"
       /\ y = Building(x) /\ lock = <<>> /\ lock' = <<c>>

LEMMA LookupShape ==
    ASSUME RuntimesTypeOK, NEW c \in Callers, NEW x \in CallerStates, NEW stores,
           Lookup(c, x, stores)
    PROVE  \E y \in CallerStates : caller' = [caller EXCEPT ![c] = y] /\ Looked(c, x, stores, y)
<1>1. runtimes[x.agent] \in Runtimes
  BY DEF RuntimesTypeOK, CallerStates
<1>2. CASE runtimes[x.agent] # NoRuntime
  <2>1. caller' = [caller EXCEPT ![c] = Given(x, runtimes[x.agent])] /\ lock' = lock
    BY <1>2 DEF Lookup
  <2>2. QED
    BY <1>1, <1>2, <2>1, GivenShape DEF Looked
<1>3. CASE runtimes[x.agent] = NoRuntime /\ lock # <<>>
  <2>1. caller' = [caller EXCEPT ![c] = At(x, "queued")] /\ lock' = Append(lock, c)
    BY <1>3 DEF Lookup, At
  <2>2. QED
    BY <1>3, <2>1, AtShape DEF Looked, Waiting
<1>4. CASE runtimes[x.agent] = NoRuntime /\ lock = <<>>
  <2> DEFINE y == Enter(x, stores)
  <2>1. caller' = [caller EXCEPT ![c] = y] /\ lock' = IF y.pc = "building" THEN <<c>> ELSE lock
    BY <1>4 DEF Lookup
  <2>2. y \in CallerStates /\ (\/ stores = "closed" /\ y = Idle(x)
                               \/ stores # "closed" /\ y = Building(x))
    BY <1>4, EnterShape
  <2>3. Idle(x).pc # "building" /\ Building(x).pc = "building"
    BY IdleShape, BuildingShape
  <2>4. Looked(c, x, stores, y)
    BY <1>4, <2>1, <2>2, <2>3 DEF Looked
  <2>5. QED
    BY <2>1, <2>2, <2>4
<1>5. QED
  BY <1>2, <1>3, <1>4

-----------------------------------------------------------------------------
(* Steps.  y is the caller c after its step.                                 *)

LEMMA CallerType ==
    ASSUME RuntimesTypeOK, NEW c \in Callers
    PROVE  caller[c] \in CallerStates /\ caller[c].agent \in Agents /\ caller[c].server \in Servers
BY DEF RuntimesTypeOK, CallerStates

LEMMA GetRuntimeShape ==
    ASSUME RuntimesTypeOK, NEW c \in Callers, NEW a \in Agents, GetRuntime(c, a)
    PROVE  /\ Free(c) /\ UNCHANGED <<configVars, stack, closes, torn, runtimes>>
           /\ \E y \in CallerStates :
                /\ caller' = [caller EXCEPT ![c] = y]
                /\ \/ /\ y = At(Asking(caller[c], a), "init")
                      /\ initLock # <<>> /\ initLock' = Append(initLock, c) /\ lock' = lock
                   \/ /\ y = At(Asking(caller[c], a), "opening") /\ stack = "closed"
                      /\ initLock = <<>> /\ initLock' = <<c>> /\ lock' = lock
                   \/ /\ Looked(c, Asking(caller[c], a), stack, y) /\ stack # "closed"
                      /\ initLock' = initLock
<1> DEFINE x == Asking(caller[c], a)
<1>1. caller[c] \in CallerStates /\ x \in CallerStates
  BY CallerType, AskingShape
<1>2. Free(c) /\ UNCHANGED <<configVars, stack, closes, torn, runtimes>>
  BY DEF GetRuntime
<1>3. CASE initLock # <<>>
  BY <1>1, <1>2, <1>3, AtShape DEF GetRuntime, Asking, At, Waiting
<1>4. CASE initLock = <<>> /\ stack = "closed"
  BY <1>1, <1>2, <1>4, AtShape DEF GetRuntime, Asking, At, Waiting
<1>5. CASE initLock = <<>> /\ stack # "closed"
  <2>1. Lookup(c, x, stack) /\ initLock' = initLock
    BY <1>5 DEF GetRuntime, Asking
  <2>2. PICK y \in CallerStates : caller' = [caller EXCEPT ![c] = y] /\ Looked(c, x, stack, y)
    BY <1>1, <2>1, LookupShape
  <2>3. QED
    BY <1>2, <1>5, <2>1, <2>2
<1>6. QED
  BY <1>3, <1>4, <1>5

LEMMA InitLockedShape ==
    ASSUME RuntimesTypeOK, NEW c \in Callers, InitLocked(c)
    PROVE  /\ caller[c].pc = "init" /\ Holds(c, initLock)
           /\ UNCHANGED <<configVars, stack, closes, torn, runtimes>>
           /\ \E y \in CallerStates :
                /\ caller' = [caller EXCEPT ![c] = y]
                /\ \/ /\ y = At(caller[c], "opening") /\ stack = "closed"
                      /\ initLock' = initLock /\ lock' = lock
                   \/ /\ Looked(c, caller[c], stack, y) /\ stack # "closed"
                      /\ initLock' = Tail(initLock)
<1>1. caller[c] \in CallerStates
  BY CallerType
<1>2. caller[c].pc = "init" /\ Holds(c, initLock) /\ UNCHANGED <<configVars, stack, closes, torn, runtimes>>
  BY DEF InitLocked
<1>3. CASE stack = "closed"
  <2>1. caller' = [caller EXCEPT ![c] = At(caller[c], "opening")] /\ initLock' = initLock /\ lock' = lock
    BY <1>3 DEF InitLocked, At
  <2>2. QED
    BY <1>1, <1>2, <1>3, <2>1, AtShape DEF Waiting
<1>4. CASE stack # "closed"
  <2>1. Lookup(c, caller[c], stack) /\ initLock' = Tail(initLock)
    BY <1>4 DEF InitLocked
  <2>2. PICK y \in CallerStates : caller' = [caller EXCEPT ![c] = y] /\ Looked(c, caller[c], stack, y)
    BY <1>1, <2>1, LookupShape
  <2>3. QED
    BY <1>2, <1>4, <2>1, <2>2
<1>5. QED
  BY <1>3, <1>4

LEMMA OpenedShape ==
    ASSUME RuntimesTypeOK, NEW c \in Callers, Opened(c)
    PROVE  /\ caller[c].pc = "opening" /\ stack' = "open" /\ initLock' = Tail(initLock)
           /\ UNCHANGED <<configVars, closes, torn, runtimes>>
           /\ \E y \in CallerStates : caller' = [caller EXCEPT ![c] = y] /\ Looked(c, caller[c], "open", y)
BY CallerType, LookupShape DEF Opened

LEMMA GetLockedShape ==
    ASSUME RuntimesTypeOK, NEW c \in Callers, GetLocked(c)
    PROVE  /\ caller[c].pc = "queued" /\ Holds(c, lock) /\ UNCHANGED <<configVars, storeVars, runtimes>>
           /\ \E y \in CallerStates :
                /\ caller' = [caller EXCEPT ![c] = y]
                /\ \/ /\ runtimes[caller[c].agent] # NoRuntime
                      /\ y = Given(caller[c], runtimes[caller[c].agent]) /\ lock' = Tail(lock)
                   \/ y = Idle(caller[c]) /\ lock' = Tail(lock)
                   \/ /\ runtimes[caller[c].agent] = NoRuntime /\ stack # "closed"
                      /\ y = Building(caller[c]) /\ lock' = lock
<1> DEFINE x == caller[c]
           y == Enter(x, stack)
<1>1. x \in CallerStates /\ runtimes[x.agent] \in Runtimes
  BY CallerType DEF RuntimesTypeOK
<1>2. /\ caller[c].pc = "queued" /\ Holds(c, lock) /\ UNCHANGED <<configVars, storeVars, runtimes>>
      /\ caller' = [caller EXCEPT ![c] = y] /\ lock' = IF y.pc = "building" THEN lock ELSE Tail(lock)
  BY DEF GetLocked
<1>3. Given(x, runtimes[x.agent]).pc # "building" /\ Idle(x).pc # "building" /\ Building(x).pc = "building"
  BY <1>1, GivenShape, IdleShape, BuildingShape
<1>4. QED
  BY <1>1, <1>2, <1>3, EnterShape

LEMMA InvalidateShape ==
    ASSUME RuntimesTypeOK, NEW c \in Callers, NEW e \in 1..MaxEpoch, Invalidate(c, e)
    PROVE  \E y \in CallerStates :
             /\ caller' = [caller EXCEPT ![c] = y]
             /\ \/ /\ y = Idle(caller[c]) /\ lock = <<>> /\ lock' = lock
                   /\ runtimes' = NoRuntimes /\ answered' = e
                \/ /\ y = Clearing(caller[c], e) /\ lock # <<>> /\ lock' = Append(lock, c)
                   /\ runtimes' = runtimes /\ answered' = answered
<1>1. caller[c] \in CallerStates /\ e \in 0..MaxEpoch
  BY CallerType
<1>2. Idle(caller[c]) \in CallerStates /\ Clearing(caller[c], e) \in CallerStates
  BY <1>1, IdleShape, RequestShape
<1>3. CASE lock = <<>>
  BY <1>2, <1>3 DEF Invalidate
<1>4. CASE lock # <<>>
  BY <1>2, <1>4 DEF Invalidate, Clearing
<1>5. QED
  BY <1>3, <1>4

\* The request of a change: a configuration that is saved, or a test that passed.
LEMMA ChangeShape ==
    ASSUME RuntimesTypeOK, NEW c \in Callers, SaveConfig(c) \/ Tested(c)
    PROVE  /\ caller[c].pc \in {"idle", "returned", "testing"} /\ UNCHANGED storeVars
           /\ \/ /\ SaveConfig(c) \/ file' = file
                 /\ epochNow' = epochNow + 1 /\ epochNow' \in 1..MaxEpoch
                 /\ Invalidate(c, epochNow')
              \/ /\ caller[c].pc = "testing" /\ caller' = [caller EXCEPT ![c] = Idle(caller[c])]
                 /\ UNCHANGED <<file, epochNow, answered, lock, runtimes>>
<1>1. epochNow \in 1..MaxEpoch /\ MaxEpoch \in Nat
  BY RuntimesConstantTypes DEF RuntimesTypeOK
<1>2. epochNow < MaxEpoch => epochNow + 1 \in 1..MaxEpoch
  BY <1>1
<1>3. CASE SaveConfig(c)
  BY <1>2, <1>3 DEF SaveConfig, Free
<1>4. CASE Tested(c)
  BY <1>2, <1>4 DEF Tested
<1>5. QED
  BY <1>3, <1>4

LEMMA BuiltShape ==
    ASSUME RuntimesTypeOK, NEW c \in Callers, Built(c)
    PROVE  /\ caller[c].pc = "building" /\ lock' = Tail(lock) /\ UNCHANGED <<configVars, storeVars>>
           /\ \E r \in Runtimes :
                /\ r.ver = caller[c].epoch /\ r.conn = Connection
                /\ runtimes' = [runtimes EXCEPT ![caller[c].agent] = r]
                /\ Given(caller[c], r) \in CallerStates
                /\ caller' = [caller EXCEPT ![c] = Given(caller[c], r)]
<1>1. PICK tools \in SUBSET caller[c].wants :
        LET r == [ver |-> caller[c].epoch, tools |-> tools, conn |-> Connection]
        IN  /\ runtimes' = [runtimes EXCEPT ![caller[c].agent] = r]
            /\ caller' = [caller EXCEPT ![c] = Given(@, r)]
  BY DEF Built
<1> DEFINE r == [ver |-> caller[c].epoch, tools |-> tools, conn |-> Connection]
<1>2. caller[c] \in CallerStates /\ caller[c].epoch \in 0..MaxEpoch /\ caller[c].wants \subseteq Servers
  BY DEF RuntimesTypeOK, CallerStates
<1>3. Connection \in 0..(MaxCloses + 1)
  BY RuntimesConstantTypes DEF RuntimesTypeOK, Connection
<1>4. r \in Runtimes
  BY <1>2, <1>3 DEF Runtimes
<1>5. caller' = [caller EXCEPT ![c] = Given(caller[c], r)]
  BY <1>1
<1>6. QED
  BY <1>1, <1>2, <1>4, <1>5, GivenShape DEF Built

-----------------------------------------------------------------------------
(* The locks.                                                              *)

\* Who waits for a lock is in its queue, once; who runs under it is the first there.
LocksInv ==
    /\ Queue(lock, InPhase(LockWaits), InPhase({"building"}))
    /\ Queue(initLock, InPhase(InitWaits), InPhase({"opening"}))

LEMMA InPhaseMove ==
    ASSUME RuntimesTypeOK, NEW c \in Callers, NEW y \in CallerStates,
           caller' = [caller EXCEPT ![c] = y], NEW P
    PROVE  /\ y.pc \in P => InPhase(P)' = InPhase(P) \cup {c}
           /\ y.pc \notin P => InPhase(P)' = InPhase(P) \ {c}
           /\ (y.pc \in P <=> caller[c].pc \in P) => InPhase(P)' = InPhase(P)
BY DEF RuntimesTypeOK, InPhase

LEMMA InPhaseSame ==
    ASSUME UNCHANGED caller, NEW P
    PROVE  InPhase(P)' = InPhase(P)
BY DEF InPhase

\* Whoever looks a runtime up does not wait for the lock yet.
LEMMA LookedLocks ==
    ASSUME RuntimesTypeOK, LocksInv, NEW c \in Callers, caller[c].pc \notin LockWaits,
           NEW x \in CallerStates, NEW y \in CallerStates, NEW stores,
           caller' = [caller EXCEPT ![c] = y], Looked(c, x, stores, y)
    PROVE  /\ lock' \in Seq(Callers)
           /\ Queue(lock, InPhase(LockWaits), InPhase({"building"}))'
           /\ y.pc \in {"returned", "queued", "idle", "building"}
<1> DEFINE W == InPhase(LockWaits)
           B == InPhase({"building"})
<1>1. lock \in Seq(Callers) /\ c \notin W /\ c \notin B /\ Queue(lock, W, B)
  BY DEF RuntimesTypeOK, InPhase, LockWaits, LocksInv
<1>2. CASE y.pc \in {"returned", "idle"} /\ lock' = lock
  <2>1. W' = W /\ B' = B
    BY <1>2, InPhaseMove DEF LockWaits
  <2>2. QED
    BY <1>1, <1>2, <2>1
<1>3. CASE y.pc = "queued" /\ lock # <<>> /\ lock' = Append(lock, c)
  <2>1. W' = W \cup {c} /\ B' = B
    BY <1>3, InPhaseMove DEF LockWaits
  <2>2. Queue(Append(lock, c), W \cup {c}, B) /\ Append(lock, c) \in Seq(Callers)
    BY <1>1, <1>3, QueueJoin
  <2>3. QED
    BY <1>3, <2>1, <2>2
<1>4. CASE y.pc = "building" /\ lock = <<>> /\ lock' = <<c>>
  <2>1. W' = W \cup {c} /\ B' = B \cup {c}
    BY <1>4, InPhaseMove DEF LockWaits
  <2>2. Queue(<<c>>, W \cup {c}, B \cup {c}) /\ <<c>> \in Seq(Callers)
    BY <1>1, <1>4, QueueTake
  <2>3. QED
    BY <1>4, <2>1, <2>2
<1>5. runtimes[x.agent] \in Runtimes
  BY DEF RuntimesTypeOK, CallerStates
<1>6. QED
  BY <1>2, <1>3, <1>4, <1>5, GivenShape, AtShape, IdleShape, BuildingShape DEF Looked, Waiting

\* Whoever had the lock and is done gives it to the next.
LEMMA LeaveLock ==
    ASSUME RuntimesTypeOK, LocksInv, NEW c \in Callers, Holds(c, lock),
           NEW y \in CallerStates, y.pc \notin LockWaits,
           caller' = [caller EXCEPT ![c] = y], lock' = Tail(lock)
    PROVE  /\ lock' \in Seq(Callers)
           /\ Queue(lock, InPhase(LockWaits), InPhase({"building"}))'
<1>1. Queue(Tail(lock), InPhase(LockWaits) \ {c}, InPhase({"building"}) \ {c})
  BY QueueLeave DEF LocksInv, RuntimesTypeOK
<1>2. InPhase(LockWaits)' = InPhase(LockWaits) \ {c} /\ InPhase({"building"})' = InPhase({"building"}) \ {c}
  BY InPhaseMove DEF LockWaits
<1>3. Tail(lock) \in Seq(Callers)
  BY DEF RuntimesTypeOK, Holds
<1>4. QED
  BY <1>1, <1>2, <1>3

LEMMA LeaveInitLock ==
    ASSUME RuntimesTypeOK, LocksInv, NEW c \in Callers, Holds(c, initLock),
           NEW y \in CallerStates, y.pc \notin InitWaits,
           caller' = [caller EXCEPT ![c] = y], initLock' = Tail(initLock)
    PROVE  /\ initLock' \in Seq(Callers)
           /\ Queue(initLock, InPhase(InitWaits), InPhase({"opening"}))'
<1>1. Queue(Tail(initLock), InPhase(InitWaits) \ {c}, InPhase({"opening"}) \ {c})
  BY QueueLeave DEF LocksInv, RuntimesTypeOK
<1>2. InPhase(InitWaits)' = InPhase(InitWaits) \ {c} /\ InPhase({"opening"})' = InPhase({"opening"}) \ {c}
  BY InPhaseMove DEF InitWaits
<1>3. Tail(initLock) \in Seq(Callers)
  BY DEF RuntimesTypeOK, Holds
<1>4. QED
  BY <1>1, <1>2, <1>3

\* A step that does not concern a lock.
LEMMA KeepLock ==
    ASSUME RuntimesTypeOK, LocksInv, NEW c \in Callers, NEW y \in CallerStates,
           caller' = [caller EXCEPT ![c] = y], lock' = lock,
           caller[c].pc \notin LockWaits, y.pc \notin LockWaits
    PROVE  lock' \in Seq(Callers) /\ Queue(lock, InPhase(LockWaits), InPhase({"building"}))'
<1>1. InPhase(LockWaits)' = InPhase(LockWaits) /\ InPhase({"building"})' = InPhase({"building"})
  BY InPhaseMove DEF LockWaits
<1>2. QED
  BY <1>1 DEF LocksInv, RuntimesTypeOK

LEMMA KeepInitLock ==
    ASSUME RuntimesTypeOK, LocksInv, NEW c \in Callers, NEW y \in CallerStates,
           caller' = [caller EXCEPT ![c] = y], initLock' = initLock,
           caller[c].pc \notin InitWaits, y.pc \notin InitWaits
    PROVE  initLock' \in Seq(Callers) /\ Queue(initLock, InPhase(InitWaits), InPhase({"opening"}))'
<1>1. InPhase(InitWaits)' = InPhase(InitWaits) /\ InPhase({"opening"})' = InPhase({"opening"})
  BY InPhaseMove DEF InitWaits
<1>2. QED
  BY <1>1 DEF LocksInv, RuntimesTypeOK

\* Whoever runs under a lock holds it.
LEMMA WorkerHolds ==
    ASSUME LocksInv, NEW c \in Callers
    PROVE  /\ caller[c].pc = "building" => Holds(c, lock)
           /\ caller[c].pc = "opening" => Holds(c, initLock)
BY DEF LocksInv, Queue, InPhase, Holds

\* Every step leaves well-formed queues.
LEMMA LocksStep ==
    ASSUME RuntimesTypeOK, LocksInv, [RuntimesNext]_runtimesVars
    PROVE  /\ caller' \in [Callers -> CallerStates]
           /\ lock' \in Seq(Callers) /\ initLock' \in Seq(Callers)
           /\ LocksInv'
<1> USE DEF LocksInv
<1>1. ASSUME NEW c \in Callers, NEW y \in CallerStates, caller' = [caller EXCEPT ![c] = y]
      PROVE  caller' \in [Callers -> CallerStates]
  BY <1>1 DEF RuntimesTypeOK
<1>2. ASSUME NEW c \in Callers, NEW a \in Agents, GetRuntime(c, a)
      PROVE  /\ caller' \in [Callers -> CallerStates]
             /\ lock' \in Seq(Callers) /\ initLock' \in Seq(Callers) /\ LocksInv'
  <2> DEFINE x == Asking(caller[c], a)
  <2>1. PICK y \in CallerStates :
          /\ caller' = [caller EXCEPT ![c] = y]
          /\ \/ /\ y = At(x, "init")
                /\ initLock # <<>> /\ initLock' = Append(initLock, c) /\ lock' = lock
             \/ /\ y = At(x, "opening") /\ stack = "closed"
                /\ initLock = <<>> /\ initLock' = <<c>> /\ lock' = lock
             \/ Looked(c, x, stack, y) /\ stack # "closed" /\ initLock' = initLock
    BY <1>2, GetRuntimeShape
  <2>2. caller[c].pc \notin LockWaits /\ caller[c].pc \notin InitWaits /\ x \in CallerStates
    BY <1>2, GetRuntimeShape, CallerType, AskingShape DEF Free, LockWaits, InitWaits
  <2>3. At(x, "init").pc = "init" /\ At(x, "opening").pc = "opening"
    BY <2>2, AtShape DEF Waiting
  <2>4. c \notin InPhase(InitWaits) /\ initLock \in Seq(Callers)
    BY <2>2 DEF InPhase, RuntimesTypeOK
  <2>5. CASE y = At(x, "init") /\ initLock # <<>> /\ initLock' = Append(initLock, c) /\ lock' = lock
    <3>0. y.pc \in InitWaits /\ y.pc \notin {"opening"} /\ caller[c].pc \notin {"opening"}
      BY <2>2, <2>3, <2>5 DEF InitWaits
    <3>1. InPhase(InitWaits)' = InPhase(InitWaits) \cup {c} /\ InPhase({"opening"})' = InPhase({"opening"})
      BY <2>1, <3>0, InPhaseMove
    <3>2. Queue(initLock, InPhase(InitWaits), InPhase({"opening"}))' /\ initLock' \in Seq(Callers)
      BY <2>4, <2>5, <3>1, QueueJoin
    <3>3. QED
      BY <1>1, <2>1, <2>2, <2>3, <2>5, <3>2, KeepLock DEF LockWaits
  <2>6. CASE y = At(x, "opening") /\ initLock = <<>> /\ initLock' = <<c>> /\ lock' = lock
    <3>1. /\ InPhase(InitWaits)' = InPhase(InitWaits) \cup {c}
          /\ InPhase({"opening"})' = InPhase({"opening"}) \cup {c}
      BY <2>1, <2>3, <2>6, InPhaseMove, ZenonT(60) DEF InitWaits
    <3>2. Queue(initLock, InPhase(InitWaits), InPhase({"opening"}))' /\ initLock' \in Seq(Callers)
      BY <2>6, <3>1, QueueTake
    <3>3. QED
      BY <1>1, <2>1, <2>2, <2>3, <2>6, <3>2, KeepLock DEF LockWaits
  <2>7. CASE Looked(c, x, stack, y) /\ initLock' = initLock
    <3>1. /\ lock' \in Seq(Callers) /\ Queue(lock, InPhase(LockWaits), InPhase({"building"}))'
          /\ y.pc \notin InitWaits
      BY <2>1, <2>2, <2>7, LookedLocks DEF InitWaits
    <3>2. QED
      BY <1>1, <2>1, <2>2, <2>7, <3>1, KeepInitLock
  <2>8. QED
    BY <2>1, <2>5, <2>6, <2>7
<1>3. ASSUME NEW c \in Callers, InitLocked(c)
      PROVE  /\ caller' \in [Callers -> CallerStates]
             /\ lock' \in Seq(Callers) /\ initLock' \in Seq(Callers) /\ LocksInv'
  <2>1. PICK y \in CallerStates :
          /\ caller' = [caller EXCEPT ![c] = y]
          /\ \/ y = At(caller[c], "opening") /\ initLock' = initLock /\ lock' = lock
             \/ Looked(c, caller[c], stack, y) /\ initLock' = Tail(initLock)
    BY <1>3, InitLockedShape
  <2>2. caller[c].pc = "init" /\ caller[c] \in CallerStates /\ Holds(c, initLock)
    BY <1>3, InitLockedShape, CallerType
  <2>3. CASE y = At(caller[c], "opening") /\ initLock' = initLock /\ lock' = lock
    <3>1. y.pc = "opening"
      BY <2>2, <2>3, AtShape DEF Waiting
    <3>2. c \in InPhase(InitWaits)
      BY <2>2 DEF InPhase, InitWaits
    <3>3. /\ InPhase(InitWaits)' = InPhase(InitWaits) \cup {c}
          /\ InPhase({"opening"})' = InPhase({"opening"}) \cup {c}
      BY <2>1, <3>1, InPhaseMove DEF InitWaits
    <3>4. Queue(initLock, InPhase(InitWaits), InPhase({"opening"}))' /\ initLock' \in Seq(Callers)
      BY <2>2, <2>3, <3>2, <3>3, QueueWork DEF RuntimesTypeOK
    <3>5. QED
      BY <1>1, <2>1, <2>2, <2>3, <3>1, <3>4, KeepLock DEF LockWaits
  <2>4. CASE Looked(c, caller[c], stack, y) /\ initLock' = Tail(initLock)
    <3>1. /\ lock' \in Seq(Callers) /\ Queue(lock, InPhase(LockWaits), InPhase({"building"}))'
          /\ y.pc \notin InitWaits
      BY <2>1, <2>2, <2>4, LookedLocks DEF InitWaits, LockWaits
    <3>2. QED
      BY <1>1, <2>1, <2>2, <2>4, <3>1, LeaveInitLock
  <2>5. QED
    BY <2>1, <2>3, <2>4
<1>4. ASSUME NEW c \in Callers, Opened(c)
      PROVE  /\ caller' \in [Callers -> CallerStates]
             /\ lock' \in Seq(Callers) /\ initLock' \in Seq(Callers) /\ LocksInv'
  <2>1. PICK y \in CallerStates :
          caller' = [caller EXCEPT ![c] = y] /\ Looked(c, caller[c], "open", y)
    BY <1>4, OpenedShape
  <2>2. caller[c].pc = "opening" /\ caller[c] \in CallerStates /\ Holds(c, initLock)
        /\ initLock' = Tail(initLock)
    BY <1>4, OpenedShape, CallerType, WorkerHolds
  <2>3. /\ lock' \in Seq(Callers) /\ Queue(lock, InPhase(LockWaits), InPhase({"building"}))'
        /\ y.pc \notin InitWaits
    BY <2>1, <2>2, LookedLocks DEF InitWaits, LockWaits
  <2>4. QED
    BY <1>1, <2>1, <2>2, <2>3, LeaveInitLock
<1>5. ASSUME NEW c \in Callers, OpenFails(c)
      PROVE  /\ caller' \in [Callers -> CallerStates]
             /\ lock' \in Seq(Callers) /\ initLock' \in Seq(Callers) /\ LocksInv'
  <2>1. /\ caller[c].pc = "opening" /\ caller' = [caller EXCEPT ![c] = Idle(caller[c])]
        /\ initLock' = Tail(initLock) /\ lock' = lock /\ Holds(c, initLock)
    BY <1>5, WorkerHolds DEF OpenFails
  <2>2. Idle(caller[c]) \in CallerStates /\ Idle(caller[c]).pc = "idle"
    BY CallerType, IdleShape
  <2>3. QED
    BY <1>1, <2>1, <2>2, LeaveInitLock, KeepLock DEF InitWaits, LockWaits
<1>6. ASSUME NEW c \in Callers, GetLocked(c)
      PROVE  /\ caller' \in [Callers -> CallerStates]
             /\ lock' \in Seq(Callers) /\ initLock' \in Seq(Callers) /\ LocksInv'
  <2>1. PICK y \in CallerStates :
          /\ caller' = [caller EXCEPT ![c] = y]
          /\ \/ y = Given(caller[c], runtimes[caller[c].agent]) /\ lock' = Tail(lock)
             \/ y = Idle(caller[c]) /\ lock' = Tail(lock)
             \/ y = Building(caller[c]) /\ lock' = lock
    BY <1>6, GetLockedShape
  <2>2. caller[c].pc = "queued" /\ Holds(c, lock) /\ initLock' = initLock
        /\ caller[c] \in CallerStates /\ runtimes[caller[c].agent] \in Runtimes
    BY <1>6, GetLockedShape, CallerType DEF storeVars, RuntimesTypeOK
  <2>3. \/ y.pc \in {"returned", "idle"} /\ lock' = Tail(lock)
        \/ y.pc = "building" /\ lock' = lock
    <3>1. Given(caller[c], runtimes[caller[c].agent]).pc = "returned"
      BY <2>2, GivenShape
    <3>2. Idle(caller[c]).pc = "idle" /\ Building(caller[c]).pc = "building"
      BY <2>2, IdleShape, BuildingShape
    <3>3. QED
      BY <2>1, <3>1, <3>2
  <2>4. initLock' \in Seq(Callers) /\ Queue(initLock, InPhase(InitWaits), InPhase({"opening"}))'
    BY <2>1, <2>2, <2>3, KeepInitLock DEF InitWaits
  <2>5. CASE y.pc \in {"returned", "idle"} /\ lock' = Tail(lock)
    BY <1>1, <2>1, <2>2, <2>4, <2>5, LeaveLock DEF LockWaits
  <2>6. CASE y.pc = "building" /\ lock' = lock
    <3>1. c \in InPhase(LockWaits)
      BY <2>2 DEF InPhase, LockWaits
    <3>2. /\ InPhase(LockWaits)' = InPhase(LockWaits) \cup {c}
          /\ InPhase({"building"})' = InPhase({"building"}) \cup {c}
      BY <2>1, <2>6, InPhaseMove DEF LockWaits
    <3>3. Queue(lock, InPhase(LockWaits), InPhase({"building"}))'
      BY <2>2, <2>6, <3>1, <3>2, QueueWork
    <3>4. QED
      BY <1>1, <2>1, <2>4, <2>6, <3>3 DEF RuntimesTypeOK
  <2>7. QED
    BY <2>3, <2>5, <2>6
<1>7. ASSUME NEW c \in Callers, Built(c) \/ BuildFails(c) \/ Clear(c)
      PROVE  /\ caller' \in [Callers -> CallerStates]
             /\ lock' \in Seq(Callers) /\ initLock' \in Seq(Callers) /\ LocksInv'
  <2>1. Holds(c, lock) /\ lock' = Tail(lock) /\ initLock' = initLock
        /\ caller[c].pc \in {"building", "clearing"}
    BY <1>7, WorkerHolds DEF Built, BuildFails, Clear, storeVars
  <2>2. \E y \in CallerStates : caller' = [caller EXCEPT ![c] = y] /\ y.pc \in {"returned", "idle"}
    <3>1. CASE Built(c)
      BY <3>1, BuiltShape, CallerType, GivenShape
    <3>2. CASE BuildFails(c) \/ Clear(c)
      BY <3>2, CallerType, IdleShape DEF BuildFails, Clear
    <3>3. QED
      BY <1>7, <3>1, <3>2
  <2>3. QED
    BY <1>1, <2>1, <2>2, LeaveLock, KeepInitLock DEF InitWaits, LockWaits
<1>8. ASSUME NEW c \in Callers, SaveConfig(c) \/ Tested(c)
      PROVE  /\ caller' \in [Callers -> CallerStates]
             /\ lock' \in Seq(Callers) /\ initLock' \in Seq(Callers) /\ LocksInv'
  <2>1. caller[c].pc \in {"idle", "returned", "testing"} /\ initLock' = initLock
        /\ caller[c] \in CallerStates
    BY <1>8, ChangeShape, CallerType DEF storeVars
  <2>2. \E y \in CallerStates :
          /\ caller' = [caller EXCEPT ![c] = y]
          /\ \/ y.pc = "idle" /\ lock' = lock
             \/ y.pc = "clearing" /\ lock # <<>> /\ lock' = Append(lock, c)
    <3>1. CASE epochNow' \in 1..MaxEpoch /\ Invalidate(c, epochNow')
      <4>1. PICK y \in CallerStates :
              /\ caller' = [caller EXCEPT ![c] = y]
              /\ \/ y = Idle(caller[c]) /\ lock' = lock
                 \/ y = Clearing(caller[c], epochNow') /\ lock # <<>> /\ lock' = Append(lock, c)
        BY <3>1, InvalidateShape
      <4>2. epochNow' \in 0..MaxEpoch
        BY <3>1
      <4>3. QED
        BY <2>1, <4>1, <4>2, IdleShape, RequestShape
    <3>2. CASE caller' = [caller EXCEPT ![c] = Idle(caller[c])] /\ lock' = lock
      BY <2>1, <3>2, IdleShape
    <3>3. QED
      BY <1>8, <3>1, <3>2, ChangeShape
  <2>3. PICK y \in CallerStates :
          /\ caller' = [caller EXCEPT ![c] = y]
          /\ \/ y.pc = "idle" /\ lock' = lock
             \/ y.pc = "clearing" /\ lock # <<>> /\ lock' = Append(lock, c)
    BY <2>2
  <2>4. initLock' \in Seq(Callers) /\ Queue(initLock, InPhase(InitWaits), InPhase({"opening"}))'
    BY <2>1, <2>3, KeepInitLock DEF InitWaits
  <2>5. CASE y.pc = "idle" /\ lock' = lock
    BY <1>1, <2>1, <2>3, <2>4, <2>5, KeepLock DEF LockWaits
  <2>6. CASE y.pc = "clearing" /\ lock # <<>> /\ lock' = Append(lock, c)
    <3>1. c \notin InPhase(LockWaits) /\ lock \in Seq(Callers)
      BY <2>1 DEF InPhase, LockWaits, RuntimesTypeOK
    <3>2. /\ InPhase(LockWaits)' = InPhase(LockWaits) \cup {c}
          /\ InPhase({"building"})' = InPhase({"building"})
      BY <2>1, <2>3, <2>6, InPhaseMove DEF LockWaits
    <3>3. Queue(lock, InPhase(LockWaits), InPhase({"building"}))' /\ lock' \in Seq(Callers)
      BY <2>6, <3>1, <3>2, QueueJoin
    <3>4. QED
      BY <1>1, <2>3, <2>4, <3>3
  <2>7. QED
    BY <2>3, <2>5, <2>6
<1>9. ASSUME NEW c \in Callers, NEW s \in Servers, TestServer(c, s)
      PROVE  /\ caller' \in [Callers -> CallerStates]
             /\ lock' \in Seq(Callers) /\ initLock' \in Seq(Callers) /\ LocksInv'
  <2>1. /\ caller[c].pc \in {"idle", "returned"} /\ lock' = lock /\ initLock' = initLock
        /\ caller' = [caller EXCEPT ![c] = Testing(caller[c], s)]
    BY <1>9 DEF TestServer, Free, Testing, storeVars
  <2>2. Testing(caller[c], s) \in CallerStates /\ Testing(caller[c], s).pc = "testing"
    BY CallerType, RequestShape
  <2>3. QED
    BY <1>1, <2>1, <2>2, KeepLock, KeepInitLock DEF InitWaits, LockWaits
<1>10. CASE StartClose \/ FinishClose \/ UNCHANGED runtimesVars
  <2>1. UNCHANGED <<caller, lock, initLock>>
    BY <1>10 DEF StartClose, FinishClose, runtimesVars
  <2>2. QED
    BY <2>1, InPhaseSame DEF RuntimesTypeOK
<1>11. QED
  BY <1>2, <1>3, <1>4, <1>5, <1>6, <1>7, <1>8, <1>9, <1>10 DEF RuntimesNext, Resume

-----------------------------------------------------------------------------
(* What is cached.                                                         *)

\* What a caller has read, or waits to answer, fits what was answered so far.
CallerFresh(x) ==
    /\ x.pc = "building" => /\ answered <= x.epoch /\ x.epoch <= epochNow
                            /\ runtimes[x.agent] = NoRuntime
    /\ x.pc = "clearing" => x.epoch <= epochNow
    /\ x.pc \in {"init", "opening", "queued", "building"} => x.floor <= answered
    /\ x.pc \in {"idle", "clearing", "testing"} => x.floor = 0 /\ x.got = NoRuntime

FreshInv ==
    /\ answered <= epochNow
    /\ \A a \in Agents : runtimes[a] # NoRuntime =>
          answered <= runtimes[a].ver /\ runtimes[a].ver <= epochNow
    /\ \A c \in Callers : CallerFresh(caller[c])

LEMMA FreshNumbers ==
    ASSUME RuntimesTypeOK
    PROVE  /\ epochNow \in Nat \ {0} /\ answered \in Nat \ {0}
           /\ \A a \in Agents : runtimes[a] \in Runtimes /\ runtimes[a].ver \in Nat
           /\ \A c \in Callers : caller[c].floor \in Nat /\ caller[c].epoch \in Nat
           /\ \A a \in Agents : NoRuntimes[a] = NoRuntime
<1>1. epochNow \in Nat \ {0} /\ answered \in Nat \ {0}
  BY RuntimesConstantTypes DEF RuntimesTypeOK
<1>2. ASSUME NEW a \in Agents PROVE runtimes[a] \in Runtimes /\ runtimes[a].ver \in Nat
  BY RuntimesConstantTypes DEF RuntimesTypeOK, Runtimes
<1>3. ASSUME NEW c \in Callers PROVE caller[c].floor \in Nat /\ caller[c].epoch \in Nat
  BY RuntimesConstantTypes DEF RuntimesTypeOK, CallerStates
<1>4. QED
  BY <1>1, <1>2, <1>3 DEF NoRuntimes

\* One caller moves, and nothing is cached or answered.
LEMMA FreshMove ==
    ASSUME RuntimesTypeOK, FreshInv, NEW c \in Callers, NEW y \in CallerStates,
           caller' = [caller EXCEPT ![c] = y], CallerFresh(y)',
           answered' = answered, epochNow' \in Nat, epochNow <= epochNow', runtimes' = runtimes
    PROVE  FreshInv'
<1> USE FreshNumbers
<1>1. caller'[c] = y /\ \A d \in Callers : d # c => caller'[d] = caller[d]
  BY DEF RuntimesTypeOK
<1>2. ASSUME NEW d \in Callers PROVE CallerFresh(caller[d])'
  <2>1. CASE d = c
    BY <1>1, <2>1 DEF CallerFresh
  <2>2. CASE d # c
    BY <1>1, <2>2 DEF FreshInv, CallerFresh
  <2>3. QED
    BY <2>1, <2>2
<1>3. QED
  BY <1>2 DEF FreshInv

LEMMA FreshKept ==
    ASSUME RuntimesTypeOK, FreshInv, NEW c \in Callers, NEW y \in CallerStates,
           caller' = [caller EXCEPT ![c] = y], CallerFresh(y),
           UNCHANGED <<epochNow, answered, runtimes>>
    PROVE  FreshInv'
<1>1. CallerFresh(y)'
  BY DEF CallerFresh
<1>2. epochNow' \in Nat /\ epochNow <= epochNow'
  BY FreshNumbers
<1>3. QED
  BY <1>1, <1>2, FreshMove

\* The cache is cleared and a change is answered, while nobody builds.
LEMMA FreshAnswer ==
    ASSUME RuntimesTypeOK, FreshInv, NEW c \in Callers,
           caller' = [caller EXCEPT ![c] = Idle(caller[c])],
           \A d \in Callers : caller[d].pc # "building",
           runtimes' = NoRuntimes, answered' \in Nat, epochNow' \in Nat,
           answered <= answered', answered' <= epochNow', epochNow <= epochNow'
    PROVE  FreshInv'
<1> USE FreshNumbers
<1>1. caller'[c] = Idle(caller[c]) /\ \A d \in Callers : d # c => caller'[d] = caller[d]
  BY DEF RuntimesTypeOK
<1>2. Idle(caller[c]).pc = "idle" /\ Idle(caller[c]).floor = 0 /\ Idle(caller[c]).got = NoRuntime
  BY CallerType, IdleShape
<1>3. ASSUME NEW d \in Callers PROVE CallerFresh(caller[d])'
  <2>1. CASE d = c
    BY <1>1, <1>2, <2>1 DEF CallerFresh
  <2>2. CASE d # c
    BY <1>1, <2>2 DEF FreshInv, CallerFresh
  <2>3. QED
    BY <2>1, <2>2
<1>4. QED
  BY <1>3 DEF FreshInv

\* A caller that looks a runtime up while no change is answered.
LEMMA FreshLooked ==
    ASSUME RuntimesTypeOK, FreshInv, NEW c \in Callers, NEW x \in CallerStates, x.floor <= answered,
           NEW y \in CallerStates, NEW stores, caller' = [caller EXCEPT ![c] = y],
           Looked(c, x, stores, y), UNCHANGED <<epochNow, answered, runtimes>>
    PROVE  FreshInv'
<1> USE FreshNumbers
<1>1. CASE y = Given(x, runtimes[x.agent])
  <2>1. x.agent \in Agents /\ y.pc = "returned"
    BY <1>1, GivenShape DEF CallerStates
  <2>2. QED
    BY <2>1, FreshKept DEF CallerFresh
<1>2. CASE y = At(x, "queued")
  <2>1. y.pc = "queued" /\ y.floor = x.floor
    BY <1>2, AtShape DEF Waiting
  <2>2. QED
    BY <2>1, FreshKept DEF CallerFresh
<1>3. CASE y = Idle(x)
  <2>1. y.pc = "idle" /\ y.floor = 0 /\ y.got = NoRuntime
    BY <1>3, IdleShape
  <2>2. QED
    BY <2>1, FreshKept DEF CallerFresh
<1>4. CASE y = Building(x) /\ runtimes[x.agent] = NoRuntime
  <2>1. y.pc = "building" /\ y.floor = x.floor /\ y.epoch = epochNow /\ y.agent = x.agent
    BY <1>4, BuildingShape
  <2>2. QED
    BY <1>4, <2>1, FreshKept DEF CallerFresh, FreshInv
<1>5. QED
  BY <1>1, <1>2, <1>3, <1>4 DEF Looked

\* Nobody builds while the lock is free, or while its holder does something else.
LEMMA NobodyBuilds ==
    ASSUME LocksInv
    PROVE  /\ lock = <<>> => \A d \in Callers : caller[d].pc # "building"
           /\ \A c \in Callers : Holds(c, lock) =>
                 \A d \in Callers : caller[d].pc = "building" => d = c
BY DEF LocksInv, Queue, InPhase, Holds

LEMMA FreshStep ==
    ASSUME RuntimesTypeOK, LocksInv, FreshInv, [RuntimesNext]_runtimesVars
    PROVE  FreshInv'
<1> USE FreshNumbers
<1>1. ASSUME NEW c \in Callers, NEW a \in Agents, GetRuntime(c, a) PROVE FreshInv'
  <2> DEFINE x == Asking(caller[c], a)
  <2>1. PICK y \in CallerStates :
          /\ caller' = [caller EXCEPT ![c] = y]
          /\ y = At(x, "init") \/ y = At(x, "opening") \/ Looked(c, x, stack, y)
    BY <1>1, GetRuntimeShape
  <2>2. x \in CallerStates /\ x.floor = answered /\ UNCHANGED <<epochNow, answered, runtimes>>
    BY <1>1, GetRuntimeShape, CallerType, AskingShape DEF configVars
  <2>3. CASE y = At(x, "init") \/ y = At(x, "opening")
    <3>1. y.pc \in {"init", "opening"} /\ y.floor = answered
      BY <2>2, <2>3, AtShape DEF Waiting
    <3>2. CallerFresh(y)
      BY <3>1 DEF CallerFresh
    <3>3. QED
      BY <2>1, <2>2, <3>2, FreshKept
  <2>4. CASE Looked(c, x, stack, y)
    <3>1. x.floor <= answered
      BY <2>2
    <3>2. QED
      BY <2>1, <2>2, <2>4, <3>1, FreshLooked
  <2>5. QED
    BY <2>1, <2>3, <2>4
<1>2. ASSUME NEW c \in Callers, InitLocked(c) \/ Opened(c) PROVE FreshInv'
  <2>1. /\ caller[c].pc \in {"init", "opening"} /\ UNCHANGED <<epochNow, answered, runtimes>>
        /\ \E y \in CallerStates, stores \in {stack, "open"} :
             /\ caller' = [caller EXCEPT ![c] = y]
             /\ y = At(caller[c], "opening") \/ Looked(c, caller[c], stores, y)
    BY <1>2, InitLockedShape, OpenedShape DEF configVars
  <2>2. PICK y \in CallerStates, stores \in {stack, "open"} :
             /\ caller' = [caller EXCEPT ![c] = y]
             /\ y = At(caller[c], "opening") \/ Looked(c, caller[c], stores, y)
    BY <2>1
  <2>3. caller[c] \in CallerStates /\ caller[c].floor <= answered
    BY <2>1, CallerType DEF FreshInv, CallerFresh
  <2>4. CASE y = At(caller[c], "opening")
    <3>1. y.pc = "opening" /\ y.floor = caller[c].floor
      BY <2>3, <2>4, AtShape DEF Waiting
    <3>2. QED
      BY <2>1, <2>2, <2>3, <3>1, FreshKept DEF CallerFresh
  <2>5. CASE Looked(c, caller[c], stores, y)
    BY <2>1, <2>2, <2>3, <2>5, FreshLooked
  <2>6. QED
    BY <2>2, <2>4, <2>5
<1>3. ASSUME NEW c \in Callers, GetLocked(c) PROVE FreshInv'
  <2>1. PICK y \in CallerStates :
          /\ caller' = [caller EXCEPT ![c] = y]
          /\ \/ y = Given(caller[c], runtimes[caller[c].agent])
             \/ y = Idle(caller[c])
             \/ runtimes[caller[c].agent] = NoRuntime /\ y = Building(caller[c])
    BY <1>3, GetLockedShape
  <2>2. /\ caller[c].pc = "queued" /\ UNCHANGED <<epochNow, answered, runtimes>>
        /\ caller[c] \in CallerStates /\ caller[c].floor <= answered
    BY <1>3, GetLockedShape, CallerType DEF configVars, FreshInv, CallerFresh
  <2>3. CASE y = Given(caller[c], runtimes[caller[c].agent])
    <3>1. y.pc = "returned"
      BY <2>2, <2>3, CallerType, GivenShape
    <3>2. QED
      BY <2>1, <2>2, <3>1, FreshKept DEF CallerFresh
  <2>4. CASE y = Idle(caller[c])
    <3>1. y.pc = "idle" /\ y.floor = 0 /\ y.got = NoRuntime
      BY <2>2, <2>4, IdleShape
    <3>2. QED
      BY <2>1, <2>2, <3>1, FreshKept DEF CallerFresh
  <2>5. CASE runtimes[caller[c].agent] = NoRuntime /\ y = Building(caller[c])
    <3>1. y.pc = "building" /\ y.floor = caller[c].floor /\ y.epoch = epochNow /\ y.agent = caller[c].agent
      BY <2>2, <2>5, BuildingShape
    <3>2. QED
      BY <2>1, <2>2, <2>5, <3>1, FreshKept DEF CallerFresh, FreshInv
  <2>6. QED
    BY <2>1, <2>3, <2>4, <2>5
<1>4. ASSUME NEW c \in Callers, Built(c) PROVE FreshInv'
  <2>1. PICK r \in Runtimes :
          /\ r.ver = caller[c].epoch
          /\ runtimes' = [runtimes EXCEPT ![caller[c].agent] = r]
          /\ caller' = [caller EXCEPT ![c] = Given(caller[c], r)]
    BY <1>4, BuiltShape
  <2>2. caller[c].pc = "building" /\ UNCHANGED <<epochNow, answered>> /\ Holds(c, lock)
    BY <1>4, BuiltShape, WorkerHolds DEF configVars
  <2>3. \A d \in Callers : d # c => caller[d].pc # "building" /\ caller'[d] = caller[d]
    BY <2>1, <2>2, NobodyBuilds DEF RuntimesTypeOK
  <2>4. caller'[c].pc = "returned"
    BY <2>1, CallerType, GivenShape DEF RuntimesTypeOK
  <2>5. ASSUME NEW a \in Agents, runtimes'[a] # NoRuntime
        PROVE  answered <= runtimes'[a].ver /\ runtimes'[a].ver <= epochNow
    <3>1. answered <= r.ver /\ r.ver <= epochNow
      BY <2>1, <2>2 DEF FreshInv, CallerFresh
    <3>2. QED
      BY <2>1, <2>5, <3>1 DEF FreshInv, RuntimesTypeOK
  <2>6. ASSUME NEW d \in Callers PROVE CallerFresh(caller[d])'
    BY <2>2, <2>3, <2>4 DEF FreshInv, CallerFresh
  <2>7. QED
    BY <2>2, <2>5, <2>6 DEF FreshInv
<1>5. ASSUME NEW c \in Callers, BuildFails(c) \/ OpenFails(c) PROVE FreshInv'
  <2>1. caller' = [caller EXCEPT ![c] = Idle(caller[c])] /\ UNCHANGED <<epochNow, answered, runtimes>>
    BY <1>5 DEF BuildFails, OpenFails, configVars
  <2>2. Idle(caller[c]) \in CallerStates /\ Idle(caller[c]).pc = "idle" /\ Idle(caller[c]).floor = 0
        /\ Idle(caller[c]).got = NoRuntime
    BY CallerType, IdleShape
  <2>3. QED
    BY <2>1, <2>2, FreshKept DEF CallerFresh
<1>6. ASSUME NEW c \in Callers, Clear(c) PROVE FreshInv'
  <2>1. /\ caller' = [caller EXCEPT ![c] = Idle(caller[c])] /\ runtimes' = NoRuntimes
        /\ caller[c].pc = "clearing" /\ Holds(c, lock) /\ epochNow' = epochNow
        /\ answered' = IF caller[c].epoch > answered THEN caller[c].epoch ELSE answered
    BY <1>6 DEF Clear
  <2>2. \A d \in Callers : caller[d].pc # "building"
    BY <2>1, NobodyBuilds
  <2>3. caller[c].epoch <= epochNow /\ answered <= epochNow
    BY <2>1 DEF FreshInv, CallerFresh
  <2>4. QED
    <3>1. caller[c].epoch \in Nat /\ answered \in Nat /\ epochNow \in Nat
      OBVIOUS
    <3>2. answered' \in Nat /\ answered <= answered' /\ answered' <= epochNow' /\ epochNow' \in Nat
          /\ epochNow <= epochNow'
      BY <2>1, <2>3, <3>1
    <3>3. QED
      BY <2>1, <2>2, <3>2, FreshAnswer
<1>7. ASSUME NEW c \in Callers, SaveConfig(c) \/ Tested(c) PROVE FreshInv'
  <2>1. CASE epochNow' = epochNow + 1 /\ epochNow' \in 1..MaxEpoch /\ Invalidate(c, epochNow')
    <3>1. PICK y \in CallerStates :
            /\ caller' = [caller EXCEPT ![c] = y]
            /\ \/ /\ y = Idle(caller[c]) /\ lock = <<>>
                  /\ runtimes' = NoRuntimes /\ answered' = epochNow'
               \/ /\ y = Clearing(caller[c], epochNow')
                  /\ runtimes' = runtimes /\ answered' = answered
      BY <2>1, InvalidateShape
    <3>2. CASE y = Idle(caller[c]) /\ lock = <<>> /\ runtimes' = NoRuntimes /\ answered' = epochNow'
      <4>1. answered' \in Nat /\ answered <= answered' /\ answered' <= epochNow' /\ epochNow' \in Nat
            /\ epochNow <= epochNow'
        BY <2>1, <3>2 DEF FreshInv
      <4>2. \A d \in Callers : caller[d].pc # "building"
        BY <3>2, NobodyBuilds
      <4>3. QED
        BY <3>1, <3>2, <4>1, <4>2, FreshAnswer
    <3>3. CASE y = Clearing(caller[c], epochNow') /\ runtimes' = runtimes /\ answered' = answered
      <4>1. epochNow' \in 0..MaxEpoch
        BY <2>1
      <4>2. y.pc = "clearing" /\ y.epoch = epochNow' /\ y.floor = 0 /\ y.got = NoRuntime
        BY <3>3, <4>1, CallerType, RequestShape
      <4>3. CallerFresh(y)' /\ epochNow <= epochNow' /\ epochNow' \in Nat
        BY <2>1, <4>2 DEF CallerFresh
      <4>4. QED
        BY <3>1, <3>3, <4>3, FreshMove
    <3>4. QED
      BY <3>1, <3>2, <3>3
  <2>2. CASE /\ caller' = [caller EXCEPT ![c] = Idle(caller[c])]
             /\ UNCHANGED <<epochNow, answered, runtimes>>
    <3>1. Idle(caller[c]) \in CallerStates /\ Idle(caller[c]).pc = "idle" /\ Idle(caller[c]).floor = 0
          /\ Idle(caller[c]).got = NoRuntime
      BY CallerType, IdleShape
    <3>2. QED
      BY <2>2, <3>1, FreshKept DEF CallerFresh
  <2>3. QED
    BY <1>7, <2>1, <2>2, ChangeShape
<1>8. ASSUME NEW c \in Callers, NEW s \in Servers, TestServer(c, s) PROVE FreshInv'
  <2>1. /\ caller' = [caller EXCEPT ![c] = Testing(caller[c], s)]
        /\ UNCHANGED <<epochNow, answered, runtimes>>
    BY <1>8 DEF TestServer, Testing, configVars
  <2>2. /\ Testing(caller[c], s) \in CallerStates /\ Testing(caller[c], s).pc = "testing"
        /\ Testing(caller[c], s).floor = 0 /\ Testing(caller[c], s).got = NoRuntime
    BY CallerType, RequestShape
  <2>3. QED
    BY <2>1, <2>2, FreshKept DEF CallerFresh
<1>9. CASE StartClose \/ FinishClose \/ UNCHANGED runtimesVars
  <2>1. UNCHANGED <<epochNow, answered, caller>> /\ (runtimes' = runtimes \/ runtimes' = NoRuntimes)
    BY <1>9 DEF StartClose, FinishClose, runtimesVars, configVars
  <2>2. \A c \in Callers : caller[c].agent \in Agents
    BY CallerType
  <2>3. QED
    BY <2>1, <2>2 DEF FreshInv, CallerFresh
<1>10. QED
  BY <1>1, <1>2, <1>3, <1>4, <1>5, <1>6, <1>7, <1>8, <1>9 DEF RuntimesNext, Resume

-----------------------------------------------------------------------------
(* The stores.                                                             *)

\* What is cached talks to the connections of this opening; once they are closed
\* nothing is cached, and nobody builds - unless somebody did when they closed.
OpenInv ==
    /\ stack = "closing" => closes < MaxCloses
    /\ ~torn /\ stack # "closed" =>
          \A a \in Agents : runtimes[a] # NoRuntime => runtimes[a].conn = closes + 1
    /\ ~torn /\ stack = "closed" =>
          /\ \A a \in Agents : runtimes[a] = NoRuntime
          /\ \A c \in Callers : caller[c].pc # "building"

\* A caller moves, and nothing is built.
LEMMA OpenMove ==
    ASSUME RuntimesTypeOK, OpenInv, NEW c \in Callers, NEW y \in CallerStates,
           caller' = [caller EXCEPT ![c] = y], y.pc = "building" => stack' # "closed",
           \/ stack' = stack
           \/ stack' = "open" /\ stack # "closing",
           UNCHANGED <<closes, torn>>, runtimes' = runtimes \/ runtimes' = NoRuntimes
    PROVE  OpenInv'
<1>1. \A a \in Agents : NoRuntimes[a] = NoRuntime
  BY DEF NoRuntimes
<1>2. \A d \in Callers : caller'[d] = IF d = c THEN y ELSE caller[d]
  BY DEF RuntimesTypeOK
<1>3. stack \in {"open", "closing", "closed"} /\ stack' \in {"open", "closing", "closed"}
  BY DEF RuntimesTypeOK
<1>4. QED
  BY <1>1, <1>2, <1>3 DEF OpenInv

LEMMA OpenStep ==
    ASSUME RuntimesTypeOK, LocksInv, OpenInv, [RuntimesNext]_runtimesVars
    PROVE  OpenInv'
<1> USE DEF storeVars
<1>1. ASSUME NEW c \in Callers, NEW x \in CallerStates, NEW y \in CallerStates, NEW stores,
             Looked(c, x, stores, y)
      PROVE  y.pc = "building" => stores # "closed"
  <2>1. Given(x, runtimes[x.agent]).pc = "returned" /\ At(x, "queued").pc = "queued" /\ Idle(x).pc = "idle"
    <3>1. runtimes[x.agent] \in Runtimes
      BY DEF RuntimesTypeOK, CallerStates
    <3>2. QED
      BY <3>1, GivenShape, AtShape, IdleShape DEF Waiting
  <2>2. QED
    BY <1>1, <2>1 DEF Looked
<1>2. ASSUME NEW c \in Callers, NEW a \in Agents, GetRuntime(c, a) PROVE OpenInv'
  <2> DEFINE x == Asking(caller[c], a)
  <2>1. PICK y \in CallerStates :
          /\ caller' = [caller EXCEPT ![c] = y]
          /\ y = At(x, "init") \/ y = At(x, "opening") \/ Looked(c, x, stack, y)
    BY <1>2, GetRuntimeShape
  <2>2. x \in CallerStates /\ UNCHANGED <<stack, closes, torn, runtimes>>
    BY <1>2, GetRuntimeShape, CallerType, AskingShape
  <2>3. At(x, "init").pc = "init" /\ At(x, "opening").pc = "opening"
    BY <2>2, AtShape DEF Waiting
  <2>4. y.pc = "building" => stack # "closed"
    BY <1>1, <2>1, <2>2, <2>3
  <2>5. QED
    BY <2>1, <2>2, <2>4, OpenMove
<1>3. ASSUME NEW c \in Callers, InitLocked(c) PROVE OpenInv'
  <2>1. PICK y \in CallerStates :
          /\ caller' = [caller EXCEPT ![c] = y]
          /\ y = At(caller[c], "opening") \/ Looked(c, caller[c], stack, y)
    BY <1>3, InitLockedShape
  <2>2. UNCHANGED <<stack, closes, torn, runtimes>>
    BY <1>3, InitLockedShape
  <2>3. y.pc = "building" => stack # "closed"
    BY <1>1, <2>1, CallerType, AtShape DEF Waiting
  <2>4. QED
    BY <2>1, <2>2, <2>3, OpenMove
<1>4. ASSUME NEW c \in Callers, Opened(c), stack # "closing" PROVE OpenInv'
  <2>1. PICK y \in CallerStates : caller' = [caller EXCEPT ![c] = y]
    BY <1>4, OpenedShape
  <2>2. stack' = "open" /\ UNCHANGED <<closes, torn, runtimes>>
    BY <1>4, OpenedShape
  <2>3. QED
    BY <1>4, <2>1, <2>2, OpenMove
<1>5. ASSUME NEW c \in Callers, Opened(c), stack = "closing" PROVE OpenInv'
  <2>1. PICK y \in CallerStates : caller' = [caller EXCEPT ![c] = y]
    BY <1>5, OpenedShape
  <2>2. stack' = "open" /\ UNCHANGED <<closes, torn, runtimes>>
    BY <1>5, OpenedShape
  <2>3. QED
    BY <1>5, <2>2 DEF OpenInv
<1>6. ASSUME NEW c \in Callers, GetLocked(c) PROVE OpenInv'
  <2>1. PICK y \in CallerStates :
          /\ caller' = [caller EXCEPT ![c] = y]
          /\ \/ y = Given(caller[c], runtimes[caller[c].agent])
             \/ y = Idle(caller[c])
             \/ stack # "closed" /\ y = Building(caller[c])
    BY <1>6, GetLockedShape
  <2>2. UNCHANGED <<stack, closes, torn, runtimes>> /\ runtimes[caller[c].agent] \in Runtimes
    BY <1>6, GetLockedShape, CallerType DEF RuntimesTypeOK
  <2>3. Given(caller[c], runtimes[caller[c].agent]).pc = "returned" /\ Idle(caller[c]).pc = "idle"
    BY <2>2, CallerType, GivenShape, IdleShape
  <2>4. y.pc = "building" => stack # "closed"
    BY <2>1, <2>3
  <2>5. QED
    BY <2>1, <2>2, <2>4, OpenMove
<1>7. ASSUME NEW c \in Callers, Built(c) PROVE OpenInv'
  <2>1. PICK r \in Runtimes :
          /\ r.conn = Connection /\ runtimes' = [runtimes EXCEPT ![caller[c].agent] = r]
          /\ Given(caller[c], r) \in CallerStates
          /\ caller' = [caller EXCEPT ![c] = Given(caller[c], r)]
    BY <1>7, BuiltShape
  <2>2. caller[c].pc = "building" /\ UNCHANGED <<stack, closes, torn>>
    BY <1>7, BuiltShape
  <2>3. \A d \in Callers : caller'[d].pc = "building" => caller[d].pc = "building"
    BY <2>1, CallerType, GivenShape DEF RuntimesTypeOK
  <2>4. \A a \in Agents : runtimes'[a] = r \/ runtimes'[a] = runtimes[a]
    BY <2>1 DEF RuntimesTypeOK
  <2>5. QED
    BY <2>1, <2>2, <2>3, <2>4 DEF OpenInv, Connection
<1>8. ASSUME NEW c \in Callers, BuildFails(c) \/ OpenFails(c) \/ Clear(c) PROVE OpenInv'
  <2>1. /\ caller' = [caller EXCEPT ![c] = Idle(caller[c])] /\ UNCHANGED <<stack, closes, torn>>
        /\ runtimes' = runtimes \/ runtimes' = NoRuntimes
    BY <1>8 DEF BuildFails, OpenFails, Clear
  <2>2. Idle(caller[c]) \in CallerStates /\ Idle(caller[c]).pc = "idle"
    BY CallerType, IdleShape
  <2>3. QED
    BY <2>1, <2>2, OpenMove
<1>9. ASSUME NEW c \in Callers, SaveConfig(c) \/ Tested(c) PROVE OpenInv'
  <2>1. Idle(caller[c]) \in CallerStates /\ Idle(caller[c]).pc = "idle"
    BY CallerType, IdleShape
  <2>2. UNCHANGED <<stack, closes, torn>>
    BY <1>9, ChangeShape
  <2>3. CASE epochNow' \in 1..MaxEpoch /\ Invalidate(c, epochNow')
    <3>1. PICK y \in CallerStates :
            /\ caller' = [caller EXCEPT ![c] = y]
            /\ y = Idle(caller[c]) \/ y = Clearing(caller[c], epochNow')
            /\ runtimes' = runtimes \/ runtimes' = NoRuntimes
      BY <2>3, InvalidateShape
    <3>2. epochNow' \in 0..MaxEpoch
      BY <2>3
    <3>3. y.pc \in {"idle", "clearing"}
      BY <2>1, <3>1, <3>2, CallerType, RequestShape
    <3>4. QED
      BY <2>2, <3>1, <3>3, OpenMove
  <2>4. CASE caller' = [caller EXCEPT ![c] = Idle(caller[c])] /\ runtimes' = runtimes
    BY <2>1, <2>2, <2>4, OpenMove
  <2>5. QED
    BY <1>9, <2>3, <2>4, ChangeShape
<1>10. ASSUME NEW c \in Callers, NEW s \in Servers, TestServer(c, s) PROVE OpenInv'
  <2>1. /\ caller' = [caller EXCEPT ![c] = Testing(caller[c], s)]
        /\ UNCHANGED <<stack, closes, torn, runtimes>>
    BY <1>10 DEF TestServer, Testing
  <2>2. Testing(caller[c], s) \in CallerStates /\ Testing(caller[c], s).pc = "testing"
    BY CallerType, RequestShape
  <2>3. QED
    BY <2>1, <2>2, OpenMove
<1>11. CASE StartClose
  BY <1>11 DEF StartClose, OpenInv
<1>12. CASE FinishClose
  BY <1>12 DEF FinishClose, OpenInv, NoRuntimes
<1>13. CASE UNCHANGED runtimesVars
  BY <1>13 DEF runtimesVars, OpenInv
<1>14. QED
  BY <1>2, <1>3, <1>4, <1>5, <1>6, <1>7, <1>8, <1>9, <1>10, <1>11, <1>12, <1>13 DEF RuntimesNext, Resume

-----------------------------------------------------------------------------
(* The invariant.                                                          *)

RuntimesInv == RuntimesTypeOK /\ LocksInv /\ FreshInv /\ OpenInv

LEMMA RuntimesInitInv == RuntimesInit => RuntimesInv
<1> SUFFICES ASSUME RuntimesInit PROVE RuntimesInv
  OBVIOUS
<1>1. NewCaller.pc = "idle" /\ NewCaller.floor = 0 /\ NewCaller.got = NoRuntime
  BY DEF NewCaller
<1>2. RuntimesTypeOK
  <2>1. [ver |-> 1, defined |-> {}, uses |-> [a \in Agents |-> {}]] \in Configs
    BY RuntimesConstantTypes DEF Configs
  <2>2. [a \in Agents |-> NoRuntime] \in [Agents -> Runtimes]
        /\ [c \in Callers |-> NewCaller] \in [Callers -> CallerStates]
    BY RuntimesConstantTypes
  <2>3. 1 \in 1..MaxEpoch /\ 0 \in 0..MaxCloses
    BY RuntimesConstantTypes
  <2>4. file \in Configs /\ runtimes \in [Agents -> Runtimes] /\ caller \in [Callers -> CallerStates]
    BY <2>1, <2>2 DEF RuntimesInit
  <2>5. <<>> \in Seq(Callers) /\ lock = <<>> /\ initLock = <<>> /\ torn = FALSE
    BY DEF RuntimesInit
  <2>6. epochNow \in 1..MaxEpoch /\ answered \in 1..MaxEpoch /\ closes \in 0..MaxCloses
        /\ tested \in [Servers -> {"untested", "ok", "error"}] /\ stack \in {"open", "closing", "closed"}
    BY <2>3 DEF RuntimesInit
  <2>7. QED
    BY <2>4, <2>5, <2>6 DEF RuntimesTypeOK
<1>3. LocksInv
  <2>1. \A P : "idle" \notin P => InPhase(P) = {}
    BY <1>1 DEF RuntimesInit, InPhase
  <2>2. InPhase(LockWaits) = {} /\ InPhase(InitWaits) = {} /\ InPhase({"building"}) = {}
        /\ InPhase({"opening"}) = {}
    BY <2>1 DEF LockWaits, InitWaits
  <2>3. DOMAIN <<>> = {}
    OBVIOUS
  <2>4. QED
    BY <2>2, <2>3 DEF RuntimesInit, LocksInv, Queue
<1>4. FreshInv
  BY <1>1 DEF RuntimesInit, FreshInv, CallerFresh
<1>5. OpenInv
  BY DEF RuntimesInit, OpenInv
<1>6. QED
  BY <1>2, <1>3, <1>4, <1>5 DEF RuntimesInv

\* The variables that have no queue in them.
LEMMA RuntimesTypeStep ==
    ASSUME RuntimesTypeOK, OpenInv, [RuntimesNext]_runtimesVars
    PROVE  /\ file' \in Configs /\ epochNow' \in 1..MaxEpoch /\ answered' \in 1..MaxEpoch
           /\ tested' \in [Servers -> {"untested", "ok", "error"}]
           /\ stack' \in {"open", "closing", "closed"} /\ closes' \in 0..MaxCloses
           /\ torn' \in BOOLEAN /\ runtimes' \in [Agents -> Runtimes]
<1> USE RuntimesConstantTypes DEF RuntimesTypeOK
<1> DEFINE Good == /\ file' \in Configs /\ epochNow' \in 1..MaxEpoch /\ answered' \in 1..MaxEpoch
                   /\ tested' \in [Servers -> {"untested", "ok", "error"}]
                   /\ stack' \in {"open", "closing", "closed"} /\ closes' \in 0..MaxCloses
                   /\ torn' \in BOOLEAN /\ runtimes' \in [Agents -> Runtimes]
<1>1. ASSUME NEW c \in Callers, NEW a \in Agents, GetRuntime(c, a) \/ InitLocked(c) \/ Opened(c)
      PROVE  UNCHANGED <<configVars, closes, torn, runtimes>> /\ stack' \in {stack, "open"}
  BY <1>1 DEF GetRuntime, InitLocked, Opened
<1>2. ASSUME NEW c \in Callers, GetLocked(c) \/ BuildFails(c) \/ OpenFails(c)
      PROVE  UNCHANGED <<configVars, closes, torn, runtimes, stack>>
  BY <1>2 DEF GetLocked, BuildFails, OpenFails, storeVars
<1>3. ASSUME NEW c \in Callers, Built(c)
      PROVE  UNCHANGED <<configVars, closes, torn, stack>> /\ runtimes' \in [Agents -> Runtimes]
  BY <1>3, BuiltShape, CallerType DEF storeVars
<1>4. ASSUME NEW c \in Callers, SaveConfig(c) \/ Tested(c)
      PROVE  /\ file' \in Configs /\ epochNow' \in 1..MaxEpoch /\ answered' \in 1..MaxEpoch
             /\ tested' \in [Servers -> {"untested", "ok", "error"}]
             /\ runtimes' \in [Agents -> Runtimes] /\ UNCHANGED <<closes, torn, stack>>
  <2>1. UNCHANGED <<closes, torn, stack>>
    BY <1>4, ChangeShape DEF storeVars
  <2>2. /\ epochNow' \in 1..MaxEpoch
        /\ answered' \in 1..MaxEpoch /\ runtimes' \in [Agents -> Runtimes]
    <3>1. CASE epochNow' \in 1..MaxEpoch /\ Invalidate(c, epochNow')
      BY <3>1, InvalidateShape
    <3>2. CASE UNCHANGED <<epochNow, answered, runtimes>>
      BY <3>2
    <3>3. QED
      BY <1>4, <3>1, <3>2, ChangeShape
  <2>3. tested' \in [Servers -> {"untested", "ok", "error"}]
    BY <1>4, CallerType DEF SaveConfig, Tested
  <2>4. file' \in Configs
    <3>1. CASE SaveConfig(c)
      <4>1. PICK defined \in SUBSET Servers : \E uses \in [Agents -> SUBSET defined] :
              file' = [ver |-> epochNow + 1, defined |-> defined, uses |-> uses]
        BY <3>1 DEF SaveConfig
      <4>2. PICK uses \in [Agents -> SUBSET defined] :
              file' = [ver |-> epochNow + 1, defined |-> defined, uses |-> uses]
        BY <4>1
      <4>3. uses \in [Agents -> SUBSET Servers]
        BY <4>2
      <4>4. epochNow + 1 \in 1..MaxEpoch
        BY <3>1 DEF SaveConfig
      <4>5. QED
        BY <4>2, <4>3, <4>4 DEF Configs
    <3>2. CASE Tested(c)
      BY <3>2 DEF Tested
    <3>3. QED
      BY <1>4, <3>1, <3>2
  <2>5. QED
    BY <2>1, <2>2, <2>3, <2>4
<1>5. ASSUME NEW c \in Callers, Clear(c)
      PROVE  /\ UNCHANGED <<file, epochNow, tested, closes, torn, stack>>
             /\ runtimes' = NoRuntimes /\ answered' \in 1..MaxEpoch
  <2>1. caller[c].epoch \in 0..MaxEpoch /\ answered \in 1..MaxEpoch
    BY CallerType DEF CallerStates
  <2>2. answered' = IF caller[c].epoch > answered THEN caller[c].epoch ELSE answered
    BY <1>5 DEF Clear
  <2>3. answered' \in 1..MaxEpoch
    BY <2>1, <2>2
  <2>4. QED
    BY <1>5, <2>3 DEF Clear, storeVars
<1>6. ASSUME NEW c \in Callers, NEW s \in Servers, TestServer(c, s)
      PROVE  UNCHANGED <<configVars, closes, torn, runtimes, stack>>
  BY <1>6 DEF TestServer, storeVars
<1>7. CASE StartClose \/ FinishClose
  <2>1. UNCHANGED configVars /\ (runtimes' = runtimes \/ runtimes' = NoRuntimes)
    BY <1>7 DEF StartClose, FinishClose
  <2>2. torn' \in BOOLEAN
    BY <1>7, Zenon DEF StartClose, FinishClose
  <2>3. closes' \in 0..MaxCloses /\ stack' \in {"open", "closing", "closed"}
    BY <1>7 DEF StartClose, FinishClose, OpenInv
  <2>4. QED
    BY <2>1, <2>2, <2>3 DEF configVars
<1>8. CASE UNCHANGED runtimesVars
  BY <1>8 DEF runtimesVars
<1>9. ASSUME UNCHANGED <<configVars, closes, torn>>, stack' \in {stack, "open"},
             runtimes' \in [Agents -> Runtimes]
      PROVE  Good
  BY <1>9 DEF configVars
<1>10. ASSUME NEW c \in Callers, Resume(c) PROVE Good
  <2>1. CASE InitLocked(c) \/ Opened(c)
    <3>1. PICK a \in Agents : TRUE
      BY RuntimesAssumption
    <3>2. QED
      BY <1>1, <1>9, <2>1
  <2>2. CASE GetLocked(c) \/ BuildFails(c) \/ OpenFails(c)
    BY <1>2, <1>9, <2>2
  <2>3. CASE Built(c)
    BY <1>3, <1>9, <2>3
  <2>4. CASE Clear(c)
    BY <1>5, <2>4
  <2>5. CASE Tested(c)
    BY <1>4, <2>5
  <2>6. QED
    BY <1>10, <2>1, <2>2, <2>3, <2>4, <2>5 DEF Resume
<1>11. ASSUME NEW c \in Callers, NEW a \in Agents, GetRuntime(c, a) PROVE Good
  BY <1>1, <1>9, <1>11
<1>12. ASSUME NEW c \in Callers, NEW s \in Servers, TestServer(c, s) PROVE Good
  BY <1>6, <1>9, <1>12
<1>13. ASSUME NEW c \in Callers, SaveConfig(c) PROVE Good
  BY <1>4, <1>13
<1>14. QED
  BY <1>7, <1>8, <1>10, <1>11, <1>12, <1>13 DEF RuntimesNext

LEMMA RuntimesStep == RuntimesInv /\ [RuntimesNext]_runtimesVars => RuntimesInv'
<1> SUFFICES ASSUME RuntimesInv, [RuntimesNext]_runtimesVars PROVE RuntimesInv'
  OBVIOUS
<1>1. RuntimesTypeOK'
  BY LocksStep, RuntimesTypeStep DEF RuntimesInv, RuntimesTypeOK
<1>2. QED
  BY <1>1, LocksStep, FreshStep, OpenStep DEF RuntimesInv

THEOREM RuntimesInvHolds == RuntimesSpec => []RuntimesInv
BY RuntimesInitInv, RuntimesStep, PTL DEF RuntimesSpec

-----------------------------------------------------------------------------
(* What follows.                                                           *)

\* Type correctness of the agent runtime manager: a caller, a runtime and a configuration
\* are what the code takes them for, after any interleaving of its coroutines.
THEOREM RuntimesTypes == RuntimesSpec => []RuntimesTypeOK
<1>1. RuntimesInv => RuntimesTypeOK
  BY DEF RuntimesInv
<1>2. QED
  BY <1>1, RuntimesInvHolds, PTL

\* Nobody waits for a lock that nobody will release: whoever waits is in the queue of the
\* lock, once, and whoever runs under it is the first there.
THEOREM NobodyForgotten == RuntimesSpec => []NobodyIsForgotten
<1>1. ASSUME RuntimesInv PROVE NobodyIsForgotten
  <2>1. Queue(lock, InPhase(LockWaits), InPhase({"building"}))
        /\ Queue(initLock, InPhase(InitWaits), InPhase({"opening"}))
    BY <1>1 DEF RuntimesInv, LocksInv
  <2>2. ASSUME NEW c \in Callers
        PROVE  /\ c \in InPhase(LockWaits) <=> caller[c].pc \in {"queued", "building", "clearing"}
               /\ c \in InPhase(InitWaits) <=> caller[c].pc \in {"init", "opening"}
               /\ c \in InPhase({"building"}) <=> caller[c].pc = "building"
               /\ c \in InPhase({"opening"}) <=> caller[c].pc = "opening"
    BY DEF InPhase, LockWaits, InitWaits
  <2>3. ASSUME NEW c \in Callers
        PROVE  /\ Cardinality({i \in DOMAIN lock : lock[i] = c}) =
                     IF caller[c].pc \in {"queued", "building", "clearing"} THEN 1 ELSE 0
               /\ Cardinality({i \in DOMAIN initLock : initLock[i] = c}) =
                     IF caller[c].pc \in {"init", "opening"} THEN 1 ELSE 0
    BY <2>1, <2>2, QueueCounts
  <2>4. ASSUME NEW c \in Callers
        PROVE  /\ caller[c].pc = "building" => Head(lock) = c
               /\ caller[c].pc = "opening" => Head(initLock) = c
    BY <2>1, <2>2 DEF Queue
  <2>5. QED
    BY <2>3, <2>4 DEF NobodyIsForgotten
<1>2. QED
  BY <1>1, RuntimesInvHolds, PTL

\* A cached runtime talks to the SQLite connections that are open, however often the
\* manager is closed and opened again, unless it was being built when they were closed.
THEOREM CachedOnOpenStore == RuntimesSpec => []CachedIsOnOpenStore
<1>1. RuntimesInv => CachedIsOnOpenStore
  BY DEF RuntimesInv, OpenInv, CachedIsOnOpenStore, Connection
<1>2. QED
  BY <1>1, RuntimesInvHolds, PTL

\* Nobody replaces a cached runtime by another one: only an invalidation or close()
\* removes it, and whoever builds has looked again once it had the lock.
THEOREM RuntimeShared == RuntimesSpec => RuntimeIsShared
<1>1. ASSUME RuntimesInv, RuntimesNext
      PROVE  \A a \in Agents : runtimes[a] # NoRuntime /\ runtimes'[a] # NoRuntime
                               => runtimes'[a] = runtimes[a]
  <2> USE <1>1 DEF RuntimesInv, configVars
  <2>1. CASE runtimes' = runtimes \/ runtimes' = NoRuntimes
    BY <2>1 DEF NoRuntimes
  <2>2. ASSUME NEW c \in Callers, Built(c)
        PROVE  \A a \in Agents : runtimes[a] # NoRuntime => runtimes'[a] = runtimes[a]
    <3>1. PICK r \in Runtimes : runtimes' = [runtimes EXCEPT ![caller[c].agent] = r]
      BY <2>2, BuiltShape
    <3>2. runtimes[caller[c].agent] = NoRuntime
      BY <2>2, BuiltShape DEF FreshInv, CallerFresh
    <3>3. QED
      BY <3>1, <3>2 DEF RuntimesTypeOK
  <2>3. ASSUME NEW c \in Callers, NEW a \in Agents, GetRuntime(c, a) PROVE runtimes' = runtimes
    BY <2>3 DEF GetRuntime
  <2>4. ASSUME NEW c \in Callers, NEW s \in Servers, TestServer(c, s) PROVE runtimes' = runtimes
    BY <2>4 DEF TestServer
  <2>5. ASSUME NEW c \in Callers, SaveConfig(c) \/ Tested(c)
        PROVE  runtimes' = runtimes \/ runtimes' = NoRuntimes
    BY <2>5 DEF SaveConfig, Tested, Invalidate
  <2>6. ASSUME NEW c \in Callers, InitLocked(c) \/ Opened(c) \/ OpenFails(c) \/ GetLocked(c)
                                  \/ BuildFails(c) \/ Clear(c)
        PROVE  runtimes' = runtimes \/ runtimes' = NoRuntimes
    BY <2>6 DEF InitLocked, Opened, OpenFails, GetLocked, BuildFails, Clear
  <2>7. CASE StartClose \/ FinishClose
    BY <2>1, <2>7 DEF StartClose, FinishClose
  <2>8. QED
    BY <1>1, <2>1, <2>2, <2>3, <2>4, <2>5, <2>6, <2>7 DEF RuntimesNext, Resume
<1>2. RuntimesInv /\ [RuntimesNext]_runtimesVars
      => [\A a \in Agents : runtimes[a] # NoRuntime /\ runtimes'[a] # NoRuntime
                            => runtimes'[a] = runtimes[a]]_runtimesVars
  BY <1>1
<1>3. QED
  BY <1>2, RuntimesInvHolds, PTL DEF RuntimesSpec, RuntimeIsShared

-----------------------------------------------------------------------------
(* The refinement of FreshReads.                                            *)

Reading == {"init", "opening", "queued", "building"}

\* The read of a caller.
ReadOf(x) == [phase |-> CASE x.pc = "returned" -> "returned"
                          [] x.pc \in Reading -> "reading"
                          [] OTHER -> "idle",
              floor |-> x.floor, got |-> x.got.ver]

\* The reader of the instance.
reads == [c \in Callers |-> ReadOf(caller[c])]

LEMMA ReadPhases ==
    ASSUME NEW x
    PROVE  /\ x.pc = "returned" => ReadOf(x).phase = "returned"
           /\ x.pc \in Reading => ReadOf(x).phase = "reading"
           /\ x.pc \notin Reading /\ x.pc # "returned" => ReadOf(x).phase = "idle"
           /\ ReadOf(x).floor = x.floor /\ ReadOf(x).got = x.got.ver
           /\ ReadOf(x) = [phase |-> ReadOf(x).phase, floor |-> x.floor, got |-> x.got.ver]
BY DEF ReadOf, Reading

LEMMA ReadOfReading ==
    ASSUME NEW x, x.pc \in Reading
    PROVE  ReadOf(x) = [phase |-> "reading", floor |-> x.floor, got |-> x.got.ver]
BY DEF ReadOf, Reading

Reads == [phase: {"idle", "reading", "returned"}, floor: Nat, got: Nat]

LEMMA ReadsType ==
    ASSUME RuntimesTypeOK
    PROVE  reads \in [Callers -> Reads]
<1>1. ASSUME NEW x \in CallerStates PROVE ReadOf(x) \in Reads
  <2>1. x.floor \in Nat /\ x.got.ver \in Nat
    BY RuntimesConstantTypes DEF CallerStates, Runtimes
  <2>2. ReadOf(x).phase \in {"idle", "reading", "returned"}
    BY ReadPhases
  <2>3. ReadOf(x) = [phase |-> ReadOf(x).phase, floor |-> x.floor, got |-> x.got.ver]
    BY ReadPhases
  <2>4. [phase |-> ReadOf(x).phase, floor |-> x.floor, got |-> x.got.ver] \in Reads
    BY <2>1, <2>2 DEF Reads
  <2>5. QED
    BY <2>3, <2>4
<1>2. \A c \in Callers : caller[c] \in CallerStates
  BY DEF RuntimesTypeOK
<1>3. QED
  BY <1>1, <1>2 DEF reads

\* A read that returns v.
LEMMA ReadReturns ==
    ASSUME NEW x \in Reads, NEW v \in Nat
    PROVE  [x EXCEPT !.phase = "returned", !.got = v]
             = [phase |-> "returned", floor |-> x.floor, got |-> v]
<1> DEFINE y == [x EXCEPT !.phase = "returned", !.got = v]
<1>1. y \in Reads /\ y.floor = x.floor /\ y.phase = "returned" /\ y.got = v
  BY DEF Reads
<1> HIDE DEF y
<1>2. y = [phase |-> y.phase, floor |-> y.floor, got |-> y.got]
  BY <1>1 DEF Reads
<1>3. QED
  BY <1>1, <1>2 DEF y

\* One reader returns v.
LEMMA ReaderReturns ==
    ASSUME NEW F \in [Callers -> Reads], NEW c \in Callers, NEW v \in Nat
    PROVE  [F EXCEPT ![c].phase = "returned", ![c].got = v]
             = [F EXCEPT ![c] = [phase |-> "returned", floor |-> F[c].floor, got |-> v]]
<1>1. [F EXCEPT ![c].phase = "returned", ![c].got = v]
        = [F EXCEPT ![c] = [F[c] EXCEPT !.phase = "returned", !.got = v]]
  BY Zenon
<1>2. QED
  BY <1>1, ReadReturns

\* One caller moves.
LEMMA ReadsMove ==
    ASSUME RuntimesTypeOK, NEW c \in Callers, NEW y, caller' = [caller EXCEPT ![c] = y]
    PROVE  reads' = [reads EXCEPT ![c] = ReadOf(y)] /\ reads[c] = ReadOf(caller[c])
<1>1. \A d \in Callers : caller'[d] = IF d = c THEN y ELSE caller[d]
  BY DEF RuntimesTypeOK
<1>2. reads' = [d \in Callers |-> ReadOf(caller'[d])]
  BY DEF reads, ReadOf
<1>3. \A d \in Callers : ReadOf(caller'[d]) = IF d = c THEN ReadOf(y) ELSE ReadOf(caller[d])
  BY <1>1
<1>4. QED
  BY <1>2, <1>3 DEF reads

\* A read that goes on does not change for FreshReads.
LEMMA ReadsSame ==
    ASSUME RuntimesTypeOK, NEW c \in Callers, NEW y, caller' = [caller EXCEPT ![c] = y],
           ReadOf(y) = ReadOf(caller[c])
    PROVE  reads' = reads
BY ReadsMove DEF reads

NoReadYet == [phase |-> "idle", floor |-> 0, got |-> 0]

\* The steps of FreshReads, of the reads of the callers.
LEMMA AbstractSteps ==
    ASSUME NEW c \in Callers
    PROVE  /\ /\ reads[c].phase # "reading" /\ epochNow' = epochNow + 1
              /\ answered' \in {answered, epochNow + 1}
              /\ reads' = [reads EXCEPT ![c] = NoReadYet]
              => FreshAbstract!Change(c)
           /\ answered' \in answered..epochNow /\ UNCHANGED <<epochNow, reads>>
              => FreshAbstract!Acknowledge
           /\ /\ reads[c].phase # "reading" /\ UNCHANGED <<epochNow, answered>>
              /\ reads' = [reads EXCEPT ![c] = [phase |-> "reading", floor |-> answered, got |-> 0]]
              => FreshAbstract!Begin(c)
           /\ /\ reads[c].phase = "reading" /\ UNCHANGED <<epochNow, answered>>
              /\ \E v \in reads[c].floor..epochNow :
                    reads' = [reads EXCEPT ![c].phase = "returned", ![c].got = v]
              => FreshAbstract!Return(c)
           /\ /\ reads[c].phase # "reading" /\ UNCHANGED <<epochNow, answered>>
              /\ \E v \in answered..epochNow :
                    reads' = [reads EXCEPT ![c] = [phase |-> "returned", floor |-> answered, got |-> v]]
              => FreshAbstract!ReadNow(c)
           /\ reads' = [reads EXCEPT ![c] = NoReadYet] /\ UNCHANGED <<epochNow, answered>>
              => FreshAbstract!Leave(c)
           /\ UNCHANGED <<epochNow, answered, reads>> => UNCHANGED FreshAbstract!freshVars
<1> USE DEF reads, ReadOf, Reading, NoReadYet, FreshAbstract!NoRead
<1>1. /\ reads[c].phase # "reading" /\ epochNow' = epochNow + 1
      /\ answered' \in {answered, epochNow + 1}
      /\ reads' = [reads EXCEPT ![c] = NoReadYet]
      => FreshAbstract!Change(c)
  BY Zenon DEF FreshAbstract!Change
<1>2. answered' \in answered..epochNow /\ UNCHANGED <<epochNow, reads>> => FreshAbstract!Acknowledge
  BY DEF FreshAbstract!Acknowledge
<1>3. /\ reads[c].phase # "reading" /\ UNCHANGED <<epochNow, answered>>
      /\ reads' = [reads EXCEPT ![c] = [phase |-> "reading", floor |-> answered, got |-> 0]]
      => FreshAbstract!Begin(c)
  BY DEF FreshAbstract!Begin
<1>4. /\ reads[c].phase = "reading" /\ UNCHANGED <<epochNow, answered>>
      /\ \E v \in reads[c].floor..epochNow :
            reads' = [reads EXCEPT ![c].phase = "returned", ![c].got = v]
      => FreshAbstract!Return(c)
  BY DEF FreshAbstract!Return
<1>5. /\ reads[c].phase # "reading" /\ UNCHANGED <<epochNow, answered>>
      /\ \E v \in answered..epochNow :
            reads' = [reads EXCEPT ![c] = [phase |-> "returned", floor |-> answered, got |-> v]]
      => FreshAbstract!ReadNow(c)
  BY DEF FreshAbstract!ReadNow
<1>6. reads' = [reads EXCEPT ![c] = NoReadYet] /\ UNCHANGED <<epochNow, answered>>
      => FreshAbstract!Leave(c)
  BY DEF FreshAbstract!Leave
<1>7. UNCHANGED <<epochNow, answered, reads>> => UNCHANGED FreshAbstract!freshVars
  BY DEF FreshAbstract!freshVars
<1>8. QED
  BY <1>1, <1>2, <1>3, <1>4, <1>5, <1>6, <1>7

LEMMA AbstractNext ==
    ASSUME NEW c \in Callers,
           \/ FreshAbstract!Change(c) \/ FreshAbstract!Begin(c) \/ FreshAbstract!Return(c)
           \/ FreshAbstract!ReadNow(c) \/ FreshAbstract!Leave(c)
    PROVE  FreshAbstract!Next
BY DEF FreshAbstract!Next

\* What idle callers look like.
LEMMA ReadOfIdle ==
    ASSUME NEW y \in CallerStates, y.pc \notin Reading, y.pc # "returned", y.floor = 0, y.got = NoRuntime
    PROVE  ReadOf(y) = NoReadYet
BY DEF ReadOf, NoReadYet, NoRuntime

\* A caller that gets a runtime returns from its read, which is as new as its floor.
LEMMA ReturnStep ==
    ASSUME RuntimesTypeOK, NEW c \in Callers, caller[c].pc \in Reading, NEW r \in Runtimes,
           caller[c].floor <= r.ver, r.ver <= epochNow,
           caller' = [caller EXCEPT ![c] = Given(caller[c], r)], UNCHANGED <<epochNow, answered>>
    PROVE  FreshAbstract!Next
<1>1. reads' = [reads EXCEPT ![c] = ReadOf(Given(caller[c], r))] /\ reads[c] = ReadOf(caller[c])
  BY ReadsMove
<1>2. Given(caller[c], r).pc = "returned" /\ Given(caller[c], r).floor = caller[c].floor
      /\ Given(caller[c], r).got = r
  BY CallerType, GivenShape
<1>3. ReadOf(Given(caller[c], r)) = [phase |-> "returned", floor |-> caller[c].floor, got |-> r.ver]
  BY <1>2, ReadPhases
<1>4. reads[c] = [phase |-> "reading", floor |-> caller[c].floor, got |-> caller[c].got.ver]
  BY <1>1, ReadOfReading
<1>5. r.ver \in Nat
  BY RuntimesConstantTypes DEF Runtimes
<1>6. reads' = [reads EXCEPT ![c].phase = "returned", ![c].got = r.ver]
  <2>1. reads' = [reads EXCEPT ![c] = [phase |-> "returned", floor |-> reads[c].floor, got |-> r.ver]]
    BY <1>1, <1>3, <1>4
  <2>2. QED
    BY <1>5, <2>1, ReadsType, ReaderReturns
<1>7. r.ver \in reads[c].floor..epochNow
  <2>1. caller[c].floor \in Nat /\ epochNow \in Nat /\ r.ver \in Nat
    BY FreshNumbers, RuntimesConstantTypes DEF Runtimes
  <2>2. QED
    BY <1>4, <2>1
<1>8. FreshAbstract!Return(c)
  <2>1. reads[c].phase = "reading"
    BY <1>4
  <2>2. \E v \in reads[c].floor..epochNow :
            reads' = [reads EXCEPT ![c].phase = "returned", ![c].got = v]
    BY <1>6, <1>7
  <2>3. QED
    BY <2>1, <2>2, AbstractSteps
<1>9. QED
  BY <1>8, AbstractNext

\* A caller that gives up, or forgets what it got.
LEMMA LeaveStep ==
    ASSUME RuntimesTypeOK, NEW c \in Callers, NEW y \in CallerStates,
           caller' = [caller EXCEPT ![c] = y], y.pc \notin Reading, y.pc # "returned",
           y.floor = 0, y.got = NoRuntime, UNCHANGED <<epochNow, answered>>
    PROVE  FreshAbstract!Next
<1>0. ReadOf(y) = NoReadYet
  BY ReadOfIdle
<1>1. reads' = [reads EXCEPT ![c] = NoReadYet]
  BY <1>0, ReadsMove
<1>2. FreshAbstract!Leave(c)
  BY <1>1, AbstractSteps
<1>3. QED
  BY <1>2, AbstractNext

\* A caller that goes on with its read.
LEMMA WaitStep ==
    ASSUME RuntimesTypeOK, NEW c \in Callers, caller[c].pc \in Reading, NEW y \in CallerStates,
           caller' = [caller EXCEPT ![c] = y], y.pc \in Reading,
           y.floor = caller[c].floor, y.got = caller[c].got, UNCHANGED <<epochNow, answered>>
    PROVE  UNCHANGED FreshAbstract!freshVars
<1>1. ReadOf(y) = ReadOf(caller[c])
  <2>1. ReadOf(y) = [phase |-> "reading", floor |-> y.floor, got |-> y.got.ver]
    BY ReadOfReading
  <2>2. ReadOf(caller[c])
          = [phase |-> "reading", floor |-> caller[c].floor, got |-> caller[c].got.ver]
    BY ReadOfReading
  <2>3. QED
    BY <2>1, <2>2
<1>2. reads' = reads
  BY <1>1, ReadsSame
<1>3. QED
  BY <1>2, AbstractSteps

\* A caller that waits looks the runtime up.
LEMMA LookedStep ==
    ASSUME RuntimesInv, NEW c \in Callers, caller[c].pc \in Reading, NEW y \in CallerStates,
           NEW stores, caller' = [caller EXCEPT ![c] = y], Looked(c, caller[c], stores, y),
           UNCHANGED <<epochNow, answered, runtimes>>
    PROVE  FreshAbstract!Next \/ UNCHANGED FreshAbstract!freshVars
<1> DEFINE x == caller[c]
<1>1. RuntimesTypeOK /\ x \in CallerStates /\ x.agent \in Agents
  BY CallerType DEF RuntimesInv
<1>2. CASE runtimes[x.agent] # NoRuntime /\ y = Given(x, runtimes[x.agent])
  <2>1. runtimes[x.agent] \in Runtimes /\ x.floor <= answered /\ answered <= runtimes[x.agent].ver
        /\ runtimes[x.agent].ver <= epochNow
    BY <1>1, <1>2, FreshNumbers DEF RuntimesInv, FreshInv, CallerFresh, Reading
  <2>2. x.floor <= runtimes[x.agent].ver
    BY <1>1, <2>1, FreshNumbers
  <2>3. QED
    BY <1>1, <1>2, <2>1, <2>2, ReturnStep
<1>3. CASE y = At(x, "queued")
  <2>1. y.pc = "queued" /\ y.floor = x.floor /\ y.got = x.got
    BY <1>1, <1>3, AtShape DEF Waiting
  <2>2. QED
    BY <1>1, <2>1, WaitStep DEF Reading
<1>4. CASE y = Idle(x)
  <2>1. y.pc = "idle" /\ y.floor = 0 /\ y.got = NoRuntime
    BY <1>1, <1>4, IdleShape
  <2>2. QED
    BY <1>1, <2>1, LeaveStep DEF Reading
<1>5. CASE y = Building(x)
  <2>1. y.pc = "building" /\ y.floor = x.floor /\ y.got = x.got
    BY <1>1, <1>5, BuildingShape
  <2>2. QED
    BY <1>1, <2>1, WaitStep DEF Reading
<1>6. QED
  BY <1>2, <1>3, <1>4, <1>5 DEF Looked

\* A caller that asks begins to read, or is answered at once.
LEMMA AskStep ==
    ASSUME RuntimesInv, NEW c \in Callers, NEW a \in Agents, GetRuntime(c, a)
    PROVE  FreshAbstract!Next
<1> DEFINE x == Asking(caller[c], a)
<1>1. PICK y \in CallerStates :
        /\ caller' = [caller EXCEPT ![c] = y]
        /\ y = At(x, "init") \/ y = At(x, "opening") \/ Looked(c, x, stack, y)
  BY GetRuntimeShape DEF RuntimesInv
<1>2. RuntimesTypeOK /\ Free(c) /\ UNCHANGED <<epochNow, answered, runtimes>>
  BY GetRuntimeShape DEF RuntimesInv, configVars
<1>3. x \in CallerStates /\ x.floor = answered /\ x.got = NoRuntime /\ x.agent = a
  BY <1>2, CallerType, AskingShape
<1>4. reads[c].phase # "reading" /\ reads' = [reads EXCEPT ![c] = ReadOf(y)]
  <2>1. caller[c].pc \notin Reading
    BY <1>2 DEF Free, Reading
  <2>2. QED
    BY <1>1, <1>2, <2>1, ReadsMove, ReadPhases
<1>5. ASSUME y.pc \in Reading, y.floor = answered, y.got = NoRuntime PROVE FreshAbstract!Next
  <2>0. y.got.ver = 0
    BY <1>5 DEF NoRuntime
  <2>a. ReadOf(y) = [phase |-> ReadOf(y).phase, floor |-> y.floor, got |-> y.got.ver]
        /\ ReadOf(y).phase = "reading"
    BY <1>5, ReadPhases
  <2>1. ReadOf(y) = [phase |-> "reading", floor |-> answered, got |-> 0]
    BY <1>5, <2>0, <2>a
  <2>2. FreshAbstract!Begin(c)
    BY <1>2, <1>4, <2>1, AbstractSteps
  <2>3. QED
    BY <2>2, AbstractNext
<1>6. CASE y = At(x, "init") \/ y = At(x, "opening") \/ y = At(x, "queued")
  <2>1. y.pc \in {"init", "opening", "queued"} /\ y.floor = answered /\ y.got = NoRuntime
    BY <1>3, <1>6, AtShape DEF Waiting
  <2>2. QED
    BY <1>5, <2>1 DEF Reading
<1>7. CASE y = Building(x)
  <2>1. y.pc = "building" /\ y.floor = answered /\ y.got = NoRuntime
    BY <1>2, <1>3, <1>7, BuildingShape
  <2>2. QED
    BY <1>5, <2>1 DEF Reading
<1>8. CASE y = Idle(x)
  <2>1. y.pc = "idle" /\ y.floor = 0 /\ y.got = NoRuntime
    BY <1>3, <1>8, IdleShape
  <2>2. QED
    BY <1>1, <1>2, <2>1, LeaveStep DEF Reading
<1>9. CASE runtimes[a] # NoRuntime /\ y = Given(x, runtimes[a])
  <2>1. runtimes[a] \in Runtimes /\ answered <= runtimes[a].ver /\ runtimes[a].ver <= epochNow
    BY <1>2, <1>9, FreshNumbers DEF RuntimesInv, FreshInv
  <2>2. y.pc = "returned" /\ y.floor = answered /\ y.got = runtimes[a]
    BY <1>3, <1>9, <2>1, GivenShape
  <2>3. ReadOf(y) = [phase |-> "returned", floor |-> answered, got |-> runtimes[a].ver]
    BY <2>2, ReadPhases
  <2>4. runtimes[a].ver \in answered..epochNow
    BY <1>2, <2>1, FreshNumbers
  <2>5. FreshAbstract!ReadNow(c)
    BY <1>2, <1>4, <2>3, <2>4, AbstractSteps
  <2>6. QED
    BY <2>5, AbstractNext
<1>10. QED
  BY <1>1, <1>3, <1>6, <1>7, <1>8, <1>9 DEF Looked

\* A request changes the configuration: it was not reading, and now it has forgotten
\* what it had read before.
LEMMA ChangeStep ==
    ASSUME RuntimesInv, NEW c \in Callers, SaveConfig(c) \/ Tested(c)
    PROVE  FreshAbstract!Next
<1>1. RuntimesTypeOK /\ caller[c].pc \notin Reading
  BY ChangeShape DEF RuntimesInv, Reading
<1>2. Idle(caller[c]) \in CallerStates /\ Idle(caller[c]).pc = "idle" /\ Idle(caller[c]).floor = 0
      /\ Idle(caller[c]).got = NoRuntime
  BY <1>1, CallerType, IdleShape
<1>3. CASE epochNow' = epochNow + 1 /\ epochNow' \in 1..MaxEpoch /\ Invalidate(c, epochNow')
  <2>1. PICK y \in CallerStates :
          /\ caller' = [caller EXCEPT ![c] = y]
          /\ y = Idle(caller[c]) \/ y = Clearing(caller[c], epochNow')
          /\ answered' = epochNow' \/ answered' = answered
    BY <1>1, <1>3, InvalidateShape
  <2>2. epochNow' \in 0..MaxEpoch
    BY <1>3
  <2>3. y.pc \in {"idle", "clearing"} /\ y.floor = 0 /\ y.got = NoRuntime
    BY <1>1, <1>2, <2>1, <2>2, CallerType, RequestShape
  <2>4. ReadOf(y) = NoReadYet
    BY <2>3, ReadOfIdle DEF Reading
  <2>5. reads' = [reads EXCEPT ![c] = NoReadYet] /\ reads[c].phase # "reading"
    BY <1>1, <2>1, <2>4, ReadsMove, ReadPhases
  <2>6. FreshAbstract!Change(c)
    BY <1>3, <2>1, <2>5, AbstractSteps
  <2>7. QED
    BY <2>6, AbstractNext
<1>4. CASE /\ caller' = [caller EXCEPT ![c] = Idle(caller[c])]
           /\ UNCHANGED <<file, epochNow, answered, lock, runtimes>>
  BY <1>1, <1>2, <1>4, LeaveStep DEF Reading
<1>5. QED
  BY <1>1, <1>3, <1>4, ChangeShape

LEMMA StepIsFresh ==
    ASSUME RuntimesInv, [RuntimesNext]_runtimesVars
    PROVE  [FreshAbstract!Next]_(FreshAbstract!freshVars)
<1>0. RuntimesTypeOK
  BY DEF RuntimesInv
<1>1. ASSUME NEW c \in Callers, NEW a \in Agents, GetRuntime(c, a) PROVE FreshAbstract!Next
  BY <1>1, AskStep
<1>2. ASSUME NEW c \in Callers, InitLocked(c)
      PROVE  FreshAbstract!Next \/ UNCHANGED FreshAbstract!freshVars
  <2>1. PICK y \in CallerStates :
          /\ caller' = [caller EXCEPT ![c] = y]
          /\ y = At(caller[c], "opening") \/ Looked(c, caller[c], stack, y)
    BY <1>0, <1>2, InitLockedShape
  <2>2. caller[c].pc = "init" /\ UNCHANGED <<epochNow, answered, runtimes>> /\ caller[c] \in CallerStates
    BY <1>0, <1>2, InitLockedShape, CallerType DEF configVars
  <2>3. CASE y = At(caller[c], "opening")
    <3>1. y.pc = "opening" /\ y.floor = caller[c].floor /\ y.got = caller[c].got
      BY <2>2, <2>3, AtShape DEF Waiting
    <3>2. QED
      BY <1>0, <2>1, <2>2, <3>1, WaitStep DEF Reading
  <2>4. CASE Looked(c, caller[c], stack, y)
    BY <2>1, <2>2, <2>4, LookedStep DEF Reading
  <2>5. QED
    BY <2>1, <2>3, <2>4
<1>3. ASSUME NEW c \in Callers, Opened(c)
      PROVE  FreshAbstract!Next \/ UNCHANGED FreshAbstract!freshVars
  <2>1. PICK y \in CallerStates : caller' = [caller EXCEPT ![c] = y] /\ Looked(c, caller[c], "open", y)
    BY <1>0, <1>3, OpenedShape
  <2>2. caller[c].pc = "opening" /\ UNCHANGED <<epochNow, answered, runtimes>>
    BY <1>0, <1>3, OpenedShape DEF configVars
  <2>3. QED
    BY <2>1, <2>2, LookedStep DEF Reading
<1>4. ASSUME NEW c \in Callers, GetLocked(c)
      PROVE  FreshAbstract!Next \/ UNCHANGED FreshAbstract!freshVars
  <2> DEFINE x == caller[c]
  <2>1. PICK y \in CallerStates :
          /\ caller' = [caller EXCEPT ![c] = y]
          /\ \/ runtimes[x.agent] # NoRuntime /\ y = Given(x, runtimes[x.agent])
             \/ y = Idle(x)
             \/ y = Building(x)
    BY <1>0, <1>4, GetLockedShape
  <2>2. x.pc = "queued" /\ UNCHANGED <<epochNow, answered, runtimes>> /\ x \in CallerStates
        /\ x.agent \in Agents
    BY <1>0, <1>4, GetLockedShape, CallerType DEF configVars
  <2>3. CASE runtimes[x.agent] # NoRuntime /\ y = Given(x, runtimes[x.agent])
    <3>1. runtimes[x.agent] \in Runtimes /\ x.floor <= answered /\ answered <= runtimes[x.agent].ver
          /\ runtimes[x.agent].ver <= epochNow
      BY <1>0, <2>2, <2>3, FreshNumbers DEF RuntimesInv, FreshInv, CallerFresh
    <3>2. x.floor <= runtimes[x.agent].ver
      BY <1>0, <2>2, <3>1, FreshNumbers
    <3>3. QED
      BY <1>0, <2>1, <2>2, <2>3, <3>1, <3>2, ReturnStep DEF Reading
  <2>4. CASE y = Idle(x)
    <3>1. y.pc = "idle" /\ y.floor = 0 /\ y.got = NoRuntime
      BY <2>2, <2>4, IdleShape
    <3>2. QED
      BY <1>0, <2>1, <2>2, <3>1, LeaveStep DEF Reading
  <2>5. CASE y = Building(x)
    <3>1. y.pc = "building" /\ y.floor = x.floor /\ y.got = x.got
      BY <1>0, <2>2, <2>5, BuildingShape
    <3>2. QED
      BY <1>0, <2>1, <2>2, <3>1, WaitStep DEF Reading
  <2>6. QED
    BY <2>1, <2>3, <2>4, <2>5
<1>5. ASSUME NEW c \in Callers, Built(c) PROVE FreshAbstract!Next
  <2>1. PICK r \in Runtimes :
          r.ver = caller[c].epoch /\ caller' = [caller EXCEPT ![c] = Given(caller[c], r)]
    BY <1>0, <1>5, BuiltShape
  <2>2. caller[c].pc = "building" /\ UNCHANGED <<epochNow, answered>>
    BY <1>0, <1>5, BuiltShape DEF configVars
  <2>3. caller[c].floor <= r.ver /\ r.ver <= epochNow
    <3>1. caller[c].floor <= answered /\ answered <= r.ver /\ r.ver <= epochNow
      BY <2>1, <2>2 DEF RuntimesInv, FreshInv, CallerFresh
    <3>2. QED
      BY <1>0, <2>1, <3>1, FreshNumbers
  <2>4. QED
    BY <1>0, <2>1, <2>2, <2>3, ReturnStep DEF Reading
<1>6. ASSUME NEW c \in Callers, BuildFails(c) \/ OpenFails(c) PROVE FreshAbstract!Next
  <2>1. caller' = [caller EXCEPT ![c] = Idle(caller[c])] /\ UNCHANGED <<epochNow, answered>>
    BY <1>6 DEF BuildFails, OpenFails, configVars
  <2>2. Idle(caller[c]) \in CallerStates /\ Idle(caller[c]).pc = "idle" /\ Idle(caller[c]).floor = 0
        /\ Idle(caller[c]).got = NoRuntime
    BY <1>0, CallerType, IdleShape
  <2>3. QED
    BY <1>0, <2>1, <2>2, LeaveStep DEF Reading
<1>7. ASSUME NEW c \in Callers, Clear(c) PROVE FreshAbstract!Next
  <2>1. /\ caller' = [caller EXCEPT ![c] = Idle(caller[c])] /\ caller[c].pc = "clearing"
        /\ epochNow' = epochNow
        /\ answered' = IF caller[c].epoch > answered THEN caller[c].epoch ELSE answered
    BY <1>7 DEF Clear
  <2>2. caller[c].epoch <= epochNow /\ answered <= epochNow /\ caller[c].floor = 0
        /\ caller[c].got = NoRuntime
    BY <2>1 DEF RuntimesInv, FreshInv, CallerFresh
  <2>3. answered' \in answered..epochNow
    BY <1>0, <2>1, <2>2, FreshNumbers
  <2>4. ReadOf(caller[c]) = NoReadYet
    BY <2>1, <2>2, <1>0, CallerType, ReadOfIdle DEF Reading
  <2>5. ReadOf(Idle(caller[c])) = NoReadYet
    BY <1>0, CallerType, IdleShape, ReadOfIdle DEF Reading
  <2>6. reads' = reads
    BY <1>0, <2>1, <2>4, <2>5, ReadsSame
  <2>7. FreshAbstract!Acknowledge
    BY <2>1, <2>3, <2>6, AbstractSteps
  <2>8. QED
    BY <2>7 DEF FreshAbstract!Next
<1>8. ASSUME NEW c \in Callers, SaveConfig(c) \/ Tested(c) PROVE FreshAbstract!Next
  BY <1>8, ChangeStep
<1>9. ASSUME NEW c \in Callers, NEW s \in Servers, TestServer(c, s) PROVE FreshAbstract!Next
  <2>1. /\ caller' = [caller EXCEPT ![c] = Testing(caller[c], s)]
        /\ UNCHANGED <<epochNow, answered>>
    BY <1>9 DEF TestServer, Testing, configVars
  <2>2. /\ Testing(caller[c], s) \in CallerStates /\ Testing(caller[c], s).pc = "testing"
        /\ Testing(caller[c], s).floor = 0 /\ Testing(caller[c], s).got = NoRuntime
    BY <1>0, CallerType, RequestShape
  <2>3. QED
    BY <1>0, <2>1, <2>2, LeaveStep DEF Reading
<1>10. CASE StartClose \/ FinishClose \/ UNCHANGED runtimesVars
  <2>1. UNCHANGED <<epochNow, answered, caller>>
    BY <1>10 DEF StartClose, FinishClose, runtimesVars, configVars
  <2>2. reads' = reads
    BY <2>1 DEF reads, ReadOf
  <2>3. UNCHANGED FreshAbstract!freshVars
    BY <2>1, <2>2 DEF FreshAbstract!freshVars, reads, ReadOf, Reading
  <2>4. QED
    BY <2>3
<1>11. QED
  BY <1>1, <1>2, <1>3, <1>4, <1>5, <1>6, <1>7, <1>8, <1>9, <1>10 DEF RuntimesNext, Resume

\* The cache, its lock and the invalidations implement FreshReads: whoever asks for a runtime
\* after the answer to a saved configuration, or to a passed test, gets one that was
\* built after it.
THEOREM RuntimesFresh == RuntimesSpec => RuntimesAreFresh
<1>1. RuntimesInit => FreshAbstract!Init
  <2>1. SUFFICES ASSUME RuntimesInit PROVE FreshAbstract!Init
    OBVIOUS
  <2>2. ReadOf(NewCaller) = NoReadYet
    <3>1. NewCaller.pc = "idle" /\ NewCaller.floor = 0 /\ NewCaller.got.ver = 0
      BY DEF NewCaller, NoRuntime
    <3>2. "idle" \notin Reading
      BY DEF Reading
    <3>3. ReadOf(NewCaller).phase = "idle"
      BY <3>1, <3>2, ReadPhases
    <3>4. QED
      BY <3>1, <3>3, ReadPhases DEF NoReadYet
  <2>3. reads = [c \in Callers |-> NoReadYet]
    <3>1. \A c \in Callers : ReadOf(caller[c]) = NoReadYet
      BY <2>1, <2>2 DEF RuntimesInit
    <3>2. QED
      BY <3>1 DEF reads
  <2>4. epochNow = 1 /\ answered = 1
    BY <2>1 DEF RuntimesInit
  <2>5. QED
    <3> HIDE DEF NoReadYet
    <3>1. reads = [c \in Callers |-> FreshAbstract!NoRead]
      BY <2>3 DEF FreshAbstract!NoRead, NoReadYet
    <3>2. QED
      BY <2>4, <3>1 DEF FreshAbstract!Init, reads, ReadOf, Reading
<1>2. RuntimesInv /\ [RuntimesNext]_runtimesVars => [FreshAbstract!Next]_(FreshAbstract!freshVars)
  BY StepIsFresh
<1>3. QED
  BY <1>1, <1>2, RuntimesInvHolds, PTL DEF RuntimesSpec, RuntimesAreFresh, FreshAbstract!Spec
===============================================================================
