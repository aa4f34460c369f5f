------------------------------ MODULE FreshReads ------------------------------
(***************************************************************************)
(* What the users of a configuration cache are promised: a read that begins  *)
(* after a change was acknowledged returns that change or a later one.      *)
(***************************************************************************)
EXTENDS Naturals

CONSTANTS Readers

VARIABLES
    epoch,  \* how many changes there were
    acked,  \* the latest change that was acknowledged
    reader  \* reader[c]: the read that c is doing or did last

freshVars == <<epoch, acked, reader>>

NoRead == [phase |-> "idle", floor |-> 0, got |-> 0]

Init == epoch = 1 /\ acked = 1 /\ reader = [c \in Readers |-> NoRead]

\* Who makes a change is not reading meanwhile.
Change(c) ==
    /\ reader[c].phase # "reading"
    /\ epoch' = epoch + 1
    /\ acked' \in {acked, epoch + 1}
    /\ reader' = [reader EXCEPT ![c] = NoRead]

Acknowledge == acked' \in acked..epoch /\ UNCHANGED <<epoch, reader>>

Begin(c) ==
    /\ reader[c].phase # "reading"
    /\ reader' = [reader EXCEPT ![c] = [phase |-> "reading", floor |-> acked, got |-> 0]]
    /\ UNCHANGED <<epoch, acked>>

Return(c) ==
    /\ reader[c].phase = "reading"
    /\ \E v \in reader[c].floor..epoch :
          reader' = [reader EXCEPT ![c].phase = "returned", ![c].got = v]
    /\ UNCHANGED <<epoch, acked>>

\* A read that is answered at once.
ReadNow(c) ==
    /\ reader[c].phase # "reading"
    /\ \E v \in acked..epoch :
          reader' = [reader EXCEPT ![c] = [phase |-> "returned", floor |-> acked, got |-> v]]
    /\ UNCHANGED <<epoch, acked>>

\* A read fails, or its result is forgotten.
Leave(c) == reader' = [reader EXCEPT ![c] = NoRead] /\ UNCHANGED <<epoch, acked>>

Next ==
    \/ Acknowledge
    \/ \E c \in Readers : Change(c) \/ Begin(c) \/ Return(c) \/ ReadNow(c) \/ Leave(c)

Spec == Init /\ [][Next]_freshVars
=============================================================================
