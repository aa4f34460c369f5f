------------------------------ MODULE StableSort ------------------------------
(***************************************************************************)
(* Python's sorted and its comprehensions with an if, as the positions they  *)
(* put where.                                                               *)
(***************************************************************************)
EXTENDS Integers, FiniteSets

\* The positions in order; ahead[i] are those that come before i.
Arranged(ahead) ==
    LET place == [i \in DOMAIN ahead |-> Cardinality(ahead[i]) + 1]
    IN  [k \in 1..Cardinality(DOMAIN ahead) |-> CHOOSE i \in DOMAIN ahead : place[i] = k]

\* By a key; positions with equal keys keep their order.
ByKey(key) ==
    Arranged([i \in DOMAIN key |->
                {j \in DOMAIN key : key[j] < key[i] \/ (key[j] = key[i] /\ j < i)}])

\* The elements of s at the positions I.
Taken(s, I) == LET order == ByKey([i \in I |-> i])
               IN  [k \in DOMAIN order |-> s[order[k]]]
=============================================================================
