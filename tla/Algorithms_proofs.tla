--------------------------- MODULE Algorithms_proofs ---------------------------
(***************************************************************************)
(* Proofs about the algorithms that decide on their inputs alone, for every  *)
(* input and not only for those that run algorithms enumerates.              *)
(***************************************************************************)
EXTENDS MC_Algorithms, Integers, FiniteSetTheorems, SequenceTheorems, TLAPS

-----------------------------------------------------------------------------
(* Induction and recursion.  A property is the set of the numbers, or of the  *)
(* sets, that have it.                                                        *)

\* A set of numbers that is not empty has a least one.
LEMMA LeastNumber ==
    ASSUME NEW T \in SUBSET Nat, T # {}
    PROVE  \E n \in T : \A m \in T : n <= m
<1> DEFINE R == OpToRel(<, Nat)
<1>1. PICK n \in T : \A m \in T : ~(<<m, n>> \in R)
  BY WFMin, NatLessThanWellFounded, Zenon
<1>2. \A x, y \in Nat : <<y, x>> \in R <=> y < x
  BY DEF OpToRel
<1> HIDE DEF R
<1>3. ASSUME NEW m \in T PROVE n <= m
  <2>1. n \in Nat /\ m \in Nat /\ ~(m < n)
    BY <1>1, <1>2
  <2>2. QED
    BY <2>1
<1>4. QED
  BY <1>3

\* Induction over the numbers up to n, of which S holds those that are done.
LEMMA Induction ==
    ASSUME NEW n \in Nat, NEW S, 0 \in S, \A i \in 1..n : i - 1 \in S => i \in S
    PROVE  \A i \in 0..n : i \in S
<1> DEFINE T == {i \in 0..n : i \notin S}
<1> SUFFICES ASSUME T # {} PROVE FALSE
  OBVIOUS
<1>1. T \in SUBSET Nat
  OBVIOUS
<1> HIDE DEF T
<1>2. PICK i \in T : \A j \in T : i <= j
  BY <1>1, LeastNumber
<1>3. i \in 0..n /\ i \notin S /\ i # 0
  BY <1>2 DEF T
<1>4. i - 1 \notin T
  BY <1>1, <1>2, <1>3
<1>5. QED
  BY <1>3, <1>4 DEF T

\* What fails for some subset of a finite set fails for one all of whose own subsets
\* pass.
LEMMA LeastSet ==
    ASSUME NEW S, IsFiniteSet(S), NEW T \in SUBSET (SUBSET S), T # {}
    PROVE  \E x \in T : \A y \in T : ~(y \subseteq x /\ y # x)
<1>1. PICK x \in T : \A y \in T : ~(<<y, x>> \in StrictSubsetOrdering(S))
  BY WFMin, FS_StrictSubsetOrderingWellFounded, FS_FiniteSubsetsOfFinite, Zenon
<1>2. QED
  BY <1>1 DEF StrictSubsetOrdering

\* A sequence whose elements are all of a set is one over that set.
LEMMA ElementsOfSeq ==
    ASSUME NEW S, NEW T, NEW s \in Seq(S), \A i \in 1..Len(s) : s[i] \in T
    PROVE  s \in Seq(T)
BY SeqDef

\* A sequence that begins with x and goes on as p.
LEMMA OneBefore ==
    ASSUME NEW S, NEW x \in S, NEW p \in Seq(S), NEW q, q = <<x>> \o p
    PROVE  /\ Len(q) = Len(p) + 1 /\ DOMAIN q = 1..Len(q)
           /\ q[1] = x /\ \A i \in 2..Len(q) : q[i] = p[i - 1] /\ i - 1 \in 1..Len(p)
<1>1. PICK s : s = <<x>>
  OBVIOUS
<1>2. s \in Seq(S) /\ Len(s) = 1 /\ s[1] = x /\ q = s \o p /\ Len(p) \in Nat
  BY <1>1
<1>3. Len(q) = Len(s) + Len(p) /\ q \in Seq(S)
  BY <1>2, ConcatProperties
<1>4. \A i \in 1..(Len(s) + Len(p)) : q[i] = IF i <= Len(s) THEN s[i] ELSE p[i - Len(s)]
  BY <1>2, ConcatProperties, Zenon
<1>5. DOMAIN q = 1..Len(q)
  BY <1>3
<1>6. QED
  BY <1>2, <1>3, <1>4, <1>5

\* A recursion on numbers has a solution: what CHOOSE finds solves it.
Solves(f, n, base, step) == \A i \in 0..n : f[i] = IF i = 0 THEN base ELSE step[i][f[i - 1]]

\* A recursion over the numbers up to n has a solution.
LEMMA Recursion ==
    ASSUME NEW n \in Nat, NEW S, NEW base \in S, NEW step \in [1..n -> [S -> S]]
    PROVE  \E f \in [0..n -> S] : Solves(f, n, base, step)
<1> DEFINE T == {k \in 0..n : \E g \in [0..n -> S] : Solves(g, k, base, step)}
<1>1. 0 \in T
  <2>1. PICK g : g = [i \in 0..n |-> base]
    OBVIOUS
  <2>2. g \in [0..n -> S] /\ Solves(g, 0, base, step)
    BY <2>1 DEF Solves
  <2>3. QED
    BY <2>2
<1>2. ASSUME NEW k \in 1..n, k - 1 \in T PROVE k \in T
  <2>1. PICK g \in [0..n -> S] : Solves(g, k - 1, base, step)
    BY <1>2
  <2>2. PICK h : h = [g EXCEPT ![k] = step[k][g[k - 1]]]
    OBVIOUS
  <2>3. h \in [0..n -> S] /\ h[k] = step[k][g[k - 1]] /\ \A i \in 0..(k - 1) : h[i] = g[i]
    BY <2>2
  <2>4. ASSUME NEW i \in 0..k PROVE h[i] = IF i = 0 THEN base ELSE step[i][h[i - 1]]
    <3>1. CASE i = k
      BY <2>3, <3>1
    <3>2. CASE i # k
      <4>1. i \in 0..(k - 1)
        BY <3>2
      <4>2. g[i] = IF i = 0 THEN base ELSE step[i][g[i - 1]]
        BY <2>1, <4>1 DEF Solves
      <4>3. i # 0 => i - 1 \in 0..(k - 1)
        BY <4>1
      <4>4. QED
        BY <2>3, <4>1, <4>2, <4>3
    <3>3. QED
      BY <3>1, <3>2
  <2>5. Solves(h, k, base, step)
    BY <2>4 DEF Solves
  <2>6. QED
    BY <2>3, <2>5
<1> HIDE DEF T
<1>3. \A k \in 0..n : k \in T
  BY <1>1, <1>2, Induction
<1>4. n \in T
  BY <1>3
<1>5. QED
  BY <1>4 DEF T
-----------------------------------------------------------------------------
(* The registry of agents.                                                   *)

\* A path below agent x that avoids the agents of above: each step goes to a subagent,
\* and no agent comes twice.
IsPath(r, x, above, p) ==
    /\ p \in Seq(r.manifests \ (above \cup {x})) /\ p # <<>>
    /\ p[1] \in r.subagents[x]
    /\ \A i \in 1..(Len(p) - 1) : p[i + 1] \in r.subagents[p[i]]
    /\ \A i, j \in 1..Len(p) : i # j => p[i] # p[j]

\* The first step of a path, and the rest of it.
PathSplits(r, x, above, p) ==
    \E d \in (r.subagents[x] \cap r.manifests) \ above :
       p = <<d>> \/ \E q : IsPath(r, d, above \cup {x}, q) /\ p = <<d>> \o q

\* A path is one step longer than a path.
LEMMA PathSteps ==
    ASSUME NEW r, NEW x \in r.manifests, NEW above \in SUBSET r.manifests, NEW p,
           x \notin r.subagents[x]
    PROVE  IsPath(r, x, above, p) <=> PathSplits(r, x, above, p)
<1>1. ASSUME IsPath(r, x, above, p)
      PROVE  \E d \in (r.subagents[x] \cap r.manifests) \ above :
                p = <<d>> \/ \E q : IsPath(r, d, above \cup {x}, q) /\ p = <<d>> \o q
  <2>0. PICK d, q : d = p[1] /\ q = Tail(p)
    OBVIOUS
  <2>1. p \in Seq(r.manifests \ (above \cup {x})) /\ p # <<>>
    BY <1>1 DEF IsPath
  <2>a. Len(p) \in Nat /\ Len(p) >= 1
    BY <2>1
  <2>2. d \in (r.subagents[x] \cap r.manifests) \ above
    BY <1>1, <2>0, <2>1, <2>a DEF IsPath
  <2>3. CASE Len(p) = 1
    <3>1. p = <<d>>
      BY <2>0, <2>1, <2>3
    <3>2. QED
      BY <2>2, <3>1
  <2>4. CASE Len(p) > 1
    <3>1. /\ q \in Seq(r.manifests \ (above \cup {x})) /\ Len(q) = Len(p) - 1
          /\ \A i \in 1..Len(q) : q[i] = p[i + 1]
      BY <2>0, <2>1, <2>a
    <3>2. p = <<d>> \o q
      BY <2>0, <2>1, <2>a
    <3>3. \A i \in 1..Len(q) : q[i] # d /\ q[i] \in r.manifests \ ((above \cup {x}) \cup {d})
      BY <1>1, <2>0, <2>1, <2>a, <3>1 DEF IsPath
    <3>4. q \in Seq(r.manifests \ ((above \cup {x}) \cup {d}))
      BY <3>1, <3>3, ElementsOfSeq
    <3>5. q[1] \in r.subagents[d]
      BY <1>1, <2>0, <2>a, <2>4, <3>1 DEF IsPath
    <3>6. \A i \in 1..(Len(q) - 1) : q[i + 1] \in r.subagents[q[i]]
      BY <1>1, <2>0, <2>a, <2>4, <3>1 DEF IsPath
    <3>7. \A i, j \in 1..Len(q) : i # j => q[i] # q[j]
      BY <1>1, <2>0, <2>a, <2>4, <3>1 DEF IsPath
    <3>8. q # <<>>
      BY <2>4, <3>1
    <3>9. IsPath(r, d, above \cup {x}, q)
      BY <3>4, <3>5, <3>6, <3>7, <3>8 DEF IsPath
    <3>10. QED
      BY <2>2, <3>2, <3>9
  <2>5. Len(p) = 1 \/ Len(p) > 1
    BY <2>a
  <2>6. QED
    BY <2>3, <2>4, <2>5, Zenon
<1>2. ASSUME NEW d \in (r.subagents[x] \cap r.manifests) \ above, p = <<d>>
      PROVE  IsPath(r, x, above, p)
  <2>1. d \in r.manifests \ (above \cup {x})
    OBVIOUS
  <2>2. QED
    BY <1>2, <2>1 DEF IsPath
<1>3. ASSUME NEW d \in (r.subagents[x] \cap r.manifests) \ above, NEW q,
             IsPath(r, d, above \cup {x}, q), p = <<d>> \o q
      PROVE  IsPath(r, x, above, p)
  <2> DEFINE M == r.manifests \ (above \cup {x})
  <2>1. d \in M /\ q \in Seq(M \ {d}) /\ Len(q) \in Nat /\ Len(q) >= 1
    <3>1. q \in Seq(r.manifests \ ((above \cup {x}) \cup {d})) /\ q # <<>>
      BY <1>3 DEF IsPath
    <3>2. M \ {d} = r.manifests \ ((above \cup {x}) \cup {d})
      OBVIOUS
    <3>3. QED
      BY <3>1, <3>2
  <2>2. /\ p \in Seq(M) /\ Len(p) = Len(q) + 1 /\ p[1] = d
        /\ \A i \in 2..Len(p) : p[i] = q[i - 1]
    BY <1>3, <2>1
  <2>3. \A i \in 1..(Len(p) - 1) : p[i + 1] \in r.subagents[p[i]]
    <3> SUFFICES ASSUME NEW i \in 1..(Len(p) - 1) PROVE p[i + 1] \in r.subagents[p[i]]
      OBVIOUS
    <3>1. p[i + 1] = q[i]
      BY <2>1, <2>2
    <3>2. CASE i = 1
      BY <1>3, <2>2, <3>1, <3>2 DEF IsPath
    <3>3. CASE i # 1
      <4>1. p[i] = q[i - 1] /\ i - 1 \in 1..(Len(q) - 1) /\ (i - 1) + 1 = i
        BY <2>1, <2>2, <3>3
      <4>2. q[(i - 1) + 1] \in r.subagents[q[i - 1]]
        BY <1>3, <4>1 DEF IsPath
      <4>3. QED
        BY <3>1, <4>1, <4>2
    <3>4. QED
      BY <3>2, <3>3
  <2>4. ASSUME NEW i \in 1..Len(p), NEW j \in 1..Len(p), i # j PROVE p[i] # p[j]
    <3>1. \A k \in 1..Len(q) : q[k] # d
      BY <2>1
    <3>2. CASE i = 1
      BY <2>1, <2>2, <2>4, <3>1, <3>2
    <3>3. CASE j = 1
      BY <2>1, <2>2, <2>4, <3>1, <3>3
    <3>4. CASE i # 1 /\ j # 1
      <4>1. i - 1 \in 1..Len(q) /\ j - 1 \in 1..Len(q) /\ i - 1 # j - 1
        BY <2>1, <2>2, <2>4, <3>4
      <4>2. q[i - 1] # q[j - 1]
        BY <1>3, <4>1 DEF IsPath
      <4>3. QED
        BY <2>1, <2>2, <3>4, <4>2
    <3>5. QED
      BY <3>2, <3>3, <3>4
  <2>5. p # <<>>
    BY <2>1, <2>2
  <2>6. QED
    BY <2>2, <2>3, <2>4, <2>5 DEF IsPath
<1>4. QED
  BY <1>1, <1>2, <1>3 DEF PathSplits

\* The paths that begin with d and go on as one of S, and those of _build_subagents
\* in terms of the trees of the agents below, g.
From(d, S) == {<<d>>} \cup {<<d>> \o p : p \in S}
Tree(r, g, x, above) ==
    UNION {From(d, g[above \cup {x}][d]) : d \in (r.subagents[x] \cap r.manifests) \ above}
Paths(r, x, above) == {p \in Seq(r.manifests) : IsPath(r, x, above, p)}

TreeSplits(r, g, x, above, p) ==
    \E d \in (r.subagents[x] \cap r.manifests) \ above :
       p = <<d>> \/ \E q \in g[above \cup {x}][d] : p = <<d>> \o q

\* g has the paths of the agents that may come below x.
HasBelow(r, g, x, above) ==
    \A d \in r.manifests \ (above \cup {x}) : g[above \cup {x}][d] = Paths(r, d, above \cup {x})

\* What a tree of subagents lists begins with a subagent that is not above.
LEMMA TreeElements ==
    ASSUME NEW r, NEW g, NEW x, NEW above, NEW p
    PROVE  p \in Tree(r, g, x, above) <=> TreeSplits(r, g, x, above, p)
<1>1. p \in Tree(r, g, x, above) <=>
        \E d \in (r.subagents[x] \cap r.manifests) \ above : p \in From(d, g[above \cup {x}][d])
  BY DEF Tree
<1>2. \A d, S : p \in From(d, S) <=> p = <<d>> \/ \E q \in S : p = <<d>> \o q
  BY DEF From
<1>3. QED
  BY <1>1, <1>2 DEF TreeSplits

\* The function that gives each agent its paths solves the recursion, and is the only
\* one that does: a call adds an agent to the lineage.
LEMMA PathsAreATree ==
    ASSUME NEW r, NEW g, NEW x \in r.manifests, NEW above \in SUBSET r.manifests,
           x \notin r.subagents[x], HasBelow(r, g, x, above)
    PROVE  Tree(r, g, x, above) = Paths(r, x, above)
<1> SUFFICES ASSUME NEW p PROVE p \in Tree(r, g, x, above) <=> p \in Paths(r, x, above)
  OBVIOUS
<1>1. \A z, S, q : IsPath(r, z, S, q) => q \in Seq(r.manifests)
  BY ElementsOfSeq DEF IsPath
<1>2. \A z, S, q : q \in Paths(r, z, S) <=> IsPath(r, z, S, q)
  BY <1>1 DEF Paths
<1>3. \A d \in (r.subagents[x] \cap r.manifests) \ above : g[above \cup {x}][d] = Paths(r, d, above \cup {x})
  BY DEF HasBelow
<1>4. TreeSplits(r, g, x, above, p) <=> PathSplits(r, x, above, p)
  <2>1. ASSUME NEW d \in (r.subagents[x] \cap r.manifests) \ above
        PROVE  (\E q \in g[above \cup {x}][d] : p = <<d>> \o q)
                 <=> (\E q : IsPath(r, d, above \cup {x}, q) /\ p = <<d>> \o q)
    <3>1. g[above \cup {x}][d] = Paths(r, d, above \cup {x})
      BY <1>3, <2>1
    <3>2. \A q : q \in g[above \cup {x}][d] <=> IsPath(r, d, above \cup {x}, q)
      BY <1>2, <3>1
    <3>3. QED
      BY <3>2
  <2>2. QED
    BY <2>1 DEF TreeSplits, PathSplits
<1>5. QED
  BY <1>2, <1>4, TreeElements, PathSteps

\* _build_subagents builds exactly the paths on which no agent comes twice.
LEMMA TreeHasThePaths ==
    ASSUME NEW r, IsFiniteSet(r.manifests), NEW x \in r.manifests,
           \A y \in r.manifests : y \notin r.subagents[y]
    PROVE  SubagentPaths(r, x) = Paths(r, x, {})
<1> DEFINE M == r.manifests
           below[above \in SUBSET M] == [y \in M |-> Tree(r, below, y, above)]
           paths == [above \in SUBSET M |-> [y \in M |-> Paths(r, y, above)]]
           Good(above) == \A y \in M \ above : below[above][y] = Paths(r, y, above)
           Bad == {above \in SUBSET M : ~Good(M \ above)}
<1>1. paths = [above \in SUBSET M |-> [y \in M |-> Tree(r, paths, y, above)]]
  <2>1. \A above \in SUBSET M, y \in M : paths[above][y] = Paths(r, y, above)
    OBVIOUS
  <2>2. \A above \in SUBSET M, y \in M : above \cup {y} \in SUBSET M
    OBVIOUS
  <2> HIDE DEF paths
  <2>3. ASSUME NEW above \in SUBSET M, NEW y \in M
        PROVE  Tree(r, paths, y, above) = Paths(r, y, above)
    <3>1. y \notin r.subagents[y]
      OBVIOUS
    <3>2. HasBelow(r, paths, y, above)
      BY <2>1, <2>2 DEF HasBelow
    <3>3. QED
      BY <3>1, <3>2, PathsAreATree
  <2>4. QED
    BY <2>3 DEF paths
<1>2. below = [above \in SUBSET M |-> [y \in M |-> Tree(r, below, y, above)]]
  <2> HIDE DEF paths
  <2>1. QED
    BY <1>1
<1>3. SubagentPaths(r, x) = below[{}][x]
  BY DEF SubagentPaths, Tree, From
<1> HIDE DEF below, paths
<1>4. ASSUME NEW above \in SUBSET M, \A y \in M \ above : Good(above \cup {y})
      PROVE  Good(above)
  <2> SUFFICES ASSUME NEW y \in M \ above PROVE below[above][y] = Paths(r, y, above)
    OBVIOUS
  <2>1. HasBelow(r, below, y, above)
    BY <1>4 DEF HasBelow
  <2>2. below[above][y] = Tree(r, below, y, above)
    BY <1>2
  <2>3. y \notin r.subagents[y]
    OBVIOUS
  <2> HIDE DEF Good
  <2>4. Tree(r, below, y, above) = Paths(r, y, above)
    BY <2>1, <2>3, PathsAreATree
  <2>5. QED
    BY <2>2, <2>4
<1>5. Bad = {}
  <2> SUFFICES ASSUME Bad # {} PROVE FALSE
    OBVIOUS
  <2> HIDE DEF Good
  <2>1. Bad \in SUBSET (SUBSET M)
    OBVIOUS
  <2>2. \A above \in SUBSET M : above \in Bad <=> ~Good(M \ above)
    OBVIOUS
  <2> HIDE DEF Bad
  <2>3. PICK S \in Bad : \A T \in Bad : ~(T \subseteq S /\ T # S)
    BY <2>1, LeastSet
  <2>4. S \in SUBSET M /\ ~Good(M \ S)
    BY <2>1, <2>2, <2>3
  <2>5. PICK y \in M \ (M \ S) : ~Good((M \ S) \cup {y})
    BY <1>4, <2>4
  <2>6. (M \ S) \cup {y} = M \ (S \ {y}) /\ S \ {y} \in SUBSET M /\ S \ {y} # S
    BY <2>4, <2>5
  <2>7. S \ {y} \in Bad
    BY <2>2, <2>5, <2>6
  <2>8. QED
    BY <2>3, <2>6, <2>7
<1>6. Good({})
  <2> HIDE DEF Good
  <2>1. M \ M = {} /\ M \in SUBSET M
    OBVIOUS
  <2>2. QED
    BY <1>5, <2>1
<1>7. QED
  BY <1>3, <1>6

\* What is in a set that is closed under delegation stays in it, along a path.
LEMMA PathsStayInside ==
    ASSUME NEW r, NEW x, NEW p, IsPath(r, x, {}, p), NEW S,
           r.subagents[x] \subseteq S, \A y \in S : r.subagents[y] \subseteq S
    PROVE  p[Len(p)] \in S
<1> DEFINE T == {i \in 0..Len(p) : i = 0 \/ p[i] \in S}
<1>1. Len(p) \in Nat /\ Len(p) >= 1
  BY DEF IsPath
<1>2. ASSUME NEW i \in 1..Len(p), i - 1 \in T PROVE i \in T
  <2>1. CASE i = 1
    BY <2>1 DEF IsPath
  <2>2. CASE i # 1
    <3>1. p[i - 1] \in S /\ i - 1 \in 1..(Len(p) - 1) /\ (i - 1) + 1 = i
      BY <1>1, <1>2, <2>2
    <3>2. p[i] \in r.subagents[p[i - 1]]
      BY <3>1 DEF IsPath
    <3>3. QED
      BY <3>1, <3>2
  <2>3. QED
    BY <2>1, <2>2
<1>3. 0 \in T
  BY <1>1
<1> HIDE DEF T
<1>4. \A i \in 0..Len(p) : i \in T
  BY <1>1, <1>2, <1>3, Induction
<1>5. QED
  BY <1>1, <1>4 DEF T

\* A path may be cut at any place.
LEMMA PathsHavePrefixes ==
    ASSUME NEW r, NEW x, NEW p, IsPath(r, x, {}, p), NEW n \in 1..Len(p)
    PROVE  IsPath(r, x, {}, SubSeq(p, 1, n)) /\ SubSeq(p, 1, n)[Len(SubSeq(p, 1, n))] = p[n]
<1> DEFINE M == r.manifests \ ({} \cup {x})
<1>1. p \in Seq(M) /\ Len(p) \in Nat
  BY DEF IsPath
<1>2. PICK q : q = SubSeq(p, 1, n)
  OBVIOUS
<1>3. q \in Seq(M) /\ Len(q) = n /\ \A i \in 1..n : q[i] = p[i]
  BY <1>1, <1>2
<1>4. q # <<>>
  BY <1>3
<1>5. q[1] \in r.subagents[x]
  BY <1>1, <1>3 DEF IsPath
<1>6. \A i \in 1..(Len(q) - 1) : q[i + 1] \in r.subagents[q[i]]
  BY <1>1, <1>3 DEF IsPath
<1>7. \A i, j \in 1..Len(q) : i # j => q[i] # q[j]
  BY <1>1, <1>3 DEF IsPath
<1>8. IsPath(r, x, {}, q)
  BY <1>3, <1>4, <1>5, <1>6, <1>7 DEF IsPath
<1>9. QED
  BY <1>2, <1>3, <1>8

\* From the end of a path one may go on to an agent that is not on it.
LEMMA PathsGoOn ==
    ASSUME NEW r, NEW x, NEW p, IsPath(r, x, {}, p),
           NEW y \in r.manifests, y \in r.subagents[p[Len(p)]], y # x, \A i \in 1..Len(p) : p[i] # y
    PROVE  IsPath(r, x, {}, Append(p, y)) /\ Append(p, y)[Len(Append(p, y))] = y
<1> DEFINE M == r.manifests \ ({} \cup {x})
<1>1. p \in Seq(M) /\ Len(p) \in Nat /\ Len(p) >= 1 /\ y \in M
  BY DEF IsPath
<1>2. PICK q : q = Append(p, y)
  OBVIOUS
<1>3. q \in Seq(M) /\ Len(q) = Len(p) + 1 /\ q[Len(p) + 1] = y /\ \A i \in 1..Len(p) : q[i] = p[i]
  BY <1>1, <1>2
<1>4. q # <<>> /\ q[1] \in r.subagents[x]
  BY <1>1, <1>3 DEF IsPath
<1>5. ASSUME NEW i \in 1..(Len(q) - 1) PROVE q[i + 1] \in r.subagents[q[i]]
  BY <1>1, <1>3 DEF IsPath
<1>6. ASSUME NEW i \in 1..Len(q), NEW j \in 1..Len(q), i # j PROVE q[i] # q[j]
  BY <1>1, <1>3, <1>6 DEF IsPath
<1>7. IsPath(r, x, {}, q)
  BY <1>3, <1>4, <1>5, <1>6 DEF IsPath
<1>8. QED
  BY <1>1, <1>2, <1>3, <1>7

\* The subagents that agent_manager.py builds for an agent, of any registry that the
\* loader accepts: no agent is above itself, every step is an allowed handoff, and every
\* agent that can be delegated to is there (_build_subagents, agents/loader.py).
THEOREM TreesAreSound == \A r : IsRegistry(r) /\ Loads(r) => TreeIsSound(r)
<1> SUFFICES ASSUME NEW r, IsRegistry(r), Loads(r), NEW x \in r.manifests
             PROVE  /\ \A p \in SubagentPaths(r, x) :
                         LET q == <<x>> \o p
                         IN  /\ \A i, j \in DOMAIN q : i # j => q[i] # q[j]
                             /\ \A i \in DOMAIN p : q[i + 1] \in r.handoffs[q[i]]
                    /\ {p[Len(p)] : p \in SubagentPaths(r, x)} = ReachedFrom(r, x) \ {x}
  BY DEF TreeIsSound
<1>1. /\ IsFiniteSet(r.manifests)
      /\ \A y \in r.manifests : /\ y \notin r.subagents[y]
                                /\ r.subagents[y] \subseteq r.handoffs[y]
                                /\ r.subagents[y] \subseteq r.manifests
  BY DEF IsRegistry, Loads, RegistryIsValid, RelationsAreValid
<1>2. SubagentPaths(r, x) = Paths(r, x, {})
  BY <1>1, TreeHasThePaths
<1>3. \A p : p \in SubagentPaths(r, x) <=> IsPath(r, x, {}, p)
  <2>1. \A p : IsPath(r, x, {}, p) => p \in Seq(r.manifests)
    BY ElementsOfSeq DEF IsPath
  <2>2. QED
    BY <1>2, <2>1 DEF Paths
<1>4. ASSUME NEW p, IsPath(r, x, {}, p), NEW q, q = <<x>> \o p
      PROVE  /\ \A i, j \in DOMAIN q : i # j => q[i] # q[j]
             /\ \A i \in DOMAIN p : q[i + 1] \in r.handoffs[q[i]]
  <2>1. p \in Seq(r.manifests \ {x}) /\ Len(p) \in Nat /\ DOMAIN p = 1..Len(p)
    <3>1. ({} \cup {x}) = {x}
      OBVIOUS
    <3>2. QED
      BY <1>4, <3>1 DEF IsPath
  <2>2. /\ Len(q) = Len(p) + 1 /\ DOMAIN q = 1..Len(q)
        /\ q[1] = x /\ \A i \in 2..Len(q) : q[i] = p[i - 1] /\ i - 1 \in 1..Len(p)
    <3>0. \A i \in 1..Len(p) : p[i] \in r.manifests
      BY <2>1
    <3>1. p \in Seq(r.manifests)
      BY <2>1, <3>0, ElementsOfSeq
    <3>2. QED
      BY <1>4, <3>1, OneBefore
  <2>3. ASSUME NEW i \in DOMAIN q, NEW j \in DOMAIN q, i # j PROVE q[i] # q[j]
    <3>1. \A k \in 1..Len(p) : p[k] # x
      BY <2>1
    <3>2. CASE i = 1 \/ j = 1
      BY <2>1, <2>2, <2>3, <3>1, <3>2
    <3>3. CASE i # 1 /\ j # 1
      <4>1. /\ i - 1 \in 1..Len(p) /\ j - 1 \in 1..Len(p) /\ i - 1 # j - 1
            /\ q[i] = p[i - 1] /\ q[j] = p[j - 1]
        BY <2>1, <2>2, <2>3, <3>3
      <4>2. QED
        BY <1>4, <4>1 DEF IsPath
    <3>4. QED
      BY <3>2, <3>3
  <2>4. ASSUME NEW i \in DOMAIN p PROVE q[i + 1] \in r.handoffs[q[i]]
    <3>1. i \in 1..Len(p) /\ q[i + 1] = p[i]
      BY <2>1, <2>2
    <3>2. CASE i = 1
      BY <1>1, <1>4, <2>2, <3>1, <3>2 DEF IsPath
    <3>3. CASE i # 1
      <4>1. q[i] = p[i - 1] /\ i - 1 \in 1..(Len(p) - 1) /\ (i - 1) + 1 = i
        BY <2>1, <2>2, <3>1, <3>3
      <4>2. p[i] \in r.subagents[p[i - 1]] /\ p[i - 1] \in r.manifests
        BY <1>4, <2>1, <4>1 DEF IsPath
      <4>3. QED
        BY <1>1, <3>1, <4>1, <4>2
    <3>4. QED
      BY <3>2, <3>3
  <2>5. QED
    BY <2>3, <2>4
<1>5. ASSUME NEW p, IsPath(r, x, {}, p) PROVE p[Len(p)] \in ReachedFrom(r, x) \ {x}
  <2>1. p[Len(p)] \in r.manifests \ {x}
    BY <1>5 DEF IsPath
  <2>2. ASSUME NEW S \in SUBSET r.manifests, r.subagents[x] \subseteq S,
               \A y \in S : r.subagents[y] \subseteq S
        PROVE  p[Len(p)] \in S
    BY <1>5, <2>2, PathsStayInside
  <2>3. QED
    BY <2>1, <2>2 DEF ReachedFrom
<1>6. ASSUME NEW y \in ReachedFrom(r, x) \ {x}
      PROVE  \E p : IsPath(r, x, {}, p) /\ p[Len(p)] = y
  <2> DEFINE S == {z \in r.manifests : z = x \/ \E p : IsPath(r, x, {}, p) /\ p[Len(p)] = z}
  <2>1. ASSUME NEW z \in r.subagents[x] PROVE z \in S
    <3>1. z \in r.manifests \ ({} \cup {x})
      BY <1>1
    <3>2. IsPath(r, x, {}, <<z>>)
      BY <3>1 DEF IsPath
    <3>3. <<z>>[Len(<<z>>)] = z
      OBVIOUS
    <3>4. QED
      BY <3>1, <3>2, <3>3
  <2>2. ASSUME NEW w \in S, NEW z \in r.subagents[w] PROVE z \in S
    <3>1. z \in r.manifests
      BY <1>1
    <3>2. CASE w = x
      BY <2>1, <3>2
    <3>3. CASE w # x /\ z # x
      <4>1. PICK p : IsPath(r, x, {}, p) /\ p[Len(p)] = w
        BY <3>3
      <4>2. CASE \E n \in 1..Len(p) : p[n] = z
        <5>1. PICK n \in 1..Len(p) : p[n] = z
          BY <4>2
        <5>2. IsPath(r, x, {}, SubSeq(p, 1, n)) /\ SubSeq(p, 1, n)[Len(SubSeq(p, 1, n))] = z
          BY <4>1, <5>1, PathsHavePrefixes
        <5>3. QED
          BY <3>1, <5>2
      <4>3. CASE \A n \in 1..Len(p) : p[n] # z
        <5>1. IsPath(r, x, {}, Append(p, z)) /\ Append(p, z)[Len(Append(p, z))] = z
          BY <3>1, <3>3, <4>1, <4>3, PathsGoOn
        <5>2. QED
          BY <3>1, <5>1
      <4>4. QED
        BY <4>2, <4>3
    <3>4. QED
      BY <3>1, <3>2, <3>3
  <2>3. S \in SUBSET r.manifests /\ r.subagents[x] \subseteq S /\ \A w \in S : r.subagents[w] \subseteq S
    BY <2>1, <2>2
  <2> HIDE DEF S
  <2>4. y \in S
    BY <2>3 DEF ReachedFrom
  <2>5. QED
    BY <2>4 DEF S
<1>7. {p[Len(p)] : p \in SubagentPaths(r, x)} = ReachedFrom(r, x) \ {x}
  BY <1>3, <1>5, <1>6
<1>8. QED
  BY <1>3, <1>4, <1>7


\* Every id means the one agent, and its memory is that agent's only, whatever names are
\* asked for (agent_profiles.py).
THEOREM NamesMeanOneAgent == \A r, names : IsRegistry(r) /\ Loads(r) => NamesAreSound(r, names)
<1> SUFFICES ASSUME NEW r, NEW names, IsRegistry(r), Loads(r)
             PROVE  NamesAreSound(r, names)
  OBVIOUS
<1> DEFINE agent(x) == ResolveKnown(r, x, FALSE, FALSE)
<1>1. /\ Blank \notin r.manifests /\ NoAgent \notin r.manifests
      /\ Blank \notin DOMAIN r.aliases /\ NoAgent \notin DOMAIN r.aliases
      /\ r.default \in r.manifests
      /\ \A x \in DOMAIN r.aliases : x \notin r.manifests /\ r.aliases[x] \in r.manifests
  BY DEF IsRegistry, Loads, RegistryIsValid
<1>2. \A x \in r.manifests : Canonical(r, x) = x
  BY <1>1 DEF Canonical
<1>3. \A x \in r.manifests : agent(x) = x
  BY <1>1, <1>2 DEF ResolveKnown
<1>4. \A x : agent(x) = NoAgent \/ (agent(x) \in r.manifests /\ agent(x) = Canonical(r, x))
  BY <1>1 DEF ResolveKnown, Canonical
<1> HIDE DEF agent
<1>5. ASSUME NEW x, agent(x) # NoAgent
      PROVE  agent(agent(x)) = agent(x) /\ MemoryRoots(r, x) = MemoryRoots(r, agent(x))
  <2>1. Canonical(r, agent(x)) = Canonical(r, x)
    BY <1>2, <1>4, <1>5
  <2>2. QED
    BY <1>3, <1>4, <1>5, <2>1 DEF MemoryRoots
<1>6. ASSUME NEW x, agent(x) # NoAgent, NEW y, agent(y) \notin {NoAgent, agent(x)}
      PROVE  MemoryRoots(r, x) \cap MemoryRoots(r, y) = {}
  <2>1. /\ Canonical(r, x) \in r.manifests /\ Canonical(r, y) \in r.manifests
        /\ Canonical(r, x) # Canonical(r, y)
    BY <1>4, <1>6
  <2>2. QED
    BY <1>1, <2>1 DEF MemoryRoots
<1>7. ASSUME NEW x, agent(x) # NoAgent PROVE EventAgent(r, Blank, x, r.default) = agent(x)
  <2>1. ResolveKnown(r, Blank, TRUE, FALSE) = NoAgent
    BY DEF ResolveKnown
  <2>2. CASE x = Blank
    <3>1. agent(x) = r.default
      BY <2>2 DEF agent, ResolveKnown
    <3>2. EventAgent(r, Blank, x, r.default) = ResolveKnown(r, r.default, FALSE, FALSE)
      BY <2>1, <2>2 DEF EventAgent
    <3>3. QED
      BY <1>1, <1>3, <3>1, <3>2 DEF agent
  <2>3. CASE x # Blank
    <3>1. ResolveKnown(r, x, TRUE, FALSE) = agent(x)
      BY <2>3 DEF agent, ResolveKnown
    <3>2. QED
      BY <1>7, <2>1, <3>1 DEF EventAgent
  <2>4. QED
    BY <2>2, <2>3
<1>8. QED
  BY <1>3, <1>5, <1>6, <1>7 DEF NamesAreSound, agent

\* Every registry that is checked was accepted.
CheckedLoads ==
    checked.kind = "registry" => IsRegistry(checked.r) /\ Loads(checked.r)

\* A case is of one kind.
LEMMA KindsDiffer ==
    /\ CheckRegistry => checked'.kind = "registry"
    /\ CheckEntry => checked'.kind = "entry"
    /\ CheckContext => checked'.kind = "context"
    /\ CheckLoad => checked'.kind = "load"
    /\ CheckSignals => checked'.kind = "signals"
    /\ CheckPlateau => checked'.kind = "plateau"
    /\ CheckSeries => checked'.kind = "series"
    /\ CheckNodes => checked'.kind = "nodes"
<1>1. CheckRegistry => checked'.kind = "registry"
  BY DEF CheckRegistry
<1>2. CheckEntry => checked'.kind = "entry"
  BY DEF CheckEntry
<1>3. CheckContext => checked'.kind = "context"
  BY DEF CheckContext
<1>4. CheckLoad => checked'.kind = "load"
  BY DEF CheckLoad
<1>5. CheckSignals => checked'.kind = "signals"
  BY DEF CheckSignals
<1>6. CheckPlateau => checked'.kind = "plateau"
  BY DEF CheckPlateau
<1>7. CheckSeries => checked'.kind = "series"
  BY DEF CheckSeries
<1>8. CheckNodes => checked'.kind = "nodes"
  BY DEF CheckNodes
<1>9. QED
  BY <1>1, <1>2, <1>3, <1>4, <1>5, <1>6, <1>7, <1>8

\* In every case of the registry that is checked the tree of subagents is finite and
\* allowed and every name means one agent (agents/loader.py:247-340, agent_manager.py:163).
THEOREM RegistryIsAlwaysSound == CheckSpec => []RegistryIsSound
<1>1. CheckInit => CheckedLoads
  BY DEF CheckInit, CheckedLoads
<1>2. ASSUME CheckedLoads, [CheckNext]_checked PROVE CheckedLoads'
  <2>1. CASE CheckRegistry
    BY <2>1 DEF CheckRegistry, CheckedLoads
  <2>2. CASE UNCHANGED checked
    BY <1>2, <2>2 DEF CheckedLoads
  <2>3. CASE checked'.kind # "registry"
    BY <2>3 DEF CheckedLoads
  <2>4. QED
    BY <1>2, <2>1, <2>2, <2>3, KindsDiffer DEF CheckNext
<1>3. CheckedLoads => RegistryIsSound
  BY TreesAreSound, NamesMeanOneAgent DEF CheckedLoads, RegistryIsSound
<1>4. QED
  BY <1>1, <1>2, <1>3, PTL DEF CheckSpec

-----------------------------------------------------------------------------
(* The configuration of the MCP servers.                                     *)

AgentOf(r, x) == ResolveKnown(r, x, FALSE, FALSE)
Answers(r) == r.manifests \cup {NoAgent}

\* One turn of the loop of _normalize_agent_ids.
WithAgent(r, x, q) ==
    IF x = Blank \/ \E j \in DOMAIN q : q[j] = AgentOf(r, x) THEN q ELSE Append(q, AgentOf(r, x))

\* An id stands for an agent or for none; an agent's own stands for it.
LEMMA AgentsAreAnswers ==
    ASSUME NEW r, IsRegistry(r), Loads(r), NEW x
    PROVE  AgentOf(r, x) \in Answers(r) /\ (x \in r.manifests => AgentOf(r, x) = x /\ x # Blank)
BY DEF AgentOf, Answers, ResolveKnown, Canonical, IsRegistry, Loads, RegistryIsValid

\* Agents that stand for themselves are resolved to themselves, in order.
LEMMA AgentsOneByOne ==
    ASSUME NEW r, IsRegistry(r), Loads(r), NEW V, NEW ids \in Seq(V)
    PROVE  \E f \in [0..Len(ids) -> Seq(Answers(r))] :
              /\ f[0] = <<>> /\ \A i \in 1..Len(ids) : f[i] = WithAgent(r, ids[i], f[i - 1])
              /\ DistinctAgents(r, ids) = f[Len(ids)]
<1>1. PICK n : n = Len(ids)
  OBVIOUS
<1> DEFINE S == Seq(Answers(r))
           step == [i \in 1..n |-> [q \in S |-> WithAgent(r, ids[i], q)]]
           fun[i \in 0..n] == IF i = 0 THEN <<>> ELSE WithAgent(r, ids[i], fun[i - 1])
<1>2. n \in Nat /\ <<>> \in S
  BY <1>1
<1>3. \A x, q : q \in S => WithAgent(r, x, q) \in S
  BY AgentsAreAnswers DEF WithAgent
<1>4. step \in [1..n -> [S -> S]] /\ \A i \in 1..n, q \in S : step[i][q] = WithAgent(r, ids[i], q)
  BY <1>3
<1> HIDE DEF step, S
<1>5. PICK f \in [0..n -> S] : Solves(f, n, <<>>, step)
  BY <1>2, <1>4, Recursion
<1>6. \A i \in 1..n : f[i - 1] \in S
  BY <1>2, <1>5
<1>7. \A i \in 0..n : f[i] = IF i = 0 THEN <<>> ELSE WithAgent(r, ids[i], f[i - 1])
  BY <1>2, <1>4, <1>5, <1>6 DEF Solves
<1>8. f = [i \in 0..n |-> IF i = 0 THEN <<>> ELSE WithAgent(r, ids[i], f[i - 1])]
  BY <1>5, <1>7
<1>9. fun = [i \in 0..n |-> IF i = 0 THEN <<>> ELSE WithAgent(r, ids[i], fun[i - 1])]
  BY <1>8
<1>10. DistinctAgents(r, ids) = fun[n]
  BY <1>1 DEF DistinctAgents, WithAgent, AgentOf
<1> HIDE DEF fun
<1>11. fun[0] = <<>> /\ \A i \in 1..n : fun[i] = WithAgent(r, ids[i], fun[i - 1])
  BY <1>2, <1>9
<1>12. fun \in [0..n -> S]
  <2> DEFINE T == {i \in 0..n : fun[i] \in S}
  <2>1. 0 \in T
    BY <1>2, <1>11
  <2>2. \A i \in 1..n : i - 1 \in T => i \in T
    BY <1>2, <1>3, <1>11
  <2> HIDE DEF T
  <2>3. \A i \in 0..n : i \in T
    BY <1>2, <2>1, <2>2, Induction
  <2>4. QED
    BY <1>9, <2>3 DEF T
<1>13. QED
  BY <1>1, <1>10, <1>11, <1>12 DEF S

\* _normalize_agent_ids keeps no agent twice.
LEMMA AgentsAreDistinct ==
    ASSUME NEW r, IsRegistry(r), Loads(r), NEW V, NEW ids \in Seq(V)
    PROVE  /\ DistinctAgents(r, ids) \in Seq(Answers(r))
           /\ \A i, j \in DOMAIN DistinctAgents(r, ids) :
                 i # j => DistinctAgents(r, ids)[i] # DistinctAgents(r, ids)[j]
<1> DEFINE n == Len(ids)
           Apart(q) == \A i, j \in DOMAIN q : i # j => q[i] # q[j]
<1>1. PICK f \in [0..n -> Seq(Answers(r))] :
          /\ f[0] = <<>> /\ \A i \in 1..n : f[i] = WithAgent(r, ids[i], f[i - 1])
          /\ DistinctAgents(r, ids) = f[n]
  BY AgentsOneByOne
<1> DEFINE T == {i \in 0..n : Apart(f[i])}
<1>2. n \in Nat
  OBVIOUS
<1>3. 0 \in T
  BY <1>1, <1>2
<1>4. ASSUME NEW i \in 1..n, i - 1 \in T PROVE i \in T
  <2>1. PICK q : q = f[i - 1]
    OBVIOUS
  <2>2. q \in Seq(Answers(r)) /\ Apart(q) /\ f[i] = WithAgent(r, ids[i], q)
    BY <1>1, <1>2, <1>4, <2>1
  <2>3. CASE f[i] = q
    BY <2>2, <2>3
  <2>4. CASE f[i] = Append(q, AgentOf(r, ids[i])) /\ \A j \in DOMAIN q : q[j] # AgentOf(r, ids[i])
    BY <2>2, <2>4
  <2>5. QED
    BY <2>2, <2>3, <2>4 DEF WithAgent
<1> HIDE DEF T
<1>5. \A i \in 0..n : i \in T
  BY <1>2, <1>3, <1>4, Induction
<1>6. n \in 0..n
  BY <1>2
<1>7. Apart(f[n]) /\ f[n] \in Seq(Answers(r))
  BY <1>1, <1>5, <1>6 DEF T
<1>8. QED
  BY <1>1, <1>7

\* Known agents without repetition are kept as they are.
LEMMA DistinctAgentsStay ==
    ASSUME NEW r, IsRegistry(r), Loads(r), NEW ids \in Seq(r.manifests),
           \A i, j \in DOMAIN ids : i # j => ids[i] # ids[j]
    PROVE  DistinctAgents(r, ids) = ids
<1> DEFINE n == Len(ids)
           M == r.manifests
           Start(q, i) == Len(q) = i /\ \A j \in 1..i : q[j] = ids[j]
<1>1. PICK f \in [0..n -> Seq(Answers(r))] :
          /\ f[0] = <<>> /\ \A i \in 1..n : f[i] = WithAgent(r, ids[i], f[i - 1])
          /\ DistinctAgents(r, ids) = f[n]
  BY AgentsOneByOne
<1> DEFINE T == {i \in 0..n : Start(f[i], i)}
<1>2. n \in Nat /\ DOMAIN ids = 1..n
  OBVIOUS
<1>3. 0 \in T
  BY <1>1, <1>2
<1>4. ASSUME NEW i \in 1..n, i - 1 \in T PROVE i \in T
  <2>1. PICK q : q = f[i - 1]
    OBVIOUS
  <2>2. q \in Seq(Answers(r)) /\ Start(q, i - 1) /\ f[i] = WithAgent(r, ids[i], q)
    BY <1>1, <1>2, <1>4, <2>1
  <2>3. AgentOf(r, ids[i]) = ids[i] /\ ids[i] # Blank /\ ids[i] \in Answers(r)
    BY <1>2, AgentsAreAnswers DEF Answers
  <2>4. \A j \in DOMAIN q : q[j] # ids[i]
    BY <1>2, <2>2
  <2>5. f[i] = Append(q, ids[i])
    BY <2>2, <2>3, <2>4 DEF WithAgent
  <2>6. Len(f[i]) = i /\ \A j \in 1..i : f[i][j] = ids[j]
    BY <2>2, <2>3, <2>5
  <2>7. QED
    BY <2>6
<1> HIDE DEF T
<1>5. \A i \in 0..n : i \in T
  BY <1>2, <1>3, <1>4, Induction
<1>6. Len(f[n]) = n /\ \A j \in 1..n : f[n][j] = ids[j]
  BY <1>2, <1>5 DEF T
<1>7. f[n] \in Seq(Answers(r))
  BY <1>1, <1>2
<1>8. ids \in Seq(Answers(r))
  BY DEF Answers
<1>9. f[n] = ids
  BY <1>6, <1>7, <1>8
<1>10. QED
  BY <1>1, <1>9

\* An MCP configuration that is accepted is read back as what it was accepted as, with
\* every agent once, by any registry that loads (services/mcp_registry.py).
THEOREM ConfigurationIsKept ==
    \A r, e, V, names : IsRegistry(r) /\ Loads(r) /\ e \in Entries(Seq(V)) => SavedIsLoaded(r, e, names)
<1> SUFFICES ASSUME NEW r, NEW e, NEW V, NEW names, IsRegistry(r), Loads(r), e \in Entries(Seq(V)),
                    ParsedServer(r, e) # Rejected
             PROVE  LET saved == WrittenServer(r, e)
                    IN  /\ ParsedServer(r, saved) = ParsedServer(r, e)
                        /\ WrittenServer(r, saved) = saved
                        /\ Cardinality({saved.agentIds[i] : i \in DOMAIN saved.agentIds})
                             = Len(saved.agentIds)
                        /\ \A x \in names : ResolveKnown(r, x, FALSE, FALSE) # NoAgent =>
                              ConnectionsOf(r, <<saved>>, x) =
                                  ConnectionsOf(r, <<e>>, ResolveKnown(r, x, FALSE, FALSE))
  BY DEF SavedIsLoaded
<1>1. PICK agents : agents = DistinctAgents(r, e.agentIds)
  OBVIOUS
<1>2. PICK saved : saved = WrittenServer(r, e)
  OBVIOUS
<1>3. e.agentIds \in Seq(V)
  BY DEF Entries
<1>4. agents \in Seq(Answers(r)) /\ \A i, j \in DOMAIN agents : i # j => agents[i] # agents[j]
  BY <1>1, <1>3, AgentsAreDistinct
<1>c. PICK yes \in BOOLEAN : yes = (e.enabled # "no")
  OBVIOUS
<1>5. /\ \A i \in DOMAIN agents : agents[i] # NoAgent
      /\ ParsedServer(r, e) = [transport |-> TransportOf(e), enabled |-> e.enabled # "no", agents |-> agents]
  BY <1>1 DEF ParsedServer
<1>6. agents \in Seq(r.manifests)
  BY <1>4, <1>5, ElementsOfSeq DEF Answers
<1>7. DistinctAgents(r, agents) = agents
  BY <1>4, <1>6, DistinctAgentsStay
<1>8. /\ saved = [e EXCEPT !.enabled = IF ParsedServer(r, e).enabled THEN "yes" ELSE "no",
                         !.agentIds = agents]
      /\ ParsedServer(r, e).enabled = (e.enabled # "no")
  BY <1>1, <1>2, <1>5 DEF WrittenServer
<1>a. /\ saved.agentIds = agents /\ saved.command = e.command /\ saved.url = e.url
      /\ saved.transport = e.transport
      /\ saved.enabled = IF ParsedServer(r, e).enabled THEN "yes" ELSE "no"
  BY <1>8 DEF Entries
<1>b. (saved.enabled # "no") <=> (e.enabled # "no")
  <2>1. ParsedServer(r, e).enabled <=> e.enabled # "no"
    <3>1. ParsedServer(r, e) = [transport |-> TransportOf(e), enabled |-> yes, agents |-> agents]
      BY <1>5, <1>c, Zenon
    <3>2. ParsedServer(r, e).enabled = yes
      BY <3>1
    <3>3. QED
      BY <1>c, <3>2
  <2>2. CASE e.enabled = "no"
    BY <1>a, <2>1, <2>2
  <2>3. CASE e.enabled # "no"
    BY <1>a, <2>1, <2>3
  <2>4. QED
    BY <2>2, <2>3
<1>9. TransportOf(saved) = TransportOf(e)
  BY <1>a DEF TransportOf
<1>10. ParsedServer(r, saved) = ParsedServer(r, e)
  BY <1>1, <1>7, <1>a, <1>b, <1>9 DEF ParsedServer
<1>11. WrittenServer(r, saved) = saved
  <2>1. WrittenServer(r, saved) =
          [saved EXCEPT !.enabled = IF ParsedServer(r, e).enabled THEN "yes" ELSE "no",
                        !.agentIds = agents]
    BY <1>7, <1>a, <1>10 DEF WrittenServer
  <2>2. QED
    BY <1>8, <2>1 DEF Entries
<1>12. Cardinality({agents[i] : i \in DOMAIN agents}) = Len(agents)
  <2> DEFINE R == {agents[i] : i \in DOMAIN agents}
  <2>1. Len(agents) \in Nat /\ DOMAIN agents = 1..Len(agents)
    BY <1>4
  <2>2. agents \in Bijection(1..Len(agents), R)
    BY <1>4, <2>1 DEF Bijection, Injection, Surjection, IsInjective
  <2>3. ExistsBijection(1..Len(agents), R)
    BY <2>2 DEF ExistsBijection
  <2>4. QED
    BY <2>1, <2>3, FS_CountingElements
<1>13. \A x : ResolveKnown(r, x, FALSE, FALSE) # NoAgent =>
         ConnectionsOf(r, <<saved>>, x) = ConnectionsOf(r, <<e>>, ResolveKnown(r, x, FALSE, FALSE))
  <2> SUFFICES ASSUME NEW x, AgentOf(r, x) # NoAgent
               PROVE  ConnectionsOf(r, <<saved>>, x) = ConnectionsOf(r, <<e>>, AgentOf(r, x))
    BY DEF AgentOf
  <2>1. AgentOf(r, AgentOf(r, x)) = AgentOf(r, x)
    BY AgentsAreAnswers DEF Answers
  <2>2. DOMAIN <<saved>> = {1} /\ DOMAIN <<e>> = {1} /\ <<saved>>[1] = saved /\ <<e>>[1] = e
    OBVIOUS
  <2>3. QED
    BY <1>10, <2>1, <2>2 DEF ConnectionsOf, AgentOf
<1>14. QED
  BY <1>2, <1>a, <1>10, <1>11, <1>12, <1>13

\* In every case of an entry that is checked the configuration is read back as it was
\* accepted (services/mcp_registry.py:122-130, 371-389).
THEOREM SavedConfigIsAlwaysLoaded == CheckSpec => []SavedConfigIsLoaded
<1> DEFINE Known == checked.kind = "entry" => checked.e \in MCEntries
<1>1. CheckInit => Known
  BY DEF CheckInit
<1>2. Known /\ [CheckNext]_checked => Known'
  <2> SUFFICES ASSUME Known, [CheckNext]_checked PROVE Known'
    OBVIOUS
  <2>1. CASE CheckEntry
    BY <2>1 DEF CheckEntry
  <2>2. CASE UNCHANGED checked
    BY <2>2
  <2>3. CASE checked'.kind # "entry"
    BY <2>3
  <2>4. QED
    BY <2>1, <2>2, <2>3, KindsDiffer DEF CheckNext
<1>3. Known => SavedConfigIsLoaded
  <2> SUFFICES ASSUME Known, checked.kind = "entry" PROVE SavedIsLoaded(MCRegistry, checked.e, MCNames)
    BY DEF SavedConfigIsLoaded
  <2>1. PICK V : V = {a, b, legacy, ghost, Blank}
    OBVIOUS
  <2>2. BoundedSeq(V, 2) \subseteq Seq(V)
    <3> SUFFICES ASSUME NEW s \in BoundedSeq(V, 2) PROVE s \in Seq(V)
      OBVIOUS
    <3>1. PICK m \in 0..2 : s \in [1..m -> V]
      BY DEF BoundedSeq, SeqOf
    <3>2. m \in Nat
      OBVIOUS
    <3>3. QED
      BY <3>1, <3>2, SeqDef
  <2>3. checked.e \in Entries(Seq(V))
    BY <2>1, <2>2 DEF MCEntries, Entries
  <2>4. QED
    BY <2>3, MCRegistryLoads, ConfigurationIsKept
<1>4. QED
  BY <1>1, <1>2, <1>3, PTL DEF CheckSpec

-----------------------------------------------------------------------------
(* Sorting.                                                                  *)

\* ahead gives each element of D those that come before it.
LinearOrder(D, ahead) ==
    /\ \A i \in D : i \notin ahead[i]
    /\ \A i, j \in D : i \in ahead[j] => ahead[i] \subseteq ahead[j]
    /\ \A i, j \in D : i # j => i \in ahead[j] \/ j \in ahead[i]

\* Every element has a place of its own, as many places in as there are elements before
\* it.
LEMMA ArrangedInOrder ==
    ASSUME NEW D, IsFiniteSet(D), NEW ahead \in [D -> SUBSET D], LinearOrder(D, ahead)
    PROVE  /\ Cardinality(D) \in Nat
           /\ Arranged(ahead) \in [1..Cardinality(D) -> D]
           /\ \A k \in 1..Cardinality(D) : Cardinality(ahead[Arranged(ahead)[k]]) = k - 1
           /\ \A i \in D : \E k \in 1..Cardinality(D) : Arranged(ahead)[k] = i
<1> DEFINE n == Cardinality(D)
           place == [i \in D |-> Cardinality(ahead[i]) + 1]
<1>1. n \in Nat
  BY FS_CardinalityType
<1>2. \A i \in D : ahead[i] \subseteq D /\ IsFiniteSet(ahead[i]) /\ Cardinality(ahead[i]) \in Nat
  <2>1. \A i \in D : ahead[i] \in SUBSET D
    OBVIOUS
  <2>2. \A T \in SUBSET D : IsFiniteSet(T) /\ Cardinality(T) \in Nat
    BY FS_Subset, FS_CardinalityType
  <2>3. QED
    BY <2>1, <2>2
<1>3. \A i \in D : Cardinality(ahead[i]) < n
  <2> SUFFICES ASSUME NEW i \in D PROVE Cardinality(ahead[i]) < n
    OBVIOUS
  <2>1. Cardinality(ahead[i]) <= n /\ (n = Cardinality(ahead[i]) => D = ahead[i])
    BY <1>2, FS_Subset
  <2>2. D # ahead[i]
    BY DEF LinearOrder
  <2>3. QED
    BY <1>1, <1>2, <2>1, <2>2
<1>4. \A i, j \in D : i \in ahead[j] => Cardinality(ahead[i]) < Cardinality(ahead[j])
  <2> SUFFICES ASSUME NEW i \in D, NEW j \in D, i \in ahead[j]
               PROVE  Cardinality(ahead[i]) < Cardinality(ahead[j])
    OBVIOUS
  <2>1. ahead[i] \in SUBSET ahead[j] /\ ahead[i] # ahead[j]
    BY DEF LinearOrder
  <2>2. /\ Cardinality(ahead[i]) <= Cardinality(ahead[j])
        /\ Cardinality(ahead[j]) = Cardinality(ahead[i]) => ahead[j] = ahead[i]
    BY <1>2, <2>1, FS_Subset
  <2>3. QED
    BY <1>2, <2>1, <2>2
<1>5. place \in [D -> 1..n] /\ \A i \in D : place[i] = Cardinality(ahead[i]) + 1
  BY <1>1, <1>2, <1>3
<1> HIDE DEF place
<1>6. \A i, j \in D : i # j => place[i] # place[j]
  <2> SUFFICES ASSUME NEW i \in D, NEW j \in D, i # j PROVE place[i] # place[j]
    OBVIOUS
  <2>1. i \in ahead[j] \/ j \in ahead[i]
    BY DEF LinearOrder
  <2>2. QED
    BY <1>2, <1>4, <1>5, <2>1
<1>7. place \in Surjection(D, 1..n)
  <2>1. place \in Injection(D, 1..n)
    BY <1>5, <1>6 DEF Injection, IsInjective
  <2>2. IsFiniteSet(1..n) /\ Cardinality(1..n) = n
    BY <1>1, FS_Interval
  <2>3. QED
    BY <2>1, <2>2, FS_Injection
<1>8. \A k \in 1..n : \E i \in D : place[i] = k
  BY <1>7 DEF Surjection
<1>9. Arranged(ahead) = [k \in 1..n |-> CHOOSE i \in D : place[i] = k]
  BY DEF Arranged, place
<1>10. \A k \in 1..n : Arranged(ahead)[k] \in D /\ place[Arranged(ahead)[k]] = k
  BY <1>8, <1>9
<1>11. \A k \in 1..n : Cardinality(ahead[Arranged(ahead)[k]]) = k - 1
  BY <1>2, <1>5, <1>10
<1>12. \A i \in D : Arranged(ahead)[place[i]] = i
  BY <1>5, <1>6, <1>10
<1>13. QED
  BY <1>1, <1>5, <1>9, <1>10, <1>11, <1>12

\* What comes before what by a key.
AheadByKey(D, key) == [i \in D |-> {j \in D : key[j] < key[i] \/ (key[j] = key[i] /\ j < i)}]

\* By their keys, then by their positions, no two positions are level.
LEMMA KeysOrder ==
    ASSUME NEW D \in SUBSET Int, NEW key \in [D -> Int]
    PROVE  /\ AheadByKey(D, key) \in [D -> SUBSET D]
           /\ LinearOrder(D, AheadByKey(D, key))
           /\ ByKey(key) = Arranged(AheadByKey(D, key))
<1>1. \A i \in D : key[i] \in Int /\ i \in Int
  OBVIOUS
<1>2. AheadByKey(D, key) \in [D -> SUBSET D]
  BY DEF AheadByKey
<1>3. \A i, j \in D : j \in AheadByKey(D, key)[i] <=> key[j] < key[i] \/ (key[j] = key[i] /\ j < i)
  BY DEF AheadByKey
<1>4. \A i \in D : i \notin AheadByKey(D, key)[i]
  BY <1>1, <1>3
<1>5. ASSUME NEW i \in D, NEW j \in D, i \in AheadByKey(D, key)[j], NEW k \in AheadByKey(D, key)[i]
      PROVE  k \in AheadByKey(D, key)[j]
  <2>1. k \in D
    BY <1>2
  <2>2. QED
    BY <1>1, <1>3, <1>5, <2>1
<1>6. \A i, j \in D : i # j => i \in AheadByKey(D, key)[j] \/ j \in AheadByKey(D, key)[i]
  BY <1>1, <1>3
<1>7. LinearOrder(D, AheadByKey(D, key))
  BY <1>4, <1>5, <1>6 DEF LinearOrder
<1>8. DOMAIN key = D
  OBVIOUS
<1>9. ByKey(key) = Arranged(AheadByKey(D, key))
  BY <1>8 DEF ByKey, AheadByKey
<1>10. QED
  BY <1>2, <1>7, <1>9

\* What python's sorted promises: the elements, from the least key on, ...
LEMMA SortedByKey ==
    ASSUME NEW D \in SUBSET Int, IsFiniteSet(D), NEW key \in [D -> Int]
    PROVE  /\ Cardinality(D) \in Nat
           /\ ByKey(key) \in [1..Cardinality(D) -> D]
           /\ \A k \in 1..Cardinality(D) :
                 Cardinality({j \in D : key[j] < key[ByKey(key)[k]]}) < k
           /\ \A k \in 1..Cardinality(D) :
                 k <= Cardinality({j \in D : key[j] <= key[ByKey(key)[k]]})
           /\ \A i \in D : \E k \in 1..Cardinality(D) : ByKey(key)[k] = i
<1> DEFINE n == Cardinality(D)
           ahead == AheadByKey(D, key)
           Under(i) == {j \in D : key[j] < key[i]}
           UpTo(i) == {j \in D : key[j] <= key[i]}
<1>1. /\ n \in Nat
      /\ ByKey(key) \in [1..n -> D]
      /\ \A k \in 1..n : Cardinality(ahead[ByKey(key)[k]]) = k - 1
      /\ \A i \in D : \E k \in 1..n : ByKey(key)[k] = i
  <2>1. PICK f \in [D -> SUBSET D] : f = ahead
    BY KeysOrder
  <2>2. LinearOrder(D, f) /\ ByKey(key) = Arranged(f)
    BY <2>1, KeysOrder
  <2>3. /\ n \in Nat /\ Arranged(f) \in [1..n -> D]
        /\ \A k \in 1..n : Cardinality(f[Arranged(f)[k]]) = k - 1
        /\ \A i \in D : \E k \in 1..n : Arranged(f)[k] = i
    BY <2>2, ArrangedInOrder
  <2>4. QED
    BY <2>1, <2>2, <2>3
<1>2. \A T \in SUBSET D : IsFiniteSet(T) /\ Cardinality(T) \in Nat
  BY FS_Subset, FS_CardinalityType
<1>3. \A i \in D : ahead[i] \in SUBSET D /\ i \notin ahead[i]
  BY KeysOrder DEF LinearOrder
<1>4. ASSUME NEW i \in D PROVE Cardinality(Under(i)) <= Cardinality(ahead[i])
  <2>1. Under(i) \in SUBSET ahead[i]
    BY DEF AheadByKey
  <2>2. QED
    BY <1>2, <1>3, <2>1, FS_Subset
<1>5. ASSUME NEW i \in D PROVE Cardinality(ahead[i]) + 1 <= Cardinality(UpTo(i))
  <2>1. ahead[i] \cup {i} \in SUBSET UpTo(i)
    <3>1. ASSUME NEW j \in ahead[i] PROVE j \in UpTo(i)
      <4>1. j \in D /\ (key[j] < key[i] \/ key[j] = key[i])
        BY DEF AheadByKey
      <4>2. key[j] \in Int /\ key[i] \in Int
        BY <4>1
      <4>3. QED
        BY <4>1, <4>2
    <3>2. i \in UpTo(i)
      <4>1. key[i] \in Int
        OBVIOUS
      <4>2. QED
        BY <4>1
    <3>3. QED
      BY <3>1, <3>2
  <2>2. Cardinality(ahead[i] \cup {i}) = Cardinality(ahead[i]) + 1
    BY <1>2, <1>3, FS_AddElement
  <2>3. UpTo(i) \in SUBSET D
    OBVIOUS
  <2>4. QED
    BY <1>2, <2>1, <2>2, <2>3, FS_Subset
<1>6. ASSUME NEW k \in 1..n
      PROVE  /\ Cardinality({j \in D : key[j] < key[ByKey(key)[k]]}) < k
             /\ k <= Cardinality({j \in D : key[j] <= key[ByKey(key)[k]]})
  <2>1. PICK i \in D : i = ByKey(key)[k]
    BY <1>1
  <2>2. Cardinality(ahead[i]) = k - 1
    BY <1>1, <2>1
  <2>3. Cardinality(Under(i)) <= k - 1
    BY <1>4, <2>2
  <2>4. k - 1 + 1 <= Cardinality(UpTo(i))
    BY <1>5, <2>2
  <2>5. Under(i) \in SUBSET D /\ UpTo(i) \in SUBSET D
    OBVIOUS
  <2>6. Cardinality(Under(i)) \in Nat /\ Cardinality(UpTo(i)) \in Nat
    BY <1>2, <2>5
  <2>7. Cardinality(Under(i)) < k /\ k <= Cardinality(UpTo(i))
    BY <2>3, <2>4, <2>6
  <2>8. QED
    BY <2>1, <2>7
<1>7. QED
  BY <1>1, <1>6

-----------------------------------------------------------------------------
(* Sums.                                                                     *)

AnyOf(T) == CHOOSE x \in T : TRUE

\* g gives the sum of the values of fun over T in terms of that without one of its elements.
SumsUp(g, fun, T) == g[T] = IF T = {} THEN 0 ELSE fun[AnyOf(T)] + g[T \ {AnyOf(T)}]

\* The recursion of a sum has a solution on every subset.
LEMMA SumsExist ==
    ASSUME NEW D, IsFiniteSet(D), NEW fun \in [D -> Int]
    PROVE  \E g \in [SUBSET D -> Int] : \A T \in SUBSET D : SumsUp(g, fun, T)
<1> DEFINE n == Cardinality(D)
           UpTo(g, k) == \A T \in SUBSET D : Cardinality(T) <= k => SumsUp(g, fun, T)
           K == {k \in 0..n : \E g \in [SUBSET D -> Int] : UpTo(g, k)}
<1>1. n \in Nat
  BY FS_CardinalityType
<1>2. \A T \in SUBSET D : IsFiniteSet(T) /\ Cardinality(T) \in Nat /\ Cardinality(T) <= n
  BY FS_Subset, FS_CardinalityType
<1>3. \A T \in SUBSET D : T # {} =>
        /\ AnyOf(T) \in T /\ T \ {AnyOf(T)} \in SUBSET D
        /\ Cardinality(T \ {AnyOf(T)}) = Cardinality(T) - 1
  BY <1>2, FS_RemoveElement DEF AnyOf
<1>4. 0 \in K
  <2>1. PICK g : g = [T \in SUBSET D |-> 0]
    OBVIOUS
  <2>2. g \in [SUBSET D -> Int]
    BY <2>1
  <2>3. \A T \in SUBSET D : Cardinality(T) <= 0 => T = {}
    BY <1>2, FS_EmptySet
  <2>4. UpTo(g, 0)
    BY <2>1, <2>3 DEF SumsUp
  <2>5. QED
    BY <1>1, <2>2, <2>4
<1>5. ASSUME NEW k \in 1..n, k - 1 \in K PROVE k \in K
  <2>1. PICK g \in [SUBSET D -> Int] : UpTo(g, k - 1)
    BY <1>5
  <2>2. PICK h : h = [T \in SUBSET D |-> IF Cardinality(T) <= k - 1 THEN g[T]
                                        ELSE fun[AnyOf(T)] + g[T \ {AnyOf(T)}]]
    OBVIOUS
  <2>3. \A T \in SUBSET D : Cardinality(T) > k - 1 => T # {}
    BY <1>1, <1>2, FS_EmptySet
  <2>4. h \in [SUBSET D -> Int]
    <3>1. ASSUME NEW T \in SUBSET D, ~(Cardinality(T) <= k - 1)
          PROVE  fun[AnyOf(T)] + g[T \ {AnyOf(T)}] \in Int
      <4>1. T # {}
        BY <1>2, <2>3, <3>1
      <4>2. AnyOf(T) \in D /\ T \ {AnyOf(T)} \in SUBSET D
        BY <1>3, <4>1
      <4>3. fun[AnyOf(T)] \in Int /\ g[T \ {AnyOf(T)}] \in Int
        BY <4>2
      <4>4. QED
        BY <4>3
    <3>2. QED
      BY <2>2, <3>1
  <2>5. ASSUME NEW T \in SUBSET D, Cardinality(T) <= k PROVE SumsUp(h, fun, T)
    <3>1. CASE T = {}
      <4>1. Cardinality(T) = 0
        BY <3>1, FS_EmptySet
      <4>2. h[T] = g[T] /\ SumsUp(g, fun, T)
        BY <1>1, <2>1, <2>2, <4>1
      <4>3. QED
        BY <3>1, <4>2 DEF SumsUp
    <3>2. CASE T # {}
      <4>1. T \ {AnyOf(T)} \in SUBSET D /\ Cardinality(T \ {AnyOf(T)}) <= k - 1
        BY <1>2, <1>3, <2>5, <3>2
      <4>2. h[T \ {AnyOf(T)}] = g[T \ {AnyOf(T)}]
        BY <2>2, <4>1
      <4>3. h[T] = fun[AnyOf(T)] + g[T \ {AnyOf(T)}]
        <5>1. CASE Cardinality(T) <= k - 1
          <6>1. SumsUp(g, fun, T) /\ h[T] = g[T]
            BY <2>1, <2>2, <5>1
          <6>2. QED
            BY <3>2, <6>1 DEF SumsUp
        <5>2. CASE ~(Cardinality(T) <= k - 1)
          BY <2>2, <5>2
        <5>3. QED
          BY <5>1, <5>2
      <4>4. QED
        BY <3>2, <4>2, <4>3 DEF SumsUp
    <3>3. QED
      BY <3>1, <3>2
  <2>6. QED
    BY <2>4, <2>5
<1> HIDE DEF K
<1>6. \A k \in 0..n : k \in K
  BY <1>1, <1>4, <1>5, Induction
<1>7. n \in K
  BY <1>1, <1>6
<1>8. PICK g \in [SUBSET D -> Int] : UpTo(g, n)
  BY <1>7 DEF K
<1>9. QED
  BY <1>2, <1>8

\* What holds of the empty set, and of a set if it holds of that set without AnyOf, holds
\* of all.
LEMMA OneLess ==
    ASSUME NEW D, IsFiniteSet(D), NEW Good, {} \in Good,
           \A T \in SUBSET D : T # {} /\ T \ {AnyOf(T)} \in Good => T \in Good
    PROVE  \A T \in SUBSET D : T \in Good
<1> DEFINE Bad == {T \in SUBSET D : T \notin Good}
<1> SUFFICES ASSUME Bad # {} PROVE FALSE
  OBVIOUS
<1>1. Bad \in SUBSET (SUBSET D)
  OBVIOUS
<1> HIDE DEF Bad
<1>2. PICK T \in Bad : \A U \in Bad : ~(U \subseteq T /\ U # T)
  BY <1>1, LeastSet
<1>3. T \in SUBSET D /\ T \notin Good /\ T # {}
  BY <1>2 DEF Bad
<1>4. AnyOf(T) \in T
  BY <1>3 DEF AnyOf
<1>5. T \ {AnyOf(T)} \in Bad
  BY <1>3 DEF Bad
<1>6. QED
  BY <1>2, <1>4, <1>5

\* sum, of the values of a function.
LEMMA SumIs ==
    ASSUME NEW D, IsFiniteSet(D), NEW fun \in [D -> Int]
    PROVE  \E g \in [SUBSET D -> Int] : SumOf(fun) = g[D] /\ \A T \in SUBSET D : SumsUp(g, fun, T)
<1> DEFINE iter[T \in SUBSET D] ==
               IF T = {} THEN 0 ELSE fun[CHOOSE x \in T : TRUE] + iter[T \ {CHOOSE x \in T : TRUE}]
<1>1. PICK g \in [SUBSET D -> Int] : \A T \in SUBSET D : SumsUp(g, fun, T)
  BY SumsExist
<1>2. g = [T \in SUBSET D |->
             IF T = {} THEN 0 ELSE fun[CHOOSE x \in T : TRUE] + g[T \ {CHOOSE x \in T : TRUE}]]
  BY <1>1 DEF SumsUp, AnyOf
<1>3. iter = [T \in SUBSET D |->
                IF T = {} THEN 0 ELSE fun[CHOOSE x \in T : TRUE] + iter[T \ {CHOOSE x \in T : TRUE}]]
  BY <1>2
<1>4. DOMAIN fun = D
  OBVIOUS
<1>5. SumOf(fun) = iter[D]
  BY <1>4 DEF SumOf, FoldSeq, FoldFunction, FoldFunctionOnSet, MapThenFoldSet
<1> HIDE DEF iter
<1>6. \A T \in SUBSET D : SumsUp(iter, fun, T)
  BY <1>3 DEF SumsUp, AnyOf
<1>7. \A T \in SUBSET D : iter[T] = g[T]
  <2> DEFINE Good == {T \in SUBSET D : iter[T] = g[T]}
  <2>1. {} \in Good
    BY <1>1, <1>6 DEF SumsUp
  <2>2. ASSUME NEW T \in SUBSET D, T # {}, T \ {AnyOf(T)} \in Good PROVE T \in Good
    BY <1>1, <1>6, <2>2 DEF SumsUp
  <2> HIDE DEF Good
  <2>3. \A T \in SUBSET D : T \in Good
    BY <2>1, <2>2, OneLess
  <2>4. QED
    BY <2>3 DEF Good
<1>8. SumOf(fun) = g[D]
  BY <1>5, <1>7
<1>9. QED
  BY <1>1, <1>8

\* Where no value is lower the sum is not lower.
LEMMA SumIsMonotone ==
    ASSUME NEW D, IsFiniteSet(D), NEW low \in [D -> Int], NEW high \in [D -> Int],
           \A i \in D : low[i] <= high[i]
    PROVE  SumOf(low) \in Int /\ SumOf(high) \in Int /\ SumOf(low) <= SumOf(high)
<1>1. PICK g \in [SUBSET D -> Int] : SumOf(low) = g[D] /\ \A T \in SUBSET D : SumsUp(g, low, T)
  BY SumIs
<1>2. PICK h \in [SUBSET D -> Int] : SumOf(high) = h[D] /\ \A T \in SUBSET D : SumsUp(h, high, T)
  BY SumIs
<1> DEFINE Good == {T \in SUBSET D : g[T] <= h[T]}
<1>3. {} \in Good
  <2>1. g[{}] = 0 /\ h[{}] = 0
    BY <1>1, <1>2 DEF SumsUp
  <2>2. QED
    BY <2>1
<1>4. ASSUME NEW T \in SUBSET D, T # {}, T \ {AnyOf(T)} \in Good PROVE T \in Good
  <2>1. AnyOf(T) \in D
    BY <1>4 DEF AnyOf
  <2>2. PICK i \in D : i = AnyOf(T)
    BY <2>1
  <2>3. g[T] = low[i] + g[T \ {i}] /\ h[T] = high[i] + h[T \ {i}] /\ g[T \ {i}] <= h[T \ {i}]
    BY <1>1, <1>2, <1>4, <2>2 DEF SumsUp
  <2>4. /\ low[i] \in Int /\ high[i] \in Int /\ low[i] <= high[i]
        /\ g[T \ {i}] \in Int /\ h[T \ {i}] \in Int
    OBVIOUS
  <2>5. g[T] <= h[T]
    BY <2>3, <2>4
  <2>6. QED
    BY <2>5
<1> HIDE DEF Good
<1>5. \A T \in SUBSET D : T \in Good
  BY <1>3, <1>4, OneLess
<1>6. g[D] <= h[D] /\ g[D] \in Int /\ h[D] \in Int
  BY <1>5 DEF Good
<1>7. QED
  BY <1>1, <1>2, <1>6

-----------------------------------------------------------------------------
(* The verdicts of the health analyzer.                                      *)

\* The k-th in order has fewer than k below it and k at most up to it.
LEMMA SortedIs ==
    ASSUME NEW n \in Nat, NEW s \in [1..n -> Int], NEW k \in 1..n
    PROVE  /\ Sorted(s)[k] \in Int
           /\ Cardinality({j \in 1..n : s[j] < Sorted(s)[k]}) < k
           /\ k <= Cardinality({j \in 1..n : s[j] <= Sorted(s)[k]})
<1>1. 1..n \in SUBSET Int /\ IsFiniteSet(1..n) /\ Cardinality(1..n) = n
  BY FS_Interval
<1>2. /\ ByKey(s) \in [1..n -> 1..n]
      /\ Cardinality({j \in 1..n : s[j] < s[ByKey(s)[k]]}) < k
      /\ k <= Cardinality({j \in 1..n : s[j] <= s[ByKey(s)[k]]})
  <2>1. PICK D : D = 1..n
    OBVIOUS
  <2>2. D \in SUBSET Int /\ IsFiniteSet(D) /\ s \in [D -> Int] /\ Cardinality(D) = n
    BY <1>1, <2>1
  <2>3. /\ ByKey(s) \in [1..Cardinality(D) -> D]
        /\ \A i \in 1..Cardinality(D) : Cardinality({j \in D : s[j] < s[ByKey(s)[i]]}) < i
        /\ \A i \in 1..Cardinality(D) : i <= Cardinality({j \in D : s[j] <= s[ByKey(s)[i]]})
    BY <2>2, SortedByKey
  <2>4. QED
    BY <2>1, <2>2, <2>3
<1>3. Sorted(s)[k] = s[ByKey(s)[k]]
  BY <1>2 DEF Sorted
<1>4. QED
  BY <1>2, <1>3

\* Raising values raises every one of the sorted sequence, or leaves it.
LEMMA SortedIsMonotone ==
    ASSUME NEW n \in Nat, NEW low \in [1..n -> Int], NEW high \in [1..n -> Int],
           \A i \in 1..n : low[i] <= high[i], NEW k \in 1..n
    PROVE  Sorted(low)[k] <= Sorted(high)[k]
<1>1. PICK u, v : u = Sorted(low)[k] /\ v = Sorted(high)[k]
  OBVIOUS
<1>2. u \in Int /\ Cardinality({j \in 1..n : low[j] < u}) < k
  BY <1>1, SortedIs
<1>3. v \in Int /\ k <= Cardinality({j \in 1..n : high[j] <= v})
  BY <1>1, SortedIs
<1>4. CASE v < u
  <2>1. {j \in 1..n : high[j] <= v} \subseteq {j \in 1..n : low[j] < u}
    <3> SUFFICES ASSUME NEW j \in 1..n, high[j] <= v PROVE low[j] < u
      OBVIOUS
    <3>1. low[j] \in Int /\ high[j] \in Int /\ low[j] <= high[j]
      OBVIOUS
    <3>2. QED
      BY <1>2, <1>3, <1>4, <3>1
  <2>2. IsFiniteSet({j \in 1..n : low[j] < u})
    BY FS_Interval, FS_Subset
  <2>3. /\ Cardinality({j \in 1..n : high[j] <= v}) <= Cardinality({j \in 1..n : low[j] < u})
        /\ Cardinality({j \in 1..n : high[j] <= v}) \in Nat
        /\ Cardinality({j \in 1..n : low[j] < u}) \in Nat
    BY <2>1, <2>2, FS_Subset, FS_CardinalityType
  <2>4. QED
    BY <1>2, <1>3, <2>3
<1>5. QED
  BY <1>1, <1>2, <1>3, <1>4

Below(d, e) ==
    /\ d.n \in Nat \ {0} /\ e.n = d.n
    /\ \A x \in {"sum", "median2", "max", "p95"} : d[x] \in Int /\ e[x] \in Int /\ d[x] <= e[x]

\* Where no value is lower no statistic is lower.
LEMMA DistributionIsMonotone ==
    ASSUME NEW n \in Nat \ {0}, NEW low \in [1..n -> Int], NEW high \in [1..n -> Int],
           \A i \in 1..n : low[i] <= high[i]
    PROVE  Below(Distribution(low), Distribution(high))
<1>1. n \in Nat /\ Len(low) = n /\ Len(high) = n
  OBVIOUS
<1>2. \A k \in 1..n : /\ Sorted(low)[k] \in Int /\ Sorted(high)[k] \in Int
                      /\ Sorted(low)[k] <= Sorted(high)[k]
  BY <1>1, SortedIs, SortedIsMonotone
<1>3. /\ (n + 1) \div 2 \in 1..n /\ n \div 2 + 1 \in 1..n /\ (95 * n + 99) \div 100 \in 1..n
      /\ n \in 1..n
  OBVIOUS
<1>4. /\ TwiceMedian(low) \in Int /\ TwiceMedian(high) \in Int /\ TwiceMedian(low) <= TwiceMedian(high)
  <2>1. PICK i \in 1..n, j \in 1..n : i = (n + 1) \div 2 /\ j = n \div 2 + 1
    BY <1>3
  <2>2. /\ TwiceMedian(low) = Sorted(low)[i] + Sorted(low)[j]
        /\ TwiceMedian(high) = Sorted(high)[i] + Sorted(high)[j]
    BY <1>1, <2>1 DEF TwiceMedian
  <2>3. QED
    BY <1>2, <2>2
<1>5. /\ Percentile(low, 95) \in Int /\ Percentile(high, 95) \in Int
      /\ Percentile(low, 95) <= Percentile(high, 95)
  BY <1>1, <1>2, <1>3 DEF Percentile
<1>6. SumOf(low) \in Int /\ SumOf(high) \in Int /\ SumOf(low) <= SumOf(high)
  <2>1. IsFiniteSet(1..n)
    BY <1>1, FS_Interval
  <2>2. QED
    BY <2>1, SumIsMonotone
<1>7. Sorted(low)[Len(low)] \in Int /\ Sorted(high)[Len(high)] \in Int
      /\ Sorted(low)[Len(low)] <= Sorted(high)[Len(high)]
  BY <1>1, <1>2, <1>3
<1>8. PICK d, e : d = Distribution(low) /\ e = Distribution(high)
  OBVIOUS
<1>9. /\ d.n = n /\ d["sum"] = SumOf(low) /\ d["median2"] = TwiceMedian(low)
      /\ d["max"] = Sorted(low)[Len(low)] /\ d["p95"] = Percentile(low, 95)
  BY <1>1, <1>8 DEF Distribution
<1>10. /\ e.n = n /\ e["sum"] = SumOf(high) /\ e["median2"] = TwiceMedian(high)
       /\ e["max"] = Sorted(high)[Len(high)] /\ e["p95"] = Percentile(high, 95)
  BY <1>1, <1>8 DEF Distribution
<1>11. Below(d, e)
  BY <1>1, <1>4, <1>5, <1>6, <1>7, <1>9, <1>10 DEF Below
<1>12. QED
  BY <1>8, <1>11

\* The thresholds are natural numbers.
LEMMA WarningsAreNumbers ==
    \A m : MedianWarning(m) \in Nat /\ P95Warning(m) \in Nat
BY DEF MedianWarning, P95Warning

\* The verdicts classify_resource_pressure is made of.
High(m, d, x) ==
    CASE x = "median" -> d.median2 >= 2 * MedianWarning(m)
      [] x = "p95" -> d.p95 >= P95Warning(m)
      [] x = "avg" -> d.sum >= P95Warning(m) * d.n

\* A condition on the distribution that holds, holds under more load.
LEMMA HighStays ==
    ASSUME NEW m, NEW d, NEW e, Below(d, e), NEW x \in {"median", "p95", "avg"}, High(m, d, x)
    PROVE  High(m, e, x)
<1>1. PICK w, v : w = MedianWarning(m) /\ v = P95Warning(m) * d.n
  OBVIOUS
<1>2. /\ d.median2 \in Int /\ e.median2 \in Int /\ d.median2 <= e.median2
      /\ d.p95 \in Int /\ e.p95 \in Int /\ d.p95 <= e.p95
      /\ d.sum \in Int /\ e.sum \in Int /\ d.sum <= e.sum /\ e.n = d.n
  BY DEF Below
<1>3. w \in Nat /\ P95Warning(m) \in Nat /\ v \in Nat
  BY <1>1, WarningsAreNumbers DEF Below
<1>4. CASE x = "median"
  BY <1>1, <1>2, <1>3, <1>4 DEF High
<1>5. CASE x = "p95"
  BY <1>2, <1>3, <1>5 DEF High
<1>6. CASE x = "avg"
  BY <1>1, <1>2, <1>3, <1>6 DEF High
<1>7. QED
  BY <1>4, <1>5, <1>6

\* The pressure in terms of its three conditions.
LEMMA PressureIs ==
    ASSUME NEW m \in Percents, NEW d
    PROVE  Pressure(m, d) =
              IF High(m, d, "median") /\ (High(m, d, "p95") \/ High(m, d, "avg")) THEN "high"
              ELSE IF High(m, d, "median") \/ High(m, d, "p95") THEN "medium" ELSE "none"
<1>1. /\ High(m, d, "median") <=> d.median2 >= 2 * MedianWarning(m)
      /\ High(m, d, "p95") <=> d.p95 >= P95Warning(m)
      /\ High(m, d, "avg") <=> d.sum >= P95Warning(m) * d.n
  BY DEF High
<1> HIDE DEF High
<1>2. CASE ~High(m, d, "median") /\ ~High(m, d, "p95")
  BY <1>1, <1>2 DEF Pressure
<1>3. CASE ~High(m, d, "median") /\ High(m, d, "p95")
  BY <1>1, <1>3 DEF Pressure
<1>4. CASE High(m, d, "median") /\ High(m, d, "p95")
  BY <1>1, <1>4 DEF Pressure
<1>5. CASE High(m, d, "median") /\ ~High(m, d, "p95") /\ High(m, d, "avg")
  BY <1>1, <1>5 DEF Pressure
<1>6. CASE High(m, d, "median") /\ ~High(m, d, "p95") /\ ~High(m, d, "avg")
  BY <1>1, <1>6 DEF Pressure
<1>7. QED
  BY <1>2, <1>3, <1>4, <1>5, <1>6

\* classify_resource_pressure never finds less of a sample that is nowhere lower.
LEMMA PressureIsMonotone ==
    ASSUME NEW m \in Percents, NEW d, NEW e, Below(d, e)
    PROVE  Severity(Pressure(m, d)) <= Severity(Pressure(m, e))
<1>1. \A x \in {"median", "p95", "avg"} : High(m, d, x) => High(m, e, x)
  BY HighStays
<1>2. Severity("high") = 3 /\ Severity("medium") = 2 /\ Severity("none") = 0
  BY DEF Severity
<1>3. QED
  BY <1>1, <1>2, PressureIs

\* The parts of compute_balanced_resource_score.
BaseOf(m, d) ==
    CASE d.sum < MedianWarning(m) * d.n -> 20
      [] d.sum >= MedianWarning(m) * d.n /\ d.sum < (MedianWarning(m) + 10) * d.n -> 15
      [] d.sum >= (MedianWarning(m) + 10) * d.n /\ d.sum < (MedianWarning(m) + 20) * d.n -> 10
      [] OTHER -> 5

Drives(m, d, tier, x) ==
    CASE x = "median" -> d.median2 >= 2 * MedianWarning(m)
      [] x = "p95" -> d.p95 >= P95Warning(m)
      [] OTHER -> tier = "high" \/ Pressure(m, d) = "high"

DriversOf(m, d, tier) == {x \in {"median", "p95", "risk"} : Drives(m, d, tier, x)}

PenaltyOf(S) == IF S = {} THEN 0 ELSE 5 * (Cardinality(S) - 1)

\* The score in terms of its base and its penalty.
LEMMA ScoreIs ==
    ASSUME NEW m, NEW d, NEW tier
    PROVE  Score(m, d, tier) =
              IF BaseOf(m, d) - PenaltyOf(DriversOf(m, d, tier)) > 5
              THEN BaseOf(m, d) - PenaltyOf(DriversOf(m, d, tier)) ELSE 5
<1> DEFINE drivers == {x \in {"median", "p95", "risk"} :
                         CASE x = "median" -> d.median2 >= 2 * MedianWarning(m)
                           [] x = "p95" -> d.p95 >= P95Warning(m)
                           [] OTHER -> tier = "high" \/ Pressure(m, d) = "high"}
<1>1. drivers = DriversOf(m, d, tier)
  BY DEF DriversOf, Drives
<1>2. Score(m, d, tier) =
        IF BaseOf(m, d) - PenaltyOf(drivers) > 5 THEN BaseOf(m, d) - PenaltyOf(drivers) ELSE 5
  BY Zenon DEF Score, BaseOf, PenaltyOf
<1> HIDE DEF drivers
<1>3. QED
  BY <1>1, <1>2

\* The base of the score falls with the average.
LEMMA BaseFalls ==
    ASSUME NEW m, NEW d, NEW e, Below(d, e)
    PROVE  /\ BaseOf(m, d) \in {5, 10, 15, 20} /\ BaseOf(m, e) \in {5, 10, 15, 20}
           /\ BaseOf(m, e) <= BaseOf(m, d)
<1>1. PICK w, v, u : /\ w = MedianWarning(m) * d.n /\ v = (MedianWarning(m) + 10) * d.n
                     /\ u = (MedianWarning(m) + 20) * d.n
  OBVIOUS
<1>2. d.n \in Nat \ {0} /\ e.n = d.n /\ d.sum \in Int /\ e.sum \in Int /\ d.sum <= e.sum
  BY DEF Below
<1>3. w \in Int /\ v \in Int /\ u \in Int /\ w < v /\ v < u
  <2>1. CASE MedianWarning(m) = 60
    BY <1>1, <1>2, <2>1
  <2>2. CASE MedianWarning(m) = 70
    BY <1>1, <1>2, <2>2
  <2>3. QED
    BY <2>1, <2>2 DEF MedianWarning
<1>4. ASSUME NEW f, f.n = d.n, f.sum \in Int
      PROVE  BaseOf(m, f) = IF f.sum < w THEN 20 ELSE IF f.sum < v THEN 15
                            ELSE IF f.sum < u THEN 10 ELSE 5
  <2>1. BaseOf(m, f) = CASE f.sum < w -> 20 [] f.sum >= w /\ f.sum < v -> 15
                         [] f.sum >= v /\ f.sum < u -> 10 [] OTHER -> 5
    BY <1>1, <1>4 DEF BaseOf
  <2>2. CASE f.sum < w
    BY <1>3, <1>4, <2>1, <2>2
  <2>3. CASE f.sum >= w /\ f.sum < v
    BY <1>3, <1>4, <2>1, <2>3
  <2>4. CASE f.sum >= v /\ f.sum < u
    BY <1>3, <1>4, <2>1, <2>4
  <2>5. CASE f.sum >= u
    BY <1>3, <1>4, <2>1, <2>5
  <2>6. QED
    BY <1>3, <1>4, <2>2, <2>3, <2>4, <2>5
<1>5. QED
  BY <1>2, <1>3, <1>4

\* The penalty grows with the drivers.
LEMMA PenaltyGrows ==
    ASSUME NEW S \in SUBSET {"median", "p95", "risk"}, NEW T \in SUBSET S
    PROVE  PenaltyOf(S) \in Nat /\ PenaltyOf(T) \in Nat /\ PenaltyOf(T) <= PenaltyOf(S)
<1>1. IsFiniteSet({"median", "p95", "risk"})
  <2>1. IsFiniteSet({"median"} \cup {"p95"})
    BY FS_Singleton, FS_Union
  <2>2. IsFiniteSet(({"median"} \cup {"p95"}) \cup {"risk"})
    BY <2>1, FS_Singleton, FS_Union
  <2>3. ({"median"} \cup {"p95"}) \cup {"risk"} = {"median", "p95", "risk"}
    OBVIOUS
  <2>4. QED
    BY <2>2, <2>3
<1>2. IsFiniteSet(S) /\ IsFiniteSet(T)
  BY <1>1, FS_Subset
<1>3. /\ Cardinality(S) \in Nat /\ Cardinality(T) \in Nat /\ Cardinality(T) <= Cardinality(S)
  BY <1>2, FS_Subset, FS_CardinalityType
<1>4. (S = {} <=> Cardinality(S) = 0) /\ (T = {} <=> Cardinality(T) = 0)
  BY <1>2, FS_EmptySet
<1>5. QED
  BY <1>3, <1>4 DEF PenaltyOf

\* The drivers grow with the load.
LEMMA DriversGrow ==
    ASSUME NEW m \in Percents, NEW d, NEW e, Below(d, e),
           NEW t \in {"none", "low", "high"}, NEW u \in {"none", "low", "high"},
           Severity(t) <= Severity(u)
    PROVE  DriversOf(m, d, t) \subseteq DriversOf(m, e, u)
<1> SUFFICES ASSUME NEW x \in {"median", "p95", "risk"}, Drives(m, d, t, x) PROVE Drives(m, e, u, x)
  BY DEF DriversOf
<1>1. CASE x = "median"
  <2>1. High(m, d, "median")
    BY <1>1 DEF Drives, High
  <2>2. High(m, e, "median")
    BY <2>1, HighStays
  <2>3. QED
    BY <1>1, <2>2 DEF Drives, High
<1>2. CASE x = "p95"
  <2>1. High(m, d, "p95")
    BY <1>2 DEF Drives, High
  <2>2. High(m, e, "p95")
    BY <2>1, HighStays
  <2>3. QED
    BY <1>2, <2>2 DEF Drives, High
<1>3. CASE x = "risk"
  <2>1. t = "high" \/ Pressure(m, d) = "high"
    BY <1>3 DEF Drives
  <2>2. Severity("high") = 3 /\ Severity("medium") = 2 /\ Severity("low") = 1 /\ Severity("none") = 0
    BY DEF Severity
  <2>3. t = "high" => u = "high"
    BY <2>2
  <2>4. Pressure(m, d) = "high" => Pressure(m, e) = "high"
    <3>1. Pressure(m, e) \in {"high", "medium", "none"}
      BY PressureIs
    <3>2. QED
      BY <2>2, <3>1, PressureIsMonotone
  <2>5. QED
    BY <1>3, <2>1, <2>3, <2>4 DEF Drives
<1>4. QED
  BY <1>1, <1>2, <1>3

\* More load is never healthier: of two samples of equal length of which one is nowhere
\* below the other, it has no better score and no milder pressure, as long as the verdict
\* on its spikes is no milder (compute_balanced_resource_score,
\* classify_resource_pressure).
THEOREM MoreLoadIsNoHealthier ==
    \A m \in Percents, n \in Nat \ {0} : \A low, high \in [1..n -> Int] :
        (\A i \in 1..n : low[i] <= high[i]) => ScoreFollowsLoad(m, low, high)
<1> SUFFICES ASSUME NEW m \in Percents, NEW n \in Nat \ {0},
                    NEW low \in [1..n -> Int], NEW high \in [1..n -> Int],
                    \A i \in 1..n : low[i] <= high[i]
             PROVE  ScoreFollowsLoad(m, low, high)
  OBVIOUS
<1>1. PICK d, e : d = Distribution(low) /\ e = Distribution(high)
  OBVIOUS
<1>2. Below(d, e)
  BY <1>1, DistributionIsMonotone
<1>3. Severity(Pressure(m, d)) <= Severity(Pressure(m, e))
  BY <1>2, PressureIsMonotone
<1>4. ASSUME NEW t \in {"none", "low", "high"}, NEW u \in {"none", "low", "high"},
             Severity(t) <= Severity(u)
      PROVE  Score(m, e, u) <= Score(m, d, t)
  <2>1. PICK S, T : S = DriversOf(m, e, u) /\ T = DriversOf(m, d, t)
    OBVIOUS
  <2>2. S \in SUBSET {"median", "p95", "risk"} /\ T \in SUBSET S
    BY <1>2, <1>4, <2>1, DriversGrow DEF DriversOf
  <2>3. PenaltyOf(S) \in Nat /\ PenaltyOf(T) \in Nat /\ PenaltyOf(T) <= PenaltyOf(S)
    BY <2>2, PenaltyGrows
  <2>4. /\ BaseOf(m, d) \in {5, 10, 15, 20} /\ BaseOf(m, e) \in {5, 10, 15, 20}
        /\ BaseOf(m, e) <= BaseOf(m, d)
    BY <1>2, BaseFalls
  <2>5. /\ Score(m, d, t) = IF BaseOf(m, d) - PenaltyOf(T) > 5 THEN BaseOf(m, d) - PenaltyOf(T) ELSE 5
        /\ Score(m, e, u) = IF BaseOf(m, e) - PenaltyOf(S) > 5 THEN BaseOf(m, e) - PenaltyOf(S) ELSE 5
    BY <2>1, ScoreIs
  <2>6. QED
    BY <2>3, <2>4, <2>5
<1>5. QED
  BY <1>1, <1>3, <1>4 DEF ScoreFollowsLoad

\* The conditions of build_metric_correlation_summary, from the levels.
AtLeast(level, m, l) == Severity(level[m]) >= Severity(l)
Busy(level) == AtLeast(level, "qps", "medium") \/ AtLeast(level, "tps", "medium")
Talks(level) == AtLeast(level, "network_in", "medium") \/ AtLeast(level, "network_out", "medium")
Stores(level) == AtLeast(level, "disk_util", "high") \/ AtLeast(level, "IOPSRate", "medium")

Alarming(level) ==
    \/ Busy(level) /\ AtLeast(level, "cpu", "high")
    \/ Busy(level) /\ AtLeast(level, "disk_util", "high")
    \/ AtLeast(level, "replication_delay", "high") /\ (Busy(level) \/ Talks(level))

Levels == {"unknown", "none", "low", "medium", "high"}

\* The severities of the levels are ordered.
LEMMA SeverityIs ==
    /\ Severity("high") = 3 /\ Severity("medium") = 2 /\ Severity("low") = 1
    /\ Severity("none") = 0 /\ Severity("unknown") = -1
BY DEF Severity

\* The signals, each by its condition.
LEMMA CorrelatedIs ==
    ASSUME NEW level
    PROVE  \A name, l : <<name, l>> \in Correlated(level) <=>
              \/ name = "compute_pressure" /\ l = "high" /\ Busy(level) /\ AtLeast(level, "cpu", "high")
              \/ /\ name = "storage_pressure" /\ Busy(level) /\ Stores(level)
                 /\ l = IF AtLeast(level, "disk_util", "high") THEN "high" ELSE "medium"
              \/ /\ name = "replication_pressure" /\ l = "high"
                 /\ AtLeast(level, "replication_delay", "high") /\ (Busy(level) \/ Talks(level))
              \/ /\ name = "business_load_up" /\ l = "medium"
                 /\ Busy(level) /\ ~Stores(level) /\ ~Alarming(level)
<1>1. PICK A, B, C : /\ A = IF Busy(level) /\ AtLeast(level, "cpu", "high")
                            THEN {<<"compute_pressure", "high">>} ELSE {}
                     /\ B = IF Busy(level) /\ Stores(level)
                            THEN {<<"storage_pressure",
                                    IF AtLeast(level, "disk_util", "high") THEN "high" ELSE "medium">>}
                            ELSE {}
                     /\ C = IF AtLeast(level, "replication_delay", "high") /\ (Busy(level) \/ Talks(level))
                            THEN {<<"replication_pressure", "high">>} ELSE {}
  OBVIOUS
<1>2. Correlated(level) = IF Busy(level) /\ A \cup B \cup C = {} THEN {<<"business_load_up", "medium">>}
                          ELSE A \cup B \cup C
  BY <1>1, Zenon DEF Correlated, Busy, Talks, Stores, AtLeast
<1>3. AtLeast(level, "disk_util", "high") => Stores(level)
  BY DEF Stores
<1>4. A \cup B \cup C = {} <=> ~Alarming(level) /\ ~(Busy(level) /\ Stores(level))
  BY <1>1, <1>3 DEF Alarming
<1>5. QED
  BY <1>1, <1>2, <1>4

\* The strongest signal: high when something is alarming, else medium when there is load.
LEMMA TopSeverityIs ==
    ASSUME NEW level
    PROVE  TopSeverity(level) = IF Alarming(level) THEN 3 ELSE IF Busy(level) THEN 2 ELSE 0
<1> DEFINE N == {Severity(s[2]) : s \in Correlated(level)}
<1>1. \A s \in Correlated(level) : \E name, l : s = <<name, l>>
  BY DEF Correlated
<1>2. AtLeast(level, "disk_util", "high") => Stores(level)
  BY DEF Stores
<1>3. CASE Alarming(level)
  <2>1. \E name : <<name, "high">> \in Correlated(level)
    BY <1>2, <1>3, CorrelatedIs DEF Alarming
  <2>2. \A s \in Correlated(level) : Severity(s[2]) \in {2, 3}
    <3>1. \A name, l : <<name, l>> \in Correlated(level) => l \in {"high", "medium"}
      BY CorrelatedIs
    <3>2. QED
      BY <1>1, <3>1, SeverityIs
  <2>3. \E s \in Correlated(level) : Severity(s[2]) = 3
    BY <2>1, SeverityIs
  <2>4. Correlated(level) # {} /\ 3 \in N /\ N \subseteq {2, 3}
    BY <2>2, <2>3
  <2>5. QED
    BY <1>3, <2>2, <2>4 DEF TopSeverity
<1>4. CASE ~Alarming(level) /\ Busy(level)
  <2>1. \A name, l : <<name, l>> \in Correlated(level) => l = "medium"
    BY <1>4, CorrelatedIs DEF Alarming
  <2>2. \E name : <<name, "medium">> \in Correlated(level)
    <3>1. CASE Stores(level)
      BY <1>4, <3>1, CorrelatedIs DEF Alarming
    <3>2. CASE ~Stores(level)
      BY <1>4, <3>2, CorrelatedIs
    <3>3. QED
      BY <3>1, <3>2
  <2>3. \A s \in Correlated(level) : Severity(s[2]) = 2
    BY <1>1, <2>1, SeverityIs
  <2>4. Correlated(level) # {}
    BY <2>2
  <2>5. QED
    BY <1>4, <2>3, <2>4 DEF TopSeverity
<1>5. CASE ~Alarming(level) /\ ~Busy(level)
  <2>1. \A name, l : <<name, l>> \notin Correlated(level)
    BY <1>5, CorrelatedIs DEF Alarming
  <2>2. Correlated(level) = {}
    BY <1>1, <2>1
  <2>3. QED
    BY <1>5, <2>2 DEF TopSeverity
<1>6. QED
  BY <1>3, <1>4, <1>5

\* A metric whose signal rises never makes the instance's strongest signal weaker
\* (build_metric_correlation_summary).
THEOREM SignalsNeverWeaken == \A level \in [Metrics -> Levels] : SignalsFollowMetrics(level)
<1> SUFFICES ASSUME NEW level \in [Metrics -> Levels], NEW m \in Metrics, NEW l \in {"medium", "high"},
                    Severity(level[m]) <= Severity(l)
             PROVE  TopSeverity(level) <= TopSeverity([level EXCEPT ![m] = l])
  BY DEF SignalsFollowMetrics
<1>1. PICK up : up = [level EXCEPT ![m] = l]
  OBVIOUS
<1>2. \A x \in Levels : Severity(x) \in Int
  BY SeverityIs DEF Levels
<1>3. ASSUME NEW x \in Metrics, NEW y \in {"medium", "high"}, AtLeast(level, x, y) PROVE AtLeast(up, x, y)
  <2>1. Severity(level[x]) \in Int /\ Severity(up[x]) \in Int /\ Severity(y) \in Int
    <3>1. level[x] \in Levels /\ up[x] \in Levels /\ y \in Levels
      BY <1>1 DEF Levels
    <3>2. QED
      BY <1>2, <3>1
  <2>2. Severity(level[x]) <= Severity(up[x])
    <3>1. CASE x = m
      BY <1>1, <2>1, <3>1
    <3>2. CASE x # m
      BY <1>1, <2>1, <3>2
    <3>3. QED
      BY <3>1, <3>2
  <2>3. QED
    BY <1>3, <2>1, <2>2 DEF AtLeast
<1>4. {"qps", "tps", "cpu", "disk_util", "IOPSRate", "network_in", "network_out", "replication_delay"}
        \subseteq Metrics
  BY DEF Metrics, Percents, Throughputs
<1>5. (Busy(level) => Busy(up)) /\ (Alarming(level) => Alarming(up))
  BY <1>3, <1>4 DEF Busy, Talks, Alarming
<1>6. QED
  BY <1>1, <1>5, TopSeverityIs

\* A finite set has a finite image, no larger than itself.
LEMMA ImageIsFinite ==
    ASSUME NEW D, IsFiniteSet(D), NEW f, DOMAIN f = D
    PROVE  IsFiniteSet({f[i] : i \in D}) /\ Cardinality({f[i] : i \in D}) <= Cardinality(D)
<1> DEFINE T == {f[i] : i \in D}
           g == [i \in D |-> f[i]]
<1>1. g \in Surjection(D, T)
  BY DEF Surjection
<1> HIDE DEF g
<1>2. QED
  BY <1>1, FS_Surjection

\* Finitely many finite sets have finitely many elements.
LEMMA UnionIsFinite ==
    ASSUME NEW L, IsFiniteSet(L), NEW F, \A l \in L : IsFiniteSet(F[l])
    PROVE  IsFiniteSet(UNION {F[l] : l \in L})
<1> DEFINE All(T) == UNION {F[l] : l \in T}
           Good == {T \in SUBSET L : IsFiniteSet(All(T))}
<1>1. {} \in Good
  <2>1. All({}) = {}
    OBVIOUS
  <2>2. QED
    BY <2>1, FS_EmptySet
<1>2. ASSUME NEW T \in SUBSET L, T # {}, T \ {AnyOf(T)} \in Good PROVE T \in Good
  <2>1. PICK x \in T : x = AnyOf(T)
    BY <1>2 DEF AnyOf
  <2>2. All(T) = All(T \ {x}) \cup F[x]
    OBVIOUS
  <2>3. IsFiniteSet(All(T \ {x})) /\ IsFiniteSet(F[x])
    BY <1>2, <2>1
  <2> HIDE DEF All
  <2>4. IsFiniteSet(All(T))
    BY <2>2, <2>3, FS_Union
  <2>5. QED
    BY <2>4
<1> HIDE DEF Good
<1>3. \A T \in SUBSET L : T \in Good
  BY <1>1, <1>2, OneLess
<1>4. QED
  BY <1>3 DEF Good

\* A comprehension with an if keeps the chosen elements.
TakenBy(o, s, I) ==
    /\ o \in [1..Cardinality(I) -> I]
    /\ \A i \in I : \E k \in 1..Cardinality(I) : o[k] = i
    /\ Taken(s, I) = [k \in 1..Cardinality(I) |-> s[o[k]]]

\* Each chosen position is taken, at some place.
LEMMA TakenIs ==
    ASSUME NEW I \in SUBSET Int, IsFiniteSet(I), NEW s
    PROVE  Cardinality(I) \in Nat /\ \E o : TakenBy(o, s, I)
<1> DEFINE n == Cardinality(I)
<1>1. PICK key : key = [i \in I |-> i]
  OBVIOUS
<1>2. key \in [I -> Int]
  BY <1>1
<1>3. PICK o : o = ByKey(key)
  OBVIOUS
<1>4. /\ n \in Nat /\ o \in [1..n -> I]
      /\ \A i \in I : \E k \in 1..n : o[k] = i
  BY <1>2, <1>3, SortedByKey
<1>5. Taken(s, I) = [k \in 1..n |-> s[o[k]]]
  BY <1>1, <1>3, <1>4 DEF Taken
<1>6. QED
  BY <1>4, <1>5 DEF TakenBy

\* What is taken of finitely many is finitely many.
LEMMA TakenIsFinite ==
    ASSUME NEW s, IsFiniteSet(DOMAIN s), DOMAIN s \in SUBSET Int, NEW I \in SUBSET (DOMAIN s)
    PROVE  IsFiniteSet(DOMAIN Taken(s, I)) /\ DOMAIN Taken(s, I) \in SUBSET Int
<1>1. IsFiniteSet(I) /\ I \in SUBSET Int
  BY FS_Subset
<1>2. Cardinality(I) \in Nat /\ DOMAIN Taken(s, I) = 1..Cardinality(I)
  BY <1>1, TakenIs DEF TakenBy
<1>3. QED
  BY <1>2, FS_Interval

\* The series of a node is finite.
LEMMA SeriesIsFinite ==
    ASSUME NEW points, IsFiniteSet(DOMAIN points), DOMAIN points \in SUBSET Int,
           \A i \in DOMAIN points : points[i].ts \in Int, NEW I \in SUBSET (DOMAIN points)
    PROVE  IsFiniteSet(DOMAIN ValuesOf(InOrder(Taken(points, I))))
<1> DEFINE n == Cardinality(I)
<1>0. IsFiniteSet(I) /\ I \in SUBSET Int
  BY FS_Subset
<1>1. n \in Nat /\ \E o : TakenBy(o, points, I)
  BY <1>0, TakenIs
<1>2. PICK own : own = Taken(points, I)
  OBVIOUS
<1>3. DOMAIN own = 1..n /\ \A k \in 1..n : own[k].ts \in Int
  BY <1>1, <1>2 DEF TakenBy
<1> HIDE DEF n
<1>4. PICK D, key : D = 1..n /\ key = [k \in DOMAIN own |-> own[k].ts]
  OBVIOUS
<1>5. D \in SUBSET Int /\ IsFiniteSet(D) /\ key \in [D -> Int] /\ Cardinality(D) = n
  <2>1. IsFiniteSet(1..n) /\ Cardinality(1..n) = n
    BY <1>1, FS_Interval
  <2>2. key \in [D -> Int]
    BY <1>3, <1>4
  <2>3. QED
    BY <1>1, <1>4, <2>1, <2>2
<1>6. ByKey(key) \in [1..Cardinality(D) -> D]
  BY <1>5, SortedByKey
<1>7. PICK sorted : sorted = InOrder(own)
  OBVIOUS
<1>8. DOMAIN sorted = D
  BY <1>4, <1>5, <1>6, <1>7 DEF InOrder
<1>9. IsFiniteSet(DOMAIN ValuesOf(sorted))
  <2>1. PICK values : values = [i \in DOMAIN sorted |-> sorted[i].value]
    OBVIOUS
  <2>2. DOMAIN values = D
    BY <1>8, <2>1
  <2>3. ValuesOf(sorted) = Taken(values, {i \in D : sorted[i].value # NoValue})
    BY <1>8, <2>1 DEF ValuesOf
  <2>4. QED
    BY <1>5, <2>2, <2>3, TakenIsFinite
<1>10. QED
  BY <1>2, <1>7, <1>9

Tagged(F, L) == UNION {{l} \X F[l] : l \in L}

\* The spikes of an instance, and the points they are sought among, can be counted.
LEMMA SpikesAreCounted ==
    ASSUME NEW points, IsFiniteSet(DOMAIN points), DOMAIN points \in SUBSET Int,
           \A i \in DOMAIN points : points[i].ts \in Int, NEW w
    PROVE  SpikeEvidence(points, w).count \in Nat /\ SpikeEvidence(points, w).evaluated \in Nat
<1> DEFINE L == {points[i].node : i \in DOMAIN points}
           series(l) == ValuesOf(InOrder(Taken(points, {i \in DOMAIN points : points[i].node = l})))
<1>1. IsFiniteSet(L)
  <2>1. PICK f : f = [i \in DOMAIN points |-> points[i].node]
    OBVIOUS
  <2>2. L = {f[i] : i \in DOMAIN points} /\ DOMAIN f = DOMAIN points
    BY <2>1
  <2>3. QED
    BY <2>2, ImageIsFinite
<1>2. \A l \in L : IsFiniteSet(DOMAIN series(l))
  BY SeriesIsFinite
<1> HIDE DEF series
<1>3. ASSUME NEW F, \A l \in L : F[l] \in SUBSET (DOMAIN series(l))
      PROVE  Cardinality(Tagged(F, L)) \in Nat
  <2>1. PICK G : G = [l \in L |-> {l} \X F[l]]
    OBVIOUS
  <2>2. \A l \in L : IsFiniteSet(G[l])
    <3> SUFFICES ASSUME NEW l \in L PROVE IsFiniteSet({l} \X F[l])
      BY <2>1
    <3>1. IsFiniteSet(F[l])
      BY <1>2, <1>3, FS_Subset
    <3>2. PICK f : f = [x \in F[l] |-> <<l, x>>]
      OBVIOUS
    <3>3. {l} \X F[l] = {f[x] : x \in F[l]} /\ DOMAIN f = F[l]
      BY <3>2
    <3>4. QED
      BY <3>1, <3>3, ImageIsFinite
  <2>3. Tagged(F, L) = UNION {G[l] : l \in L}
    BY <2>1 DEF Tagged
  <2>4. IsFiniteSet(UNION {G[l] : l \in L})
    BY <1>1, <2>2, UnionIsFinite
  <2>5. QED
    BY <2>3, <2>4, FS_CardinalityType
<1>4. \A l \in L : /\ SpikesIn(series(l), w) \in SUBSET (DOMAIN series(l))
                   /\ Evaluated(series(l), w) \in SUBSET (DOMAIN series(l))
  BY DEF SpikesIn, Evaluated
<1>5. PICK F, G : F = [l \in L |-> SpikesIn(series(l), w)] /\ G = [l \in L |-> Evaluated(series(l), w)]
  OBVIOUS
<1>6. /\ Tagged(F, L) = UNION {{l} \X SpikesIn(series(l), w) : l \in L}
      /\ Tagged(G, L) = UNION {{l} \X Evaluated(series(l), w) : l \in L}
  BY <1>5 DEF Tagged
<1>7. Cardinality(Tagged(F, L)) \in Nat /\ Cardinality(Tagged(G, L)) \in Nat
  BY <1>3, <1>4, <1>5
<1>8. /\ SpikeEvidence(points, w).count = Cardinality(UNION {{l} \X SpikesIn(series(l), w) : l \in L})
      /\ SpikeEvidence(points, w).evaluated = Cardinality(UNION {{l} \X Evaluated(series(l), w) : l \in L})
  BY DEF SpikeEvidence, series
<1>9. QED
  BY <1>6, <1>7, <1>8

\* Two of the signals of a throughput need spikes to be frequent.
LEMMA HighRiskIsFrequent ==
    ASSUME NEW m \in Throughputs, NEW d, NEW spikes, SpikeRisk(m, d, spikes) = "high"
    PROVE  OftenSpikes(spikes)
<1> SUFFICES ASSUME ~OftenSpikes(spikes) PROVE FALSE
  OBVIOUS
<1> DEFINE varies == d.sum > 0 /\ d.var >= d.sum * d.sum
           signals == {x \in {"percentiles", "cv", "ratio"} :
                         CASE x = "percentiles" -> HighPercentiles(d) = "high"
                           [] x = "cv" -> varies /\ OftenSpikes(spikes)
                           [] OTHER -> OftenSpikes(spikes)}
<1>1. signals \subseteq {"percentiles"}
  OBVIOUS
<1>2. Cardinality(signals) \in {0, 1}
  <2>1. signals = {} \/ signals = {"percentiles"}
    BY <1>1
  <2> HIDE DEF signals
  <2>2. QED
    BY <2>1, FS_EmptySet, FS_Singleton
<1>3. m \notin Percents /\ m # "replication_delay"
  BY DEF Percents, Throughputs
<1>4. SpikeRisk(m, d, spikes) =
        CASE spikes.count = 0 -> "none"
          [] spikes.count > 0 /\ (\/ m \in Percents /\ d.max >= 70
                                  \/ m = "replication_delay" /\ d.max >= 5
                                  \/ m \in Throughputs /\ Cardinality(signals) >= 2) -> "high"
          [] OTHER -> "low"
  BY Zenon DEF SpikeRisk
<1> HIDE DEF signals
<1>5. QED
  BY <1>2, <1>3, <1>4

\* What is reported as a steady plateau is not reported as a high risk of spikes too
\* (classify_throughput_saturation, classify_spike_risk).
THEOREM PlateausAreCalm ==
    \A m \in Throughputs, n \in Nat : \A s, w, day : s \in [1..n -> Int \cup {NoValue}] =>
        PlateauIsCalm(m, s, w, day)
<1> SUFFICES ASSUME NEW m \in Throughputs, NEW n \in Nat, NEW s \in [1..n -> Int \cup {NoValue}],
                    NEW w, NEW day
             PROVE  PlateauIsCalm(m, s, w, day)
  OBVIOUS
<1>1. PICK points : points = [i \in DOMAIN s |-> [node |-> "single", ts |-> i, value |-> s[i]]]
  OBVIOUS
<1>2. PICK e, d, spikes : /\ e = Evidence(m, points, w, day) /\ d = Distribution(ValuesOf(points))
                          /\ spikes = SpikeEvidence(points, w)
  OBVIOUS
<1>3. DOMAIN points = 1..n /\ \A i \in 1..n : points[i].ts \in Int
  BY <1>1
<1>4. spikes.count \in Nat /\ spikes.evaluated \in Nat
  <2>1. IsFiniteSet(DOMAIN points) /\ DOMAIN points \in SUBSET Int
    BY <1>3, FS_Interval
  <2>2. QED
    BY <1>2, <1>3, <2>1, SpikesAreCounted
<1>5. ASSUME e.saturation = "medium" PROVE e.tier # "high"
  <2>1. CASE ValuesOf(points) = <<>>
    <3>1. e.tier = "none"
      BY <1>2, <2>1 DEF Evidence, NoEvidence
    <3>2. QED
      BY <3>1
  <2>2. CASE ValuesOf(points) # <<>>
    <3>1. /\ e.tier = SpikeRisk(m, d, spikes)
          /\ e.saturation = Saturation(m, d, spikes, RecentTrend(ValuesOf(points), day))
      BY <1>2, <2>2 DEF Evidence
    <3>2. 20 * spikes.count <= spikes.evaluated
      BY <1>5, <3>1 DEF Saturation
    <3>3. ~OftenSpikes(spikes)
      BY <1>4, <3>2 DEF OftenSpikes
    <3>4. QED
      BY <3>1, <3>3, HighRiskIsFrequent
  <2>3. QED
    BY <2>1, <2>2
<1>6. QED
  BY <1>1, <1>2, <1>5 DEF PlateauIsCalm

\* What is known of the samples, levels and series that are checked.
CheckedHealth ==
    /\ checked.kind = "load" =>
          /\ checked.m \in Percents
          /\ checked.low \in [1..20 -> Int] /\ checked.high \in [1..20 -> Int]
          /\ \A i \in 1..20 : checked.low[i] <= checked.high[i]
    /\ checked.kind = "signals" => checked.level \in [Metrics -> Levels]
    /\ checked.kind = "plateau" => \E n \in Nat : checked.s \in [1..n -> Int \cup {NoValue}]

\* The samples that are checked differ in one level, which is raised.
LEMMA SamplesAreOrdered ==
    ASSUME NEW x \in [1..3 -> DOMAIN MCLevels], NEW i \in 1..3, x[i] < Len(MCLevels),
           NEW y, y = [x EXCEPT ![i] = x[i] + 1]
    PROVE  /\ MCSample(x) \in [1..20 -> Int] /\ MCSample(y) \in [1..20 -> Int]
           /\ \A j \in 1..20 : MCSample(x)[j] <= MCSample(y)[j]
<1>1. /\ Len(MCLevels) = 8 /\ DOMAIN MCLevels = 1..8 /\ \A k \in 1..8 : MCLevels[k] \in Int
      /\ \A k \in 1..7 : MCLevels[k] <= MCLevels[k + 1]
  BY DEF MCLevels
<1> HIDE DEF MCLevels
<1>2. \A k \in 1..3 : x[k] \in 1..8 /\ y[k] \in 1..8 /\ (y[k] = x[k] \/ y[k] = x[k] + 1)
  BY <1>1
<1>3. \A k \in 1..3 : /\ MCLevels[x[k]] \in Int /\ MCLevels[y[k]] \in Int
                      /\ MCLevels[x[k]] <= MCLevels[y[k]]
  <2> SUFFICES ASSUME NEW k \in 1..3
               PROVE  /\ MCLevels[x[k]] \in Int /\ MCLevels[y[k]] \in Int
                      /\ MCLevels[x[k]] <= MCLevels[y[k]]
    OBVIOUS
  <2>1. PICK p \in 1..8, q \in 1..8 : p = x[k] /\ q = y[k] /\ (q = p \/ q = p + 1)
    BY <1>2
  <2>2. MCLevels[p] \in Int /\ MCLevels[q] \in Int
    BY <1>1
  <2>3. CASE q = p
    BY <2>1, <2>2, <2>3
  <2>4. CASE q = p + 1
    BY <1>1, <2>1, <2>2, <2>4
  <2>5. QED
    BY <2>1, <2>3, <2>4
<1>4. 1 \in 1..3 /\ 2 \in 1..3 /\ 3 \in 1..3
  OBVIOUS
<1>5. QED
  BY <1>3, <1>4 DEF MCSample

\* Every case of the health analyzer is one the theorems speak of.
LEMMA HealthIsChecked ==
    ASSUME CheckNext
    PROVE  CheckedHealth'
<1>1. CASE CheckLoad
  <2>1. PICK m \in Percents, x \in [1..3 -> DOMAIN MCLevels], i \in 1..3 :
           /\ x[i] < Len(MCLevels)
           /\ checked' = [kind |-> "load", m |-> m, low |-> MCSample(x),
                          high |-> MCSample([x EXCEPT ![i] = x[i] + 1])]
    BY <1>1 DEF CheckLoad
  <2>2. /\ checked'.kind = "load" /\ checked'.m = m /\ checked'.low = MCSample(x)
        /\ checked'.high = MCSample([x EXCEPT ![i] = x[i] + 1])
    BY <2>1
  <2>3. QED
    BY <2>1, <2>2, SamplesAreOrdered DEF CheckedHealth
<1>2. CASE CheckSignals
  <2>1. PICK l \in MCSignals : checked' = [kind |-> "signals", level |-> l]
    BY <1>2 DEF CheckSignals
  <2>2. l \in [Metrics -> Levels]
    BY DEF MCSignals, Levels
  <2>3. QED
    BY <2>1, <2>2 DEF CheckedHealth
<1>3. CASE CheckPlateau
  <2>1. PICK s \in Series({0, 60, 70, 300}, {3, 6}), w \in {3, 5} :
           checked' = [kind |-> "plateau", s |-> s, w |-> w]
    BY <1>3 DEF CheckPlateau
  <2>2. PICK n \in {3, 6} : s \in [1..n -> {0, 60, 70, 300}]
    BY DEF Series
  <2>3. n \in Nat /\ s \in [1..n -> Int \cup {NoValue}]
    BY <2>2
  <2>4. QED
    BY <2>1, <2>3 DEF CheckedHealth
<1>4. CASE checked'.kind \notin {"load", "signals", "plateau"}
  BY <1>4 DEF CheckedHealth
<1>5. QED
  BY <1>1, <1>2, <1>3, <1>4, KindsDiffer DEF CheckNext

\* In every case of load, signals and plateaus that is checked the verdicts do not
\* contradict each other (get_instance_info.py:415-563, 803-954).
THEOREM HealthIsAlwaysCoherent == CheckSpec => []HealthIsCoherent
<1>1. CheckInit => CheckedHealth
  BY DEF CheckInit, CheckedHealth
<1>2. CheckedHealth /\ [CheckNext]_checked => CheckedHealth'
  BY HealthIsChecked DEF CheckedHealth
<1>3. CheckedHealth => HealthIsCoherent
  <2> SUFFICES ASSUME CheckedHealth PROVE HealthIsCoherent
    OBVIOUS
  <2>1. ASSUME checked.kind = "load" PROVE ScoreFollowsLoad(checked.m, checked.low, checked.high)
    <3>1. 20 \in Nat \ {0}
      OBVIOUS
    <3>2. QED
      BY <2>1, <3>1, MoreLoadIsNoHealthier DEF CheckedHealth
  <2>2. ASSUME checked.kind = "signals" PROVE SignalsFollowMetrics(checked.level)
    BY <2>2, SignalsNeverWeaken DEF CheckedHealth
  <2>3. ASSUME checked.kind = "plateau" PROVE PlateauIsCalm("qps", checked.s, checked.w, 288)
    <3>1. "qps" \in Throughputs
      BY DEF Throughputs
    <3>2. QED
      BY <2>3, <3>1, PlateausAreCalm DEF CheckedHealth
  <2>4. QED
    BY <2>1, <2>2, <2>3 DEF HealthIsCoherent
<1>4. QED
  BY <1>1, <1>2, <1>3, PTL DEF CheckSpec

-----------------------------------------------------------------------------
(* The candidates of a message.                                              *)

\* The instances of the documents: their ids and hits can be compared.
AreRecords(records) ==
    /\ records \in Seq(ToSet(records))
    /\ \A i \in DOMAIN records : records[i].id \in Int /\ records[i].hits \in Nat

Wanted(explicit, records) ==
    {i \in DOMAIN records : ScoreOf(records[i]) > 0 \/ explicit # Absent}

Best(explicit, records) ==
    {i \in Wanted(explicit, records) :
        \A j \in Wanted(explicit, records) : records[j].hits <= records[i].hits}

CandidateOf(g, explicit, x) ==
    [id |-> x.id, project |-> x.project, score |-> ScoreOf(x),
     ref |-> CredentialOf(g, IF explicit # Absent THEN explicit ELSE x.cell, x).ref,
     source |-> CredentialOf(g, IF explicit # Absent THEN explicit ELSE x.cell, x).source]

\* The candidates are of the wanted records, each once.
LEMMA CandidatesAre ==
    ASSUME NEW g, NEW explicit, NEW records, AreRecords(records)
    PROVE  /\ Cardinality(Wanted(explicit, records)) \in Nat
           /\ IsFiniteSet(Wanted(explicit, records))
           /\ \E o \in [1..Cardinality(Wanted(explicit, records)) -> Wanted(explicit, records)] :
                 /\ \A i \in Wanted(explicit, records) :
                       \E k \in 1..Cardinality(Wanted(explicit, records)) : o[k] = i
                 /\ Candidates(g, explicit, records) =
                       [k \in 1..Cardinality(Wanted(explicit, records)) |->
                           CandidateOf(g, explicit, records[o[k]])]
<1> DEFINE W == Wanted(explicit, records)
           n == Cardinality(W)
<1>1. W \in SUBSET Int /\ IsFiniteSet(W)
  <2>1. W \in SUBSET (DOMAIN records)
    BY DEF Wanted
  <2>2. PICK m \in Nat : DOMAIN records = 1..m
    BY DEF AreRecords
  <2>3. IsFiniteSet(1..m)
    BY FS_Interval
  <2>4. QED
    BY <2>1, <2>2, <2>3, FS_Subset
<1>2. n \in Nat /\ \E o : TakenBy(o, records, W)
  BY <1>1, TakenIs
<1>3. PICK o : TakenBy(o, records, W)
  BY <1>2
<1>4. PICK wanted : wanted = Taken(records, W)
  OBVIOUS
<1>5. DOMAIN wanted = 1..n /\ \A k \in 1..n : wanted[k] = records[o[k]]
  BY <1>3, <1>4 DEF TakenBy
<1>6. Candidates(g, explicit, records) = [k \in DOMAIN wanted |-> CandidateOf(g, explicit, wanted[k])]
  BY <1>4 DEF Candidates, Wanted, CandidateOf
<1>7. Candidates(g, explicit, records) = [k \in 1..n |-> CandidateOf(g, explicit, records[o[k]])]
  BY <1>5, <1>6
<1>8. QED
  BY <1>1, <1>2, <1>3, <1>7 DEF TakenBy

\* By score and id; with equal scores and ids the first found comes first.
LEMMA RankedIs ==
    ASSUME NEW n \in Nat, NEW cands, DOMAIN cands = 1..n,
           \A k \in 1..n : cands[k].score \in Int /\ cands[k].id \in Int
    PROVE  \E order \in [1..n -> 1..n] :
              /\ Ranked(cands) = [k \in 1..n |-> cands[order[k]]]
              /\ \A i \in 1..n : \E k \in 1..n : order[k] = i
              /\ \A k, l \in 1..n : order[k] = order[l] => k = l
              /\ \A k \in 1..n : cands[order[k]].score <= cands[order[1]].score
<1> DEFINE before(x, y) == x.score > y.score \/ (x.score = y.score /\ x.id > y.id)
           D == 1..n
           ahead == [i \in D |-> {j \in D : \/ before(cands[j], cands[i])
                                            \/ ~before(cands[i], cands[j]) /\ j < i}]
<1>1. ahead \in [D -> SUBSET D]
  OBVIOUS
<1>2. \A i, j \in D : j \in ahead[i] <=>
         \/ cands[j].score > cands[i].score
         \/ cands[j].score = cands[i].score /\ cands[j].id > cands[i].id
         \/ cands[j].score = cands[i].score /\ cands[j].id = cands[i].id /\ j < i
  <2> SUFFICES ASSUME NEW i \in D, NEW j \in D
               PROVE  j \in ahead[i] <=>
                         \/ cands[j].score > cands[i].score
                         \/ cands[j].score = cands[i].score /\ cands[j].id > cands[i].id
                         \/ cands[j].score = cands[i].score /\ cands[j].id = cands[i].id /\ j < i
    OBVIOUS
  <2>1. /\ cands[i].score \in Int /\ cands[i].id \in Int
        /\ cands[j].score \in Int /\ cands[j].id \in Int
    OBVIOUS
  <2>2. j \in ahead[i] <=> before(cands[j], cands[i]) \/ (~before(cands[i], cands[j]) /\ j < i)
    OBVIOUS
  <2> HIDE DEF ahead
  <2>3. QED
    BY <2>1, <2>2
<1> HIDE DEF ahead, before
<1>3. \A i \in D : i \notin ahead[i]
  BY <1>2
<1>4. ASSUME NEW i \in D, NEW j \in D, i \in ahead[j], NEW k \in ahead[i] PROVE k \in ahead[j]
  <2>1. k \in D
    BY <1>1
  <2>2. /\ cands[i].score \in Int /\ cands[i].id \in Int
        /\ cands[j].score \in Int /\ cands[j].id \in Int
        /\ cands[k].score \in Int /\ cands[k].id \in Int
    BY <2>1
  <2>3. QED
    BY <1>2, <1>4, <2>1, <2>2
<1>5. ASSUME NEW i \in D, NEW j \in D, i # j PROVE i \in ahead[j] \/ j \in ahead[i]
  <2>1. /\ cands[i].score \in Int /\ cands[i].id \in Int
        /\ cands[j].score \in Int /\ cands[j].id \in Int
    OBVIOUS
  <2>2. QED
    BY <1>2, <1>5, <2>1
<1>6. LinearOrder(D, ahead)
  BY <1>3, <1>4, <1>5 DEF LinearOrder
<1>7. IsFiniteSet(D) /\ Cardinality(D) = n
  BY FS_Interval
<1>8. PICK order : order = Arranged(ahead)
  OBVIOUS
<1>9. /\ order \in [1..n -> 1..n]
      /\ \A k \in 1..n : Cardinality(ahead[order[k]]) = k - 1
      /\ \A i \in 1..n : \E k \in 1..n : order[k] = i
  <2>1. PICK E : E = D
    OBVIOUS
  <2>2. IsFiniteSet(E) /\ Cardinality(E) = n /\ ahead \in [E -> SUBSET E] /\ LinearOrder(E, ahead)
    BY <1>1, <1>6, <1>7, <2>1
  <2>3. /\ Arranged(ahead) \in [1..Cardinality(E) -> E]
        /\ \A k \in 1..Cardinality(E) : Cardinality(ahead[Arranged(ahead)[k]]) = k - 1
        /\ \A i \in E : \E k \in 1..Cardinality(E) : Arranged(ahead)[k] = i
    BY <2>2, ArrangedInOrder
  <2>4. QED
    BY <1>8, <2>1, <2>2, <2>3
<1>10. ASSUME NEW k \in 1..n, NEW l \in 1..n, order[k] = order[l] PROVE k = l
  <2>1. Cardinality(ahead[order[k]]) = k - 1
    BY <1>9
  <2>2. Cardinality(ahead[order[l]]) = l - 1
    BY <1>9
  <2>3. k \in Int /\ l \in Int /\ k - 1 = l - 1
    BY <1>10, <2>1, <2>2
  <2>4. QED
    BY <2>3
<1>11. Ranked(cands) = [k \in 1..n |-> cands[order[k]]]
  BY <1>8 DEF Ranked, ahead, before
<1>12. ASSUME NEW k \in 1..n PROVE cands[order[k]].score <= cands[order[1]].score
  <2>0. 1 \in 1..n
    BY <1>12
  <2>1. 1 \in 1..n /\ order[1] \in D /\ order[k] \in D
    BY <1>9, <1>12, <2>0
  <2>2. Cardinality(ahead[order[1]]) = 0
    BY <1>9, <2>1
  <2>3. ahead[order[1]] \in SUBSET D
    BY <1>1, <2>1
  <2>4. ahead[order[1]] = {}
    BY <1>7, <2>2, <2>3, FS_Subset, FS_EmptySet
  <2>5. order[k] \notin ahead[order[1]]
    BY <2>4
  <2>6. cands[order[k]].score \in Int /\ cands[order[1]].score \in Int
    BY <2>1
  <2>7. QED
    BY <1>2, <2>1, <2>5, <2>6
<1>13. QED
  BY <1>9, <1>10, <1>11, <1>12

\* The candidates as they are ranked: f gives the instance that each of them is.
RankedBy(f, ranked, g, explicit, records) ==
    LET W == Wanted(explicit, records)
        n == Cardinality(W)
    IN  /\ f \in [1..n -> W]
        /\ \A i \in W : \E k \in 1..n : f[k] = i
        /\ \A k, l \in 1..n : f[k] = f[l] => k = l
        /\ ranked = [k \in 1..n |-> CandidateOf(g, explicit, records[f[k]])]
        /\ \A k \in 1..n : records[f[k]].hits <= records[f[1]].hits

\* The ranking has every candidate once.
LEMMA AllAreRanked ==
    ASSUME NEW g, NEW explicit, NEW records, AreRecords(records)
    PROVE  \E f : RankedBy(f, Ranked(Candidates(g, explicit, records)), g, explicit, records)
<1>1. PICK W : W = Wanted(explicit, records)
  OBVIOUS
<1>2. PICK n \in Nat : n = Cardinality(W)
  BY <1>1, CandidatesAre
<1>3. IsFiniteSet(W) /\ W \in SUBSET (DOMAIN records)
  BY <1>1, CandidatesAre DEF Wanted
<1>4. PICK cands : cands = Candidates(g, explicit, records)
  OBVIOUS
<1>5. PICK o \in [1..n -> W] :
         /\ \A i \in W : \E k \in 1..n : o[k] = i
         /\ cands = [k \in 1..n |-> CandidateOf(g, explicit, records[o[k]])]
  BY <1>1, <1>2, <1>4, CandidatesAre
<1>6. \A k, l \in 1..n : o[k] = o[l] => k = l
  <2>1. o \in Surjection(1..n, W)
    BY <1>5 DEF Surjection
  <2>2. IsFiniteSet(1..n) /\ Cardinality(1..n) = n
    BY FS_Interval
  <2>3. o \in Injection(1..n, W)
    BY <1>2, <2>1, <2>2, FS_SurjSameCardinalityImpliesInj
  <2>4. QED
    BY <2>3 DEF Injection, IsInjective
<1>7. \A i \in DOMAIN records : records[i].id \in Int /\ records[i].hits \in Nat
  BY DEF AreRecords
<1>8. DOMAIN cands = 1..n /\ \A k \in 1..n : cands[k].score = 5 * records[o[k]].hits
                                           /\ cands[k].id = records[o[k]].id
  BY <1>5 DEF CandidateOf, ScoreOf
<1>9. \A k \in 1..n : cands[k].score \in Int /\ cands[k].id \in Int
  BY <1>3, <1>5, <1>7, <1>8
<1>10. PICK order \in [1..n -> 1..n] :
              /\ Ranked(cands) = [k \in 1..n |-> cands[order[k]]]
              /\ \A i \in 1..n : \E k \in 1..n : order[k] = i
              /\ \A k, l \in 1..n : order[k] = order[l] => k = l
              /\ \A k \in 1..n : cands[order[k]].score <= cands[order[1]].score
  BY <1>8, <1>9, RankedIs
<1>11. PICK f : f = [k \in 1..n |-> o[order[k]]]
  OBVIOUS
<1>12. f \in [1..n -> W]
  BY <1>5, <1>10, <1>11
<1>13. ASSUME NEW i \in W PROVE \E k \in 1..n : f[k] = i
  <2>1. PICK l \in 1..n : o[l] = i
    BY <1>5
  <2>2. PICK k \in 1..n : order[k] = l
    BY <1>10
  <2>3. QED
    BY <1>11, <2>1, <2>2
<1>14. ASSUME NEW k \in 1..n, NEW l \in 1..n, f[k] = f[l] PROVE k = l
  <2>1. order[k] \in 1..n /\ order[l] \in 1..n /\ o[order[k]] = o[order[l]]
    BY <1>10, <1>11, <1>14
  <2>2. order[k] = order[l]
    BY <1>6, <2>1
  <2>3. QED
    BY <1>10, <2>2
<1>15. Ranked(cands) = [k \in 1..n |-> CandidateOf(g, explicit, records[f[k]])]
  <2>1. \A k \in 1..n : cands[order[k]] = CandidateOf(g, explicit, records[f[k]])
    BY <1>5, <1>10, <1>11
  <2>2. QED
    BY <1>10, <2>1
<1>16. ASSUME NEW k \in 1..n PROVE records[f[k]].hits <= records[f[1]].hits
  <2>1. 1 \in 1..n
    OBVIOUS
  <2>2. order[1] \in 1..n /\ order[k] \in 1..n
    BY <1>10, <2>1
  <2>3. f[k] \in DOMAIN records /\ f[1] \in DOMAIN records
    BY <1>3, <1>12, <2>1
  <2>4. PICK x \in Nat, y \in Nat : x = records[f[k]].hits /\ y = records[f[1]].hits
    BY <1>7, <2>3
  <2>5. f[k] = o[order[k]] /\ f[1] = o[order[1]]
    BY <1>11, <2>1
  <2>6. cands[order[k]].score = 5 * x /\ cands[order[1]].score = 5 * y
    BY <1>8, <2>2, <2>4, <2>5
  <2>7. cands[order[k]].score <= cands[order[1]].score
    BY <1>10
  <2>8. x <= y
    BY <2>6, <2>7
  <2>9. QED
    BY <2>4, <2>8
<1>17. QED
  BY <1>1, <1>2, <1>4, <1>12, <1>13, <1>14, <1>15, <1>16 DEF RankedBy

\* The first of the ranking is one of the best; those with its score are the best.
LEMMA TopIsBest ==
    ASSUME NEW g, NEW explicit, NEW records, AreRecords(records),
           NEW f, NEW ranked, RankedBy(f, ranked, g, explicit, records)
    PROVE  /\ IsFiniteSet(Best(explicit, records)) /\ Cardinality(Best(explicit, records)) \in Nat
           /\ DOMAIN ranked = {} <=> Best(explicit, records) = {}
           /\ Cardinality(TopCandidates(ranked)) = Cardinality(Best(explicit, records))
           /\ \A k \in TopCandidates(ranked) : f[k] \in Best(explicit, records)
           /\ \A k \in TopCandidates(ranked) : ranked[k] = CandidateOf(g, explicit, records[f[k]])
           /\ \A i \in Best(explicit, records) : \E k \in TopCandidates(ranked) : f[k] = i
           /\ Best(explicit, records) # {} => 1 \in TopCandidates(ranked)
<1>1. PICK W : W = Wanted(explicit, records)
  OBVIOUS
<1>2. PICK n \in Nat : n = Cardinality(W)
  BY <1>1, CandidatesAre
<1>3. IsFiniteSet(W) /\ W \in SUBSET (DOMAIN records)
  BY <1>1, CandidatesAre DEF Wanted
<1>4. PICK B : B = Best(explicit, records)
  OBVIOUS
<1>5. \A i : i \in B <=> i \in W /\ \A j \in W : records[j].hits <= records[i].hits
  BY <1>1, <1>4 DEF Best
<1>6. /\ f \in [1..n -> W]
      /\ \A i \in W : \E k \in 1..n : f[k] = i
      /\ \A k, l \in 1..n : f[k] = f[l] => k = l
      /\ ranked = [k \in 1..n |-> CandidateOf(g, explicit, records[f[k]])]
      /\ \A k \in 1..n : records[f[k]].hits <= records[f[1]].hits
  BY <1>1, <1>2 DEF RankedBy
<1>7. \A i \in W : records[i].hits \in Nat
  BY <1>3 DEF AreRecords
<1>8. IsFiniteSet(B) /\ Cardinality(B) \in Nat
  <2>1. B \in SUBSET W
    BY <1>5
  <2>2. QED
    BY <1>3, <2>1, FS_Subset, FS_CardinalityType
<1>9. ASSUME NEW k \in 1..n PROVE f[k] \in B <=> records[f[k]].hits = records[f[1]].hits
  <2>1. 1 \in 1..n
    OBVIOUS
  <2>2. f[k] \in W /\ f[1] \in W
    BY <1>6, <2>1
  <2>3. records[f[k]].hits \in Nat /\ records[f[1]].hits \in Nat
    BY <1>7, <2>2
  <2>4. ASSUME f[k] \in B PROVE records[f[k]].hits = records[f[1]].hits
    BY <1>5, <1>6, <2>2, <2>3, <2>4
  <2>5. ASSUME records[f[k]].hits = records[f[1]].hits, NEW j \in W
        PROVE  records[j].hits <= records[f[k]].hits
    <3>1. PICK l \in 1..n : f[l] = j
      BY <1>6
    <3>2. QED
      BY <1>6, <2>5, <3>1
  <2>6. QED
    BY <1>5, <2>2, <2>4, <2>5
<1>10. DOMAIN ranked = 1..n /\ \A k \in 1..n : ranked[k] = CandidateOf(g, explicit, records[f[k]])
                                             /\ ranked[k].score = 5 * records[f[k]].hits
  BY <1>6 DEF CandidateOf, ScoreOf
<1>11. PICK T : T = TopCandidates(ranked)
  OBVIOUS
<1>12. \A k : k \in T <=> k \in 1..n /\ f[k] \in B
  <2>1. \A k : k \in T <=> k \in 1..n /\ ranked[k].score = ranked[1].score
    BY <1>10, <1>11 DEF TopCandidates
  <2>2. ASSUME NEW k \in 1..n PROVE ranked[k].score = ranked[1].score <=> f[k] \in B
    <3>1. 1 \in 1..n
      OBVIOUS
    <3>2. f[k] \in W /\ f[1] \in W
      BY <1>6, <3>1
    <3>3. records[f[k]].hits \in Nat /\ records[f[1]].hits \in Nat
      BY <1>7, <3>2
    <3>4. ranked[k].score = 5 * records[f[k]].hits /\ ranked[1].score = 5 * records[f[1]].hits
      BY <1>10, <3>1
    <3>5. QED
      BY <1>9, <3>3, <3>4
  <2>3. QED
    BY <2>1, <2>2
<1>13. \A i \in B : \E k \in T : f[k] = i
  BY <1>5, <1>6, <1>12
<1>14. Cardinality(T) = Cardinality(B)
  <2>1. T \in SUBSET (1..n) /\ IsFiniteSet(1..n)
    BY <1>12, FS_Interval
  <2>2. IsFiniteSet(T)
    BY <2>1, FS_Subset
  <2>3. PICK h : h = [k \in T |-> f[k]]
    OBVIOUS
  <2>4. h \in [T -> B] /\ \A k, l \in T : h[k] = h[l] => k = l
    BY <1>6, <1>12, <2>3
  <2>5. h \in Injection(T, B)
    BY <2>4 DEF Injection, IsInjective
  <2>6. h \in Surjection(T, B)
    BY <1>13, <2>3, <2>4 DEF Surjection
  <2>7. ExistsBijection(T, B)
    BY <2>5, <2>6 DEF ExistsBijection, Bijection
  <2>8. QED
    BY <2>2, <2>7, FS_Bijection
<1>15. DOMAIN ranked = {} <=> B = {}
  <2>1. ASSUME B # {} PROVE DOMAIN ranked # {}
    BY <1>10, <1>12, <1>13, <2>1
  <2>2. ASSUME DOMAIN ranked # {} PROVE B # {}
    <3>1. 1 \in 1..n
      BY <1>10, <2>2
    <3>2. QED
      BY <1>9, <3>1
  <2>3. QED
    BY <2>1, <2>2
<1>16. B # {} => 1 \in T
  <2>1. ASSUME B # {} PROVE 1 \in 1..n
    BY <1>10, <1>15, <2>1
  <2>2. QED
    BY <1>9, <1>12, <2>1
<1>17. QED
  BY <1>4, <1>8, <1>10, <1>11, <1>12, <1>13, <1>14, <1>15, <1>16

\* What CloudContext answers, in the terms of the instances that fit best.
Ambiguous(project, ref) ==
    [status |-> "ambiguous", id |-> Absent, project |-> project, ref |-> ref,
     source |-> IF ref = Absent THEN "none" ELSE "project_binding"]

Matched(cand) ==
    [status |-> "matched", id |-> cand.id, project |-> cand.project, ref |-> cand.ref,
     source |-> cand.source]

Malforms(explicit, records) ==
    explicit = Malformed \/ \E i \in DOMAIN records : records[i].cell = Malformed

AnswersFor(B, answer, g, explicit, records) ==
    /\ IsFiniteSet(B) /\ Cardinality(B) \in Nat
    /\ B = {} => answer = Unmatched(explicit, IF explicit = Absent THEN "none" ELSE "explicit")
    /\ Cardinality(B) > 1 =>
          answer = Ambiguous(Common({CandidateOf(g, explicit, records[i]).project : i \in B}),
                             Common({CandidateOf(g, explicit, records[i]).ref : i \in B}))
    /\ \A i \in B : Cardinality(B) = 1 => answer = Matched(CandidateOf(g, explicit, records[i]))

\* What the context answers, by how many instances fit best.
LEMMA ContextIs ==
    ASSUME NEW g, NEW explicit, NEW records, AreRecords(records), ~Malforms(explicit, records)
    PROVE  AnswersFor(Best(explicit, records), CloudContext(g, explicit, records), g, explicit, records)
<1>0. PICK B : B = Best(explicit, records)
  OBVIOUS
<1>1. PICK ranked : ranked = Ranked(Candidates(g, explicit, records))
  OBVIOUS
<1>2. PICK f : RankedBy(f, ranked, g, explicit, records)
  BY <1>1, AllAreRanked
<1>3. PICK T : T = TopCandidates(ranked)
  OBVIOUS
<1>4. /\ IsFiniteSet(B) /\ Cardinality(B) \in Nat
      /\ DOMAIN ranked = {} <=> B = {}
      /\ Cardinality(T) = Cardinality(B)
      /\ \A k \in T : f[k] \in B
      /\ \A k \in T : ranked[k] = CandidateOf(g, explicit, records[f[k]])
      /\ \A i \in B : \E k \in T : f[k] = i
      /\ B # {} => 1 \in T
  <2>1. /\ IsFiniteSet(Best(explicit, records)) /\ Cardinality(Best(explicit, records)) \in Nat
        /\ DOMAIN ranked = {} <=> Best(explicit, records) = {}
        /\ Cardinality(TopCandidates(ranked)) = Cardinality(Best(explicit, records))
        /\ \A k \in TopCandidates(ranked) : f[k] \in Best(explicit, records)
        /\ \A k \in TopCandidates(ranked) : ranked[k] = CandidateOf(g, explicit, records[f[k]])
        /\ \A i \in Best(explicit, records) : \E k \in TopCandidates(ranked) : f[k] = i
        /\ Best(explicit, records) # {} => 1 \in TopCandidates(ranked)
    BY <1>2, TopIsBest
  <2>2. QED
    BY <1>0, <1>3, <2>1
<1>5. ranked = <<>> <=> DOMAIN ranked = {}
  <2>1. PICK n : ranked = [k \in 1..n |-> CandidateOf(g, explicit, records[f[k]])]
    BY <1>2 DEF RankedBy
  <2>2. QED
    BY <2>1
<1>6. Cardinality({}) = 0
  BY FS_EmptySet
<1>7. CloudContext(g, explicit, records) =
         IF B = {} THEN Unmatched(explicit, IF explicit = Absent THEN "none" ELSE "explicit")
         ELSE IF Cardinality(B) > 1
         THEN Ambiguous(Common({ranked[k].project : k \in T}), Common({ranked[k].ref : k \in T}))
         ELSE Matched(ranked[1])
  BY <1>1, <1>3, <1>4, <1>5 DEF CloudContext, Malforms, Ambiguous, Matched
<1>8. /\ {ranked[k].project : k \in T} = {CandidateOf(g, explicit, records[i]).project : i \in B}
      /\ {ranked[k].ref : k \in T} = {CandidateOf(g, explicit, records[i]).ref : i \in B}
  BY <1>4
<1>9. ASSUME NEW i \in B, Cardinality(B) = 1 PROVE ranked[1] = CandidateOf(g, explicit, records[i])
  <2>1. PICK j : B = {j}
    BY <1>4, <1>9, FS_Singleton
  <2>2. f[1] = i
    BY <1>4, <1>9, <2>1
  <2>3. QED
    BY <1>4, <1>9, <2>2
<1>10. ASSUME NEW i \in B, Cardinality(B) = 1
       PROVE CloudContext(g, explicit, records) = Matched(CandidateOf(g, explicit, records[i]))
  BY <1>7, <1>9, <1>10
<1>11. B = {} => ~(Cardinality(B) > 1)
  BY <1>6
<1>12. QED
  BY <1>0, <1>4, <1>7, <1>8, <1>10, <1>11 DEF AnswersFor

\* The instances from the last on: those that fit best are the same ones.
LEMMA ReversedIs ==
    ASSUME NEW explicit, NEW records, AreRecords(records)
    PROVE  /\ AreRecords(Reverse(records))
           /\ Malforms(explicit, Reverse(records)) => Malforms(explicit, records)
           /\ \E r \in Bijection(Best(explicit, Reverse(records)), Best(explicit, records)) :
                 \A i \in Best(explicit, Reverse(records)) : Reverse(records)[i] = records[r[i]]
<1>1. PICK n \in Nat : n = Len(records) /\ DOMAIN records = 1..n
  BY DEF AreRecords
<1>2. PICK back : back = Reverse(records)
  OBVIOUS
<1>3. DOMAIN back = 1..n /\ \A i \in 1..n : back[i] = records[n - i + 1]
  BY <1>1, <1>2 DEF Reverse
<1>4. \A i \in 1..n : n - i + 1 \in 1..n /\ n - (n - i + 1) + 1 = i
  OBVIOUS
<1>5. AreRecords(back)
  <2>1. \A i \in 1..n : back[i].id \in Int /\ back[i].hits \in Nat
    BY <1>1, <1>3, <1>4 DEF AreRecords
  <2>2. back \in Seq(ToSet(back))
    <3>1. back = [i \in 1..n |-> records[n - i + 1]]
      BY <1>1, <1>2 DEF Reverse
    <3>2. back \in [1..n -> ToSet(back)]
      BY <1>3, <3>1 DEF ToSet
    <3>3. QED
      BY <3>2
  <2>3. QED
    BY <1>3, <2>1, <2>2 DEF AreRecords
<1>6. ASSUME Malforms(explicit, back) PROVE Malforms(explicit, records)
  BY <1>1, <1>3, <1>4, <1>6 DEF Malforms
<1>7. \A i \in 1..n : /\ i \in Wanted(explicit, back) <=> n - i + 1 \in Wanted(explicit, records)
                      /\ i \in Wanted(explicit, records) <=> n - i + 1 \in Wanted(explicit, back)
  BY <1>1, <1>3, <1>4 DEF Wanted
<1>8. Wanted(explicit, back) \in SUBSET (1..n) /\ Wanted(explicit, records) \in SUBSET (1..n)
  BY <1>1, <1>3 DEF Wanted
<1>9. \A i \in 1..n : i \in Best(explicit, back) <=> n - i + 1 \in Best(explicit, records)
  <2> SUFFICES ASSUME NEW i \in 1..n
               PROVE  i \in Best(explicit, back) <=> n - i + 1 \in Best(explicit, records)
    OBVIOUS
  <2>1. PICK l \in 1..n : l = n - i + 1 /\ back[i] = records[l]
    BY <1>3, <1>4
  <2>2. ASSUME i \in Best(explicit, back), NEW j \in Wanted(explicit, records)
        PROVE  records[j].hits <= records[l].hits
    <3>1. PICK k \in 1..n : k = n - j + 1 /\ back[k] = records[j] /\ k \in Wanted(explicit, back)
      BY <1>3, <1>4, <1>7, <1>8
    <3>2. back[k].hits <= back[i].hits
      BY <2>2, <3>1 DEF Best
    <3>3. QED
      BY <2>1, <3>1, <3>2
  <2>3. ASSUME l \in Best(explicit, records), NEW j \in Wanted(explicit, back)
        PROVE  back[j].hits <= back[i].hits
    <3>1. PICK k \in 1..n : k = n - j + 1 /\ records[k] = back[j] /\ k \in Wanted(explicit, records)
      BY <1>3, <1>4, <1>7, <1>8
    <3>2. records[k].hits <= records[l].hits
      BY <2>3, <3>1 DEF Best
    <3>3. QED
      BY <2>1, <3>1, <3>2
  <2>4. i \in Wanted(explicit, back) <=> l \in Wanted(explicit, records)
    BY <1>7, <2>1
  <2>5. QED
    BY <2>1, <2>2, <2>3, <2>4 DEF Best
<1>10. PICK A, B : A = Best(explicit, back) /\ B = Best(explicit, records)
  OBVIOUS
<1>11. A \in SUBSET (1..n) /\ B \in SUBSET (1..n)
  BY <1>8, <1>10 DEF Best
<1>12. PICK r : r = [i \in A |-> n - i + 1]
  OBVIOUS
<1>13. r \in [A -> B] /\ \A i \in A : r[i] = n - i + 1
  BY <1>9, <1>10, <1>11, <1>12
<1>14. r \in Injection(A, B)
  <2>1. \A i, j \in A : r[i] = r[j] => i = j
    BY <1>11, <1>13
  <2>2. QED
    BY <1>13, <2>1 DEF Injection, IsInjective
<1>15. r \in Surjection(A, B)
  <2>1. ASSUME NEW j \in B PROVE \E i \in A : r[i] = j
    <3>1. PICK i \in 1..n : i = n - j + 1 /\ n - i + 1 = j
      BY <1>4, <1>11
    <3>2. i \in A
      BY <1>9, <1>10, <3>1
    <3>3. QED
      BY <1>13, <3>1, <3>2
  <2>2. QED
    BY <1>13, <2>1 DEF Surjection
<1>16. \A i \in A : back[i] = records[r[i]]
  BY <1>3, <1>11, <1>13
<1>17. QED
  BY <1>2, <1>5, <1>6, <1>10, <1>14, <1>15, <1>16 DEF Bijection

\* What values have in common is the value of each that has one.
LEMMA CommonIs ==
    ASSUME NEW V, IsFiniteSet(V), Common(V) # Absent
    PROVE  V \in SUBSET {Common(V), Absent}
<1>1. PICK given : given = V \ {Absent}
  OBVIOUS
<1>2. IsFiniteSet(given)
  BY <1>1, FS_Subset
<1>3. Cardinality(given) = 1 /\ Common(V) = CHOOSE v \in given : TRUE
  BY <1>1 DEF Common
<1>4. PICK x : given = {x}
  BY <1>2, <1>3, FS_Singleton
<1>5. QED
  BY <1>1, <1>3, <1>4

\* A reference that came by an override is of the registry.
LEMMA OverrideIsKnown ==
    ASSUME NEW g, NEW explicit, NEW x, RegistryIsAccepted(g),
           CandidateOf(g, explicit, x).source = "instance_override"
    PROVE  CandidateOf(g, explicit, x).ref \in ToSet(g.credentials)
<1>1. PICK chosen : chosen = IF explicit # Absent THEN explicit ELSE x.cell
  OBVIOUS
<1>2. CredentialOf(g, chosen, x).source = "instance_override"
  BY <1>1 DEF CandidateOf
<1>3. chosen = Absent /\ x.id \in DOMAIN g.overrides
  BY <1>2 DEF CredentialOf
<1>4. CredentialOf(g, chosen, x).ref = g.overrides[x.id]
  BY <1>3 DEF CredentialOf
<1>5. g.overrides[x.id] \in ToSet(g.credentials)
  BY <1>3 DEF RegistryIsAccepted
<1>6. QED
  BY <1>1, <1>4, <1>5 DEF CandidateOf

\* The reference of an instance, by precedence.
ReferenceOf(g, explicit, x) ==
    CASE explicit # Absent -> explicit
      [] explicit = Absent /\ x.cell # Absent -> x.cell
      [] OTHER -> CredentialOf(g, Absent, x).ref

\* A candidate has its record's id and the reference of the precedence.
LEMMA CandidatesRef ==
    ASSUME NEW g, NEW explicit, NEW x
    PROVE  /\ CandidateOf(g, explicit, x).ref = ReferenceOf(g, explicit, x)
           /\ CandidateOf(g, explicit, x).id = x.id
BY DEF CandidateOf, ReferenceOf, CredentialOf

\* With one instance that fits best the answer is that one.
LEMMA OneIsMatched ==
    ASSUME NEW g, NEW explicit, NEW records, AreRecords(records), ~Malforms(explicit, records),
           NEW i, Best(explicit, records) = {i}
    PROVE  CloudContext(g, explicit, records) = Matched(CandidateOf(g, explicit, records[i]))
<1>1. PICK B : B = Best(explicit, records)
  OBVIOUS
<1>2. Cardinality(B) = 1 /\ i \in B
  BY <1>1, FS_Singleton
<1>3. \A j \in B : Cardinality(B) = 1 =>
         CloudContext(g, explicit, records) = Matched(CandidateOf(g, explicit, records[j]))
  <2>1. AnswersFor(B, CloudContext(g, explicit, records), g, explicit, records)
    BY <1>1, ContextIs
  <2>2. QED
    BY <2>1 DEF AnswersFor
<1>4. QED
  BY <1>2, <1>3

\* The order of the documents does not change the answer.
LEMMA SameForwardsAndBack ==
    ASSUME NEW g, NEW explicit, NEW records, AreRecords(records), ~Malforms(explicit, records)
    PROVE  CloudContext(g, explicit, records) = CloudContext(g, explicit, Reverse(records))
<1>1. PICK back : back = Reverse(records)
  OBVIOUS
<1>2. AreRecords(back) /\ ~Malforms(explicit, back)
  BY <1>1, ReversedIs
<1>3. PICK A, B : A = Best(explicit, back) /\ B = Best(explicit, records)
  OBVIOUS
<1>4. PICK r \in Bijection(A, B) : \A i \in A : back[i] = records[r[i]]
  BY <1>1, <1>3, ReversedIs
<1>5. r \in [A -> B] /\ \A j \in B : \E i \in A : r[i] = j
  BY <1>4 DEF Bijection, Injection, Surjection
<1>6. IsFiniteSet(A) /\ IsFiniteSet(B) /\ Cardinality(B) \in Nat
  BY <1>2, <1>3, ContextIs DEF AnswersFor
<1>7. Cardinality(A) = Cardinality(B)
  <2>1. ExistsBijection(A, B)
    BY <1>4 DEF ExistsBijection
  <2>2. QED
    BY <1>6, <2>1, FS_Bijection
<1>8. CASE B = {}
  <2>1. A = {}
    BY <1>5, <1>8
  <2>2. CloudContext(g, explicit, records) =
           Unmatched(explicit, IF explicit = Absent THEN "none" ELSE "explicit")
    BY <1>3, <1>8, ContextIs DEF AnswersFor
  <2>3. CloudContext(g, explicit, back) =
           Unmatched(explicit, IF explicit = Absent THEN "none" ELSE "explicit")
    BY <1>2, <1>3, <2>1, ContextIs DEF AnswersFor
  <2>4. QED
    BY <1>1, <2>2, <2>3
<1>9. CASE Cardinality(B) > 1
  <2>1. PICK at, to : /\ at = [i \in A |-> CandidateOf(g, explicit, back[i])]
                      /\ to = [j \in B |-> CandidateOf(g, explicit, records[j])]
    OBVIOUS
  <2>2. \A i \in A : at[i] = to[r[i]]
    BY <1>4, <1>5, <2>1
  <2>3. /\ {at[i].project : i \in A} = {to[j].project : j \in B}
        /\ {at[i].ref : i \in A} = {to[j].ref : j \in B}
    BY <1>5, <2>2
  <2>4. /\ {CandidateOf(g, explicit, back[i]).project : i \in A}
              = {CandidateOf(g, explicit, records[j]).project : j \in B}
        /\ {CandidateOf(g, explicit, back[i]).ref : i \in A}
              = {CandidateOf(g, explicit, records[j]).ref : j \in B}
    BY <2>1, <2>3
  <2>5. CloudContext(g, explicit, records) =
           Ambiguous(Common({CandidateOf(g, explicit, records[i]).project : i \in B}),
                     Common({CandidateOf(g, explicit, records[i]).ref : i \in B}))
    BY <1>3, <1>9, ContextIs DEF AnswersFor
  <2>6. CloudContext(g, explicit, back) =
           Ambiguous(Common({CandidateOf(g, explicit, back[i]).project : i \in A}),
                     Common({CandidateOf(g, explicit, back[i]).ref : i \in A}))
    BY <1>2, <1>3, <1>7, <1>9, ContextIs DEF AnswersFor
  <2>7. QED
    BY <1>1, <2>4, <2>5, <2>6
<1>10. CASE Cardinality(B) = 1
  <2>1. PICK j : B = {j}
    BY <1>6, <1>10, FS_Singleton
  <2>2. PICK i \in A : r[i] = j
    BY <1>5, <2>1
  <2>3. back[i] = records[j]
    BY <1>4, <2>2
  <2>4. CloudContext(g, explicit, records) = Matched(CandidateOf(g, explicit, records[j]))
    BY <1>3, <2>1, OneIsMatched
  <2>5. CloudContext(g, explicit, back) = Matched(CandidateOf(g, explicit, back[i]))
    <3>1. PICK k : A = {k}
      BY <1>6, <1>7, <1>10, FS_Singleton
    <3>2. A = {i}
      BY <2>2, <3>1
    <3>3. QED
      BY <1>2, <1>3, <3>2, OneIsMatched
  <2>6. QED
    BY <1>1, <2>3, <2>4, <2>5
<1>11. CASE Cardinality(B) = 0
  BY <1>6, <1>8, <1>11, FS_EmptySet
<1>12. QED
  BY <1>6, <1>8, <1>9, <1>10, <1>11

\* AnswerIsBest, in the names above; back is the answer to the documents reversed.
IsBest(B, answer, back, g, explicit, records) ==
    answer.status # "error" =>
        /\ answer.status = "matched" <=> Cardinality(B) = 1
        /\ answer.status = "ambiguous" <=> Cardinality(B) > 1
        /\ \A i \in B : answer.status = "matched" =>
              answer.id = records[i].id /\ answer.ref = ReferenceOf(g, explicit, records[i])
        /\ answer.status = "ambiguous" /\ answer.ref # Absent =>
              \A i \in B : ReferenceOf(g, explicit, records[i]) \in {answer.ref, Absent}
        /\ answer = back
        /\ answer.source = "instance_override" => answer.ref \in ToSet(g.credentials)

\* The promise of an answer, in terms of the instances that fit best.
LEMMA BestIs ==
    ASSUME NEW g, NEW explicit, NEW records, AreRecords(records)
    PROVE  AnswerIsBest(g, explicit, records) <=>
              IsBest(Best(explicit, records), CloudContext(g, explicit, records),
                     CloudContext(g, explicit, Reverse(records)), g, explicit, records)
<1>0. PICK B : B = Best(explicit, records)
  OBVIOUS
<1>1. \A i \in DOMAIN records : ScoreOf(records[i]) > 0 <=> records[i].hits > 0
  <2> SUFFICES ASSUME NEW i \in DOMAIN records PROVE ScoreOf(records[i]) > 0 <=> records[i].hits > 0
    OBVIOUS
  <2>1. PICK x \in Nat : x = records[i].hits
    BY DEF AreRecords
  <2>2. 5 * x > 0 <=> x > 0
    OBVIOUS
  <2>3. QED
    BY <2>1, <2>2 DEF ScoreOf
<1>2. PICK W : W = {i \in DOMAIN records : explicit # Absent \/ records[i].hits > 0}
  OBVIOUS
<1>3. W = Wanted(explicit, records)
  BY <1>1, <1>2 DEF Wanted
<1>4. B = {i \in W : \A j \in W : records[j].hits <= records[i].hits}
  BY <1>0, <1>3 DEF Best
<1>5. QED
  BY <1>0, <1>2, <1>4 DEF AnswerIsBest, IsBest, ReferenceOf

\* A message is answered with the one instance that fits it best, wherever it is among
\* the documents, and with the credential the precedence gives it, whatever the
\* documents and the accepted registry are (services/cloud_credentials.py:278-393).
THEOREM AnswersAreBest ==
    ASSUME NEW g, NEW explicit, NEW records, RegistryIsAccepted(g), AreRecords(records)
    PROVE  AnswerIsBest(g, explicit, records)
<1>1. PICK answer : answer = CloudContext(g, explicit, records)
  OBVIOUS
<1>2. PICK B : B = Best(explicit, records)
  OBVIOUS
<1>3. PICK back : back = CloudContext(g, explicit, Reverse(records))
  OBVIOUS
<1>4. SUFFICES IsBest(B, answer, back, g, explicit, records)
  BY <1>1, <1>2, <1>3, BestIs
<1>5. CASE Malforms(explicit, records)
  <2>1. answer.status = "error"
    BY <1>1, <1>5 DEF CloudContext, Malforms, Unmatched
  <2>2. QED
    BY <2>1 DEF IsBest
<1>6. CASE ~Malforms(explicit, records)
  <2>1. IsFiniteSet(B) /\ Cardinality(B) \in Nat
    BY <1>2, <1>6, ContextIs DEF AnswersFor
  <2>2. answer = back
    BY <1>1, <1>3, <1>6, SameForwardsAndBack
  <2>3. CASE B = {}
    <3>1. answer.status = "unmatched" /\ answer.source # "instance_override"
      <4>1. AnswersFor(B, answer, g, explicit, records)
        BY <1>1, <1>2, <1>6, ContextIs
      <4>2. answer = Unmatched(explicit, IF explicit = Absent THEN "none" ELSE "explicit")
        BY <2>3, <4>1 DEF AnswersFor
      <4>3. QED
        BY <4>2 DEF Unmatched
    <3>2. Cardinality(B) = 0
      BY <2>3, FS_EmptySet
    <3>3. QED
      BY <2>2, <2>3, <3>1, <3>2 DEF IsBest
  <2>4. CASE Cardinality(B) > 1
    <3>1. PICK V : V = {CandidateOf(g, explicit, records[i]).ref : i \in B}
      OBVIOUS
    <3>2. PICK P : P = {CandidateOf(g, explicit, records[i]).project : i \in B}
      OBVIOUS
    <3>3. answer = Ambiguous(Common(P), Common(V))
      BY <1>1, <1>2, <1>6, <2>4, <3>1, <3>2, ContextIs DEF AnswersFor
    <3>4. answer.status = "ambiguous" /\ answer.ref = Common(V) /\ answer.source # "instance_override"
      BY <3>3 DEF Ambiguous
    <3>5. ASSUME answer.ref # Absent, NEW i \in B
          PROVE  ReferenceOf(g, explicit, records[i]) \in {answer.ref, Absent}
      <4>1. IsFiniteSet(V)
        <5>1. PICK f : f = [j \in B |-> CandidateOf(g, explicit, records[j]).ref]
          OBVIOUS
        <5>2. IsFiniteSet({f[j] : j \in B})
          BY <2>1, <5>1, ImageIsFinite
        <5>3. V = {f[j] : j \in B}
          BY <3>1, <5>1
        <5>4. QED
          BY <5>2, <5>3
      <4>2. V \in SUBSET {Common(V), Absent}
        BY <3>4, <3>5, <4>1, CommonIs
      <4>3. ReferenceOf(g, explicit, records[i]) \in V
        BY <3>1, CandidatesRef
      <4>4. QED
        BY <3>4, <4>2, <4>3
    <3>6. QED
      BY <2>1, <2>2, <2>4, <3>4, <3>5 DEF IsBest
  <2>5. CASE Cardinality(B) = 1
    <3>1. PICK i : B = {i}
      BY <2>1, <2>5, FS_Singleton
    <3>2. PICK cand : cand = CandidateOf(g, explicit, records[i])
      OBVIOUS
    <3>3. answer = Matched(cand)
      BY <1>1, <1>2, <1>6, <3>1, <3>2, OneIsMatched
    <3>4. /\ answer.status = "matched" /\ answer.id = cand.id /\ answer.ref = cand.ref
          /\ answer.source = cand.source
      BY <3>3 DEF Matched
    <3>5. cand.id = records[i].id /\ cand.ref = ReferenceOf(g, explicit, records[i])
      BY <3>2, CandidatesRef
    <3>6. cand.source = "instance_override" => cand.ref \in ToSet(g.credentials)
      BY <3>2, OverrideIsKnown
    <3>7. QED
      BY <2>2, <2>5, <3>1, <3>4, <3>5, <3>6 DEF IsBest
  <2>6. QED
    BY <2>1, <2>3, <2>4, <2>5, FS_EmptySet
<1>7. QED
  BY <1>5, <1>6

CheckedContext ==
    checked.kind = "context" =>
        RegistryIsAccepted(checked.g) /\ AreRecords(checked.records)

\* A bounded sequence of records is a sequence of records.
LEMMA SequencesOfRecords ==
    ASSUME NEW S, \A x \in S : x.id \in Int /\ x.hits \in Nat, NEW k \in Nat, NEW s \in BoundedSeq(S, k)
    PROVE  AreRecords(s)
<1>1. PICK m \in 0..k : s \in [1..m -> S]
  BY DEF BoundedSeq, SeqOf
<1>2. m \in Nat /\ DOMAIN s = 1..m
  BY <1>1
<1>3. s = [i \in 1..m |-> s[i]] /\ \A i \in 1..m : s[i] \in ToSet(s)
  BY <1>1, <1>2 DEF ToSet
<1>4. s \in [1..m -> ToSet(s)]
  BY <1>3
<1>5. s \in Seq(ToSet(s))
  BY <1>2, <1>4
<1>6. QED
  BY <1>1, <1>2, <1>5 DEF AreRecords

\* The records that are checked are those the theorem speaks of.
LEMMA MCRecordsAreRecords ==
    ASSUME NEW s \in MCRecords
    PROVE  AreRecords(s)
<1>1. PICK S : S = [id : 1..2, project : {east}, cell : {Absent, ref1}, hits : 0..2]
  OBVIOUS
<1>2. PICK T : T = [id : 1..2, project : {east, west, Absent}, cell : {Absent, ref1, Malformed},
                    hits : 0..1]
  OBVIOUS
<1>3. /\ \A x \in S : x.id \in Int /\ x.hits \in Nat
      /\ \A x \in T : x.id \in Int /\ x.hits \in Nat
  BY <1>1, <1>2
<1>4. s \in BoundedSeq(S, 3) \/ s \in BoundedSeq(T, 2)
  BY <1>1, <1>2 DEF MCRecords
<1>5. CASE s \in BoundedSeq(S, 3)
  BY <1>3, <1>5, 3 \in Nat, SequencesOfRecords
<1>6. CASE s \in BoundedSeq(T, 2)
  BY <1>3, <1>6, 2 \in Nat, SequencesOfRecords
<1>7. QED
  BY <1>4, <1>5, <1>6

\* What save_cloud_credentials_registry leaves is accepted: it can be read again.
LEMMA SavedIsAccepted ==
    ASSUME NEW p
    PROVE  RegistryIsAccepted(SavedRegistry(EmptyRegistry, p))
<1>1. RegistryIsAccepted(EmptyRegistry)
  <2>1. DOMAIN <<>> = {} /\ Len(<<>>) = 0
    OBVIOUS
  <2>2. ToSet(<<>>) = {}
    BY <2>1 DEF ToSet
  <2>3. Cardinality({}) = 0
    BY FS_EmptySet
  <2>4. QED
    BY <2>1, <2>2, <2>3 DEF RegistryIsAccepted, EmptyRegistry
<1>2. QED
  BY <1>1 DEF SavedRegistry

\* Every case of a context is one the theorem speaks of.
LEMMA ContextIsChecked ==
    ASSUME CheckedContext, [CheckNext]_checked
    PROVE  CheckedContext'
<1>1. CASE CheckContext
  <2>1. PICK p \in MCPayloads, x \in {Absent, ref2, Malformed}, s \in MCRecords :
           checked' = [kind |-> "context", g |-> SavedRegistry(EmptyRegistry, p), explicit |-> x,
                       records |-> s]
    BY <1>1 DEF CheckContext
  <2>2. checked'.g = SavedRegistry(EmptyRegistry, p) /\ checked'.records = s
    BY <2>1
  <2>3. QED
    BY <2>2, SavedIsAccepted, MCRecordsAreRecords DEF CheckedContext
<1>2. CASE checked'.kind # "context"
  BY <1>2 DEF CheckedContext
<1>3. CASE checked' = checked
  BY <1>3 DEF CheckedContext
<1>4. QED
  BY <1>1, <1>2, <1>3, KindsDiffer DEF CheckNext

\* In every case of documents that is checked the answer is the best instance with the
\* credential of the precedence (services/cloud_credentials.py:278-393).
THEOREM CandidateIsAlwaysBest == CheckSpec => []CandidateIsBest
<1>1. CheckInit => CheckedContext
  BY DEF CheckInit, CheckedContext
<1>2. CheckedContext /\ [CheckNext]_checked => CheckedContext'
  BY ContextIsChecked
<1>3. CheckedContext => CandidateIsBest
  BY AnswersAreBest DEF CheckedContext, CandidateIsBest
<1>4. QED
  BY <1>1, <1>2, <1>3, PTL DEF CheckSpec

-----------------------------------------------------------------------------
(* Values in another order.                                                  *)

\* t has the values of s, in the order that r gives.
Rearranges(r, m, s, t) ==
    r \in Bijection(1..m, 1..m) /\ \A j \in 1..m : t[j] = s[r[j]]

\* A set of positions has as many as are sent there.
LEMMA AsManySent ==
    ASSUME NEW D, IsFiniteSet(D), NEW r \in Bijection(D, D), NEW Q \in SUBSET D
    PROVE  Cardinality({j \in D : r[j] \in Q}) = Cardinality(Q)
<1>1. PICK P : P = {j \in D : r[j] \in Q}
  OBVIOUS
<1>2. r \in [D -> D] /\ (\A i, j \in D : r[i] = r[j] => i = j) /\ (\A i \in D : \E j \in D : r[j] = i)
  BY DEF Bijection, Injection, Surjection, IsInjective
<1>3. PICK h : h = [j \in P |-> r[j]]
  OBVIOUS
<1>4. h \in [P -> Q] /\ (\A i, j \in P : h[i] = h[j] => i = j) /\ (\A i \in Q : \E j \in P : h[j] = i)
  BY <1>1, <1>2, <1>3
<1>5. h \in Bijection(P, Q)
  BY <1>4 DEF Bijection, Injection, Surjection, IsInjective
<1>6. IsFiniteSet(P)
  BY <1>1, FS_Subset
<1>7. Cardinality(P) = Cardinality(Q)
  BY <1>5, <1>6, FS_Bijection DEF ExistsBijection
<1>8. QED
  BY <1>1, <1>7

\* The order of the values does not change the k-th of them in order.
LEMMA SortedIsTheSame ==
    ASSUME NEW m \in Nat, NEW s \in [1..m -> Int], NEW t \in [1..m -> Int],
           NEW r, Rearranges(r, m, s, t), NEW k \in 1..m
    PROVE  Sorted(s)[k] = Sorted(t)[k]
<1>1. PICK u, v : u = Sorted(s)[k] /\ v = Sorted(t)[k]
  OBVIOUS
<1>2. PICK D : D = 1..m
  OBVIOUS
<1>3. IsFiniteSet(D) /\ \A Q \in SUBSET D : IsFiniteSet(Q) /\ Cardinality(Q) \in Nat
  <2>1. IsFiniteSet(1..m)
    BY FS_Interval
  <2>2. QED
    BY <1>2, <2>1, FS_Subset, FS_CardinalityType
<1>4. /\ u \in Int /\ Cardinality({j \in D : s[j] < u}) < k /\ k <= Cardinality({j \in D : s[j] <= u})
      /\ v \in Int /\ Cardinality({j \in D : t[j] < v}) < k /\ k <= Cardinality({j \in D : t[j] <= v})
  BY <1>1, <1>2, SortedIs
<1>5. r \in Bijection(D, D) /\ r \in [D -> D] /\ \A j \in D : t[j] = s[r[j]]
  BY <1>2 DEF Rearranges, Bijection, Injection
<1>6. /\ Cardinality({j \in D : t[j] <= u}) = Cardinality({j \in D : s[j] <= u})
      /\ Cardinality({j \in D : t[j] <= v}) = Cardinality({j \in D : s[j] <= v})
  <2>1. ASSUME NEW x PROVE Cardinality({j \in D : t[j] <= x}) = Cardinality({j \in D : s[j] <= x})
    <3>1. PICK Q \in SUBSET D : Q = {j \in D : s[j] <= x}
      OBVIOUS
    <3>2. {j \in D : t[j] <= x} = {j \in D : r[j] \in Q}
      BY <1>5, <3>1
    <3>3. Cardinality({j \in D : r[j] \in Q}) = Cardinality(Q)
      BY <1>3, <1>5, AsManySent
    <3>4. QED
      BY <3>1, <3>2, <3>3
  <2>2. QED
    BY <2>1
<1>7. ASSUME NEW x \in Int, NEW y \in Int, x < y, NEW f \in [D -> Int]
      PROVE  Cardinality({j \in D : f[j] <= x}) <= Cardinality({j \in D : f[j] < y})
  <2>1. PICK P \in SUBSET D : P = {j \in D : f[j] <= x}
    OBVIOUS
  <2>2. PICK Q \in SUBSET D : Q = {j \in D : f[j] < y}
    OBVIOUS
  <2>3. P \subseteq Q
    <3> SUFFICES ASSUME NEW j \in P PROVE j \in Q
      OBVIOUS
    <3>1. j \in D /\ f[j] \in Int /\ f[j] <= x
      BY <2>1
    <3>2. QED
      BY <1>7, <2>2, <3>1
  <2>4. Cardinality(P) <= Cardinality(Q)
    BY <1>3, <2>3, FS_Subset
  <2>5. QED
    BY <2>1, <2>2, <2>4
<1>8. PICK a1, a2, b1, b2 : /\ a1 = Cardinality({j \in D : s[j] < u}) /\ a2 = Cardinality({j \in D : s[j] <= u})
                            /\ b1 = Cardinality({j \in D : t[j] < v}) /\ b2 = Cardinality({j \in D : t[j] <= v})
  OBVIOUS
<1>9. a1 \in Nat /\ a2 \in Nat /\ b1 \in Nat /\ b2 \in Nat
  <2>1. /\ {j \in D : s[j] < u} \in SUBSET D /\ {j \in D : s[j] <= u} \in SUBSET D
        /\ {j \in D : t[j] < v} \in SUBSET D /\ {j \in D : t[j] <= v} \in SUBSET D
    OBVIOUS
  <2>2. QED
    BY <1>3, <1>8, <2>1
<1>10. a1 < k /\ k <= a2 /\ b1 < k /\ k <= b2
  BY <1>4, <1>8
<1>11. s \in [D -> Int] /\ t \in [D -> Int]
  BY <1>2
<1> SUFFICES u = v
  BY <1>1
<1>12. CASE u < v
  <2>1. a2 <= b1
    BY <1>4, <1>6, <1>7, <1>8, <1>11, <1>12
  <2>2. QED
    BY <1>9, <1>10, <2>1
<1>13. CASE v < u
  <2>1. b2 <= a1
    BY <1>4, <1>6, <1>7, <1>8, <1>11, <1>13
  <2>2. QED
    BY <1>9, <1>10, <2>1
<1>14. QED
  BY <1>4, <1>12, <1>13

\* Twice the median is the sum of the two in the middle.
LEMMA MedianIs ==
    ASSUME NEW m \in Nat \ {0}, NEW s \in [1..m -> Int]
    PROVE  \E i, j \in 1..m :
              /\ i = (m + 1) \div 2 /\ j = m \div 2 + 1
              /\ Sorted(s)[i] \in Int /\ Sorted(s)[j] \in Int
              /\ TwiceMedian(s) = Sorted(s)[i] + Sorted(s)[j]
<1>1. PICK i \in 1..m, j \in 1..m : i = (m + 1) \div 2 /\ j = m \div 2 + 1
  OBVIOUS
<1>2. Sorted(s)[i] \in Int /\ Sorted(s)[j] \in Int
  BY SortedIs
<1>3. Len(s) = m
  OBVIOUS
<1>4. QED
  BY <1>1, <1>2, <1>3 DEF TwiceMedian

\* Nor does it change the median.
LEMMA MedianIsTheSame ==
    ASSUME NEW m \in Nat \ {0}, NEW s \in [1..m -> Int], NEW t \in [1..m -> Int],
           NEW r, Rearranges(r, m, s, t)
    PROVE  TwiceMedian(s) = TwiceMedian(t) /\ TwiceMedian(s) \in Int
<1>1. PICK i \in 1..m, j \in 1..m : /\ i = (m + 1) \div 2 /\ j = m \div 2 + 1
                                    /\ Sorted(s)[i] \in Int /\ Sorted(s)[j] \in Int
                                    /\ TwiceMedian(s) = Sorted(s)[i] + Sorted(s)[j]
  BY MedianIs
<1>2. TwiceMedian(t) = Sorted(t)[i] + Sorted(t)[j]
  BY <1>1, MedianIs
<1>3. Sorted(s)[i] = Sorted(t)[i] /\ Sorted(s)[j] = Sorted(t)[j]
  BY SortedIsTheSame
<1>4. QED
  BY <1>1, <1>2, <1>3

\* A distance is symmetric, and zero only from oneself.
LEMMA DistanceIs ==
    ASSUME NEW x \in Int, NEW y \in Int
    PROVE  /\ Distance(x, y) \in Nat /\ Distance(x, y) = Distance(y, x)
           /\ Distance(x, y) = 0 <=> x = y
BY DEF Distance

Deviations(s, median2) == [i \in DOMAIN s |-> Distance(2 * s[i], median2)]

\* A value stands out among others in whatever order they are.
LEMMA StandsOutTheSame ==
    ASSUME NEW m \in Nat \ {0}, NEW s \in [1..m -> Int], NEW t \in [1..m -> Int],
           NEW r, Rearranges(r, m, s, t), NEW v
    PROVE  StandsOut(v, s) <=> StandsOut(v, t)
<1>1. PICK median2 \in Int : median2 = TwiceMedian(s) /\ median2 = TwiceMedian(t)
  BY MedianIsTheSame
<1>2. PICK p, q : p = Deviations(s, median2) /\ q = Deviations(t, median2)
  OBVIOUS
<1>3. \A i \in 1..m : s[i] \in Int /\ t[i] \in Int /\ r[i] \in 1..m
  BY DEF Rearranges, Bijection, Injection
<1>4. p \in [1..m -> Int] /\ q \in [1..m -> Int]
  <2>1. \A i \in 1..m : 2 * s[i] \in Int /\ 2 * t[i] \in Int
    BY <1>3
  <2>2. \A i \in 1..m : Distance(2 * s[i], median2) \in Int /\ Distance(2 * t[i], median2) \in Int
    <3> SUFFICES ASSUME NEW i \in 1..m
                 PROVE  Distance(2 * s[i], median2) \in Int /\ Distance(2 * t[i], median2) \in Int
      OBVIOUS
    <3>1. PICK x \in Int, y \in Int : x = 2 * s[i] /\ y = 2 * t[i]
      BY <2>1
    <3>2. Distance(x, median2) \in Nat /\ Distance(y, median2) \in Nat
      BY DistanceIs
    <3>3. QED
      BY <3>1, <3>2
  <2>3. QED
    BY <1>2, <2>2 DEF Deviations
<1>5. Rearranges(r, m, p, q)
  BY <1>2, <1>3 DEF Rearranges, Deviations
<1>6. TwiceMedian(p) = TwiceMedian(q)
  BY <1>4, <1>5, MedianIsTheSame
<1>7. StandsOut(v, s) <=> IF TwiceMedian(p) = 0 THEN Distance(2 * v, median2) > 0
                          ELSE 2 * Distance(2 * v, median2) > 6 * TwiceMedian(p)
  BY <1>1, <1>2 DEF StandsOut, Deviations
<1>8. StandsOut(v, t) <=> IF TwiceMedian(q) = 0 THEN Distance(2 * v, median2) > 0
                          ELSE 2 * Distance(2 * v, median2) > 6 * TwiceMedian(q)
  BY <1>1, <1>2 DEF StandsOut, Deviations
<1>9. QED
  BY <1>6, <1>7, <1>8

-----------------------------------------------------------------------------
(* Spikes have no edge.                                                      *)

Others(s, w, first, i) == RemoveAt(SubSeq(s, first, first + w - 1), i - first + 1)

\* part has the k elements of s from low on.
IsPart(part, s, low, k) ==
    Len(part) = k /\ \A j \in 1..k : \A i \in Int : i = low + j - 1 => part[j] = s[i]

IntsAt(s, low, high) == \A i \in low..high : s[i] \in Int

\* What SubSeq takes of a sequence.
LEMMA PartOf ==
    ASSUME NEW s, NEW low \in Int, NEW high \in Int, NEW k \in Nat, k = high - low + 1,
           IntsAt(s, low, high)
    PROVE  SubSeq(s, low, high) \in Seq(Int) /\ IsPart(SubSeq(s, low, high), s, low, k)
<1>1. PICK part : part = SubSeq(s, low, high)
  OBVIOUS
<1>2. /\ part \in Seq(Int) /\ Len(part) = IF low <= high THEN high - low + 1 ELSE 0
      /\ \A j \in 1..(high - low + 1) : part[j] = s[low + j - 1]
  BY <1>1, SubSeqProperties DEF IntsAt
<1>3. \A j \in 1..k : part[j] = s[low + j - 1]
  BY <1>2
<1>4. Len(part) = k
  BY <1>2
<1>5. QED
  BY <1>1, <1>2, <1>3, <1>4 DEF IsPart

\* t has the other points of the window of w from first on than i.
AreOthers(t, s, n, w, first, i) ==
    \A j \in 1..(w - 1), k \in 1..n :
        (first + j <= i /\ k = first + j - 1) \/ (first + j > i /\ k = first + j) => t[j] = s[k]

\* The others of a window, and where they are in it.
LEMMA OthersAre ==
    ASSUME NEW n \in Nat, NEW s \in [1..n -> Int], NEW w \in Nat, w >= 2,
           NEW first \in 1..(n - w + 1), NEW i \in first..(first + w - 1),
           NEW t, t = Others(s, w, first, i)
    PROVE  t \in [1..(w - 1) -> Int] /\ AreOthers(t, s, n, w, first, i)
<1>1. PICK last \in Int : last = first + w - 1 /\ last <= n
  OBVIOUS
<1>2. PICK win : win = SubSeq(s, first, last)
  OBVIOUS
<1>3. IntsAt(s, first, last)
  BY <1>1 DEF IntsAt
<1>4. w = last - first + 1
  BY <1>1
<1>5. win \in Seq(Int) /\ IsPart(win, s, first, w)
  BY <1>2, <1>3, <1>4, PartOf
<1>6. PICK p \in 1..w : p = i - first + 1
  OBVIOUS
<1>7. PICK before \in Nat, after \in Int, rest \in Nat : before = p - 1 /\ after = p + 1 /\ rest = w - p
  OBVIOUS
<1>8. PICK u, v : u = SubSeq(win, 1, before) /\ v = SubSeq(win, after, w)
  OBVIOUS
<1>9. Len(win) = w /\ \A j \in 1..w : win[j] \in Int
  BY <1>5 DEF IsPart
<1>10. u \in Seq(Int) /\ IsPart(u, win, 1, before)
  <2>1. IntsAt(win, 1, before)
    BY <1>7, <1>9 DEF IntsAt
  <2>2. before = before - 1 + 1
    OBVIOUS
  <2>3. QED
    BY <1>8, <2>1, <2>2, PartOf
<1>11. v \in Seq(Int) /\ IsPart(v, win, after, rest)
  <2>1. IntsAt(win, after, w)
    BY <1>7, <1>9 DEF IntsAt
  <2>2. rest = w - after + 1
    BY <1>7
  <2>3. QED
    BY <1>8, <2>1, <2>2, PartOf
<1>12. t = u \o v
  <2>1. win = SubSeq(s, first, first + w - 1) /\ i - first + 1 = p
    BY <1>1, <1>2, <1>6
  <2>2. t = RemoveAt(win, p)
    BY <2>1 DEF Others
  <2>3. QED
    BY <1>7, <1>8, <1>9, <2>2 DEF RemoveAt
<1>13. /\ t \in Seq(Int) /\ Len(t) = before + rest
       /\ \A j \in 1..(before + rest) : t[j] = IF j <= before THEN u[j] ELSE v[j - before]
  <2>1. /\ u \o v \in Seq(Int) /\ Len(u \o v) = Len(u) + Len(v)
        /\ \A j \in 1..(Len(u) + Len(v)) : (u \o v)[j] = IF j <= Len(u) THEN u[j] ELSE v[j - Len(u)]
    <3>1. u \in Seq(Int) /\ v \in Seq(Int)
      BY <1>10, <1>11
    <3>2. QED
      BY <3>1, ConcatProperties
  <2>2. Len(u) = before /\ Len(v) = rest
    BY <1>10, <1>11 DEF IsPart
  <2>3. QED
    BY <1>12, <2>1, <2>2
<1>14. before + rest = w - 1
  BY <1>7
<1>15. ASSUME NEW j \in 1..(w - 1), NEW k \in 1..n, first + j <= i, k = first + j - 1
       PROVE  t[j] = s[k]
  <2>1. j \in 1..before /\ j \in 1..w /\ j = 1 + j - 1 /\ j <= before
    BY <1>1, <1>6, <1>7, <1>15
  <2>2. t[j] = u[j]
    BY <1>13, <1>14, <2>1
  <2>3. u[j] = win[j]
    BY <1>10, <2>1 DEF IsPart
  <2>4. win[j] = s[k]
    BY <1>5, <1>15, <2>1 DEF IsPart
  <2>5. QED
    BY <2>2, <2>3, <2>4
<1>16. ASSUME NEW j \in 1..(w - 1), NEW k \in 1..n, first + j > i, k = first + j
       PROVE  t[j] = s[k]
  <2>1. PICK l \in 1..rest, x \in after..w : l = j - before /\ x = j + 1 /\ x = after + l - 1 /\ ~(j <= before)
    BY <1>6, <1>7, <1>16
  <2>2. x \in 1..w /\ k = first + x - 1
    BY <1>1, <1>7, <1>16, <2>1
  <2>3. t[j] = v[l]
    BY <1>13, <1>14, <2>1
  <2>4. v[l] = win[x]
    BY <1>11, <2>1 DEF IsPart
  <2>5. win[x] = s[k]
    BY <1>5, <2>2 DEF IsPart
  <2>6. QED
    BY <2>3, <2>4, <2>5
<1>17. t \in [1..(w - 1) -> Int]
  BY <1>13, <1>14
<1>18. QED
  BY <1>15, <1>16, <1>17 DEF AreOthers

\* A window from the last point on has the same others, from the last on.
LEMMA OthersReversed ==
    ASSUME NEW n \in Nat, NEW s \in [1..n -> Int], NEW back, back = [i \in 1..n |-> s[n + 1 - i]],
           NEW w \in Nat, w >= 2, NEW first \in 1..(n - w + 1), NEW i \in first..(first + w - 1),
           NEW start, start = n - w + 2 - first, NEW k, k = n + 1 - i
    PROVE  /\ start \in 1..(n - w + 1) /\ k \in start..(start + w - 1)
           /\ \E r : Rearranges(r, w - 1, Others(s, w, first, i), Others(back, w, start, k))
<1>1. start \in 1..(n - w + 1) /\ k \in start..(start + w - 1)
  OBVIOUS
<1>2. back \in [1..n -> Int]
  OBVIOUS
<1>3. PICK m \in Nat \ {0} : m = w - 1
  OBVIOUS
<1>4. PICK t, u : t = Others(s, w, first, i) /\ u = Others(back, w, start, k)
  OBVIOUS
<1>5. \A j \in 1..m, x \in 1..n :
         (first + j <= i /\ x = first + j - 1) \/ (first + j > i /\ x = first + j) => t[j] = s[x]
  <2>1. AreOthers(t, s, n, w, first, i)
    BY <1>4, OthersAre
  <2>2. QED
    BY <1>3, <2>1 DEF AreOthers
<1>6. \A j \in 1..m, x \in 1..n :
         (start + j <= k /\ x = start + j - 1) \/ (start + j > k /\ x = start + j) => u[j] = back[x]
  <2>1. AreOthers(u, back, n, w, start, k)
    BY <1>1, <1>2, <1>4, OthersAre
  <2>2. QED
    BY <1>3, <2>1 DEF AreOthers
<1>7. PICK r : r = [j \in 1..m |-> m + 1 - j]
  OBVIOUS
<1>8. \A j \in 1..m : r[j] \in 1..m /\ r[j] = m + 1 - j /\ r[r[j]] = j
  BY <1>7
<1>9. r \in Bijection(1..m, 1..m)
  <2>1. r \in [1..m -> 1..m]
    BY <1>7
  <2>2. \A j, l \in 1..m : r[j] = r[l] => j = l
    BY <1>8
  <2>3. QED
    BY <1>8, <2>1, <2>2 DEF Bijection, Injection, Surjection, IsInjective
<1>10. ASSUME NEW j \in 1..m PROVE u[j] = t[r[j]]
  <2>1. PICK l \in 1..m : l = r[j] /\ l = m + 1 - j
    BY <1>8
  <2>2. CASE start + j <= k
    <3>1. PICK x \in 1..n, y \in 1..n : x = start + j - 1 /\ y = first + l /\ first + l > i /\ n + 1 - x = y
      BY <1>3, <2>1, <2>2
    <3>2. u[j] = back[x] /\ t[l] = s[y]
      BY <1>5, <1>6, <2>2, <3>1
    <3>3. back[x] = s[y]
      BY <3>1
    <3>4. QED
      BY <2>1, <3>2, <3>3
  <2>3. CASE start + j > k
    <3>1. PICK x \in 1..n, y \in 1..n :
             x = start + j /\ y = first + l - 1 /\ first + l <= i /\ n + 1 - x = y
      BY <1>3, <2>1, <2>3
    <3>2. u[j] = back[x] /\ t[l] = s[y]
      BY <1>5, <1>6, <2>3, <3>1
    <3>3. back[x] = s[y]
      BY <3>1
    <3>4. QED
      BY <2>1, <3>2, <3>3
  <2>4. QED
    BY <2>2, <2>3
<1>11. Rearranges(r, w - 1, t, u)
  BY <1>3, <1>9, <1>10 DEF Rearranges
<1>12. QED
  BY <1>1, <1>4, <1>11

\* The point i is a spike of its window from first on.
IsSpike(s, w, first, i) ==
    /\ first \in 1..(Len(s) - w + 1) /\ i \in first..(first + w - 1)
    /\ StandsOut(s[i], Others(s, w, first, i))

\* A spike is what stands out in some window.
LEMMA SpikesAre ==
    ASSUME NEW s, NEW w
    PROVE  SpikesIn(s, w) = {i \in DOMAIN s : \E first : IsSpike(s, w, first, i)}
BY DEF SpikesIn, IsSpike, WindowStarts, Others

\* A spike is one in the mirrored window too.
LEMMA SpikeReversed ==
    ASSUME NEW n \in Nat, NEW s \in [1..n -> Int], NEW back, back = [i \in 1..n |-> s[n + 1 - i]],
           NEW w \in Nat, w >= 2, NEW first, NEW i \in 1..n, IsSpike(s, w, first, i)
    PROVE  IsSpike(back, w, n - w + 2 - first, n + 1 - i)
<1>1. Len(s) = n /\ Len(back) = n /\ back \in [1..n -> Int]
  OBVIOUS
<1>2. first \in 1..(n - w + 1) /\ i \in first..(first + w - 1) /\ StandsOut(s[i], Others(s, w, first, i))
  BY <1>1 DEF IsSpike
<1>3. PICK start, k : start = n - w + 2 - first /\ k = n + 1 - i
  OBVIOUS
<1>4. /\ start \in 1..(n - w + 1) /\ k \in start..(start + w - 1)
      /\ \E r : Rearranges(r, w - 1, Others(s, w, first, i), Others(back, w, start, k))
  BY <1>2, <1>3, OthersReversed
<1>5. PICK r : Rearranges(r, w - 1, Others(s, w, first, i), Others(back, w, start, k))
  BY <1>4
<1>6. PICK m \in Nat \ {0} : m = w - 1
  OBVIOUS
<1>7. Others(s, w, first, i) \in [1..m -> Int]
  BY <1>2, <1>6, OthersAre
<1>8. Others(back, w, start, k) \in [1..m -> Int]
  BY <1>1, <1>4, <1>6, OthersAre
<1>9. StandsOut(s[i], Others(back, w, start, k))
  BY <1>2, <1>5, <1>6, <1>7, <1>8, StandsOutTheSame
<1>10. back[k] = s[i]
  BY <1>3
<1>11. QED
  BY <1>1, <1>3, <1>4, <1>9, <1>10 DEF IsSpike

\* The series read backwards has the mirrored spikes.
LEMMA SpikesAreMirrored ==
    ASSUME NEW n \in Nat, NEW s \in [1..n -> Int], NEW w \in Nat, w >= 2
    PROVE  SpikesIn(Reverse(s), w) = {n + 1 - i : i \in SpikesIn(s, w)}
<1>1. PICK back : back = [i \in 1..n |-> s[n + 1 - i]]
  OBVIOUS
<1>2. Reverse(s) = back
  <2>1. Len(s) = n
    OBVIOUS
  <2>2. \A i \in 1..n : n + 1 - i = (n - i) + 1
    OBVIOUS
  <2>3. QED
    BY <1>1, <2>1, <2>2 DEF Reverse
<1>3. back \in [1..n -> Int] /\ s = [i \in 1..n |-> back[n + 1 - i]]
  BY <1>1
<1>4. \A i : i \in SpikesIn(s, w) <=> i \in 1..n /\ \E first : IsSpike(s, w, first, i)
  BY SpikesAre
<1>5. \A i : i \in SpikesIn(back, w) <=> i \in 1..n /\ \E first : IsSpike(back, w, first, i)
  BY <1>3, SpikesAre
<1>6. ASSUME NEW i \in SpikesIn(s, w) PROVE n + 1 - i \in SpikesIn(back, w)
  <2>1. PICK first : i \in 1..n /\ IsSpike(s, w, first, i)
    BY <1>4, <1>6
  <2>2. n + 1 - i \in 1..n
    BY <2>1
  <2>3. IsSpike(back, w, n - w + 2 - first, n + 1 - i)
    BY <1>1, <2>1, SpikeReversed
  <2>4. QED
    BY <1>5, <2>2, <2>3
<1>7. ASSUME NEW i \in SpikesIn(back, w) PROVE \E j \in SpikesIn(s, w) : i = n + 1 - j
  <2>1. PICK first : i \in 1..n /\ IsSpike(back, w, first, i)
    BY <1>5, <1>7
  <2>2. PICK j \in 1..n : j = n + 1 - i /\ i = n + 1 - j
    BY <2>1
  <2>3. IsSpike(s, w, n - w + 2 - first, j)
    BY <1>3, <2>1, <2>2, SpikeReversed
  <2>4. QED
    BY <1>4, <2>2, <2>3
<1>8. QED
  BY <1>2, <1>6, <1>7

Agree(t, m, Q, x) == \A j \in (1..m) \ Q : t[j] = x

\* Where only the values at Q differ from x, those in the middle are x.
LEMMA MiddleIsCommon ==
    ASSUME NEW m \in Nat, NEW t \in [1..m -> Int], NEW x \in Int, NEW Q \in SUBSET (1..m),
           Agree(t, m, Q, x),
           NEW k \in 1..m, Cardinality(Q) < k, k <= m - Cardinality(Q)
    PROVE  Sorted(t)[k] = x
<1>1. PICK v : v = Sorted(t)[k]
  OBVIOUS
<1>2. PICK D : D = 1..m
  OBVIOUS
<1>3. IsFiniteSet(D) /\ Cardinality(D) = m
  <2>1. IsFiniteSet(1..m) /\ Cardinality(1..m) = m
    BY FS_Interval
  <2>2. QED
    BY <1>2, <2>1
<1>4. \A P \in SUBSET D : IsFiniteSet(P) /\ Cardinality(P) \in Nat
  BY <1>3, FS_Subset, FS_CardinalityType
<1>5. PICK low, upto : low = {j \in D : t[j] < v} /\ upto = {j \in D : t[j] <= v}
  OBVIOUS
<1>6. v \in Int /\ Cardinality(low) < k /\ k <= Cardinality(upto)
  BY <1>1, <1>2, <1>5, SortedIs
<1>7. low \in SUBSET D /\ upto \in SUBSET D /\ Q \in SUBSET D
  BY <1>2, <1>5
<1>8. Cardinality(low) \in Nat /\ Cardinality(upto) \in Nat /\ Cardinality(Q) \in Nat
  BY <1>4, <1>7
<1> SUFFICES v = x
  BY <1>1
<1>9. CASE v < x
  <2>1. upto \subseteq Q
    <3> SUFFICES ASSUME NEW j \in upto, j \notin Q PROVE FALSE
      OBVIOUS
    <3>1. t[j] = x /\ t[j] <= v
      BY <1>2, <1>5 DEF Agree
    <3>2. QED
      BY <1>6, <1>9, <3>1
  <2>2. Cardinality(upto) <= Cardinality(Q)
    BY <1>4, <1>7, <2>1, FS_Subset
  <2>3. QED
    BY <1>6, <1>8, <2>2
<1>10. CASE x < v
  <2>1. D \ Q \subseteq low
    <3> SUFFICES ASSUME NEW j \in D \ Q PROVE j \in low
      OBVIOUS
    <3>1. t[j] = x
      BY <1>2 DEF Agree
    <3>2. QED
      BY <1>5, <1>10, <3>1
  <2>2. Cardinality(D \ Q) = m - Cardinality(Q)
    <3>1. Cardinality(D \ Q) = Cardinality(D) - Cardinality(D \cap Q)
      BY <1>3, <1>4, <1>7, FS_Difference
    <3>2. D \cap Q = Q
      BY <1>7
    <3>3. QED
      BY <1>3, <3>1, <3>2
  <2>3. Cardinality(D \ Q) <= Cardinality(low)
    BY <1>4, <1>7, <2>1, FS_Subset
  <2>4. QED
    BY <1>6, <1>8, <2>2, <2>3
<1>11. QED
  BY <1>6, <1>9, <1>10

\* So few differ that the median does not see them.
Few(few, m) == (few = 0 /\ m >= 1) \/ (few = 1 /\ m >= 3)

\* The median of values of which few differ is the common one.
LEMMA MedianIsCommon ==
    ASSUME NEW m \in Nat, NEW t \in [1..m -> Int], NEW x \in Int, NEW Q \in SUBSET (1..m),
           Agree(t, m, Q, x), Few(Cardinality(Q), m)
    PROVE  TwiceMedian(t) = 2 * x
<1>1. PICK few \in Nat : few = Cardinality(Q) /\ Few(few, m)
  BY DEF Few
<1>2. m \in Nat \ {0}
  BY <1>1 DEF Few
<1>3. PICK i \in 1..m, j \in 1..m : /\ i = (m + 1) \div 2 /\ j = m \div 2 + 1
                                    /\ TwiceMedian(t) = Sorted(t)[i] + Sorted(t)[j]
  BY <1>2, MedianIs
<1>4. few < i /\ i <= m - few /\ few < j /\ j <= m - few
  BY <1>1, <1>3 DEF Few
<1>5. Cardinality(Q) < i /\ i <= m - Cardinality(Q) /\ Cardinality(Q) < j /\ j <= m - Cardinality(Q)
  BY <1>1, <1>4
<1>6. Sorted(t)[i] = x /\ Sorted(t)[j] = x
  BY <1>5, MiddleIsCommon
<1>7. QED
  BY <1>3, <1>6

\* Among values that but for a few are x, anything else stands out and x does not.
LEMMA OnlyOtherStandsOut ==
    ASSUME NEW m \in Nat, NEW t \in [1..m -> Int], NEW x \in Int, NEW Q \in SUBSET (1..m),
           Agree(t, m, Q, x), Few(Cardinality(Q), m), NEW v \in Int
    PROVE  StandsOut(v, t) <=> v # x
<1>1. PICK y \in Int : y = 2 * x
  OBVIOUS
<1>2. TwiceMedian(t) = y
  BY <1>1, MedianIsCommon
<1>3. PICK p : p = Deviations(t, y)
  OBVIOUS
<1>4. \A j \in 1..m : t[j] \in Int
  OBVIOUS
<1>5. p \in [1..m -> Int]
  <2>1. \A j \in 1..m : Distance(2 * t[j], y) \in Int
    <3> SUFFICES ASSUME NEW j \in 1..m PROVE Distance(2 * t[j], y) \in Int
      OBVIOUS
    <3>1. PICK z \in Int : z = 2 * t[j]
      BY <1>4
    <3>2. QED
      BY <3>1, DistanceIs
  <2>2. QED
    BY <1>3, <2>1 DEF Deviations
<1>6. Agree(p, m, Q, 0)
  <2> SUFFICES ASSUME NEW j \in (1..m) \ Q PROVE p[j] = 0
    BY DEF Agree
  <2>1. p[j] = Distance(2 * t[j], y) /\ 2 * t[j] = y
    BY <1>1, <1>3 DEF Deviations, Agree
  <2>2. QED
    BY <2>1, DistanceIs
<1>7. TwiceMedian(p) = 2 * 0
  BY <1>5, <1>6, MedianIsCommon
<1>8. StandsOut(v, t) <=> Distance(2 * v, y) > 0
  BY <1>2, <1>3, <1>7 DEF StandsOut, Deviations
<1>9. PICK z \in Int : z = 2 * v
  OBVIOUS
<1>10. Distance(z, y) \in Nat /\ (Distance(z, y) = 0 <=> z = y)
  BY DistanceIs
<1>11. z = y <=> v = x
  BY <1>1, <1>9
<1>12. QED
  BY <1>8, <1>9, <1>10, <1>11

\* Neither of two values stands out among the two.
LEMMA MedianOfTwo ==
    ASSUME NEW t \in [1..2 -> Int]
    PROVE  TwiceMedian(t) = t[1] + t[2]
<1>1. PICK D : D = 1..2
  OBVIOUS
<1>2. D \in SUBSET Int /\ IsFiniteSet(D) /\ t \in [D -> Int] /\ Cardinality(D) = 2
  <2>1. IsFiniteSet(1..2) /\ Cardinality(1..2) = 2
    <3>1. PICK two \in Nat : two = 2
      OBVIOUS
    <3>2. IsFiniteSet(1..two) /\ Cardinality(1..two) = two
      BY FS_Interval
    <3>3. QED
      BY <3>1, <3>2
  <2>2. QED
    BY <1>1, <2>1
<1>3. PICK order : order = ByKey(t)
  OBVIOUS
<1>4. order \in [1..2 -> D] /\ \A i \in D : \E k \in 1..2 : order[k] = i
  BY <1>2, <1>3, SortedByKey
<1>5. (order[1] = 1 /\ order[2] = 2) \/ (order[1] = 2 /\ order[2] = 1)
  BY <1>1, <1>4
<1>6. Sorted(t)[1] = t[order[1]] /\ Sorted(t)[2] = t[order[2]]
  BY <1>3, <1>4 DEF Sorted
<1>7. TwiceMedian(t) = Sorted(t)[1] + Sorted(t)[2]
  <2>1. PICK two \in Nat \ {0} : two = 2
    OBVIOUS
  <2>2. t \in [1..two -> Int]
    BY <2>1
  <2>3. PICK i \in 1..two, j \in 1..two : /\ i = (two + 1) \div 2 /\ j = two \div 2 + 1
                                          /\ TwiceMedian(t) = Sorted(t)[i] + Sorted(t)[j]
    BY <2>2, MedianIs
  <2>4. i = 1 /\ j = 2
    BY <2>1, <2>3
  <2>5. QED
    BY <2>3, <2>4
<1>8. t[1] \in Int /\ t[2] \in Int
  OBVIOUS
<1>9. QED
  BY <1>5, <1>6, <1>7, <1>8

\* Of two values neither stands out from both.
LEMMA NoneOfTwoStandsOut ==
    ASSUME NEW t \in [1..2 -> Int], NEW k \in 1..2
    PROVE  ~StandsOut(t[k], t)
<1>1. PICK x \in Int, y \in Int : x = t[1] /\ y = t[2]
  OBVIOUS
<1>2. TwiceMedian(t) = x + y
  BY <1>1, MedianOfTwo
<1>3. PICK p : p = Deviations(t, x + y)
  OBVIOUS
<1>4. PICK d \in Nat : d = Distance(2 * x, x + y) /\ d = Distance(2 * y, x + y)
  <2>1. CASE x < y
    <3>1. 2 * x < x + y /\ ~(2 * y < x + y) /\ y - x \in Nat
      BY <2>1
    <3>2. Distance(2 * x, x + y) = x + y - 2 * x /\ Distance(2 * y, x + y) = 2 * y - (x + y)
      BY <3>1 DEF Distance
    <3>3. x + y - 2 * x = y - x /\ 2 * y - (x + y) = y - x
      OBVIOUS
    <3>4. QED
      BY <3>1, <3>2, <3>3
  <2>2. CASE x >= y
    <3>1. ~(2 * x < x + y) /\ x - y \in Nat
      BY <2>2
    <3>2. 2 * x - (x + y) = x - y
      OBVIOUS
    <3>3. Distance(2 * x, x + y) = x - y
      BY <3>1, <3>2 DEF Distance
    <3>4. Distance(2 * y, x + y) = x - y
      BY <2>2 DEF Distance
    <3>5. QED
      BY <3>1, <3>3, <3>4
  <2>3. QED
    BY <2>1, <2>2
<1>5. DOMAIN p = 1..2 /\ p[1] = d /\ p[2] = d
  BY <1>1, <1>3, <1>4 DEF Deviations
<1>6. p \in [1..2 -> Int]
  BY <1>3, <1>5 DEF Deviations
<1>7. TwiceMedian(p) = d + d
  BY <1>5, <1>6, MedianOfTwo
<1>8. Distance(2 * t[k], x + y) = d
  BY <1>1, <1>4
<1>9. StandsOut(t[k], t) <=> IF d + d = 0 THEN d > 0 ELSE 2 * d > 6 * (d + d)
  BY <1>2, <1>3, <1>7, <1>8 DEF StandsOut, Deviations
<1>10. QED
  BY <1>9

Places(at, t, s, i, m) ==
    /\ \A j \in 1..m : t[j] = s[at[j]] /\ at[j] # i
    /\ \A j, k \in 1..m : at[j] = at[k] => j = k

\* The point of the series that the j-th of the others is.
LEMMA WhichOther ==
    ASSUME NEW n \in Nat, NEW w \in Nat, NEW s, NEW t, NEW first \in 1..(n - w + 1), NEW i \in Int,
           AreOthers(t, s, n, w, first, i)
    PROVE  \E at \in [1..(w - 1) -> 1..n] : Places(at, t, s, i, w - 1)
<1>1. PICK at : at = [j \in 1..(w - 1) |-> IF first + j <= i THEN first + j - 1 ELSE first + j]
  OBVIOUS
<1>2. at \in [1..(w - 1) -> 1..n]
  BY <1>1
<1>3. ASSUME NEW j \in 1..(w - 1) PROVE t[j] = s[at[j]] /\ at[j] # i
  <2>1. PICK k \in 1..n : k = at[j]
    BY <1>2
  <2>2. (first + j <= i /\ k = first + j - 1) \/ (first + j > i /\ k = first + j)
    BY <1>1, <2>1
  <2>3. QED
    BY <2>1, <2>2 DEF AreOthers
<1>4. ASSUME NEW j \in 1..(w - 1), NEW k \in 1..(w - 1), at[j] = at[k] PROVE j = k
  BY <1>1, <1>4
<1>5. QED
  BY <1>2, <1>3, <1>4 DEF Places

\* One value among equal ones is found and nothing else.
LEMMA AloneIsFound ==
    ASSUME NEW n \in Nat, NEW s \in [1..n -> Int], NEW w \in Nat, w >= 3, w <= n,
           NEW alone \in 1..n, NEW x \in Int, s[alone] # x, \A j \in (1..n) \ {alone} : s[j] = x
    PROVE  SpikesIn(s, w) = {alone}
<1>1. Len(s) = n /\ DOMAIN s = 1..n /\ s[alone] \in Int
  OBVIOUS
<1>2. \A i : i \in SpikesIn(s, w) <=> i \in 1..n /\ \E first : IsSpike(s, w, first, i)
  BY <1>1, SpikesAre
<1>3. PICK m \in Nat : m = w - 1 /\ m >= 2
  OBVIOUS
<1>4. \E first : IsSpike(s, w, first, alone)
  <2>1. PICK first \in 1..(n - w + 1) : alone \in first..(first + w - 1)
    <3>1. CASE alone <= n - w + 1
      <4>1. alone \in 1..(n - w + 1) /\ alone \in alone..(alone + w - 1)
        BY <3>1
      <4>2. QED
        BY <4>1
    <3>2. CASE alone > n - w + 1
      <4>1. n - w + 1 \in 1..(n - w + 1) /\ alone \in (n - w + 1)..(n - w + 1 + w - 1)
        BY <3>2
      <4>2. QED
        BY <4>1
    <3>3. QED
      BY <3>1, <3>2
  <2>2. PICK t : t = Others(s, w, first, alone)
    OBVIOUS
  <2>3. t \in [1..m -> Int] /\ AreOthers(t, s, n, w, first, alone)
    <3>1. w >= 2
      OBVIOUS
    <3>2. t \in [1..(w - 1) -> Int] /\ AreOthers(t, s, n, w, first, alone)
      BY <2>1, <2>2, <3>1, OthersAre
    <3>3. QED
      BY <1>3, <3>2
  <2>4. PICK at \in [1..m -> 1..n] : \A j \in 1..m : t[j] = s[at[j]] /\ at[j] # alone
    <3>1. alone \in Int
      OBVIOUS
    <3>2. \E at \in [1..(w - 1) -> 1..n] : Places(at, t, s, alone, w - 1)
      BY <2>3, <3>1, WhichOther
    <3>3. QED
      BY <1>3, <3>2 DEF Places
  <2>5. \A j \in 1..m : t[j] = x
    BY <2>4
  <2>6. Few(Cardinality({}), m)
    BY <1>3, FS_EmptySet DEF Few
  <2>7. {} \in SUBSET (1..m) /\ Agree(t, m, {}, x)
    BY <2>5 DEF Agree
  <2>8. StandsOut(s[alone], t)
    BY <1>1, <2>3, <2>6, <2>7, OnlyOtherStandsOut
  <2>9. QED
    BY <1>1, <2>1, <2>2, <2>8 DEF IsSpike
<1>5. ASSUME NEW i \in 1..n, i # alone, NEW first, IsSpike(s, w, first, i) PROVE FALSE
  <2>1. first \in 1..(n - w + 1) /\ i \in first..(first + w - 1)
    BY <1>1, <1>5 DEF IsSpike
  <2>2. PICK t : t = Others(s, w, first, i)
    OBVIOUS
  <2>3. t \in [1..m -> Int] /\ AreOthers(t, s, n, w, first, i)
    BY <1>3, <2>1, <2>2, OthersAre
  <2>4. PICK at \in [1..m -> 1..n] : /\ \A j \in 1..m : t[j] = s[at[j]]
                                     /\ \A j, k \in 1..m : at[j] = at[k] => j = k
    <3>1. i \in Int
      OBVIOUS
    <3>2. \E at \in [1..(w - 1) -> 1..n] : Places(at, t, s, i, w - 1)
      BY <2>1, <2>3, <3>1, WhichOther
    <3>3. QED
      BY <1>3, <3>2 DEF Places
  <2>5. StandsOut(x, t)
    BY <1>1, <1>5, <2>2 DEF IsSpike
  <2>6. PICK Q \in SUBSET (1..m) : Q = {j \in 1..m : at[j] = alone}
    OBVIOUS
  <2>7. Agree(t, m, Q, x)
    BY <2>4, <2>6 DEF Agree
  <2>8. CASE Q = {}
    <3>1. Few(Cardinality(Q), m)
      BY <1>3, <2>8, FS_EmptySet DEF Few
    <3>2. QED
      BY <2>3, <2>5, <2>7, <3>1, OnlyOtherStandsOut
  <2>9. CASE Q # {}
    <3>1. PICK q \in 1..m : Q = {q}
      <4>1. PICK q \in Q : TRUE
        BY <2>9
      <4>2. \A j \in Q : j = q
        BY <2>4, <2>6, <4>1
      <4>3. Q = {q}
        BY <4>1, <4>2
      <4>4. QED
        BY <4>1, <4>3
    <3>2. Cardinality(Q) = 1
      BY <3>1, FS_Singleton
    <3>3. CASE m >= 3
      <4>1. Few(Cardinality(Q), m)
        BY <3>2, <3>3 DEF Few
      <4>2. QED
        BY <2>3, <2>5, <2>7, <4>1, OnlyOtherStandsOut
    <3>4. CASE m = 2
      <4>1. PICK k \in 1..2 : k \notin Q
        BY <3>1
      <4>2. t[k] = x
        BY <2>7, <3>4, <4>1 DEF Agree
      <4>3. t \in [1..2 -> Int]
        BY <2>3, <3>4
      <4>4. QED
        BY <2>5, <4>2, <4>3, NoneOfTwoStandsOut
    <3>5. QED
      BY <1>3, <3>3, <3>4
  <2>10. QED
    BY <2>8, <2>9
<1>6. QED
  BY <1>2, <1>4, <1>5

\* A spike is one wherever it is, at the edges of the series as in its middle
\* (detect_sliding_mad_spikes).
THEOREM SpikesAreEverywhere ==
    \A n, w \in Nat : \A s \in [1..n -> Int] : w >= 3 => SpikesHaveNoEdge(s, w)
<1> SUFFICES ASSUME NEW n \in Nat, NEW w \in Nat, w >= 3, NEW s \in [1..n -> Int]
             PROVE  SpikesHaveNoEdge(s, w)
  OBVIOUS
<1>1. Len(s) = n /\ DOMAIN s = 1..n
  OBVIOUS
<1>2. SpikesIn(Reverse(s), w) = {n + 1 - i : i \in SpikesIn(s, w)}
  BY SpikesAreMirrored
<1>3. PICK alone : alone = {i \in 1..n : \A j, k \in (1..n) \ {i} : s[j] = s[k] /\ s[i] # s[j]}
  OBVIOUS
<1>4. ASSUME n >= w, Cardinality(alone) = 1 PROVE SpikesIn(s, w) = alone
  <2>1. IsFiniteSet(alone)
    <3>1. IsFiniteSet(1..n) /\ alone \in SUBSET (1..n)
      BY <1>3, FS_Interval
    <3>2. QED
      BY <3>1, FS_Subset
  <2>2. PICK i : alone = {i}
    BY <1>4, <2>1, FS_Singleton
  <2>3. i \in 1..n /\ \A j, k \in (1..n) \ {i} : s[j] = s[k] /\ s[i] # s[j]
    BY <1>3, <2>2
  <2>4. PICK k \in (1..n) \ {i} : TRUE
    <3>1. 1 \in 1..n /\ 2 \in 1..n
      BY <1>4
    <3>2. QED
      BY <3>1
  <2>5. s[k] \in Int /\ s[i] # s[k] /\ \A j \in (1..n) \ {i} : s[j] = s[k]
    BY <2>3, <2>4
  <2>6. QED
    BY <1>4, <2>2, <2>3, <2>5, AloneIsFound
<1>5. QED
  BY <1>1, <1>2, <1>3, <1>4 DEF SpikesHaveNoEdge

-----------------------------------------------------------------------------
(* The points of all nodes.                                                  *)

\* flat has the elements of the first k of seqs; the p-th is one of the at[p]-th, at pl[p].
Flattens(flat, at, pl, seqs, k) ==
    /\ \A p \in 1..Len(flat) : /\ at[p] \in 1..k /\ pl[p] \in 1..Len(seqs[at[p]])
                               /\ flat[p] = seqs[at[p]][pl[p]]
    /\ \A p, q \in 1..Len(flat) : at[p] = at[q] /\ pl[p] = pl[q] => p = q
    /\ \A i \in 1..k : \A j \in 1..Len(seqs[i]) : \E p \in 1..Len(flat) : at[p] = i /\ pl[p] = j

\* One more sequence behind the first k.
LEMMA OneMore ==
    ASSUME NEW S, NEW seqs, NEW k \in Nat, \A i \in 1..(k + 1) : seqs[i] \in Seq(S),
           NEW flat \in Seq(S), NEW at, NEW pl, Flattens(flat, at, pl, seqs, k),
           NEW next, next = flat \o seqs[k + 1]
    PROVE  \E on, po : Flattens(next, on, po, seqs, k + 1)
<1>1. PICK i : i = k + 1
  OBVIOUS
<1>2. i \in 1..(k + 1) /\ seqs[i] \in Seq(S) /\ i \notin 1..k
  BY <1>1
<1>3. PICK N \in Nat, M \in Nat : N = Len(flat) /\ M = Len(seqs[i])
  BY <1>2
<1>4. /\ next \in Seq(S) /\ Len(next) = N + M
      /\ \A p \in 1..(N + M) : next[p] = IF p <= N THEN flat[p] ELSE seqs[i][p - N]
  <2>1. /\ flat \o seqs[i] \in Seq(S) /\ Len(flat \o seqs[i]) = Len(flat) + Len(seqs[i])
        /\ \A p \in 1..(Len(flat) + Len(seqs[i])) :
              (flat \o seqs[i])[p] = IF p <= Len(flat) THEN flat[p] ELSE seqs[i][p - Len(flat)]
    BY <1>2, ConcatProperties
  <2>2. QED
    BY <1>1, <1>3, <2>1
<1>5. PICK on, po : /\ on = [p \in 1..(N + M) |-> IF p <= N THEN at[p] ELSE i]
                    /\ po = [p \in 1..(N + M) |-> IF p <= N THEN pl[p] ELSE p - N]
  OBVIOUS
<1>6. ASSUME NEW p \in 1..N
      PROVE  /\ p \in 1..(N + M) /\ on[p] = at[p] /\ po[p] = pl[p] /\ next[p] = flat[p]
             /\ on[p] \in 1..k /\ po[p] \in 1..Len(seqs[on[p]]) /\ next[p] = seqs[on[p]][po[p]]
  <2>1. p \in 1..(N + M) /\ p <= N
    OBVIOUS
  <2>2. on[p] = at[p] /\ po[p] = pl[p] /\ next[p] = flat[p]
    BY <1>4, <1>5, <2>1
  <2>3. at[p] \in 1..k /\ pl[p] \in 1..Len(seqs[at[p]]) /\ flat[p] = seqs[at[p]][pl[p]]
    BY <1>3 DEF Flattens
  <2>4. QED
    BY <2>1, <2>2, <2>3
<1>7. ASSUME NEW p \in (N + 1)..(N + M)
      PROVE  on[p] = i /\ po[p] = p - N /\ po[p] \in 1..M /\ next[p] = seqs[i][po[p]]
  <2>1. p \in 1..(N + M) /\ ~(p <= N) /\ p - N \in 1..M
    OBVIOUS
  <2>2. on[p] = i /\ po[p] = p - N
    BY <1>5, <2>1
  <2>3. next[p] = seqs[i][p - N]
    BY <1>4, <2>1
  <2>4. QED
    BY <2>1, <2>2, <2>3
<1>8. ASSUME NEW p \in 1..(N + M)
      PROVE  /\ on[p] \in 1..(k + 1) /\ po[p] \in 1..Len(seqs[on[p]])
             /\ next[p] = seqs[on[p]][po[p]]
  <2>1. CASE p \in 1..N
    <3>1. 1..k \subseteq 1..(k + 1)
      OBVIOUS
    <3>2. QED
      BY <1>6, <2>1, <3>1
  <2>2. CASE p \in (N + 1)..(N + M)
    BY <1>2, <1>3, <1>7, <2>2
  <2>3. p \in 1..N \/ p \in (N + 1)..(N + M)
    OBVIOUS
  <2>4. QED
    BY <2>1, <2>2, <2>3
<1>9. ASSUME NEW p \in 1..(N + M), NEW q \in 1..(N + M), on[p] = on[q], po[p] = po[q]
      PROVE  p = q
  <2>1. CASE p \in 1..N /\ q \in 1..N
    <3>1. at[p] = at[q] /\ pl[p] = pl[q]
      BY <1>6, <1>9, <2>1
    <3>2. QED
      BY <1>3, <2>1, <3>1 DEF Flattens
  <2>2. CASE p \in (N + 1)..(N + M) /\ q \in (N + 1)..(N + M)
    <3>1. p - N = q - N
      BY <1>7, <1>9, <2>2
    <3>2. QED
      BY <3>1
  <2>3. CASE p \in 1..N /\ q \in (N + 1)..(N + M)
    <3>1. on[p] \in 1..k /\ on[q] = i
      BY <1>6, <1>7, <2>3
    <3>2. QED
      BY <1>2, <1>9, <3>1
  <2>4. CASE q \in 1..N /\ p \in (N + 1)..(N + M)
    <3>1. on[q] \in 1..k /\ on[p] = i
      BY <1>6, <1>7, <2>4
    <3>2. QED
      BY <1>2, <1>9, <3>1
  <2>5. QED
    BY <2>1, <2>2, <2>3, <2>4
<1>10. ASSUME NEW l \in 1..(k + 1), NEW j \in 1..Len(seqs[l])
       PROVE  \E p \in 1..(N + M) : on[p] = l /\ po[p] = j
  <2>1. CASE l \in 1..k
    <3>1. PICK p \in 1..N : at[p] = l /\ pl[p] = j
      BY <1>3, <2>1 DEF Flattens
    <3>2. QED
      BY <1>6, <3>1
  <2>2. CASE l = i
    <3>1. PICK p \in (N + 1)..(N + M) : p - N = j
      <4>1. j \in 1..M
        BY <1>3, <2>2
      <4>2. N + j \in (N + 1)..(N + M) /\ N + j - N = j
        BY <4>1
      <4>3. QED
        BY <4>2
    <3>2. QED
      BY <1>7, <2>2, <3>1
  <2>3. QED
    BY <1>1, <2>1, <2>2
<1>11. Flattens(next, on, po, seqs, k + 1)
  <2>1. Len(next) = N + M
    BY <1>4
  <2>2. QED
    BY <1>8, <1>9, <1>10, <2>1 DEF Flattens
<1>12. QED
  BY <1>11

\* The flat sequence has each element of each sequence once.
LEMMA FlattenIs ==
    ASSUME NEW S, NEW n \in Nat \ {0}, NEW seqs \in [1..n -> Seq(S)]
    PROVE  FlattenSeq(seqs) \in Seq(S) /\ \E at, pl : Flattens(FlattenSeq(seqs), at, pl, seqs, n)
<1> DEFINE flatten[i \in 1..n] == IF i = 1 THEN seqs[i] ELSE flatten[i - 1] \o seqs[i]
<1>1. \E g \in [1..n -> Seq(S)] : g = [i \in 1..n |-> IF i = 1 THEN seqs[i] ELSE g[i - 1] \o seqs[i]]
  <2>1. PICK step : step = [i \in 1..n |-> [q \in Seq(S) |-> IF i = 1 THEN seqs[i] ELSE q \o seqs[i]]]
    OBVIOUS
  <2>2. \A i \in 1..n, q \in Seq(S) : q \o seqs[i] \in Seq(S) /\ seqs[i] \in Seq(S)
    BY ConcatProperties
  <2>3. step \in [1..n -> [Seq(S) -> Seq(S)]]
    BY <2>1, <2>2
  <2>4. <<>> \in Seq(S) /\ n \in Nat
    OBVIOUS
  <2>5. PICK f \in [0..n -> Seq(S)] : Solves(f, n, <<>>, step)
    BY <2>3, <2>4, Recursion
  <2>6. PICK g : g = [i \in 1..n |-> f[i]]
    OBVIOUS
  <2>7. g \in [1..n -> Seq(S)]
    BY <2>5, <2>6
  <2>8. \A i \in 1..n : g[i] = IF i = 1 THEN seqs[i] ELSE g[i - 1] \o seqs[i]
    <3> SUFFICES ASSUME NEW i \in 1..n PROVE g[i] = IF i = 1 THEN seqs[i] ELSE g[i - 1] \o seqs[i]
      OBVIOUS
    <3>1. i \in 0..n /\ i # 0 /\ i - 1 \in 0..n /\ f[i - 1] \in Seq(S)
      BY <2>5
    <3>2. f[i] = step[i][f[i - 1]]
      BY <2>5, <3>1 DEF Solves
    <3>3. f[i] = IF i = 1 THEN seqs[i] ELSE f[i - 1] \o seqs[i]
      BY <2>1, <3>1, <3>2
    <3>4. i # 1 => i - 1 \in 1..n
      OBVIOUS
    <3>5. QED
      BY <2>6, <3>3, <3>4
  <2>9. QED
    BY <2>7, <2>8
<1>2. flatten = [i \in 1..n |-> IF i = 1 THEN seqs[i] ELSE flatten[i - 1] \o seqs[i]]
  BY <1>1
<1>3. Len(seqs) = n
  OBVIOUS
<1>4. FlattenSeq(seqs) = flatten[n]
  BY <1>3 DEF FlattenSeq
<1>5. PICK g : g = flatten
  OBVIOUS
<1>6. g = [i \in 1..n |-> IF i = 1 THEN seqs[i] ELSE g[i - 1] \o seqs[i]] /\ FlattenSeq(seqs) = g[n]
  BY <1>2, <1>4, <1>5
<1> HIDE DEF flatten
<1> DEFINE T == {i \in 0..n : i = 0 \/ (g[i] \in Seq(S) /\ \E at, pl : Flattens(g[i], at, pl, seqs, i))}
<1>7. 0 \in T
  OBVIOUS
<1>8. ASSUME NEW i \in 1..n, i - 1 \in T PROVE i \in T
  <2>1. CASE i = 1
    <3>1. g[i] = seqs[1] /\ seqs[1] \in Seq(S)
      BY <1>6, <2>1
    <3>2. PICK at, pl : at = [p \in 1..Len(seqs[1]) |-> 1] /\ pl = [p \in 1..Len(seqs[1]) |-> p]
      OBVIOUS
    <3>3. Flattens(seqs[1], at, pl, seqs, 1)
      BY <3>2 DEF Flattens
    <3>4. QED
      BY <2>1, <3>1, <3>3
  <2>2. CASE i # 1
    <3>1. PICK k \in Nat : k = i - 1 /\ k + 1 = i /\ k # 0
      BY <2>2
    <3>2. PICK at, pl : g[k] \in Seq(S) /\ Flattens(g[k], at, pl, seqs, k)
      BY <1>8, <3>1
    <3>3. \A j \in 1..(k + 1) : seqs[j] \in Seq(S)
      BY <3>1
    <3>4. g[i] = g[k] \o seqs[k + 1]
      BY <1>6, <2>2, <3>1
    <3>5. \E on, po : Flattens(g[i], on, po, seqs, k + 1)
      BY <3>2, <3>3, <3>4, OneMore
    <3>6. g[i] \in Seq(S)
      BY <3>1, <3>2, <3>3, <3>4, ConcatProperties
    <3>7. QED
      BY <3>1, <3>5, <3>6
  <2>3. QED
    BY <2>1, <2>2
<1> HIDE DEF T
<1>9. \A i \in 0..n : i \in T
  BY <1>7, <1>8, Induction
<1>10. n \in T
  BY <1>9
<1>11. QED
  BY <1>6, <1>10 DEF T

-----------------------------------------------------------------------------
(* The distribution of values in another order.                              *)

SumsAll(g, fun, D) == \A T \in SUBSET D : SumsUp(g, fun, T)

AnyFirst(g, fun, D) == \A T \in SUBSET D : \A x \in T : g[T] = fun[x] + g[T \ {x}]

\* A sum is any one of its values more than the sum of the others.
LEMMA SumWithout ==
    ASSUME NEW D, IsFiniteSet(D), NEW fun \in [D -> Int], NEW g \in [SUBSET D -> Int],
           SumsAll(g, fun, D)
    PROVE  AnyFirst(g, fun, D)
<1> DEFINE Bad == {T \in SUBSET D : \E x \in T : g[T] # fun[x] + g[T \ {x}]}
<1> SUFFICES ASSUME Bad # {} PROVE FALSE
  BY DEF AnyFirst
<1>1. Bad \in SUBSET (SUBSET D)
  OBVIOUS
<1>2. \A T \in SUBSET D : T \notin Bad => \A x \in T : g[T] = fun[x] + g[T \ {x}]
  OBVIOUS
<1>3. \A T \in Bad : \E x \in T : g[T] # fun[x] + g[T \ {x}]
  OBVIOUS
<1> HIDE DEF Bad
<1>4. PICK T \in Bad : \A U \in Bad : ~(U \subseteq T /\ U # T)
  BY <1>1, LeastSet
<1>5. PICK x \in T : g[T] # fun[x] + g[T \ {x}]
  BY <1>3, <1>4
<1>6. PICK y : y = AnyOf(T)
  OBVIOUS
<1>7. T \in SUBSET D /\ T # {} /\ y \in T /\ x \in T
  BY <1>1, <1>4, <1>5, <1>6 DEF AnyOf
<1>8. g[T] = fun[y] + g[T \ {y}]
  BY <1>6, <1>7 DEF SumsAll, SumsUp
<1>9. PICK A, B, C : A = T \ {x} /\ B = T \ {y} /\ C = T \ {x, y}
  OBVIOUS
<1>10. A \in SUBSET D /\ B \in SUBSET D /\ C \in SUBSET D /\ fun[x] \in Int /\ fun[y] \in Int
  BY <1>7, <1>9
<1>11. CASE x = y
  BY <1>5, <1>8, <1>11
<1>12. CASE x # y
  <2>1. A \notin Bad /\ B \notin Bad
    BY <1>4, <1>7, <1>9
  <2>2. y \in A /\ x \in B /\ A \ {y} = C /\ B \ {x} = C
    BY <1>7, <1>9, <1>12
  <2>3. g[A] = fun[y] + g[C] /\ g[B] = fun[x] + g[C]
    BY <1>2, <1>10, <2>1, <2>2
  <2>4. g[A] \in Int /\ g[B] \in Int /\ g[C] \in Int
    BY <1>10
  <2>5. g[T] = fun[x] + g[A]
    BY <1>8, <1>9, <1>10, <2>3, <2>4
  <2>6. QED
    BY <1>5, <1>9, <2>5
<1>13. QED
  BY <1>11, <1>12

Sends(r, D, s, t) == r \in Bijection(D, D) /\ \A j \in D : t[j] = s[r[j]]

\* A sum does not depend on the order.
LEMMA SumIsTheSame ==
    ASSUME NEW D, IsFiniteSet(D), NEW s \in [D -> Int], NEW t \in [D -> Int],
           NEW r, Sends(r, D, s, t)
    PROVE  SumOf(s) = SumOf(t) /\ SumOf(s) \in Int
<1>1. PICK g \in [SUBSET D -> Int] : SumOf(s) = g[D] /\ \A T \in SUBSET D : SumsUp(g, s, T)
  BY SumIs
<1>2. PICK h \in [SUBSET D -> Int] : SumOf(t) = h[D] /\ \A T \in SUBSET D : SumsUp(h, t, T)
  BY SumIs
<1>3. \A T \in SUBSET D : \A x \in T : g[T] = s[x] + g[T \ {x}]
  <2>1. SumsAll(g, s, D)
    BY <1>1 DEF SumsAll
  <2>2. AnyFirst(g, s, D)
    BY <2>1, SumWithout
  <2>3. QED
    BY <2>2 DEF AnyFirst
<1>4. r \in [D -> D] /\ (\A i, j \in D : r[i] = r[j] => i = j) /\ (\A i \in D : \E j \in D : r[j] = i)
  BY DEF Sends, Bijection, Injection, Surjection, IsInjective
<1> DEFINE Sent(T) == {r[j] : j \in T}
           Good == {T \in SUBSET D : h[T] = g[Sent(T)]}
<1>5. {} \in Good
  <2>1. Sent({}) = {}
    OBVIOUS
  <2>2. h[{}] = 0 /\ g[{}] = 0
    BY <1>1, <1>2 DEF SumsUp
  <2>3. QED
    BY <2>1, <2>2
<1>6. ASSUME NEW T \in SUBSET D, T # {}, T \ {AnyOf(T)} \in Good PROVE T \in Good
  <2>1. PICK y : y = AnyOf(T) /\ y \in T
    BY <1>6 DEF AnyOf
  <2>2. PICK U : U = T \ {y}
    OBVIOUS
  <2>3. h[T] = t[y] + h[U]
    BY <1>2, <1>6, <2>1, <2>2 DEF SumsUp
  <2>4. h[U] = g[Sent(U)]
    BY <1>6, <2>1, <2>2
  <2>5. PICK A, B : A = Sent(T) /\ B = Sent(U)
    OBVIOUS
  <2>6. A \in SUBSET D /\ r[y] \in A /\ B = A \ {r[y]}
    BY <1>4, <2>1, <2>2, <2>5
  <2>7. g[A] = s[r[y]] + g[B]
    BY <1>3, <2>6
  <2>8. t[y] = s[r[y]]
    BY <2>1 DEF Sends
  <2>9. h[T] = g[A]
    BY <2>3, <2>4, <2>5, <2>7, <2>8
  <2>10. QED
    BY <2>5, <2>9
<1>7. Sent(D) = D
  BY <1>4
<1> HIDE DEF Good
<1>8. \A T \in SUBSET D : T \in Good
  BY <1>5, <1>6, OneLess
<1>9. h[D] = g[D]
  BY <1>7, <1>8 DEF Good
<1>10. QED
  BY <1>1, <1>2, <1>9

\* The distribution does not depend on the order of the values.
LEMMA DistributionIsTheSame ==
    ASSUME NEW m \in Nat \ {0}, NEW s \in [1..m -> Int], NEW t \in [1..m -> Int],
           NEW r, Rearranges(r, m, s, t)
    PROVE  Distribution(s) = Distribution(t)
<1>1. PICK D : D = 1..m
  OBVIOUS
<1>2. IsFiniteSet(D) /\ s \in [D -> Int] /\ t \in [D -> Int] /\ Sends(r, D, s, t)
      /\ r \in Bijection(D, D) /\ \A j \in D : t[j] = s[r[j]] /\ r[j] \in D
  <2>1. IsFiniteSet(1..m)
    BY FS_Interval
  <2>2. QED
    BY <1>1, <2>1 DEF Rearranges, Sends, Bijection, Injection
<1>3. Len(s) = m /\ Len(t) = m /\ DOMAIN s = D /\ DOMAIN t = D
  BY <1>1
<1>4. SumOf(s) = SumOf(t)
  BY <1>2, SumIsTheSame
<1>5. SumOf([i \in D |-> s[i] * s[i]]) = SumOf([i \in D |-> t[i] * t[i]])
  <2>1. PICK u, v : u = [i \in D |-> s[i] * s[i]] /\ v = [i \in D |-> t[i] * t[i]]
    OBVIOUS
  <2>2. u \in [D -> Int] /\ v \in [D -> Int]
    BY <1>2, <2>1
  <2>3. Sends(r, D, u, v)
    BY <1>2, <2>1 DEF Sends
  <2>4. SumOf(u) = SumOf(v)
    BY <1>2, <2>2, <2>3, SumIsTheSame
  <2>5. QED
    BY <2>1, <2>4
<1>6. \A k \in 1..m : Sorted(s)[k] = Sorted(t)[k]
  BY SortedIsTheSame
<1>7. TwiceMedian(s) = TwiceMedian(t)
  BY MedianIsTheSame
<1>8. /\ Sorted(s)[m] = Sorted(t)[m] /\ Percentile(s, 95) = Percentile(t, 95)
      /\ Percentile(s, 99) = Percentile(t, 99)
  <2>1. m \in 1..m /\ (95 * m + 99) \div 100 \in 1..m /\ (99 * m + 99) \div 100 \in 1..m
    OBVIOUS
  <2>2. QED
    BY <1>3, <1>6, <2>1 DEF Percentile
<1>9. QED
  BY <1>3, <1>4, <1>5, <1>7, <1>8 DEF Distribution

-----------------------------------------------------------------------------
(* The points of one node, however they arrive.                              *)

AreTimed(P, m) == DOMAIN P = 1..m /\ \A k \in 1..m : P[k].ts \in Int /\ P[k].value \in Int \cup {NoValue}

Apart(P, m) == \A j, k \in 1..m : P[j].ts = P[k].ts => j = k

\* Q has the points of P, in the order that r gives.
SamePoints(r, m, P, Q) ==
    /\ r \in Bijection(1..m, 1..m)
    /\ \A k \in 1..m : Q[k].ts = P[r[k]].ts /\ Q[k].value = P[r[k]].value

Times(P, m) == [i \in 1..m |-> P[i].ts]

OrderedBy(order, P, m) ==
    /\ order \in [1..m -> 1..m]
    /\ InOrder(P) = [k \in 1..m |-> P[order[k]]]
    /\ \A k \in 1..m : Sorted(Times(P, m))[k] = P[order[k]].ts

\* The points by their time, as an order of their positions.
LEMMA InOrderIs ==
    ASSUME NEW m \in Nat, NEW P, AreTimed(P, m)
    PROVE  \E order : OrderedBy(order, P, m)
<1>1. PICK key : key = [i \in 1..m |-> P[i].ts]
  OBVIOUS
<1>2. PICK D : D = 1..m
  OBVIOUS
<1>3. D \in SUBSET Int /\ IsFiniteSet(D) /\ key \in [D -> Int] /\ Cardinality(D) = m
  <2>1. IsFiniteSet(1..m) /\ Cardinality(1..m) = m
    BY FS_Interval
  <2>2. QED
    BY <1>1, <1>2, <2>1 DEF AreTimed
<1>4. PICK order : order = ByKey(key)
  OBVIOUS
<1>5. order \in [1..m -> 1..m]
  BY <1>2, <1>3, <1>4, SortedByKey
<1>6. InOrder(P) = [k \in 1..m |-> P[order[k]]]
  BY <1>1, <1>4, <1>5 DEF InOrder, AreTimed
<1>7. \A k \in 1..m : Sorted(key)[k] = P[order[k]].ts
  BY <1>1, <1>4, <1>5 DEF Sorted
<1>8. key = Times(P, m)
  BY <1>1 DEF Times
<1>9. QED
  BY <1>5, <1>6, <1>7, <1>8 DEF OrderedBy

\* By their time the points are in the same order however they arrive.
LEMMA InOrderTheSame ==
    ASSUME NEW m \in Nat, NEW P, AreTimed(P, m), Apart(P, m), NEW Q, AreTimed(Q, m),
           NEW r, SamePoints(r, m, P, Q)
    PROVE  /\ DOMAIN InOrder(P) = 1..m /\ DOMAIN InOrder(Q) = 1..m
           /\ \A k \in 1..m : InOrder(P)[k].value = InOrder(Q)[k].value
<1>1. PICK s, t : s = Times(P, m) /\ t = Times(Q, m)
  OBVIOUS
<1>2. s \in [1..m -> Int] /\ t \in [1..m -> Int]
  BY <1>1 DEF AreTimed, Times
<1>3. \A k \in 1..m : r[k] \in 1..m /\ Q[k].ts = P[r[k]].ts /\ Q[k].value = P[r[k]].value
  BY DEF SamePoints, Bijection, Injection
<1>4. Rearranges(r, m, s, t)
  BY <1>1, <1>3 DEF Rearranges, SamePoints, Times
<1>5. \A k \in 1..m : Sorted(s)[k] = Sorted(t)[k]
  BY <1>2, <1>4, SortedIsTheSame
<1>6. PICK u, v : OrderedBy(u, P, m) /\ OrderedBy(v, Q, m)
  BY InOrderIs
<1>7. /\ u \in [1..m -> 1..m] /\ InOrder(P) = [k \in 1..m |-> P[u[k]]]
      /\ v \in [1..m -> 1..m] /\ InOrder(Q) = [k \in 1..m |-> Q[v[k]]]
      /\ \A k \in 1..m : Sorted(s)[k] = P[u[k]].ts /\ Sorted(t)[k] = Q[v[k]].ts
  BY <1>1, <1>6 DEF OrderedBy
<1>8. ASSUME NEW k \in 1..m PROVE P[u[k]].value = Q[v[k]].value
  <2>1. u[k] \in 1..m /\ v[k] \in 1..m /\ r[v[k]] \in 1..m
    BY <1>3, <1>7
  <2>2. Q[v[k]].ts = P[r[v[k]]].ts /\ Q[v[k]].value = P[r[v[k]]].value
    BY <1>3, <2>1
  <2>3. P[u[k]].ts = Q[v[k]].ts
    BY <1>5, <1>7
  <2>4. u[k] = r[v[k]]
    BY <2>1, <2>2, <2>3 DEF Apart
  <2>5. QED
    BY <2>2, <2>4
<1>9. QED
  BY <1>7, <1>8

\* Points with the same values at the same positions have the same values.
LEMMA ValuesOfTheSame ==
    ASSUME NEW P, NEW Q, DOMAIN P = DOMAIN Q, \A k \in DOMAIN P : P[k].value = Q[k].value
    PROVE  ValuesOf(P) = ValuesOf(Q)
<1>1. [i \in DOMAIN P |-> P[i].value] = [i \in DOMAIN Q |-> Q[i].value]
  OBVIOUS
<1>2. {i \in DOMAIN P : P[i].value # NoValue} = {i \in DOMAIN Q : Q[i].value # NoValue}
  OBVIOUS
<1>3. QED
  BY <1>1, <1>2 DEF ValuesOf

\* The series of a node, of which the spikes are sought.
SeriesOf(P) == ValuesOf(InOrder(P))

\* The series of a node does not depend on the order in which its points arrive.
LEMMA SeriesIsTheSame ==
    ASSUME NEW m \in Nat, NEW P, AreTimed(P, m), Apart(P, m), NEW Q, AreTimed(Q, m),
           NEW r, SamePoints(r, m, P, Q)
    PROVE  SeriesOf(P) = SeriesOf(Q)
BY InOrderTheSame, ValuesOfTheSame DEF SeriesOf

\* Two ways to go through a set once.
LEMMA OneForTheOther ==
    ASSUME NEW n \in Nat, NEW V, IsFiniteSet(V), Cardinality(V) = n,
           NEW o \in Surjection(1..n, V), NEW f \in Surjection(1..n, V)
    PROVE  \E r \in Bijection(1..n, 1..n) : \A k \in 1..n : f[k] = o[r[k]]
<1>1. PICK D : D = 1..n
  OBVIOUS
<1>2. IsFiniteSet(D) /\ Cardinality(D) = n
  <2>1. IsFiniteSet(1..n) /\ Cardinality(1..n) = n
    BY FS_Interval
  <2>2. QED
    BY <1>1, <2>1
<1>3. o \in Surjection(D, V) /\ f \in Surjection(D, V)
  BY <1>1
<1>4. o \in Injection(D, V) /\ f \in Injection(D, V)
  BY <1>2, <1>3, FS_SurjSameCardinalityImpliesInj
<1>5. /\ o \in [D -> V] /\ f \in [D -> V]
      /\ \A i, j \in D : (o[i] = o[j] => i = j) /\ (f[i] = f[j] => i = j)
      /\ \A v \in V : (\E i \in D : o[i] = v) /\ (\E i \in D : f[i] = v)
  BY <1>3, <1>4 DEF Injection, IsInjective, Surjection
<1>6. PICK r : r = [k \in D |-> CHOOSE j \in D : o[j] = f[k]]
  OBVIOUS
<1>7. \A k \in D : r[k] \in D /\ o[r[k]] = f[k]
  BY <1>5, <1>6
<1>8. r \in [D -> D]
  BY <1>6, <1>7
<1>9. \A k, l \in D : r[k] = r[l] => k = l
  BY <1>5, <1>7
<1>10. \A j \in D : \E k \in D : r[k] = j
  <2> SUFFICES ASSUME NEW j \in D PROVE \E k \in D : r[k] = j
    OBVIOUS
  <2>1. PICK k \in D : f[k] = o[j]
    BY <1>5
  <2>2. QED
    BY <1>5, <1>7, <2>1
<1>11. r \in Bijection(D, D)
  BY <1>8, <1>9, <1>10 DEF Bijection, Injection, IsInjective, Surjection
<1>12. QED
  BY <1>1, <1>7, <1>11

Known(P, m) == {i \in 1..m : P[i].value # NoValue}

\* The values of P are those at V, in the order of o.
ValuesBy(o, P, V, n) == o \in Surjection(1..n, V) /\ ValuesOf(P) = [k \in 1..n |-> P[o[k]].value]

\* The values of points, and how many they are.
LEMMA ValuesAre ==
    ASSUME NEW m \in Nat, NEW P, AreTimed(P, m),
           NEW V, V = Known(P, m), NEW n, n = Cardinality(V)
    PROVE  /\ IsFiniteSet(V) /\ n \in Nat /\ n <= m /\ ValuesOf(P) \in [1..n -> Int]
           /\ \E o : ValuesBy(o, P, V, n)
<1>1. V \in SUBSET Int /\ IsFiniteSet(V) /\ n <= m /\ V \in SUBSET (1..m)
  <2>1. IsFiniteSet(1..m) /\ Cardinality(1..m) = m
    BY FS_Interval
  <2>2. V \in SUBSET (1..m)
    BY DEF Known
  <2>3. QED
    BY <2>1, <2>2, FS_Subset
<1>2. PICK values : values = [i \in 1..m |-> P[i].value]
  OBVIOUS
<1>3. n \in Nat /\ \E o : TakenBy(o, values, V)
  BY <1>1, TakenIs
<1>4. PICK o : TakenBy(o, values, V)
  BY <1>3
<1>5. o \in Surjection(1..n, V) /\ Taken(values, V) = [k \in 1..n |-> values[o[k]]]
  BY <1>4 DEF TakenBy, Surjection
<1>6. o \in [1..n -> V] /\ \A k \in 1..n : o[k] \in V
  BY <1>5 DEF Surjection
<1>7. ValuesOf(P) = Taken(values, V)
  BY <1>2 DEF ValuesOf, AreTimed, Known
<1>8. ValuesOf(P) = [k \in 1..n |-> P[o[k]].value]
  BY <1>1, <1>2, <1>5, <1>6, <1>7
<1>9. \A k \in 1..n : P[o[k]].value \in Int
  <2> SUFFICES ASSUME NEW k \in 1..n PROVE P[o[k]].value \in Int
    OBVIOUS
  <2>1. o[k] \in V /\ o[k] \in 1..m
    BY <1>1, <1>6
  <2>2. P[o[k]].value # NoValue
    BY <2>1 DEF Known
  <2>3. QED
    BY <2>1, <2>2 DEF AreTimed
<1>10. ValuesBy(o, P, V, n)
  BY <1>5, <1>8 DEF ValuesBy
<1>11. QED
  BY <1>1, <1>3, <1>8, <1>9, <1>10

\* The values of points in another order are the values in another order.
LEMMA ValuesRearranged ==
    ASSUME NEW m \in Nat, NEW P, AreTimed(P, m), NEW Q, AreTimed(Q, m), NEW r, SamePoints(r, m, P, Q)
    PROVE  \E n \in Nat : /\ ValuesOf(P) \in [1..n -> Int] /\ ValuesOf(Q) \in [1..n -> Int]
                          /\ \E q : Rearranges(q, n, ValuesOf(P), ValuesOf(Q))
<1>1. PICK V, W : V = Known(P, m) /\ W = Known(Q, m)
  OBVIOUS
<1>2. PICK n : n = Cardinality(V)
  OBVIOUS
<1>3. /\ \A k \in 1..m : r[k] \in 1..m /\ Q[k].value = P[r[k]].value
      /\ \A i \in 1..m : \E k \in 1..m : r[k] = i
  BY DEF SamePoints, Bijection, Injection, Surjection
<1>4. Cardinality(W) = n
  <2>1. PICK D : D = 1..m
    OBVIOUS
  <2>2. IsFiniteSet(1..m)
    BY FS_Interval
  <2>3. IsFiniteSet(D) /\ r \in Bijection(D, D) /\ V \in SUBSET D
    BY <1>1, <2>1, <2>2 DEF SamePoints, Known
  <2>4. W = {j \in D : r[j] \in V}
    BY <1>1, <1>3, <2>1 DEF Known
  <2>5. QED
    BY <1>2, <2>3, <2>4, AsManySent
<1>5. IsFiniteSet(V) /\ n \in Nat /\ ValuesOf(P) \in [1..n -> Int] /\ ValuesOf(Q) \in [1..n -> Int]
  BY <1>1, <1>2, <1>4, ValuesAre
<1>6. PICK o, p : ValuesBy(o, P, V, n) /\ ValuesBy(p, Q, W, n)
  BY <1>1, <1>2, <1>4, ValuesAre
<1>7. o \in Surjection(1..n, V) /\ ValuesOf(P) = [k \in 1..n |-> P[o[k]].value]
  BY <1>6 DEF ValuesBy
<1>8. p \in Surjection(1..n, W) /\ ValuesOf(Q) = [k \in 1..n |-> Q[p[k]].value]
  BY <1>6 DEF ValuesBy
<1>9. p \in [1..n -> W] /\ (\A i \in W : \E k \in 1..n : p[k] = i) /\ o \in [1..n -> V]
  BY <1>7, <1>8 DEF Surjection
<1>10. PICK f : f = [k \in 1..n |-> r[p[k]]]
  OBVIOUS
<1>11. f \in Surjection(1..n, V)
  <2>1. \A k \in 1..n : p[k] \in 1..m /\ p[k] \in W
    BY <1>1, <1>9 DEF Known
  <2>2. f \in [1..n -> V]
    BY <1>1, <1>3, <1>10, <2>1 DEF Known
  <2>3. ASSUME NEW i \in V PROVE \E k \in 1..n : f[k] = i
    <3>1. PICK j \in 1..m : r[j] = i
      BY <1>1, <1>3 DEF Known
    <3>2. j \in W
      BY <1>1, <1>3, <3>1 DEF Known
    <3>3. PICK k \in 1..n : p[k] = j
      BY <1>9, <3>2
    <3>4. QED
      BY <1>10, <3>1, <3>3
  <2>4. QED
    BY <2>2, <2>3 DEF Surjection
<1>12. PICK q \in Bijection(1..n, 1..n) : \A k \in 1..n : f[k] = o[q[k]]
  BY <1>2, <1>5, <1>7, <1>11, OneForTheOther
<1>13. ASSUME NEW k \in 1..n PROVE ValuesOf(Q)[k] = ValuesOf(P)[q[k]]
  <2>1. q[k] \in 1..n
    BY <1>12 DEF Bijection, Injection
  <2>2. p[k] \in 1..m
    BY <1>1, <1>9 DEF Known
  <2>3. ValuesOf(Q)[k] = Q[p[k]].value
    BY <1>8
  <2>4. Q[p[k]].value = P[r[p[k]]].value
    BY <1>3, <2>2
  <2>5. r[p[k]] = o[q[k]]
    BY <1>10, <1>12
  <2>6. ValuesOf(P)[q[k]] = P[o[q[k]]].value
    BY <1>7, <2>1
  <2>7. QED
    BY <2>3, <2>4, <2>5, <2>6
<1>14. Rearranges(q, n, ValuesOf(P), ValuesOf(Q))
  BY <1>12, <1>13 DEF Rearranges
<1>15. QED
  BY <1>5, <1>14

-----------------------------------------------------------------------------
(* The points of each node among those of an instance.                       *)

Point == [ts : Int, value : Int \cup {NoValue}]

\* n nodes with labels of their own, each with one point at most at a time.
AreNodes(nodes, n, L) ==
    /\ nodes \in [1..n -> [label : L, points : Seq(Point)]]
    /\ \A i, j \in 1..n : nodes[i].label = nodes[j].label => i = j
    /\ \A i \in 1..n : Apart(nodes[i].points, Len(nodes[i].points))

\* The points are those of the nodes: the p-th is one of the at[p]-th node, at pl[p].
Spread(points, at, pl, nodes, n) ==
    /\ \E N \in Nat : DOMAIN points = 1..N
    /\ \A p \in DOMAIN points :
          /\ at[p] \in 1..n /\ pl[p] \in 1..Len(nodes[at[p]].points)
          /\ points[p].node = nodes[at[p]].label
          /\ points[p].ts = nodes[at[p]].points[pl[p]].ts
          /\ points[p].value = nodes[at[p]].points[pl[p]].value
    /\ \A p, q \in DOMAIN points : at[p] = at[q] /\ pl[p] = pl[q] => p = q
    /\ \A i \in 1..n : \A j \in 1..Len(nodes[i].points) : \E p \in DOMAIN points : at[p] = i /\ pl[p] = j

\* A node's points have a time and, some of them, a value.
LEMMA NodesAreTimed ==
    ASSUME NEW n \in Nat, NEW L, NEW nodes, AreNodes(nodes, n, L), NEW i \in 1..n
    PROVE  /\ nodes[i] \in [label : L, points : Seq(Point)] /\ Len(nodes[i].points) \in Nat
           /\ AreTimed(nodes[i].points, Len(nodes[i].points))
           /\ Apart(nodes[i].points, Len(nodes[i].points))
<1>1. nodes[i] \in [label : L, points : Seq(Point)] /\ Apart(nodes[i].points, Len(nodes[i].points))
  BY DEF AreNodes
<1>2. nodes[i].points \in Seq(Point)
  BY <1>1
<1>3. /\ Len(nodes[i].points) \in Nat /\ DOMAIN nodes[i].points = 1..Len(nodes[i].points)
      /\ \A k \in 1..Len(nodes[i].points) : nodes[i].points[k] \in Point
  BY <1>2, ElementOfSeq, LenProperties
<1>4. AreTimed(nodes[i].points, Len(nodes[i].points))
  BY <1>3 DEF AreTimed, Point
<1>5. QED
  BY <1>1, <1>3, <1>4

OfNode(points, l) == Taken(points, {p \in DOMAIN points : points[p].node = l})

\* Those of a node are its own, in some order.
LEMMA OwnPoints ==
    ASSUME NEW n \in Nat, NEW L, NEW nodes, AreNodes(nodes, n, L),
           NEW points, NEW at, NEW pl, Spread(points, at, pl, nodes, n), NEW i \in 1..n
    PROVE  LET m == Len(nodes[i].points)
               own == OfNode(points, nodes[i].label)
           IN  m \in Nat /\ AreTimed(own, m) /\ \E r : SamePoints(r, m, nodes[i].points, own)
<1>1. PICK P, m : P = nodes[i].points /\ m = Len(P) /\ m \in Nat /\ AreTimed(P, m)
  BY NodesAreTimed
<1>2. PICK l : l = nodes[i].label
  OBVIOUS
<1>3. PICK I : I = {p \in DOMAIN points : points[p].node = l}
  OBVIOUS
<1>4. ASSUME NEW p \in I
      PROVE  /\ p \in DOMAIN points /\ at[p] = i /\ pl[p] \in 1..m
             /\ points[p].ts = P[pl[p]].ts /\ points[p].value = P[pl[p]].value
  <2>1. /\ p \in DOMAIN points /\ at[p] \in 1..n /\ nodes[at[p]].label = nodes[i].label
        /\ pl[p] \in 1..Len(nodes[at[p]].points) /\ points[p].ts = nodes[at[p]].points[pl[p]].ts
        /\ points[p].value = nodes[at[p]].points[pl[p]].value
    BY <1>2, <1>3 DEF Spread
  <2>2. at[p] = i
    BY <2>1 DEF AreNodes
  <2>3. QED
    BY <1>1, <2>1, <2>2
<1>5. ASSUME NEW j \in 1..m PROVE \E p \in I : pl[p] = j
  <2>1. PICK p \in DOMAIN points : at[p] = i /\ pl[p] = j
    BY <1>1 DEF Spread
  <2>2. points[p].node = l
    BY <1>2, <2>1 DEF Spread
  <2>3. QED
    BY <1>3, <2>1, <2>2
<1>6. \A p, q \in I : pl[p] = pl[q] => p = q
  BY <1>4 DEF Spread
<1>7. I \in SUBSET Int /\ IsFiniteSet(I)
  <2>1. PICK N \in Nat : DOMAIN points = 1..N
    BY DEF Spread
  <2>2. IsFiniteSet(1..N) /\ I \in SUBSET (1..N)
    BY <1>3, <2>1, FS_Interval
  <2>3. IsFiniteSet(I)
    BY <2>2, FS_Subset
  <2>4. QED
    BY <2>2, <2>3
<1>8. Cardinality(I) = m
  <2>1. PICK h : h = [p \in I |-> pl[p]]
    OBVIOUS
  <2>2. h \in [I -> 1..m] /\ (\A p, q \in I : h[p] = h[q] => p = q) /\ \A j \in 1..m : \E p \in I : h[p] = j
    BY <1>4, <1>5, <1>6, <2>1
  <2>3. h \in Bijection(I, 1..m)
    BY <2>2 DEF Bijection, Injection, Surjection, IsInjective
  <2>4. Cardinality(I) = Cardinality(1..m)
    BY <1>7, <2>3, FS_Bijection DEF ExistsBijection
  <2>5. Cardinality(1..m) = m
    BY <1>1, FS_Interval
  <2>6. QED
    BY <2>4, <2>5
<1>9. PICK o : TakenBy(o, points, I)
  BY <1>7, TakenIs
<1>10. PICK own : own = Taken(points, I)
  OBVIOUS
<1>11. o \in [1..m -> I] /\ (\A p \in I : \E k \in 1..m : o[k] = p) /\ own = [k \in 1..m |-> points[o[k]]]
  BY <1>8, <1>9, <1>10 DEF TakenBy
<1>12. PICK r : r = [k \in 1..m |-> pl[o[k]]]
  OBVIOUS
<1>13. \A k \in 1..m : /\ o[k] \in I /\ r[k] = pl[o[k]] /\ r[k] \in 1..m
                       /\ own[k].ts = P[r[k]].ts /\ own[k].value = P[r[k]].value
  BY <1>4, <1>11, <1>12
<1>14. r \in [1..m -> 1..m] /\ \A j \in 1..m : \E k \in 1..m : r[k] = j
  <2>1. ASSUME NEW j \in 1..m PROVE \E k \in 1..m : r[k] = j
    <3>1. PICK p \in I : pl[p] = j
      BY <1>5
    <3>2. PICK k \in 1..m : o[k] = p
      BY <1>11
    <3>3. QED
      BY <1>12, <3>1, <3>2
  <2>2. QED
    BY <1>12, <1>13, <2>1
<1>15. r \in Bijection(1..m, 1..m)
  <2>1. PICK D : D = 1..m
    OBVIOUS
  <2>2. IsFiniteSet(1..m)
    BY <1>1, FS_Interval
  <2>3. r \in Surjection(D, D) /\ IsFiniteSet(D)
    BY <1>14, <2>1, <2>2 DEF Surjection
  <2>4. r \in Injection(D, D)
    BY <2>3, FS_SurjSameCardinalityImpliesInj
  <2>5. QED
    BY <2>1, <2>3, <2>4 DEF Bijection
<1>16. SamePoints(r, m, P, own)
  BY <1>13, <1>15 DEF SamePoints
<1>17. AreTimed(own, m)
  <2>1. DOMAIN own = 1..m
    BY <1>11
  <2>2. QED
    BY <1>1, <1>13, <2>1 DEF AreTimed
<1>18. own = OfNode(points, nodes[i].label)
  BY <1>2, <1>3, <1>10 DEF OfNode
<1>19. QED
  BY <1>1, <1>16, <1>17, <1>18

\* The series of a node is the same among the points of all nodes.
LEMMA OwnSeries ==
    ASSUME NEW n \in Nat, NEW L, NEW nodes, AreNodes(nodes, n, L),
           NEW points, NEW at, NEW pl, Spread(points, at, pl, nodes, n), NEW i \in 1..n
    PROVE  SeriesOf(OfNode(points, nodes[i].label)) = SeriesOf(nodes[i].points)
<1>1. PICK P, m : P = nodes[i].points /\ m = Len(P)
  OBVIOUS
<1>2. PICK own : own = OfNode(points, nodes[i].label)
  OBVIOUS
<1>3. m \in Nat /\ AreTimed(P, m) /\ Apart(P, m)
  BY <1>1, NodesAreTimed
<1>4. AreTimed(own, m) /\ \E r : SamePoints(r, m, P, own)
  BY <1>1, <1>2, OwnPoints
<1>5. PICK r : SamePoints(r, m, P, own)
  BY <1>4
<1>6. SeriesOf(P) = SeriesOf(own)
  BY <1>3, <1>4, <1>5, SeriesIsTheSame
<1>7. QED
  BY <1>1, <1>2, <1>6

-----------------------------------------------------------------------------
(* The spikes of an instance are counted node by node.                       *)

Marked(mark, F, T) == UNION {{mark[i]} \X F[i] : i \in T}

\* Marking does not change how many there are.
LEMMA OneMarked ==
    ASSUME NEW l, NEW F, IsFiniteSet(F)
    PROVE  IsFiniteSet({l} \X F) /\ Cardinality({l} \X F) = Cardinality(F)
<1>1. PICK h : h = [x \in F |-> <<l, x>>]
  OBVIOUS
<1>2. PICK G : G = {l} \X F
  OBVIOUS
<1>3. h \in [F -> G] /\ (\A x, y \in F : h[x] = h[y] => x = y) /\ \A z \in G : \E x \in F : h[x] = z
  BY <1>1, <1>2
<1>4. h \in Bijection(F, G)
  BY <1>3 DEF Bijection, Injection, Surjection, IsInjective
<1>5. IsFiniteSet(G) /\ Cardinality(F) = Cardinality(G)
  BY <1>4, FS_Bijection DEF ExistsBijection
<1>6. QED
  BY <1>2, <1>5

\* With marks of their own, the sizes of sets add up.
LEMMA MarkedAreSummed ==
    ASSUME NEW n \in Nat, NEW mark, \A i, j \in 1..n : mark[i] = mark[j] => i = j,
           NEW F, \A i \in 1..n : IsFiniteSet(F[i])
    PROVE  Cardinality(Marked(mark, F, 1..n)) = SumOf([i \in 1..n |-> Cardinality(F[i])])
<1>1. PICK D : D = 1..n
  OBVIOUS
<1>2. IsFiniteSet(D)
  <2>1. IsFiniteSet(1..n)
    BY FS_Interval
  <2>2. QED
    BY <1>1, <2>1
<1>3. PICK fun : fun = [i \in D |-> Cardinality(F[i])]
  OBVIOUS
<1>4. \A i \in D : IsFiniteSet(F[i]) /\ Cardinality(F[i]) \in Nat
  BY <1>1, FS_CardinalityType
<1>5. fun \in [D -> Int]
  BY <1>3, <1>4
<1>6. PICK g \in [SUBSET D -> Int] : SumOf(fun) = g[D] /\ \A T \in SUBSET D : SumsUp(g, fun, T)
  BY <1>2, <1>5, SumIs
<1> DEFINE Good == {T \in SUBSET D : IsFiniteSet(Marked(mark, F, T)) /\ Cardinality(Marked(mark, F, T)) = g[T]}
<1>7. {} \in Good
  <2>1. Marked(mark, F, {}) = {} /\ g[{}] = 0
    BY <1>6 DEF Marked, SumsUp
  <2>2. QED
    BY <2>1, FS_EmptySet
<1>8. ASSUME NEW T \in SUBSET D, T # {}, T \ {AnyOf(T)} \in Good PROVE T \in Good
  <2>1. PICK y : y = AnyOf(T) /\ y \in T /\ y \in D
    BY <1>8 DEF AnyOf
  <2>2. PICK A, B, C : A = Marked(mark, F, T) /\ B = Marked(mark, F, T \ {y}) /\ C = {mark[y]} \X F[y]
    OBVIOUS
  <2>3. IsFiniteSet(B) /\ Cardinality(B) = g[T \ {y}] /\ g[T \ {y}] \in Int
    BY <1>8, <2>1, <2>2
  <2>4. IsFiniteSet(C) /\ Cardinality(C) = fun[y]
    BY <1>3, <1>4, <2>1, <2>2, OneMarked
  <2>5. A = B \cup C
    BY <2>1, <2>2 DEF Marked
  <2>6. B \cap C = {}
    <3> SUFFICES ASSUME NEW z \in B, z \in C PROVE FALSE
      OBVIOUS
    <3>1. PICK i \in T \ {y} : z \in {mark[i]} \X F[i]
      BY <2>2 DEF Marked
    <3>2. z[1] = mark[i] /\ z[1] = mark[y]
      BY <2>2, <3>1
    <3>3. QED
      BY <1>1, <2>1, <3>1, <3>2
  <2>7. IsFiniteSet(A) /\ Cardinality(A) = Cardinality(B) + Cardinality(C)
    <3>1. Cardinality(B \cap C) = 0
      BY <2>6, FS_EmptySet
    <3>2. IsFiniteSet(A) /\ Cardinality(A) = Cardinality(B) + Cardinality(C) - Cardinality(B \cap C)
      BY <2>3, <2>4, <2>5, FS_Union
    <3>3. Cardinality(B) \in Nat /\ Cardinality(C) \in Nat
      BY <2>3, <2>4, FS_CardinalityType
    <3>4. QED
      BY <3>1, <3>2, <3>3
  <2>8. g[T] = fun[y] + g[T \ {y}]
    BY <1>6, <1>8, <2>1 DEF SumsUp
  <2>9. Cardinality(A) = g[T]
    <3>1. fun[y] \in Int
      BY <1>5, <2>1
    <3>2. QED
      BY <2>3, <2>4, <2>7, <2>8, <3>1
  <2>10. QED
    BY <2>2, <2>7, <2>9
<1> HIDE DEF Good
<1>9. \A T \in SUBSET D : T \in Good
  BY <1>2, <1>7, <1>8, OneLess
<1>10. QED
  BY <1>1, <1>3, <1>6, <1>9 DEF Good

\* A series is no longer than the points it is of.
LEMMA SeriesIs ==
    ASSUME NEW m \in Nat, NEW P, AreTimed(P, m)
    PROVE  \E k \in Nat : k <= m /\ SeriesOf(P) \in [1..k -> Int] /\ (Known(P, m) = {} => k = 0)
<1>1. PICK u : OrderedBy(u, P, m)
  BY InOrderIs
<1>2. PICK Q : Q = InOrder(P)
  OBVIOUS
<1>3. u \in [1..m -> 1..m] /\ Q = [k \in 1..m |-> P[u[k]]]
  BY <1>1, <1>2 DEF OrderedBy
<1>4. \A k \in 1..m : u[k] \in 1..m /\ Q[k] = P[u[k]]
  BY <1>3
<1>5. AreTimed(Q, m)
  <2>1. DOMAIN Q = 1..m
    BY <1>3
  <2>2. QED
    BY <1>4, <2>1 DEF AreTimed
<1>6. PICK V, k : V = Known(Q, m) /\ k = Cardinality(V)
  OBVIOUS
<1>7. k \in Nat /\ k <= m /\ ValuesOf(Q) \in [1..k -> Int]
  BY <1>5, <1>6, ValuesAre
<1>8. ASSUME Known(P, m) = {} PROVE k = 0
  <2>1. V = {}
    BY <1>4, <1>6, <1>8 DEF Known
  <2>2. QED
    BY <1>6, <2>1, FS_EmptySet
<1>9. QED
  BY <1>2, <1>7, <1>8 DEF SeriesOf

\* The spikes are finitely many, and none in an empty series.
LEMMA SpikesAreOfSeries ==
    ASSUME NEW k \in Nat, NEW s \in [1..k -> Int], NEW w
    PROVE  /\ IsFiniteSet(SpikesIn(s, w)) /\ IsFiniteSet(Evaluated(s, w))
           /\ k = 0 => SpikesIn(s, w) = {} /\ Evaluated(s, w) = {}
<1>1. SpikesIn(s, w) \in SUBSET (1..k) /\ Evaluated(s, w) \in SUBSET (1..k)
  BY DEF SpikesIn, Evaluated
<1>2. IsFiniteSet(1..k)
  BY FS_Interval
<1>3. IsFiniteSet(SpikesIn(s, w)) /\ IsFiniteSet(Evaluated(s, w))
  BY <1>1, <1>2, FS_Subset
<1>4. k = 0 => 1..k = {}
  OBVIOUS
<1>5. QED
  BY <1>1, <1>3, <1>4

NodeSpikes(nodes, w) == [i \in DOMAIN nodes |-> SpikesIn(SeriesOf(nodes[i].points), w)]
NodeEvaluated(nodes, w) == [i \in DOMAIN nodes |-> Evaluated(SeriesOf(nodes[i].points), w)]

\* What the nodes' spikes and evaluated points add up to.
Total(nodes, w) ==
    [count |-> SumOf([i \in DOMAIN nodes |-> Cardinality(NodeSpikes(nodes, w)[i])]),
     evaluated |-> SumOf([i \in DOMAIN nodes |-> Cardinality(NodeEvaluated(nodes, w)[i])])]

\* The spikes of the points of all nodes are those of each node together.
LEMMA SpikesAreSummed ==
    ASSUME NEW n \in Nat, NEW L, NEW nodes, AreNodes(nodes, n, L), NEW w,
           NEW points, NEW at, NEW pl, Spread(points, at, pl, nodes, n)
    PROVE  SpikeEvidence(points, w) = Total(nodes, w)
<1> DEFINE labels == {points[p].node : p \in DOMAIN points}
<1>1. PICK mark : mark = [i \in 1..n |-> nodes[i].label]
  OBVIOUS
<1>2. \A i, j \in 1..n : mark[i] = mark[j] => i = j
  BY <1>1 DEF AreNodes
<1>3. PICK F, G : F = NodeSpikes(nodes, w) /\ G = NodeEvaluated(nodes, w)
  OBVIOUS
<1>4. DOMAIN nodes = 1..n
  BY DEF AreNodes
<1>5. \A i \in 1..n : /\ F[i] = SpikesIn(SeriesOf(OfNode(points, mark[i])), w)
                      /\ G[i] = Evaluated(SeriesOf(OfNode(points, mark[i])), w)
  <2> SUFFICES ASSUME NEW i \in 1..n
               PROVE  /\ F[i] = SpikesIn(SeriesOf(OfNode(points, mark[i])), w)
                      /\ G[i] = Evaluated(SeriesOf(OfNode(points, mark[i])), w)
    OBVIOUS
  <2>1. SeriesOf(OfNode(points, nodes[i].label)) = SeriesOf(nodes[i].points)
    BY OwnSeries
  <2>2. mark[i] = nodes[i].label
    BY <1>1
  <2>3. F[i] = SpikesIn(SeriesOf(nodes[i].points), w) /\ G[i] = Evaluated(SeriesOf(nodes[i].points), w)
    BY <1>3, <1>4 DEF NodeSpikes, NodeEvaluated
  <2>4. QED
    BY <2>1, <2>2, <2>3
<1>6. \A i \in 1..n : /\ IsFiniteSet(F[i]) /\ IsFiniteSet(G[i])
                      /\ mark[i] \notin labels => F[i] = {} /\ G[i] = {}
  <2> SUFFICES ASSUME NEW i \in 1..n
               PROVE  /\ IsFiniteSet(F[i]) /\ IsFiniteSet(G[i])
                      /\ mark[i] \notin labels => F[i] = {} /\ G[i] = {}
    OBVIOUS
  <2>1. PICK P, m : P = nodes[i].points /\ m = Len(P)
    OBVIOUS
  <2>2. m \in Nat /\ AreTimed(P, m)
    BY <2>1, NodesAreTimed
  <2>3. PICK k \in Nat : k <= m /\ SeriesOf(P) \in [1..k -> Int]
    BY <2>2, SeriesIs
  <2>4. F[i] = SpikesIn(SeriesOf(P), w) /\ G[i] = Evaluated(SeriesOf(P), w)
    BY <1>3, <1>4, <2>1 DEF NodeSpikes, NodeEvaluated
  <2>5. IsFiniteSet(F[i]) /\ IsFiniteSet(G[i]) /\ (k = 0 => F[i] = {} /\ G[i] = {})
    BY <2>3, <2>4, SpikesAreOfSeries
  <2>6. ASSUME mark[i] \notin labels PROVE k = 0
    <3>1. \A j \in 1..m : FALSE
      <4> SUFFICES ASSUME NEW j \in 1..m PROVE FALSE
        OBVIOUS
      <4>1. PICK p \in DOMAIN points : at[p] = i /\ pl[p] = j
        BY <2>1 DEF Spread
      <4>2. points[p].node = mark[i]
        BY <1>1, <4>1 DEF Spread
      <4>3. QED
        BY <2>6, <4>2
    <3>2. m = 0
      BY <2>2, <3>1
    <3>3. QED
      BY <2>3, <3>2
  <2>7. QED
    BY <2>5, <2>6
<1>7. \A p \in DOMAIN points : \E i \in 1..n : points[p].node = mark[i]
  BY <1>1 DEF Spread
<1>8. /\ UNION {{l} \X SpikesIn(SeriesOf(OfNode(points, l)), w) : l \in labels} = Marked(mark, F, 1..n)
      /\ UNION {{l} \X Evaluated(SeriesOf(OfNode(points, l)), w) : l \in labels} = Marked(mark, G, 1..n)
  <2>1. ASSUME NEW H, NEW I, \A i \in 1..n : I[i] = H[mark[i]] /\ (mark[i] \notin labels => I[i] = {})
        PROVE  UNION {{l} \X H[l] : l \in labels} = Marked(mark, I, 1..n)
    <3>1. \A l \in labels : \E i \in 1..n : l = mark[i] /\ H[l] = I[i]
      BY <1>7, <2>1
    <3>2. \A i \in 1..n : mark[i] \in labels \/ I[i] = {}
      BY <2>1
    <3> HIDE DEF labels
    <3>3. \A z \in UNION {{l} \X H[l] : l \in labels} : z \in Marked(mark, I, 1..n)
      BY <3>1 DEF Marked
    <3>4. ASSUME NEW z \in Marked(mark, I, 1..n) PROVE z \in UNION {{l} \X H[l] : l \in labels}
      <4>1. PICK i \in 1..n : z \in {mark[i]} \X I[i]
        BY DEF Marked
      <4>2. mark[i] \in labels
        BY <3>2, <4>1
      <4>3. z \in {mark[i]} \X H[mark[i]]
        BY <2>1, <4>1
      <4>4. QED
        BY <4>2, <4>3
    <3>5. QED
      BY <3>3, <3>4
  <2>2. PICK M : M = labels \cup {mark[i] : i \in 1..n}
    OBVIOUS
  <2>3. PICK H, K : /\ H = [l \in M |-> SpikesIn(SeriesOf(OfNode(points, l)), w)]
                    /\ K = [l \in M |-> Evaluated(SeriesOf(OfNode(points, l)), w)]
    OBVIOUS
  <2>4. /\ \A i \in 1..n : F[i] = H[mark[i]] /\ (mark[i] \notin labels => F[i] = {})
        /\ \A i \in 1..n : G[i] = K[mark[i]] /\ (mark[i] \notin labels => G[i] = {})
    <3> HIDE DEF labels
    <3>1. \A i \in 1..n : mark[i] \in M
      BY <2>2
    <3>2. QED
      BY <1>5, <1>6, <2>3, <3>1
  <2>5. /\ UNION {{l} \X H[l] : l \in labels} = Marked(mark, F, 1..n)
        /\ UNION {{l} \X K[l] : l \in labels} = Marked(mark, G, 1..n)
    BY <2>1, <2>4
  <2>6. \A l \in labels : /\ H[l] = SpikesIn(SeriesOf(OfNode(points, l)), w)
                          /\ K[l] = Evaluated(SeriesOf(OfNode(points, l)), w)
    <3> HIDE DEF labels
    <3>1. QED
      BY <2>2, <2>3
  <2>7. /\ {{l} \X H[l] : l \in labels} = {{l} \X SpikesIn(SeriesOf(OfNode(points, l)), w) : l \in labels}
        /\ {{l} \X K[l] : l \in labels} = {{l} \X Evaluated(SeriesOf(OfNode(points, l)), w) : l \in labels}
    <3> HIDE DEF labels
    <3>1. QED
      BY <2>6
  <2>8. QED
    BY <2>5, <2>7
<1>9. /\ Cardinality(Marked(mark, F, 1..n)) = SumOf([i \in 1..n |-> Cardinality(F[i])])
      /\ Cardinality(Marked(mark, G, 1..n)) = SumOf([i \in 1..n |-> Cardinality(G[i])])
  BY <1>2, <1>6, MarkedAreSummed
<1>10. SpikeEvidence(points, w) =
         [count |-> Cardinality(UNION {{l} \X SpikesIn(SeriesOf(OfNode(points, l)), w) : l \in labels}),
          evaluated |-> Cardinality(UNION {{l} \X Evaluated(SeriesOf(OfNode(points, l)), w) : l \in labels})]
  BY Zenon DEF SpikeEvidence, SeriesOf, OfNode
<1> HIDE DEF labels
<1>11. SpikeEvidence(points, w) = [count |-> SumOf([i \in 1..n |-> Cardinality(F[i])]),
                                   evaluated |-> SumOf([i \in 1..n |-> Cardinality(G[i])])]
  BY <1>8, <1>9, <1>10
<1>12. QED
  BY <1>3, <1>4, <1>11 DEF Total

-----------------------------------------------------------------------------
(* The points of all nodes, in every order.                                  *)

Record(L) == [node : L, ts : Int, value : Int \cup {NoValue}]

Laid(nodes) == [i \in DOMAIN nodes |-> Labelled(nodes[i].points, nodes[i].label)]

\* A label leaves times and values as they are.
LEMMA LabelledIs ==
    ASSUME NEW L, NEW l \in L, NEW P \in Seq(Point)
    PROVE  /\ Labelled(P, l) \in Seq(Record(L)) /\ Len(Labelled(P, l)) = Len(P)
           /\ \A j \in 1..Len(P) : Labelled(P, l)[j] = [node |-> l, ts |-> P[j].ts, value |-> P[j].value]
<1>1. PICK m : m = Len(P)
  OBVIOUS
<1>2. m \in Nat /\ DOMAIN P = 1..m /\ \A j \in 1..m : P[j] \in Point
  BY <1>1, ElementOfSeq, LenProperties
<1>3. Labelled(P, l) = [j \in 1..m |-> [node |-> l, ts |-> P[j].ts, value |-> P[j].value]]
  BY <1>2 DEF Labelled
<1>4. \A j \in 1..m : [node |-> l, ts |-> P[j].ts, value |-> P[j].value] \in Record(L)
  BY <1>2 DEF Point, Record
<1>5. Labelled(P, l) \in [1..m -> Record(L)]
  BY <1>3, <1>4
<1>6. Labelled(P, l) \in Seq(Record(L)) /\ Len(Labelled(P, l)) = m
  BY <1>2, <1>5
<1>7. QED
  BY <1>1, <1>3, <1>6

\* The flat sequence has every point of every node once.
LEMMA FlatIsSpread ==
    ASSUME NEW n \in Nat \ {0}, NEW L, NEW nodes \in [1..n -> [label : L, points : Seq(Point)]]
    PROVE  \E at, pl : Spread(FlattenSeq(Laid(nodes)), at, pl, nodes, n)
<1>1. PICK seqs : seqs = Laid(nodes)
  OBVIOUS
<1>2. ASSUME NEW i \in 1..n
      PROVE  /\ seqs[i] \in Seq(Record(L)) /\ Len(seqs[i]) = Len(nodes[i].points)
             /\ \A j \in 1..Len(seqs[i]) : /\ seqs[i][j].node = nodes[i].label
                                           /\ seqs[i][j].ts = nodes[i].points[j].ts
                                           /\ seqs[i][j].value = nodes[i].points[j].value
  <2>1. PICK P, l : P = nodes[i].points /\ l = nodes[i].label
    OBVIOUS
  <2>2. P \in Seq(Point) /\ l \in L
    BY <2>1
  <2>3. seqs[i] = Labelled(P, l)
    BY <1>1, <2>1 DEF Laid
  <2>4. PICK s : s = Labelled(P, l)
    OBVIOUS
  <2>5. s \in Seq(Record(L)) /\ Len(s) = Len(P)
    BY <2>2, <2>4, LabelledIs
  <2>6. ASSUME NEW j \in 1..Len(P) PROVE s[j].node = l /\ s[j].ts = P[j].ts /\ s[j].value = P[j].value
    <3>1. Labelled(P, l)[j] = [node |-> l, ts |-> P[j].ts, value |-> P[j].value]
      BY <2>2, LabelledIs
    <3>2. s[j] = [node |-> l, ts |-> P[j].ts, value |-> P[j].value]
      BY <2>4, <3>1
    <3>3. QED
      BY <3>2
  <2>7. seqs[i] = s /\ nodes[i].points = P /\ nodes[i].label = l
    BY <2>1, <2>3, <2>4
  <2>8. QED
    BY <2>5, <2>6, <2>7
<1>3. seqs \in [1..n -> Seq(Record(L))]
  BY <1>1, <1>2 DEF Laid
<1>4. PICK flat : flat = FlattenSeq(seqs)
  OBVIOUS
<1>5. flat \in Seq(Record(L)) /\ \E at, pl : Flattens(flat, at, pl, seqs, n)
  BY <1>3, <1>4, FlattenIs
<1>6. PICK at, pl : Flattens(flat, at, pl, seqs, n)
  BY <1>5
<1>7. PICK N \in Nat : N = Len(flat) /\ DOMAIN flat = 1..N
  BY <1>5
<1>8. ASSUME NEW p \in DOMAIN flat
      PROVE  /\ at[p] \in 1..n /\ pl[p] \in 1..Len(nodes[at[p]].points)
             /\ flat[p].node = nodes[at[p]].label
             /\ flat[p].ts = nodes[at[p]].points[pl[p]].ts
             /\ flat[p].value = nodes[at[p]].points[pl[p]].value
  <2>1. at[p] \in 1..n /\ pl[p] \in 1..Len(seqs[at[p]]) /\ flat[p] = seqs[at[p]][pl[p]]
    BY <1>6, <1>7 DEF Flattens
  <2>2. QED
    BY <1>2, <2>1
<1>9. \A p, q \in DOMAIN flat : at[p] = at[q] /\ pl[p] = pl[q] => p = q
  BY <1>6, <1>7 DEF Flattens
<1>10. ASSUME NEW i \in 1..n, NEW j \in 1..Len(nodes[i].points)
       PROVE  \E p \in DOMAIN flat : at[p] = i /\ pl[p] = j
  <2>1. j \in 1..Len(seqs[i])
    BY <1>2
  <2>2. QED
    BY <1>6, <1>7, <2>1 DEF Flattens
<1>11. Spread(flat, at, pl, nodes, n)
  BY <1>7, <1>8, <1>9, <1>10 DEF Spread
<1>12. QED
  BY <1>1, <1>4, <1>11

Backwards(nodes) == [i \in DOMAIN nodes |-> [nodes[i] EXCEPT !.points = Reverse(@)]]

\* Read backwards they are the same points.
LEMMA BackwardsIsSpread ==
    ASSUME NEW n \in Nat, NEW L, NEW nodes \in [1..n -> [label : L, points : Seq(Point)]]
    PROVE  /\ Backwards(nodes) \in [1..n -> [label : L, points : Seq(Point)]]
           /\ \A points, at, pl : Spread(points, at, pl, Backwards(nodes), n) =>
                 \E back : Spread(points, at, back, nodes, n)
<1>1. PICK mirrored : mirrored = Backwards(nodes)
  OBVIOUS
<1>2. ASSUME NEW i \in 1..n
      PROVE  /\ mirrored[i] \in [label : L, points : Seq(Point)] /\ mirrored[i].label = nodes[i].label
             /\ Len(nodes[i].points) \in Nat /\ Len(mirrored[i].points) = Len(nodes[i].points)
             /\ \A j \in 1..Len(nodes[i].points) :
                   mirrored[i].points[j] = nodes[i].points[Len(nodes[i].points) + 1 - j]
  <2>1. PICK P, m : P = nodes[i].points /\ m = Len(P)
    OBVIOUS
  <2>2. P \in Seq(Point) /\ m \in Nat /\ \A j \in 1..m : P[j] \in Point
    BY <2>1, ElementOfSeq, LenProperties
  <2>3. mirrored[i] = [nodes[i] EXCEPT !.points = Reverse(P)]
    BY <1>1, <2>1 DEF Backwards
  <2>4. mirrored[i].points = Reverse(P) /\ mirrored[i].label = nodes[i].label
    BY <2>3
  <2>5. PICK R : R = Reverse(P)
    OBVIOUS
  <2>6. R = [j \in 1..m |-> P[m - j + 1]]
    BY <2>1, <2>5 DEF Reverse
  <2>7. \A j \in 1..m : m - j + 1 = m + 1 - j /\ m + 1 - j \in 1..m
    BY <2>2
  <2>8. R \in [1..m -> Point] /\ \A j \in 1..m : R[j] = P[m + 1 - j]
    BY <2>2, <2>6, <2>7
  <2>9. R \in Seq(Point) /\ Len(R) = m
    BY <2>2, <2>8
  <2>10. mirrored[i] \in [label : L, points : Seq(Point)]
    BY <2>3, <2>5, <2>9
  <2>11. QED
    BY <2>1, <2>2, <2>4, <2>5, <2>8, <2>9, <2>10
<1>3. mirrored \in [1..n -> [label : L, points : Seq(Point)]]
  BY <1>1, <1>2 DEF Backwards
<1>4. ASSUME NEW points, NEW at, NEW pl, Spread(points, at, pl, mirrored, n)
      PROVE  \E back : Spread(points, at, back, nodes, n)
  <2>1. PICK back : back = [p \in DOMAIN points |-> Len(nodes[at[p]].points) + 1 - pl[p]]
    OBVIOUS
  <2>2. ASSUME NEW p \in DOMAIN points
        PROVE  /\ at[p] \in 1..n /\ back[p] \in 1..Len(nodes[at[p]].points)
               /\ Len(nodes[at[p]].points) \in Nat /\ pl[p] \in 1..Len(nodes[at[p]].points)
               /\ back[p] = Len(nodes[at[p]].points) + 1 - pl[p]
               /\ points[p].node = nodes[at[p]].label
               /\ points[p].ts = nodes[at[p]].points[back[p]].ts
               /\ points[p].value = nodes[at[p]].points[back[p]].value
    <3>1. /\ at[p] \in 1..n /\ pl[p] \in 1..Len(mirrored[at[p]].points)
          /\ points[p].node = mirrored[at[p]].label
          /\ points[p].ts = mirrored[at[p]].points[pl[p]].ts
          /\ points[p].value = mirrored[at[p]].points[pl[p]].value
      BY <1>4 DEF Spread
    <3>2. PICK i, m, j : /\ i = at[p] /\ m = Len(nodes[i].points) /\ j = pl[p]
                       /\ i \in 1..n /\ m \in Nat /\ j \in 1..m
      BY <1>2, <3>1
    <3>3. back[p] = m + 1 - j /\ m + 1 - j \in 1..m
      BY <2>1, <3>2
    <3>4. mirrored[i].points[j] = nodes[i].points[back[p]] /\ mirrored[i].label = nodes[i].label
      BY <1>2, <3>2, <3>3
    <3>5. QED
      BY <3>1, <3>2, <3>3, <3>4
  <2>3. \A p, q \in DOMAIN points : at[p] = at[q] /\ back[p] = back[q] => p = q
    <3> SUFFICES ASSUME NEW p \in DOMAIN points, NEW q \in DOMAIN points, at[p] = at[q], back[p] = back[q]
                 PROVE  p = q
      OBVIOUS
    <3>1. pl[p] = pl[q]
      BY <2>2
    <3>2. QED
      BY <1>4, <3>1 DEF Spread
  <2>4. ASSUME NEW i \in 1..n, NEW j \in 1..Len(nodes[i].points)
        PROVE  \E p \in DOMAIN points : at[p] = i /\ back[p] = j
    <3>1. PICK k : k = Len(nodes[i].points) + 1 - j
      OBVIOUS
    <3>2. k \in 1..Len(mirrored[i].points)
      BY <1>2, <3>1
    <3>3. PICK p \in DOMAIN points : at[p] = i /\ pl[p] = k
      BY <1>4, <3>2 DEF Spread
    <3>4. back[p] = j
      BY <1>2, <2>2, <3>1, <3>3
    <3>5. QED
      BY <3>3, <3>4
  <2>5. \E N \in Nat : DOMAIN points = 1..N
    BY <1>4 DEF Spread
  <2>6. Spread(points, at, back, nodes, n)
    BY <2>2, <2>3, <2>4, <2>5 DEF Spread
  <2>7. QED
    BY <2>6
<1>5. QED
  BY <1>1, <1>3, <1>4

\* Two sequences of all the points differ in their order only.
LEMMA SpreadTheSame ==
    ASSUME NEW n \in Nat, NEW L, NEW nodes, AreNodes(nodes, n, L),
           NEW A, NEW at, NEW pl, Spread(A, at, pl, nodes, n),
           NEW B, NEW on, NEW po, Spread(B, on, po, nodes, n)
    PROVE  \E N \in Nat : AreTimed(A, N) /\ AreTimed(B, N) /\ \E r : SamePoints(r, N, A, B)
<1>1. PICK D, E : D = DOMAIN A /\ E = DOMAIN B
  OBVIOUS
<1>2. PICK N \in Nat, M \in Nat : D = 1..N /\ E = 1..M
  BY <1>1 DEF Spread
<1>3. /\ \A p \in D : at[p] \in 1..n /\ pl[p] \in 1..Len(nodes[at[p]].points)
      /\ \A p \in E : on[p] \in 1..n /\ po[p] \in 1..Len(nodes[on[p]].points)
      /\ \A p, q \in D : at[p] = at[q] /\ pl[p] = pl[q] => p = q
      /\ \A p, q \in E : on[p] = on[q] /\ po[p] = po[q] => p = q
      /\ \A i \in 1..n : \A j \in 1..Len(nodes[i].points) : \E p \in D : at[p] = i /\ pl[p] = j
      /\ \A i \in 1..n : \A j \in 1..Len(nodes[i].points) : \E p \in E : on[p] = i /\ po[p] = j
  BY <1>1 DEF Spread
<1>4. PICK r : r = [k \in E |-> CHOOSE p \in D : at[p] = on[k] /\ pl[p] = po[k]]
  OBVIOUS
<1>5. \A k \in E : r[k] \in D /\ at[r[k]] = on[k] /\ pl[r[k]] = po[k]
  BY <1>3, <1>4
<1>6. r \in [E -> D]
  BY <1>4, <1>5
<1>7. \A k, l \in E : r[k] = r[l] => k = l
  BY <1>3, <1>5
<1>8. ASSUME NEW p \in D PROVE \E k \in E : r[k] = p
  <2>1. PICK k \in E : on[k] = at[p] /\ po[k] = pl[p]
    BY <1>3
  <2>2. at[r[k]] = at[p] /\ pl[r[k]] = pl[p] /\ r[k] \in D
    BY <1>5, <2>1
  <2>3. QED
    BY <1>3, <2>2
<1>9. r \in Bijection(E, D)
  BY <1>6, <1>7, <1>8 DEF Bijection, Injection, Surjection, IsInjective
<1>10. M = N
  <2>1. IsFiniteSet(1..M) /\ Cardinality(1..M) = M /\ Cardinality(1..N) = N
    BY FS_Interval
  <2>2. Cardinality(E) = Cardinality(D)
    BY <1>2, <1>9, <2>1, FS_Bijection DEF ExistsBijection
  <2>3. QED
    BY <1>2, <2>1, <2>2
<1>11. /\ \A p \in D : /\ A[p].ts = nodes[at[p]].points[pl[p]].ts
                       /\ A[p].value = nodes[at[p]].points[pl[p]].value
       /\ \A p \in E : /\ B[p].ts = nodes[on[p]].points[po[p]].ts
                       /\ B[p].value = nodes[on[p]].points[po[p]].value
  BY <1>1 DEF Spread
<1>12. \A k \in E : B[k].ts = A[r[k]].ts /\ B[k].value = A[r[k]].value
  BY <1>5, <1>11
<1>13. SamePoints(r, N, A, B)
  BY <1>2, <1>9, <1>10, <1>12 DEF SamePoints
<1>14. \A i \in 1..n : \A j \in 1..Len(nodes[i].points) :
          nodes[i].points[j].ts \in Int /\ nodes[i].points[j].value \in Int \cup {NoValue}
  <2> SUFFICES ASSUME NEW i \in 1..n
               PROVE  \A j \in 1..Len(nodes[i].points) :
                         nodes[i].points[j].ts \in Int /\ nodes[i].points[j].value \in Int \cup {NoValue}
    OBVIOUS
  <2>1. AreTimed(nodes[i].points, Len(nodes[i].points))
    BY NodesAreTimed
  <2>2. QED
    BY <2>1 DEF AreTimed
<1>15. AreTimed(A, N) /\ AreTimed(B, N)
  <2>1. ASSUME NEW p \in 1..N PROVE A[p].ts \in Int /\ A[p].value \in Int \cup {NoValue}
    <3>1. PICK i, j : i = at[p] /\ j = pl[p]
      OBVIOUS
    <3>2. p \in D
      BY <1>2
    <3>3. i \in 1..n /\ j \in 1..Len(nodes[i].points)
      BY <1>3, <3>1, <3>2
    <3>4. A[p].ts = nodes[i].points[j].ts /\ A[p].value = nodes[i].points[j].value
      BY <1>11, <3>1, <3>2
    <3>5. nodes[i].points[j].ts \in Int /\ nodes[i].points[j].value \in Int \cup {NoValue}
      BY <1>14, <3>3
    <3>6. QED
      BY <3>4, <3>5
  <2>2. ASSUME NEW p \in 1..M PROVE B[p].ts \in Int /\ B[p].value \in Int \cup {NoValue}
    <3>1. PICK i, j : i = on[p] /\ j = po[p]
      OBVIOUS
    <3>2. p \in E
      BY <1>2
    <3>3. i \in 1..n /\ j \in 1..Len(nodes[i].points)
      BY <1>3, <3>1, <3>2
    <3>4. B[p].ts = nodes[i].points[j].ts /\ B[p].value = nodes[i].points[j].value
      BY <1>11, <3>1, <3>2
    <3>5. nodes[i].points[j].ts \in Int /\ nodes[i].points[j].value \in Int \cup {NoValue}
      BY <1>14, <3>3
    <3>6. QED
      BY <3>4, <3>5
  <2>3. DOMAIN A = 1..N /\ DOMAIN B = 1..N
    BY <1>1, <1>2, <1>10
  <2>4. QED
    BY <1>10, <2>1, <2>2, <2>3 DEF AreTimed
<1>16. QED
  BY <1>13, <1>15

-----------------------------------------------------------------------------
(* An instance is its nodes.                                                 *)

\* Without values no point has one.
LEMMA NoValuesAreLost ==
    ASSUME NEW m \in Nat, NEW P, AreTimed(P, m), ValuesOf(P) = <<>>
    PROVE  Known(P, m) = {}
<1>1. PICK V, k : V = Known(P, m) /\ k = Cardinality(V)
  OBVIOUS
<1>2. IsFiniteSet(V) /\ k \in Nat /\ ValuesOf(P) \in [1..k -> Int]
  BY <1>1, ValuesAre
<1>3. k = 0
  <2>1. DOMAIN ValuesOf(P) = 1..k
    BY <1>2
  <2>2. DOMAIN <<>> = {}
    OBVIOUS
  <2>3. 1..k = {}
    BY <2>1, <2>2
  <2>4. QED
    BY <1>2, <2>3
<1>4. V = {}
  BY <1>1, <1>2, <1>3, FS_EmptySet
<1>5. QED
  BY <1>1, <1>4

\* The spikes that are reported are those of the nodes, also when no point has a value.
LEMMA ReportedSpikes ==
    ASSUME NEW n \in Nat, NEW L, NEW nodes, AreNodes(nodes, n, L), NEW m, NEW w, NEW day,
           NEW points, NEW at, NEW pl, Spread(points, at, pl, nodes, n)
    PROVE  Evidence(m, points, w, day).spikes = Total(nodes, w)
<1>1. SpikeEvidence(points, w) = Total(nodes, w)
  BY SpikesAreSummed
<1>2. CASE ValuesOf(points) # <<>>
  <2>1. Evidence(m, points, w, day).spikes = SpikeEvidence(points, w)
    BY <1>2 DEF Evidence
  <2>2. QED
    BY <1>1, <2>1
<1>3. CASE ValuesOf(points) = <<>>
  <2>1. Evidence(m, points, w, day).spikes = [count |-> 0, evaluated |-> 0]
    BY <1>3 DEF Evidence, NoEvidence
  <2>2. PICK N \in Nat : AreTimed(points, N)
    BY SpreadTheSame
  <2>3. Known(points, N) = {}
    BY <1>3, <2>2, NoValuesAreLost
  <2>4. \A p \in DOMAIN points : points[p].value = NoValue
    BY <2>2, <2>3 DEF AreTimed, Known
  <2>5. ASSUME NEW i \in 1..n
        PROVE  NodeSpikes(nodes, w)[i] = {} /\ NodeEvaluated(nodes, w)[i] = {}
    <3>1. PICK P, l : P = nodes[i].points /\ l = Len(P)
      OBVIOUS
    <3>2. l \in Nat /\ AreTimed(P, l)
      BY <3>1, NodesAreTimed
    <3>3. ASSUME NEW j \in 1..l PROVE P[j].value = NoValue
      <4>1. PICK p \in DOMAIN points : at[p] = i /\ pl[p] = j
        BY <3>1 DEF Spread
      <4>2. points[p].value = P[j].value
        BY <3>1, <4>1 DEF Spread
      <4>3. QED
        BY <2>4, <4>2
    <3>4. Known(P, l) = {}
      BY <3>3 DEF Known
    <3>5. PICK k \in Nat : SeriesOf(P) \in [1..k -> Int] /\ k = 0
      BY <3>2, <3>4, SeriesIs
    <3>6. SpikesIn(SeriesOf(P), w) = {} /\ Evaluated(SeriesOf(P), w) = {}
      BY <3>5, SpikesAreOfSeries
    <3>7. DOMAIN nodes = 1..n
      BY DEF AreNodes
    <3>8. QED
      BY <3>1, <3>6, <3>7 DEF NodeSpikes, NodeEvaluated
  <2>6. Total(nodes, w) = [count |-> 0, evaluated |-> 0]
    <3>1. DOMAIN nodes = 1..n
      BY DEF AreNodes
    <3>2. PICK F, G : F = NodeSpikes(nodes, w) /\ G = NodeEvaluated(nodes, w)
      OBVIOUS
    <3>3. PICK mark : mark = [i \in 1..n |-> i]
      OBVIOUS
    <3>4. \A i, j \in 1..n : mark[i] = mark[j] => i = j
      BY <3>3
    <3>5. ASSUME NEW H, \A i \in 1..n : H[i] = {}
          PROVE  SumOf([i \in 1..n |-> Cardinality(H[i])]) = 0
      <4>1. \A i \in 1..n : IsFiniteSet(H[i])
        BY <3>5, FS_EmptySet
      <4>2. Cardinality(Marked(mark, H, 1..n)) = SumOf([i \in 1..n |-> Cardinality(H[i])])
        BY <3>4, <4>1, MarkedAreSummed
      <4>3. Marked(mark, H, 1..n) = {}
        BY <3>5 DEF Marked
      <4>4. QED
        BY <4>2, <4>3, FS_EmptySet
    <3>6. SumOf([i \in 1..n |-> Cardinality(F[i])]) = 0 /\ SumOf([i \in 1..n |-> Cardinality(G[i])]) = 0
      BY <2>5, <3>2, <3>5
    <3>7. QED
      BY <3>1, <3>2, <3>6 DEF Total
  <2>7. QED
    BY <2>1, <2>6
<1>4. QED
  BY <1>2, <1>3

\* The evidence of a metric that is no throughput does not depend on the order.
LEMMA EvidenceIsTheSame ==
    ASSUME NEW n \in Nat, NEW L, NEW nodes, AreNodes(nodes, n, L),
           NEW m, m \notin Throughputs, NEW w, NEW day,
           NEW A, NEW at, NEW pl, Spread(A, at, pl, nodes, n),
           NEW B, NEW on, NEW po, Spread(B, on, po, nodes, n)
    PROVE  Evidence(m, A, w, day) = Evidence(m, B, w, day)
<1>1. PICK N \in Nat : AreTimed(A, N) /\ AreTimed(B, N) /\ \E r : SamePoints(r, N, A, B)
  BY SpreadTheSame
<1>2. PICK r : SamePoints(r, N, A, B)
  BY <1>1
<1>3. PICK k \in Nat : /\ ValuesOf(A) \in [1..k -> Int] /\ ValuesOf(B) \in [1..k -> Int]
                       /\ \E q : Rearranges(q, k, ValuesOf(A), ValuesOf(B))
  BY <1>1, <1>2, ValuesRearranged
<1>4. PICK s, t : s = ValuesOf(A) /\ t = ValuesOf(B)
  OBVIOUS
<1>5. PICK q : s \in [1..k -> Int] /\ t \in [1..k -> Int] /\ Rearranges(q, k, s, t)
  BY <1>3, <1>4
<1>6. SpikeEvidence(A, w) = SpikeEvidence(B, w)
  <2>1. SpikeEvidence(A, w) = Total(nodes, w) /\ SpikeEvidence(B, w) = Total(nodes, w)
    BY SpikesAreSummed
  <2>2. QED
    BY <2>1
<1>7. CASE k = 0
  <2>1. s = <<>> /\ t = <<>>
    BY <1>5, <1>7
  <2>2. QED
    BY <1>4, <2>1 DEF Evidence
<1>8. CASE k # 0
  <2>1. s # <<>> /\ t # <<>>
    BY <1>5, <1>8
  <2>2. Distribution(s) = Distribution(t)
    BY <1>5, <1>8, DistributionIsTheSame
  <2>3. PICK d, spikes : /\ d = Distribution(s) /\ d = Distribution(t)
                         /\ spikes = SpikeEvidence(A, w) /\ spikes = SpikeEvidence(B, w)
    BY <1>6, <2>2
  <2>4. \A x : Saturation(m, d, spikes, x) = "none"
    BY DEF Saturation
  <2>5. Evidence(m, A, w, day) = [tier |-> SpikeRisk(m, d, spikes), pressure |-> Pressure(m, d),
                                  saturation |-> "none", spikes |-> spikes]
    BY <1>4, <2>1, <2>3, <2>4 DEF Evidence
  <2>6. Evidence(m, B, w, day) = [tier |-> SpikeRisk(m, d, spikes), pressure |-> Pressure(m, d),
                                  saturation |-> "none", spikes |-> spikes]
    BY <1>4, <2>1, <2>3, <2>4 DEF Evidence
  <2>7. QED
    BY <2>5, <2>6
<1>9. QED
  BY <1>7, <1>8

\* The sum of one value is that value.
LEMMA SumOfOne ==
    ASSUME NEW x \in Int
    PROVE  SumOf([i \in 1..1 |-> x]) = x
<1>1. PICK D, fun : D = 1..1 /\ fun = [i \in D |-> x]
  OBVIOUS
<1>2. D = {1} /\ fun \in [D -> Int] /\ fun[1] = x
  BY <1>1
<1>3. IsFiniteSet(D)
  BY <1>2, FS_Singleton
<1>4. PICK g \in [SUBSET D -> Int] : SumOf(fun) = g[D] /\ \A T \in SUBSET D : SumsUp(g, fun, T)
  BY <1>2, <1>3, SumIs
<1>5. AnyOf(D) = 1
  BY <1>2 DEF AnyOf
<1>6. g[{}] = 0 /\ g[D] = fun[1] + g[D \ {1}]
  <2>1. SumsUp(g, fun, {}) /\ SumsUp(g, fun, D)
    BY <1>4
  <2>2. D # {}
    BY <1>2
  <2>3. QED
    BY <1>5, <2>1, <2>2 DEF SumsUp
<1>7. D \ {1} = {}
  BY <1>2
<1>8. g[D] = x
  BY <1>2, <1>6, <1>7
<1>9. SumOf(fun) = x
  BY <1>4, <1>8
<1>10. QED
  BY <1>1, <1>9

IsReported(nodes, i, m, w, day) ==
    NodeEvidence(m, nodes[i], w, day).spikes = [count |-> Cardinality(NodeSpikes(nodes, w)[i]),
                                                evaluated |-> Cardinality(NodeEvaluated(nodes, w)[i])]

\* The spikes of a node on its own are those of its series.
LEMMA NodeOnItsOwn ==
    ASSUME NEW n \in Nat, NEW L, NEW nodes, AreNodes(nodes, n, L), NEW i \in 1..n, NEW m, NEW w, NEW day
    PROVE  IsReported(nodes, i, m, w, day)
<1>1. PICK P, l : P = nodes[i].points /\ l = Len(P)
  OBVIOUS
<1>2. P \in Seq(Point) /\ l \in Nat /\ AreTimed(P, l) /\ Apart(P, l)
  <2>1. nodes[i] \in [label : L, points : Seq(Point)]
    BY NodesAreTimed
  <2>2. QED
    BY <1>1, <2>1, NodesAreTimed
<1>3. PICK own : own = [j \in 1..1 |-> [label |-> "single", points |-> P]]
  OBVIOUS
<1>4. AreNodes(own, 1, {"single"})
  <2>1. own \in [1..1 -> [label : {"single"}, points : Seq(Point)]]
    BY <1>2, <1>3
  <2>2. \A j \in 1..1 : own[j].points = P /\ Apart(own[j].points, Len(own[j].points))
    BY <1>1, <1>2, <1>3
  <2>3. \A j, k \in 1..1 : j = k
    OBVIOUS
  <2>4. QED
    BY <2>1, <2>2, <2>3 DEF AreNodes
<1>5. PICK points : points = Labelled(P, "single")
  OBVIOUS
<1>6. DOMAIN points = 1..l /\ \A j \in 1..l : points[j] = [node |-> "single", ts |-> P[j].ts, value |-> P[j].value]
  BY <1>2, <1>5 DEF Labelled, AreTimed
<1>7. PICK at, pl : at = [j \in 1..l |-> 1] /\ pl = [j \in 1..l |-> j]
  OBVIOUS
<1>8. Spread(points, at, pl, own, 1)
  <2>1. \A j \in 1..1 : j = 1 /\ own[j].label = "single" /\ own[j].points = P
    BY <1>3
  <2>2. ASSUME NEW p \in 1..l
        PROVE  /\ at[p] \in 1..1 /\ pl[p] \in 1..Len(own[at[p]].points)
               /\ points[p].node = own[at[p]].label
               /\ points[p].ts = own[at[p]].points[pl[p]].ts
               /\ points[p].value = own[at[p]].points[pl[p]].value
    <3>1. at[p] = 1 /\ pl[p] = p /\ 1 \in 1..1
      BY <1>7
    <3>2. own[at[p]].points = P /\ own[at[p]].label = "single"
      BY <2>1, <3>1
    <3>3. points[p] = [node |-> "single", ts |-> P[p].ts, value |-> P[p].value]
      BY <1>6
    <3>4. QED
      BY <1>1, <3>1, <3>2, <3>3
  <2>3. \A p, q \in 1..l : at[p] = at[q] /\ pl[p] = pl[q] => p = q
    BY <1>7
  <2>4. ASSUME NEW j \in 1..1, NEW k \in 1..Len(own[j].points)
        PROVE  \E p \in 1..l : at[p] = j /\ pl[p] = k
    BY <1>1, <1>7, <2>1
  <2>5. DOMAIN points = 1..l /\ \E N \in Nat : DOMAIN points = 1..N
    BY <1>2, <1>6
  <2>6. \A p \in DOMAIN points :
           /\ at[p] \in 1..1 /\ pl[p] \in 1..Len(own[at[p]].points)
           /\ points[p].node = own[at[p]].label
           /\ points[p].ts = own[at[p]].points[pl[p]].ts
           /\ points[p].value = own[at[p]].points[pl[p]].value
    BY <2>2, <2>5
  <2>7. \A p, q \in DOMAIN points : at[p] = at[q] /\ pl[p] = pl[q] => p = q
    BY <2>3, <2>5
  <2>8. \A j \in 1..1 : \A k \in 1..Len(own[j].points) : \E p \in DOMAIN points : at[p] = j /\ pl[p] = k
    <3> SUFFICES ASSUME NEW j \in 1..1, NEW k \in 1..Len(own[j].points)
                 PROVE  \E p \in DOMAIN points : at[p] = j /\ pl[p] = k
      OBVIOUS
    <3>1. PICK p \in 1..l : at[p] = j /\ pl[p] = k
      BY <2>4
    <3>2. p \in DOMAIN points
      BY <2>5
    <3>3. QED
      BY <3>1, <3>2
  <2>9. QED
    BY <2>5, <2>6, <2>7, <2>8 DEF Spread
<1>9. Evidence(m, points, w, day).spikes = Total(own, w)
  BY <1>4, <1>8, ReportedSpikes
<1>10. NodeEvidence(m, nodes[i], w, day) = Evidence(m, points, w, day)
  BY <1>1, <1>5 DEF NodeEvidence
<1>11. PICK S, E : S = SpikesIn(SeriesOf(P), w) /\ E = Evaluated(SeriesOf(P), w)
  OBVIOUS
<1>12. NodeSpikes(nodes, w)[i] = S /\ NodeEvaluated(nodes, w)[i] = E
  <2>1. DOMAIN nodes = 1..n
    BY DEF AreNodes
  <2>2. QED
    BY <1>1, <1>11, <2>1 DEF NodeSpikes, NodeEvaluated
<1>13. Cardinality(S) \in Int /\ Cardinality(E) \in Int
  <2>1. PICK k \in Nat : SeriesOf(P) \in [1..k -> Int]
    BY <1>2, SeriesIs
  <2>2. IsFiniteSet(S) /\ IsFiniteSet(E)
    BY <1>11, <2>1, SpikesAreOfSeries
  <2>3. QED
    BY <2>2, FS_CardinalityType
<1>14. Total(own, w) = [count |-> Cardinality(S), evaluated |-> Cardinality(E)]
  <2>1. DOMAIN own = 1..1
    BY <1>3
  <2>2. NodeSpikes(own, w) = [j \in 1..1 |-> S] /\ NodeEvaluated(own, w) = [j \in 1..1 |-> E]
    BY <1>3, <1>11, <2>1 DEF NodeSpikes, NodeEvaluated
  <2>3. /\ [j \in 1..1 |-> Cardinality(NodeSpikes(own, w)[j])] = [j \in 1..1 |-> Cardinality(S)]
        /\ [j \in 1..1 |-> Cardinality(NodeEvaluated(own, w)[j])] = [j \in 1..1 |-> Cardinality(E)]
    BY <2>2
  <2>4. SumOf([j \in 1..1 |-> Cardinality(S)]) = Cardinality(S) /\ SumOf([j \in 1..1 |-> Cardinality(E)]) = Cardinality(E)
    BY <1>13, SumOfOne
  <2>5. QED
    BY <2>1, <2>3, <2>4 DEF Total
<1>15. QED
  BY <1>9, <1>10, <1>12, <1>14 DEF IsReported

\* What each node lacks of the same number adds up to what all lack.
LEMMA LacksAddUp ==
    ASSUME NEW n \in Nat, NEW q \in Nat, NEW f \in [1..n -> 0..q]
    PROVE  /\ SumOf(f) \in Int /\ SumOf(f) <= q * n
           /\ SumOf([i \in 1..n |-> q - f[i]]) = q * n - SumOf(f)
<1>1. PICK D, h : D = 1..n /\ h = [i \in D |-> q - f[i]]
  OBVIOUS
<1>2. IsFiniteSet(D) /\ Cardinality(D) = n
  <2>1. IsFiniteSet(1..n) /\ Cardinality(1..n) = n
    BY FS_Interval
  <2>2. QED
    BY <1>1, <2>1
<1>3. f \in [D -> Int] /\ h \in [D -> Int] /\ \A i \in D : f[i] \in 0..q /\ h[i] = q - f[i]
  BY <1>1
<1>4. PICK g \in [SUBSET D -> Int] : SumOf(f) = g[D] /\ \A T \in SUBSET D : SumsUp(g, f, T)
  BY <1>2, <1>3, SumIs
<1>5. PICK e \in [SUBSET D -> Int] : SumOf(h) = e[D] /\ \A T \in SUBSET D : SumsUp(e, h, T)
  BY <1>2, <1>3, SumIs
<1> DEFINE Good == {T \in SUBSET D : g[T] <= q * Cardinality(T) /\ e[T] = q * Cardinality(T) - g[T]}
<1>6. {} \in Good
  <2>1. g[{}] = 0 /\ e[{}] = 0
    BY <1>4, <1>5 DEF SumsUp
  <2>2. Cardinality({}) = 0
    BY FS_EmptySet
  <2>3. QED
    BY <2>1, <2>2
<1>7. ASSUME NEW T \in SUBSET D, T # {}, T \ {AnyOf(T)} \in Good PROVE T \in Good
  <2>1. PICK y : y = AnyOf(T) /\ y \in T /\ y \in D
    BY <1>7 DEF AnyOf
  <2>2. PICK U : U = T \ {y}
    OBVIOUS
  <2>3. PICK k \in Nat : k = Cardinality(U) /\ Cardinality(T) = k + 1
    <3>1. IsFiniteSet(T)
      BY <1>2, FS_Subset
    <3>2. IsFiniteSet(U) /\ Cardinality(U) = Cardinality(T) - 1
      BY <2>1, <2>2, <3>1, FS_RemoveElement
    <3>3. Cardinality(T) \in Nat /\ Cardinality(U) \in Nat
      BY <3>1, <3>2, FS_CardinalityType
    <3>4. QED
      BY <3>2, <3>3
  <2>4. g[T] = f[y] + g[U] /\ e[T] = h[y] + e[U]
    BY <1>4, <1>5, <1>7, <2>1, <2>2 DEF SumsUp
  <2>5. g[U] <= q * k /\ e[U] = q * k - g[U]
    BY <1>7, <2>1, <2>2, <2>3
  <2>6. f[y] \in 0..q /\ g[U] \in Int /\ q * k \in Int
    <3>1. U \in SUBSET D
      BY <2>2
    <3>2. g[U] \in Int
      BY <1>4, <3>1
    <3>3. QED
      BY <1>3, <2>1, <3>2
  <2>7. PICK a1 \in 0..q, b1 \in Int, p \in Int : a1 = f[y] /\ b1 = g[U] /\ p = q * k
    BY <2>6
  <2>8. q * (k + 1) = p + q
    BY <2>7
  <2>9. g[T] = a1 + b1 /\ b1 <= p /\ e[T] = (q - a1) + (p - b1)
    BY <1>3, <2>1, <2>4, <2>5, <2>7
  <2>10. a1 + b1 <= p + q /\ (q - a1) + (p - b1) = p + q - (a1 + b1)
    BY <2>9
  <2>11. g[T] <= p + q /\ e[T] = p + q - g[T]
    BY <2>9, <2>10
  <2>12. g[T] <= q * Cardinality(T) /\ e[T] = q * Cardinality(T) - g[T]
    BY <2>3, <2>8, <2>11
  <2>13. QED
    BY <2>12
<1> HIDE DEF Good
<1>8. D \in Good
  <2>1. \A T \in SUBSET D : T \in Good
    BY <1>2, <1>6, <1>7, OneLess
  <2>2. QED
    BY <2>1
<1>9. g[D] \in Int /\ g[D] <= q * n /\ e[D] = q * n - g[D]
  BY <1>2, <1>4, <1>8 DEF Good
<1>10. QED
  BY <1>1, <1>4, <1>5, <1>9

Counts(nodes) == [i \in DOMAIN nodes |-> Len(ValuesOf(nodes[i].points))]

\* An instance lacks the points that its nodes lack.
LEMMA LacksOfNodes ==
    ASSUME NEW n \in Nat, NEW L, NEW nodes, AreNodes(nodes, n, L), NEW span \in Nat,
           \A i \in 1..n : Len(nodes[i].points) <= span + 1
    PROVE  Missing(span, SumOf(Counts(nodes)), n)
              = SumOf([i \in 1..n |-> Missing(span, Counts(nodes)[i], 1)])
<1>1. PICK q, f : q \in Nat /\ q = span + 1 /\ f = Counts(nodes)
  OBVIOUS
<1>2. ASSUME NEW i \in 1..n PROVE f[i] \in 0..q
  <2>1. PICK P, m : P = nodes[i].points /\ m = Len(P)
    OBVIOUS
  <2>2. m \in Nat /\ AreTimed(P, m) /\ m <= q
    BY <1>1, <2>1, NodesAreTimed
  <2>3. PICK k : k = Cardinality(Known(P, m))
    OBVIOUS
  <2>4. k \in Nat /\ k <= m /\ ValuesOf(P) \in [1..k -> Int]
    BY <2>2, <2>3, ValuesAre
  <2>5. Len(ValuesOf(P)) = k
    BY <2>4
  <2>6. f[i] = k
    BY <1>1, <2>1, <2>5 DEF Counts, AreNodes
  <2>7. QED
    BY <1>1, <2>2, <2>4, <2>6
<1>3. f \in [1..n -> 0..q]
  BY <1>1, <1>2 DEF Counts, AreNodes
<1>4. /\ SumOf(f) \in Int /\ SumOf(f) <= q * n
      /\ SumOf([i \in 1..n |-> q - f[i]]) = q * n - SumOf(f)
  BY <1>1, <1>3, LacksAddUp
<1>5. \A i \in 1..n : Missing(span, f[i], 1) = q - f[i]
  <2> SUFFICES ASSUME NEW i \in 1..n PROVE Missing(span, f[i], 1) = q - f[i]
    OBVIOUS
  <2>1. PICK x \in 0..q : x = f[i]
    BY <1>1, <1>3
  <2>2. (span + 1) * 1 = q
    BY <1>1
  <2>3. QED
    BY <2>1, <2>2 DEF Missing
<1>6. Missing(span, SumOf(f), n) = q * n - SumOf(f)
  <2>1. PICK x \in Int, y \in Int : x = SumOf(f) /\ y = q * n /\ x <= y
    BY <1>1, <1>4
  <2>2. (span + 1) * n = y
    BY <1>1, <2>1
  <2>3. Missing(span, x, n) = IF y > x THEN y - x ELSE 0
    BY <2>2 DEF Missing
  <2>4. Missing(span, x, n) = y - x
    BY <2>1, <2>3
  <2>5. QED
    BY <2>1, <2>4
<1>7. [i \in 1..n |-> Missing(span, f[i], 1)] = [i \in 1..n |-> q - f[i]]
  BY <1>5
<1>8. QED
  BY <1>1, <1>4, <1>6, <1>7

\* The spikes of an instance are those of its nodes, in whatever order the monitor
\* returned their points, and it lacks the points that its nodes lack: for any nodes with
\* labels of their own and no two points of a node at the same time, nor more of them than
\* there are periods (build_metric_evidence, calculate_coverage).
THEOREM InstancesAreTheirNodes ==
    \A n \in Nat \ {0}, span \in Nat : \A L, nodes, w, day :
        AreNodes(nodes, n, L) /\ (\A i \in 1..n : Len(nodes[i].points) <= span + 1) =>
            InstanceIsItsNodes(nodes, w, day, span)
<1> SUFFICES ASSUME NEW n \in Nat \ {0}, NEW span \in Nat, NEW L, NEW nodes, NEW w, NEW day,
                    AreNodes(nodes, n, L), \A i \in 1..n : Len(nodes[i].points) <= span + 1
             PROVE  InstanceIsItsNodes(nodes, w, day, span)
  OBVIOUS
<1>1. n \in Nat /\ DOMAIN nodes = 1..n /\ Len(nodes) = n
      /\ nodes \in [1..n -> [label : L, points : Seq(Point)]]
  BY DEF AreNodes
<1>2. PICK flat, back : flat = FlattenSeq(Laid(nodes)) /\ back = FlattenSeq(Laid(Backwards(nodes)))
  OBVIOUS
<1>3. PICK at, pl : Spread(flat, at, pl, nodes, n)
  BY <1>1, <1>2, FlatIsSpread
<1>4. \E on, po : Spread(back, on, po, nodes, n)
  <2>1. Backwards(nodes) \in [1..n -> [label : L, points : Seq(Point)]]
    BY <1>1, BackwardsIsSpread
  <2>2. PICK on, pb : Spread(back, on, pb, Backwards(nodes), n)
    BY <1>2, <2>1, FlatIsSpread
  <2>3. \E po : Spread(back, on, po, nodes, n)
    BY <1>1, <2>2, BackwardsIsSpread
  <2>4. QED
    BY <2>3
<1>5. PICK on, po : Spread(back, on, po, nodes, n)
  BY <1>4
<1>6. /\ InstanceEvidence("cpu", nodes, w, day) = Evidence("cpu", flat, w, day)
      /\ InstanceEvidence("cpu", Backwards(nodes), w, day) = Evidence("cpu", back, w, day)
  BY <1>2 DEF InstanceEvidence, Laid
<1>7. Evidence("cpu", flat, w, day).spikes = Total(nodes, w)
  BY <1>1, <1>3, ReportedSpikes
<1>8. Evidence("cpu", flat, w, day) = Evidence("cpu", back, w, day)
  <2>1. "cpu" \notin Throughputs
    BY DEF Throughputs
  <2>2. QED
    BY <1>1, <1>3, <1>5, <2>1, EvidenceIsTheSame
<1>9. ASSUME NEW i \in 1..n
      PROVE  /\ NodeEvidence("cpu", nodes[i], w, day).spikes.count = Cardinality(NodeSpikes(nodes, w)[i])
             /\ NodeEvidence("cpu", nodes[i], w, day).spikes.evaluated = Cardinality(NodeEvaluated(nodes, w)[i])
  <2>1. IsReported(nodes, i, "cpu", w, day)
    BY <1>1, NodeOnItsOwn
  <2>2. QED
    BY <2>1 DEF IsReported
<1>10. Total(nodes, w) =
          [count |-> SumOf([i \in DOMAIN nodes |-> NodeEvidence("cpu", nodes[i], w, day).spikes.count]),
           evaluated |-> SumOf([i \in DOMAIN nodes |-> NodeEvidence("cpu", nodes[i], w, day).spikes.evaluated])]
  <2>1. /\ [i \in DOMAIN nodes |-> NodeEvidence("cpu", nodes[i], w, day).spikes.count]
              = [i \in DOMAIN nodes |-> Cardinality(NodeSpikes(nodes, w)[i])]
        /\ [i \in DOMAIN nodes |-> NodeEvidence("cpu", nodes[i], w, day).spikes.evaluated]
              = [i \in DOMAIN nodes |-> Cardinality(NodeEvaluated(nodes, w)[i])]
    BY <1>1, <1>9
  <2>2. QED
    BY <2>1 DEF Total
<1>11. Missing(span, SumOf([i \in DOMAIN nodes |-> Len(ValuesOf(nodes[i].points))]), Len(nodes))
          = SumOf([i \in DOMAIN nodes |-> Missing(span, Len(ValuesOf(nodes[i].points)), 1)])
  <2>1. Missing(span, SumOf(Counts(nodes)), n) = SumOf([i \in 1..n |-> Missing(span, Counts(nodes)[i], 1)])
    BY <1>1, LacksOfNodes
  <2>2. \A i \in 1..n : Counts(nodes)[i] = Len(ValuesOf(nodes[i].points))
    BY <1>1 DEF Counts
  <2>3. [i \in 1..n |-> Missing(span, Counts(nodes)[i], 1)]
           = [i \in 1..n |-> Missing(span, Len(ValuesOf(nodes[i].points)), 1)]
    BY <2>2
  <2>4. QED
    BY <1>1, <2>1, <2>3 DEF Counts
<1>12. InstanceEvidence("cpu", nodes, w, day).spikes =
          [count |-> SumOf([i \in DOMAIN nodes |-> NodeEvidence("cpu", nodes[i], w, day).spikes.count]),
           evaluated |-> SumOf([i \in DOMAIN nodes |-> NodeEvidence("cpu", nodes[i], w, day).spikes.evaluated])]
  BY <1>6, <1>7, <1>10
<1>13. InstanceEvidence("cpu", Backwards(nodes), w, day) = InstanceEvidence("cpu", nodes, w, day)
  BY <1>6, <1>8
<1>14. QED
  BY <1>11, <1>12, <1>13, Zenon DEF InstanceIsItsNodes, Backwards

SpikesInvariant ==
    /\ checked.kind = "series" =>
          \E n \in Nat : checked.s \in [1..n -> Int] /\ checked.w \in {3, 5}
    /\ checked.kind = "nodes" =>
          AreNodes(checked.nodes, 2, {"n1", "n2"}) /\ \A i \in 1..2 : Len(checked.nodes[i].points) <= 4

\* Every series and every pair of nodes that is checked is one the theorems speak of.
LEMMA CaseOfSpikes == CheckNext => SpikesInvariant'
<1> SUFFICES ASSUME CheckNext PROVE SpikesInvariant'
  OBVIOUS
<1>1. CASE CheckSeries
  <2>0. PICK n \in 2..6 : \E s \in [1..n -> {0, 1, 2, 9}], w \in {3, 5} :
           checked' = [kind |-> "series", s |-> s, w |-> w]
    BY <1>1 DEF CheckSeries, Series
  <2>1. PICK s \in [1..n -> {0, 1, 2, 9}], w \in {3, 5} :
           checked' = [kind |-> "series", s |-> s, w |-> w]
    BY <2>0
  <2>2. checked'.kind = "series" /\ checked'.s = s /\ checked'.w = w
    BY <2>1
  <2>3. s \in [1..n -> Int] /\ n \in Nat
    OBVIOUS
  <2>4. QED
    BY <2>2, <2>3 DEF SpikesInvariant
<1>2. CASE CheckNodes
  <2>1. PICK s \in Series({0, 9, NoValue}, {4}), t \in Series({0, 9, NoValue}, {4}) :
           checked' = [kind |-> "nodes", nodes |-> <<[label |-> "n1", points |-> Points(s)],
                                                     [label |-> "n2", points |-> Points(t)]>>]
    BY <1>2 DEF CheckNodes
  <2>2. ASSUME NEW x \in Series({0, 9, NoValue}, {4})
        PROVE  Points(x) \in Seq(Point) /\ Len(Points(x)) = 4 /\ Apart(Points(x), 4)
    <3>1. x \in [1..4 -> Int \cup {NoValue}]
      BY DEF Series
    <3>2. PICK P : P = Points(x)
      OBVIOUS
    <3>3. P = [i \in 1..4 |-> [ts |-> i, value |-> x[i]]]
      BY <3>1, <3>2 DEF Points
    <3>4. \A i \in 1..4 : P[i] \in Point /\ P[i].ts = i
      BY <3>1, <3>3 DEF Point
    <3>5. P \in [1..4 -> Point]
      BY <3>3, <3>4
    <3>6. PICK four \in Nat : four = 4
      OBVIOUS
    <3>7. P \in [1..four -> Point]
      BY <3>5, <3>6
    <3>8. P \in Seq(Point) /\ Len(P) = four
      BY <3>7
    <3>9. QED
      BY <3>2, <3>4, <3>6, <3>8 DEF Apart
  <2>3. PICK P, Q : P = Points(s) /\ Q = Points(t)
    OBVIOUS
  <2>4. PICK nodes : nodes = <<[label |-> "n1", points |-> P], [label |-> "n2", points |-> Q]>>
    OBVIOUS
  <2>5. /\ P \in Seq(Point) /\ Len(P) = 4 /\ Apart(P, 4)
        /\ Q \in Seq(Point) /\ Len(Q) = 4 /\ Apart(Q, 4)
    BY <2>2, <2>3
  <2>6. /\ DOMAIN nodes = 1..2 /\ nodes[1] = [label |-> "n1", points |-> P]
        /\ nodes[2] = [label |-> "n2", points |-> Q]
    BY <2>4
  <2>7. \A i \in 1..2 : i = 1 \/ i = 2
    OBVIOUS
  <2>8. nodes \in [1..2 -> [label : {"n1", "n2"}, points : Seq(Point)]]
    <3>1. \A i \in 1..2 : nodes[i] \in [label : {"n1", "n2"}, points : Seq(Point)]
      BY <2>5, <2>6, <2>7
    <3>2. nodes = [i \in 1..2 |-> nodes[i]]
      BY <2>4
    <3>3. QED
      BY <3>1, <3>2
  <2>9. \A i \in 1..2 : Len(nodes[i].points) = 4 /\ Apart(nodes[i].points, Len(nodes[i].points))
    <3> SUFFICES ASSUME NEW i \in 1..2
                 PROVE  Len(nodes[i].points) = 4 /\ Apart(nodes[i].points, Len(nodes[i].points))
      OBVIOUS
    <3>1. nodes[i].points = P \/ nodes[i].points = Q
      BY <2>6, <2>7
    <3>2. QED
      BY <2>5, <3>1
  <2>10. \A i, j \in 1..2 : nodes[i].label = nodes[j].label => i = j
    BY <2>6, <2>7
  <2>11. AreNodes(nodes, 2, {"n1", "n2"}) /\ \A i \in 1..2 : Len(nodes[i].points) <= 4
    <3>1. AreNodes(nodes, 2, {"n1", "n2"})
      BY <2>8, <2>9, <2>10 DEF AreNodes
    <3>2. ASSUME NEW i \in 1..2 PROVE Len(nodes[i].points) <= 4
      <4>1. Len(nodes[i].points) = 4
        BY <2>9
      <4>2. QED
        BY <4>1
    <3>3. QED
      BY <3>1, <3>2
  <2>12. checked'.kind = "nodes" /\ checked'.nodes = nodes
    BY <2>1, <2>3, <2>4
  <2>13. QED
    BY <2>11, <2>12 DEF SpikesInvariant
<1>3. CASE CheckRegistry
  BY <1>3 DEF CheckRegistry, SpikesInvariant
<1>4. CASE CheckEntry
  BY <1>4 DEF CheckEntry, SpikesInvariant
<1>5. CASE CheckContext
  BY <1>5 DEF CheckContext, SpikesInvariant
<1>6. CASE CheckLoad
  BY <1>6 DEF CheckLoad, SpikesInvariant
<1>7. CASE CheckSignals
  BY <1>7 DEF CheckSignals, SpikesInvariant
<1>8. CASE CheckPlateau
  BY <1>8 DEF CheckPlateau, SpikesInvariant
<1>9. QED
  BY <1>1, <1>2, <1>3, <1>4, <1>5, <1>6, <1>7, <1>8 DEF CheckNext

\* A spike is found wherever and in whatever order its point arrives, and is one of the
\* node it is of, in every case that is checked
\* (get_instance_info.py:566-645, 1092-1141).
THEOREM SpikesAreAlwaysTrue == CheckSpec => []SpikesAreTrue
<1>1. CheckInit => SpikesInvariant
  BY DEF CheckInit, SpikesInvariant
<1>2. SpikesInvariant /\ [CheckNext]_checked => SpikesInvariant'
  <2>1. CASE CheckNext
    BY <2>1, CaseOfSpikes
  <2>2. CASE UNCHANGED checked
    BY <2>2 DEF SpikesInvariant
  <2>3. QED
    BY <2>1, <2>2
<1>3. SpikesInvariant => SpikesAreTrue
  <2> SUFFICES ASSUME SpikesInvariant PROVE SpikesAreTrue
    OBVIOUS
  <2>1. ASSUME checked.kind = "series" PROVE SpikesHaveNoEdge(checked.s, checked.w)
    <3>1. PICK n \in Nat : checked.s \in [1..n -> Int] /\ checked.w \in {3, 5}
      BY <2>1 DEF SpikesInvariant
    <3>2. checked.w \in Nat /\ checked.w >= 3
      BY <3>1
    <3>3. QED
      BY <3>1, <3>2, SpikesAreEverywhere
  <2>2. ASSUME checked.kind = "nodes" PROVE InstanceIsItsNodes(checked.nodes, 3, 288, 3)
    <3>1. AreNodes(checked.nodes, 2, {"n1", "n2"}) /\ \A i \in 1..2 : Len(checked.nodes[i].points) <= 3 + 1
      BY <2>2 DEF SpikesInvariant
    <3>2. 2 \in Nat \ {0} /\ 3 \in Nat
      OBVIOUS
    <3>3. QED
      BY <3>1, <3>2, InstancesAreTheirNodes
  <2>3. QED
    BY <2>1, <2>2 DEF SpikesAreTrue
<1>4. QED
  BY <1>1, <1>2, <1>3, PTL DEF CheckSpec
=============================================================================
