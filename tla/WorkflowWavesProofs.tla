------------------------ MODULE WorkflowWavesProofs ------------------------
(***************************************************************************)
(* Why every canvas that compiles gives a plan that can be executed, and   *)
(* why the execution keeps to it, whatever fails, is recovered, crashes or *)
(* is retried.                                                             *)
(*                                                                         *)
(* Compiled steps only wait for steps that are ahead of them when the      *)
(* rounds of the loops are played one after the other, nothing is ahead of *)
(* itself, and a step waits for all of the earlier rounds.  The execution  *)
(* preserves WavesInv: each of its steps amounts to one of a few, and for  *)
(* each part of the invariant there is a lemma that goes through them.     *)
(***************************************************************************)
EXTENDS WorkflowWaves, FiniteSetTheorems, WellFoundedInduction, TLAPS

-----------------------------------------------------------------------------
(* Finite sets.                                                            *)

\* Of sets that belong to the members of a finite set, one is minimal.
LEMMA SomeMinimal ==
    ASSUME NEW S, IsFiniteSet(S), NEW B \in [S -> SUBSET S], S # {}
    PROVE  \E x \in S : \A y \in S : B[y] \subseteq B[x] => B[y] = B[x]
<1> DEFINE T == {B[x] : x \in S}
<1>1. T \subseteq FiniteSubsetsOf(S) /\ T # {}
  <2>1. FiniteSubsetsOf(S) = SUBSET S
    BY FS_FiniteSubsetsOfFinite
  <2> QED
    BY <2>1
<1>2. PICK t \in T : \A u \in T : ~ (<<u, t>> \in StrictSubsetOrdering(S))
  <2> HIDE DEF T
  <2> QED
    BY <1>1, WFMin, FS_StrictSubsetOrderingWellFounded
<1>3. PICK x \in S : t = B[x]
  BY <1>2
<1>4. ASSUME NEW y \in S, B[y] \subseteq B[x], B[y] # B[x] PROVE FALSE
  <2>1. <<B[y], B[x]>> \in StrictSubsetOrdering(S)
    BY <1>4 DEF StrictSubsetOrdering
  <2> QED
    BY <2>1, <1>2, <1>3
<1> QED
  BY <1>4

\* The image of a finite set under a function is finite.
LEMMA FiniteImage ==
    ASSUME NEW S, IsFiniteSet(S), NEW f, DOMAIN f = S
    PROVE  IsFiniteSet({f[x] : x \in S})
<1> DEFINE T == {f[x] : x \in S}
           g == [x \in S |-> f[x]]
<1>1. g \in Surjection(S, T)
  BY DEF Surjection
<1> QED
  BY <1>1, FS_Surjection

\* There are finitely many functions between finite sets.
LEMMA FiniteFunctions ==
    ASSUME NEW S, NEW T, IsFiniteSet(S), IsFiniteSet(T)
    PROVE  IsFiniteSet([S -> T])
<1> DEFINE graph == [f \in [S -> T] |-> {<<x, f[x]>> : x \in S}]
<1>1. IsFiniteSet(SUBSET (S \X T))
  BY FS_Product, FS_SUBSET
<1>2. graph \in [[S -> T] -> SUBSET (S \X T)]
  OBVIOUS
<1>3. ASSUME NEW f \in [S -> T], NEW g \in [S -> T], graph[f] = graph[g]
      PROVE  f = g
  <2>1. ASSUME NEW x \in S PROVE f[x] = g[x]
    <3>1. <<x, f[x]>> \in graph[g]
      BY <1>3
    <3> QED
      BY <3>1
  <2> QED
    BY <2>1
<1>4. graph \in Injection([S -> T], SUBSET (S \X T))
  BY <1>2, <1>3 DEF Injection, IsInjective
<1> QED
  BY <1>1, <1>4, FS_Injection

-----------------------------------------------------------------------------
(* Reachability along flow edges.                                          *)

\* A node is reached from itself.
LEMMA ReachesSelf == ASSUME NEW c, NEW m PROVE Reaches(c, m, m)
BY DEF Reaches

\* An edge reaches its target.
LEMMA ReachesAlong == ASSUME NEW c, NEW e \in c.flow PROVE Reaches(c, e[1], e[2])
BY DEF Reaches, Closed

\* What is reached from a node is reached from all before it.
LEMMA ReachesOn ==
    ASSUME NEW c, NEW m, NEW n, NEW o, Reaches(c, m, n), Reaches(c, n, o)
    PROVE  Reaches(c, m, o)
BY DEF Reaches

\* A way to another node begins with an edge.
LEMMA ReachesBegins ==
    ASSUME NEW c, c.flow \subseteq Nodes(c) \X Nodes(c), NEW m \in Nodes(c), NEW n,
           Reaches(c, m, n), m # n
    PROVE  \E e \in c.flow : e[1] = m /\ Reaches(c, e[2], n)
<1> DEFINE X == {x \in Nodes(c) : x = m \/ \E e \in c.flow : e[1] = m /\ Reaches(c, e[2], x)}
<1>1. ASSUME NEW d \in c.flow, d[1] \in X
      PROVE  d[2] \in X
  <2>1. d[2] \in Nodes(c)
    OBVIOUS
  <2>2. CASE d[1] = m
    BY <2>1, <2>2, ReachesSelf
  <2>3. CASE \E e \in c.flow : e[1] = m /\ Reaches(c, e[2], d[1])
    BY <2>1, <2>3, ReachesAlong, ReachesOn
  <2> QED
    BY <1>1, <2>2, <2>3
<1>2. X \in SUBSET Nodes(c) /\ m \in X /\ Closed(c, X)
  BY <1>1 DEF Closed
<1>3. n \in X
  BY <1>2 DEF Reaches
<1> QED
  BY <1>3

\* The flow of a canvas that is well formed goes one way.
LEMMA OneWay ==
    ASSUME NEW c, WellFormed(c), NEW m \in Nodes(c), NEW n,
           Reaches(c, m, n), Reaches(c, n, m)
    PROVE  m = n
<1> SUFFICES ASSUME m # n PROVE FALSE
  OBVIOUS
<1>1. PICK e \in c.flow : e[1] = m /\ Reaches(c, e[2], n)
  BY ReachesBegins DEF WellFormed
<1>2. Reaches(c, e[2], e[1])
  BY <1>1, ReachesOn
<1> QED
  BY <1>2 DEF WellFormed

\* A loop is left from its source.
LEMMA LeavesFromSource ==
    ASSUME NEW c, IsCanvas(c), WellFormed(c), NEW l \in c.loop, NEW t \in Members(c, l),
           NEW u \in c.agent, u \notin Members(c, l), Reaches(c, t, u)
    PROVE  Reaches(c, l[1], u)
<1> DEFINE X == {x \in Nodes(c) : x \in Members(c, l) \/ x = Output \/ Reaches(c, l[1], x)}
<1>1. ASSUME NEW e \in c.flow, e[1] \in X
      PROVE  e[2] \in X
  <2>1. e[2] \in Nodes(c) /\ e[1] \in Nodes(c)
    BY DEF WellFormed
  <2>2. CASE e[1] \in Members(c, l) /\ e[1] # l[1]
    BY <2>1, <2>2 DEF WellFormed, SideExits
  <2>3. CASE e[1] = Output
    BY <2>3 DEF WellFormed, OutOf
  <2>4. CASE Reaches(c, l[1], e[1])
    BY <2>1, <2>4, ReachesAlong, ReachesOn
  <2>5. CASE e[1] = l[1]
    BY <2>1, <2>5, ReachesAlong
  <2> QED
    BY <1>1, <2>2, <2>3, <2>4, <2>5
<1>2. X \in SUBSET Nodes(c) /\ t \in X /\ Closed(c, X)
  BY <1>1 DEF Closed, Members, Nodes
<1>3. u \in X
  BY <1>2 DEF Reaches
<1> QED
  BY <1>3 DEF IsCanvas

-----------------------------------------------------------------------------
(* Loops: what is ahead of what in one round.                              *)

\* "z" is done after "x": it is reached from "x", or lies in a loop without "x"
\* whose source is.
After(c, x, z) ==
    \/ Reaches(c, x, z)
    \/ \E l \in c.loop :
         x \notin Members(c, l) /\ z \in Members(c, l) /\ Reaches(c, x, l[1])

\* What the following lemmas use of a canvas: the flow is an order of the agents,
\* a loop is what lies between its ends and is left from its source, and loops
\* are nested or apart.
Shaped(c) ==
    /\ \A x \in c.agent : Reaches(c, x, x)
    /\ \A x, y, z \in c.agent : Reaches(c, x, y) /\ Reaches(c, y, z) => Reaches(c, x, z)
    /\ \A x, y \in c.agent : Reaches(c, x, y) /\ Reaches(c, y, x) => x = y
    /\ \A l \in c.loop : /\ l[1] \in c.agent /\ l[2] \in c.agent
                         /\ l[1] \in Members(c, l) /\ l[2] \in Members(c, l)
                         /\ \A x \in Members(c, l) : Reaches(c, x, l[1]) /\ Reaches(c, l[2], x)
                         /\ \A x \in c.agent :
                              Reaches(c, x, l[1]) /\ Reaches(c, l[2], x) => x \in Members(c, l)
                         /\ Members(c, l) \subseteq c.agent
    /\ \A l \in c.loop : \A x \in Members(c, l), y \in c.agent \ Members(c, l) :
         Reaches(c, x, y) => Reaches(c, l[1], y)
    /\ \A l, m \in c.loop : Nested(c, l, m)
    /\ \A l, m \in c.loop : l[1] = m[1] /\ l[2] = m[2] => l = m

\* A canvas that is well formed has all of that.
LEMMA WellFormedShaped ==
    ASSUME NEW c, IsCanvas(c), WellFormed(c)
    PROVE  Shaped(c)
<1>1. \A x \in c.agent : Reaches(c, x, x)
  BY ReachesSelf
<1>2. \A x, y, z \in c.agent : Reaches(c, x, y) /\ Reaches(c, y, z) => Reaches(c, x, z)
  BY ReachesOn
<1>3. \A x, y \in c.agent : Reaches(c, x, y) /\ Reaches(c, y, x) => x = y
  BY OneWay DEF Nodes
<1>4. ASSUME NEW l \in c.loop
      PROVE  /\ l[1] \in c.agent /\ l[2] \in c.agent
             /\ l[1] \in Members(c, l) /\ l[2] \in Members(c, l)
             /\ \A x \in Members(c, l) : Reaches(c, x, l[1]) /\ Reaches(c, l[2], x)
             /\ \A x \in c.agent :
                  Reaches(c, x, l[1]) /\ Reaches(c, l[2], x) => x \in Members(c, l)
             /\ Members(c, l) \subseteq c.agent
  BY ReachesSelf DEF WellFormed, Members
<1>5. \A l \in c.loop : \A x \in Members(c, l), y \in c.agent \ Members(c, l) :
         Reaches(c, x, y) => Reaches(c, l[1], y)
  BY LeavesFromSource
<1>6. \A l, m \in c.loop : Nested(c, l, m)
  BY DEF WellFormed
<1>7. \A l, m \in c.loop : l[1] = m[1] /\ l[2] = m[2] => l = m
  BY DEF WellFormed
<1> QED
  BY <1>1, <1>2, <1>3, <1>4, <1>5, <1>6, <1>7 DEF Shaped

\* Loops that share an agent: one lies within the other.
LEMMA Sharing ==
    ASSUME NEW c, Shaped(c), NEW l \in c.loop, NEW m \in c.loop,
           NEW x \in Members(c, l), x \in Members(c, m)
    PROVE  Members(c, l) \subseteq Members(c, m) \/ Members(c, m) \subseteq Members(c, l)
<1>1. Nested(c, l, m)
  BY DEF Shaped
<1> QED
  BY <1>1 DEF Nested

\* A loop is known by its agents.
LEMMA SameLoop ==
    ASSUME NEW c, Shaped(c), NEW l \in c.loop, NEW m \in c.loop,
           Members(c, l) = Members(c, m)
    PROVE  l = m
<1>1. Reaches(c, l[1], m[1]) /\ Reaches(c, m[1], l[1])
  BY DEF Shaped
<1>2. Reaches(c, l[2], m[2]) /\ Reaches(c, m[2], l[2])
  BY DEF Shaped
<1>3. l[1] = m[1] /\ l[2] = m[2]
  BY <1>1, <1>2 DEF Shaped
<1> QED
  BY <1>3 DEF Shaped

\* An agent between two agents of a loop lies in it.
LEMMA Between ==
    ASSUME NEW c, Shaped(c), NEW x \in c.agent, NEW y \in c.agent, NEW z \in c.agent,
           After(c, x, y), After(c, y, z),
           NEW m \in c.loop, x \in Members(c, m), z \in Members(c, m)
    PROVE  y \in Members(c, m)
<1> SUFFICES ASSUME y \notin Members(c, m) PROVE FALSE
  OBVIOUS
\* The claim for a loop from whose source "y" is done.
<1>1. ASSUME NEW k \in c.loop, x \in Members(c, k), y \notin Members(c, k),
             Reaches(c, y, k[1])
      PROVE  FALSE
  <2>1. CASE Reaches(c, x, y)
    <3>1. Reaches(c, k[1], y)
      BY <1>1, <2>1 DEF Shaped
    <3>2. k[1] = y
      BY <1>1, <3>1 DEF Shaped
    <3> QED
      BY <1>1, <3>2 DEF Shaped
  <2>2. ASSUME NEW l \in c.loop, x \notin Members(c, l), y \in Members(c, l),
               Reaches(c, x, l[1])
        PROVE  FALSE
    <3>1. Members(c, l) \cap Members(c, k) = {}
      BY <1>1, <2>2, Sharing
    <3>2. l[1] \in c.agent /\ k[1] \in c.agent /\ l[1] \notin Members(c, k)
          /\ k[1] \notin Members(c, l) /\ l[1] # k[1]
      BY <3>1 DEF Shaped
    <3>3. Reaches(c, k[1], l[1])
      BY <1>1, <2>2, <3>2 DEF Shaped
    <3>4. Reaches(c, l[1], k[1])
      BY <1>1, <2>2, <3>2 DEF Shaped
    <3> QED
      BY <3>2, <3>3, <3>4 DEF Shaped
  <2> QED
    BY <2>1, <2>2 DEF After
<1>2. CASE Reaches(c, y, z)
  <2>1. Reaches(c, y, m[1])
    BY <1>2 DEF Shaped
  <2> QED
    BY <2>1, <1>1
<1>3. ASSUME NEW k \in c.loop, y \notin Members(c, k), z \in Members(c, k),
             Reaches(c, y, k[1])
      PROVE  FALSE
  <2>1. CASE Members(c, k) \subseteq Members(c, m)
    <3>1. Reaches(c, y, m[1])
      BY <1>3, <2>1 DEF Shaped
    <3> QED
      BY <3>1, <1>1
  <2>2. CASE Members(c, m) \subseteq Members(c, k)
    BY <1>3, <2>2, <1>1
  <2> QED
    BY <1>3, <2>1, <2>2, Sharing
<1> QED
  BY <1>2, <1>3 DEF After

\* What comes after something comes after all that is before it.
LEMMA AfterOn ==
    ASSUME NEW c, Shaped(c), NEW x \in c.agent, NEW y \in c.agent, NEW z \in c.agent,
           After(c, x, y), After(c, y, z)
    PROVE  After(c, x, z)
<1>1. CASE Reaches(c, x, y) /\ Reaches(c, y, z)
  BY <1>1 DEF Shaped, After
<1>2. ASSUME Reaches(c, x, y),
             NEW k \in c.loop, y \notin Members(c, k), z \in Members(c, k),
             Reaches(c, y, k[1])
      PROVE  After(c, x, z)
  <2>1. Reaches(c, x, k[1])
    BY <1>2 DEF Shaped
  <2>2. x \notin Members(c, k)
    BY <1>2, Between
  <2> QED
    BY <1>2, <2>1, <2>2 DEF After
<1>3. ASSUME Reaches(c, y, z),
             NEW l \in c.loop, x \notin Members(c, l), y \in Members(c, l),
             Reaches(c, x, l[1])
      PROVE  After(c, x, z)
  <2>1. CASE z \in Members(c, l)
    BY <1>3, <2>1 DEF After
  <2>2. CASE z \notin Members(c, l)
    <3>1. Reaches(c, l[1], z)
      BY <1>3, <2>2 DEF Shaped
    <3>2. Reaches(c, x, z)
      BY <1>3, <3>1 DEF Shaped
    <3> QED
      BY <3>2 DEF After
  <2> QED
    BY <2>1, <2>2
<1>4. ASSUME NEW l \in c.loop, x \notin Members(c, l), y \in Members(c, l),
             Reaches(c, x, l[1]),
             NEW k \in c.loop, y \notin Members(c, k), z \in Members(c, k),
             Reaches(c, y, k[1])
      PROVE  After(c, x, z)
  <2>1. CASE k[1] \in Members(c, l)
    <3>1. Members(c, k) \subseteq Members(c, l)
      <4>1. k[1] \in Members(c, k)
        BY DEF Shaped
      <4> QED
        BY <4>1, <1>4, <2>1, Sharing
    <3> QED
      BY <1>4, <3>1 DEF After
  <2>2. CASE k[1] \notin Members(c, l)
    <3>1. Reaches(c, l[1], k[1])
      BY <1>4, <2>2 DEF Shaped
    <3>2. Reaches(c, x, k[1])
      BY <1>4, <3>1 DEF Shaped
    <3>3. x \notin Members(c, k)
      BY <1>4, Between
    <3> QED
      BY <1>4, <3>2, <3>3 DEF After
  <2> QED
    BY <2>1, <2>2
<1> QED
  BY <1>1, <1>2, <1>3, <1>4 DEF After

\* Of two agents one at most comes after the other.
LEMMA AfterOneWay ==
    ASSUME NEW c, Shaped(c), NEW x \in c.agent, NEW y \in c.agent,
           After(c, x, y), After(c, y, x)
    PROVE  x = y
<1>1. \A m \in c.loop : x \in Members(c, m) <=> y \in Members(c, m)
  BY Between
<1>2. Reaches(c, x, y) /\ Reaches(c, y, x)
  BY <1>1 DEF After
<1> QED
  BY <1>2 DEF Shaped

-----------------------------------------------------------------------------
(* Steps: the order in which the rounds of the loops are played.           *)

AllIds(c) == UNION {Ids(c, a) : a \in c.agent}
Common(s, t) == DOMAIN s.round \cap DOMAIN t.round

\* "s" is in an earlier round than "t" of a loop, and in the same of those around.
InEarlierRound(c, s, t) ==
    \E l \in Common(s, t) :
        /\ s.round[l] < t.round[l]
        /\ \A m \in Common(s, t) :
             m # l /\ Members(c, l) \subseteq Members(c, m) => s.round[m] = t.round[m]

\* "s" is in the same rounds as "t", which comes after it.
InSameRound(c, s, t) ==
    /\ \A l \in Common(s, t) : s.round[l] = t.round[l]
    /\ s.agent # t.agent /\ After(c, s.agent, t.agent)

Ahead(c, s, t) == InEarlierRound(c, s, t) \/ InSameRound(c, s, t)

\* A step has a round of each loop its agent lies in.
LEMMA IdShape ==
    ASSUME NEW c, IsCanvas(c), NEW s \in AllIds(c)
    PROVE  /\ s.agent \in c.agent
           /\ DOMAIN s.round = {l \in c.loop : s.agent \in Members(c, l)}
           /\ \A l \in DOMAIN s.round : s.round[l] \in Nat
<1>1. PICK a \in c.agent : s \in Ids(c, a)
  BY DEF AllIds
<1>2. PICK r \in Rounds(c, a) : s = [agent |-> a, round |-> r, recovery |-> 0]
  BY <1>1 DEF Ids
<1>3. UNION {1 .. c.rounds[l] : l \in c.loop} \subseteq Nat
  BY DEF IsCanvas
<1> QED
  BY <1>2, <1>3 DEF Rounds, LoopsOf

\* What is ahead of something is ahead of all that comes after it.
LEMMA AheadOn ==
    ASSUME NEW c, IsCanvas(c), Shaped(c),
           NEW s \in AllIds(c), NEW t \in AllIds(c), NEW u \in AllIds(c),
           Ahead(c, s, t), Ahead(c, t, u)
    PROVE  Ahead(c, s, u)
<1> DEFINE M(l) == Members(c, l)
<1>a. s.agent \in c.agent /\ t.agent \in c.agent /\ u.agent \in c.agent
  BY IdShape
<1>d. \A l \in c.loop : /\ l \in DOMAIN s.round <=> s.agent \in M(l)
                        /\ l \in DOMAIN t.round <=> t.agent \in M(l)
                        /\ l \in DOMAIN u.round <=> u.agent \in M(l)
  BY IdShape
<1>s. /\ DOMAIN s.round \subseteq c.loop /\ DOMAIN t.round \subseteq c.loop
      /\ DOMAIN u.round \subseteq c.loop
  BY IdShape
<1>n. /\ \A l \in DOMAIN s.round : s.round[l] \in Nat
      /\ \A l \in DOMAIN t.round : t.round[l] \in Nat
      /\ \A l \in DOMAIN u.round : u.round[l] \in Nat
  BY IdShape
<1>x. \A l, m \in c.loop : \A a \in M(l) : a \in M(m) => M(l) \subseteq M(m) \/ M(m) \subseteq M(l)
  BY Sharing
<1>y. \A l, m \in c.loop : M(l) = M(m) => l = m
  BY SameLoop
<1> HIDE DEF M
<1>1. ASSUME NEW l \in Common(s, t), s.round[l] < t.round[l],
             \A m \in Common(s, t) : m # l /\ M(l) \subseteq M(m) => s.round[m] = t.round[m],
             NEW k \in Common(t, u), t.round[k] < u.round[k],
             \A m \in Common(t, u) : m # k /\ M(k) \subseteq M(m) => t.round[m] = u.round[m]
      PROVE  InEarlierRound(c, s, u)
  <2>0. /\ l \in c.loop /\ k \in c.loop
        /\ s.agent \in M(l) /\ t.agent \in M(l) /\ t.agent \in M(k) /\ u.agent \in M(k)
    BY <1>s, <1>d DEF Common
  <2>1. CASE M(l) \subseteq M(k)
    <3>1. k \in Common(s, u) /\ k \in Common(s, t)
      BY <2>0, <2>1, <1>d DEF Common
    <3>2. s.round[k] < u.round[k]
      <4>1. s.round[k] \in Nat /\ t.round[k] \in Nat /\ u.round[k] \in Nat
        BY <3>1, <1>n DEF Common
      <4>2. CASE k = l
        BY <4>1, <4>2, <1>1
      <4>3. CASE k # l
        <5>1. s.round[k] = t.round[k]
          BY <4>3, <3>1, <2>1, <1>1
        <5> QED
          BY <5>1, <4>1, <1>1
      <4> QED
        BY <4>2, <4>3
    <3>3. ASSUME NEW m \in Common(s, u), m # k, M(k) \subseteq M(m)
          PROVE  s.round[m] = u.round[m]
      <4>1. m \in c.loop /\ m \in Common(s, t) /\ m \in Common(t, u)
        BY <3>3, <2>0, <1>s, <1>d DEF Common
      <4>2. m # l
        BY <3>3, <2>0, <2>1, <4>1, <1>y
      <4>3. M(l) \subseteq M(m)
        BY <2>1, <3>3
      <4>4. s.round[m] = t.round[m]
        BY <4>1, <4>2, <4>3, <1>1
      <4>5. t.round[m] = u.round[m]
        BY <4>1, <3>3, <1>1
      <4> QED
        BY <4>4, <4>5
    <3> QED
      BY <3>1, <3>2, <3>3 DEF InEarlierRound, M
  <2>2. CASE M(k) \subseteq M(l) /\ k # l
    <3>1. l \in Common(s, u) /\ l \in Common(t, u)
      BY <2>0, <2>2, <1>d DEF Common
    <3>2. t.round[l] = u.round[l]
      BY <3>1, <2>2, <1>1
    <3>3. ASSUME NEW m \in Common(s, u), m # l, M(l) \subseteq M(m)
          PROVE  s.round[m] = u.round[m]
      <4>1. m \in c.loop /\ m \in Common(s, t) /\ m \in Common(t, u)
        BY <3>3, <2>0, <1>s, <1>d DEF Common
      <4>2. m # k
        BY <3>3, <2>0, <2>2, <4>1, <1>y
      <4>3. M(k) \subseteq M(m)
        BY <2>2, <3>3
      <4>4. s.round[m] = t.round[m]
        BY <4>1, <3>3, <1>1
      <4>5. t.round[m] = u.round[m]
        BY <4>1, <4>2, <4>3, <1>1
      <4> QED
        BY <4>4, <4>5
    <3> QED
      BY <3>1, <3>2, <3>3, <1>1 DEF InEarlierRound, M
  <2> QED
    BY <2>0, <2>1, <2>2, <1>x
<1>2. ASSUME NEW l \in Common(s, t), s.round[l] < t.round[l],
             \A m \in Common(s, t) : m # l /\ M(l) \subseteq M(m) => s.round[m] = t.round[m],
             InSameRound(c, t, u)
      PROVE  Ahead(c, s, u)
  <2>0. l \in c.loop /\ s.agent \in M(l) /\ t.agent \in M(l)
    BY <1>s, <1>d DEF Common
  <2>1. \A m \in Common(t, u) : t.round[m] = u.round[m]
    BY <1>2 DEF InSameRound
  <2>2. CASE u.agent \in M(l)
    <3>1. l \in Common(s, u) /\ l \in Common(t, u)
      BY <2>0, <2>2, <1>d DEF Common
    <3>2. s.round[l] < u.round[l]
      BY <3>1, <2>1, <1>2
    <3>3. ASSUME NEW m \in Common(s, u), m # l, M(l) \subseteq M(m)
          PROVE  s.round[m] = u.round[m]
      <4>1. m \in Common(s, t) /\ m \in Common(t, u)
        BY <3>3, <2>0, <1>s, <1>d DEF Common
      <4> QED
        BY <4>1, <3>3, <2>1, <1>2
    <3> QED
      BY <3>1, <3>2, <3>3 DEF InEarlierRound, Ahead, M
  <2>3. CASE u.agent \notin M(l)
    <3>1. ASSUME NEW m \in Common(s, u)
          PROVE  s.round[m] = u.round[m]
      <4>1. m \in c.loop /\ s.agent \in M(m) /\ u.agent \in M(m)
        BY <3>1, <1>s, <1>d DEF Common
      <4>2. M(l) \subseteq M(m) /\ m # l
        BY <4>1, <2>0, <2>3, <1>x
      <4>3. m \in Common(s, t) /\ m \in Common(t, u)
        BY <4>1, <4>2, <2>0, <1>d DEF Common
      <4> QED
        BY <4>2, <4>3, <2>1, <1>2
    <3>2. After(c, s.agent, u.agent)
      <4>1. Reaches(c, s.agent, l[1]) /\ l[1] \in c.agent
        BY <2>0 DEF Shaped, M
      <4>2. CASE Reaches(c, t.agent, u.agent)
        <5>1. Reaches(c, l[1], u.agent)
          BY <4>2, <2>0, <2>3, <1>a DEF Shaped, M
        <5> QED
          BY <5>1, <4>1, <1>a DEF Shaped, After
      <4>3. ASSUME NEW k \in c.loop, t.agent \notin M(k), u.agent \in M(k),
                   Reaches(c, t.agent, k[1])
            PROVE  After(c, s.agent, u.agent)
        <5>1. ~(M(k) \subseteq M(l)) /\ ~(M(l) \subseteq M(k))
          BY <4>3, <2>0, <2>3
        <5>2. k[1] \in M(k) /\ k[1] \in c.agent
          BY DEF Shaped, M
        <5>3. k[1] \notin M(l) /\ s.agent \notin M(k)
          BY <5>1, <5>2, <2>0, <1>x
        <5>4. Reaches(c, l[1], k[1])
          BY <4>3, <5>2, <5>3, <2>0 DEF Shaped, M
        <5>5. Reaches(c, s.agent, k[1])
          BY <5>2, <5>4, <4>1, <1>a DEF Shaped
        <5> QED
          BY <4>3, <5>3, <5>5 DEF After, M
      <4> QED
        BY <1>2, <4>2, <4>3 DEF InSameRound, After, M
    <3> QED
      BY <3>1, <3>2, <2>0, <2>3 DEF InSameRound, Ahead
  <2> QED
    BY <2>2, <2>3
<1>3. ASSUME InSameRound(c, s, t),
             NEW l \in Common(t, u), t.round[l] < u.round[l],
             \A m \in Common(t, u) : m # l /\ M(l) \subseteq M(m) => t.round[m] = u.round[m]
      PROVE  Ahead(c, s, u)
  <2>0. l \in c.loop /\ t.agent \in M(l) /\ u.agent \in M(l)
    BY <1>s, <1>d DEF Common
  <2>1. \A m \in Common(s, t) : s.round[m] = t.round[m]
    BY <1>3 DEF InSameRound
  <2>2. CASE s.agent \in M(l)
    <3>1. l \in Common(s, u) /\ l \in Common(s, t)
      BY <2>0, <2>2, <1>d DEF Common
    <3>2. s.round[l] < u.round[l]
      BY <3>1, <2>1, <1>3
    <3>3. ASSUME NEW m \in Common(s, u), m # l, M(l) \subseteq M(m)
          PROVE  s.round[m] = u.round[m]
      <4>1. m \in Common(s, t) /\ m \in Common(t, u)
        BY <3>3, <2>0, <1>s, <1>d DEF Common
      <4> QED
        BY <4>1, <3>3, <2>1, <1>3
    <3> QED
      BY <3>1, <3>2, <3>3 DEF InEarlierRound, Ahead, M
  <2>3. CASE s.agent \notin M(l)
    <3>1. ASSUME NEW m \in Common(s, u)
          PROVE  s.round[m] = u.round[m]
      <4>1. m \in c.loop /\ s.agent \in M(m) /\ u.agent \in M(m)
        BY <3>1, <1>s, <1>d DEF Common
      <4>2. M(l) \subseteq M(m) /\ m # l
        BY <4>1, <2>0, <2>3, <1>x
      <4>3. m \in Common(s, t) /\ m \in Common(t, u)
        BY <4>1, <4>2, <2>0, <1>d DEF Common
      <4> QED
        BY <4>2, <4>3, <2>1, <1>3
    <3>2. After(c, s.agent, u.agent)
      <4>1. Reaches(c, t.agent, l[1]) /\ l[1] \in c.agent
        BY <2>0 DEF Shaped, M
      <4>2. CASE Reaches(c, s.agent, t.agent)
        <5>1. Reaches(c, s.agent, l[1])
          BY <4>1, <4>2, <1>a DEF Shaped
        <5> QED
          BY <5>1, <2>0, <2>3 DEF After, M
      <4>3. ASSUME NEW k \in c.loop, s.agent \notin M(k), t.agent \in M(k),
                   Reaches(c, s.agent, k[1])
            PROVE  After(c, s.agent, u.agent)
        <5>1. CASE M(k) \subseteq M(l)
          <6>1. k[1] \in c.agent /\ k[1] \in M(l)
            BY <5>1 DEF Shaped, M
          <6>2. Reaches(c, k[1], l[1])
            BY <6>1, <2>0 DEF Shaped, M
          <6>3. Reaches(c, s.agent, l[1])
            BY <6>1, <6>2, <4>1, <4>3, <1>a DEF Shaped
          <6> QED
            BY <6>3, <2>0, <2>3 DEF After, M
        <5>2. CASE M(l) \subseteq M(k)
          BY <5>2, <4>3, <2>0 DEF After, M
        <5> QED
          BY <5>1, <5>2, <4>3, <2>0, <1>x
      <4> QED
        BY <1>3, <4>2, <4>3 DEF InSameRound, After, M
    <3> QED
      BY <3>1, <3>2, <2>0, <2>3 DEF InSameRound, Ahead
  <2> QED
    BY <2>2, <2>3
<1>4. ASSUME InSameRound(c, s, t), InSameRound(c, t, u)
      PROVE  Ahead(c, s, u)
  <2>1. After(c, s.agent, t.agent) /\ After(c, t.agent, u.agent)
        /\ s.agent # t.agent
    BY <1>4 DEF InSameRound
  <2>2. After(c, s.agent, u.agent)
    BY <2>1, <1>a, AfterOn
  <2>3. s.agent # u.agent
    BY <2>1, <1>a, AfterOneWay
  <2>4. ASSUME NEW m \in Common(s, u)
        PROVE  s.round[m] = u.round[m]
    <3>1. m \in c.loop /\ s.agent \in M(m) /\ u.agent \in M(m)
      BY <2>4, <1>s, <1>d DEF Common
    <3>2. t.agent \in M(m)
      BY <3>1, <2>1, <1>a, Between DEF M
    <3>3. m \in Common(s, t) /\ m \in Common(t, u)
      BY <3>1, <3>2, <1>d DEF Common
    <3> QED
      BY <3>3, <1>4 DEF InSameRound
  <2> QED
    BY <2>2, <2>3, <2>4 DEF InSameRound, Ahead
<1> QED
  BY <1>1, <1>2, <1>3, <1>4 DEF Ahead, InEarlierRound, M

\* Nothing is ahead of itself.
LEMMA NotAheadOfItself ==
    ASSUME NEW c, IsCanvas(c), NEW s \in AllIds(c)
    PROVE  ~Ahead(c, s, s)
<1>1. \A l \in DOMAIN s.round : ~(s.round[l] < s.round[l])
  BY IdShape
<1> QED
  BY <1>1 DEF Ahead, InEarlierRound, InSameRound, Common

\* A step waits only for steps that are ahead of it.
LEMMA NeedsAreAhead ==
    ASSUME NEW c, IsCanvas(c), WellFormed(c), NEW t \in AllIds(c), NEW s \in Needs(c, t)
    PROVE  s \in AllIds(c) /\ Ahead(c, s, t)
<1>t. /\ t.agent \in c.agent
      /\ DOMAIN t.round = {l \in c.loop : t.agent \in Members(c, l)}
      /\ \A l \in DOMAIN t.round : t.round[l] \in Nat
  BY IdShape
<1>1. ASSUME NEW e \in c.flow, e[2] = t.agent, e[1] # Input, s \in Before(c, t, e[1])
      PROVE  s \in AllIds(c) /\ Ahead(c, s, t)
  <2>1. e[1] \in Nodes(c) /\ e[1] # Output
    BY <1>1 DEF WellFormed, OutOf
  <2>2. e[1] \in c.agent
    BY <1>1, <2>1 DEF Nodes
  <2>3. s \in AllIds(c) /\ s.agent = e[1]
    BY <1>1, <2>2 DEF Before, AllIds, Ids
  <2>4. \A l \in Common(s, t) : s.round[l] = t.round[l]
    BY <1>1 DEF Before, Common
  <2>5. Reaches(c, e[1], e[2])
    BY ReachesAlong
  <2>6. e[1] # e[2]
    BY ReachesSelf DEF WellFormed
  <2> QED
    BY <1>1, <2>3, <2>4, <2>5, <2>6 DEF Ahead, InSameRound, After
<1>2. ASSUME NEW l \in LoopsOf(c, t.agent), l[2] = t.agent, t.round[l] # 1,
             s \in Before(c, [t EXCEPT !.round[l] = @ - 1], l[1])
      PROVE  s \in AllIds(c) /\ Ahead(c, s, t)
  <2>1. l \in c.loop /\ l \in DOMAIN t.round /\ l[1] \in c.agent
    BY <1>2, <1>t DEF LoopsOf, WellFormed
  <2>2. s \in AllIds(c) /\ s.agent = l[1]
    BY <1>2, <2>1 DEF Before, AllIds, Ids
  <2>3. l[1] \in Members(c, l)
    BY <2>1, ReachesSelf DEF Members, WellFormed
  <2>4. l \in Common(s, t)
    BY <2>1, <2>2, <2>3, IdShape DEF Common
  <2> DEFINE d == [t EXCEPT !.round[l] = @ - 1]
  <2>5. DOMAIN d.round = DOMAIN t.round /\ d.round[l] = t.round[l] - 1
        /\ \A m \in DOMAIN t.round : m # l => d.round[m] = t.round[m]
    <3>1. t = [agent |-> t.agent, round |-> t.round, recovery |-> t.recovery]
      BY DEF AllIds, Ids
    <3>2. d.round = [t.round EXCEPT ![l] = @ - 1]
      BY <3>1
    <3> QED
      BY <3>2, <2>1
  <2>6. \A m \in Common(s, t) : s.round[m] = d.round[m]
    BY <1>2, <2>5 DEF Before, Common
  <2>7. s.round[l] < t.round[l]
    BY <2>1, <2>4, <2>5, <2>6, <1>t
  <2>8. \A m \in Common(s, t) : m # l => s.round[m] = t.round[m]
    BY <2>5, <2>6 DEF Common
  <2> QED
    BY <2>2, <2>4, <2>7, <2>8 DEF Ahead, InEarlierRound
<1> QED
  BY <1>1, <1>2 DEF Needs, Into, RoundBefore

\* A canvas has finitely many loops.
LEMMA FinitelyManyLoops ==
    ASSUME NEW c, IsCanvas(c), WellFormed(c)
    PROVE  IsFiniteSet(c.loop)
<1>1. IsFiniteSet(Nodes(c))
  <2>1. Nodes(c) = (c.agent \cup {Input}) \cup {Output}
    BY DEF Nodes
  <2>2. IsFiniteSet(c.agent)
    BY DEF IsCanvas
  <2>3. IsFiniteSet(c.agent \cup {Input})
    BY <2>2, FS_AddElement
  <2>4. IsFiniteSet((c.agent \cup {Input}) \cup {Output})
    BY <2>3, FS_AddElement
  <2> QED
    BY <2>1, <2>4
<1> QED
  BY <1>1, FS_Product, FS_Subset DEF WellFormed

\* A canvas unrolls to finitely many steps.
LEMMA FinitelyManyIds ==
    ASSUME NEW c, IsCanvas(c), WellFormed(c)
    PROVE  IsFiniteSet(AllIds(c))
<1>2. IsFiniteSet(c.loop)
  BY FinitelyManyLoops
<1> DEFINE turns == [l \in c.loop |-> 1 .. c.rounds[l]]
           most == UNION {1 .. c.rounds[l] : l \in c.loop}
<1>3. IsFiniteSet(most)
  <2>1. \A l \in c.loop : IsFiniteSet(turns[l])
    <3>1. \A l \in c.loop : c.rounds[l] \in Int
      BY DEF IsCanvas
    <3> QED
      BY <3>1, FS_Interval
  <2>2. IsFiniteSet({turns[l] : l \in c.loop})
    BY <1>2, FiniteImage
  <2>3. IsFiniteSet(UNION {turns[l] : l \in c.loop})
    BY <2>1, <2>2, FS_UNION
  <2> QED
    BY <2>3
<1>4. ASSUME NEW a \in c.agent
      PROVE  IsFiniteSet(Ids(c, a))
  <2> HIDE DEF most
  <2>1. IsFiniteSet(LoopsOf(c, a))
    BY <1>2, FS_Subset DEF LoopsOf
  <2>2. IsFiniteSet([LoopsOf(c, a) -> most])
    BY <2>1, <1>3, FiniteFunctions
  <2>3. IsFiniteSet(Rounds(c, a))
    BY <2>2, FS_Subset DEF Rounds, most
  <2> DEFINE id == [r \in Rounds(c, a) |-> [agent |-> a, round |-> r, recovery |-> 0]]
  <2>4. IsFiniteSet({id[r] : r \in Rounds(c, a)})
    BY <2>3, FiniteImage
  <2>5. {id[r] : r \in Rounds(c, a)} = Ids(c, a)
    BY DEF Ids
  <2> QED
    BY <2>4, <2>5
<1> DEFINE ids == [a \in c.agent |-> Ids(c, a)]
<1>5. IsFiniteSet({ids[a] : a \in c.agent})
  <2>1. IsFiniteSet(c.agent)
    BY DEF IsCanvas
  <2>2. DOMAIN ids = c.agent
    OBVIOUS
  <2> HIDE DEF ids
  <2> QED
    BY <2>1, <2>2, FiniteImage
<1>6. IsFiniteSet(UNION {ids[a] : a \in c.agent})
  BY <1>4, <1>5, FS_UNION
<1>7. UNION {ids[a] : a \in c.agent} = AllIds(c)
  BY DEF AllIds
<1> QED
  BY <1>6, <1>7

\* Of some steps one has none of them ahead of it, and one is ahead of none.
LEMMA SomeFirst ==
    ASSUME NEW c, IsCanvas(c), WellFormed(c), NEW S \in SUBSET AllIds(c), S # {}
    PROVE  /\ \E x \in S : \A y \in S : ~Ahead(c, y, x)
           /\ \E x \in S : \A y \in S : ~Ahead(c, x, y)
<1>0. Shaped(c) /\ IsFiniteSet(S)
  BY WellFormedShaped, FinitelyManyIds, FS_Subset
<1>1. ASSUME NEW B, B = [x \in S |-> {y \in S : Ahead(c, y, x)}]
      PROVE  \E x \in S : \A y \in S : ~Ahead(c, y, x)
  <2>1. B \in [S -> SUBSET S]
    BY <1>1
  <2>2. PICK x \in S : \A y \in S : B[y] \subseteq B[x] => B[y] = B[x]
    BY <1>0, <2>1, SomeMinimal
  <2>3. ASSUME NEW y \in S, Ahead(c, y, x)
        PROVE  FALSE
    <3>1. B[y] \subseteq B[x]
      BY <1>0, <1>1, <2>3, AheadOn
    <3>2. y \in B[x] /\ y \notin B[y]
      BY <1>1, <2>3, NotAheadOfItself
    <3> QED
      BY <3>1, <3>2, <2>2
  <2> QED
    BY <2>3
<1>2. ASSUME NEW B, B = [x \in S |-> {y \in S : Ahead(c, x, y)}]
      PROVE  \E x \in S : \A y \in S : ~Ahead(c, x, y)
  <2>1. B \in [S -> SUBSET S]
    BY <1>2
  <2>2. PICK x \in S : \A y \in S : B[y] \subseteq B[x] => B[y] = B[x]
    BY <1>0, <2>1, SomeMinimal
  <2>3. ASSUME NEW y \in S, Ahead(c, x, y)
        PROVE  FALSE
    <3>1. B[y] \subseteq B[x]
      BY <1>0, <1>2, <2>3, AheadOn
    <3>2. y \in B[x] /\ y \notin B[y]
      BY <1>2, <2>3, NotAheadOfItself
    <3> QED
      BY <3>1, <3>2, <2>2
  <2> QED
    BY <2>3
<1> QED
  BY <1>1, <1>2

\* A canvas that compiles gives a plan that can be executed: no step is named
\* twice, waits for a step that is not in the plan, or waits for itself by any
\* way, however its loops are nested, entered and left.
THEOREM CompiledPlansExecute ==
    ASSUME NEW c, IsCanvas(c), Compiles(c)
    PROVE  Analyzes(Steps(c))
<1>0. WellFormed(c) /\ Shaped(c)
  BY WellFormedShaped DEF Compiles
<1>1. StepIds(Steps(c)) = AllIds(c)
  <2>1. ASSUME NEW id \in AllIds(c)
        PROVE  id \in StepIds(Steps(c))
    <3> DEFINE s == [id |-> id, needs |-> Needs(c, id), asks |-> Asks(c, id)]
    <3>1. s \in Steps(c) /\ s.id = id
      BY <2>1 DEF Steps, AllIds
    <3> QED
      BY <3>1 DEF StepIds
  <2>2. StepIds(Steps(c)) \subseteq AllIds(c)
    BY DEF StepIds, Steps, AllIds
  <2> QED
    BY <2>1, <2>2
<1>2. \A s, t \in Steps(c) : s.id = t.id => s = t
  BY DEF Steps
<1>3. \A s \in Steps(c) : s.id \in AllIds(c) /\ s.needs = Needs(c, s.id)
  BY DEF Steps, AllIds
<1>4. \A s \in Steps(c) : s.needs \subseteq StepIds(Steps(c))
  BY <1>0, <1>1, <1>3, NeedsAreAhead
<1>5. ASSUME NEW some \in SUBSET Steps(c), some # {}
      PROVE  \E s \in some : s.needs \cap StepIds(some) = {}
  <2> DEFINE S == StepIds(some)
  <2>1. S \subseteq AllIds(c) /\ S # {}
    BY <1>1, <1>3, <1>5 DEF StepIds
  <2>2. PICK x \in S : \A y \in S : ~Ahead(c, y, x)
    <3> HIDE DEF S
    <3> QED
      BY <1>0, <2>1, SomeFirst
  <2>3. PICK s \in some : s.id = x
    BY <2>2 DEF StepIds
  <2>4. s.needs \cap S = {}
    BY <1>0, <1>3, <2>1, <2>2, <2>3, NeedsAreAhead
  <2> QED
    BY <2>4
<1> QED
  BY <1>2, <1>4, <1>5 DEF Analyzes

-----------------------------------------------------------------------------
(* Loops: the ways in and out of a round.                                  *)

\* Of some loops an agent lies in, one lies within all of them.
LEMMA Innermost ==
    ASSUME NEW c, IsCanvas(c), WellFormed(c), NEW K \in SUBSET c.loop, K # {}, NEW a,
           \A k \in K : a \in Members(c, k)
    PROVE  \E k \in K : \A j \in K : Members(c, k) \subseteq Members(c, j)
<1> DEFINE B == [k \in K |-> {j \in K : Members(c, j) \subseteq Members(c, k)}]
<1>1. Shaped(c) /\ IsFiniteSet(K) /\ B \in [K -> SUBSET K]
  BY WellFormedShaped, FinitelyManyLoops, FS_Subset
<1>2. PICK k \in K : \A j \in K : B[j] \subseteq B[k] => B[j] = B[k]
  <2> HIDE DEF B
  <2> QED
    BY <1>1, SomeMinimal
<1>3. ASSUME NEW j \in K
      PROVE  Members(c, k) \subseteq Members(c, j)
  <2>1. Members(c, k) \subseteq Members(c, j) \/ Members(c, j) \subseteq Members(c, k)
    BY <1>1, Sharing
  <2>2. CASE Members(c, j) \subseteq Members(c, k)
    <3>1. B[j] \subseteq B[k] /\ k \in B[k]
      BY <2>2
    <3>2. k \in B[j]
      BY <3>1, <1>2
    <3> QED
      BY <3>2
  <2> QED
    BY <2>1, <2>2
<1> QED
  BY <1>3

\* A loop that has both ends of another has all of it.
LEMMA Spans ==
    ASSUME NEW c, Shaped(c), NEW k \in c.loop, NEW m \in c.loop,
           k[1] \in Members(c, m), k[2] \in Members(c, m)
    PROVE  Members(c, k) \subseteq Members(c, m)
<1> SUFFICES ASSUME NEW z \in Members(c, k)
             PROVE  z \in Members(c, m)
  OBVIOUS
<1>1. Reaches(c, k[2], z) /\ Reaches(c, z, k[1])
      /\ Reaches(c, m[2], k[2]) /\ Reaches(c, k[1], m[1])
  BY DEF Shaped
<1>2. z \in c.agent /\ k[1] \in c.agent /\ k[2] \in c.agent
      /\ m[1] \in c.agent /\ m[2] \in c.agent
  BY DEF Shaped
<1>3. Reaches(c, m[2], z) /\ Reaches(c, z, m[1])
  BY <1>1, <1>2 DEF Shaped
<1> QED
  BY <1>2, <1>3 DEF Shaped

\* A way from another node ends with an edge.
LEMMA ReachesEnds ==
    ASSUME NEW c, c.flow \subseteq Nodes(c) \X Nodes(c), NEW m \in Nodes(c), NEW n,
           Reaches(c, m, n), m # n
    PROVE  \E e \in c.flow : e[2] = n /\ Reaches(c, m, e[1])
<1> SUFFICES ASSUME \A e \in c.flow : e[2] = n => ~Reaches(c, m, e[1])
             PROVE  FALSE
  OBVIOUS
<1> DEFINE X == {x \in Nodes(c) : x # n /\ Reaches(c, m, x)}
<1>1. ASSUME NEW d \in c.flow, d[1] \in X
      PROVE  d[2] \in X
  <2>1. d[2] \in Nodes(c) /\ Reaches(c, m, d[1])
    BY <1>1
  <2>2. Reaches(c, m, d[2])
    BY <2>1, ReachesAlong, ReachesOn
  <2> QED
    BY <2>1, <2>2
<1>2. X \in SUBSET Nodes(c) /\ m \in X /\ Closed(c, X)
  BY <1>1, ReachesSelf DEF Closed
<1>3. n \in X
  BY <1>2 DEF Reaches
<1> QED
  BY <1>3

\* Within a loop, one comes to all agents but its target.
LEMMA Arrives ==
    ASSUME NEW c, IsCanvas(c), WellFormed(c), NEW k \in c.loop, NEW a \in Members(c, k),
           a # k[2]
    PROVE  \E e \in c.flow : e[2] = a /\ e[1] \in Members(c, k)
<1>0. /\ c.flow \subseteq Nodes(c) \X Nodes(c)
      /\ k[2] \in c.agent /\ a \in c.agent /\ c.agent \subseteq Nodes(c)
      /\ Reaches(c, k[2], a) /\ Reaches(c, a, k[1])
  BY DEF WellFormed, Nodes, Members
<1>1. PICK e \in c.flow : e[2] = a /\ Reaches(c, k[2], e[1])
  BY <1>0, ReachesEnds
<1>2. e[1] \in Nodes(c) /\ e[1] # Output
  BY <1>0 DEF WellFormed, OutOf
<1>3. e[1] # Input
  <2> SUFFICES ASSUME e[1] = Input
               PROVE  FALSE
    OBVIOUS
  <2>1. k[2] # Input
    BY <1>0 DEF IsCanvas
  <2>2. \E d \in c.flow : d[2] = Input
    BY <1>0, <1>1, <2>1, ReachesEnds
  <2> QED
    BY <2>2 DEF WellFormed, Into
<1>4. Reaches(c, e[1], k[1])
  BY <1>0, <1>1, ReachesAlong, ReachesOn
<1> QED
  BY <1>1, <1>2, <1>3, <1>4 DEF Members, Nodes

\* In the same way, one leaves all agents of a loop but its source.
LEMMA Departs ==
    ASSUME NEW c, IsCanvas(c), WellFormed(c), NEW k \in c.loop, NEW a \in Members(c, k),
           a # k[1]
    PROVE  \E e \in c.flow : e[1] = a /\ e[2] \in Members(c, k)
<1>0. /\ c.flow \subseteq Nodes(c) \X Nodes(c)
      /\ k[1] \in c.agent /\ a \in c.agent /\ c.agent \subseteq Nodes(c)
      /\ Output \in Nodes(c)
      /\ Reaches(c, k[2], a) /\ Reaches(c, a, k[1])
  BY DEF WellFormed, Nodes, Members
<1>1. PICK e \in c.flow : e[1] = a /\ Reaches(c, e[2], k[1])
  BY <1>0, ReachesBegins
<1>2. e[2] \in Nodes(c) /\ e[2] # Input
  BY <1>0 DEF WellFormed, Into
<1>3. e[2] # Output
  <2> SUFFICES ASSUME e[2] = Output
               PROVE  FALSE
    OBVIOUS
  <2>1. k[1] # Output
    BY <1>0 DEF IsCanvas
  <2>2. \E d \in c.flow : d[1] = Output
    BY <1>0, <1>1, <2>1, ReachesBegins
  <2> QED
    BY <2>2 DEF WellFormed, OutOf
<1>4. Reaches(c, k[2], e[2])
  BY <1>0, <1>1, ReachesAlong, ReachesOn
<1> QED
  BY <1>1, <1>2, <1>3, <1>4 DEF Members, Nodes

-----------------------------------------------------------------------------
(* Steps of given rounds.                                                  *)

\* A step has a round of each loop its agent lies in, up to the last.
LEMMA IdRounds ==
    ASSUME NEW c, IsCanvas(c), NEW s \in AllIds(c)
    PROVE  /\ s = [agent |-> s.agent, round |-> s.round, recovery |-> 0]
           /\ s.agent \in c.agent /\ LoopsOf(c, s.agent) \subseteq c.loop
           /\ s.round = [l \in LoopsOf(c, s.agent) |-> s.round[l]]
           /\ \A l \in c.loop : l \in DOMAIN s.round <=> s.agent \in Members(c, l)
           /\ \A l \in DOMAIN s.round :
                /\ l \in c.loop /\ c.rounds[l] \in Nat /\ s.round[l] \in Nat
                /\ 1 <= s.round[l] /\ s.round[l] <= c.rounds[l]
<1>1. PICK a \in c.agent : s \in Ids(c, a)
  BY DEF AllIds
<1>2. PICK r \in Rounds(c, a) : s = [agent |-> a, round |-> r, recovery |-> 0]
  BY <1>1 DEF Ids
<1>3. r \in [LoopsOf(c, a) -> UNION {1 .. c.rounds[l] : l \in c.loop}]
      /\ \A l \in DOMAIN r : r[l] <= c.rounds[l]
  BY DEF Rounds
<1>4. \A l \in c.loop : c.rounds[l] \in Nat
  BY DEF IsCanvas
<1>5. \A n \in UNION {1 .. c.rounds[l] : l \in c.loop} : n \in Nat /\ 1 <= n
  BY <1>4
<1>6. \A l \in DOMAIN r : l \in c.loop /\ r[l] \in Nat /\ 1 <= r[l]
  BY <1>3, <1>5 DEF LoopsOf
<1>7. r = [l \in LoopsOf(c, a) |-> r[l]]
  BY <1>3
<1>8. s.agent = a /\ s.round = r
  BY <1>2
<1> QED
  BY <1>2, <1>3, <1>4, <1>6, <1>7, <1>8 DEF LoopsOf

\* An agent and a round of each of its loops make a step.
LEMMA IdOf ==
    ASSUME NEW c, IsCanvas(c), NEW a \in c.agent, NEW f \in [LoopsOf(c, a) -> Nat],
           \A l \in LoopsOf(c, a) : 1 <= f[l] /\ f[l] <= c.rounds[l]
    PROVE  [agent |-> a, round |-> f, recovery |-> 0] \in Ids(c, a) \cap AllIds(c)
<1>1. ASSUME NEW l \in LoopsOf(c, a)
      PROVE  f[l] \in UNION {1 .. c.rounds[m] : m \in c.loop}
  <2>1. l \in c.loop /\ f[l] \in Nat /\ c.rounds[l] \in Nat
    BY DEF LoopsOf, IsCanvas
  <2>2. f[l] \in 1 .. c.rounds[l]
    BY <2>1
  <2> QED
    BY <2>1, <2>2
<1>2. f \in Rounds(c, a)
  BY <1>1 DEF Rounds
<1> QED
  BY <1>2 DEF Ids, AllIds

\* A step is known by its agent and rounds.
LEMMA SameId ==
    ASSUME NEW c, IsCanvas(c), NEW s \in AllIds(c), NEW t \in AllIds(c),
           s.agent = t.agent, \A l \in DOMAIN s.round : s.round[l] = t.round[l]
    PROVE  s = t
<1>1. s.round = [l \in LoopsOf(c, s.agent) |-> s.round[l]]
      /\ t.round = [l \in LoopsOf(c, s.agent) |-> t.round[l]]
  BY IdRounds
<1>2. \A l \in LoopsOf(c, s.agent) : s.round[l] = t.round[l]
  BY <1>1
<1>3. s.round = t.round
  BY <1>1, <1>2
<1>4. s = [agent |-> s.agent, round |-> s.round, recovery |-> 0]
  BY IdRounds
<1>5. t = [agent |-> t.agent, round |-> t.round, recovery |-> 0]
  BY IdRounds
<1> QED
  BY <1>3, <1>4, <1>5

\* Along an edge a step waits for a step of the same rounds, if the loops that it
\* enters are in their first round.
LEMMA WaitsFor ==
    ASSUME NEW c, IsCanvas(c), NEW x \in AllIds(c), NEW a \in c.agent,
           \A m \in DOMAIN x.round : a \notin Members(c, m) => x.round[m] = 1
    PROVE  \E y \in Before(c, x, a) \cap AllIds(c) :
              /\ y.agent = a
              /\ \A m \in DOMAIN y.round :
                   y.round[m] = IF m \in DOMAIN x.round THEN x.round[m] ELSE c.rounds[m]
<1> DEFINE f == [m \in LoopsOf(c, a) |-> IF m \in DOMAIN x.round THEN x.round[m]
                                         ELSE c.rounds[m]]
           y == [agent |-> a, round |-> f, recovery |-> 0]
<1>1. ASSUME NEW m \in LoopsOf(c, a)
      PROVE  f[m] \in Nat /\ 1 <= f[m] /\ f[m] <= c.rounds[m]
  <2>1. c.rounds[m] \in Nat /\ 1 <= c.rounds[m]
    <3>1. c.rounds[m] \in Nat \ {0}
      BY DEF IsCanvas, LoopsOf
    <3> QED
      BY <3>1
  <2>2. m \in DOMAIN x.round => x.round[m] \in Nat /\ 1 <= x.round[m] /\ x.round[m] <= c.rounds[m]
    BY IdRounds
  <2>3. f[m] = IF m \in DOMAIN x.round THEN x.round[m] ELSE c.rounds[m]
    OBVIOUS
  <2> HIDE DEF f
  <2> QED
    BY <2>1, <2>2, <2>3
<1>2. y \in Ids(c, a) \cap AllIds(c)
  BY <1>1, IdOf
<1>3. \A m \in DOMAIN y.round \cup DOMAIN x.round :
        CASE m \notin DOMAIN x.round -> y.round[m] = c.rounds[m]
          [] m \notin DOMAIN y.round -> x.round[m] = 1
          [] OTHER -> y.round[m] = x.round[m]
  BY IdRounds DEF LoopsOf
<1>4. y \in Before(c, x, a)
  BY <1>2, <1>3 DEF Before
<1> QED
  BY <1>2, <1>4

\* The step that waits along an edge for a step whose loops, where the edge
\* leaves them, are in their last round.
LEMMA WaitedBy ==
    ASSUME NEW c, IsCanvas(c), NEW x \in AllIds(c), NEW a \in c.agent,
           \A m \in DOMAIN x.round : a \notin Members(c, m) => x.round[m] = c.rounds[m]
    PROVE  \E y \in AllIds(c) :
              /\ x \in Before(c, y, x.agent)
              /\ y.agent = a
              /\ \A m \in DOMAIN y.round :
                   y.round[m] = IF m \in DOMAIN x.round THEN x.round[m] ELSE 1
<1> DEFINE f == [m \in LoopsOf(c, a) |-> IF m \in DOMAIN x.round THEN x.round[m] ELSE 1]
           y == [agent |-> a, round |-> f, recovery |-> 0]
<1>1. ASSUME NEW m \in LoopsOf(c, a)
      PROVE  f[m] \in Nat /\ 1 <= f[m] /\ f[m] <= c.rounds[m]
  <2>1. c.rounds[m] \in Nat /\ 1 <= c.rounds[m]
    <3>1. c.rounds[m] \in Nat \ {0}
      BY DEF IsCanvas, LoopsOf
    <3> QED
      BY <3>1
  <2>2. m \in DOMAIN x.round => x.round[m] \in Nat /\ 1 <= x.round[m] /\ x.round[m] <= c.rounds[m]
    BY IdRounds
  <2>3. f[m] = IF m \in DOMAIN x.round THEN x.round[m] ELSE 1
    OBVIOUS
  <2> HIDE DEF f
  <2> QED
    BY <2>1, <2>2, <2>3
<1>2. y \in Ids(c, a) \cap AllIds(c)
  BY <1>1, IdOf
<1>3. \A m \in DOMAIN x.round \cup DOMAIN y.round :
        CASE m \notin DOMAIN y.round -> x.round[m] = c.rounds[m]
          [] m \notin DOMAIN x.round -> y.round[m] = 1
          [] OTHER -> x.round[m] = y.round[m]
  BY IdRounds DEF LoopsOf
<1>4. x \in Ids(c, x.agent)
  BY DEF AllIds, Ids
<1>5. x \in Before(c, y, x.agent)
  BY <1>3, <1>4 DEF Before
<1> QED
  BY <1>2, <1>5

\* The same step one round of loop "k" earlier or later.
LEMMA RoundEarlier ==
    ASSUME NEW c, IsCanvas(c), NEW x \in AllIds(c), NEW k \in DOMAIN x.round,
           x.round[k] # 1
    PROVE  LET d == [x EXCEPT !.round[k] = @ - 1]
           IN  /\ d \in AllIds(c) /\ d.agent = x.agent
               /\ DOMAIN d.round = DOMAIN x.round /\ d.round[k] = x.round[k] - 1
               /\ \A m \in DOMAIN x.round : m # k => d.round[m] = x.round[m]
<1> DEFINE d == [x EXCEPT !.round[k] = @ - 1]
           f == [m \in LoopsOf(c, x.agent) |-> IF m = k THEN x.round[m] - 1 ELSE x.round[m]]
<1>1. /\ x = [agent |-> x.agent, round |-> x.round, recovery |-> 0]
      /\ x.agent \in c.agent
      /\ x.round = [l \in LoopsOf(c, x.agent) |-> x.round[l]]
      /\ \A m \in LoopsOf(c, x.agent) :
           /\ c.rounds[m] \in Nat /\ x.round[m] \in Nat
           /\ 1 <= x.round[m] /\ x.round[m] <= c.rounds[m]
  BY IdRounds
<1>2. d = [agent |-> x.agent, round |-> f, recovery |-> 0]
  <2>1. d = [agent |-> x.agent, round |-> [x.round EXCEPT ![k] = @ - 1], recovery |-> 0]
    BY <1>1
  <2>2. [x.round EXCEPT ![k] = @ - 1] = f
    BY <1>1
  <2> QED
    BY <2>1, <2>2
<1>3. ASSUME NEW m \in LoopsOf(c, x.agent)
      PROVE  f[m] \in Nat /\ 1 <= f[m] /\ f[m] <= c.rounds[m]
  <2>1. f[m] = IF m = k THEN x.round[m] - 1 ELSE x.round[m]
    OBVIOUS
  <2> HIDE DEF f
  <2>2. CASE m = k
    BY <2>1, <2>2, <1>1
  <2>3. CASE m # k
    BY <2>1, <2>3, <1>1
  <2> QED
    BY <2>2, <2>3
<1>4. d \in AllIds(c)
  BY <1>1, <1>2, <1>3, IdOf
<1>5. k \in LoopsOf(c, x.agent) /\ DOMAIN x.round = LoopsOf(c, x.agent)
  BY <1>1
<1>6. /\ d.agent = x.agent /\ DOMAIN d.round = LoopsOf(c, x.agent)
      /\ \A m \in LoopsOf(c, x.agent) :
           d.round[m] = IF m = k THEN x.round[m] - 1 ELSE x.round[m]
  BY <1>2
<1> HIDE DEF d, f
<1> QED
  BY <1>4, <1>5, <1>6 DEF d

\* The first step of a round of "k" waits for the last one of the round before.
LEMMA WaitsForRound ==
    ASSUME NEW c, IsCanvas(c), WellFormed(c), NEW x \in AllIds(c), NEW k \in DOMAIN x.round,
           x.agent = k[2], x.round[k] # 1,
           \A m \in DOMAIN x.round : x.round[m] # 1 => Members(c, k) \subseteq Members(c, m)
    PROVE  \E y \in Needs(c, x) :
              /\ y.agent = k[1]
              /\ y.round[k] = x.round[k] - 1
              /\ \A m \in DOMAIN y.round : m # k =>
                   y.round[m] = IF Members(c, k) \subseteq Members(c, m) THEN x.round[m]
                                ELSE c.rounds[m]
<1> DEFINE d == [x EXCEPT !.round[k] = @ - 1]
<1>0. Shaped(c)
  BY WellFormedShaped
<1>1. k \in c.loop /\ k[1] \in c.agent /\ k[1] \in Members(c, k) /\ x.agent \in Members(c, k)
  BY <1>0, IdRounds DEF Shaped
<1>2. /\ d \in AllIds(c) /\ d.agent = x.agent
      /\ DOMAIN d.round = DOMAIN x.round /\ d.round[k] = x.round[k] - 1
      /\ \A m \in DOMAIN x.round : m # k => d.round[m] = x.round[m]
  BY RoundEarlier
<1> HIDE DEF d
<1>3. \A m \in DOMAIN d.round : k[1] \notin Members(c, m) => d.round[m] = 1
  BY <1>1, <1>2
<1>4. PICK y \in Before(c, d, k[1]) \cap AllIds(c) :
              /\ y.agent = k[1]
              /\ \A m \in DOMAIN y.round :
                   y.round[m] = IF m \in DOMAIN d.round THEN d.round[m] ELSE c.rounds[m]
  BY <1>1, <1>2, <1>3, WaitsFor
<1>5. y \in Needs(c, x)
  <2>1. k \in {m \in LoopsOf(c, x.agent) : m[2] = x.agent}
    BY <1>1 DEF LoopsOf
  <2>2. RoundBefore(c, x, k) = Before(c, d, k[1])
    BY DEF RoundBefore, d
  <2> QED
    BY <1>4, <2>1, <2>2 DEF Needs
<1>6. k \in DOMAIN y.round
  BY <1>1, <1>4, IdRounds
<1>7. ASSUME NEW m \in DOMAIN y.round, m # k
      PROVE  y.round[m] = IF Members(c, k) \subseteq Members(c, m) THEN x.round[m]
                          ELSE c.rounds[m]
  <2>1. m \in c.loop /\ k[1] \in Members(c, m)
    BY <1>4, <1>7, IdRounds
  <2>2. m \in DOMAIN x.round <=> Members(c, k) \subseteq Members(c, m)
    <3>1. m \in DOMAIN x.round <=> k[2] \in Members(c, m)
      BY <2>1, IdRounds
    <3> QED
      BY <1>0, <1>1, <2>1, <3>1, Spans
  <2> QED
    BY <1>2, <1>4, <1>7, <2>2
<1> QED
  BY <1>2, <1>4, <1>5, <1>6, <1>7

\* The first step of the next round of "k" waits for the last one of a round.
LEMMA WaitedByRound ==
    ASSUME NEW c, IsCanvas(c), WellFormed(c), NEW x \in AllIds(c), NEW k \in DOMAIN x.round,
           x.agent = k[1], x.round[k] # c.rounds[k],
           \A m \in DOMAIN x.round :
             x.round[m] # c.rounds[m] => Members(c, k) \subseteq Members(c, m)
    PROVE  \E y \in AllIds(c) :
              /\ x \in Needs(c, y)
              /\ y.agent = k[2]
              /\ y.round[k] = x.round[k] + 1
              /\ \A m \in DOMAIN y.round : m # k /\ m \in DOMAIN x.round =>
                   y.round[m] = x.round[m]
<1> DEFINE f == [m \in LoopsOf(c, k[2]) |-> IF m = k THEN x.round[k] + 1
                                            ELSE IF m \in DOMAIN x.round THEN x.round[m]
                                            ELSE 1]
           y == [agent |-> k[2], round |-> f, recovery |-> 0]
           d == [y EXCEPT !.round[k] = @ - 1]
<1>0. Shaped(c)
  BY WellFormedShaped
<1>1. k \in c.loop /\ k[2] \in c.agent /\ k[2] \in Members(c, k) /\ x.agent \in Members(c, k)
  BY <1>0, IdRounds DEF Shaped
<1>2. ASSUME NEW m \in LoopsOf(c, k[2])
      PROVE  f[m] \in Nat /\ 1 <= f[m] /\ f[m] <= c.rounds[m]
  <2>1. c.rounds[m] \in Nat /\ 1 <= c.rounds[m]
    <3>1. c.rounds[m] \in Nat \ {0}
      BY DEF IsCanvas, LoopsOf
    <3> QED
      BY <3>1
  <2>2. m \in DOMAIN x.round => x.round[m] \in Nat /\ 1 <= x.round[m] /\ x.round[m] <= c.rounds[m]
    BY IdRounds
  <2>3. f[m] = IF m = k THEN x.round[k] + 1
               ELSE IF m \in DOMAIN x.round THEN x.round[m] ELSE 1
    OBVIOUS
  <2> HIDE DEF f
  <2>4. CASE m = k
    BY <2>1, <2>2, <2>3, <2>4
  <2>5. CASE m # k
    BY <2>1, <2>2, <2>3, <2>5
  <2> QED
    BY <2>4, <2>5
<1>3. y \in AllIds(c)
  BY <1>1, <1>2, IdOf
<1>4. /\ y.agent = k[2] /\ DOMAIN y.round = LoopsOf(c, k[2]) /\ k \in LoopsOf(c, k[2])
      /\ y.round[k] = x.round[k] + 1
      /\ \A m \in DOMAIN y.round : m # k =>
           y.round[m] = IF m \in DOMAIN x.round THEN x.round[m] ELSE 1
  BY <1>1 DEF LoopsOf
<1> HIDE DEF y
<1>5. x.round[k] \in Nat /\ 1 <= x.round[k]
  BY IdRounds
<1>6. y.round[k] # 1
  BY <1>4, <1>5
<1>7. /\ d \in AllIds(c)
      /\ DOMAIN d.round = DOMAIN y.round /\ d.round[k] = y.round[k] - 1
      /\ \A m \in DOMAIN y.round : m # k => d.round[m] = y.round[m]
  BY <1>3, <1>4, <1>6, RoundEarlier
<1> HIDE DEF d
<1>8. d.round[k] = x.round[k]
  BY <1>4, <1>5, <1>7
<1>9. x \in Ids(c, k[1])
  BY DEF AllIds, Ids
<1>10. ASSUME NEW m \in DOMAIN x.round \cup DOMAIN d.round
       PROVE  CASE m \notin DOMAIN d.round -> x.round[m] = c.rounds[m]
                [] m \notin DOMAIN x.round -> d.round[m] = 1
                [] OTHER -> x.round[m] = d.round[m]
  <2>1. m \in c.loop
    BY <1>4, <1>7, <1>10, IdRounds DEF LoopsOf
  <2>2. CASE m \notin DOMAIN d.round
    <3>1. ~(Members(c, k) \subseteq Members(c, m))
      BY <1>1, <1>4, <1>7, <2>1, <2>2 DEF LoopsOf
    <3> QED
      BY <1>10, <2>2, <3>1
  <2>3. CASE m \in DOMAIN d.round
    BY <1>4, <1>7, <1>8, <2>3
  <2> QED
    BY <2>2, <2>3
<1>11. x \in Before(c, d, k[1])
  BY <1>9, <1>10 DEF Before
<1>12. x \in Needs(c, y)
  <2>1. k \in {m \in LoopsOf(c, y.agent) : m[2] = y.agent}
    BY <1>4
  <2>2. RoundBefore(c, y, k) = Before(c, d, k[1])
    BY <1>6 DEF RoundBefore, d
  <2> QED
    BY <1>11, <2>1, <2>2 DEF Needs
<1> QED
  BY <1>3, <1>4, <1>12

\* A step of a later round of "l" waits, at some remove, for the last step of
\* the round before: going back from it as far as the round goes ends at the
\* first step of the round.
LEMMA LastOfRound ==
    ASSUME NEW c, IsCanvas(c), WellFormed(c),
           NEW X, \A x \in X \cap AllIds(c) : Needs(c, x) \subseteq X,
           NEW s \in X \cap AllIds(c), NEW l \in DOMAIN s.round, s.round[l] # 1
    PROVE  \E z \in X \cap AllIds(c) :
              /\ z.agent = l[1]
              /\ z.round[l] = s.round[l] - 1
              /\ \A m \in DOMAIN z.round : m # l =>
                   z.round[m] = IF Members(c, l) \subseteq Members(c, m) THEN s.round[m]
                                ELSE c.rounds[m]
<1> DEFINE M(m) == Members(c, m)
           S == {x \in X \cap AllIds(c) :
                   /\ x.agent \in M(l)
                   /\ \A m \in DOMAIN x.round : M(l) \subseteq M(m) => x.round[m] = s.round[m]}
<1>0. Shaped(c)
  BY WellFormedShaped
<1>1. l \in c.loop /\ s.agent \in M(l) /\ s \in S
  BY IdRounds
<1>2. PICK x \in S : \A y \in S : ~Ahead(c, y, x)
  BY <1>1, SomeFirst
<1>3. x \in X \cap AllIds(c) /\ x.agent \in M(l)
      /\ \A m \in DOMAIN x.round : M(l) \subseteq M(m) => x.round[m] = s.round[m]
  BY <1>2
<1>4. ASSUME NEW y \in Needs(c, x), y.agent \in M(l),
             \A m \in DOMAIN y.round : M(l) \subseteq M(m) => y.round[m] = s.round[m]
      PROVE  FALSE
  <2>1. y \in AllIds(c) /\ Ahead(c, y, x)
    BY <1>3, NeedsAreAhead
  <2>2. y \in S
    BY <1>3, <1>4, <2>1
  <2> QED
    BY <1>2, <2>1, <2>2
<1>d. \A m \in c.loop : m \in DOMAIN x.round <=> x.agent \in M(m)
  BY <1>3, IdRounds
<1> DEFINE K == {m \in DOMAIN x.round : M(m) \subseteq M(l) /\ (m = l \/ x.round[m] # 1)}
<1>5. /\ l \in K /\ K \in SUBSET c.loop
      /\ \A k \in K : x.agent \in Members(c, k)
  BY <1>1, <1>3, IdRounds
<1>6. PICK k \in K : \A j \in K : M(k) \subseteq M(j)
  <2> HIDE DEF K
  <2>1. K # {}
    BY <1>5
  <2>2. \E k \in K : \A j \in K : Members(c, k) \subseteq Members(c, j)
    BY <1>5, <2>1, Innermost
  <2> QED
    BY <2>2
<1>7. k \in c.loop /\ k \in DOMAIN x.round /\ M(k) \subseteq M(l) /\ x.agent \in M(k)
      /\ (k = l \/ x.round[k] # 1)
  BY <1>5, <1>6
<1>8. ASSUME NEW j \in DOMAIN x.round, x.round[j] # 1
      PROVE  M(k) \subseteq M(j)
  <2>1. j \in c.loop /\ x.agent \in M(j)
    BY <1>3, IdRounds
  <2>2. M(j) \subseteq M(l) \/ M(l) \subseteq M(j)
    BY <1>0, <1>1, <1>3, <2>1, Sharing
  <2>3. CASE M(j) \subseteq M(l)
    BY <1>6, <1>8, <2>3
  <2>4. CASE M(l) \subseteq M(j)
    BY <1>7, <2>4
  <2> QED
    BY <2>2, <2>3, <2>4
<1> HIDE DEF S, K
<1>9. CASE x.agent # k[2]
  <2>1. PICK e \in c.flow : e[2] = x.agent /\ e[1] \in M(k)
    BY <1>7, <1>9, Arrives
  <2>2. e[1] \in c.agent /\ e[1] # Input
    BY <2>1 DEF Members, IsCanvas
  <2>3. \A m \in DOMAIN x.round : e[1] \notin Members(c, m) => x.round[m] = 1
    BY <1>8, <2>1
  <2>4. PICK y \in Before(c, x, e[1]) \cap AllIds(c) :
              /\ y.agent = e[1]
              /\ \A m \in DOMAIN y.round :
                   y.round[m] = IF m \in DOMAIN x.round THEN x.round[m] ELSE c.rounds[m]
    BY <1>3, <2>2, <2>3, WaitsFor
  <2>5. y \in Needs(c, x)
    BY <2>1, <2>2, <2>4 DEF Needs, Into
  <2>6. ASSUME NEW m \in DOMAIN y.round, M(l) \subseteq M(m)
        PROVE  y.round[m] = s.round[m]
    <3>1. m \in c.loop
      BY <2>4, <2>6, IdRounds
    <3>2. m \in DOMAIN x.round
      BY <1>3, <1>d, <2>6, <3>1
    <3> QED
      BY <1>3, <2>4, <2>6, <3>2
  <2> QED
    BY <1>4, <1>7, <2>1, <2>4, <2>5, <2>6
<1>10. CASE x.agent = k[2] /\ k # l
  <2>1. PICK y \in Needs(c, x) :
              /\ y.agent = k[1]
              /\ y.round[k] = x.round[k] - 1
              /\ \A m \in DOMAIN y.round : m # k =>
                   y.round[m] = IF Members(c, k) \subseteq Members(c, m) THEN x.round[m]
                                ELSE c.rounds[m]
    BY <1>3, <1>7, <1>8, <1>10, WaitsForRound
  <2>2. y.agent \in M(l)
    BY <1>0, <1>7, <2>1 DEF Shaped
  <2>3. ASSUME NEW m \in DOMAIN y.round, M(l) \subseteq M(m)
        PROVE  y.round[m] = s.round[m]
    <3>1. y \in AllIds(c)
      BY <1>3, <2>1, NeedsAreAhead
    <3>2. m \in c.loop
      BY <2>3, <3>1, IdRounds
    <3>3. m # k
      BY <1>0, <1>1, <1>7, <1>10, <2>3, SameLoop
    <3>4. m \in DOMAIN x.round
      BY <1>3, <1>d, <2>3, <3>2
    <3> QED
      BY <1>3, <1>7, <2>1, <2>3, <3>3, <3>4
  <2> QED
    BY <1>4, <2>1, <2>2, <2>3
<1>11. CASE x.agent = l[2] /\ k = l
  <2>1. x.round[l] = s.round[l]
    BY <1>3, <1>7, <1>11
  <2>2. PICK z \in Needs(c, x) :
              /\ z.agent = l[1]
              /\ z.round[l] = x.round[l] - 1
              /\ \A m \in DOMAIN z.round : m # l =>
                   z.round[m] = IF Members(c, l) \subseteq Members(c, m) THEN x.round[m]
                                ELSE c.rounds[m]
    BY <1>3, <1>7, <1>8, <1>11, <2>1, WaitsForRound
  <2>3. z \in X \cap AllIds(c)
    BY <1>3, <2>2, NeedsAreAhead
  <2>4. ASSUME NEW m \in DOMAIN z.round, m # l
        PROVE  z.round[m] = IF M(l) \subseteq M(m) THEN s.round[m] ELSE c.rounds[m]
    <3>1. m \in c.loop
      BY <2>3, <2>4, IdRounds
    <3>2. M(l) \subseteq M(m) => m \in DOMAIN x.round
      BY <1>3, <1>d, <3>1
    <3> QED
      BY <1>3, <2>2, <2>4, <3>2
  <2> QED
    BY <2>1, <2>2, <2>3, <2>4
<1> QED
  BY <1>9, <1>10, <1>11

\* What waits at some remove for the last step of a round, or is that step, does
\* so for all steps of the round: going on from one of them as far as the round
\* goes ends at its last step.
LEMMA AllOfRound ==
    ASSUME NEW c, IsCanvas(c), WellFormed(c),
           NEW X, \A x \in X \cap AllIds(c) : Needs(c, x) \subseteq X,
           NEW z \in X \cap AllIds(c), NEW l \in c.loop, z.agent = l[1],
           \A m \in DOMAIN z.round :
             ~(Members(c, l) \subseteq Members(c, m)) => z.round[m] = c.rounds[m],
           NEW t \in AllIds(c), t.agent \in Members(c, l),
           \A m \in DOMAIN t.round :
             Members(c, l) \subseteq Members(c, m) => t.round[m] = z.round[m]
    PROVE  t \in X
<1> DEFINE M(m) == Members(c, m)
           S == {x \in AllIds(c) \ X :
                   /\ x.agent \in M(l)
                   /\ \A m \in DOMAIN x.round : M(l) \subseteq M(m) => x.round[m] = z.round[m]}
<1> SUFFICES ASSUME t \notin X
             PROVE  FALSE
  OBVIOUS
<1>0. Shaped(c)
  BY WellFormedShaped
<1>1. t \in S /\ S \in SUBSET AllIds(c)
  OBVIOUS
<1>2. PICK x \in S : \A y \in S : ~Ahead(c, x, y)
  <2> HIDE DEF S
  <2> QED
    BY <1>1, SomeFirst
<1>3. x \in AllIds(c) /\ x \notin X /\ x.agent \in M(l)
      /\ \A m \in DOMAIN x.round : M(l) \subseteq M(m) => x.round[m] = z.round[m]
  BY <1>2
<1>4. ASSUME NEW y \in AllIds(c), x \in Needs(c, y), y.agent \in M(l),
             \A m \in DOMAIN y.round : M(l) \subseteq M(m) => y.round[m] = z.round[m]
      PROVE  FALSE
  <2>1. Ahead(c, x, y)
    BY <1>4, NeedsAreAhead
  <2>2. y \in S
    BY <1>3, <1>4
  <2> QED
    BY <1>2, <2>1, <2>2
<1>d. \A m \in c.loop : m \in DOMAIN x.round <=> x.agent \in M(m)
  BY <1>3, IdRounds
<1> DEFINE K == {m \in DOMAIN x.round :
                   M(m) \subseteq M(l) /\ (m = l \/ x.round[m] # c.rounds[m])}
<1>5. /\ l \in K /\ K \in SUBSET c.loop
      /\ \A k \in K : x.agent \in Members(c, k)
  BY <1>3, IdRounds
<1>6. PICK k \in K : \A j \in K : M(k) \subseteq M(j)
  <2> HIDE DEF K
  <2>1. K # {}
    BY <1>5
  <2>2. \E k \in K : \A j \in K : Members(c, k) \subseteq Members(c, j)
    BY <1>5, <2>1, Innermost
  <2> QED
    BY <2>2
<1>7. k \in c.loop /\ k \in DOMAIN x.round /\ M(k) \subseteq M(l) /\ x.agent \in M(k)
      /\ (k = l \/ x.round[k] # c.rounds[k])
  BY <1>5, <1>6
<1>8. ASSUME NEW j \in DOMAIN x.round, x.round[j] # c.rounds[j]
      PROVE  M(k) \subseteq M(j)
  <2>1. j \in c.loop /\ x.agent \in M(j)
    BY <1>3, IdRounds
  <2>2. M(j) \subseteq M(l) \/ M(l) \subseteq M(j)
    BY <1>0, <1>3, <2>1, Sharing
  <2>3. CASE M(j) \subseteq M(l)
    BY <1>6, <1>8, <2>3
  <2>4. CASE M(l) \subseteq M(j)
    BY <1>7, <2>4
  <2> QED
    BY <2>2, <2>3, <2>4
<1> HIDE DEF S, K
<1>9. CASE x.agent # k[1]
  <2>1. PICK e \in c.flow : e[1] = x.agent /\ e[2] \in M(k)
    BY <1>7, <1>9, Departs
  <2>2. e[2] \in c.agent /\ x.agent # Input
    BY <1>3, <2>1 DEF Members, IsCanvas
  <2>3. \A m \in DOMAIN x.round : e[2] \notin Members(c, m) => x.round[m] = c.rounds[m]
    BY <1>8, <2>1
  <2>4. PICK y \in AllIds(c) :
              /\ x \in Before(c, y, x.agent)
              /\ y.agent = e[2]
              /\ \A m \in DOMAIN y.round :
                   y.round[m] = IF m \in DOMAIN x.round THEN x.round[m] ELSE 1
    BY <1>3, <2>2, <2>3, WaitedBy
  <2>5. x \in Needs(c, y)
    BY <2>1, <2>2, <2>4 DEF Needs, Into
  <2>6. ASSUME NEW m \in DOMAIN y.round, M(l) \subseteq M(m)
        PROVE  y.round[m] = z.round[m]
    <3>1. m \in c.loop
      BY <2>4, <2>6, IdRounds
    <3>2. m \in DOMAIN x.round
      BY <1>3, <1>d, <2>6, <3>1
    <3> QED
      BY <1>3, <2>4, <2>6, <3>2
  <2> QED
    BY <1>4, <1>7, <2>1, <2>4, <2>5, <2>6
<1>10. CASE x.agent = k[1] /\ k # l
  <2>1. PICK y \in AllIds(c) :
              /\ x \in Needs(c, y)
              /\ y.agent = k[2]
              /\ y.round[k] = x.round[k] + 1
              /\ \A m \in DOMAIN y.round : m # k /\ m \in DOMAIN x.round =>
                   y.round[m] = x.round[m]
    BY <1>3, <1>7, <1>8, <1>10, WaitedByRound
  <2>2. y.agent \in M(l)
    BY <1>0, <1>7, <2>1 DEF Shaped
  <2>3. ASSUME NEW m \in DOMAIN y.round, M(l) \subseteq M(m)
        PROVE  y.round[m] = z.round[m]
    <3>1. m \in c.loop
      BY <2>1, <2>3, IdRounds
    <3>2. m # k
      <4>1. Members(c, l) # Members(c, k)
        BY <1>0, <1>7, <1>10, SameLoop
      <4> QED
        BY <1>7, <2>3, <4>1
    <3>3. m \in DOMAIN x.round
      BY <1>3, <1>d, <2>3, <3>1
    <3> QED
      BY <1>3, <2>1, <2>3, <3>2, <3>3
  <2> QED
    BY <1>4, <2>1, <2>2, <2>3
<1>11. CASE x.agent = l[1] /\ k = l
  <2>1. ASSUME NEW m \in DOMAIN x.round
        PROVE  x.round[m] = z.round[m]
    <3>1. m \in DOMAIN z.round
      BY <1>3, <1>11, IdRounds
    <3> QED
      BY <1>3, <1>8, <1>11, <3>1
  <2>2. x = z
    BY <1>3, <1>11, <2>1, SameId
  <2> QED
    BY <1>3, <2>2
<1> QED
  BY <1>9, <1>10, <1>11

\* A step waits, at some remove, for all steps of the earlier rounds of its loops.
LEMMA RoundsFollow ==
    ASSUME NEW c, IsCanvas(c), WellFormed(c),
           NEW X, \A x \in X \cap AllIds(c) : Needs(c, x) \subseteq X,
           NEW s \in X \cap AllIds(c), NEW t \in AllIds(c), InEarlierRound(c, t, s)
    PROVE  t \in X
<1> DEFINE M(m) == Members(c, m)
<1>0. Shaped(c)
  BY WellFormedShaped
<1>1. PICK l \in Common(t, s) :
        /\ t.round[l] < s.round[l]
        /\ \A m \in Common(t, s) : m # l /\ M(l) \subseteq M(m) => t.round[m] = s.round[m]
  BY DEF InEarlierRound
<1>2. l \in c.loop /\ l \in DOMAIN s.round /\ l \in DOMAIN t.round
      /\ s.agent \in M(l) /\ t.agent \in M(l)
  BY <1>1, IdRounds DEF Common
<1>3. t.round[l] \in Nat /\ 1 <= t.round[l]
  BY <1>2, IdRounds
<1> DEFINE S == {x \in X \cap AllIds(c) :
                   /\ x.agent \in M(l) /\ t.round[l] < x.round[l]
                   /\ \A m \in DOMAIN x.round :
                        m # l /\ M(l) \subseteq M(m) => x.round[m] = t.round[m]}
<1>4. s \in S
  <2>1. ASSUME NEW m \in DOMAIN s.round, m # l, M(l) \subseteq M(m)
        PROVE  s.round[m] = t.round[m]
    <3>1. m \in Common(t, s)
      BY <1>2, <2>1, IdRounds DEF Common
    <3> QED
      BY <1>1, <2>1, <3>1
  <2> QED
    BY <1>1, <1>2, <2>1
<1>5. PICK x \in S : \A y \in S : ~Ahead(c, y, x)
  <2>1. S \in SUBSET AllIds(c)
    OBVIOUS
  <2> HIDE DEF S
  <2> QED
    BY <1>4, <2>1, SomeFirst
<1>6. /\ x \in X \cap AllIds(c) /\ x.agent \in M(l) /\ t.round[l] < x.round[l]
      /\ \A m \in DOMAIN x.round : m # l /\ M(l) \subseteq M(m) => x.round[m] = t.round[m]
  BY <1>5
<1>7. l \in DOMAIN x.round /\ x.round[l] \in Nat
  BY <1>2, <1>6, IdRounds
<1>8. x.round[l] # 1
  BY <1>3, <1>6, <1>7
<1>9. PICK z \in X \cap AllIds(c) :
              /\ z.agent = l[1]
              /\ z.round[l] = x.round[l] - 1
              /\ \A m \in DOMAIN z.round : m # l =>
                   z.round[m] = IF M(l) \subseteq M(m) THEN x.round[m] ELSE c.rounds[m]
  <2>1. \E z \in X \cap AllIds(c) :
              /\ z.agent = l[1]
              /\ z.round[l] = x.round[l] - 1
              /\ \A m \in DOMAIN z.round : m # l =>
                   z.round[m] = IF Members(c, l) \subseteq Members(c, m) THEN x.round[m]
                                ELSE c.rounds[m]
    <3> HIDE DEF S, M
    <3> QED
      BY <1>6, <1>7, <1>8, LastOfRound
  <2> QED
    BY <2>1
<1>10. ASSUME NEW m \in DOMAIN z.round, m # l, M(l) \subseteq M(m)
       PROVE  z.round[m] = x.round[m] /\ z.round[m] = t.round[m]
  <2>1. m \in DOMAIN x.round
    BY <1>6, <1>9, <1>10, IdRounds
  <2> QED
    BY <1>6, <1>9, <1>10, <2>1
<1>11. z.agent \in M(l) /\ l \in DOMAIN z.round
  BY <1>0, <1>2, <1>9, IdRounds DEF Shaped
<1>12. z.round[l] = t.round[l]
  <2> SUFFICES ASSUME z.round[l] # t.round[l]
               PROVE  FALSE
    OBVIOUS
  <2>1. t.round[l] < z.round[l] /\ z.round[l] < x.round[l]
    BY <1>3, <1>6, <1>7, <1>9
  <2>2. z \in S
    BY <1>9, <1>10, <1>11, <2>1
  <2>3. InEarlierRound(c, z, x)
    <3>1. l \in Common(z, x)
      BY <1>7, <1>11 DEF Common
    <3> QED
      BY <1>10, <2>1, <3>1 DEF InEarlierRound, Common
  <2> QED
    BY <1>5, <2>2, <2>3 DEF Ahead
<1>13. ASSUME NEW m \in DOMAIN t.round, M(l) \subseteq M(m)
       PROVE  t.round[m] = z.round[m]
  <2>1. m \in DOMAIN z.round
    BY <1>9, <1>11, <1>13, IdRounds
  <2> QED
    BY <1>10, <1>12, <1>13, <2>1
<1>14. \A m \in DOMAIN z.round : ~(M(l) \subseteq M(m)) => z.round[m] = c.rounds[m]
  BY <1>9
<1> HIDE DEF S
<1> QED
  BY <1>2, <1>9, <1>13, <1>14, AllOfRound

-----------------------------------------------------------------------------
(* What a step of the execution amounts to.                                *)

\* The plan and the results of the row stay, and so does the history.
Keeps ==
    UNCHANGED <<canvas, plan, results, replans, launched, shaken, uncounted,
                halfway, byHand, compiled>>

\* An operator, or the end of a step of the wave: the run is where it was.
Aside ==
    /\ Keeps /\ pc' = pc /\ run' = run
    /\ DOMAIN wave' = DOMAIN wave /\ (wave = <<>> => wave' = <<>>)

\* The run returns or crashes.
Dropped ==
    /\ UNCHANGED <<canvas, plan, results, replans, launched, shaken, byHand, compiled>>
    /\ pc' = "idle" /\ run' = NoRun /\ wave' = <<>>
    /\ ~uncounted' => ~uncounted /\ pc # "emit"
    /\ ~halfway' => ~halfway /\ StepIds(run.todo) \cap Failures(results) = {}

\* The run is claimed, or has counted the recoveries so far.
Enters ==
    /\ Keeps /\ wave' = wave
    /\ \/ pc = "idle" /\ pc' = "begin" /\ run' = run
       \/ pc = "begin" /\ pc' = "start" /\ run' = [NoRun EXCEPT !.generation = replans]

\* The run takes plan and results from the row.
Starts ==
    /\ Keeps /\ wave' = wave /\ pc = "start" /\ pc' = "check" /\ Analyzes(plan)
    /\ run' = [plan |-> plan, results |-> results,
               pending |-> {s \in plan : s.id \notin Done(results)},
               generation |-> run.generation, todo |-> run.todo, held |-> run.held]

\* The run goes on to the next wave.
Goes == Keeps /\ wave' = wave /\ run' = run /\ pc = "check" /\ pc' = "select"

\* Steps with the ids "skips" are not taken, a wave may be.
Decides(skips, f) ==
    /\ Keeps /\ pc = "select"
    /\ skips \subseteq Ready /\ f \in [StepIds(skips) -> BOOLEAN]
    /\ run' = [plan |-> run.plan,
               results |-> [id \in DOMAIN run.results \cup StepIds(skips) |->
                               IF id \in StepIds(skips)
                               THEN StepResult("completed", TRUE, f[id])
                               ELSE run.results[id]],
               pending |-> run.pending \ skips, generation |-> run.generation,
               todo |-> run.todo, held |-> run.held]
    /\ \/ pc' = "skips" /\ wave' = wave
       \/ /\ pc' = "launch"
          /\ \E b \in SUBSET (Ready \ skips) :
               /\ \A s \in b : Decidable(s) /\ Selected(s)
               /\ wave' = [id \in StepIds(b) |-> "runs"]

\* The wave ends: some steps are done and some have failed.
Settles(done, failed, f) ==
    /\ Keeps /\ pc = "executing" /\ pc' = "replan" /\ wave' = <<>>
    /\ done \cup failed \subseteq DOMAIN wave /\ done \cap failed = {}
    /\ f \in [done \cup failed -> BOOLEAN]
    /\ \E held \in {"unknown", "asks", "human", "no"} :
       run' = [plan |-> run.plan,
               results |-> [id \in DOMAIN run.results \cup (done \cup failed) |->
                               IF id \in done THEN StepResult("completed", FALSE, f[id])
                               ELSE IF id \in failed
                               THEN StepResult("failed", id.agent \in Skipping, f[id])
                               ELSE run.results[id]],
               pending |-> {s \in run.pending : s.id \notin done \cup failed},
               generation |-> run.generation,
               todo |-> {s \in run.pending : s.id \in failed /\ s.id.agent \notin Skipping},
               held |-> held]

\* No recovery is made for "some" of the failed steps, for which there is a reason.
Forgoes(some) ==
    /\ Keeps /\ wave' = wave /\ pc = "replan"
    /\ run' = [plan |-> run.plan, results |-> run.results, pending |-> run.pending,
               generation |-> run.generation, todo |-> run.todo \ some, held |-> run.held]
    /\ \/ run.generation >= MaxReplans /\ pc' = "checkpoint" /\ some = run.todo
       \/ run.todo = {} /\ pc' = "checkpoint" /\ some = run.todo
       \/ \E s \in run.todo : /\ pc' = "replan" /\ some = {s}
                              /\ \A d \in run.pending : s.id \notin d.needs

\* "d" once "s" has a recovery.
Rewired(s, d) ==
    IF s.id \in d.needs /\ d \in run.pending
    THEN [id |-> d.id, needs |-> (d.needs \ {s.id}) \cup {Recovery(s).id}, asks |-> d.asks]
    ELSE d

\* A recovery of "s" is added to the plan.
Inserts(s) ==
    /\ UNCHANGED <<canvas, replans, launched, uncounted, halfway, byHand, compiled, wave>>
    /\ pc = "replan" /\ pc' = "emit" /\ s \in run.todo /\ run.generation < MaxReplans
    /\ results' = run.results /\ shaken' = shaken \cup Failures(run.results)
    /\ plan' = {Rewired(s, d) : d \in plan} \cup {Recovery(s)}
    /\ run' = [plan |-> plan', results |-> run.results,
               pending |-> {d \in {Rewired(s, e) : e \in run.pending} : d.id # Recovery(s).id}
                           \cup {Recovery(s)},
               generation |-> run.generation + 1, todo |-> run.todo \ {s},
               held |-> run.held]

\* The run writes its results.
Writes ==
    /\ UNCHANGED <<canvas, plan, replans, launched, uncounted, halfway, byHand, compiled>>
    /\ results' = run.results /\ shaken' = shaken \cup Failures(run.results)
    /\ run' = run /\ wave' = wave
    /\ \/ pc = "skips" /\ pc' = "check"
       \/ pc = "checkpoint" /\ pc' \in {"check", "rest"}

\* The steps of the wave are begun.
Launches ==
    /\ UNCHANGED <<canvas, plan, results, replans, shaken, uncounted, halfway, byHand, compiled>>
    /\ run' = run /\ wave' = wave /\ pc = "launch" /\ pc' = "executing"
    /\ launched' = launched \cup DOMAIN wave

\* The recovery that was added is counted.
Counts ==
    /\ UNCHANGED <<canvas, plan, results, launched, shaken, uncounted, halfway, byHand, compiled>>
    /\ run' = run /\ wave' = wave /\ pc = "emit" /\ pc' = "replan"
    /\ replans' = replans + 1

\* An operator has a node retried, or gives it a result by hand.
Redoes(id) ==
    /\ UNCHANGED <<canvas, plan, replans, shaken, uncounted, halfway, compiled>>
    /\ run' = run /\ wave' = wave /\ pc = "idle" /\ pc' = pc /\ id \in StepIds(plan)
    /\ launched' = launched \ DescendantsOf(plan, id)
    /\ \/ /\ results' = [d \in DOMAIN results \ DescendantsOf(plan, id) |-> results[d]]
          /\ byHand' = byHand
       \/ /\ byHand' = TRUE
          /\ \E r \in Result :
               /\ r.status = "completed"
               /\ results' = [d \in (DOMAIN results \ DescendantsOf(plan, id)) \cup {id} |->
                                 IF d = id THEN r ELSE results[d]]

\* The steps that end a run.
LEMMA ReturnsDrop ==
    ASSUME RunInv, WaveInv, ResultInv,
           Return, pc \notin {"emit", "replan"},
           UNCHANGED <<canvas, plan, replans, launched, uncounted, halfway, byHand, compiled>>,
           \/ UNCHANGED <<results, shaken>>
           \/ pc = "select" /\ Save
    PROVE  Dropped
<1>1. run.todo = {}
  BY DEF WaveInv
<1>2. results' = results /\ shaken' = shaken
  <2>1. CASE pc = "select" /\ Save
    BY <2>1 DEF RunInv, ResultInv, Save
  <2> QED
    BY <2>1
<1> QED
  BY <1>1, <1>2 DEF Return, Dropped, StepIds

\* The run between its waves.
LEMMA RunStepCases ==
    ASSUME RunInv, WaveInv, ResultInv,
           Claim \/ Begin \/ Start \/ Check \/ SaveSkips \/ Launch \/ EmitReplanned
           \/ Checkpoint \/ Rest \/ Crash
    PROVE  Dropped \/ Enters \/ Starts \/ Goes \/ Writes \/ Launches \/ Counts
<1>1. CASE Claim
  BY <1>1 DEF Claim, Enters, Keeps, rowVars, history
<1>2. CASE Begin
  <2>1. CASE status = "paused"
    BY <1>2, <2>1, ReturnsDrop DEF Begin, rowVars, history
  <2>2. CASE status # "paused"
    <3>1. run' = [run EXCEPT !.generation = replans] /\ pc = "begin" /\ pc' = "start"
          /\ wave' = wave
      BY <1>2, <2>2 DEF Begin
    <3>2. [run EXCEPT !.generation = 0] = NoRun
      BY <3>1 DEF RunInv, AtWork
    <3>3. run' = [NoRun EXCEPT !.generation = replans]
      BY <3>1, <3>2 DEF RunInv, NoRun
    <3> QED
      BY <1>2, <2>2, <3>1, <3>3 DEF Begin, Enters, Keeps, rowVars, history
  <2> QED
    BY <2>1, <2>2
<1>3. CASE Start
  <2>1. CASE Analyzes(plan)
    <3>1. run' = [run EXCEPT !.plan = plan, !.results = results,
                             !.pending = {s \in plan : s.id \notin Done(results)}]
      BY <1>3, <2>1 DEF Start
    <3>2. run' = [plan |-> plan, results |-> results,
                  pending |-> {s \in plan : s.id \notin Done(results)},
                  generation |-> run.generation, todo |-> run.todo, held |-> run.held]
      BY <3>1 DEF RunInv
    <3> QED
      BY <1>3, <2>1, <3>2 DEF Start, Starts, Keeps, history
  <2>2. CASE ~Analyzes(plan)
    BY <1>3, <2>2, ReturnsDrop DEF Start, Fail, history
  <2> QED
    BY <2>1, <2>2
<1>4. CASE Check
  BY <1>4, ReturnsDrop DEF Check, Fail, Goes, Keeps, history
<1>5. CASE SaveSkips
  BY <1>5 DEF SaveSkips, Save, Writes
<1>6. CASE Launch
  BY <1>6 DEF Launch, Launches, rowVars
<1>7. CASE EmitReplanned
  BY <1>7 DEF EmitReplanned, Counts, history
<1>8. CASE Checkpoint
  <2>1. run.plan = plan
    BY <1>8 DEF RunInv, AtWork, Checkpoint
  <2> QED
    BY <1>8, <2>1 DEF Checkpoint, Save, Writes
<1>9. CASE Rest
  BY <1>9, ReturnsDrop DEF Rest, Fail, history
<1>10. CASE Crash
  BY <1>10 DEF Crash, Return, Dropped, rowVars, StepIds
<1> QED
  BY <1>1, <1>2, <1>3, <1>4, <1>5, <1>6, <1>7, <1>8, <1>9, <1>10

\* Taking the next wave, or deciding that steps are not taken.
LEMMA SelectCases ==
    ASSUME RunInv, WaveInv, ResultInv, Select
    PROVE  Dropped \/ \E skips, f : Decides(skips, f)
<1>1. ASSUME NEW c \in SUBSET Ready, Decide(c), UNCHANGED history, UNCHANGED results
      PROVE  \E skips, f : Decides(skips, f)
  <2> DEFINE decided == {s \in c : Decidable(s)}
             chosen == {s \in decided : Selected(s)}
             skipped == decided \ chosen
             skips == StepIds(skipped)
  <2>1. PICK f \in Answers(skips) :
          run' = [run EXCEPT !.pending = @ \ skipped,
                             !.results = Given(@, [id \in skips |-> StepResult("completed", TRUE, f[id])])]
    BY <1>1 DEF Decide
  <2> DEFINE rs == [id \in DOMAIN run.results \cup skips |->
                       IF id \in skips THEN StepResult("completed", TRUE, f[id])
                       ELSE run.results[id]]
  <2>2. Given(run.results, [id \in skips |-> StepResult("completed", TRUE, f[id])]) = rs
    BY DEF Given
  <2>3. run' = [plan |-> run.plan, results |-> rs, pending |-> run.pending \ skipped,
                generation |-> run.generation, todo |-> run.todo, held |-> run.held]
    <3> HIDE DEF rs, skips, skipped
    <3> QED
      BY <2>1, <2>2 DEF RunInv
  <2>4. f \in [skips -> BOOLEAN] /\ skipped \subseteq Ready
    BY <1>1 DEF Answers
  <2>5. \/ pc' = "skips" /\ wave' = wave
        \/ /\ pc' = "launch"
           /\ \E b \in SUBSET (Ready \ skipped) :
                /\ \A s \in b : Decidable(s) /\ Selected(s)
                /\ wave' = [id \in StepIds(b) |-> "runs"]
    <3>1. CASE chosen = {}
      BY <1>1, <3>1 DEF Decide
    <3>2. CASE chosen # {}
      <4>1. pc' = "launch" /\ \E b \in Batches(chosen) : wave' = [id \in StepIds(b) |-> "runs"]
        BY <1>1, <3>2 DEF Decide
      <4>2. \A b \in Batches(chosen) : b \subseteq chosen
        BY DEF Batches
      <4>3. \A b \in Batches(chosen) :
              b \in SUBSET (Ready \ skipped) /\ \A s \in b : Decidable(s) /\ Selected(s)
        BY <1>1, <4>2
      <4> HIDE DEF chosen, skipped
      <4> QED
        BY <4>1, <4>3
    <3> QED
      BY <3>1, <3>2
  <2>6. Keeps /\ pc = "select"
    BY <1>1 DEF Select, Keeps, history
  <2>7. Decides(skipped, f)
    <3> HIDE DEF skipped
    <3> QED
      BY <2>3, <2>4, <2>5, <2>6 DEF Decides
  <2> QED
    BY <2>7
<1>2. CASE Ready # {} /\ UNCHANGED <<status, results, history>>
           /\ \E c \in kSubset(Min({Concurrency, Cardinality(Ready)}), Ready) : Decide(c)
  BY <1>1, <1>2 DEF kSubset
<1>3. CASE Ready = {} /\ StepIds(run.pending) \cap paused # {}
           /\ status' = "paused" /\ Save /\ Return
  BY <1>3, ReturnsDrop DEF Select, Save
<1>4. CASE Ready = {} /\ StepIds(run.pending) \cap paused = {}
           /\ Fail /\ UNCHANGED <<results, history>>
  BY <1>4, ReturnsDrop DEF Select, Fail, history
<1> QED
  BY <1>2, <1>3, <1>4 DEF Select

\* The end of a wave.
LEMMA SettleCases ==
    ASSUME RunInv, WaveInv, Settle
    PROVE  \E done, failed, f : Settles(done, failed, f)
<1> DEFINE ended(o) == {id \in DOMAIN wave : wave[id] \in o}
           human == {id \in ended({"failed"}) : id.agent \in Pausing}
           done == ended({"true", "false"})
           failed == ended({"failed"}) \ human
           held == CASE ended({"unknown"}) # {} -> "unknown"
                     [] ended({"asks"}) # {} -> "asks"
                     [] human # {} -> "human"
                     [] OTHER -> "no"
<1>1. PICK a \in Answers(failed) :
        run' = [run EXCEPT
           !.pending = {s \in @ : s.id \notin done \cup failed},
           !.results = Given(@, [id \in done \cup failed |->
               IF id \in done THEN StepResult("completed", FALSE, wave[id] = "true")
               ELSE StepResult("failed", id.agent \in Skipping, a[id])]),
           !.todo = {s \in run.pending : s.id \in failed /\ s.id.agent \notin Skipping},
           !.held = held]
  BY DEF Settle
<1> DEFINE f == [id \in done \cup failed |-> IF id \in done THEN wave[id] = "true" ELSE a[id]]
           new == [id \in done \cup failed |->
                     IF id \in done THEN StepResult("completed", FALSE, wave[id] = "true")
                     ELSE StepResult("failed", id.agent \in Skipping, a[id])]
           rs == [id \in DOMAIN run.results \cup (done \cup failed) |->
                    IF id \in done THEN StepResult("completed", FALSE, f[id])
                    ELSE IF id \in failed THEN StepResult("failed", id.agent \in Skipping, f[id])
                    ELSE run.results[id]]
<1>2. done \cup failed \subseteq DOMAIN wave /\ done \cap failed = {}
  OBVIOUS
<1>3. a \in [failed -> BOOLEAN]
  BY <1>1 DEF Answers
<1>4. f \in [done \cup failed -> BOOLEAN]
  <2>1. \A id \in done \cup failed : (IF id \in done THEN wave[id] = "true" ELSE a[id]) \in BOOLEAN
    <3> HIDE DEF done, failed
    <3> QED
      BY <1>3
  <2> HIDE DEF done, failed
  <2> QED
    BY <2>1
<1>5. Given(run.results, new) = rs
  <2> HIDE DEF done, failed
  <2>1. \A id \in done \cup failed :
          new[id] = IF id \in done THEN StepResult("completed", FALSE, f[id])
                    ELSE StepResult("failed", id.agent \in Skipping, f[id])
    OBVIOUS
  <2>2. DOMAIN new = done \cup failed
    OBVIOUS
  <2> HIDE DEF new, f
  <2> QED
    BY <2>1, <2>2 DEF Given
<1>6. run' = [plan |-> run.plan, results |-> rs,
              pending |-> {s \in run.pending : s.id \notin done \cup failed},
              generation |-> run.generation,
              todo |-> {s \in run.pending : s.id \in failed /\ s.id.agent \notin Skipping},
              held |-> held]
  <2>1. run' = [run EXCEPT
           !.pending = {s \in @ : s.id \notin done \cup failed}, !.results = Given(@, new),
           !.todo = {s \in run.pending : s.id \in failed /\ s.id.agent \notin Skipping},
           !.held = held]
    BY <1>1
  <2> HIDE DEF done, failed, new, rs, held
  <2> QED
    BY <2>1, <1>5 DEF RunInv
<1>7. held \in {"unknown", "asks", "human", "no"}
  <2> HIDE DEF human, ended
  <2> QED
    OBVIOUS
<1>8. Keeps /\ pc = "executing" /\ pc' = "replan" /\ wave' = <<>>
  BY DEF Settle, Keeps, rowVars, history
<1>9. Settles(done, failed, f)
  <2> HIDE DEF done, failed, f, held
  <2> QED
    BY <1>2, <1>4, <1>6, <1>7, <1>8 DEF Settles
<1> QED
  BY <1>9

\* Rewiring steps is rewiring each of them.
LEMMA RewireIsRewired ==
    ASSUME NEW s, NEW steps, \A d \in steps : d = [id |-> d.id, needs |-> d.needs, asks |-> d.asks]
    PROVE  Rewire(s, steps) = {Rewired(s, d) : d \in steps}
<1>1. \A d \in steps :
        [d EXCEPT !.needs = (@ \ {s.id}) \cup {Recovery(s).id}]
          = [id |-> d.id, needs |-> (d.needs \ {s.id}) \cup {Recovery(s).id}, asks |-> d.asks]
  <2> SUFFICES ASSUME NEW d \in steps, NEW r
               PROVE  [d EXCEPT !.needs = (@ \ {s.id}) \cup {r}]
                        = [id |-> d.id, needs |-> (d.needs \ {s.id}) \cup {r}, asks |-> d.asks]
    OBVIOUS
  <2>1. d = [id |-> d.id, needs |-> d.needs, asks |-> d.asks]
    OBVIOUS
  <2> QED
    BY <2>1
<1> QED
  BY <1>1 DEF Rewire, Rewired

\* What TypeOK says of a step.
LEMMA PlanTyped ==
    ASSUME TypeOK
    PROVE  \A s \in plan \cup run.pending \cup run.todo :
             /\ s = [id |-> s.id, needs |-> s.needs, asks |-> s.asks]
             /\ s.id \in StepId /\ s.needs \subseteq StepIds(plan)
BY DEF TypeOK

\* A failed step is recovered, or is not.
LEMMA ReplanCases ==
    ASSUME TypeOK, RunInv, WaveInv, Replan
    PROVE  (\E some : Forgoes(some)) \/ (\E s : Inserts(s))
<1>0. run.plan = plan /\ pc = "replan"
  BY DEF RunInv, AtWork, Replan
<1>1. CASE /\ (run.todo = {} \/ run.generation >= MaxReplans)
           /\ run' = [run EXCEPT !.todo = {}] /\ pc' = "checkpoint"
           /\ UNCHANGED <<plan, results, history>>
  <2>1. run' = [plan |-> run.plan, results |-> run.results, pending |-> run.pending,
                generation |-> run.generation, todo |-> run.todo \ run.todo, held |-> run.held]
    BY <1>1 DEF RunInv
  <2>2. Forgoes(run.todo)
    BY <1>0, <1>1, <2>1 DEF Replan, Forgoes, Keeps, history
  <2> QED
    BY <2>2
<1>2. ASSUME NEW s \in run.todo, run.generation < MaxReplans,
             ~ \E d \in run.pending : s.id \in d.needs,
             run' = [run EXCEPT !.todo = @ \ {s}], UNCHANGED <<plan, results, history, pc>>
      PROVE  Forgoes({s})
  <2>1. run' = [plan |-> run.plan, results |-> run.results, pending |-> run.pending,
                generation |-> run.generation, todo |-> run.todo \ {s}, held |-> run.held]
    BY <1>2 DEF RunInv
  <2> QED
    BY <1>0, <1>2, <2>1 DEF Replan, Forgoes, Keeps, history
<1>3. ASSUME NEW s \in run.todo, run.generation < MaxReplans,
             run' = Insert(s), plan' = Insert(s).plan, Save, pc' = "emit"
      PROVE  Inserts(s)
  <2>1. Rewire(s, plan) = {Rewired(s, d) : d \in plan}
        /\ Rewire(s, run.pending) = {Rewired(s, d) : d \in run.pending}
    BY PlanTyped, RewireIsRewired
  <2>2. Insert(s) = [plan |-> Rewire(s, plan) \cup {Recovery(s)}, results |-> run.results,
           pending |-> {d \in Rewire(s, run.pending) : d.id # Recovery(s).id} \cup {Recovery(s)},
           generation |-> run.generation + 1, todo |-> run.todo \ {s}, held |-> run.held]
    <3>1. ASSUME NEW p, NEW q, NEW new,
                 new = [run EXCEPT !.generation = @ + 1, !.todo = @ \ {s}, !.plan = p, !.pending = q]
          PROVE  new = [plan |-> p, results |-> run.results, pending |-> q,
                        generation |-> run.generation + 1, todo |-> run.todo \ {s},
                        held |-> run.held]
      BY <3>1 DEF RunInv
    <3> QED
      BY <1>0, <3>1 DEF Insert
  <2>3. plan' = Rewire(s, plan) \cup {Recovery(s)}
    BY <1>3, <2>2
  <2> QED
    BY <1>0, <1>3, <2>1, <2>2, <2>3 DEF Replan, Save, Inserts
<1> QED
  BY <1>1, <1>2, <1>3 DEF Replan

\* Steps of the wave and requests of operators that leave the run alone.
LEMMA AsideCases ==
    ASSUME NodeStep \/ ResumeTask
           \/ (\E id \in approvals : ApproveTool(id))
           \/ (\E id \in DOMAIN wave : StepCompletes(id) \/ StepStops(id)
                                       \/ StepFails(id) \/ StepAsks(id))
           \/ (\E id \in StepIds(plan), kind \in {"pause", "resume"} : NodeRead(kind, id))
           \/ UNCHANGED vars
    PROVE  Aside
<1>1. CASE NodeStep
  <2>1. CASE PauseAppend
    <3>1. DOMAIN wave' = DOMAIN wave /\ (wave = <<>> => wave' = <<>>)
      <4>1. CASE node.id \in DOMAIN wave
        BY <2>1, <4>1 DEF PauseAppend
      <4>2. CASE node.id \notin DOMAIN wave
        BY <2>1, <4>2 DEF PauseAppend
      <4> QED
        BY <4>1, <4>2
    <3> QED
      BY <2>1, <3>1 DEF PauseAppend, Aside, Keeps, history
  <2>2. CASE PauseWrite
    BY <2>2 DEF PauseWrite, Aside, Keeps, history, runVars
  <2>3. CASE ResumeWrite
    BY <2>3 DEF ResumeWrite, Aside, Keeps, history, runVars
  <2>4. CASE ResumeAppend
    BY <2>4 DEF ResumeAppend, Aside, Keeps, history, runVars
  <2> QED
    BY <1>1, <2>1, <2>2, <2>3, <2>4 DEF NodeStep
<1>2. CASE ResumeTask
  BY <1>2 DEF ResumeTask, Aside, Keeps, history, runVars
<1>3. CASE \E id \in approvals : ApproveTool(id)
  BY <1>3 DEF ApproveTool, Aside, Keeps, history, runVars
<1>4. ASSUME NEW id \in DOMAIN wave, NEW state, Ends(id, state), UNCHANGED history
      PROVE  Aside
  <2>1. DOMAIN wave' = DOMAIN wave /\ wave # <<>>
    <3>1. DOMAIN wave # {}
      OBVIOUS
    <3> QED
      BY <1>4, <3>1 DEF Ends
  <2> QED
    BY <1>4, <2>1 DEF Ends, Aside, Keeps, history
<1>5. CASE \E id \in DOMAIN wave : StepCompletes(id) \/ StepStops(id) \/ StepFails(id) \/ StepAsks(id)
  BY <1>4, <1>5 DEF StepCompletes, StepStops, StepFails, StepAsks, Ends
<1>6. CASE \E id \in StepIds(plan), kind \in {"pause", "resume"} : NodeRead(kind, id)
  BY <1>6 DEF NodeRead, Aside, Keeps, history, runVars, rowVars
<1>7. CASE UNCHANGED vars
  BY <1>7 DEF vars, Aside, Keeps, history, runVars, rowVars
<1> QED
  BY <1>1, <1>2, <1>3, <1>5, <1>6, <1>7

\* An operator who retries a node, or completes or skips it by hand.
LEMMA ControlCases ==
    ASSUME NEW id, ControlNode(id)
    PROVE  Redoes(id)
<1> DEFINE affected == DescendantsOf(plan, id)
           kept == [d \in DOMAIN results \ affected |-> results[d]]
<1>1. /\ UNCHANGED <<canvas, plan, replans, shaken, uncounted, halfway, compiled>>
      /\ run' = run /\ wave' = wave /\ pc = "idle" /\ pc' = pc /\ id \in StepIds(plan)
      /\ launched' = launched \ affected
  BY DEF ControlNode, runVars
<1>2. CASE results' = kept /\ UNCHANGED byHand
  BY <1>1, <1>2 DEF Redoes
<1>3. ASSUME NEW f \in Answers({id}), NEW skipped \in BOOLEAN, byHand' = TRUE,
             results' = Given(kept, [d \in {id} |-> StepResult("completed", skipped, f[id])])
      PROVE  Redoes(id)
  <2> DEFINE r == StepResult("completed", skipped, f[id])
  <2>1. r \in Result /\ r.status = "completed"
    BY <1>3 DEF Answers, StepResult, Result
  <2>2. Given(kept, [d \in {id} |-> r]) =
          [d \in (DOMAIN results \ affected) \cup {id} |-> IF d = id THEN r ELSE results[d]]
    <3>1. \A d \in {id} : [e \in {id} |-> r][d] = r
      OBVIOUS
    <3> HIDE DEF r, affected
    <3> QED
      BY <3>1 DEF Given
  <2> HIDE DEF r
  <2> QED
    BY <1>1, <1>3, <2>1, <2>2 DEF Redoes, r
<1> QED
  BY <1>2, <1>3 DEF ControlNode

\* One of all these.
Moves ==
    \/ Aside \/ Dropped \/ Enters \/ Starts \/ Goes \/ Writes \/ Launches \/ Counts
    \/ (\E skips, f : Decides(skips, f))
    \/ (\E done, failed, f : Settles(done, failed, f))
    \/ (\E some : Forgoes(some))
    \/ (\E s : Inserts(s))
    \/ (\E id : Redoes(id))

\* Every step of the execution amounts to one of these.
LEMMA StepMoves ==
    ASSUME WavesInv, [Next]_vars
    PROVE  Moves
<1>0. TypeOK /\ RunInv /\ WaveInv /\ ResultInv
  BY DEF WavesInv
<1>1. CASE RunStep
  <2>1. CASE Claim \/ Begin \/ Start \/ Check \/ SaveSkips \/ Launch \/ EmitReplanned
             \/ Checkpoint \/ Rest
    BY <1>0, <2>1, RunStepCases DEF Moves
  <2>2. CASE Select
    BY <1>0, <2>2, SelectCases DEF Moves
  <2>3. CASE \E id \in DOMAIN wave : StepCompletes(id) \/ StepStops(id)
    BY <2>3, AsideCases DEF Moves
  <2>4. CASE Settle
    BY <1>0, <2>4, SettleCases DEF Moves
  <2>5. CASE Replan
    BY <1>0, <2>5, ReplanCases DEF Moves
  <2> QED
    BY <1>1, <2>1, <2>2, <2>3, <2>4, <2>5 DEF RunStep
<1>2. CASE Crash
  BY <1>0, <1>2, RunStepCases DEF Moves
<1>3. CASE NodeStep \/ ResumeTask \/ UNCHANGED vars
  BY <1>3, AsideCases DEF Moves
<1>4. CASE \E id \in DOMAIN wave : StepFails(id) \/ StepAsks(id)
  BY <1>4, AsideCases DEF Moves
<1>5. CASE \E id \in StepIds(plan), kind \in {"pause", "resume"} : NodeRead(kind, id)
  BY <1>5, AsideCases DEF Moves
<1>6. CASE \E id \in approvals : ApproveTool(id)
  BY <1>6, AsideCases DEF Moves
<1>7. CASE \E id \in StepIds(plan) : ControlNode(id)
  BY <1>7, ControlCases DEF Moves
<1> QED
  BY <1>1, <1>2, <1>3, <1>4, <1>5, <1>6, <1>7 DEF Next

-----------------------------------------------------------------------------
(* A recovery step.                                                        *)

\* The compiled step behind a recovery.
LEMMA Origins ==
    ASSUME NEW id \in StepId
    PROVE  /\ Origin(id) \in StepId /\ Origin(id).recovery = 0
           /\ Origin(id) = id <=> id.recovery = 0
           /\ Origin(Origin(id)) = Origin(id)
<1>1. id = [agent |-> id.agent, round |-> id.round, recovery |-> id.recovery]
  BY DEF StepId
<1>2. Origin(id) = [agent |-> id.agent, round |-> id.round, recovery |-> 0]
  BY <1>1 DEF Origin
<1>3. 0 \in 0 .. MaxReplans
  BY WavesAssumption
<1> QED
  BY <1>1, <1>2, <1>3 DEF StepId, Origin

\* The step that recovers another, and its number.
LEMMA RecoveryStep ==
    ASSUME TypeOK, CountInv, NEW s, s.id \in StepId, run.generation < MaxReplans,
           pc = "replan"
    PROVE  /\ Recovery(s) = [id |-> Recovery(s).id, needs |-> {s.id}, asks |-> {}]
           /\ Recovery(s).id \in StepId
           /\ Recovery(s).id.recovery = replans + 1 /\ run.generation = replans
           /\ Recovery(s).id.recovery # 0
           /\ Origin(Recovery(s).id) = Origin(s.id)
<1>1. s.id = [agent |-> s.id.agent, round |-> s.id.round, recovery |-> s.id.recovery]
  BY DEF StepId
<1>2. run.generation = replans /\ replans \in 0 .. MaxReplans
  BY DEF CountInv, TypeOK
<1>3. Recovery(s).id = [agent |-> s.id.agent, round |-> s.id.round, recovery |-> replans + 1]
  BY <1>1, <1>2 DEF Recovery
<1>4. replans + 1 \in 0 .. MaxReplans /\ replans + 1 # 0
  BY <1>2, WavesAssumption
<1>5. Origin(Recovery(s).id) = [agent |-> s.id.agent, round |-> s.id.round, recovery |-> 0]
  BY <1>3 DEF Origin
<1>6. Origin(s.id) = [agent |-> s.id.agent, round |-> s.id.round, recovery |-> 0]
  BY <1>1 DEF Origin
<1> QED
  BY <1>2, <1>3, <1>4, <1>5, <1>6 DEF Recovery, StepId

\* What a step becomes when a recovery is put between it and what it needs.
LEMMA RewiredStep ==
    ASSUME NEW s, NEW d, d = [id |-> d.id, needs |-> d.needs, asks |-> d.asks]
    PROVE  /\ Rewired(s, d) = [id |-> d.id, needs |-> Rewired(s, d).needs, asks |-> d.asks]
           /\ Rewired(s, d).id = d.id /\ Rewired(s, d).asks = d.asks
           /\ Rewired(s, d).needs \subseteq d.needs \cup {Recovery(s).id}
           /\ d.needs \subseteq Rewired(s, d).needs \cup {s.id}
           /\ s.id \in d.needs /\ d \in run.pending =>
                Rewired(s, d).needs = (d.needs \ {s.id}) \cup {Recovery(s).id}
           /\ ~(s.id \in d.needs /\ d \in run.pending) => Rewired(s, d) = d
BY DEF Rewired

\* The plan and what is pending once a recovery has been added.
LEMMA InsertedPlan ==
    ASSUME WavesInv, NEW s, Inserts(s)
    PROVE  /\ s.id \in StepIds(plan) /\ s.id \in StepId
           /\ StepIds(plan') = StepIds(plan) \cup {Recovery(s).id}
           /\ run.pending \subseteq plan
           /\ \A t \in plan' : t = Recovery(s) \/ \E d \in plan : t = Rewired(s, d)
           /\ \A d \in plan : Rewired(s, d) \in plan'
           /\ run'.pending \subseteq plan'
           /\ \A t \in run'.pending :
                t = Recovery(s) \/ \E d \in run.pending : t = Rewired(s, d)
           /\ StepIds(run'.pending) \subseteq StepIds(run.pending) \cup {Recovery(s).id}
           /\ \A d \in run.pending : d.id.recovery = 0 => Rewired(s, d) \in run'.pending
<1>1. TypeOK /\ RunInv /\ WaveInv /\ CountInv
  BY DEF WavesInv
<1>2. run.pending \subseteq plan
  BY <1>1 DEF RunInv, AtWork, Inserts
<1>3. s.id \in StepIds(plan) /\ s.id \in StepId
  BY <1>1, PlanTyped DEF WaveInv, Inserts, StepIds
<1>4. \A d \in plan : d = [id |-> d.id, needs |-> d.needs, asks |-> d.asks]
  BY <1>1, PlanTyped
<1>5. \A d \in plan : Rewired(s, d).id = d.id
  BY <1>4, RewiredStep
<1>6. plan' = {Rewired(s, d) : d \in plan} \cup {Recovery(s)}
  BY DEF Inserts
<1>7. run'.pending = {d \in {Rewired(s, e) : e \in run.pending} : d.id # Recovery(s).id}
                     \cup {Recovery(s)}
  BY DEF Inserts
<1>8. Recovery(s).id.recovery # 0
  BY <1>1, <1>3, RecoveryStep DEF Inserts
<1>9. StepIds(plan') = StepIds(plan) \cup {Recovery(s).id}
  BY <1>5, <1>6 DEF StepIds
<1>10. StepIds(run'.pending) \subseteq StepIds(run.pending) \cup {Recovery(s).id}
  BY <1>2, <1>5, <1>7 DEF StepIds
<1>11. \A d \in run.pending : d.id.recovery = 0 => Rewired(s, d) \in run'.pending
  BY <1>2, <1>5, <1>7, <1>8
<1>12. run'.pending \subseteq plan'
  BY <1>2, <1>6, <1>7
<1> QED
  BY <1>2, <1>3, <1>6, <1>7, <1>9, <1>10, <1>11, <1>12

-----------------------------------------------------------------------------
(* Each part of the invariant is preserved.                                *)

\* No step leaves the plan.
LEMMA StepIdsKept ==
    ASSUME WavesInv, Moves
    PROVE  StepIds(plan) \subseteq StepIds(plan')
<1>1. CASE plan' = plan
  BY <1>1
<1>2. CASE \E s : Inserts(s)
  BY <1>2, InsertedPlan
<1> QED
  BY <1>1, <1>2 DEF Moves, Aside, Dropped, Enters, Starts, Goes, Decides, Settles,
                    Forgoes, Writes, Launches, Counts, Redoes, Keeps

\* No action but the insertion of a recovery changes the plan.
LEMMA PlanChanges ==
    ASSUME Moves
    PROVE  plan' = plan \/ \E s : Inserts(s)
BY DEF Moves, Aside, Dropped, Enters, Starts, Goes, Decides, Settles, Forgoes, Writes,
       Launches, Counts, Redoes, Keeps

\* The run keeps the plan of the row, and between waves its results.
LEMMA RunKept ==
    ASSUME WavesInv, Moves
    PROVE  RunInv'
<1>0. TypeOK /\ RunInv /\ WaveInv
  BY DEF WavesInv
<1>1. CASE Aside
  BY <1>0, <1>1 DEF RunInv, Aside, Keeps, AtWork, StepIds, NoRun
<1>2. CASE Dropped
  BY <1>0, <1>2 DEF RunInv, Dropped, AtWork, StepIds, NoRun
<1>3. CASE Enters
  BY <1>0, <1>3 DEF RunInv, Enters, Keeps, AtWork, StepIds, NoRun
<1>4. CASE Starts
  BY <1>0, <1>4 DEF RunInv, Starts, Keeps, AtWork, StepIds
<1>5. CASE Goes
  BY <1>0, <1>5 DEF RunInv, Goes, Keeps, AtWork, StepIds
<1>6. ASSUME NEW skips, NEW f, Decides(skips, f)
      PROVE  RunInv'
  <2>1. StepIds(skips) \subseteq StepIds(plan)
    BY <1>0, <1>6 DEF RunInv, AtWork, Decides, Ready, StepIds
  <2>2. DOMAIN run'.results = DOMAIN run.results \cup StepIds(skips)
    BY <1>6 DEF Decides
  <2>3. run' = [plan |-> run'.plan, results |-> run'.results, pending |-> run'.pending,
                generation |-> run'.generation, todo |-> run'.todo, held |-> run'.held]
        /\ run'.plan = run.plan /\ run'.pending \subseteq run.pending
    BY <1>6 DEF Decides
  <2>4. /\ pc = "select" /\ pc' \in {"skips", "launch"}
        /\ plan' = plan /\ results' = results /\ launched' = launched
    BY <1>6 DEF Decides, Keeps
  <2> QED
    BY <1>0, <2>1, <2>2, <2>3, <2>4 DEF RunInv, AtWork
<1>7. ASSUME NEW done, NEW failed, NEW f, Settles(done, failed, f)
      PROVE  RunInv'
  <2>1. DOMAIN wave \subseteq StepIds(plan)
    BY <1>0 DEF TypeOK
  <2>2. DOMAIN run'.results = DOMAIN run.results \cup (done \cup failed)
    BY <1>7 DEF Settles
  <2>3. run' = [plan |-> run'.plan, results |-> run'.results, pending |-> run'.pending,
                generation |-> run'.generation, todo |-> run'.todo, held |-> run'.held]
        /\ run'.plan = run.plan /\ run'.pending \subseteq run.pending
    BY <1>7 DEF Settles
  <2>4. /\ pc = "executing" /\ pc' = "replan" /\ done \cup failed \subseteq DOMAIN wave
        /\ plan' = plan /\ results' = results /\ launched' = launched
    BY <1>7 DEF Settles, Keeps
  <2> QED
    BY <1>0, <2>1, <2>2, <2>3, <2>4 DEF RunInv, AtWork
<1>8. ASSUME NEW some, Forgoes(some)
      PROVE  RunInv'
  <2>1. run' = [plan |-> run'.plan, results |-> run'.results, pending |-> run'.pending,
                generation |-> run'.generation, todo |-> run'.todo, held |-> run'.held]
        /\ run'.plan = run.plan /\ run'.pending = run.pending /\ run'.results = run.results
    BY <1>8 DEF Forgoes
  <2>2. /\ pc = "replan" /\ pc' \in {"replan", "checkpoint"}
        /\ plan' = plan /\ results' = results /\ launched' = launched
    BY <1>8 DEF Forgoes, Keeps
  <2> QED
    BY <1>0, <2>1, <2>2 DEF RunInv, AtWork
<1>9. ASSUME NEW s, Inserts(s)
      PROVE  RunInv'
  <2>1. run' = [plan |-> run'.plan, results |-> run'.results, pending |-> run'.pending,
                generation |-> run'.generation, todo |-> run'.todo, held |-> run'.held]
        /\ run'.plan = plan' /\ run'.results = run.results
    BY <1>9 DEF Inserts
  <2>2. pc' = "emit" /\ results' = run.results /\ launched' = launched
    BY <1>9 DEF Inserts
  <2>3. StepIds(plan) \subseteq StepIds(plan') /\ run'.pending \subseteq plan'
    BY <1>9, InsertedPlan
  <2> QED
    BY <1>0, <2>1, <2>2, <2>3 DEF RunInv, AtWork
<1>10. CASE Writes
  BY <1>0, <1>10 DEF RunInv, Writes, AtWork, StepIds
<1>11. CASE Launches
  <2>1. DOMAIN wave \subseteq StepIds(plan)
    BY <1>0 DEF TypeOK
  <2> QED
    BY <1>0, <1>11, <2>1 DEF RunInv, Launches, AtWork, StepIds
<1>12. CASE Counts
  BY <1>0, <1>12 DEF RunInv, Counts, AtWork, StepIds
<1>13. ASSUME NEW id, Redoes(id)
       PROVE  RunInv'
  <2>1. DOMAIN results' \subseteq DOMAIN results \cup {id} /\ id \in StepIds(plan)
    BY <1>13 DEF Redoes
  <2>2. /\ pc = "idle" /\ pc' = pc /\ run' = run /\ plan' = plan /\ launched' \subseteq launched
    BY <1>13 DEF Redoes
  <2> QED
    BY <1>0, <2>1, <2>2 DEF RunInv, AtWork
<1> QED
  BY <1>1, <1>2, <1>3, <1>4, <1>5, <1>6, <1>7, <1>8, <1>9, <1>10, <1>11, <1>12, <1>13
     DEF Moves

\* A wave has what it waits for, and failures to recover are failures.
LEMMA WaveKept ==
    ASSUME WavesInv, Moves
    PROVE  WaveInv'
<1>0. TypeOK /\ RunInv /\ WaveInv
  BY DEF WavesInv
<1>1. CASE Aside
  BY <1>0, <1>1 DEF WaveInv, Aside, Keeps
<1>2. CASE Dropped
  BY <1>0, <1>2 DEF WaveInv, Dropped, StepIds, NoRun
<1>3. CASE Enters
  BY <1>0, <1>3 DEF WaveInv, Enters, Keeps, StepIds, NoRun
<1>4. CASE Starts
  BY <1>0, <1>4 DEF WaveInv, Starts, Keeps, StepIds
<1>5. CASE Goes
  BY <1>0, <1>5 DEF WaveInv, Goes, Keeps
<1>6. ASSUME NEW skips, NEW f, Decides(skips, f)
      PROVE  WaveInv'
  <2>1. /\ pc = "select" /\ pc' \in {"skips", "launch"} /\ run.todo = {} /\ wave = <<>>
        /\ plan' = plan /\ results' = results /\ run'.todo = run.todo
        /\ run'.pending = run.pending \ skips
    BY <1>0, <1>6 DEF Decides, Keeps, WaveInv
  <2>2. CASE pc' = "skips"
    BY <1>6, <2>1, <2>2 DEF WaveInv, Decides, StepIds
  <2>3. CASE pc' = "launch"
    <3>1. PICK b \in SUBSET (Ready \ skips) : wave' = [id \in StepIds(b) |-> "runs"]
      BY <1>6, <2>3 DEF Decides
    <3>2. \A id \in DOMAIN wave' : \E s \in b : s.id = id
      BY <3>1 DEF StepIds
    <3>3. \A s \in b : s \in run'.pending /\ s.needs \subseteq DOMAIN results'
      BY <1>0, <2>1, <3>1 DEF Ready, RunInv
    <3> QED
      BY <2>1, <2>3, <3>2, <3>3 DEF WaveInv, StepIds
  <2> QED
    BY <2>1, <2>2, <2>3
<1>7. ASSUME NEW done, NEW failed, NEW f, Settles(done, failed, f)
      PROVE  WaveInv'
  <2>1. /\ pc' = "replan" /\ wave' = <<>> /\ plan' = plan
        /\ run'.todo = {s \in run.pending : s.id \in failed /\ s.id.agent \notin Skipping}
        /\ failed \subseteq DOMAIN run'.results /\ done \cap failed = {}
        /\ \A id \in failed : run'.results[id].status = "failed"
    BY <1>7 DEF Settles, Keeps, StepResult
  <2>2. run.pending \subseteq plan
    BY <1>0, <1>7 DEF RunInv, AtWork, Settles
  <2> QED
    BY <2>1, <2>2 DEF WaveInv, StepIds, Failures
<1>8. ASSUME NEW some, Forgoes(some)
      PROVE  WaveInv'
  <2>1. /\ pc = "replan" /\ pc' \in {"replan", "checkpoint"} /\ wave' = wave /\ plan' = plan
        /\ run'.todo = run.todo \ some /\ run'.results = run.results
        /\ pc' = "checkpoint" => some = run.todo
    BY <1>8 DEF Forgoes, Keeps
  <2> QED
    BY <1>0, <2>1 DEF WaveInv, StepIds
<1>9. ASSUME NEW s, Inserts(s)
      PROVE  WaveInv'
  <2>1. /\ pc = "replan" /\ pc' = "emit" /\ wave' = wave /\ run'.todo = run.todo \ {s}
        /\ run'.results = run.results
    BY <1>9 DEF Inserts
  <2>2. StepIds(plan) \subseteq StepIds(plan')
    BY <1>9, InsertedPlan
  <2> QED
    BY <1>0, <2>1, <2>2 DEF WaveInv, StepIds
<1>10. CASE Writes
  BY <1>0, <1>10 DEF WaveInv, Writes
<1>11. CASE Launches
  BY <1>0, <1>11 DEF WaveInv, Launches
<1>12. CASE Counts
  BY <1>0, <1>12 DEF WaveInv, Counts
<1>13. ASSUME NEW id, Redoes(id)
       PROVE  WaveInv'
  <2>1. pc = "idle" /\ pc' = pc /\ run' = run /\ plan' = plan /\ wave' = wave
    BY <1>13 DEF Redoes
  <2> QED
    BY <1>0, <2>1 DEF WaveInv
<1> QED
  BY <1>1, <1>2, <1>3, <1>4, <1>5, <1>6, <1>7, <1>8, <1>9, <1>10, <1>11, <1>12, <1>13
     DEF Moves

\* A recovery with a number of its own keeps a plan acyclic: of some steps of the
\* new plan one waits for none of them, since of the steps they stand for, and the
\* failed one if its recovery is among them, one waits for none of those.
LEMMA InsertionAnalyzes ==
    ASSUME WavesInv, NEW s, Inserts(s), Analyzes(plan), Recovery(s).id \notin StepIds(plan)
    PROVE  Analyzes(plan')
<1> DEFINE rec == Recovery(s)
           rw == [d \in plan |-> Rewired(s, d)]
<1>0. TypeOK /\ CountInv /\ s.id \in StepId /\ s.id \in StepIds(plan) /\ run.pending \subseteq plan
  BY InsertedPlan DEF WavesInv
<1>1. rec.needs = {s.id} /\ rec.id \notin StepIds(plan)
  BY <1>0, RecoveryStep DEF Inserts
<1>2. PICK s0 \in plan : s0.id = s.id
  BY <1>0 DEF StepIds
<1>3. \A t \in plan' : t = rec \/ \E d \in plan : t = rw[d]
  BY InsertedPlan
<1>4. \A d \in plan : /\ rw[d].id = d.id
                      /\ rw[d].needs \subseteq d.needs \cup {rec.id}
                      /\ s.id \notin d.needs => rw[d] = d
  BY <1>0, PlanTyped, RewiredStep
<1>5. StepIds(plan') = StepIds(plan) \cup {rec.id}
  BY InsertedPlan
<1>6. \A d \in plan : d.id \in StepIds(plan) /\ d.needs \subseteq StepIds(plan)
  BY DEF Analyzes, StepIds
<1>7. \A d, e \in plan : d.id = e.id => d = e
  BY DEF Analyzes
<1> HIDE DEF rec, rw
<1>8. \A t, u \in plan' : t.id = u.id => t = u
  BY <1>1, <1>3, <1>4, <1>6, <1>7
<1>9. \A t \in plan' : t.needs \subseteq StepIds(plan')
  BY <1>0, <1>1, <1>3, <1>4, <1>5, <1>6
<1>10. ASSUME NEW some \in SUBSET plan', some # {}
       PROVE  \E t \in some : t.needs \cap StepIds(some) = {}
  <2> DEFINE O == {d \in plan : rw[d] \in some \/ (rec \in some /\ d = s0)}
  <2>1. O # {} /\ O \in SUBSET plan
    BY <1>2, <1>3, <1>10
  <2>2. PICK m \in O : m.needs \cap StepIds(O) = {}
    BY <2>1 DEF Analyzes
  <2>3. StepIds(some) \subseteq StepIds(O) \cup {rec.id}
    BY <1>3, <1>4, <1>10 DEF StepIds
  <2>4. rec.id \in StepIds(some) => rec \in some /\ s.id \in StepIds(O)
    BY <1>1, <1>2, <1>3, <1>4, <1>6, <1>10 DEF StepIds
  <2>5. m.needs \cap StepIds(some) = {}
    BY <1>1, <1>6, <2>1, <2>2, <2>3
  <2>6. CASE rw[m] \in some /\ (rec \notin some \/ s.id \notin m.needs)
    <3>1. rw[m].needs \cap StepIds(some) = {}
      BY <1>4, <2>1, <2>4, <2>5, <2>6
    <3> QED
      BY <2>6, <3>1
  <2>7. CASE rw[m] \in some /\ rec \in some /\ s.id \in m.needs
    <3>1. s.id \in StepIds(O)
      BY <1>2, <2>7 DEF StepIds
    <3> QED
      BY <2>2, <2>7, <3>1
  <2>8. CASE rw[m] \notin some
    <3>1. rec \in some /\ m = s0
      BY <2>2, <2>8
    <3>2. s.id \notin StepIds(some)
      <4>1. ASSUME NEW t \in some, t.id = s.id
            PROVE  FALSE
        <5>1. t # rec
          BY <1>0, <1>1, <4>1
        <5>2. PICK d \in plan : t = rw[d]
          BY <1>3, <4>1, <5>1
        <5>3. d = s0
          BY <1>2, <1>4, <1>7, <4>1, <5>2
        <5> QED
          BY <2>8, <3>1, <4>1, <5>2, <5>3
      <4> QED
        BY <4>1 DEF StepIds
    <3> QED
      BY <1>1, <3>1, <3>2
  <2> QED
    BY <2>6, <2>7, <2>8
<1> QED
  BY <1>8, <1>9, <1>10 DEF Analyzes

\* Recoveries are counted, and the plan stays executable.
LEMMA CountKept ==
    ASSUME WavesInv, Moves
    PROVE  CountInv'
<1>0. TypeOK /\ RunInv /\ WaveInv /\ CountInv
  BY DEF WavesInv
<1>1. replans \in Nat /\ MaxReplans \in Nat
  BY <1>0, WavesAssumption DEF TypeOK
<1>2. CASE Aside \/ Goes \/ Launches \/ Writes
  BY <1>0, <1>2 DEF CountInv, Aside, Goes, Launches, Writes, Keeps, StepIds
<1>3. CASE Dropped
  <2>1. run'.generation = 0 /\ pc' = "idle" /\ replans' = replans /\ plan' = plan
        /\ (~uncounted' => ~uncounted /\ pc # "emit")
    BY <1>3 DEF Dropped, NoRun
  <2> QED
    BY <1>0, <1>1, <2>1 DEF CountInv
<1>4. CASE Enters
  <2>1. CASE pc = "idle"
    BY <1>0, <1>4, <2>1 DEF CountInv, Enters, Keeps
  <2>2. CASE pc = "begin" /\ pc' = "start"
    <3>1. run'.generation = replans /\ Keeps
      BY <1>4, <2>2 DEF Enters, NoRun
    <3> QED
      BY <1>0, <2>2, <3>1 DEF CountInv, Keeps
  <2> QED
    BY <1>4, <2>1, <2>2 DEF Enters
<1>5. ASSUME Keeps, run'.generation = run.generation,
             pc \notin {"idle", "begin", "emit"}, pc' \notin {"idle", "begin", "emit"}
      PROVE  CountInv'
  BY <1>0, <1>5 DEF CountInv, Keeps
<1>6. CASE Starts
  BY <1>5, <1>6 DEF Starts
<1>7. ASSUME NEW skips, NEW f, Decides(skips, f)
      PROVE  CountInv'
  <2>1. run'.generation = run.generation
    BY <1>7 DEF Decides
  <2> QED
    BY <1>5, <1>7, <2>1 DEF Decides
<1>8. ASSUME NEW done, NEW failed, NEW f, Settles(done, failed, f)
      PROVE  CountInv'
  <2>1. run'.generation = run.generation
    BY <1>8 DEF Settles
  <2> QED
    BY <1>5, <1>8, <2>1 DEF Settles
<1>9. ASSUME NEW some, Forgoes(some)
      PROVE  CountInv'
  <2>1. run'.generation = run.generation
    BY <1>9 DEF Forgoes
  <2> QED
    BY <1>5, <1>9, <2>1 DEF Forgoes
<1>10. ASSUME NEW s, Inserts(s)
       PROVE  CountInv'
  <2>1. /\ run'.generation = run.generation + 1 /\ pc = "replan" /\ pc' = "emit"
        /\ replans' = replans /\ uncounted' = uncounted /\ run.generation < MaxReplans
    BY <1>10 DEF Inserts
  <2>2. s.id \in StepId /\ StepIds(plan') = StepIds(plan) \cup {Recovery(s).id}
    BY <1>10, InsertedPlan
  <2>3. Recovery(s).id.recovery = replans + 1 /\ run.generation = replans
    BY <1>0, <2>1, <2>2, RecoveryStep
  <2>4. ASSUME ~uncounted
        PROVE  Analyzes(plan') /\ \A id \in StepIds(plan') : id.recovery <= replans + 1
    <3>1. Analyzes(plan) /\ \A id \in StepIds(plan) : id.recovery <= replans
      BY <1>0, <2>1, <2>4 DEF CountInv
    <3>2. Recovery(s).id \notin StepIds(plan)
      BY <1>1, <2>3, <3>1
    <3>3. Analyzes(plan')
      BY <1>10, <3>1, <3>2, InsertionAnalyzes
    <3>4. \A id \in StepIds(plan) : id.recovery \in Nat
      BY <1>0, PlanTyped, WavesAssumption DEF StepIds, StepId
    <3> QED
      BY <1>1, <2>2, <2>3, <3>1, <3>3, <3>4
  <2> QED
    BY <1>1, <2>1, <2>3, <2>4 DEF CountInv
<1>11. CASE Counts
  BY <1>0, <1>1, <1>11 DEF CountInv, Counts, StepIds
<1>12. ASSUME NEW id, Redoes(id)
       PROVE  CountInv'
  <2>1. pc = "idle" /\ pc' = pc /\ run' = run /\ plan' = plan /\ replans' = replans
        /\ uncounted' = uncounted
    BY <1>12 DEF Redoes
  <2> QED
    BY <1>0, <2>1 DEF CountInv
<1> QED
  BY <1>2, <1>3, <1>4, <1>6, <1>7, <1>8, <1>9, <1>10, <1>11, <1>12 DEF Moves

\* The plan stays that of the compiled steps.
LEMMA PlanKept ==
    ASSUME WavesInv, Moves
    PROVE  PlanInv'
<1>0. TypeOK /\ RunInv /\ CountInv /\ PlanInv
  BY DEF WavesInv
<1>1. compiled' = compiled
  BY DEF Moves, Aside, Dropped, Enters, Starts, Goes, Decides, Settles, Forgoes, Inserts,
         Writes, Launches, Counts, Redoes, Keeps
<1>2. CASE plan' = plan
  BY <1>0, <1>1, <1>2 DEF PlanInv
<1>3. ASSUME NEW s, Inserts(s)
      PROVE  PlanInv'
  <2> DEFINE rec == Recovery(s)
             rw == [d \in plan |-> Rewired(s, d)]
  <2>1. s.id \in StepIds(plan) /\ s.id \in StepId
    BY <1>3, InsertedPlan
  <2>2. /\ rec.needs = {s.id} /\ rec.asks = {} /\ rec.id.recovery # 0
        /\ Origin(rec.id) = Origin(s.id)
    BY <1>0, <1>3, <2>1, RecoveryStep DEF Inserts
  <2>3. \A t \in plan' : t = rec \/ \E d \in plan : t = rw[d]
    BY <1>3, InsertedPlan
  <2>4. StepIds(plan') = StepIds(plan) \cup {rec.id}
    BY <1>3, InsertedPlan
  <2>5. \A d \in plan : /\ rw[d].id = d.id /\ rw[d].asks = d.asks
                        /\ rw[d].needs \subseteq d.needs \cup {rec.id}
                        /\ d.needs \subseteq rw[d].needs \cup {s.id}
                        /\ rw[d] # d => /\ s.id \in d.needs
                                        /\ rw[d].needs = (d.needs \ {s.id}) \cup {rec.id}
    BY <1>0, PlanTyped, RewiredStep
  <2>6. rec \in plan' /\ \A d \in plan : rw[d] \in plan'
    BY <1>3, InsertedPlan DEF Inserts
  <2>7. \A d \in plan : d.id \in StepIds(plan)
    BY DEF StepIds
  <2> HIDE DEF rec, rw
  <2>8. {id \in StepIds(plan') : id.recovery = 0} = StepIds(compiled)
    BY <1>0, <2>2, <2>4 DEF PlanInv
  <2>9. \A id \in StepIds(plan') : Origin(id) \in StepIds(plan')
    BY <1>0, <2>1, <2>2, <2>4 DEF PlanInv
  <2>10. ASSUME NEW t \in plan', NEW u \in plan', t.id = u.id, t.id.recovery = 0
         PROVE  t = u
    <3>1. PICK d \in plan, e \in plan : t = rw[d] /\ u = rw[e]
      BY <2>2, <2>3, <2>10
    <3>2. d = e
      BY <1>0, <2>5, <2>10, <3>1 DEF PlanInv
    <3> QED
      BY <3>1, <3>2
  <2>11. ASSUME NEW t \in plan', t.id.recovery = 0, NEW u \in compiled, u.id = t.id
         PROVE  /\ t.asks = u.asks
                /\ {n \in t.needs : n.recovery = 0} \subseteq u.needs
                /\ u.needs \subseteq {Origin(n) : n \in t.needs}
    <3>1. PICK d \in plan : t = rw[d]
      BY <2>2, <2>3, <2>11
    <3>2. /\ d.asks = u.asks /\ {n \in d.needs : n.recovery = 0} \subseteq u.needs
          /\ u.needs \subseteq {Origin(n) : n \in d.needs}
      BY <1>0, <2>5, <2>11, <3>1 DEF PlanInv
    <3>3. {n \in t.needs : n.recovery = 0} \subseteq u.needs
      BY <2>2, <2>5, <3>1, <3>2
    <3>4. ASSUME NEW n \in u.needs
          PROVE  \E m \in t.needs : n = Origin(m)
      <4>1. PICK m \in d.needs : n = Origin(m)
        BY <3>2
      <4>2. CASE m \in t.needs
        BY <4>1, <4>2
      <4>3. CASE m \notin t.needs
        <5>1. m = s.id /\ rec.id \in t.needs
          BY <2>5, <3>1, <4>3
        <5> QED
          BY <2>2, <4>1, <5>1
      <4> QED
        BY <4>2, <4>3
    <3> QED
      BY <2>5, <3>1, <3>2, <3>3, <3>4
  <2>12. ASSUME NEW t \in plan', t.id.recovery # 0
         PROVE  t.asks = {} /\ t.needs # {} /\ \A n \in t.needs : Origin(n) = Origin(t.id)
    <3>1. CASE t = rec
      BY <2>2, <3>1
    <3>2. ASSUME NEW d \in plan, t = rw[d]
          PROVE  t.asks = {} /\ t.needs # {} /\ \A n \in t.needs : Origin(n) = Origin(t.id)
      <4>1. d.asks = {} /\ d.needs # {} /\ \A n \in d.needs : Origin(n) = Origin(d.id)
        BY <1>0, <2>5, <2>12, <3>2 DEF PlanInv
      <4>2. CASE t = d
        BY <4>1, <4>2
      <4>3. CASE t # d
        BY <2>2, <2>5, <3>2, <4>1, <4>3
      <4> QED
        BY <4>2, <4>3
    <3> QED
      BY <2>3, <3>1, <3>2
  <2>13. ASSUME NEW X \in SUBSET StepIds(plan'), Carried(plan', X)
         PROVE  /\ Carried(compiled, X)
                /\ \A id \in StepIds(plan') : Origin(id) \in X => id \in X
    <3> DEFINE Y == X \cap StepIds(plan)
    <3>1. s.id \in X => rec.id \in X
      BY <2>2, <2>6, <2>13 DEF Carried
    <3>2. ASSUME NEW d \in plan, d.needs \cap Y # {}
          PROVE  d.id \in Y
      <4>1. rw[d].needs \cap X # {}
        <5>1. PICK n \in d.needs : n \in X
          BY <3>2
        <5> QED
          BY <2>5, <3>1, <5>1
      <4> QED
        BY <2>5, <2>6, <2>7, <2>13, <4>1 DEF Carried
    <3>3. Carried(plan, Y) /\ Y \in SUBSET StepIds(plan)
      BY <3>2 DEF Carried
    <3>4. Carried(compiled, Y) /\ \A id \in StepIds(plan) : Origin(id) \in Y => id \in Y
      BY <1>0, <3>3 DEF PlanInv
    <3>5. ASSUME NEW c \in compiled, c.needs \cap X # {}
          PROVE  c.id \in X
      <4>1. c.needs \subseteq StepIds(compiled)
        BY <1>0 DEF PlanInv, Analyzes
      <4>2. StepIds(compiled) \subseteq StepIds(plan)
        BY <1>0 DEF PlanInv
      <4> QED
        BY <3>4, <3>5, <4>1, <4>2 DEF Carried
    <3>6. ASSUME NEW id \in StepIds(plan'), Origin(id) \in X
          PROVE  id \in X
      <4>1. \A x \in StepIds(plan) : Origin(x) \in X => x \in X
        BY <1>0, <3>4 DEF PlanInv
      <4>2. CASE id = rec.id
        BY <2>1, <2>2, <3>1, <3>6, <4>1, <4>2
      <4> QED
        BY <2>4, <3>6, <4>1, <4>2
    <3> QED
      BY <3>5, <3>6 DEF Carried
  <2>14. /\ Analyzes(compiled') /\ \A c \in compiled' : c.id.recovery = 0
         /\ {id \in StepIds(plan') : id.recovery = 0} = StepIds(compiled')
    BY <1>0, <1>1, <2>8 DEF PlanInv
  <2>15. \A t \in plan' : IF t.id.recovery = 0
           THEN \A u \in compiled' : u.id = t.id =>
                  /\ t.asks = u.asks
                  /\ {n \in t.needs : n.recovery = 0} \subseteq u.needs
                  /\ u.needs \subseteq {Origin(n) : n \in t.needs}
           ELSE /\ t.asks = {} /\ t.needs # {}
                /\ \A n \in t.needs : Origin(n) = Origin(t.id)
    BY <1>1, <2>11, <2>12
  <2>16. \A X \in SUBSET StepIds(plan') : Carried(plan', X) =>
           /\ Carried(compiled', X)
           /\ \A id \in StepIds(plan') : Origin(id) \in X => id \in X
    BY <1>1, <2>13
  <2> QED
    BY <2>9, <2>10, <2>14, <2>15, <2>16 DEF PlanInv
<1> QED
  BY <1>2, <1>3, PlanChanges

\* Results that a run does not execute again stay as they were.
LEMMA ResultKept ==
    ASSUME WavesInv, Moves
    PROVE  ResultInv'
<1>0. TypeOK /\ RunInv /\ WaveInv /\ PlanInv /\ ResultInv
  BY DEF WavesInv
<1>1. CASE Aside
  BY <1>0, <1>1 DEF ResultInv, Aside, Keeps, AtWork, StepIds, Failures
<1>2. CASE Dropped
  BY <1>0, <1>2 DEF ResultInv, Dropped, AtWork, NoRun, StepIds, Failures
<1>3. CASE Enters
  <2>1. run'.pending = {} /\ pc' \in {"begin", "start"} /\ Keeps
    BY <1>0, <1>3 DEF Enters, NoRun, RunInv, AtWork
  <2> QED
    BY <1>0, <2>1 DEF ResultInv, AtWork, Keeps, StepIds, Failures
<1>4. CASE Starts
  <2>1. /\ run'.results = results /\ results' = results /\ plan' = plan /\ shaken' = shaken
        /\ run'.pending = {s \in plan : s.id \notin Done(results)}
    BY <1>4 DEF Starts, Keeps
  <2>2. \A id \in DOMAIN results \ Done(results) :
          results[id].status = "failed" /\ ~results[id].skipped
    BY <1>0 DEF TypeOK, Result, Done
  <2>3. \A id \in StepIds(run'.pending) : id \notin Done(results)
    BY <2>1 DEF StepIds
  <2>4. \A s \in plan : s \in run'.pending \/ s.id \in DOMAIN results
    BY <2>1 DEF Done
  <2>5. Failures(results) \subseteq shaken
    BY <1>0 DEF ResultInv
  <2> QED
    BY <2>1, <2>2, <2>3, <2>4, <2>5 DEF ResultInv
<1>5. CASE Goes
  BY <1>0, <1>5 DEF ResultInv, Goes, Keeps, AtWork, StepIds, Failures
<1>6. ASSUME AtWork, AtWork', Keeps, NEW new \in SUBSET StepIds(run.pending),
             DOMAIN run'.results = DOMAIN run.results \cup new,
             \A id \in DOMAIN run.results \ new : run'.results[id] = run.results[id],
             run'.pending \subseteq run.pending,
             \A s \in run.pending : s \in run'.pending \/ s.id \in new,
             \A s \in run'.pending : s.id.recovery = 0 => s.id \notin new
      PROVE  ResultInv'
  <2>1. \A id \in DOMAIN results \ shaken : id.recovery = 0 =>
          id \in DOMAIN run.results /\ id \notin new
    BY <1>0, <1>6 DEF ResultInv, Failures
  <2>2. \A id \in StepIds(run'.pending) : id.recovery = 0 => id \notin new
    BY <1>6 DEF StepIds
  <2>3. StepIds(run'.pending) \subseteq StepIds(run.pending)
    BY <1>6 DEF StepIds
  <2>4. /\ results' = results /\ shaken' = shaken /\ plan' = plan
    BY <1>6 DEF Keeps
  <2>5. Failures(results) \subseteq shaken
    BY <1>0 DEF ResultInv
  <2>6. \A id \in DOMAIN results \ shaken : id.recovery = 0 =>
          id \in DOMAIN run'.results /\ run'.results[id] = results[id]
    BY <1>0, <1>6, <2>1 DEF ResultInv
  <2>7. DOMAIN results \subseteq DOMAIN run'.results
    BY <1>0, <1>6 DEF ResultInv
  <2>8. \A s \in plan : s.id.recovery = 0 => s \in run'.pending \/ s.id \in DOMAIN run'.results
    BY <1>0, <1>6 DEF ResultInv
  <2>9. \A id \in StepIds(run'.pending) \cap DOMAIN run'.results : id.recovery = 0 =>
          /\ id \in DOMAIN results /\ run'.results[id] = results[id]
          /\ results[id].status = "failed" /\ ~results[id].skipped
    BY <1>0, <1>6, <2>2, <2>3 DEF ResultInv
  <2> QED
    BY <2>4, <2>5, <2>6, <2>7, <2>8, <2>9 DEF ResultInv
<1>7. ASSUME NEW skips, NEW f, Decides(skips, f)
      PROVE  ResultInv'
  <2>1. skips \subseteq run.pending /\ run.pending \subseteq plan
    BY <1>0, <1>7 DEF Decides, Ready, RunInv, AtWork
  <2>2. /\ DOMAIN run'.results = DOMAIN run.results \cup StepIds(skips)
        /\ \A id \in DOMAIN run.results \ StepIds(skips) : run'.results[id] = run.results[id]
        /\ run'.pending = run.pending \ skips
    BY <1>7 DEF Decides
  <2>3. \A s \in run'.pending : s.id.recovery = 0 => s.id \notin StepIds(skips)
    BY <1>0, <2>1, <2>2 DEF PlanInv, StepIds
  <2>4. /\ StepIds(skips) \in SUBSET StepIds(run.pending)
        /\ \A s \in run.pending : s \in run'.pending \/ s.id \in StepIds(skips)
    BY <2>1, <2>2 DEF StepIds
  <2>5. AtWork /\ AtWork' /\ Keeps
    BY <1>7 DEF Decides, AtWork
  <2> QED
    BY <1>6, <2>2, <2>3, <2>4, <2>5
<1>8. ASSUME NEW done, NEW failed, NEW f, Settles(done, failed, f)
      PROVE  ResultInv'
  <2> DEFINE new == done \cup failed
  <2>1. new \in SUBSET StepIds(run.pending)
    BY <1>0, <1>8 DEF Settles, WaveInv, StepIds
  <2>2. DOMAIN run'.results = DOMAIN run.results \cup new
    BY <1>8 DEF Settles
  <2>4. \A id \in DOMAIN run.results \ new : run'.results[id] = run.results[id]
    <3>1. run'.results = [id \in DOMAIN run.results \cup (done \cup failed) |->
                            IF id \in done THEN StepResult("completed", FALSE, f[id])
                            ELSE IF id \in failed
                            THEN StepResult("failed", id.agent \in Skipping, f[id])
                            ELSE run.results[id]]
      BY <1>8 DEF Settles
    <3> QED
      BY <3>1
  <2>5. run'.pending = {s \in run.pending : s.id \notin new}
    BY <1>8 DEF Settles
  <2>3. AtWork /\ AtWork' /\ Keeps
    BY <1>8 DEF Settles, AtWork
  <2>6. /\ \A s \in run.pending : s \in run'.pending \/ s.id \in new
        /\ \A s \in run'.pending : s.id.recovery = 0 => s.id \notin new
        /\ run'.pending \subseteq run.pending
    BY <2>5
  <2> HIDE DEF new
  <2> QED
    BY <1>6, <2>1, <2>2, <2>3, <2>4, <2>6
<1>9. ASSUME NEW some, Forgoes(some)
      PROVE  ResultInv'
  <2>1. run'.results = run.results /\ run'.pending = run.pending /\ AtWork /\ AtWork' /\ Keeps
    BY <1>9 DEF Forgoes, AtWork
  <2> QED
    BY <1>0, <2>1 DEF ResultInv, Keeps, StepIds, Failures
<1>10. ASSUME run'.results = run.results, results' = run.results,
              shaken' = shaken \cup Failures(run.results), AtWork, AtWork',
              \A id \in StepIds(run'.pending) : id.recovery = 0 => id \in StepIds(run.pending),
              \A s \in plan' : s.id.recovery = 0 =>
                  s \in run'.pending \/ s.id \in DOMAIN run.results
       PROVE  ResultInv'
  <2>1. \A id \in StepIds(run'.pending) \cap DOMAIN run'.results : id.recovery = 0 =>
          results'[id].status = "failed" /\ ~results'[id].skipped
    BY <1>0, <1>10 DEF ResultInv
  <2> QED
    BY <1>10, <2>1 DEF ResultInv
<1>11. ASSUME NEW s, Inserts(s)
       PROVE  ResultInv'
  <2>1. s.id \in StepId
    BY <1>11, InsertedPlan
  <2>2. Recovery(s).id.recovery # 0
    BY <1>0, <1>11, <2>1, RecoveryStep DEF Inserts, WavesInv
  <2>3. \A id \in StepIds(run'.pending) : id.recovery = 0 => id \in StepIds(run.pending)
    BY <1>11, <2>2, InsertedPlan
  <2>4. ASSUME NEW t \in plan', t.id.recovery = 0
        PROVE  t \in run'.pending \/ t.id \in DOMAIN run.results
    <3>1. PICK d \in plan : t = Rewired(s, d)
      BY <1>11, <2>2, <2>4, InsertedPlan
    <3>2. t.id = d.id
      BY <1>0, <3>1, PlanTyped, RewiredStep
    <3>3. d \in run.pending \/ d.id \in DOMAIN run.results
      BY <1>0, <1>11, <2>4, <3>2 DEF ResultInv, AtWork, Inserts
    <3> QED
      BY <1>11, <2>4, <3>1, <3>2, <3>3, InsertedPlan
  <2>5. run'.results = run.results /\ AtWork /\ AtWork'
    BY <1>11 DEF Inserts, AtWork
  <2> QED
    BY <1>10, <1>11, <2>3, <2>4, <2>5 DEF Inserts
<1>12. CASE Writes
  <2>1. run' = run /\ plan' = plan /\ AtWork /\ AtWork'
    BY <1>12 DEF Writes, AtWork
  <2>2. \A s \in plan : s.id.recovery = 0 => s \in run.pending \/ s.id \in DOMAIN run.results
    BY <1>0, <2>1 DEF ResultInv
  <2> QED
    BY <1>10, <1>12, <2>1, <2>2 DEF Writes
<1>13. CASE Launches \/ Counts
  BY <1>0, <1>13 DEF ResultInv, Launches, Counts, AtWork, StepIds, Failures
<1>14. ASSUME NEW id, Redoes(id)
       PROVE  ResultInv'
  <2>1. Failures(results') \subseteq Failures(results)
    BY <1>14 DEF Redoes, Failures
  <2>2. run'.pending = {} /\ pc' = "idle" /\ shaken' = shaken
    BY <1>0, <1>14 DEF Redoes, RunInv, AtWork, NoRun
  <2> QED
    BY <1>0, <2>1, <2>2 DEF ResultInv, AtWork, StepIds
<1> QED
  BY <1>1, <1>2, <1>3, <1>4, <1>5, <1>7, <1>8, <1>9, <1>11, <1>12, <1>13, <1>14 DEF Moves

\* The descendants of a step are closed under what waits for them.
LEMMA Descendants ==
    ASSUME NEW steps, NEW id \in StepIds(steps)
    PROVE  /\ id \in DescendantsOf(steps, id)
           /\ DescendantsOf(steps, id) \in SUBSET StepIds(steps)
           /\ Carried(steps, DescendantsOf(steps, id))
<1> DEFINE D == DescendantsOf(steps, id)
<1>1. id \in D /\ D \in SUBSET StepIds(steps)
  BY DEF DescendantsOf
<1>2. ASSUME NEW s \in steps, s.needs \cap D # {}
      PROVE  s.id \in D
  <2>1. PICK n \in s.needs : n \in D
    BY <1>2
  <2>2. ASSUME NEW X \in SUBSET StepIds(steps), id \in X, Carried(steps, X)
        PROVE  s.id \in X
    <3>1. n \in X
      BY <2>1, <2>2 DEF DescendantsOf
    <3> QED
      BY <2>1, <2>2, <3>1 DEF Carried
  <2>3. s.id \in StepIds(steps)
    BY DEF StepIds
  <2> QED
    BY <2>2, <2>3 DEF DescendantsOf
<1> QED
  BY <1>1, <1>2 DEF Carried

\* What was begun was chosen by an answer that is in the row.
LEMMA BranchKept ==
    ASSUME WavesInv, Moves
    PROVE  BranchInv'
<1>0. TypeOK /\ RunInv /\ WaveInv /\ PlanInv /\ ResultInv /\ BranchInv
  BY DEF WavesInv
<1>1. ASSUME plan' = plan, results' = results, shaken' = shaken, launched' = launched,
             pc' = "launch" => pc = "launch" /\ DOMAIN wave' = DOMAIN wave
      PROVE  BranchInv'
  BY <1>0, <1>1 DEF BranchInv
<1>2. CASE Aside \/ Dropped \/ Enters \/ Starts \/ Goes \/ Counts
  BY <1>1, <1>2 DEF Aside, Dropped, Enters, Starts, Goes, Counts, Keeps
<1>3. ASSUME NEW skips, NEW f, Decides(skips, f)
      PROVE  BranchInv'
  <2>1. CASE pc' = "skips"
    BY <1>1, <1>3, <2>1 DEF Decides, Keeps
  <2>2. CASE pc' = "launch"
    <3>1. PICK b \in SUBSET (Ready \ skips) :
            /\ \A s \in b : Decidable(s) /\ Selected(s)
            /\ wave' = [id \in StepIds(b) |-> "runs"]
      BY <1>3, <2>2 DEF Decides
    <3>2. /\ run.results = results /\ b \subseteq plan
          /\ plan' = plan /\ results' = results /\ shaken' = shaken /\ launched' = launched
      BY <1>0, <1>3, <3>1 DEF RunInv, AtWork, Ready, Decides, Keeps
    <3>3. ASSUME NEW s \in plan, NEW a \in s.asks, s.id \in DOMAIN wave'
          PROVE  a.source \in DOMAIN results /\ results[a.source].answer = a.wants
      <4>1. PICK p \in b : p.id = s.id
        BY <3>1, <3>3 DEF StepIds
      <4>2. p = s
        BY <1>0, <3>2, <3>3, <4>1 DEF PlanInv
      <4> QED
        BY <3>1, <3>2, <3>3, <4>2 DEF Decidable, Selected
    <3> QED
      BY <1>0, <3>2, <3>3 DEF BranchInv
  <2> QED
    BY <1>3, <2>1, <2>2 DEF Decides
<1>4. ASSUME NEW done, NEW failed, NEW f, Settles(done, failed, f)
      PROVE  BranchInv'
  BY <1>1, <1>4 DEF Settles, Keeps
<1>5. ASSUME NEW some, Forgoes(some)
      PROVE  BranchInv'
  BY <1>1, <1>5 DEF Forgoes, Keeps
<1>6. ASSUME results' = run.results, shaken' = shaken \cup Failures(run.results),
             launched' = launched, AtWork, pc' # "launch",
             NEW s \in plan, NEW a \in s.asks
      PROVE  /\ a.source.recovery = 0
             /\ a.source \in s.needs \cup shaken'
             /\ s.id \in launched' /\ a.source \notin shaken' =>
                  a.source \in DOMAIN results' /\ results'[a.source].answer = a.wants
  <2>1. /\ a.source.recovery = 0 /\ a.source \in s.needs \cup shaken
        /\ s.id \in launched /\ a.source \notin shaken =>
             a.source \in DOMAIN results /\ results[a.source].answer = a.wants
    BY <1>0 DEF BranchInv
  <2>2. a.source \in DOMAIN results \ shaken =>
          a.source \in DOMAIN run.results /\ run.results[a.source] = results[a.source]
    BY <1>0, <1>6, <2>1 DEF ResultInv
  <2> QED
    BY <1>6, <2>1, <2>2
<1>7. CASE Writes
  <2>1. plan' = plan /\ AtWork /\ pc' # "launch"
    BY <1>7 DEF Writes, AtWork
  <2> QED
    BY <1>6, <1>7, <2>1 DEF Writes, BranchInv
<1>8. ASSUME NEW s, Inserts(s)
      PROVE  BranchInv'
  <2>1. /\ results' = run.results /\ shaken' = shaken \cup Failures(run.results)
        /\ launched' = launched /\ AtWork /\ pc' # "launch"
    BY <1>8 DEF Inserts, AtWork
  <2>2. s.id \in shaken'
    BY <1>0, <1>8, <2>1 DEF WaveInv, Inserts, StepIds
  <2>3. ASSUME NEW t \in plan', NEW a \in t.asks
        PROVE  \E d \in plan : /\ a \in d.asks /\ t.id = d.id
                               /\ d.needs \subseteq t.needs \cup {s.id}
    <3>1. t # Recovery(s)
      BY <2>3 DEF Recovery
    <3>2. PICK d \in plan : t = Rewired(s, d)
      BY <1>8, <3>1, InsertedPlan
    <3> QED
      BY <1>0, <2>3, <3>2, PlanTyped, RewiredStep
  <2> QED
    BY <1>6, <2>1, <2>2, <2>3 DEF BranchInv
<1>9. CASE Launches
  <2>1. /\ plan' = plan /\ results' = results /\ shaken' = shaken
        /\ launched' = launched \cup DOMAIN wave /\ pc = "launch" /\ pc' # "launch"
    BY <1>9 DEF Launches
  <2> QED
    BY <1>0, <2>1 DEF BranchInv
<1>10. ASSUME NEW id, Redoes(id)
       PROVE  BranchInv'
  <2> DEFINE D == DescendantsOf(plan, id)
  <2>1. /\ plan' = plan /\ shaken' = shaken /\ launched' = launched \ D /\ pc' = "idle"
        /\ id \in StepIds(plan)
    BY <1>10 DEF Redoes
  <2>2. id \in D /\ Carried(plan, D)
    BY <2>1, Descendants
  <2>3. \A d \in DOMAIN results \ D : d \in DOMAIN results' /\ results'[d] = results[d]
    BY <1>10, <2>2 DEF Redoes
  <2> HIDE DEF D
  <2>4. ASSUME NEW s \in plan, NEW a \in s.asks, s.id \in launched', a.source \notin shaken
        PROVE  a.source \in DOMAIN results' /\ results'[a.source].answer = a.wants
    <3>1. /\ a.source \in s.needs
          /\ a.source \in DOMAIN results /\ results[a.source].answer = a.wants
      BY <1>0, <2>1, <2>4 DEF BranchInv
    <3>2. a.source \notin D
      BY <2>1, <2>2, <2>4, <3>1 DEF Carried
    <3> QED
      BY <2>3, <3>1, <3>2
  <2> QED
    BY <1>0, <2>1, <2>4 DEF BranchInv
<1> QED
  BY <1>2, <1>3, <1>4, <1>5, <1>7, <1>8, <1>9, <1>10 DEF Moves

\* What is ready in a plan whose results are grounded would be grounded.
LEMMA ReadyGrounded ==
    ASSUME PlanInv, NEW done, \A id \in done : Grounded(id, done),
           NEW p \in plan, p.id \in StepId, p.needs \subseteq done
    PROVE  Grounded(p.id, done)
<1>1. \A n \in done : Origin(n) \in done
  BY DEF Grounded
<1>2. CASE p.id.recovery = 0
  <2>1. Origin(p.id) = p.id
    BY <1>2, Origins
  <2>2. \A s \in compiled : s.id = p.id => s.needs \subseteq {Origin(n) : n \in p.needs}
    BY <1>2 DEF PlanInv
  <2> QED
    BY <1>1, <2>1, <2>2 DEF Grounded
<1>3. CASE p.id.recovery # 0
  <2>1. PICK n \in p.needs : Origin(n) = Origin(p.id)
    BY <1>3 DEF PlanInv
  <2>2. \A s \in compiled : s.id # p.id
    BY <1>3 DEF PlanInv
  <2> QED
    BY <1>1, <2>1, <2>2 DEF Grounded
<1> QED
  BY <1>2, <1>3

\* What has a result, or was begun, has a result for all that it needed.
LEMMA OrderKept ==
    ASSUME WavesInv, Moves
    PROVE  OrderInv'
<1>0. TypeOK /\ RunInv /\ WaveInv /\ PlanInv /\ ResultInv /\ OrderInv
  BY DEF WavesInv
<1>c. compiled' = compiled
  BY DEF Moves, Aside, Dropped, Enters, Starts, Goes, Decides, Settles, Forgoes, Inserts,
         Writes, Launches, Counts, Redoes, Keeps
<1>m. \A id, A, B : Grounded(id, A) /\ A \subseteq B => Grounded(id, B)
  BY DEF Grounded
<1>p. \A p \in plan : p.id \in StepId
  BY <1>0, PlanTyped
<1>1. ASSUME results' = results, launched' = launched, byHand' => byHand, byHand => byHand',
             ~byHand => \A id \in DOMAIN run'.results : Grounded(id, DOMAIN run'.results)
      PROVE  OrderInv'
  BY <1>0, <1>1, <1>c DEF OrderInv, Grounded, Origin
<1>2. CASE Aside \/ Goes \/ Counts
  BY <1>0, <1>1, <1>2 DEF Aside, Goes, Counts, Keeps, OrderInv
<1>3. CASE Dropped
  BY <1>1, <1>3 DEF Dropped, NoRun
<1>4. CASE Enters
  <2>1. DOMAIN run'.results = {}
    BY <1>0, <1>4 DEF Enters, RunInv, AtWork, NoRun
  <2> QED
    BY <1>1, <1>4, <2>1 DEF Enters, Keeps
<1>5. CASE Starts
  BY <1>0, <1>1, <1>5 DEF Starts, Keeps, OrderInv
<1>6. ASSUME Keeps, NEW new, DOMAIN run'.results = DOMAIN run.results \cup new,
             \A id \in new : \E p \in plan : p.id = id /\ p.needs \subseteq DOMAIN run.results
      PROVE  OrderInv'
  <2>1. ASSUME ~byHand, NEW id \in DOMAIN run'.results
        PROVE  Grounded(id, DOMAIN run'.results)
    <3>1. \A n \in DOMAIN run.results : Grounded(n, DOMAIN run.results)
      BY <1>0, <2>1 DEF OrderInv
    <3>2. Grounded(id, DOMAIN run.results)
      <4>1. CASE id \in DOMAIN run.results
        BY <3>1, <4>1
      <4>2. CASE id \in new
        <5>1. PICK p \in plan : p.id = id /\ p.needs \subseteq DOMAIN run.results
          BY <1>6, <4>2
        <5> QED
          BY <1>0, <1>p, <3>1, <5>1, ReadyGrounded
      <4> QED
        BY <1>6, <2>1, <4>1, <4>2
    <3> QED
      BY <1>6, <1>m, <3>2
  <2> QED
    BY <1>1, <1>6, <2>1 DEF Keeps
<1>7. ASSUME NEW skips, NEW f, Decides(skips, f)
      PROVE  OrderInv'
  <2>1. DOMAIN run'.results = DOMAIN run.results \cup StepIds(skips)
    BY <1>7 DEF Decides
  <2>2. \A p \in skips : p \in plan /\ p.needs \subseteq DOMAIN run.results
    BY <1>0, <1>7 DEF Decides, Ready, RunInv, AtWork
  <2>3. Keeps
    BY <1>7 DEF Decides
  <2>4. \A id \in StepIds(skips) :
          \E p \in plan : p.id = id /\ p.needs \subseteq DOMAIN run.results
    BY <2>2 DEF StepIds
  <2> QED
    BY <1>6, <2>1, <2>3, <2>4
<1>8. ASSUME NEW done, NEW failed, NEW f, Settles(done, failed, f)
      PROVE  OrderInv'
  <2>1. DOMAIN run'.results = DOMAIN run.results \cup (done \cup failed)
    BY <1>8 DEF Settles
  <2>2. \A id \in done \cup failed :
          \E p \in plan : p.id = id /\ p.needs \subseteq DOMAIN run.results
    BY <1>0, <1>8 DEF Settles, WaveInv, RunInv, ResultInv, AtWork
  <2>3. Keeps
    BY <1>8 DEF Settles
  <2> QED
    BY <1>6, <2>1, <2>2, <2>3
<1>9. ASSUME NEW some, Forgoes(some)
      PROVE  OrderInv'
  <2>1. run'.results = run.results /\ Keeps
    BY <1>9 DEF Forgoes
  <2> QED
    BY <1>0, <1>1, <2>1 DEF Keeps, OrderInv
<1>10. ASSUME results' = run.results, run'.results = run.results, launched' = launched,
              byHand' => byHand, byHand => byHand', AtWork
       PROVE  OrderInv'
  <2>1. DOMAIN results \subseteq DOMAIN run.results
    BY <1>0, <1>10 DEF ResultInv
  <2>2. ASSUME ~byHand
        PROVE  \A id \in DOMAIN results' \cup launched' : Grounded(id, DOMAIN results')
    BY <1>0, <1>10, <1>m, <2>1, <2>2 DEF OrderInv
  <2>3. ~byHand => \A id \in DOMAIN run'.results : Grounded(id, DOMAIN run'.results)
    BY <1>0, <1>10 DEF OrderInv
  <2> QED
    BY <1>10, <1>c, <2>2, <2>3 DEF OrderInv, Grounded, Origin
<1>11. CASE Writes
  BY <1>10, <1>11 DEF Writes, AtWork
<1>12. ASSUME NEW s, Inserts(s)
       PROVE  OrderInv'
  <2>1. run'.results = run.results /\ results' = run.results /\ launched' = launched
        /\ byHand' = byHand /\ AtWork
    BY <1>12 DEF Inserts, AtWork
  <2> QED
    BY <1>10, <2>1
<1>13. CASE Launches
  <2>1. ASSUME ~byHand, NEW id \in DOMAIN wave
        PROVE  Grounded(id, DOMAIN results)
    <3>1. PICK p \in plan : p.id = id /\ p.needs \subseteq DOMAIN results
      BY <1>0, <1>13, <2>1 DEF WaveInv, RunInv, AtWork, Launches
    <3>2. \A n \in DOMAIN results : Grounded(n, DOMAIN results)
      BY <1>0, <2>1 DEF OrderInv
    <3> QED
      BY <1>0, <1>p, <3>1, <3>2, ReadyGrounded
  <2>2. /\ results' = results /\ run' = run /\ launched' = launched \cup DOMAIN wave
        /\ byHand' = byHand
    BY <1>13 DEF Launches
  <2>3. ASSUME ~byHand
        PROVE  /\ \A id \in DOMAIN results' \cup launched' : Grounded(id, DOMAIN results')
               /\ \A id \in DOMAIN run'.results : Grounded(id, DOMAIN run'.results)
    BY <1>0, <2>1, <2>2, <2>3 DEF OrderInv
  <2> QED
    BY <1>c, <2>2, <2>3 DEF OrderInv, Grounded, Origin
<1>14. ASSUME NEW id, Redoes(id)
       PROVE  OrderInv'
  <2>1. CASE byHand'
    BY <2>1 DEF OrderInv
  <2>2. CASE ~byHand'
    <3> DEFINE D == DescendantsOf(plan, id)
    <3>1. /\ ~byHand /\ id \in StepIds(plan)
          /\ results' = [d \in DOMAIN results \ D |-> results[d]]
          /\ launched' = launched \ D /\ run' = run /\ pc = "idle"
      BY <1>14, <2>2 DEF Redoes
    <3>2. D \in SUBSET StepIds(plan) /\ Carried(plan, D)
      BY <3>1, Descendants
    <3>3. Carried(compiled, D) /\ \A n \in StepIds(plan) : Origin(n) \in D => n \in D
      BY <1>0, <3>2 DEF PlanInv
    <3> HIDE DEF D
    <3>4. ASSUME NEW n \in (DOMAIN results \cup launched) \ D
          PROVE  Grounded(n, DOMAIN results \ D)
      <4>1. Grounded(n, DOMAIN results) /\ n \in StepIds(plan)
        BY <1>0, <3>1 DEF OrderInv, RunInv
      <4>2. Origin(n) \in (DOMAIN results \ D) \cup {n}
        BY <3>3, <4>1 DEF Grounded
      <4>3. \A s \in compiled : s.id = n => s.needs \subseteq DOMAIN results \ D
        BY <3>3, <3>4, <4>1 DEF Grounded, Carried
      <4> QED
        BY <4>2, <4>3 DEF Grounded
    <3>5. DOMAIN results' = DOMAIN results \ D
      BY <3>1
    <3>6. \A n \in DOMAIN results' \cup launched' : Grounded(n, DOMAIN results')
      BY <3>1, <3>4, <3>5
    <3>7. DOMAIN run'.results = {}
      BY <1>0, <3>1 DEF RunInv, AtWork, NoRun
    <3> QED
      BY <1>c, <3>6, <3>7 DEF OrderInv, Grounded, Origin
  <2> QED
    BY <2>1, <2>2
<1> QED
  BY <1>2, <1>3, <1>4, <1>5, <1>7, <1>8, <1>9, <1>11, <1>12, <1>13, <1>14 DEF Moves

\* Nothing waits for a failed step that was recovered.
LEMMA RecoveryKept ==
    ASSUME WavesInv, Moves
    PROVE  RecoveryInv'
<1>0. TypeOK /\ RunInv /\ WaveInv /\ CountInv /\ PlanInv /\ ResultInv /\ OrderInv /\ RecoveryInv
  BY DEF WavesInv
<1>t. replans \in Nat /\ MaxReplans \in Nat
  BY <1>0, WavesAssumption DEF TypeOK
<1>1. ASSUME plan' = plan, byHand => byHand', halfway => halfway',
             replans' < MaxReplans => replans < MaxReplans,
             replans < MaxReplans /\ ~byHand /\ ~halfway /\ ~byHand' /\ ~halfway' =>
               /\ \A f \in Lost(results') \cup Lost(run'.results) :
                    f \in StepIds(run'.todo) \/ ~Awaited(f)
               /\ \A f \in StepIds(run'.todo), s \in plan :
                    f.recovery = 0 /\ s.id.recovery = 0 /\ f \in s.needs => s \in run'.pending
      PROVE  RecoveryInv'
  BY <1>0, <1>1 DEF RecoveryInv, Awaited, Origin
<1>2. CASE Aside \/ Goes \/ Launches
  BY <1>0, <1>1, <1>2 DEF Aside, Goes, Launches, Keeps, RecoveryInv
<1>3. CASE Counts
  <2>1. replans' = replans + 1 /\ run' = run /\ UNCHANGED <<plan, results, byHand, halfway>>
    BY <1>3 DEF Counts
  <2>2. replans' < MaxReplans => replans < MaxReplans
    BY <1>t, <2>1
  <2> QED
    BY <1>0, <1>1, <2>1, <2>2 DEF RecoveryInv
<1>4. CASE Dropped
  <2>1. /\ run'.results = <<>> /\ run'.todo = {} /\ results' = results
        /\ UNCHANGED <<plan, byHand, replans>>
        /\ ~halfway' => ~halfway /\ StepIds(run.todo) \cap Failures(results) = {}
    BY <1>4 DEF Dropped, NoRun
  <2>2. Lost(run'.results) = {} /\ StepIds(run'.todo) = {}
    BY <2>1 DEF Lost, Failures, StepIds
  <2>3. Lost(results) \subseteq Failures(results)
    BY DEF Lost
  <2> QED
    BY <1>0, <1>1, <2>1, <2>2, <2>3 DEF RecoveryInv
<1>5. CASE Enters \/ Starts
  <2>1. Keeps /\ run.todo = {} /\ run'.todo = {}
    BY <1>0, <1>5 DEF Enters, Starts, WaveInv, NoRun
  <2>2. run'.results = <<>> \/ run'.results = results
    BY <1>0, <1>5 DEF Enters, Starts, RunInv, AtWork, NoRun
  <2>3. Lost(<<>>) = {} /\ StepIds({}) = {}
    BY DEF Lost, Failures, StepIds
  <2>4. Lost(run'.results) \subseteq Lost(results)
    BY <2>2, <2>3
  <2> QED
    BY <1>0, <1>1, <2>1, <2>3, <2>4 DEF RecoveryInv, Keeps
<1>6. ASSUME NEW skips, NEW f, Decides(skips, f)
      PROVE  RecoveryInv'
  <2>1. Keeps /\ run.todo = {} /\ run'.todo = {}
    BY <1>0, <1>6 DEF Decides, WaveInv
  <2>2. Lost(run'.results) \subseteq Lost(run.results)
    <3>1. run'.results = [id \in DOMAIN run.results \cup StepIds(skips) |->
                            IF id \in StepIds(skips)
                            THEN StepResult("completed", TRUE, f[id])
                            ELSE run.results[id]]
      BY <1>6 DEF Decides
    <3> QED
      BY <3>1 DEF Lost, Failures, StepResult
  <2>3. StepIds({}) = {}
    BY DEF StepIds
  <2> QED
    BY <1>0, <1>1, <2>1, <2>2, <2>3 DEF RecoveryInv, Keeps
<1>7. ASSUME NEW done, NEW failed, NEW g, Settles(done, failed, g)
      PROVE  RecoveryInv'
  <2>1. /\ Keeps /\ run.todo = {} /\ run.plan = plan /\ pc = "executing" /\ AtWork
        /\ run.pending \subseteq plan
    BY <1>0, <1>7 DEF Settles, WaveInv, RunInv, AtWork
  <2>2. /\ run'.pending = {s \in run.pending : s.id \notin done \cup failed}
        /\ run'.todo = {s \in run.pending : s.id \in failed /\ s.id.agent \notin Skipping}
        /\ done \cup failed \subseteq DOMAIN wave
    BY <1>7 DEF Settles
  <2>3. run'.results = [id \in DOMAIN run.results \cup (done \cup failed) |->
                          IF id \in done THEN StepResult("completed", FALSE, g[id])
                          ELSE IF id \in failed
                          THEN StepResult("failed", id.agent \in Skipping, g[id])
                          ELSE run.results[id]]
    BY <1>7 DEF Settles
  <2>4. \A id \in done \cup failed :
          \E p \in run.pending : p.id = id /\ p.needs \subseteq DOMAIN run.results
    BY <1>0, <2>1, <2>2 DEF WaveInv, ResultInv
  <2>5. \A f \in Lost(run'.results) : f \in Lost(run.results) \/ f \in StepIds(run'.todo)
    <3>1. ASSUME NEW f \in Lost(run'.results), f \notin failed
          PROVE  f \in Lost(run.results)
      BY <2>3, <3>1 DEF Lost, Failures, StepResult
    <3>2. ASSUME NEW f \in Lost(run'.results), f \in failed
          PROVE  f \in StepIds(run'.todo)
      <4>1. f \notin done /\ f.agent \notin Skipping
        <5>1. done \cap failed = {}
          BY <1>7 DEF Settles
        <5>2. f \notin done
          BY <3>2, <5>1
        <5>3. run'.results[f] = StepResult("failed", f.agent \in Skipping, g[f])
          BY <2>3, <3>2, <5>2
        <5>4. ~ run'.results[f].skipped
          BY <3>2 DEF Lost
        <5>5. run'.results[f].skipped = (f.agent \in Skipping)
          BY <5>3 DEF StepResult
        <5>6. f.agent \notin Skipping
          BY <5>4, <5>5, Zenon
        <5> QED
          BY <5>2, <5>6
      <4>2. PICK p \in run.pending : p.id = f
        BY <2>4, <3>2
      <4> QED
        BY <2>2, <3>2, <4>1, <4>2 DEF StepIds
    <3> QED
      BY <3>1, <3>2
  <2>6. ASSUME replans < MaxReplans, ~byHand, ~halfway,
               NEW f \in StepIds(run'.todo), NEW s \in plan,
               f.recovery = 0, s.id.recovery = 0, f \in s.needs
        PROVE  s \in run'.pending
    <3>1. f \in StepIds(run.pending)
      BY <2>2, <2>6 DEF StepIds
    <3>2. f \notin DOMAIN run.results
      <4>1. SUFFICES ASSUME f \in DOMAIN run.results PROVE FALSE
        OBVIOUS
      <4>2. f \in Lost(run.results)
        BY <1>0, <2>6, <3>1, <4>1 DEF ResultInv, Lost, Failures
      <4>3. f \notin StepIds(run.todo)
        BY <2>1 DEF StepIds
      <4>4. Awaited(f)
        BY <2>6 DEF Awaited
      <4> QED
        BY <1>0, <2>6, <4>2, <4>3, <4>4 DEF RecoveryInv
    <3>3. s.id \notin DOMAIN run.results
      <4>1. SUFFICES ASSUME s.id \in DOMAIN run.results PROVE FALSE
        OBVIOUS
      <4>2. Grounded(s.id, DOMAIN run.results)
        BY <1>0, <2>6, <4>1 DEF OrderInv
      <4>3. PICK t \in compiled : t.id = s.id
        <5>1. s.id \in StepIds(compiled)
          BY <1>0, <2>6 DEF PlanInv, StepIds
        <5> QED
          BY <5>1 DEF StepIds
      <4>4. f \in t.needs
        BY <1>0, <2>6, <4>3 DEF PlanInv
      <4> QED
        BY <3>2, <4>2, <4>3, <4>4 DEF Grounded
    <3>4. s \in run.pending
      BY <1>0, <2>1, <2>6, <3>3 DEF ResultInv
    <3>5. s.id \notin done \cup failed
      <4>1. SUFFICES ASSUME s.id \in done \cup failed PROVE FALSE
        OBVIOUS
      <4>2. PICK p \in run.pending : p.id = s.id /\ p.needs \subseteq DOMAIN run.results
        BY <2>4, <4>1
      <4>3. p = s
        BY <1>0, <2>1, <2>6, <4>2 DEF PlanInv
      <4> QED
        BY <2>6, <3>2, <4>2, <4>3
    <3> QED
      BY <2>2, <3>4, <3>5
  <2>7. /\ plan' = plan /\ results' = results /\ replans' = replans
        /\ UNCHANGED <<byHand, halfway>>
    BY <2>1 DEF Keeps
  <2>8. replans < MaxReplans /\ ~byHand /\ ~halfway =>
          \A f \in Lost(results') \cup Lost(run'.results) :
             f \in StepIds(run'.todo) \/ ~Awaited(f)
    <3>1. StepIds(run.todo) = {}
      BY <2>1 DEF StepIds
    <3> QED
      BY <1>0, <2>5, <2>7, <3>1 DEF RecoveryInv
  <2> QED
    BY <1>1, <2>6, <2>7, <2>8
<1>8. ASSUME NEW some, Forgoes(some)
      PROVE  RecoveryInv'
  <2>1. /\ Keeps /\ pc = "replan" /\ run'.results = run.results
        /\ run'.pending = run.pending /\ run'.todo = run.todo \ some
    BY <1>8 DEF Forgoes
  <2>2. run.generation = replans
    BY <1>0, <2>1 DEF CountInv
  <2>3. ASSUME replans < MaxReplans, ~byHand, ~halfway,
               NEW f \in Lost(results) \cup Lost(run.results), f \in StepIds(run.todo)
        PROVE  f \in StepIds(run'.todo) \/ ~Awaited(f)
    <3>1. CASE run.todo = {}
      BY <2>3, <3>1 DEF StepIds
    <3>2. ASSUME NEW s \in run.todo, some = {s}, \A d \in run.pending : s.id \notin d.needs
          PROVE  f \in StepIds(run'.todo) \/ ~Awaited(f)
      <4>1. CASE f = s.id
        <5>1. f.recovery = 0
          BY <2>3 DEF Lost
        <5>2. ASSUME NEW d \in plan, d.id.recovery = 0, f \in d.needs
              PROVE  FALSE
          <6>1. d \in run.pending
            BY <1>0, <2>3, <5>1, <5>2 DEF RecoveryInv
          <6> QED
            BY <3>2, <4>1, <5>2, <6>1
        <5> QED
          BY <5>2 DEF Awaited
      <4>2. CASE f # s.id
        BY <2>1, <2>3, <3>2, <4>2 DEF StepIds
      <4> QED
        BY <4>1, <4>2
    <3>3. ~(run.generation >= MaxReplans)
      BY <1>t, <2>2, <2>3
    <3> QED
      BY <1>8, <3>1, <3>2, <3>3 DEF Forgoes
  <2>4. StepIds(run'.todo) \subseteq StepIds(run.todo)
    BY <2>1 DEF StepIds
  <2>5. /\ plan' = plan /\ results' = results /\ replans' = replans
        /\ UNCHANGED <<byHand, halfway>>
    BY <2>1 DEF Keeps
  <2>6. replans < MaxReplans /\ ~byHand /\ ~halfway =>
          /\ \A f \in Lost(results') \cup Lost(run'.results) :
               f \in StepIds(run'.todo) \/ ~Awaited(f)
          /\ \A f \in StepIds(run'.todo), s \in plan :
               f.recovery = 0 /\ s.id.recovery = 0 /\ f \in s.needs => s \in run'.pending
    BY <1>0, <2>1, <2>3, <2>4, <2>5 DEF RecoveryInv
  <2> QED
    BY <1>1, <2>5, <2>6
<1>9. ASSUME NEW s, Inserts(s), ~byHand', ~halfway'
      PROVE  /\ \A id \in StepIds(plan') : id.recovery # 0 =>
                  ~ \E t \in plan' : t.id.recovery = 0 /\ Origin(id) \in t.needs
             /\ replans' < MaxReplans =>
                  /\ \A f \in Lost(results') \cup Lost(run'.results) :
                       \/ f \in StepIds(run'.todo)
                       \/ ~ \E t \in plan' : t.id.recovery = 0 /\ f \in t.needs
                  /\ \A f \in StepIds(run'.todo), t \in plan' :
                       f.recovery = 0 /\ t.id.recovery = 0 /\ f \in t.needs =>
                           t \in run'.pending
  <2> DEFINE rec == Recovery(s)
  <2>1. /\ pc = "replan" /\ s \in run.todo /\ run.generation < MaxReplans
        /\ run'.todo = run.todo \ {s} /\ results' = run.results /\ run'.results = run.results
        /\ replans' = replans /\ byHand' = byHand /\ halfway' = halfway
    BY <1>9 DEF Inserts
  <2>2. ~byHand /\ ~halfway
    BY <1>9, <2>1
  <2>3. s.id \in StepIds(plan) /\ s.id \in StepId /\ StepIds(plan') = StepIds(plan) \cup {rec.id}
    BY <1>9, InsertedPlan
  <2>4. rec.id.recovery # 0 /\ Origin(rec.id) = Origin(s.id) /\ replans < MaxReplans
    BY <1>0, <2>1, <2>3, RecoveryStep
  <2>5. \A f \in StepIds(run.todo), d \in plan :
          f.recovery = 0 /\ d.id.recovery = 0 /\ f \in d.needs => d \in run.pending
    BY <1>0, <2>2, <2>4 DEF RecoveryInv
  <2> HIDE DEF rec
  <2>6. ASSUME NEW t \in plan', t.id.recovery = 0, NEW f \in t.needs, f.recovery = 0
        PROVE  /\ f # s.id
               /\ \E d \in plan : d.id.recovery = 0 /\ f \in d.needs /\ t = Rewired(s, d)
    <3>1. PICK d \in plan : t = Rewired(s, d)
      BY <1>9, <2>4, <2>6, InsertedPlan DEF rec
    <3>2. /\ d.id = t.id /\ f \in d.needs
          /\ s.id \in d.needs /\ d \in run.pending => f # s.id
      BY <1>0, <2>4, <2>6, <3>1, PlanTyped, RewiredStep DEF rec
    <3>3. f # s.id
      <4>1. SUFFICES ASSUME f = s.id PROVE FALSE
        OBVIOUS
      <4>2. s.id \in StepIds(run.todo)
        BY <2>1 DEF StepIds
      <4>3. d \in run.pending
        BY <2>5, <2>6, <3>2, <4>1, <4>2
      <4> QED
        BY <3>2, <4>1, <4>3
    <3> QED
      BY <2>6, <3>1, <3>2, <3>3
  <2>7. ASSUME NEW id \in StepIds(plan'), id.recovery # 0,
               NEW t \in plan', t.id.recovery = 0, Origin(id) \in t.needs
        PROVE  FALSE
    <3>1. id \in StepId
      <4>1. rec.id \in StepId
        BY <1>0, <2>1, <2>3, RecoveryStep DEF rec
      <4>2. \A x \in StepIds(plan) : x \in StepId
        BY <1>0, PlanTyped DEF StepIds
      <4> QED
        BY <2>3, <4>1, <4>2
    <3>2. Origin(id).recovery = 0
      BY <3>1, Origins
    <3>3. Origin(id) # s.id /\ Awaited(Origin(id))
      BY <2>6, <2>7, <3>2 DEF Awaited
    <3>4. \A x \in StepIds(plan) : x.recovery # 0 => ~Awaited(Origin(x))
      BY <1>0, <2>2 DEF RecoveryInv
    <3>5. CASE id \in StepIds(plan)
      BY <2>7, <3>3, <3>4, <3>5
    <3>6. CASE id = rec.id
      <4>1. s.id.recovery # 0
        BY <2>3, <2>4, <3>3, <3>6, Origins
      <4> QED
        BY <2>3, <2>4, <3>3, <3>4, <3>6, <4>1
    <3> QED
      BY <2>3, <3>5, <3>6
  <2>8. ASSUME NEW f \in Lost(run.results), f \notin StepIds(run'.todo),
               NEW t \in plan', t.id.recovery = 0, f \in t.needs
        PROVE  FALSE
    <3>1. f.recovery = 0
      BY <2>8 DEF Lost
    <3>2. f # s.id /\ Awaited(f)
      BY <2>6, <2>8, <3>1 DEF Awaited
    <3>3. f \notin StepIds(run.todo)
      BY <2>1, <2>8, <3>2 DEF StepIds
    <3> QED
      BY <1>0, <2>2, <2>4, <2>8, <3>2, <3>3 DEF RecoveryInv
  <2>9. ASSUME NEW f \in StepIds(run'.todo), NEW t \in plan',
               f.recovery = 0, t.id.recovery = 0, f \in t.needs
        PROVE  t \in run'.pending
    <3>1. PICK d \in plan : d.id.recovery = 0 /\ f \in d.needs /\ t = Rewired(s, d)
      BY <2>6, <2>9
    <3>2. f \in StepIds(run.todo)
      BY <2>1, <2>9 DEF StepIds
    <3>3. d \in run.pending
      BY <2>5, <2>9, <3>1, <3>2
    <3> QED
      BY <1>9, <3>1, <3>3, InsertedPlan
  <2> QED
    BY <2>1, <2>7, <2>8, <2>9
<1>10. ASSUME NEW s, Inserts(s)
       PROVE  RecoveryInv'
  BY <1>9, <1>10 DEF RecoveryInv, Awaited, Origin
<1>11. CASE Writes
  <2>1. /\ results' = run.results /\ run' = run
        /\ UNCHANGED <<plan, byHand, halfway, replans>>
    BY <1>11 DEF Writes
  <2> QED
    BY <1>0, <1>1, <2>1 DEF RecoveryInv
<1>12. ASSUME NEW id, Redoes(id)
       PROVE  RecoveryInv'
  <2>1. CASE byHand'
    BY <2>1 DEF RecoveryInv
  <2>2. CASE ~byHand'
    <3>1. /\ results' = [d \in DOMAIN results \ DescendantsOf(plan, id) |-> results[d]]
          /\ run' = run /\ UNCHANGED <<plan, replans, halfway>> /\ byHand' = byHand
      BY <1>12, <2>2 DEF Redoes
    <3>2. Lost(results') \subseteq Lost(results)
      BY <3>1 DEF Lost, Failures
    <3> QED
      BY <1>0, <1>1, <3>1, <3>2 DEF RecoveryInv
  <2> QED
    BY <2>1, <2>2
<1> QED
  BY <1>2, <1>3, <1>4, <1>5, <1>6, <1>7, <1>8, <1>10, <1>11, <1>12 DEF Moves

\* The rest of the types, action by action.
LEMMA ControlTyped ==
    ASSUME WavesInv, [Next]_vars, StepIds(plan) \subseteq StepIds(plan')
    PROVE  /\ status' \in Status /\ pc' \in PC
           /\ node' \in {NoNode} \cup [kind : {"pause", "paused", "resume", "resumed"},
                                       id : StepIds(plan'), status : Status]
           /\ approvals' \cup paused' \subseteq StepIds(plan')
           /\ \A id \in DOMAIN wave' : wave'[id] \in StepState
<1> DEFINE NodeTyped(n) ==
             n \in {NoNode} \cup [kind : {"pause", "paused", "resume", "resumed"},
                                  id : StepIds(plan'), status : Status]
           Typed ==
             /\ status' \in Status /\ pc' \in PC /\ NodeTyped(node')
             /\ approvals' \cup paused' \subseteq StepIds(plan')
             /\ \A id \in DOMAIN wave' : wave'[id] \in StepState
<1>0. TypeOK /\ WaveInv
  BY DEF WavesInv
<1>1. /\ status \in Status /\ pc \in PC
      /\ approvals \cup paused \cup DOMAIN wave \subseteq StepIds(plan')
      /\ \A id \in DOMAIN wave : wave[id] \in StepState
  BY <1>0 DEF TypeOK
<1>2. NodeTyped(node)
  BY <1>0 DEF TypeOK
<1>3. \A id \in DOMAIN <<>> : <<>>[id] \in StepState
  OBVIOUS
<1>s. /\ {"queued", "running", "paused", "waiting", "failed", "done"} \subseteq Status
      /\ {"idle", "begin", "start", "check", "select", "skips", "launch", "executing",
          "replan", "emit", "checkpoint", "rest"} = PC
      /\ {"runs", "stopping", "interrupted", "asks", "unknown", "failed", "true", "false"}
           = StepState
  BY DEF Status, Resting, PC, StepState
<1> HIDE DEF NodeTyped
<1>4. ASSUME RunStep
      PROVE  Typed
  <2>1. UNCHANGED <<node, approvals, paused>>
    BY <1>4 DEF RunStep, Claim, Begin, Start, Check, Select, SaveSkips, Launch,
       StepCompletes, StepStops, Ends, Settle, Replan, EmitReplanned, Checkpoint, Rest, rowVars
  <2>2. status' \in Status
    BY <1>1, <1>4, <1>s DEF RunStep, Claim, Begin, Start, Check, Select, SaveSkips, Launch,
       StepCompletes, StepStops, Ends, Settle, Replan, EmitReplanned, Checkpoint, Rest, Fail,
       rowVars
  <2>3. pc' \in PC
    <3>1. CASE Select
      BY <1>s, <3>1, SelectCases DEF WavesInv, Dropped, Decides
    <3>2. CASE Replan
      BY <1>1, <1>s, <3>2 DEF Replan
    <3> QED
      BY <1>1, <1>4, <1>s, <3>1, <3>2 DEF RunStep, Claim, Begin, Start, Check, SaveSkips,
         Launch, StepCompletes, StepStops, Ends, Settle, EmitReplanned, Checkpoint, Rest, Fail,
         Return
  <2>4. \A id \in DOMAIN wave' : wave'[id] \in StepState
    <3>1. CASE wave' = wave
      BY <1>1, <3>1
    <3>2. CASE wave' = <<>>
      BY <3>2
    <3>3. CASE Select
      <4>1. CASE \E skips, f : Decides(skips, f)
        <5>1. wave' = wave \/ \E b : wave' = [id \in StepIds(b) |-> "runs"]
          BY <4>1 DEF Decides
        <5> QED
          BY <1>1, <1>s, <5>1
      <4> QED
        BY <3>2, <3>3, <4>1, SelectCases DEF WavesInv, Dropped
    <3>4. ASSUME NEW id \in DOMAIN wave, StepCompletes(id) \/ StepStops(id)
          PROVE  \A n \in DOMAIN wave' : wave'[n] \in StepState
      <4>1. \E state \in StepState : wave' = [wave EXCEPT ![id] = state]
        BY <1>s, <3>4 DEF StepCompletes, StepStops, Ends
      <4> QED
        BY <1>1, <4>1
    <3>5. CASE Claim \/ Begin \/ Start \/ Check \/ SaveSkips \/ Launch \/ Settle \/ Replan
               \/ EmitReplanned \/ Checkpoint \/ Rest
      BY <3>1, <3>2, <3>5 DEF Claim, Begin, Start, Check, SaveSkips, Launch,
         Settle, Replan, EmitReplanned, Checkpoint, Rest, Fail, Return
    <3> QED
      BY <1>4, <3>3, <3>4, <3>5 DEF RunStep
  <2> QED
    BY <1>1, <1>2, <2>1, <2>2, <2>3, <2>4
<1>5. ASSUME NodeStep
      PROVE  Typed
  <2>1. node \in [kind : {"pause", "paused", "resume", "resumed"},
                  id : StepIds(plan'), status : Status]
    BY <1>2, <1>5 DEF NodeTyped, NoNode, NodeStep, PauseAppend, PauseWrite, ResumeWrite,
       ResumeAppend
  <2>2. \A k \in {"pause", "paused", "resume", "resumed"} : NodeTyped([node EXCEPT !.kind = k])
    BY <2>1 DEF NodeTyped
  <2>3. NodeTyped(NoNode) /\ node.id \in StepIds(plan')
    BY <2>1 DEF NodeTyped
  <2>4. CASE PauseAppend
    <3>1. \A id \in DOMAIN wave' : wave'[id] \in StepState
      <4>1. wave' = wave \/ (node.id \in DOMAIN wave /\ wave' = [wave EXCEPT ![node.id] = "stopping"])
        BY <2>4 DEF PauseAppend
      <4> QED
        BY <1>1, <1>s, <4>1
    <3>2. NodeTyped(node')
      BY <2>2, <2>3, <2>4 DEF PauseAppend
    <3> QED
      BY <1>1, <2>3, <2>4, <3>1, <3>2 DEF PauseAppend
  <2>5. CASE PauseWrite
    BY <1>1, <1>s, <2>3, <2>5 DEF PauseWrite, runVars
  <2>6. CASE ResumeWrite
    <3>1. NodeTyped(node')
      BY <2>2, <2>6 DEF ResumeWrite
    <3> QED
      BY <1>1, <1>s, <2>6, <3>1 DEF ResumeWrite, runVars
  <2>7. CASE ResumeAppend
    BY <1>1, <2>3, <2>7 DEF ResumeAppend, runVars
  <2> QED
    BY <1>5, <2>4, <2>5, <2>6, <2>7 DEF NodeStep
<1>6. ASSUME Crash
      PROVE  Typed
  BY <1>1, <1>2, <1>3, <1>6, <1>s DEF Crash, Return, rowVars
<1>7. ASSUME NEW id \in DOMAIN wave, StepFails(id) \/ StepAsks(id)
      PROVE  Typed
  <2>1. \E state \in StepState : wave' = [wave EXCEPT ![id] = state]
    BY <1>7, <1>s DEF StepFails, StepAsks, Ends
  <2>2. \A n \in DOMAIN wave' : wave'[n] \in StepState
    BY <1>1, <2>1
  <2>3. UNCHANGED <<node, paused, pc>> /\ status' \in {status, "waiting"}
        /\ approvals' \subseteq approvals \cup {id}
    BY <1>7 DEF StepFails, StepAsks, Ends
  <2> QED
    BY <1>1, <1>2, <1>7, <1>s, <2>2, <2>3
<1>8. ASSUME NEW id \in StepIds(plan), NEW kind \in {"pause", "resume"}, NodeRead(kind, id)
      PROVE  Typed
  <2>1. node' = [kind |-> kind, id |-> id, status |-> status]
    BY <1>8 DEF NodeRead
  <2>2. NodeTyped(node')
    BY <1>1, <2>1 DEF NodeTyped
  <2> QED
    BY <1>1, <1>8, <2>2 DEF NodeRead, rowVars, runVars
<1>9. ASSUME NEW id \in StepIds(plan), ControlNode(id)
      PROVE  Typed
  BY <1>1, <1>2, <1>9, <1>s DEF ControlNode, runVars
<1>10. ASSUME ResumeTask \/ \E id \in approvals : ApproveTool(id)
       PROVE  Typed
  BY <1>1, <1>2, <1>10, <1>s DEF ResumeTask, ApproveTool, runVars
<1>11. ASSUME UNCHANGED vars
       PROVE  Typed
  BY <1>1, <1>2, <1>11 DEF vars, rowVars, runVars
<1> QED
  BY <1>4, <1>5, <1>6, <1>7, <1>8, <1>9, <1>10, <1>11 DEF Next, NodeTyped

\* No step takes a variable out of its type.
LEMMA TypeKept ==
    ASSUME WavesInv, Moves, [Next]_vars
    PROVE  TypeOK'
<1>0. TypeOK /\ RunInv /\ WaveInv /\ CountInv
  BY DEF WavesInv
<1>c. compiled' = compiled /\ canvas' = canvas
  BY DEF Moves, Aside, Dropped, Enters, Starts, Goes, Decides, Settles, Forgoes, Inserts,
         Writes, Launches, Counts, Redoes, Keeps
<1>p. StepIds(plan) \subseteq StepIds(plan')
  BY StepIdsKept
<1> DEFINE Steps0(P) == [id : StepId, needs : SUBSET StepIds(P),
                         asks : UNION {SUBSET s.asks : s \in compiled}]
           old == plan \cup run.pending \cup run.plan \cup run.todo
           new == plan' \cup run'.pending \cup run'.plan \cup run'.todo
<1>1. new \subseteq Steps0(plan')
  <2>1. old \subseteq Steps0(plan)
    BY <1>0 DEF TypeOK
  <2>2. old \subseteq Steps0(plan')
    BY <1>p, <2>1
  <2>3. CASE \E s : Inserts(s)
    <3>1. PICK s : Inserts(s)
      BY <2>3
    <3>2. s.id \in StepId /\ s.id \in StepIds(plan')
      BY <1>p, <3>1, InsertedPlan
    <3>3. compiled # {}
      BY <3>2 DEF StepId
    <3>4. {} \in UNION {SUBSET s1.asks : s1 \in compiled}
      BY <3>3
    <3>5. Recovery(s) \in Steps0(plan')
      <4>1. Recovery(s) = [id |-> Recovery(s).id, needs |-> {s.id}, asks |-> {}]
            /\ Recovery(s).id \in StepId
        BY <1>0, <3>1, <3>2, RecoveryStep DEF Inserts
      <4> QED
        BY <3>2, <3>4, <4>1
    <3>6. ASSUME NEW d \in plan
          PROVE  Rewired(s, d) \in Steps0(plan')
      <4>1. d \in Steps0(plan')
        BY <2>2
      <4>2. Recovery(s).id \in StepIds(plan')
        BY <3>1, InsertedPlan
      <4>3. /\ Rewired(s, d) = [id |-> d.id, needs |-> Rewired(s, d).needs, asks |-> d.asks]
            /\ Rewired(s, d).needs \subseteq d.needs \cup {Recovery(s).id}
        BY <4>1, RewiredStep
      <4>4. Rewired(s, d).needs \subseteq StepIds(plan')
        BY <4>1, <4>2, <4>3
      <4> QED
        BY <4>1, <4>3, <4>4
    <3>7. \A t \in plan' : t \in Steps0(plan')
      BY <3>1, <3>5, <3>6, InsertedPlan
    <3>8. run'.plan = plan' /\ run'.todo \subseteq run.todo /\ run'.pending \subseteq plan'
      BY <3>1, InsertedPlan DEF Inserts
    <3> HIDE DEF Steps0
    <3> QED
      BY <2>2, <3>7, <3>8
  <2>4. CASE ~ \E s : Inserts(s)
    <3>1. plan' = plan
      BY <2>4, PlanChanges
    <3>2. run'.plan \cup run'.pending \cup run'.todo \subseteq old
      <4>1. CASE run' = run \/ run' = NoRun \/ run' = [NoRun EXCEPT !.generation = replans]
        BY <4>1 DEF NoRun
      <4>2. CASE Starts
        BY <4>2 DEF Starts
      <4>3. CASE \E skips, f : Decides(skips, f)
        BY <4>3 DEF Decides
      <4>4. ASSUME NEW done, NEW failed, NEW f, Settles(done, failed, f)
            PROVE  run'.plan \cup run'.pending \cup run'.todo \subseteq old
        BY <4>4 DEF Settles
      <4>5. CASE \E some : Forgoes(some)
        BY <4>5 DEF Forgoes
      <4> QED
        BY <2>4, <4>1, <4>2, <4>3, <4>4, <4>5
           DEF Moves, Aside, Dropped, Enters, Goes, Writes, Launches, Counts, Redoes
    <3> HIDE DEF Steps0
    <3> QED
      BY <2>2, <3>1, <3>2
  <2> QED
    BY <2>3, <2>4
<1> DEFINE AreResults(r) == \A id \in DOMAIN r : r[id] \in Result
<1>2. AreResults(results') /\ AreResults(run'.results)
  <2>1. AreResults(results) /\ AreResults(run.results) /\ AreResults(<<>>)
    BY <1>0 DEF TypeOK
  <2>2. ASSUME NEW skips, NEW f, Decides(skips, f)
        PROVE  AreResults(run'.results) /\ results' = results
    <3>1. /\ f \in [StepIds(skips) -> BOOLEAN] /\ Keeps
          /\ run'.results = [id \in DOMAIN run.results \cup StepIds(skips) |->
                               IF id \in StepIds(skips)
                               THEN StepResult("completed", TRUE, f[id])
                               ELSE run.results[id]]
      BY <2>2 DEF Decides
    <3>2. \A id \in StepIds(skips) : StepResult("completed", TRUE, f[id]) \in Result
      BY <3>1 DEF StepResult, Result
    <3> QED
      BY <2>1, <3>1, <3>2 DEF Keeps
  <2>3. ASSUME NEW done, NEW failed, NEW f, Settles(done, failed, f)
        PROVE  AreResults(run'.results) /\ results' = results
    <3>1. f \in [done \cup failed -> BOOLEAN] /\ Keeps
      BY <2>3 DEF Settles
    <3>2. run'.results = [id \in DOMAIN run.results \cup (done \cup failed) |->
                            IF id \in done THEN StepResult("completed", FALSE, f[id])
                            ELSE IF id \in failed
                            THEN StepResult("failed", id.agent \in Skipping, f[id])
                            ELSE run.results[id]]
      BY <2>3 DEF Settles
    <3>3. \A id \in done \cup failed, b \in BOOLEAN :
            StepResult("completed", FALSE, f[id]) \in Result
            /\ StepResult("failed", b, f[id]) \in Result
      BY <3>1 DEF StepResult, Result
    <3>4. \A id : (id.agent \in Skipping) \in BOOLEAN
      OBVIOUS
    <3> HIDE DEF AreResults
    <3>5. \A id \in DOMAIN run.results : run.results[id] \in Result
      BY <2>1 DEF AreResults
    <3>6. \A id \in done \cup failed : StepResult("failed", id.agent \in Skipping, f[id]) \in Result
      BY <3>3, <3>4
    <3>7. \A id \in DOMAIN run'.results : run'.results[id] \in Result
      BY <3>2, <3>3, <3>5, <3>6
    <3> QED
      BY <3>1, <3>7 DEF AreResults, Keeps
  <2>4. ASSUME NEW id, Redoes(id)
        PROVE  AreResults(results') /\ run' = run
    BY <2>1, <2>4 DEF Redoes
  <2> HIDE DEF AreResults
  <2>5. CASE Aside \/ Goes \/ Launches \/ Counts
    BY <2>1, <2>5 DEF Aside, Goes, Launches, Counts, Keeps
  <2>6. CASE Dropped
    BY <2>1, <2>6 DEF Dropped, NoRun
  <2>7. CASE Enters
    BY <2>1, <2>7 DEF Enters, Keeps, NoRun
  <2>8. CASE Starts
    BY <2>1, <2>8 DEF Starts, Keeps
  <2>9. CASE Writes
    BY <2>1, <2>9 DEF Writes
  <2>10. ASSUME NEW some, Forgoes(some)
         PROVE  AreResults(results') /\ AreResults(run'.results)
    BY <2>1, <2>10 DEF Forgoes, Keeps
  <2>11. ASSUME NEW s, Inserts(s)
         PROVE  AreResults(results') /\ AreResults(run'.results)
    BY <2>1, <2>11 DEF Inserts
  <2> QED
    BY <2>1, <2>2, <2>3, <2>4, <2>5, <2>6, <2>7, <2>8, <2>9, <2>10, <2>11 DEF Moves
<1>3. replans' \in 0 .. MaxReplans
  <2>1. replans' \in Nat
    <3>1. replans' = replans \/ replans' = replans + 1
      BY DEF Moves, Aside, Dropped, Enters, Starts, Goes, Decides, Settles, Forgoes,
             Inserts, Writes, Launches, Counts, Redoes, Keeps
    <3> QED
      BY <1>0, <3>1, WavesAssumption DEF TypeOK
  <2>2. CountInv'
    BY CountKept
  <2>3. replans' <= MaxReplans
    <3>1. (IF pc' = "emit" THEN replans' + 1 ELSE replans') <= MaxReplans
      BY <2>2 DEF CountInv
    <3>2. MaxReplans \in Nat
      BY WavesAssumption
    <3>3. CASE pc' = "emit"
      <4>1. replans' + 1 <= MaxReplans
        BY <3>1, <3>3
      <4>2. \A m, n \in Nat : m + 1 <= n => m <= n
        OBVIOUS
      <4> QED
        BY <2>1, <3>2, <4>1, <4>2, Zenon
    <3>4. CASE pc' # "emit"
      BY <3>1, <3>4
    <3> QED
      BY <3>3, <3>4
  <2> QED
    BY <2>1, <2>3, WavesAssumption
<1>4. DOMAIN wave' \subseteq StepIds(plan')
  <2>1. CASE pc' \in {"launch", "executing"}
    <3>1. WaveInv' /\ RunInv'
      BY WaveKept, RunKept
    <3> QED
      BY <2>1, <3>1 DEF WaveInv, RunInv, AtWork, StepIds
  <2>2. CASE pc' \notin {"launch", "executing"}
    <3>1. wave' = <<>>
      BY <2>2, WaveKept DEF WaveInv
    <3> QED
      BY <3>1
  <2> QED
    BY <2>1, <2>2
<1>5. new \subseteq [id : [agent : Agents, round : {s.id.round : s \in compiled'},
                           recovery : 0 .. MaxReplans],
                     needs : SUBSET StepIds(plan'),
                     asks : UNION {SUBSET s.asks : s \in compiled'}]
  BY <1>1, <1>c DEF StepId
<1>6. \A r \in {results', run'.results} : \A id \in DOMAIN r : r[id] \in Result
  BY <1>2
<1>7. /\ status' \in Status /\ pc' \in PC
      /\ node' \in {NoNode} \cup [kind : {"pause", "paused", "resume", "resumed"},
                                  id : StepIds(plan'), status : Status]
      /\ approvals' \cup paused' \subseteq StepIds(plan')
      /\ \A id \in DOMAIN wave' : wave'[id] \in StepState
  BY <1>p, ControlTyped
<1>8. canvas' \in Canvases
  BY <1>0, <1>c DEF TypeOK
<1> QED
  BY <1>3, <1>4, <1>5, <1>6, <1>7, <1>8 DEF TypeOK, StepId

\* The invariant holds of a canvas that has just been compiled.
LEMMA Beginning ==
    ASSUME Init
    PROVE  WavesInv
<1>1. /\ canvas \in Canvases /\ IsCanvas(canvas) /\ canvas.agent \subseteq Agents
      /\ compiled = plan /\ results = <<>> /\ approvals = {} /\ paused = {} /\ replans = 0
      /\ pc = "idle" /\ run = NoRun /\ wave = <<>> /\ node = NoNode
      /\ launched = {} /\ shaken = {} /\ status \in {"queued", "refused"}
  BY WavesAssumption DEF Init
<1>2. (plan = Steps(canvas) /\ Compiles(canvas)) \/ plan = {}
  BY DEF Init
<1>3. \A s \in plan : /\ s = [id |-> s.id, needs |-> s.needs, asks |-> s.asks]
                      /\ s.id = [agent |-> s.id.agent, round |-> s.id.round, recovery |-> 0]
                      /\ s.id.agent \in Agents
                      /\ s.needs = Needs(canvas, s.id) /\ s.asks = Asks(canvas, s.id)
  BY <1>1, <1>2 DEF Steps, Ids
<1>4. Analyzes(plan)
  <2>1. CASE plan = {}
    BY <2>1 DEF Analyzes
  <2> QED
    BY <1>1, <1>2, <2>1, CompiledPlansExecute
<1>5. \A s \in plan : s.needs \subseteq StepIds(plan) /\ s.id \in StepIds(plan)
  BY <1>4 DEF Analyzes, StepIds
<1>6. \A id \in StepIds(plan) : id.recovery = 0 /\ Origin(id) = id
  <2>1. ASSUME NEW s \in plan
        PROVE  s.id.recovery = 0 /\ Origin(s.id) = s.id
    <3>1. s.id = [agent |-> s.id.agent, round |-> s.id.round, recovery |-> 0]
      BY <1>3
    <3> QED
      BY <3>1 DEF Origin
  <2> QED
    BY <2>1 DEF StepIds
<1>7. TypeOK
  <2>1. 0 \in 0 .. MaxReplans
    BY WavesAssumption
  <2>2. \A s \in plan : s.id \in StepId
    <3>1. ASSUME NEW s \in plan
          PROVE  s.id \in StepId
      <4>1. s.id.agent \in Agents /\ s.id.round \in {t.id.round : t \in compiled}
        BY <1>1, <1>3
      <4>2. s.id = [agent |-> s.id.agent, round |-> s.id.round, recovery |-> 0]
        BY <1>3
      <4> QED
        BY <2>1, <4>1, <4>2 DEF StepId
    <3> QED
      BY <3>1
  <2>3. \A s \in plan : s \in [id : StepId, needs : SUBSET StepIds(plan),
                               asks : UNION {SUBSET t.asks : t \in compiled}]
    <3>1. ASSUME NEW s \in plan
          PROVE  s \in [id : StepId, needs : SUBSET StepIds(plan),
                        asks : UNION {SUBSET t.asks : t \in compiled}]
      <4>1. s.asks \in UNION {SUBSET t.asks : t \in compiled}
        BY <1>1
      <4>2. s = [id |-> s.id, needs |-> s.needs, asks |-> s.asks]
        BY <1>3
      <4> QED
        BY <1>5, <2>2, <4>1, <4>2
    <3> QED
      BY <3>1
  <2> QED
    BY <1>1, <2>1, <2>3 DEF TypeOK, NoRun, Status, Resting, PC
<1>8. RunInv /\ WaveInv
  BY <1>1 DEF RunInv, WaveInv, NoRun, AtWork, StepIds
<1>9. CountInv
  BY <1>1, <1>4, <1>6, WavesAssumption DEF CountInv, NoRun
<1>10. PlanInv
  <2>1. \A s \in plan : s.id.recovery = 0 /\ \A n \in s.needs : Origin(n) = n
    BY <1>5, <1>6
  <2>2. \A s, t \in plan : s.id = t.id => s = t
    BY <1>4 DEF Analyzes
  <2>3. ASSUME NEW s \in plan, NEW t \in compiled, t.id = s.id
        PROVE  /\ s.asks = t.asks
               /\ {n \in s.needs : n.recovery = 0} \subseteq t.needs
               /\ t.needs \subseteq {Origin(n) : n \in s.needs}
    <3>1. t = s
      BY <1>1, <2>2, <2>3
    <3> QED
      BY <2>1, <3>1
  <2> QED
    BY <1>1, <1>4, <1>6, <2>1, <2>2, <2>3 DEF PlanInv
<1>11. ResultInv
  BY <1>1 DEF ResultInv, NoRun, AtWork, StepIds, Failures
<1>12. BranchInv
  <2>1. ASSUME NEW s \in plan, NEW a \in s.asks
        PROVE  a.source.recovery = 0 /\ a.source \in s.needs
    <3> DEFINE given == {f \in Into(canvas, s.id.agent) \cap DOMAIN canvas.branch : f[1] # Input}
    <3>0. a \in Asks(canvas, s.id)
      BY <1>3, <2>1
    <3>a. PICK e \in given :
            a \in {[source |-> y, wants |-> canvas.branch[e]] : y \in Before(canvas, s.id, e[1])}
      BY <3>0 DEF Asks
    <3>1. PICK x \in Before(canvas, s.id, e[1]) : a = [source |-> x, wants |-> canvas.branch[e]]
      BY <3>a
    <3>2. a.source = x /\ x \in Needs(canvas, s.id)
      BY <3>1 DEF Needs
    <3>3. x.recovery = 0
      BY <3>1 DEF Before, Ids
    <3> QED
      BY <1>3, <3>2, <3>3
  <2> QED
    BY <1>1, <2>1 DEF BranchInv
<1>13. OrderInv
  BY <1>1 DEF OrderInv, NoRun
<1>14. RecoveryInv
  BY <1>1, <1>6 DEF RecoveryInv, Lost, Failures, NoRun, StepIds
<1> QED
  BY <1>7, <1>8, <1>9, <1>10, <1>11, <1>12, <1>13, <1>14 DEF WavesInv

\* What the execution keeps, whatever the canvas: the types, the plan of the run
\* and of the row, the count of recoveries, what a plan keeps of the compiled
\* steps, what results stand for, and what branches, rounds and recoveries wait for.
THEOREM WavesCorrect == Spec => []WavesInv
<1>1. Init => WavesInv
  BY Beginning
<1>2. WavesInv /\ [Next]_vars => WavesInv'
  <2> SUFFICES ASSUME WavesInv, [Next]_vars
               PROVE  WavesInv'
    OBVIOUS
  <2>1. Moves
    BY StepMoves
  <2> QED
    BY <2>1, TypeKept, RunKept, WaveKept, CountKept, PlanKept, ResultKept, BranchKept,
       OrderKept, RecoveryKept DEF WavesInv
<1> QED
  BY <1>1, <1>2, PTL DEF Spec

\* The row always has a plan that can be executed, as long as no crash kept a
\* recovery from being counted.
THEOREM PlansStayExecutable == Spec => []PlanStaysExecutable
<1>1. WavesInv => PlanStaysExecutable
  BY DEF WavesInv, CountInv, PlanStaysExecutable
<1> QED
  BY <1>1, WavesCorrect, PTL

\* Of two steps that want opposite answers one at most is begun.
THEOREM BranchesAreExclusive == Spec => []BranchesExclude
<1>1. WavesInv => BranchesExclude
  <2> SUFFICES ASSUME WavesInv, NEW s \in plan, NEW t \in plan,
                      NEW a \in s.asks, NEW b \in t.asks,
                      a.source = b.source, a.wants # b.wants, a.source \notin shaken,
                      s.id \in launched, t.id \in launched
               PROVE  FALSE
    BY DEF BranchesExclude
  <2> QED
    BY DEF WavesInv, BranchInv
<1> QED
  BY <1>1, WavesCorrect, PTL

\* What waits for a failed step that was recovered is executed after a recovery.
THEOREM RecoveriesComeFirst == Spec => []RecoveryComesFirst
<1>1. WavesInv => RecoveryComesFirst
  <2> SUFFICES ASSUME WavesInv, pc = "executing", ~byHand, ~halfway,
                      NEW s \in compiled, s.id \in DOMAIN wave, NEW f \in s.needs,
                      NEW r \in StepIds(plan) \ {f}, [r EXCEPT !.recovery = 0] = f
               PROVE  {q \in StepIds(plan) \ {f} : [q EXCEPT !.recovery = 0] = f}
                        \cap DOMAIN results # {}
    BY DEF RecoveryComesFirst
  <2>0. TypeOK /\ RunInv /\ WaveInv /\ PlanInv /\ RecoveryInv
    BY DEF WavesInv
  <2>1. PICK p \in plan : p.id = s.id /\ p.needs \subseteq DOMAIN results
    BY <2>0 DEF WaveInv, RunInv, AtWork
  <2>2. p.id.recovery = 0
    BY <2>0, <2>1 DEF PlanInv
  <2>3. r \in StepId /\ Origin(r) = f /\ r.recovery # 0
    <3>1. r \in StepId
      BY <2>0, PlanTyped DEF StepIds
    <3> QED
      BY <3>1, Origins DEF Origin
  <2>4. f \notin p.needs
    BY <2>0, <2>1, <2>2, <2>3 DEF RecoveryInv, Awaited
  <2>5. PICK q \in p.needs : f = Origin(q)
    BY <2>0, <2>1, <2>2 DEF PlanInv
  <2>6. q \in StepIds(plan) /\ q # f
    BY <2>0, <2>1, <2>4, <2>5, PlanTyped
  <2> QED
    BY <2>1, <2>5, <2>6 DEF Origin
<1> QED
  BY <1>1, WavesCorrect, PTL

\* The rounds of every loop follow one another, in whatever way the loops are
\* nested: a step waits, at some remove, for all of the earlier rounds, and what
\* it waits for has results when it is launched.
THEOREM RoundsFollowOneAnother == Spec => []RoundsInOrder
<1> DEFINE Drawn == compiled # {} => compiled = Steps(canvas) /\ Compiles(canvas)
<1>1. Init => Drawn
  BY DEF Init
<1>2. WavesInv /\ Drawn /\ [Next]_vars => Drawn'
  <2> SUFFICES ASSUME WavesInv, Drawn, [Next]_vars
               PROVE  Drawn'
    OBVIOUS
  <2>1. Moves
    BY StepMoves
  <2>2. canvas' = canvas /\ compiled' = compiled
    BY <2>1 DEF Moves, Aside, Dropped, Enters, Starts, Goes, Decides, Settles, Forgoes,
                Inserts, Writes, Launches, Counts, Redoes, Keeps
  <2> QED
    BY <2>2
<1>3. WavesInv /\ Drawn => RoundsInOrder
  <2> SUFFICES ASSUME WavesInv, Drawn, ~byHand,
                      NEW s \in launched, NEW t \in StepIds(plan),
                      t.recovery = 0, s.recovery = 0, t \notin DOMAIN results,
                      EarlierRound(t, s)
               PROVE  FALSE
    BY DEF RoundsInOrder
  <2>0. TypeOK /\ RunInv /\ PlanInv /\ OrderInv
    BY DEF WavesInv
  <2>1. s \in StepIds(compiled) /\ t \in StepIds(compiled)
    BY <2>0 DEF RunInv, PlanInv
  <2>2. compiled = Steps(canvas) /\ Compiles(canvas)
    BY <2>1 DEF StepIds
  <2>3. IsCanvas(canvas) /\ WellFormed(canvas)
    BY <2>0, <2>2, WavesAssumption DEF TypeOK, Compiles
  <2>4. /\ \A p \in compiled : p.id \in AllIds(canvas) /\ p.needs = Needs(canvas, p.id)
        /\ \A id \in AllIds(canvas) : \E p \in compiled : p.id = id
    <3>1. ASSUME NEW id \in AllIds(canvas)
          PROVE  \E p \in compiled : p.id = id
      <4> DEFINE p == [id |-> id, needs |-> Needs(canvas, id), asks |-> Asks(canvas, id)]
      <4>1. p \in compiled /\ p.id = id
        BY <2>2, <3>1 DEF Steps, AllIds
      <4> QED
        BY <4>1
    <3> QED
      BY <2>2, <3>1 DEF Steps, AllIds
  <2> DEFINE X == DOMAIN results \cup {s}
  <2>5. ASSUME NEW x \in X \cap AllIds(canvas)
        PROVE  Needs(canvas, x) \subseteq X
    <3>1. Grounded(x, DOMAIN results)
      BY <2>0 DEF OrderInv
    <3> QED
      BY <2>4, <3>1 DEF Grounded
  <2>6. s \in X \cap AllIds(canvas) /\ t \in AllIds(canvas)
    BY <2>1, <2>4 DEF StepIds
  <2>7. InEarlierRound(canvas, t, s)
    <3>1. PICK l \in DOMAIN s.round \cap DOMAIN t.round :
            /\ t.round[l] < s.round[l]
            /\ \A m \in (DOMAIN s.round \cap DOMAIN t.round) \ {l} :
                 t.round[m] = s.round[m] \/ ~(Members(canvas, l) \subseteq Members(canvas, m))
      BY DEF EarlierRound
    <3> QED
      BY <3>1 DEF InEarlierRound, Common
  <2>8. t \in X
    <3> HIDE DEF X
    <3> QED
      BY <2>3, <2>5, <2>6, <2>7, RoundsFollow
  <2>9. t = s
    BY <2>8
  <2> QED
    BY <2>3, <2>6, <2>7, <2>9, NotAheadOfItself DEF Ahead
<1> HIDE DEF Drawn
<1> QED
  BY <1>1, <1>2, <1>3, WavesCorrect, PTL DEF Spec
=============================================================================
