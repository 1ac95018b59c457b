------------------------- MODULE WorkflowCompiler -------------------------
(***************************************************************************)
(* From a canvas to the steps of a plan: compileAgentWorkflow              *)
(* (workflowCompiler.ts), and analyzeWorkflowDag (workflowDag.ts), the     *)
(* rules every plan has to satisfy before it is executed.                  *)
(*                                                                         *)
(* A canvas has agents between one input and one output, flow edges, some  *)
(* of them under a condition, and loop edges that lead back.  Loops are    *)
(* unrolled: a step is an agent in one round of every loop it lies in.     *)
(* What an agent is told, may use and hands over is left out, and so is    *)
(* the order of the steps; all conditions on one agent's output ask the    *)
(* same question, with the answer they want.                               *)
(***************************************************************************)
EXTENDS Integers, FiniteSets

CONSTANTS
    Input, Output,  \* the ends of every canvas
    MaxExpanded     \* steps a canvas may unroll to (256 in the code)

ASSUME CompilerAssumption == Input # Output /\ MaxExpanded \in Nat

\* A canvas is [agent, flow, branch, loop, rounds]: flow and loop are sets of
\* <<source, target>>, branch gives the answer each conditional edge wants and
\* rounds the number of iterations of each loop edge, by which it is known.
IsCanvas(c) ==
    /\ IsFiniteSet(c.agent) /\ {Input, Output} \cap c.agent = {}
    /\ c.branch \in [DOMAIN c.branch -> BOOLEAN] /\ DOMAIN c.branch \subseteq c.flow
    /\ c.rounds \in [c.loop -> Nat \ {0}]

Nodes(c) == c.agent \cup {Input, Output}

Into(c, n) == {e \in c.flow : e[2] = n}
OutOf(c, n) == {e \in c.flow : e[1] = n}

\* "n" is reached from "m": it is in every set with "m" that no edge leaves.
Closed(c, X) == \A e \in c.flow : e[1] \in X => e[2] \in X
Reaches(c, m, n) == \A X \in SUBSET Nodes(c) : m \in X /\ Closed(c, X) => n \in X

\* The agents a loop repeats: on some path from its target to its source.
Members(c, l) == {a \in c.agent : Reaches(c, l[2], a) /\ Reaches(c, a, l[1])}

LoopsOf(c, a) == {l \in c.loop : a \in Members(c, l)}

\* A loop is left from its source or to the output only.
SideExits(c, l) ==
    {e \in c.flow : /\ e[1] \in Members(c, l) \ {l[1]}
                    /\ e[2] \notin Members(c, l) \cup {Output}}

Nested(c, l, m) ==
    \/ Members(c, l) \cap Members(c, m) = {}
    \/ Members(c, l) \subseteq Members(c, m)
    \/ Members(c, m) \subseteq Members(c, l)

\* The rules of the canvas; a canvas that breaks one has no plan.
WellFormed(c) ==
    /\ c.flow \cup c.loop \subseteq Nodes(c) \X Nodes(c)
    /\ \A l \in c.loop : l[1] # l[2]
    /\ \A e \in c.flow : ~Reaches(c, e[2], e[1])
    /\ Into(c, Input) = {} /\ OutOf(c, Output) = {}
    /\ \A n \in Nodes(c) : Reaches(c, Input, n)
    /\ \A a \in c.agent : Into(c, a) # {} /\ OutOf(c, a) # {}
    /\ \A l \in c.loop : /\ {l[1], l[2]} \subseteq c.agent
                         /\ Reaches(c, l[2], l[1])
                         /\ SideExits(c, l) = {}
    /\ \A l, m \in c.loop : Nested(c, l, m)

-----------------------------------------------------------------------------
(* Steps.  Besides its agent and rounds, a step's id has the generation of *)
(* the automatic recovery that added it, which is 0 for a compiled step.   *)

Rounds(c, a) ==
    {r \in [LoopsOf(c, a) -> UNION {1 .. c.rounds[l] : l \in c.loop}] :
        \A l \in DOMAIN r : r[l] <= c.rounds[l]}

Ids(c, a) == {[agent |-> a, round |-> r, recovery |-> 0] : r \in Rounds(c, a)}

\* Mistake: a loop counts as left after its first round.
BeforeFirst(c, id, a) ==
    {s \in Ids(c, a) : \A l \in DOMAIN s.round \cup DOMAIN id.round :
        CASE l \notin DOMAIN id.round -> s.round[l] = 1
          [] l \notin DOMAIN s.round -> id.round[l] = 1
          [] OTHER -> s.round[l] = id.round[l]}

\* The step of agent "a" whose result a step "id" is to wait for: of the same
\* round of the loops both lie in, of the last round of a loop that was left,
\* and none for a later round of a loop that was entered from "a".
Before(c, id, a) ==
    {s \in Ids(c, a) : \A l \in DOMAIN s.round \cup DOMAIN id.round :
        CASE l \notin DOMAIN id.round -> s.round[l] = c.rounds[l]
          [] l \notin DOMAIN s.round -> id.round[l] = 1
          [] OTHER -> s.round[l] = id.round[l]}

\* The end of the round of loop "l" that comes before the round of "id".
RoundBefore(c, id, l) ==
    IF id.round[l] = 1 THEN {}
    ELSE Before(c, [id EXCEPT !.round[l] = @ - 1], l[1])

Needs(c, id) ==
    UNION ({Before(c, id, e[1]) : e \in {f \in Into(c, id.agent) : f[1] # Input}}
           \cup {RoundBefore(c, id, l) : l \in {m \in LoopsOf(c, id.agent) : m[2] = id.agent}})

\* Conditions on the output of a step: [source, wants].
Asks(c, id) ==
    UNION {{[source |-> s, wants |-> c.branch[e]] : s \in Before(c, id, e[1])} :
           e \in {f \in Into(c, id.agent) \cap DOMAIN c.branch : f[1] # Input}}

Steps(c) ==
    {[id |-> id, needs |-> Needs(c, id), asks |-> Asks(c, id)] :
        id \in UNION {Ids(c, a) : a \in c.agent}}

\* compileAgentWorkflow has no issues with the canvas.
Compiles(c) == WellFormed(c) /\ Cardinality(Steps(c)) <= MaxExpanded

-----------------------------------------------------------------------------
(* The steps of a plan, [id, needs, ...], form an acyclic graph: of some     *)
(* steps there is always one that waits for none of them.                  *)

StepIds(steps) == {s.id : s \in steps}

Analyzes(steps) ==
    /\ \A s, t \in steps : s.id = t.id => s = t
    /\ \A s \in steps : s.needs \subseteq StepIds(steps)
    /\ \A some \in SUBSET steps : some # {} =>
         \E s \in some : s.needs \cap StepIds(some) = {}

\* A step and all that need it, directly or not: they are in every set with it
\* that has all the steps waiting for one of its own.
Carried(steps, X) == \A s \in steps : s.needs \cap X # {} => s.id \in X
DescendantsOf(steps, id) ==
    LET carried == {X \in SUBSET StepIds(steps) : id \in X /\ Carried(steps, X)}
    IN  {n \in StepIds(steps) : \A X \in carried : n \in X}
=============================================================================
