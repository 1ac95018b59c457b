-------------------------- MODULE MCWorkflowWaves --------------------------
(* TLC instances of WorkflowWaves: some canvases with loops, branches and   *)
(* joins, and all canvases with two agents.                                 *)
EXTENDS WorkflowWaves, TLC

CONSTANTS a, b, c

Drawing(agents, edges, branch, loops) ==
    [agent |-> agents, flow |-> edges, branch |-> branch,
     loop |-> loops, rounds |-> [l \in loops |-> 2]]
Chain(edges, branch, loops) == Drawing({a, b, c}, edges, branch, loops)

One == Drawing({a}, {<<Input, a>>, <<a, Output>>}, <<>>, {})
\* "a" decides between "b" and "c".
Branches == Chain({<<Input, a>>, <<a, b>>, <<a, c>>, <<b, Output>>, <<c, Output>>},
                  (<<a, b>> :> TRUE) @@ (<<a, c>> :> FALSE), {})
\* "c" waits for "a" and "b".
Join == Chain({<<Input, a>>, <<Input, b>>, <<a, c>>, <<b, c>>, <<c, Output>>}, <<>>, {})
\* Three independent agents.
Fork == Chain({<<Input, a>>, <<Input, b>>, <<Input, c>>,
               <<a, Output>>, <<b, Output>>, <<c, Output>>}, <<>>, {})
Straight == {<<Input, a>>, <<a, b>>, <<b, c>>, <<c, Output>>}
Line == Chain(Straight, <<>>, {})
OneLoop == Chain(Straight, (<<a, b>> :> TRUE), {<<b, a>>})
TwoLoops == Chain(Straight, <<>>, {<<c, a>>, <<c, b>>})
\* The same shape with the agents in another order.  These plans are the longest, so
\* faults are tried on this one and commands on the other.
LoopsReordered == Chain({<<Input, a>>, <<a, c>>, <<c, b>>, <<b, Output>>}, <<>>,
                        {<<b, a>>, <<b, c>>})

Small ==
    {Drawing({a, b}, f, <<>>, l) : l \in SUBSET ({a, b} \X {a, b}),
                                   f \in SUBSET ({Input, a, b} \X {a, b, Output})}

Faulty == {Branches, Join, Line}
Others == {One, Fork, OneLoop}
MCCanvases == Faulty \cup Others \cup {TwoLoops, LoopsReordered} \cup Small
MCFaults == [x \in MCCanvases |-> CASE x \in Faulty -> 2 [] x = TwoLoops -> 0 [] OTHER -> 1]
MCCommands ==
    [x \in MCCanvases |-> CASE x = One -> 2 [] x \in Faulty \cup Others \cup {TwoLoops} -> 1 [] OTHER -> 0]
=============================================================================
