---------------------------- MODULE MCGovernance ----------------------------
(* TLC instance of Governance: a policy with one slot and one with two.    *)
EXTENDS Governance

MCPolicies == {[concurrent |-> n, limit |-> [w \in Window |-> 2]] : n \in {1, 2}}
=============================================================================
