---------------------------- MODULE MCToolLedger ----------------------------
(* TLC instances of ToolLedger: a write and a read-only invocation, one of  *)
(* which is executed in a behaviour (invocations share no state).           *)
EXTENDS ToolLedger, FiniteSets

OneInvocation == Cardinality({i \in Invocation : status[i] # "absent"}) <= 1
=============================================================================
