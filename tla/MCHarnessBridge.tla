-------------------------- MODULE MCHarnessBridge --------------------------
(* TLC instances of HarnessBridge.                                          *)
EXTENDS HarnessBridge
=============================================================================
