-------------------------- MODULE MCMemoryCapture --------------------------
(* TLC instances of MemoryCapture: a task's older and newer result.         *)
EXTENDS MemoryCapture, TLC

CONSTANTS older, newer

MCCapture == {older, newer}
MCCursor == (older :> 1) @@ (newer :> 2)
=============================================================================
