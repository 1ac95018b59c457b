--------------------------- MODULE MCTaskRuntime ---------------------------
(* TLC instances of TaskRuntime: two steps, the second waiting for the     *)
(* first.                                                                   *)
EXTENDS TaskRuntime
CONSTANTS
    first,
    second

Chain == [s \in Step |-> IF s = second THEN {first} ELSE {}]
=============================================================================
