--------------------------- MODULE MCEventStream ---------------------------
(* TLC instances of EventStream.                                            *)
EXTENDS EventStream
=============================================================================
