----------------------------- MODULE Processes -----------------------------
(* The processes that run the API server of this repository.               *)
CONSTANT Process

\* A deployment of one of them.
OneProcess == \A p, q \in Process : p = q
=============================================================================
