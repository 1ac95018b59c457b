-------------------------- MODULE ReviewedExecution --------------------------
(***************************************************************************)
(* What the tool ledger promises, without leases, tokens, clocks or lost   *)
(* acknowledgements: an invocation is open, busy, uncertain or done; a     *)
(* write is run at most once per permission, and only an operator who      *)
(* reviewed an uncertain outcome gives another permission; every agent is  *)
(* answered with the one result of a done invocation.                      *)
(***************************************************************************)
EXTENDS Naturals

CONSTANTS Invocation, WriteInvocation

VARIABLES
    phase,    \* Invocation -> what may happen next
    reviews,  \* Invocation -> permissions given by operators
    runs,     \* Invocation -> runs started: records with attempt and epoch
    result,   \* Invocation -> the attempt that produced the result, or 0
    answers   \* Invocation -> results handed to agents

absVars == <<phase, reviews, runs, result, answers>>

AbsInit ==
    /\ phase = [i \in Invocation |-> "open"]
    /\ reviews = [i \in Invocation |-> 0]
    /\ runs = [i \in Invocation |-> {}]
    /\ result = [i \in Invocation |-> 0]
    /\ answers = [i \in Invocation |-> {}]

\* Some worker takes the invocation.
Begin(i) ==
    /\ phase[i] = "open"
    /\ phase' = [phase EXCEPT ![i] = "busy"]
    /\ UNCHANGED <<reviews, runs, result, answers>>

\* A run starts.  A write needs a permission no run has used, and an open
\* write has none to give: its current permission is still untaken.
Start(i) ==
    \E r \in runs'[i] \ runs[i] :
        /\ runs' = [runs EXCEPT ![i] = @ \cup {r}]
        /\ r.epoch <= reviews[i]
        /\ i \in WriteInvocation =>
             /\ \A s \in runs[i] : s.epoch # r.epoch
             /\ phase[i] = "open" => r.epoch < reviews[i]
        /\ UNCHANGED <<phase, reviews, result, answers>>

\* The worker gives the invocation back.  A write goes back without a review
\* only while its current permission is unused.
GiveBack(i) ==
    /\ phase[i] = "busy"
    /\ i \in WriteInvocation => \A r \in runs[i] : r.epoch < reviews[i]
    /\ phase' = [phase EXCEPT ![i] = "open"]
    /\ UNCHANGED <<reviews, runs, result, answers>>

\* Nobody knows whether the run had its effect.
Suspect(i) ==
    /\ phase[i] = "busy"
    /\ phase' = [phase EXCEPT ![i] = "uncertain"]
    /\ UNCHANGED <<reviews, runs, result, answers>>

\* A run's result is saved; the worker that saved it may learn so or not.
Finish(i) ==
    /\ phase[i] = "busy"
    /\ phase' = [phase EXCEPT ![i] = "done"]
    /\ \E r \in runs[i] : result' = [result EXCEPT ![i] = r.attempt]
    /\ \/ answers' = [answers EXCEPT ![i] = {result'[i]}]
       \/ answers' = answers
    /\ UNCHANGED <<reviews, runs>>

\* An operator confirms that the effect happened.
Confirm(i) ==
    /\ phase[i] = "uncertain"
    /\ phase' = [phase EXCEPT ![i] = "done"]
    /\ UNCHANGED <<reviews, runs, result, answers>>

\* An operator confirms that it did not, and permits another run.
Permit(i) ==
    /\ phase[i] = "uncertain"
    /\ phase' = [phase EXCEPT ![i] = "open"]
    /\ reviews' = [reviews EXCEPT ![i] = @ + 1]
    /\ UNCHANGED <<runs, result, answers>>

\* An agent asks again and is given the result.
Answer(i) ==
    /\ phase[i] = "done"
    /\ answers' = [answers EXCEPT ![i] = @ \cup {result[i]}]
    /\ UNCHANGED <<phase, reviews, runs, result>>

AbsNext ==
    \E i \in Invocation :
        \/ Begin(i) \/ Start(i) \/ GiveBack(i) \/ Suspect(i)
        \/ Finish(i) \/ Confirm(i) \/ Permit(i) \/ Answer(i)

AbsSpec == AbsInit /\ [][AbsNext]_absVars
=============================================================================
