--------------------------- MODULE MemoryCapture ---------------------------
(***************************************************************************)
(* How the result of a task reaches the memory service: TencentMemory-     *)
(* Client.capture (memoryClient.ts), the receipts that make it durable     *)
(* (memoryCaptureStore.ts) and the compensation worker of every process.   *)
(*                                                                         *)
(* A capture is one receipt: the same task, input and output have the same *)
(* digest and so the same row.  All captures here belong to one session,   *)
(* because the cursor a capture is compared with is that of its session.   *)
(* Every store call is one statement, so one action; capture awaits        *)
(* between them, so other calls, sweeps, expiry and crashes interleave.    *)
(*                                                                         *)
(* The claim token is a fresh UUID written in the statement that           *)
(* increments "attempts" and nowhere else, so the attempt number stands    *)
(* for it.  A POST is given up after 12 s and a lease lasts 30 s: a lease  *)
(* that runs out under a live call is a fault (the process was stalled),   *)
(* one whose holder is gone runs out by itself.                            *)
(***************************************************************************)
EXTENDS Integers, FiniteSets

CONSTANTS
    Capture,     \* receipts of the session
    NoCapture,   \* the capture of an idle caller
    Cursor,      \* Capture -> Nat, the task's updatedAt
    Run,         \* calls of captureMemory by the orchestrator
    Worker,      \* processes with a compensation loop
    MaxFaults    \* bound: refusals, lost messages, stalls and crashes

ASSUME CaptureAssumption ==
    /\ NoCapture \notin Capture
    /\ Cursor \in [Capture -> Nat]
    /\ Run \cap Worker = {}
    /\ MaxFaults \in Nat

Caller == Run \cup Worker

VARIABLES
    status, token, attempts,  \* columns of memory_capture_receipts
    live,      \* lease_expires_at lies in the future
    due,       \* next_retry_at has passed
    call,      \* the local state of capture, Caller -> record
    todo,      \* the rest of a sweep's list, Worker -> SUBSET Capture
    wire,      \* POSTs under way
    landed,    \* POSTs the memory service has stored
    faults     \* faults so far

rowVars == <<status, token, attempts, live, due>>
vars == <<rowVars, call, todo, wire, landed, faults>>

Status == {"absent", "pending", "failed", "completed"}
PC == {"idle", "list", "cursor", "claim", "post", "wait", "accepted",
       "rejected", "stale"}

\* A request carries the capture and stands for the claim that sent it.
Request == [capture : Capture, token : Nat]

Call == [pc : PC, capture : Capture \cup {NoCapture}, token : Nat]
NoCall == [pc |-> "idle", capture |-> NoCapture, token |-> 0]

TypeOK ==
    /\ status \in [Capture -> Status]
    /\ token \in [Capture -> Nat]
    /\ attempts \in [Capture -> Nat]
    /\ live \in [Capture -> BOOLEAN]
    /\ due \in [Capture -> BOOLEAN]
    /\ call \in [Caller -> Call]
    /\ \A p \in Caller :
         call[p].pc \notin {"idle", "list"} => call[p].capture \in Capture
    /\ todo \in [Worker -> SUBSET Capture]
    /\ wire \in SUBSET Request
    /\ landed \in SUBSET Request
    /\ faults \in 0 .. MaxFaults

Init ==
    /\ status = [c \in Capture |-> "absent"]
    /\ token = [c \in Capture |-> 0]
    /\ attempts = [c \in Capture |-> 0]
    /\ live = [c \in Capture |-> FALSE]
    /\ due = [c \in Capture |-> FALSE]
    /\ call = [p \in Caller |-> NoCall]
    /\ todo = [w \in Worker |-> {}]
    /\ wire = {}
    /\ landed = {}
    /\ faults = 0

-----------------------------------------------------------------------------
(* Helpers.                                                                *)

Fault == faults < MaxFaults /\ faults' = faults + 1

At(p, pc) == call[p].pc = pc
Goto(p, pc) ==
    call' = [call EXCEPT ![p] = [pc |-> pc, capture |-> call[p].capture,
                                 token |-> call[p].token]]
End(p) == call' = [call EXCEPT ![p] = NoCall]

\* The request of a caller that holds a claim.
Sent(p) == [capture |-> call[p].capture, token |-> call[p].token]

\* The WHERE clause of complete and fail: id, claim_token and status.
Holds(p) ==
    /\ status[call[p].capture] = "pending"
    /\ token[call[p].capture] = call[p].token

\* Some live call still works under the claim of this receipt.
Worked(c) == \E p \in Caller : call[p].capture = c /\ call[p].token = token[c]

\* Mistake: the status of the newer receipt is not looked at.
SupersededByAny(c) ==
    \E d \in Capture : status[d] # "absent" /\ Cursor[d] > Cursor[c]

\* latestCursor is newer than the cursor of this capture.
Superseded(c) ==
    \E d \in Capture : status[d] = "completed" /\ Cursor[d] > Cursor[c]

\* Mistake: a pending row is taken over before its lease has expired.
ClaimableEarly(c) == status[c] # "completed"

\* The upsert of claim inserts, or updates a failed or an expired row.
Claimable(c) ==
    \/ status[c] \in {"absent", "failed"}
    \/ status[c] = "pending" /\ ~live[c]

TakeRow(c) ==
    /\ status' = [status EXCEPT ![c] = "pending"]
    /\ token' = [token EXCEPT ![c] = attempts[c] + 1]
    /\ attempts' = [attempts EXCEPT ![c] = @ + 1]
    /\ live' = [live EXCEPT ![c] = TRUE]
    /\ due' = [due EXCEPT ![c] = FALSE]

\* complete, fail and markSkipped clear the token and the lease.
LeaveRow(c, s) ==
    /\ status' = [status EXCEPT ![c] = s]
    /\ token' = [token EXCEPT ![c] = 0]
    /\ live' = [live EXCEPT ![c] = FALSE]
    /\ due' = [due EXCEPT ![c] = FALSE]
    /\ UNCHANGED attempts

-----------------------------------------------------------------------------
(* TencentMemoryClient.capture, one action per await.                      *)

\* A run of a task has a result and calls captureMemory.
Start(r, c) ==
    /\ At(r, "idle")
    /\ call' = [call EXCEPT ![r] = [pc |-> "cursor", capture |-> c, token |-> 0]]
    /\ UNCHANGED <<rowVars, todo, wire, landed, faults>>

\* latestCursor: a capture older than the newest completed one is skipped; the
\* compensation loop then marks its receipt.
ReadCursor(p) ==
    /\ At(p, "cursor")
    /\ CASE ~Superseded(call[p].capture) -> Goto(p, "claim")
         [] Superseded(call[p].capture) /\ p \in Worker -> Goto(p, "stale")
         [] OTHER -> End(p)
    /\ UNCHANGED <<rowVars, todo, wire, landed, faults>>

Claim(p) ==
    /\ At(p, "claim")
    /\ IF Claimable(call[p].capture)
       THEN /\ TakeRow(call[p].capture)
            /\ call' = [call EXCEPT ![p] =
                    [pc |-> "post", capture |-> call[p].capture,
                     token |-> attempts[call[p].capture] + 1]]
       ELSE End(p) /\ UNCHANGED rowVars
    /\ UNCHANGED <<todo, wire, landed, faults>>

\* The claim commits and its acknowledgement is lost: nobody knows the token.
ClaimUnconfirmed(p) ==
    /\ At(p, "claim")
    /\ Fault
    /\ Claimable(call[p].capture)
    /\ TakeRow(call[p].capture)
    /\ End(p)
    /\ UNCHANGED <<todo, wire, landed>>

\* latestCursor, claim or markSkipped rejects; the error ends this capture.
StoreFails(p) ==
    /\ call[p].pc \in {"cursor", "claim", "stale"}
    /\ Fault
    /\ End(p)
    /\ UNCHANGED <<rowVars, todo, wire, landed>>

Post(p) ==
    /\ At(p, "post")
    /\ wire' = wire \cup {Sent(p)}
    /\ Goto(p, "wait")
    /\ UNCHANGED <<rowVars, todo, landed, faults>>

\* The service stores the messages, perhaps long after the call was given up.
Land(m) ==
    /\ wire' = wire \ {m}
    /\ landed' = landed \cup {m}
    /\ UNCHANGED <<rowVars, call, todo, faults>>

\* The request is lost, or the service refuses it.
Lose(m) ==
    /\ Fault
    /\ wire' = wire \ {m}
    /\ UNCHANGED <<rowVars, call, todo, landed>>

Accepted(p) ==
    /\ At(p, "wait")
    /\ Sent(p) \in landed
    /\ Goto(p, "accepted")
    /\ UNCHANGED <<rowVars, todo, wire, landed, faults>>

\* post throws: the request did not get through.
Rejected(p) ==
    /\ At(p, "wait")
    /\ Sent(p) \notin wire \cup landed
    /\ Goto(p, "rejected")
    /\ UNCHANGED <<rowVars, todo, wire, landed, faults>>

\* post throws although the request has landed or still may.
AnswerLost(p) ==
    /\ At(p, "wait")
    /\ Sent(p) \in wire \cup landed
    /\ Fault
    /\ Goto(p, "rejected")
    /\ UNCHANGED <<rowVars, todo, wire, landed>>

\* complete(): without the claim it answers null, "claim_lost".
Complete(p) ==
    /\ At(p, "accepted")
    /\ IF Holds(p) THEN LeaveRow(call[p].capture, "completed")
       ELSE UNCHANGED rowVars
    /\ End(p)
    /\ UNCHANGED <<todo, wire, landed, faults>>

\* complete() rejects, before or after its commit, and fail() is tried.
CompleteUnconfirmed(p) ==
    /\ At(p, "accepted")
    /\ Fault
    /\ \/ Holds(p) /\ LeaveRow(call[p].capture, "completed")
       \/ UNCHANGED rowVars
    /\ Goto(p, "rejected")
    /\ UNCHANGED <<todo, wire, landed>>

\* fail(): the receipt may be retried one second later.
Fail(p) ==
    /\ At(p, "rejected")
    /\ IF Holds(p) THEN LeaveRow(call[p].capture, "failed")
       ELSE UNCHANGED rowVars
    /\ End(p)
    /\ UNCHANGED <<todo, wire, landed, faults>>

\* fail() rejects as well: the receipt stays pending until its lease ends.
FailFails(p) ==
    /\ At(p, "rejected")
    /\ Fault
    /\ End(p)
    /\ UNCHANGED <<rowVars, todo, wire, landed>>

-----------------------------------------------------------------------------
(* runCaptureCompensation, one sweep at a time in a process.               *)

Expired(c) == status[c] = "pending" /\ ~live[c]

\* reclaimExpired fails every expired receipt, to be retried at once.
Reclaim(w) ==
    /\ At(w, "idle") /\ todo[w] = {}
    /\ status' = [c \in Capture |-> IF Expired(c) THEN "failed" ELSE status[c]]
    /\ token' = [c \in Capture |-> IF Expired(c) THEN 0 ELSE token[c]]
    /\ due' = [c \in Capture |-> Expired(c) \/ due[c]]
    /\ Goto(w, "list")
    /\ UNCHANGED <<attempts, live, todo, wire, landed, faults>>

\* Mistake: a receipt is given up after its first retry.
ListBelowBudget(w) ==
    /\ At(w, "list")
    /\ todo' = [todo EXCEPT ![w] =
            {c \in Capture : status[c] = "failed" /\ due[c] /\ attempts[c] < 2}]
    /\ Goto(w, "idle")
    /\ UNCHANGED <<rowVars, wire, landed, faults>>

\* listRetryable: the failed receipts whose retry time has come.
List(w) ==
    /\ At(w, "list")
    /\ todo' = [todo EXCEPT ![w] =
            {c \in Capture : status[c] = "failed" /\ due[c]}]
    /\ Goto(w, "idle")
    /\ UNCHANGED <<rowVars, wire, landed, faults>>

\* The loop captures the next receipt of the list it read.
TakeNext(w, c) ==
    /\ At(w, "idle")
    /\ c \in todo[w]
    /\ todo' = [todo EXCEPT ![w] = @ \ {c}]
    /\ call' = [call EXCEPT ![w] = [pc |-> "cursor", capture |-> c, token |-> 0]]
    /\ UNCHANGED <<rowVars, wire, landed, faults>>

\* markSkipped: a superseded receipt is closed if it is still failed.
Skip(w) ==
    /\ At(w, "stale")
    /\ IF status[call[w].capture] = "failed"
       THEN LeaveRow(call[w].capture, "completed")
       ELSE UNCHANGED rowVars
    /\ End(w)
    /\ UNCHANGED <<todo, wire, landed, faults>>

-----------------------------------------------------------------------------
(* Time and crashes.                                                       *)

Due(c) ==
    /\ status[c] = "failed" /\ ~due[c]
    /\ due' = [due EXCEPT ![c] = TRUE]
    /\ UNCHANGED <<status, token, attempts, live, call, todo, wire, landed, faults>>

\* The holder of the claim is gone; its lease runs out.
ExpireLease(c) ==
    /\ live[c] /\ ~Worked(c)
    /\ live' = [live EXCEPT ![c] = FALSE]
    /\ UNCHANGED <<status, token, attempts, due, call, todo, wire, landed, faults>>

\* The holder is stalled for longer than its lease.
Stall(c) ==
    /\ live[c] /\ Worked(c)
    /\ Fault
    /\ live' = [live EXCEPT ![c] = FALSE]
    /\ UNCHANGED <<status, token, attempts, due, call, todo, wire, landed>>

\* The process dies; requests it sent are not recalled.
Crash(p) ==
    /\ call[p] # NoCall
    /\ Fault
    /\ End(p)
    /\ todo' = [w \in Worker |-> IF w = p THEN {} ELSE todo[w]]
    /\ UNCHANGED <<rowVars, wire, landed>>

-----------------------------------------------------------------------------
CallStep(p) ==
    \/ ReadCursor(p) \/ Claim(p) \/ Post(p) \/ Accepted(p) \/ Rejected(p)
    \/ Complete(p) \/ Fail(p)

CallFault(p) ==
    \/ ClaimUnconfirmed(p) \/ StoreFails(p) \/ AnswerLost(p)
    \/ CompleteUnconfirmed(p) \/ FailFails(p) \/ Crash(p)

SweepStep(w) ==
    \/ Reclaim(w) \/ List(w) \/ (\E c \in Capture : TakeNext(w, c)) \/ Skip(w)

Next ==
    \/ \E r \in Run, c \in Capture : Start(r, c)
    \/ \E p \in Caller : CallStep(p) \/ CallFault(p)
    \/ \E w \in Worker : SweepStep(w)
    \/ \E m \in wire : Land(m) \/ Lose(m)
    \/ \E c \in Capture : Due(c) \/ ExpireLease(c) \/ Stall(c)

\* Calls proceed, every process sweeps on its timer, requests arrive and time
\* passes; nothing obliges a run to finish with a result, and faults may stop.
Fairness ==
    /\ \A p \in Caller : WF_vars(CallStep(p))
    /\ \A w \in Worker : WF_vars(SweepStep(w))
    /\ WF_vars(\E m \in wire : Land(m))
    /\ \A c \in Capture : WF_vars(Due(c)) /\ WF_vars(ExpireLease(c))

Spec == Init /\ [][Next]_vars
FairSpec == Spec /\ Fairness

-----------------------------------------------------------------------------
(* Properties.                                                             *)

Stored(c) == \E m \in landed : m.capture = c

\* Only what the memory service has stored counts as captured: a receipt is
\* completed because its own messages landed, or because a capture of the same
\* session with a newer cursor is completed and did land.
CompletedIsEarned ==
    \A c \in Capture : status[c] = "completed" =>
        \/ Stored(c)
        \/ \E d \in Capture :
             status[d] = "completed" /\ Cursor[d] > Cursor[c] /\ Stored(d)

\* Without faults the service gets the messages of a capture at most once,
\* however many runs and sweeps work on it; every further copy costs a fault.
CopiesCostFaults ==
    \A c \in Capture :
        Cardinality({m \in landed : m.capture = c}) <= 1 + faults

\* While the lease of a claim lasts, only the call that holds it moves the
\* receipt on, and a completed receipt is never opened again: an old call that
\* comes back after its claim was taken over cannot close or fail the new one.
OldClaimIsPowerless ==
    [][\A c \in Capture :
        /\ status[c] = "completed" => status'[c] = "completed"
        /\ status[c] = "pending" /\ live[c] /\ status'[c] # "pending" =>
             \E p \in Caller : /\ call[p].capture = c
                               /\ call[p].token = token[c]
                               /\ call'[p] # call[p]]_vars

\* A capture that has a receipt is settled in the end: whatever crashed, was
\* lost or rejected, some sweep completes it or finds it superseded.
CapturesSettle ==
    \A c \in Capture : status[c] # "absent" ~> status[c] = "completed"
-----------------------------------------------------------------------------
(* Why the safety properties hold: the inductive invariant behind them.    *)

\* A call whose request was accepted has its messages in the service, and a
\* sweep calls a capture stale only for a newer completed one.
AcceptedInv == \A p \in Caller : At(p, "accepted") => Sent(p) \in landed
StaleInv == \A p \in Caller : At(p, "stale") => Superseded(call[p].capture)

\* A claim is held by one call, and its token is one of those issued.
Holding == {"post", "wait", "accepted", "rejected"}
ClaimInv ==
    /\ \A c \in Capture : token[c] <= attempts[c]
    /\ \A p \in Caller : call[p].pc \in Holding =>
            call[p].token \in 1 .. attempts[call[p].capture]
    /\ \A p, q \in Caller :
            /\ call[p].pc \in Holding /\ call[q].pc \in Holding
            /\ call[p].capture = call[q].capture /\ call[p].token = call[q].token
            => p = q

\* The requests of a capture that have landed, are under way or will be sent.
Copies(c) ==
    {m \in wire \cup landed : m.capture = c} \cup
    {Sent(p) : p \in {q \in Caller : At(q, "post") /\ call[q].capture = c}}

\* The one that the call in charge of the receipt is working on.
InCharge(p, c) ==
    /\ call[p].pc \in {"post", "wait", "accepted"}
    /\ call[p].capture = c /\ call[p].token = token[c]
    /\ status[c] = "pending" /\ live[c]
Current(c) == {Sent(p) : p \in {q \in Caller : InCharge(q, c)}}

\* Every other copy has cost a fault, but for one when the receipt is closed.
CopyInv ==
    \A c \in Capture :
        /\ IsFiniteSet(Copies(c))
        /\ Cardinality(Copies(c) \ Current(c))
             <= IF status[c] = "completed" THEN faults + 1 ELSE faults

CaptureInv ==
    CompletedIsEarned /\ AcceptedInv /\ StaleInv /\ ClaimInv /\ CopyInv
=============================================================================
