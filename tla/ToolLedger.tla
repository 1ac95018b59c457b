----------------------------- MODULE ToolLedger -----------------------------
(***************************************************************************)
(* The durable tool execution ledger (toolExecutionStore.ts) together with *)
(* the callers that use it (ToolRegistry.execute) and the operators who    *)
(* review uncertain outcomes (resolveExecutionUnknown).                    *)
(*                                                                         *)
(* Every ledger operation is one transaction on one row, so it is one      *)
(* action.  ToolRegistry.execute awaits between those transactions, so it  *)
(* is one action per await: other callers, expiry, crashes and operators   *)
(* interleave in between.  A caller is one in-flight execute call of some  *)
(* process; several callers may run the same invocation, as they do when a *)
(* task is recovered by a second worker.                                   *)
(*                                                                         *)
(* The lease token is a fresh random UUID written in the same transaction  *)
(* that increments "attempts" and nowhere else, so the attempt number      *)
(* stands for the token.  Time is the number of heartbeat intervals        *)
(* (leaseMs / 3) left on the lease.                                        *)
(***************************************************************************)
EXTENDS Integers, FiniteSets

CONSTANTS
    Invocation,       \* durable invocation identities (toolExecutionId)
    WriteInvocation,  \* those of tools with sideEffect "write"
    NoInvocation,     \* the invocation of an idle caller or operator
    Caller,           \* in-flight executions of ToolRegistry.execute
    Operator,         \* people who review uncertain outcomes
    LeaseTicks,       \* a lease lasts this many heartbeat intervals
    MaxReadAttempts,  \* unattended attempts of a read-only tool
    MaxRevision       \* bound: claims, renewals and annotations stop here

ASSUME LedgerAssumption ==
    /\ WriteInvocation \subseteq Invocation
    /\ NoInvocation \notin Invocation
    /\ LeaseTicks \in Nat \ {0}
    /\ MaxReadAttempts \in Nat \ {0}
    /\ MaxRevision \in Nat

VARIABLES
    \* the columns of tool_execution_ledger, Invocation -> value
    status, attempts, revision,
    owner,       \* leaseToken, 0 when cleared
    lease,       \* heartbeat intervals until leaseUntil
    source,      \* receiptSource
    receipt,     \* the attempt whose receipt is stored, 0 for none
    reopened,    \* resolutions that say "confirmed-not-executed"
    \* the local state of execute, Caller -> value
    pc, inv, attempt,
    epoch,       \* "reopened" when the attempt was granted (history)
    lost,        \* leaseLost
    ok,          \* exitCode = 0
    \* the uncertain row an operator has open, Operator -> value
    view,
    \* the outside world and history, Invocation -> value
    dispatched,  \* runs handed to the tool
    landed,      \* attempts whose external effect happened
    answers,     \* results returned to agents; 0 is an operator's word
    released     \* number of releaseUnstarted

rowVars == <<status, attempts, revision, owner, lease, source, receipt, reopened>>
callVars == <<pc, inv, attempt, epoch, lost, ok>>
worldVars == <<dispatched, landed, answers, released>>
vars == <<rowVars, callVars, view, worldVars>>

Status == {"absent", "executing", "completed", "outcome_unknown", "retryable"}
Source == {"none", "tool", "human-confirmed"}
PC == {"idle", "claimed", "running", "returned", "unsure", "unknown", "annotate"}

\* One run of a tool: the attempt it belongs to and how many times an operator
\* had reopened the invocation when that attempt was granted ("epoch"), and when
\* it was handed to the tool ("decided").
Run == [attempt : Nat, epoch : Nat, decided : Nat]

View == [inv : Invocation \cup {NoInvocation}, revision : Nat, attempts : Nat]
NoView == [inv |-> NoInvocation, revision |-> 0, attempts |-> 0]

RowTypeOK ==
    /\ status \in [Invocation -> Status]
    /\ attempts \in [Invocation -> Nat]
    /\ revision \in [Invocation -> Nat]
    /\ owner \in [Invocation -> Nat]
    /\ lease \in [Invocation -> Nat]
    /\ source \in [Invocation -> Source]
    /\ receipt \in [Invocation -> Nat]
    /\ reopened \in [Invocation -> Nat]

CallTypeOK ==
    /\ pc \in [Caller -> PC]
    /\ inv \in [Caller -> Invocation \cup {NoInvocation}]
    /\ \A c \in Caller : pc[c] # "idle" => inv[c] \in Invocation
    /\ attempt \in [Caller -> Nat]
    /\ epoch \in [Caller -> Nat]
    /\ lost \in [Caller -> BOOLEAN]
    /\ ok \in [Caller -> BOOLEAN]

WorldTypeOK ==
    /\ dispatched \in [Invocation -> SUBSET Run]
    /\ landed \in [Invocation -> SUBSET Nat]
    /\ answers \in [Invocation -> SUBSET Nat]
    /\ released \in [Invocation -> Nat]

TypeOK == RowTypeOK /\ CallTypeOK /\ view \in [Operator -> View] /\ WorldTypeOK

Init ==
    /\ status = [i \in Invocation |-> "absent"]
    /\ attempts = [i \in Invocation |-> 0]
    /\ revision = [i \in Invocation |-> 0]
    /\ owner = [i \in Invocation |-> 0]
    /\ lease = [i \in Invocation |-> 0]
    /\ source = [i \in Invocation |-> "none"]
    /\ receipt = [i \in Invocation |-> 0]
    /\ reopened = [i \in Invocation |-> 0]
    /\ pc = [c \in Caller |-> "idle"]
    /\ inv = [c \in Caller |-> NoInvocation]
    /\ attempt = [c \in Caller |-> 0]
    /\ epoch = [c \in Caller |-> 0]
    /\ lost = [c \in Caller |-> FALSE]
    /\ ok = [c \in Caller |-> FALSE]
    /\ view = [o \in Operator |-> NoView]
    /\ dispatched = [i \in Invocation |-> {}]
    /\ landed = [i \in Invocation |-> {}]
    /\ answers = [i \in Invocation |-> {}]
    /\ released = [i \in Invocation |-> 0]

-----------------------------------------------------------------------------
(* Helpers of the store and of execute.                                    *)

IsWrite(i) == i \in WriteInvocation

\* owned(): the row is still executing under this caller's token.
Owned(c, allowExpired) ==
    /\ status[inv[c]] = "executing"
    /\ owner[inv[c]] = attempt[c]
    /\ allowExpired \/ lease[inv[c]] > 0

\* Mistake: only the clock is looked at.
ExpiredIgnoringStatus(i) == status[i] # "absent" /\ lease[i] = 0

Expired(i) == status[i] = "executing" /\ lease[i] = 0

\* Mistakes: the side effect is not looked at; one attempt too many.
MayRetryAnything(i) == attempts[i] < MaxReadAttempts
MayRetryOnceMore(i) == ~IsWrite(i) /\ attempts[i] <= MaxReadAttempts

\* Only a read-only tool with attempts left may run again without a review.
MayRetryUnattended(i) == ~IsWrite(i) /\ attempts[i] < MaxReadAttempts

Claimable(i) ==
    \/ status[i] \in {"absent", "retryable"}
    \/ Expired(i) /\ MayRetryUnattended(i)

Bump(i) == revision' = [revision EXCEPT ![i] = @ + 1]

\* The row leaves "executing" or is resolved: next revision, owner cleared.
Leave(i, s) ==
    /\ status' = [status EXCEPT ![i] = s]
    /\ Bump(i)
    /\ owner' = [owner EXCEPT ![i] = 0]
    /\ lease' = [lease EXCEPT ![i] = 0]
    /\ UNCHANGED attempts

\* complete() commits the receipt of the caller's attempt.
SaveReceipt(i, a) ==
    /\ Leave(i, "completed")
    /\ source' = [source EXCEPT ![i] = "tool"]
    /\ receipt' = [receipt EXCEPT ![i] = a]
    /\ UNCHANGED reopened

Goto(c, p) ==
    /\ pc' = [pc EXCEPT ![c] = p]
    /\ UNCHANGED <<inv, attempt, epoch, lost, ok>>

\* The call ends: it returned, threw, or its process died.
End(c) ==
    /\ pc' = [pc EXCEPT ![c] = "idle"]
    /\ inv' = [inv EXCEPT ![c] = NoInvocation]
    /\ attempt' = [attempt EXCEPT ![c] = 0]
    /\ epoch' = [epoch EXCEPT ![c] = 0]
    /\ lost' = [lost EXCEPT ![c] = FALSE]
    /\ ok' = [ok EXCEPT ![c] = FALSE]

Reply(i, a) == answers' = [answers EXCEPT ![i] = @ \cup {a}]

-----------------------------------------------------------------------------
(* ToolRegistry.execute, one action per await.                             *)

\* claim() grants a lease.  A claim that answers "pending" or
\* "outcome_unknown" for an unchanged row throws and changes nothing.
ClaimGranted(c, i) ==
    /\ pc[c] = "idle"
    /\ Claimable(i)
    /\ revision[i] < MaxRevision
    /\ status' = [status EXCEPT ![i] = "executing"]
    /\ attempts' = [attempts EXCEPT ![i] = @ + 1]
    /\ Bump(i)
    /\ owner' = [owner EXCEPT ![i] = attempts[i] + 1]
    /\ lease' = [lease EXCEPT ![i] = LeaseTicks]
    /\ pc' = [pc EXCEPT ![c] = "claimed"]
    /\ inv' = [inv EXCEPT ![c] = i]
    /\ attempt' = [attempt EXCEPT ![c] = attempts[i] + 1]
    /\ epoch' = [epoch EXCEPT ![c] = reopened[i]]
    /\ UNCHANGED <<source, receipt, reopened, lost, ok, view, worldVars>>

\* claim() finds an expired run it must not repeat.
ClaimExpired(c, i) ==
    /\ pc[c] = "idle"
    /\ Expired(i) /\ ~MayRetryUnattended(i)
    /\ Leave(i, "outcome_unknown")
    /\ UNCHANGED <<source, receipt, reopened, callVars, view, worldVars>>

\* claim() finds a completed row: its receipt, or the operator's confirmation
\* (answer 0), is returned.  Replaying an artifact may repair its annotation.
ClaimReplay(c, i) ==
    /\ pc[c] = "idle"
    /\ status[i] = "completed"
    /\ Reply(i, receipt[i])
    /\ IF source[i] = "tool"
       THEN /\ pc' = [pc EXCEPT ![c] = "annotate"]
            /\ inv' = [inv EXCEPT ![c] = i]
       ELSE UNCHANGED <<pc, inv>>
    /\ UNCHANGED <<rowVars, attempt, epoch, lost, ok, view, dispatched, landed,
                   released>>

\* The signal was aborted or the quota is used up before dispatch.
ReleaseUnstarted(c) ==
    /\ pc[c] = "claimed"
    /\ IF Owned(c, TRUE)
       THEN /\ Leave(inv[c], "retryable")
            /\ released' = [released EXCEPT ![inv[c]] = @ + 1]
            /\ UNCHANGED <<source, receipt, reopened>>
       ELSE UNCHANGED <<rowVars, released>>
    /\ End(c)
    /\ UNCHANGED <<view, dispatched, landed, answers>>

\* The handler or the sandbox is started; the lease is not looked at again.
Dispatch(c) ==
    /\ pc[c] = "claimed"
    /\ Goto(c, "running")
    /\ dispatched' = [dispatched EXCEPT ![inv[c]] =
            @ \cup {[attempt |-> attempt[c], epoch |-> epoch[c],
                     decided |-> reopened[inv[c]]]}]
    /\ UNCHANGED <<rowVars, view, landed, answers, released>>

\* The external effect of a dispatched write happens, possibly long after the
\* caller timed out or crashed: withTimeout does not stop the handler.
Land(i) ==
    /\ IsWrite(i)
    /\ \E r \in dispatched[i] :
         /\ r.attempt \notin landed[i]
         /\ landed' = [landed EXCEPT ![i] = @ \cup {r.attempt}]
    /\ UNCHANGED <<rowVars, callVars, view, dispatched, answers, released>>

LoseLease(c) ==
    /\ lost' = [lost EXCEPT ![c] = TRUE]
    /\ UNCHANGED <<pc, inv, attempt, epoch, ok>>

\* One heartbeat: the lease is extended, or the loss is noticed.
Renew(c) ==
    /\ pc[c] = "running" /\ ~lost[c]
    /\ lease[inv[c]] < LeaseTicks
    /\ revision[inv[c]] < MaxRevision
    /\ IF Owned(c, FALSE)
       THEN /\ lease' = [lease EXCEPT ![inv[c]] = LeaseTicks]
            /\ Bump(inv[c])
            /\ UNCHANGED <<status, attempts, owner, source, receipt, reopened,
                           callVars>>
       ELSE LoseLease(c) /\ UNCHANGED rowVars
    /\ UNCHANGED <<view, worldVars>>

\* The heartbeat's store call rejects; ownership counts as lost.  (When it had
\* committed, this is Renew followed by RenewFails.)
RenewFails(c) ==
    /\ pc[c] = "running" /\ ~lost[c]
    /\ LoseLease(c)
    /\ UNCHANGED <<rowVars, view, worldVars>>

\* The handler settles: exit code 0 for a write means its effect happened;
\* a failure, timeout or abort is exit code 1 and says nothing about it.
HandlerReturns(c, success) ==
    /\ pc[c] = "running"
    /\ success /\ IsWrite(inv[c]) => attempt[c] \in landed[inv[c]]
    /\ pc' = [pc EXCEPT ![c] = "returned"]
    /\ ok' = [ok EXCEPT ![c] = success]
    /\ UNCHANGED <<inv, attempt, epoch, lost, rowVars, view, worldVars>>

\* Mistake: a failed write with a live lease is stored as a result.
MustReviewLost(c) == IsWrite(inv[c]) /\ lost[c]

\* A write that failed or lost its lease goes to unknown().
MustReview(c) == IsWrite(inv[c]) /\ (~ok[c] \/ lost[c])

MayComplete(c) == pc[c] = "returned" /\ ~lost[c] /\ ~MustReview(c)

\* ... and a read-only tool that lost its lease does not try to complete.
SkipComplete(c) ==
    /\ pc[c] = "returned" /\ ~MayComplete(c)
    /\ Goto(c, IF MustReview(c) THEN "unknown" ELSE "unsure")
    /\ UNCHANGED <<rowVars, view, worldVars>>

\* complete() commits and its acknowledgement arrives.
Complete(c) ==
    /\ MayComplete(c) /\ Owned(c, FALSE)
    /\ SaveReceipt(inv[c], attempt[c])
    /\ Reply(inv[c], attempt[c])
    /\ Goto(c, "annotate")
    /\ UNCHANGED <<view, dispatched, landed, released>>

\* complete() answers false, or rejects: before its commit or, when the
\* acknowledgement is lost, after it.
CompleteUnconfirmed(c) ==
    /\ MayComplete(c)
    /\ \/ UNCHANGED rowVars
       \/ Owned(c, FALSE) /\ SaveReceipt(inv[c], attempt[c])
    /\ Goto(c, "unsure")
    /\ UNCHANGED <<view, worldVars>>

\* The row is read again and holds a tool receipt, whoever saved it.
RecheckReplay(c) ==
    /\ pc[c] = "unsure"
    /\ status[inv[c]] = "completed" /\ source[inv[c]] = "tool"
    /\ Reply(inv[c], receipt[inv[c]])
    /\ Goto(c, "annotate")
    /\ UNCHANGED <<rowVars, view, dispatched, landed, released>>

\* The row holds no tool receipt, or the read failed.
RecheckUnconfirmed(c) ==
    /\ pc[c] = "unsure"
    /\ IF IsWrite(inv[c]) THEN Goto(c, "unknown") ELSE End(c)
    /\ UNCHANGED <<rowVars, view, worldVars>>

\* Mistake: the uncertain run is given back instead of being held for review.
MarkRetryable(c) ==
    /\ pc[c] = "unknown"
    /\ Owned(c, TRUE)
    /\ Leave(inv[c], "retryable")
    /\ End(c)
    /\ UNCHANGED <<source, receipt, reopened, view, worldVars>>

\* unknown(): markUnknown accepts an expired lease; its failure is swallowed.
MarkUnknown(c) ==
    /\ pc[c] = "unknown"
    /\ \/ UNCHANGED rowVars
       \/ /\ Owned(c, TRUE)
          /\ Leave(inv[c], "outcome_unknown")
          /\ UNCHANGED <<source, receipt, reopened>>
    /\ End(c)
    /\ UNCHANGED <<view, worldVars>>

\* annotateReceipt records where the artifact went, when there is one.
Annotate(c) ==
    /\ pc[c] = "annotate"
    /\ \/ UNCHANGED revision
       \/ /\ status[inv[c]] = "completed" /\ source[inv[c]] = "tool"
          /\ revision[inv[c]] < MaxRevision
          /\ Bump(inv[c])
    /\ End(c)
    /\ UNCHANGED <<status, attempts, owner, lease, source, receipt, reopened,
                   view, worldVars>>

\* The process dies, or a store call that execute does not catch rejects; a
\* lost acknowledgement of claim() or releaseUnstarted() ends the call too.
Crash(c) ==
    /\ pc[c] # "idle"
    /\ End(c)
    /\ UNCHANGED <<rowVars, view, worldVars>>

-----------------------------------------------------------------------------
(* Expiry and operators.                                                   *)

\* Mistake: expired writes are left for somebody else.
ReconcileExpiredReads(i) ==
    /\ Expired(i) /\ MayRetryUnattended(i)
    /\ Leave(i, "retryable")
    /\ UNCHANGED <<source, receipt, reopened, callVars, view, worldVars>>

\* reconcileExpiredForTask, one row at a time: each row is its own
\* transaction, which checks status and lease again.
ReconcileExpired(i) ==
    /\ Expired(i)
    /\ Leave(i, IF MayRetryUnattended(i) THEN "retryable" ELSE "outcome_unknown")
    /\ UNCHANGED <<source, receipt, reopened, callVars, view, worldVars>>

\* An operator opens an uncertain execution; the page keeps its revision.
Inspect(o, i) ==
    /\ status[i] = "outcome_unknown"
    /\ view' = [view EXCEPT ![o] = [inv |-> i, revision |-> revision[i],
                                    attempts |-> attempts[i]]]
    /\ UNCHANGED <<rowVars, callVars, worldVars>>

\* Mistake: the revision inspected is not compared.
MayResolveAnyRevision(o) == status[view[o].inv] = "outcome_unknown"

\* resolveUnknown: the decision counts only for the revision inspected.
MayResolve(o) ==
    /\ status[view[o].inv] = "outcome_unknown"
    /\ revision[view[o].inv] = view[o].revision

Resolve(o, happened) ==
    LET i == view[o].inv IN
    /\ i # NoInvocation
    /\ IF ~MayResolve(o) THEN UNCHANGED rowVars
       ELSE /\ Leave(i, IF happened THEN "completed" ELSE "retryable")
            /\ source' = [source EXCEPT ![i] = IF happened THEN "human-confirmed" ELSE @]
            /\ reopened' = [reopened EXCEPT ![i] = IF happened THEN @ ELSE @ + 1]
            /\ UNCHANGED receipt
    /\ view' = [view EXCEPT ![o] = NoView]
    /\ UNCHANGED <<callVars, worldVars>>

\* One heartbeat interval passes.
Tick ==
    /\ \E i \in Invocation : lease[i] > 0
    /\ lease' = [i \in Invocation |-> IF lease[i] > 0 THEN lease[i] - 1 ELSE 0]
    /\ UNCHANGED <<status, attempts, revision, owner, source, receipt, reopened,
                   callVars, view, worldVars>>

CallerStep(c) ==
    \/ ReleaseUnstarted(c) \/ Dispatch(c)
    \/ Renew(c) \/ RenewFails(c)
    \/ HandlerReturns(c, TRUE) \/ HandlerReturns(c, FALSE)
    \/ SkipComplete(c) \/ Complete(c) \/ CompleteUnconfirmed(c)
    \/ RecheckReplay(c) \/ RecheckUnconfirmed(c)
    \/ MarkUnknown(c) \/ Annotate(c) \/ Crash(c)

Next ==
    \/ \E c \in Caller : CallerStep(c)
    \/ \E c \in Caller, i \in Invocation :
         ClaimGranted(c, i) \/ ClaimExpired(c, i) \/ ClaimReplay(c, i)
    \/ \E i \in Invocation : Land(i) \/ ReconcileExpired(i)
    \/ \E o \in Operator, i \in Invocation : Inspect(o, i)
    \/ \E o \in Operator, happened \in BOOLEAN : Resolve(o, happened)
    \/ Tick

Spec == Init /\ [][Next]_vars

(***************************************************************************)
(* Fairness.  Wall-clock time passes, and a call that is not torn down     *)
(* goes on (its handler is bounded by withTimeout).  Nothing else drives   *)
(* itself: new claims, crashes, external effects and operators are not     *)
(* assumed to happen, nor is reconcileExpiredForTask, which runs only when *)
(* somebody lists the executions of the task or resumes it.                *)
(***************************************************************************)
CallEnds(c) ==
    \/ ReleaseUnstarted(c) \/ Dispatch(c) \/ HandlerReturns(c, FALSE) \/ SkipComplete(c)
    \/ Complete(c) \/ CompleteUnconfirmed(c) \/ RecheckReplay(c)
    \/ RecheckUnconfirmed(c) \/ MarkUnknown(c) \/ Annotate(c)

FairSpec ==
    /\ Spec
    /\ WF_vars(Tick)
    /\ \A c \in Caller : WF_vars(CallEnds(c))

-----------------------------------------------------------------------------
(* Properties.                                                             *)

\* Every dispatch of a write is paid for: at any moment it has been handed to the
\* external system at most once more than operators have decided that a run did
\* not happen, whatever crashes, times out, loses an acknowledgement or claims it
\* a second time.  Two runs handed out between the same two decisions are
\* possible, and then one of them is late: claimed before the earlier decision,
\* which found it not yet started, as execute does not look at the lease again
\* between claim() and the handler (toolExecutionStore.claim, execute).
Late(r) == r.epoch < r.decided
DispatchesArePaidFor ==
    \A i \in WriteInvocation :
        /\ Cardinality(dispatched[i]) <= 1 + reopened[i]
        /\ \A r, s \in dispatched[i] :
             r # s /\ r.decided = s.decided => Late(r) \/ Late(s)

\* What does not hold because of the late runs: at most one run of a write
\* between two decisions.
OneDispatchBetweenReviews ==
    \A i \in WriteInvocation : \A r, s \in dispatched[i] :
        r.decided = s.decided => r = s

\* An agent is answered only from a completed row, and everyone who runs the
\* same invocation gets the same answer, from whichever caller saved it.
AnswersAgree ==
    \A i \in Invocation :
        answers[i] # {} =>
            /\ status[i] = "completed"
            /\ answers[i] = {receipt[i]}

\* A stored tool receipt is that of the last attempt granted, which was really
\* dispatched, and for a write its effect really happened: a stale owner or a
\* failed write never closes the row (complete, execute).
ReceiptIsEarned ==
    \A i \in Invocation :
        source[i] = "tool" =>
            /\ receipt[i] = attempts[i]
            /\ \E r \in dispatched[i] : r.attempt = receipt[i]
            /\ IsWrite(i) => receipt[i] \in landed[i]

\* Attempts beyond the unattended budget (one for a write, MaxReadAttempts for
\* a read-only tool) are each paid for by a release before dispatch or by an
\* operator's "confirmed-not-executed" (claim, reconcileExpiredForTask).
Budget(i) == IF IsWrite(i) THEN 1 ELSE MaxReadAttempts
AttemptsAccounted ==
    \A i \in Invocation :
        attempts[i] <= Budget(i) + released[i] + reopened[i]

\* An uncertain outcome is closed only by an operator who inspected this very
\* attempt, never by a page left open since an earlier one (resolveUnknown).
ReviewIsCurrent ==
    [][\A i \in Invocation :
          /\ status[i] = "outcome_unknown"
          /\ status'[i] # "outcome_unknown"
          => \E o \in Operator : /\ view[o].inv = i
                                 /\ view[o].attempts = attempts[i]
                                 /\ view'[o] = NoView]_vars

\* A claimed row does not stay "executing" for ever, whatever happens to the
\* process that claimed it, as long as somebody keeps looking: an expired row is
\* settled when the executions of its task are listed or the task is resumed, and
\* by nothing else (reconcileExpiredForTask, taskApi).
SomebodyLooks == \A i \in Invocation : WF_vars(ReconcileExpired(i))
ExecutionSettles ==
    SomebodyLooks =>
        \A i \in Invocation : status[i] = "executing" ~> status[i] # "executing"

-----------------------------------------------------------------------------
(* Why the properties hold: the inductive invariant behind them.           *)

Claimed(c, i) == pc[c] = "claimed" /\ inv[c] = i
InFlight(c, i) ==
    /\ pc[c] \in {"running", "returned", "unsure", "unknown"}
    /\ inv[c] = i

\* No permission of a write is used by two runs.
UsedOnceInv ==
    \A i \in WriteInvocation : \A r, s \in dispatched[i] : r.epoch = s.epoch => r = s

\* No run and no claim of a write is ahead of the operators' decisions.
RunEpochInv ==
    \A i \in WriteInvocation : \A r \in dispatched[i] :
        r.epoch <= r.decided /\ r.epoch <= reopened[i]

\* A claimed caller of a write holds a permission no run has used; while its
\* lease is the row's, that permission is the current one.
ClaimEpochInv ==
    \A c \in Caller, i \in WriteInvocation : Claimed(c, i) =>
        /\ epoch[c] <= reopened[i]
        /\ \A r \in dispatched[i] : r.epoch # epoch[c]
        /\ Owned(c, TRUE) => epoch[c] = reopened[i]

\* Two callers never hold the same permission.
ClaimUniqueInv ==
    \A c, d \in Caller, i \in WriteInvocation :
        Claimed(c, i) /\ Claimed(d, i) /\ epoch[c] = epoch[d] => c = d

\* While a write can be claimed its current permission is neither held nor used.
OpenEpochInv ==
    \A i \in WriteInvocation : status[i] \in {"absent", "retryable"} =>
        /\ \A r \in dispatched[i] : r.epoch < reopened[i]
        /\ \A c \in Caller : Claimed(c, i) => epoch[c] < reopened[i]

\* Attempt numbers identify leases: nobody holds a later one than the row's,
\* nor a permission the operators have not given yet, and an executing row is
\* owned by its last attempt.
HeldAttemptInv ==
    \A c \in Caller, i \in Invocation :
        Claimed(c, i) \/ InFlight(c, i) =>
            attempt[c] <= attempts[i] /\ epoch[c] <= reopened[i]
OwnerInv ==
    \A i \in Invocation : status[i] = "executing" => owner[i] = attempts[i]

\* A row that can be claimed has room for one more attempt.
OpenBudgetInv ==
    \A i \in Invocation : status[i] \in {"absent", "retryable"} =>
        attempts[i] < Budget(i) + released[i] + reopened[i]

\* A caller past dispatch holds a dispatched run; a successful write landed.
RunInv ==
    \A c \in Caller, i \in Invocation : InFlight(c, i) =>
        /\ \E r \in dispatched[i] : r.attempt = attempt[c] /\ r.epoch = epoch[c]
        /\ pc[c] = "returned" /\ ok[c] /\ IsWrite(i)
             => attempt[c] \in landed[i]

\* Only a completed row has a receipt.
SourceInv ==
    \A i \in Invocation :
        /\ source[i] = "tool" => status[i] = "completed"
        /\ source[i] # "tool" => receipt[i] = 0

\* A page never shows a later revision than the row's, and a page that shows
\* the row's revision shows its attempt.
ViewInv ==
    \A o \in Operator : view[o].inv # NoInvocation =>
        /\ view[o].revision <= revision[view[o].inv]
        /\ view[o].revision = revision[view[o].inv]
             => view[o].attempts = attempts[view[o].inv]

LedgerInv ==
    /\ UsedOnceInv /\ RunEpochInv /\ ClaimEpochInv /\ ClaimUniqueInv
    /\ OpenEpochInv
    /\ AttemptsAccounted /\ OpenBudgetInv /\ HeldAttemptInv /\ OwnerInv
    /\ ReceiptIsEarned /\ AnswersAgree /\ RunInv /\ SourceInv /\ ViewInv

-----------------------------------------------------------------------------
(* Refinement.                                                             *)

\* The ledger, its callers and its operators implement ReviewedExecution: the
\* row's status is the phase, the stored receipt is the result.
PhaseOf(s) ==
    CASE s \in {"absent", "retryable"} -> "open"
      [] s = "executing" -> "busy"
      [] s = "outcome_unknown" -> "uncertain"
      [] s = "completed" -> "done"

Reviewed == INSTANCE ReviewedExecution WITH
    phase   <- [i \in Invocation |-> PhaseOf(status[i])],
    reviews <- reopened,
    runs    <- dispatched,
    result  <- receipt,
    answers <- answers

\* Every step of the ledger is a step of the abstract promise or a stutter.
ImplementsReviewed == Reviewed!AbsSpec
=============================================================================
