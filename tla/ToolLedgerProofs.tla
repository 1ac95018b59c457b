-------------------------- MODULE ToolLedgerProofs --------------------------
(***************************************************************************)
(* Proofs about ToolLedger, for any invocations, callers, operators, lease *)
(* length, attempt budget and revision bound: every variable keeps its     *)
(* type; LedgerInv is inductive (one lemma per conjunct, each with one     *)
(* case per action); the safety properties that follow from it; and every  *)
(* step of the ledger is a step of ReviewedExecution or none of it.        *)
(***************************************************************************)
EXTENDS ToolLedger, FiniteSetTheorems, TLAPS

-----------------------------------------------------------------------------
(* The building blocks of the actions keep their part of the type          *)
(* invariant.                                                              *)

\* A row that leaves "executing", or is resolved, stays well typed.
LEMMA LeaveTyped ==
  ASSUME RowTypeOK, NEW i \in Invocation, NEW s \in Status, Leave(i, s),
         UNCHANGED <<source, receipt, reopened>>
  PROVE  RowTypeOK'
BY DEF RowTypeOK, Leave, Bump

\* Storing a receipt keeps the row well typed.
LEMMA SaveReceiptTyped ==
  ASSUME RowTypeOK, NEW i \in Invocation, NEW a \in Nat, SaveReceipt(i, a)
  PROVE  RowTypeOK'
BY DEF RowTypeOK, SaveReceipt, Leave, Bump, Status, Source

\* An unchanged row stays well typed.
LEMMA RowUnchangedTyped ==
  ASSUME RowTypeOK, UNCHANGED rowVars
  PROVE  RowTypeOK'
BY DEF RowTypeOK, rowVars

\* Moving a call to its next await keeps its state well typed.
LEMMA GotoTyped ==
  ASSUME CallTypeOK, NEW c \in Caller, NEW p \in PC, pc[c] # "idle", Goto(c, p)
  PROVE  CallTypeOK'
BY DEF CallTypeOK, Goto

\* Ending a call resets its state to well-typed values.
LEMMA EndTyped ==
  ASSUME CallTypeOK, NEW c \in Caller, End(c)
  PROVE  CallTypeOK'
<1>1. \A d \in Caller : d # c => pc'[d] = pc[d] /\ inv'[d] = inv[d]
  BY DEF CallTypeOK, End
<1>2. pc'[c] = "idle"
  BY DEF CallTypeOK, End
<1> QED
  BY <1>1, <1>2 DEF CallTypeOK, End, PC

\* Unchanged calls stay well typed.
LEMMA CallUnchangedTyped ==
  ASSUME CallTypeOK, UNCHANGED callVars
  PROVE  CallTypeOK'
BY DEF CallTypeOK, callVars

\* Recording an answer keeps the history well typed.
LEMMA ReplyTyped ==
  ASSUME WorldTypeOK, NEW i \in Invocation, NEW a \in Nat, Reply(i, a),
         UNCHANGED <<dispatched, landed, released>>
  PROVE  WorldTypeOK'
BY DEF WorldTypeOK, Reply

\* An unchanged outside world stays well typed.
LEMMA WorldUnchangedTyped ==
  ASSUME WorldTypeOK, UNCHANGED worldVars
  PROVE  WorldTypeOK'
BY DEF WorldTypeOK, worldVars

\* A caller in the middle of a call works on a real row.
LEMMA BusyCaller ==
  ASSUME TypeOK, NEW c \in Caller, pc[c] # "idle"
  PROVE  inv[c] \in Invocation /\ attempt[c] \in Nat /\ epoch[c] \in Nat
BY DEF TypeOK, CallTypeOK

-----------------------------------------------------------------------------
\* No step takes a variable out of its type.
LEMMA TypeStep ==
  ASSUME TypeOK, [Next]_vars
  PROVE  TypeOK'
<1>0. RowTypeOK /\ CallTypeOK /\ WorldTypeOK
  BY DEF TypeOK
<1>1. ASSUME NEW c \in Caller, CallerStep(c) PROVE TypeOK'
  <2> USE BusyCaller DEF TypeOK
  <2>1. CASE ReleaseUnstarted(c)
    <3>1. RowTypeOK' /\ WorldTypeOK'
      <4>1. CASE Owned(c, TRUE)
        BY <2>1, <4>1, LeaveTyped DEF ReleaseUnstarted, Status, WorldTypeOK
      <4>2. CASE ~Owned(c, TRUE)
        BY <2>1, <4>2, RowUnchangedTyped DEF ReleaseUnstarted, WorldTypeOK
      <4> QED
        BY <4>1, <4>2
    <3> QED
      BY <2>1, <3>1, EndTyped DEF ReleaseUnstarted
  <2>2. CASE Dispatch(c)
    <3>1. WorldTypeOK'
      <4> DEFINE i == inv[c]
                 r == [attempt |-> attempt[c], epoch |-> epoch[c], decided |-> reopened[i]]
      <4>1. i \in Invocation /\ r \in Run
        BY <2>2, BusyCaller DEF Dispatch, Run, TypeOK, RowTypeOK, CallTypeOK
      <4>2. /\ dispatched' = [dispatched EXCEPT ![i] = @ \cup {r}]
            /\ UNCHANGED <<landed, answers, released>>
        BY <2>2 DEF Dispatch
      <4> HIDE DEF i, r
      <4> QED
        BY <4>1, <4>2 DEF TypeOK, WorldTypeOK
    <3> QED
      BY <2>2, <3>1, GotoTyped, RowUnchangedTyped DEF Dispatch, PC
  <2>3. CASE Renew(c)
    <3>1. CASE Owned(c, FALSE)
      <4>1. RowTypeOK'
        BY <2>3, <3>1, LedgerAssumption DEF Renew, RowTypeOK, Bump
      <4> QED
        BY <2>3, <3>1, <4>1, CallUnchangedTyped, WorldUnchangedTyped DEF Renew
    <3>2. CASE ~Owned(c, FALSE)
      <4>1. CallTypeOK'
        BY <2>3, <3>2 DEF Renew, LoseLease, CallTypeOK
      <4> QED
        BY <2>3, <3>2, <4>1, RowUnchangedTyped, WorldUnchangedTyped DEF Renew
    <3> QED
      BY <3>1, <3>2
  <2>4. CASE RenewFails(c)
    <3>1. CallTypeOK'
      BY <2>4 DEF RenewFails, LoseLease, CallTypeOK
    <3> QED
      BY <2>4, <3>1, RowUnchangedTyped, WorldUnchangedTyped DEF RenewFails
  <2>5. ASSUME NEW success \in BOOLEAN, HandlerReturns(c, success)
        PROVE  TypeOK'
    <3>1. CallTypeOK'
      BY <2>5 DEF HandlerReturns, CallTypeOK, PC
    <3> QED
      BY <2>5, <3>1, RowUnchangedTyped, WorldUnchangedTyped DEF HandlerReturns
  <2>6. CASE SkipComplete(c)
    BY <2>6, GotoTyped, RowUnchangedTyped, WorldUnchangedTyped
    DEF SkipComplete, PC
  <2>7. CASE Complete(c)
    BY <2>7, GotoTyped, SaveReceiptTyped, ReplyTyped
    DEF Complete, MayComplete, PC
  <2>8. CASE CompleteUnconfirmed(c)
    <3>1. RowTypeOK'
      BY <2>8, SaveReceiptTyped, RowUnchangedTyped
      DEF CompleteUnconfirmed, MayComplete
    <3> QED
      BY <2>8, <3>1, GotoTyped, WorldUnchangedTyped
      DEF CompleteUnconfirmed, MayComplete, PC
  <2>9. CASE RecheckReplay(c)
    <3>1. receipt[inv[c]] \in Nat
      BY <2>9 DEF RecheckReplay, RowTypeOK
    <3> QED
      BY <2>9, <3>1, GotoTyped, RowUnchangedTyped, ReplyTyped
      DEF RecheckReplay, PC
  <2>10. CASE RecheckUnconfirmed(c)
    <3>1. CallTypeOK'
      BY <2>10, GotoTyped, EndTyped DEF RecheckUnconfirmed, PC
    <3> QED
      BY <2>10, <3>1, RowUnchangedTyped, WorldUnchangedTyped
      DEF RecheckUnconfirmed
  <2>11. CASE MarkUnknown(c)
    <3>1. RowTypeOK'
      BY <2>11, LeaveTyped, RowUnchangedTyped DEF MarkUnknown, Status
    <3> QED
      BY <2>11, <3>1, EndTyped, WorldUnchangedTyped DEF MarkUnknown
  <2>12. CASE Annotate(c)
    <3>1. RowTypeOK'
      BY <2>12 DEF Annotate, RowTypeOK, Bump
    <3> QED
      BY <2>12, <3>1, EndTyped, WorldUnchangedTyped DEF Annotate
  <2>13. CASE Crash(c)
    BY <2>13, EndTyped, RowUnchangedTyped, WorldUnchangedTyped DEF Crash
  <2> QED
    BY <1>1, <2>1, <2>2, <2>3, <2>4, <2>5, <2>6, <2>7, <2>8, <2>9, <2>10,
       <2>11, <2>12, <2>13 DEF CallerStep
<1>2. ASSUME NEW c \in Caller, NEW i \in Invocation, ClaimGranted(c, i)
      PROVE  TypeOK'
  <2>1. RowTypeOK'
    BY <1>0, <1>2, LedgerAssumption DEF ClaimGranted, RowTypeOK, Bump, Status
  <2>2. CallTypeOK'
    BY <1>0, <1>2 DEF ClaimGranted, CallTypeOK, RowTypeOK, PC
  <2> QED
    BY <1>2, <2>1, <2>2, WorldUnchangedTyped DEF ClaimGranted, TypeOK
<1>3. ASSUME NEW c \in Caller, NEW i \in Invocation, ClaimExpired(c, i)
      PROVE  TypeOK'
  BY <1>3, LeaveTyped, CallUnchangedTyped, WorldUnchangedTyped
  DEF ClaimExpired, TypeOK, Status
<1>4. ASSUME NEW c \in Caller, NEW i \in Invocation, ClaimReplay(c, i)
      PROVE  TypeOK'
  <2>1. CallTypeOK'
    <3>1. CASE source[i] = "tool"
      BY <1>0, <1>4, <3>1 DEF ClaimReplay, CallTypeOK, PC
    <3>2. CASE source[i] # "tool"
      BY <1>0, <1>4, <3>2 DEF ClaimReplay, CallTypeOK
    <3> QED
      BY <3>1, <3>2
  <2>2. receipt[i] \in Nat
    BY <1>0 DEF RowTypeOK
  <2> QED
    BY <1>4, <2>1, <2>2, RowUnchangedTyped, ReplyTyped DEF ClaimReplay, TypeOK
<1>5. ASSUME NEW i \in Invocation, Land(i) PROVE TypeOK'
  <2>1. WorldTypeOK'
    BY <1>0, <1>5 DEF Land, WorldTypeOK, Run
  <2> QED
    BY <1>5, <2>1, RowUnchangedTyped, CallUnchangedTyped DEF Land, TypeOK
<1>6. ASSUME NEW i \in Invocation, ReconcileExpired(i) PROVE TypeOK'
  BY <1>6, LeaveTyped, CallUnchangedTyped, WorldUnchangedTyped
  DEF ReconcileExpired, TypeOK, Status
<1>7. ASSUME NEW o \in Operator, NEW i \in Invocation, Inspect(o, i)
      PROVE  TypeOK'
  <2>1. view' \in [Operator -> View]
    BY <1>0, <1>7 DEF Inspect, TypeOK, RowTypeOK, View
  <2> QED
    BY <1>7, <2>1, RowUnchangedTyped, CallUnchangedTyped, WorldUnchangedTyped
    DEF Inspect, TypeOK
<1>8. ASSUME NEW o \in Operator, NEW happened \in BOOLEAN, Resolve(o, happened)
      PROVE  TypeOK'
  <2>1. view[o].inv \in Invocation
    BY <1>8 DEF Resolve, TypeOK, View
  <2>2. RowTypeOK'
    <3>1. CASE MayResolve(o)
      BY <1>0, <1>8, <2>1, <3>1
      DEF Resolve, RowTypeOK, Leave, Bump, Status, Source
    <3>2. CASE ~MayResolve(o)
      BY <1>0, <1>8, <3>2, RowUnchangedTyped DEF Resolve
    <3> QED
      BY <3>1, <3>2
  <2>3. view' \in [Operator -> View]
    BY <1>8 DEF Resolve, TypeOK, View, NoView
  <2> QED
    BY <1>8, <2>2, <2>3, CallUnchangedTyped, WorldUnchangedTyped
    DEF Resolve, TypeOK
<1>9. CASE Tick
  <2>1. RowTypeOK'
    BY <1>0, <1>9 DEF Tick, RowTypeOK
  <2> QED
    BY <1>9, <2>1, CallUnchangedTyped, WorldUnchangedTyped DEF Tick, TypeOK
<1>10. CASE UNCHANGED vars
  BY <1>10, RowUnchangedTyped, CallUnchangedTyped, WorldUnchangedTyped
  DEF vars, TypeOK
<1> QED
  BY <1>1, <1>2, <1>3, <1>4, <1>5, <1>6, <1>7, <1>8, <1>9, <1>10 DEF Next

\* Every variable keeps its type.
THEOREM TypeCorrect == Spec => []TypeOK
<1>1. Init => TypeOK
  BY DEF Init, TypeOK, RowTypeOK, CallTypeOK, WorldTypeOK, Status, Source, PC,
         Run, NoView, View
<1>2. TypeOK /\ [Next]_vars => TypeOK'
  BY TypeStep
<1> QED
  BY <1>1, <1>2, PTL DEF Spec

-----------------------------------------------------------------------------
(* The inductive invariant.                                                *)

\* The numbers the budget is made of.
LEMMA CountersAreNat ==
  ASSUME TypeOK, NEW i \in Invocation
  PROVE  /\ attempts[i] \in Nat /\ released[i] \in Nat /\ reopened[i] \in Nat
         /\ Budget(i) \in Nat
BY LedgerAssumption DEF TypeOK, RowTypeOK, WorldTypeOK, Budget

\* A caller that may complete and still owns the row saves an earned receipt.
LEMMA SavedIsEarned ==
  ASSUME TypeOK, LedgerInv, NEW c \in Caller, MayComplete(c), Owned(c, FALSE),
         SaveReceipt(inv[c], attempt[c]), UNCHANGED <<dispatched, landed>>
  PROVE  ReceiptIsEarned'
<1> DEFINE i == inv[c]
           a == attempt[c]
<1>1. i \in Invocation
  BY BusyCaller DEF MayComplete
<1>2. a = attempts[i]
  BY <1>1 DEF Owned, LedgerInv, OwnerInv
<1>3. /\ \E r \in dispatched[i] : r.attempt = a
      /\ IsWrite(i) => a \in landed[i]
  BY <1>1 DEF MayComplete, MustReview, IsWrite, LedgerInv, RunInv, InFlight
<1>4. /\ attempts' = attempts
      /\ source' = [source EXCEPT ![i] = "tool"]
      /\ receipt' = [receipt EXCEPT ![i] = a]
  BY DEF SaveReceipt, Leave
<1> HIDE DEF i, a
<1>5. /\ receipt'[i] = a
      /\ \A j \in Invocation \ {i} :
           source'[j] = source[j] /\ receipt'[j] = receipt[j]
  BY <1>1, <1>4 DEF TypeOK, RowTypeOK
<1> QED
  BY <1>1, <1>2, <1>3, <1>4, <1>5 DEF LedgerInv, ReceiptIsEarned, IsWrite

\* An executing row is owned by its last attempt.
LEMMA OwnerStep ==
  ASSUME TypeOK, LedgerInv, [Next]_vars
  PROVE  OwnerInv'
<1> USE DEF LedgerInv, OwnerInv
<1>1. ASSUME NEW c \in Caller, CallerStep(c) PROVE OwnerInv'
  <2>1. CASE Dispatch(c) \/ Renew(c) \/ RenewFails(c) \/ SkipComplete(c) \/
            RecheckReplay(c) \/ RecheckUnconfirmed(c) \/ Annotate(c) \/
            Crash(c) \/ HandlerReturns(c, TRUE) \/ HandlerReturns(c, FALSE)
    BY <2>1, BusyCaller
    DEF TypeOK, RowTypeOK, CallTypeOK, Dispatch, Renew, RenewFails,
        HandlerReturns, SkipComplete, RecheckReplay, RecheckUnconfirmed,
        Annotate, Crash, rowVars, IsWrite, Owned, Goto, End, Reply, LoseLease,
        MustReview, MayComplete
  <2>2. CASE ReleaseUnstarted(c)
    BY <2>2, BusyCaller
    DEF TypeOK, RowTypeOK, CallTypeOK, ReleaseUnstarted, rowVars, Owned,
        Leave, End
  <2>3. CASE Complete(c)
    BY <2>3, BusyCaller
    DEF TypeOK, RowTypeOK, CallTypeOK, Complete, IsWrite, Owned, Leave,
        SaveReceipt, Goto, Reply, MustReview, MayComplete
  <2>4. CASE CompleteUnconfirmed(c)
    BY <2>4, BusyCaller
    DEF TypeOK, RowTypeOK, CallTypeOK, CompleteUnconfirmed, rowVars, IsWrite,
        Owned, Leave, SaveReceipt, Goto, MustReview, MayComplete
  <2>5. CASE MarkUnknown(c)
    BY <2>5, BusyCaller
    DEF TypeOK, RowTypeOK, CallTypeOK, MarkUnknown, rowVars, Owned, Leave, End
  <2> QED
    BY <1>1, <2>1, <2>2, <2>3, <2>4, <2>5
    DEF CallerStep
<1>2. ASSUME NEW c \in Caller, NEW i \in Invocation, ClaimGranted(c, i)
      PROVE  OwnerInv'
  BY <1>2, LedgerAssumption
  DEF TypeOK, RowTypeOK, ClaimGranted, IsWrite, Expired, MayRetryUnattended,
      Claimable
<1>3. ASSUME NEW c \in Caller, NEW i \in Invocation, ClaimExpired(c, i)
      PROVE  OwnerInv'
  BY <1>3, LedgerAssumption
  DEF TypeOK, RowTypeOK, ClaimExpired, IsWrite, Expired, MayRetryUnattended,
      Leave
<1>4. ASSUME NEW c \in Caller, NEW i \in Invocation, ClaimReplay(c, i)
      PROVE  OwnerInv'
  BY <1>4, LedgerAssumption
  DEF TypeOK, RowTypeOK, ClaimReplay, rowVars, Reply
<1>5. ASSUME NEW i \in Invocation, Land(i)
      PROVE  OwnerInv'
  BY <1>5, LedgerAssumption
  DEF TypeOK, RowTypeOK, Land, rowVars, IsWrite
<1>6. ASSUME NEW i \in Invocation, ReconcileExpired(i)
      PROVE  OwnerInv'
  BY <1>6, LedgerAssumption
  DEF TypeOK, RowTypeOK, ReconcileExpired, IsWrite, Expired,
      MayRetryUnattended, Leave
<1>7. ASSUME NEW o \in Operator, NEW i \in Invocation, Inspect(o, i)
      PROVE  OwnerInv'
  BY <1>7, LedgerAssumption
  DEF TypeOK, RowTypeOK, Inspect, rowVars
<1>8. ASSUME NEW o \in Operator, NEW h \in BOOLEAN, Resolve(o, h)
      PROVE  OwnerInv'
  BY <1>8, LedgerAssumption
  DEF TypeOK, RowTypeOK, Resolve, rowVars, View, Leave, MayResolve
<1>9. CASE Tick \/ UNCHANGED vars
  BY <1>9
  DEF TypeOK, RowTypeOK, Tick, vars, rowVars, callVars, worldVars
<1> QED
  BY <1>1, <1>2, <1>3, <1>4, <1>5, <1>6, <1>7, <1>8, <1>9
  DEF Next

\* Nobody holds a later attempt than the row's last.
LEMMA HeldStep ==
  ASSUME TypeOK, LedgerInv, [Next]_vars
  PROVE  HeldAttemptInv'
<1> USE DEF LedgerInv, HeldAttemptInv, Claimed, InFlight
<1>1. ASSUME NEW c \in Caller, CallerStep(c) PROVE HeldAttemptInv'
  <2>1. CASE Dispatch(c) \/ Renew(c) \/ RenewFails(c) \/ SkipComplete(c) \/
            RecheckReplay(c) \/ RecheckUnconfirmed(c) \/ Annotate(c) \/
            Crash(c) \/ HandlerReturns(c, TRUE) \/ HandlerReturns(c, FALSE)
    BY <2>1, BusyCaller
    DEF TypeOK, RowTypeOK, CallTypeOK, Dispatch, Renew, RenewFails,
        HandlerReturns, SkipComplete, RecheckReplay, RecheckUnconfirmed,
        Annotate, Crash, rowVars, callVars, IsWrite, Owned, Goto, End, Reply,
        LoseLease, MustReview, MayComplete
  <2>2. CASE ReleaseUnstarted(c)
    BY <2>2, BusyCaller
    DEF TypeOK, RowTypeOK, CallTypeOK, ReleaseUnstarted, rowVars, Owned,
        Leave, End
  <2>3. CASE Complete(c)
    BY <2>3, BusyCaller
    DEF TypeOK, RowTypeOK, CallTypeOK, Complete, IsWrite, Owned, Leave,
        SaveReceipt, Goto, Reply, MustReview, MayComplete
  <2>4. CASE CompleteUnconfirmed(c)
    BY <2>4, BusyCaller
    DEF TypeOK, RowTypeOK, CallTypeOK, CompleteUnconfirmed, rowVars, IsWrite,
        Owned, Leave, SaveReceipt, Goto, MustReview, MayComplete
  <2>5. CASE MarkUnknown(c)
    BY <2>5, BusyCaller
    DEF TypeOK, RowTypeOK, CallTypeOK, MarkUnknown, rowVars, Owned, Leave, End
  <2> QED
    BY <1>1, <2>1, <2>2, <2>3, <2>4, <2>5
    DEF CallerStep
<1>2. ASSUME NEW c \in Caller, NEW i \in Invocation, ClaimGranted(c, i)
      PROVE  HeldAttemptInv'
  BY <1>2, LedgerAssumption
  DEF TypeOK, RowTypeOK, CallTypeOK, ClaimGranted, IsWrite, Expired,
      MayRetryUnattended, Claimable
<1>3. ASSUME NEW c \in Caller, NEW i \in Invocation, ClaimExpired(c, i)
      PROVE  HeldAttemptInv'
  BY <1>3, LedgerAssumption
  DEF TypeOK, RowTypeOK, CallTypeOK, ClaimExpired, callVars, IsWrite, Expired,
      MayRetryUnattended, Leave
<1>4. ASSUME NEW c \in Caller, NEW i \in Invocation, ClaimReplay(c, i)
      PROVE  HeldAttemptInv'
  BY <1>4, LedgerAssumption
  DEF TypeOK, RowTypeOK, CallTypeOK, ClaimReplay, rowVars, Reply
<1>5. ASSUME NEW i \in Invocation, Land(i)
      PROVE  HeldAttemptInv'
  BY <1>5, LedgerAssumption
  DEF TypeOK, RowTypeOK, CallTypeOK, Land, rowVars, callVars, IsWrite
<1>6. ASSUME NEW i \in Invocation, ReconcileExpired(i)
      PROVE  HeldAttemptInv'
  BY <1>6, LedgerAssumption
  DEF TypeOK, RowTypeOK, CallTypeOK, ReconcileExpired, callVars, IsWrite,
      Expired, MayRetryUnattended, Leave
<1>7. ASSUME NEW o \in Operator, NEW i \in Invocation, Inspect(o, i)
      PROVE  HeldAttemptInv'
  BY <1>7, LedgerAssumption
  DEF TypeOK, RowTypeOK, CallTypeOK, Inspect, rowVars, callVars
<1>8. ASSUME NEW o \in Operator, NEW h \in BOOLEAN, Resolve(o, h)
      PROVE  HeldAttemptInv'
  BY <1>8, LedgerAssumption
  DEF TypeOK, RowTypeOK, CallTypeOK, Resolve, rowVars, callVars, View, Leave,
      MayResolve
<1>9. CASE Tick \/ UNCHANGED vars
  BY <1>9
  DEF TypeOK, RowTypeOK, CallTypeOK, Tick, vars, rowVars, callVars, worldVars
<1> QED
  BY <1>1, <1>2, <1>3, <1>4, <1>5, <1>6, <1>7, <1>8, <1>9
  DEF Next

\* A claimable row has room for one more attempt.
LEMMA OpenBudgetStep ==
  ASSUME TypeOK, LedgerInv, [Next]_vars
  PROVE  OpenBudgetInv'
<1> USE DEF LedgerInv, OpenBudgetInv, AttemptsAccounted
<1>1. ASSUME NEW c \in Caller, CallerStep(c) PROVE OpenBudgetInv'
  <2>1. CASE Dispatch(c) \/ Renew(c) \/ RenewFails(c) \/ SkipComplete(c) \/
            RecheckReplay(c) \/ RecheckUnconfirmed(c) \/ Annotate(c) \/
            Crash(c) \/ HandlerReturns(c, TRUE) \/ HandlerReturns(c, FALSE)
    BY <2>1, BusyCaller
    DEF TypeOK, RowTypeOK, CallTypeOK, WorldTypeOK, Dispatch, Renew,
        RenewFails, HandlerReturns, SkipComplete, RecheckReplay,
        RecheckUnconfirmed, Annotate, Crash, rowVars, worldVars, IsWrite,
        Owned, Goto, End, Reply, LoseLease, MustReview, MayComplete, Budget
  <2>2. CASE ReleaseUnstarted(c)
    <3>1. CASE Owned(c, TRUE)
      <4> DEFINE i == inv[c]
      <4>1. i \in Invocation
        BY <2>2, BusyCaller DEF ReleaseUnstarted
      <4>2. /\ attempts' = attempts /\ reopened' = reopened
            /\ released' = [released EXCEPT ![i] = @ + 1]
            /\ status' = [status EXCEPT ![i] = "retryable"]
        BY <2>2, <3>1 DEF ReleaseUnstarted, Leave
      <4> HIDE DEF i
      <4>3. /\ released'[i] = released[i] + 1
            /\ \A j \in Invocation \ {i} :
                 released'[j] = released[j] /\ status'[j] = status[j]
        BY <4>1, <4>2 DEF TypeOK, RowTypeOK, WorldTypeOK
      <4> QED
        BY <4>1, <4>2, <4>3, CountersAreNat DEF Budget, IsWrite
    <3>2. CASE ~Owned(c, TRUE)
      BY <2>2, <3>2 DEF ReleaseUnstarted, rowVars
    <3> QED
      BY <3>1, <3>2
  <2>3. CASE Complete(c)
    BY <2>3, BusyCaller
    DEF TypeOK, RowTypeOK, CallTypeOK, WorldTypeOK, Complete, IsWrite, Owned,
        Leave, SaveReceipt, Goto, Reply, MustReview, MayComplete, Budget
  <2>4. CASE CompleteUnconfirmed(c)
    BY <2>4, BusyCaller
    DEF TypeOK, RowTypeOK, CallTypeOK, WorldTypeOK, CompleteUnconfirmed,
        rowVars, worldVars, IsWrite, Owned, Leave, SaveReceipt, Goto,
        MustReview, MayComplete, Budget
  <2>5. CASE MarkUnknown(c)
    BY <2>5, BusyCaller
    DEF TypeOK, RowTypeOK, CallTypeOK, WorldTypeOK, MarkUnknown, rowVars,
        worldVars, IsWrite, Owned, Leave, End, Budget
  <2> QED
    BY <1>1, <2>1, <2>2, <2>3, <2>4, <2>5
    DEF CallerStep
<1>2. ASSUME NEW c \in Caller, NEW i \in Invocation, ClaimGranted(c, i)
      PROVE  OpenBudgetInv'
  BY <1>2, LedgerAssumption
  DEF TypeOK, RowTypeOK, WorldTypeOK, ClaimGranted, worldVars, IsWrite,
      Expired, MayRetryUnattended, Claimable, Budget
<1>3. ASSUME NEW c \in Caller, NEW i \in Invocation, ClaimExpired(c, i)
      PROVE  OpenBudgetInv'
  BY <1>3, LedgerAssumption
  DEF TypeOK, RowTypeOK, WorldTypeOK, ClaimExpired, worldVars, IsWrite,
      Expired, MayRetryUnattended, Leave, Budget
<1>4. ASSUME NEW c \in Caller, NEW i \in Invocation, ClaimReplay(c, i)
      PROVE  OpenBudgetInv'
  BY <1>4, LedgerAssumption
  DEF TypeOK, RowTypeOK, WorldTypeOK, ClaimReplay, rowVars, IsWrite, Reply,
      Budget
<1>5. ASSUME NEW i \in Invocation, Land(i)
      PROVE  OpenBudgetInv'
  BY <1>5, LedgerAssumption
  DEF TypeOK, RowTypeOK, WorldTypeOK, Land, rowVars, IsWrite, Budget
<1>6. ASSUME NEW i \in Invocation, ReconcileExpired(i)
      PROVE  OpenBudgetInv'
  BY <1>6, LedgerAssumption
  DEF TypeOK, RowTypeOK, WorldTypeOK, ReconcileExpired, worldVars, IsWrite,
      Expired, MayRetryUnattended, Leave, Budget
<1>7. ASSUME NEW o \in Operator, NEW i \in Invocation, Inspect(o, i)
      PROVE  OpenBudgetInv'
  BY <1>7, LedgerAssumption
  DEF TypeOK, RowTypeOK, WorldTypeOK, Inspect, rowVars, worldVars, IsWrite,
      Budget
<1>8. ASSUME NEW o \in Operator, NEW h \in BOOLEAN, Resolve(o, h)
      PROVE  OpenBudgetInv'
  BY <1>8, LedgerAssumption
  DEF TypeOK, RowTypeOK, WorldTypeOK, Resolve, rowVars, worldVars, View,
      IsWrite, Leave, MayResolve, Budget
<1>9. CASE Tick \/ UNCHANGED vars
  BY <1>9
  DEF TypeOK, RowTypeOK, WorldTypeOK, Tick, IsWrite, Budget, vars, rowVars,
      callVars, worldVars
<1> QED
  BY <1>1, <1>2, <1>3, <1>4, <1>5, <1>6, <1>7, <1>8, <1>9
  DEF Next

\* Every attempt beyond the budget was released or reopened.
LEMMA AccountStep ==
  ASSUME TypeOK, LedgerInv, [Next]_vars
  PROVE  AttemptsAccounted'
<1> USE DEF LedgerInv, AttemptsAccounted, OpenBudgetInv
<1>1. ASSUME NEW c \in Caller, CallerStep(c) PROVE AttemptsAccounted'
  <2>1. CASE Dispatch(c) \/ Renew(c) \/ RenewFails(c) \/ SkipComplete(c) \/
            RecheckReplay(c) \/ RecheckUnconfirmed(c) \/ Annotate(c) \/
            Crash(c) \/ HandlerReturns(c, TRUE) \/ HandlerReturns(c, FALSE)
    BY <2>1, BusyCaller
    DEF TypeOK, RowTypeOK, CallTypeOK, WorldTypeOK, Dispatch, Renew,
        RenewFails, HandlerReturns, SkipComplete, RecheckReplay,
        RecheckUnconfirmed, Annotate, Crash, rowVars, worldVars, IsWrite,
        Owned, Goto, End, Reply, LoseLease, MustReview, MayComplete, Budget
  <2>2. CASE ReleaseUnstarted(c)
    <3>1. CASE Owned(c, TRUE)
      <4> DEFINE i == inv[c]
      <4>1. i \in Invocation
        BY <2>2, BusyCaller DEF ReleaseUnstarted
      <4>2. /\ attempts' = attempts /\ reopened' = reopened
            /\ released' = [released EXCEPT ![i] = @ + 1]
            /\ status' = [status EXCEPT ![i] = "retryable"]
        BY <2>2, <3>1 DEF ReleaseUnstarted, Leave
      <4> HIDE DEF i
      <4>3. /\ released'[i] = released[i] + 1
            /\ \A j \in Invocation \ {i} :
                 released'[j] = released[j] /\ status'[j] = status[j]
        BY <4>1, <4>2 DEF TypeOK, RowTypeOK, WorldTypeOK
      <4> QED
        BY <4>1, <4>2, <4>3, CountersAreNat DEF Budget, IsWrite
    <3>2. CASE ~Owned(c, TRUE)
      BY <2>2, <3>2 DEF ReleaseUnstarted, rowVars
    <3> QED
      BY <3>1, <3>2
  <2>3. CASE Complete(c)
    BY <2>3, BusyCaller
    DEF TypeOK, RowTypeOK, CallTypeOK, WorldTypeOK, Complete, IsWrite, Owned,
        Leave, SaveReceipt, Goto, Reply, MustReview, MayComplete, Budget
  <2>4. CASE CompleteUnconfirmed(c)
    BY <2>4, BusyCaller
    DEF TypeOK, RowTypeOK, CallTypeOK, WorldTypeOK, CompleteUnconfirmed,
        rowVars, worldVars, IsWrite, Owned, Leave, SaveReceipt, Goto,
        MustReview, MayComplete, Budget
  <2>5. CASE MarkUnknown(c)
    BY <2>5, BusyCaller
    DEF TypeOK, RowTypeOK, CallTypeOK, WorldTypeOK, MarkUnknown, rowVars,
        worldVars, IsWrite, Owned, Leave, End, Budget
  <2> QED
    BY <1>1, <2>1, <2>2, <2>3, <2>4, <2>5
    DEF CallerStep
<1>2. ASSUME NEW c \in Caller, NEW i \in Invocation, ClaimGranted(c, i)
      PROVE  AttemptsAccounted'
  BY <1>2, LedgerAssumption
  DEF TypeOK, RowTypeOK, WorldTypeOK, ClaimGranted, worldVars, IsWrite,
      Expired, MayRetryUnattended, Claimable, Budget
<1>3. ASSUME NEW c \in Caller, NEW i \in Invocation, ClaimExpired(c, i)
      PROVE  AttemptsAccounted'
  BY <1>3, LedgerAssumption
  DEF TypeOK, RowTypeOK, WorldTypeOK, ClaimExpired, worldVars, IsWrite,
      Expired, MayRetryUnattended, Leave, Budget
<1>4. ASSUME NEW c \in Caller, NEW i \in Invocation, ClaimReplay(c, i)
      PROVE  AttemptsAccounted'
  BY <1>4, LedgerAssumption
  DEF TypeOK, RowTypeOK, WorldTypeOK, ClaimReplay, rowVars, IsWrite, Reply,
      Budget
<1>5. ASSUME NEW i \in Invocation, Land(i)
      PROVE  AttemptsAccounted'
  BY <1>5, LedgerAssumption
  DEF TypeOK, RowTypeOK, WorldTypeOK, Land, rowVars, IsWrite, Budget
<1>6. ASSUME NEW i \in Invocation, ReconcileExpired(i)
      PROVE  AttemptsAccounted'
  BY <1>6, LedgerAssumption
  DEF TypeOK, RowTypeOK, WorldTypeOK, ReconcileExpired, worldVars, IsWrite,
      Expired, MayRetryUnattended, Leave, Budget
<1>7. ASSUME NEW o \in Operator, NEW i \in Invocation, Inspect(o, i)
      PROVE  AttemptsAccounted'
  BY <1>7, LedgerAssumption
  DEF TypeOK, RowTypeOK, WorldTypeOK, Inspect, rowVars, worldVars, IsWrite,
      Budget
<1>8. ASSUME NEW o \in Operator, NEW h \in BOOLEAN, Resolve(o, h)
      PROVE  AttemptsAccounted'
  <2>1. view[o].inv \in Invocation
    BY <1>8 DEF Resolve, View, TypeOK
  <2>2. CASE ~MayResolve(o)
    BY <1>8, <2>2
    DEF TypeOK, RowTypeOK, WorldTypeOK, Resolve, rowVars, worldVars, IsWrite,
        Budget
  <2>3. CASE MayResolve(o) /\ h
    BY <1>8, <2>1, <2>3
    DEF TypeOK, RowTypeOK, WorldTypeOK, Resolve, rowVars, worldVars, IsWrite,
        Leave, MayResolve, Budget
  <2>4. CASE MayResolve(o) /\ ~h
    <3> DEFINE i == view[o].inv
    <3>1. /\ attempts' = attempts /\ released' = released
          /\ reopened' = [reopened EXCEPT ![i] = @ + 1]
      BY <1>8, <2>4 DEF Resolve, Leave, worldVars
    <3> HIDE DEF i
    <3>2. \A j \in Invocation : reopened'[j] \in Nat /\ reopened'[j] >= reopened[j]
      BY <3>1 DEF TypeOK, RowTypeOK
    <3> QED
      BY <3>1, <3>2, CountersAreNat DEF Budget, IsWrite
  <2> QED
    BY <2>2, <2>3, <2>4
<1>9. CASE Tick \/ UNCHANGED vars
  BY <1>9
  DEF TypeOK, RowTypeOK, WorldTypeOK, Tick, IsWrite, Budget, vars, rowVars,
      callVars, worldVars
<1> QED
  BY <1>1, <1>2, <1>3, <1>4, <1>5, <1>6, <1>7, <1>8, <1>9
  DEF Next

\* A caller that moves on after its run, or ends, leaves the runs as they are.
LEMMA RunsStay ==
  ASSUME TypeOK, RunInv, NEW c \in Caller, UNCHANGED <<dispatched, landed>>,
         \/ \E p \in PC \ {"returned"} :
              pc[c] \in {"running", "returned", "unsure"} /\ Goto(c, p)
         \/ End(c)
  PROVE  RunInv'
<1> SUFFICES ASSUME NEW d \in Caller, NEW i \in Invocation, InFlight(d, i)'
             PROVE  /\ \E r \in dispatched[i] :
                         r.attempt = attempt'[d] /\ r.epoch = epoch'[d]
                    /\ pc'[d] = "returned" /\ ok'[d] /\ IsWrite(i)
                         => attempt'[d] \in landed[i]
  BY DEF RunInv, IsWrite
<1>1. CASE End(c)
  <2>1. d # c
    BY <1>1 DEF InFlight, End, TypeOK, CallTypeOK
  <2>2. /\ pc'[d] = pc[d] /\ inv'[d] = inv[d] /\ attempt'[d] = attempt[d]
        /\ epoch'[d] = epoch[d] /\ ok'[d] = ok[d]
    BY <1>1, <2>1 DEF End, TypeOK, CallTypeOK
  <2> QED BY <2>2 DEF RunInv, InFlight
<1>2. CASE \E p \in PC \ {"returned"} :
             pc[c] \in {"running", "returned", "unsure"} /\ Goto(c, p)
  <2>1. /\ inv'[d] = inv[d] /\ attempt'[d] = attempt[d]
        /\ epoch'[d] = epoch[d] /\ ok'[d] = ok[d]
    BY <1>2 DEF Goto
  <2>2. CASE d = c
    <3>1. InFlight(c, i) /\ pc'[c] # "returned"
      BY <1>2, <2>1, <2>2 DEF Goto, InFlight, TypeOK, CallTypeOK
    <3> QED BY <2>1, <2>2, <3>1 DEF RunInv
  <2>3. CASE d # c
    <3>1. pc'[d] = pc[d]
      BY <1>2, <2>3 DEF Goto, TypeOK, CallTypeOK
    <3> QED BY <2>1, <3>1 DEF RunInv, InFlight
  <2> QED BY <2>2, <2>3
<1> QED BY <1>1, <1>2

\* A caller past dispatch holds a dispatched run.
LEMMA RunStep ==
  ASSUME TypeOK, LedgerInv, [Next]_vars
  PROVE  RunInv'
<1> USE DEF LedgerInv, RunInv, InFlight
<1>1. ASSUME NEW c \in Caller, CallerStep(c) PROVE RunInv'
  <2>1. CASE Renew(c) \/ RenewFails(c)
    BY <2>1, BusyCaller
    DEF TypeOK, CallTypeOK, WorldTypeOK, Renew, RenewFails, callVars, worldVars,
        IsWrite, Owned, LoseLease
  <2>8. CASE SkipComplete(c)
    <3>1. /\ pc[c] = "returned" /\ UNCHANGED <<dispatched, landed>>
          /\ Goto(c, "unknown") \/ Goto(c, "unsure")
      BY <2>8 DEF SkipComplete, worldVars
    <3> QED BY <3>1, RunsStay DEF PC
  <2>9. CASE Annotate(c) \/ Crash(c)
    <3>1. End(c) /\ UNCHANGED <<dispatched, landed>>
      BY <2>9 DEF Annotate, Crash, worldVars
    <3> QED BY <3>1, RunsStay
  <2>10. CASE RecheckReplay(c) \/ RecheckUnconfirmed(c)
    <3>1. /\ pc[c] = "unsure" /\ UNCHANGED <<dispatched, landed>>
          /\ Goto(c, "annotate") \/ Goto(c, "unknown") \/ End(c)
      BY <2>10 DEF RecheckReplay, RecheckUnconfirmed, worldVars
    <3> QED BY <3>1, RunsStay DEF PC
  <2>2. CASE Dispatch(c)
    <3> DEFINE i == inv[c]
               r == [attempt |-> attempt[c], epoch |-> epoch[c], decided |-> reopened[i]]
    <3>1. /\ i \in Invocation /\ r.attempt = attempt[c] /\ r.epoch = epoch[c]
          /\ dispatched' = [dispatched EXCEPT ![i] = @ \cup {r}]
          /\ UNCHANGED <<inv, attempt, epoch, ok, landed>>
      BY <2>2, BusyCaller DEF Dispatch, Goto
    <3>2. r \in dispatched'[i] /\ \A j \in Invocation : dispatched[j] \subseteq dispatched'[j]
      BY <3>1 DEF TypeOK, WorldTypeOK
    <3>3. \A d \in Caller : pc'[d] = IF d = c THEN "running" ELSE pc[d]
      BY <2>2 DEF Dispatch, Goto, TypeOK, CallTypeOK
    <3> HIDE DEF r
    <3> QED
      BY <3>1, <3>2, <3>3 DEF IsWrite
  <2>3. CASE HandlerReturns(c, TRUE) \/ HandlerReturns(c, FALSE)
    <3>1. PICK s \in BOOLEAN : HandlerReturns(c, s)
      BY <2>3
    <3>2. /\ InFlight(c, inv[c]) /\ s /\ IsWrite(inv[c]) => attempt[c] \in landed[inv[c]]
          /\ pc' = [pc EXCEPT ![c] = "returned"]
          /\ ok' = [ok EXCEPT ![c] = s]
          /\ UNCHANGED <<inv, attempt, epoch, dispatched, landed>>
      BY <3>1 DEF HandlerReturns, worldVars
    <3>3. ASSUME NEW d \in Caller, NEW i \in Invocation, InFlight(d, i)'
          PROVE  /\ \E r \in dispatched'[i] :
                      r.attempt = attempt'[d] /\ r.epoch = epoch'[d]
                 /\ pc'[d] = "returned" /\ ok'[d] /\ IsWrite(i)
                      => attempt'[d] \in landed'[i]
      <4>1. CASE d = c
        <5>1. i = inv[c] /\ ok'[c] = s
          BY <3>2, <3>3, <4>1 DEF TypeOK, CallTypeOK
        <5> QED BY <3>1, <3>2, <4>1, <5>1 DEF HandlerReturns
      <4>2. CASE d # c
        <5>1. pc'[d] = pc[d] /\ ok'[d] = ok[d]
          BY <3>2, <4>2 DEF TypeOK, CallTypeOK
        <5> QED BY <3>2, <3>3, <5>1
      <4> QED BY <4>1, <4>2
    <3> QED BY <3>3 DEF IsWrite
  <2>4. CASE ReleaseUnstarted(c)
    BY <2>4, BusyCaller
    DEF TypeOK, CallTypeOK, WorldTypeOK, ReleaseUnstarted, IsWrite, Owned,
        Leave, End
  <2>5. CASE Complete(c)
    BY <2>5, BusyCaller
    DEF TypeOK, CallTypeOK, WorldTypeOK, Complete, IsWrite, Owned, Leave,
        SaveReceipt, Goto, Reply, MustReview, MayComplete
  <2>6. CASE CompleteUnconfirmed(c)
    BY <2>6, BusyCaller
    DEF TypeOK, CallTypeOK, WorldTypeOK, CompleteUnconfirmed, worldVars,
        IsWrite, Owned, Leave, SaveReceipt, Goto, MustReview, MayComplete
  <2>7. CASE MarkUnknown(c)
    BY <2>7, BusyCaller
    DEF TypeOK, CallTypeOK, WorldTypeOK, MarkUnknown, worldVars, IsWrite,
        Owned, Leave, End
  <2> QED
    BY <1>1, <2>1, <2>2, <2>3, <2>4, <2>5, <2>6, <2>7, <2>8, <2>9, <2>10
    DEF CallerStep
<1>2. ASSUME NEW c \in Caller, NEW i \in Invocation, ClaimGranted(c, i)
      PROVE  RunInv'
  BY <1>2, LedgerAssumption
  DEF TypeOK, CallTypeOK, WorldTypeOK, ClaimGranted, worldVars, IsWrite,
      Expired, MayRetryUnattended, Claimable
<1>3. ASSUME NEW c \in Caller, NEW i \in Invocation, ClaimExpired(c, i)
      PROVE  RunInv'
  BY <1>3, LedgerAssumption
  DEF TypeOK, CallTypeOK, WorldTypeOK, ClaimExpired, callVars, worldVars,
      IsWrite, Expired, MayRetryUnattended, Leave
<1>4. ASSUME NEW c \in Caller, NEW i \in Invocation, ClaimReplay(c, i)
      PROVE  RunInv'
  <2>1. CASE source[i] = "tool"
    BY <1>4, <2>1, BusyCaller
    DEF TypeOK, CallTypeOK, WorldTypeOK, ClaimReplay, IsWrite, Reply
  <2>2. CASE source[i] # "tool"
    BY <1>4, <2>2, BusyCaller
    DEF TypeOK, CallTypeOK, WorldTypeOK, ClaimReplay, IsWrite, Reply
  <2> QED
    BY <2>1, <2>2
<1>5. ASSUME NEW i \in Invocation, Land(i)
      PROVE  RunInv'
  BY <1>5, LedgerAssumption
  DEF TypeOK, CallTypeOK, WorldTypeOK, Land, callVars, IsWrite
<1>6. ASSUME NEW i \in Invocation, ReconcileExpired(i)
      PROVE  RunInv'
  BY <1>6, LedgerAssumption
  DEF TypeOK, CallTypeOK, WorldTypeOK, ReconcileExpired, callVars, worldVars,
      IsWrite, Expired, MayRetryUnattended, Leave
<1>7. ASSUME NEW o \in Operator, NEW i \in Invocation, Inspect(o, i)
      PROVE  RunInv'
  BY <1>7, LedgerAssumption
  DEF TypeOK, CallTypeOK, WorldTypeOK, Inspect, callVars, worldVars, IsWrite
<1>8. ASSUME NEW o \in Operator, NEW h \in BOOLEAN, Resolve(o, h)
      PROVE  RunInv'
  BY <1>8, LedgerAssumption
  DEF TypeOK, CallTypeOK, WorldTypeOK, Resolve, callVars, worldVars, View,
      IsWrite, Leave, MayResolve
<1>9. CASE Tick \/ UNCHANGED vars
  BY <1>9
  DEF TypeOK, CallTypeOK, WorldTypeOK, Tick, IsWrite, vars, rowVars, callVars,
      worldVars
<1> QED
  BY <1>1, <1>2, <1>3, <1>4, <1>5, <1>6, <1>7, <1>8, <1>9
  DEF Next

\* Only a completed row has a receipt.
LEMMA SourceStep ==
  ASSUME TypeOK, LedgerInv, [Next]_vars
  PROVE  SourceInv'
<1> USE DEF LedgerInv, SourceInv
<1>1. ASSUME NEW c \in Caller, CallerStep(c) PROVE SourceInv'
  <2>1. CASE Dispatch(c) \/ Renew(c) \/ RenewFails(c) \/ SkipComplete(c) \/
            RecheckReplay(c) \/ RecheckUnconfirmed(c) \/ Annotate(c) \/
            Crash(c) \/ HandlerReturns(c, TRUE) \/ HandlerReturns(c, FALSE)
    BY <2>1, BusyCaller
    DEF TypeOK, RowTypeOK, CallTypeOK, Dispatch, Renew, RenewFails,
        HandlerReturns, SkipComplete, RecheckReplay, RecheckUnconfirmed,
        Annotate, Crash, rowVars, IsWrite, Owned, Goto, End, Reply, LoseLease,
        MustReview, MayComplete
  <2>2. CASE ReleaseUnstarted(c)
    BY <2>2, BusyCaller
    DEF TypeOK, RowTypeOK, CallTypeOK, ReleaseUnstarted, rowVars, Owned,
        Leave, End
  <2>3. CASE Complete(c)
    BY <2>3, BusyCaller
    DEF TypeOK, RowTypeOK, CallTypeOK, Complete, IsWrite, Owned, Leave,
        SaveReceipt, Goto, Reply, MustReview, MayComplete
  <2>4. CASE CompleteUnconfirmed(c)
    BY <2>4, BusyCaller
    DEF TypeOK, RowTypeOK, CallTypeOK, CompleteUnconfirmed, rowVars, IsWrite,
        Owned, Leave, SaveReceipt, Goto, MustReview, MayComplete
  <2>5. CASE MarkUnknown(c)
    BY <2>5, BusyCaller
    DEF TypeOK, RowTypeOK, CallTypeOK, MarkUnknown, rowVars, Owned, Leave, End
  <2> QED
    BY <1>1, <2>1, <2>2, <2>3, <2>4, <2>5
    DEF CallerStep
<1>2. ASSUME NEW c \in Caller, NEW i \in Invocation, ClaimGranted(c, i)
      PROVE  SourceInv'
  BY <1>2, LedgerAssumption
  DEF TypeOK, RowTypeOK, ClaimGranted, IsWrite, Expired, MayRetryUnattended,
      Claimable
<1>3. ASSUME NEW c \in Caller, NEW i \in Invocation, ClaimExpired(c, i)
      PROVE  SourceInv'
  BY <1>3, LedgerAssumption
  DEF TypeOK, RowTypeOK, ClaimExpired, IsWrite, Expired, MayRetryUnattended,
      Leave
<1>4. ASSUME NEW c \in Caller, NEW i \in Invocation, ClaimReplay(c, i)
      PROVE  SourceInv'
  BY <1>4, LedgerAssumption
  DEF TypeOK, RowTypeOK, ClaimReplay, rowVars, Reply
<1>5. ASSUME NEW i \in Invocation, Land(i)
      PROVE  SourceInv'
  BY <1>5, LedgerAssumption
  DEF TypeOK, RowTypeOK, Land, rowVars, IsWrite
<1>6. ASSUME NEW i \in Invocation, ReconcileExpired(i)
      PROVE  SourceInv'
  BY <1>6, LedgerAssumption
  DEF TypeOK, RowTypeOK, ReconcileExpired, IsWrite, Expired,
      MayRetryUnattended, Leave
<1>7. ASSUME NEW o \in Operator, NEW i \in Invocation, Inspect(o, i)
      PROVE  SourceInv'
  BY <1>7, LedgerAssumption
  DEF TypeOK, RowTypeOK, Inspect, rowVars
<1>8. ASSUME NEW o \in Operator, NEW h \in BOOLEAN, Resolve(o, h)
      PROVE  SourceInv'
  <2>1. view[o].inv \in Invocation
    BY <1>8 DEF Resolve, View, TypeOK
  <2>2. CASE ~MayResolve(o)
    BY <1>8, <2>2
    DEF TypeOK, RowTypeOK, Resolve, rowVars
  <2>3. CASE MayResolve(o) /\ h
    BY <1>8, <2>1, <2>3
    DEF TypeOK, RowTypeOK, Resolve, rowVars, Leave, MayResolve
  <2>4. CASE MayResolve(o) /\ ~h
    BY <1>8, <2>1, <2>4
    DEF TypeOK, RowTypeOK, Resolve, rowVars, Leave, MayResolve
  <2> QED
    BY <2>2, <2>3, <2>4
<1>9. CASE Tick \/ UNCHANGED vars
  BY <1>9
  DEF TypeOK, RowTypeOK, Tick, vars, rowVars, callVars, worldVars
<1> QED
  BY <1>1, <1>2, <1>3, <1>4, <1>5, <1>6, <1>7, <1>8, <1>9
  DEF Next

\* Every answer is the stored receipt.
LEMMA AnswerStep ==
  ASSUME TypeOK, LedgerInv, [Next]_vars
  PROVE  AnswersAgree'
<1> USE DEF LedgerInv, AnswersAgree, SourceInv
<1>1. ASSUME NEW c \in Caller, CallerStep(c) PROVE AnswersAgree'
  <2>1. CASE Dispatch(c) \/ Renew(c) \/ RenewFails(c) \/ SkipComplete(c) \/
            RecheckUnconfirmed(c) \/ Annotate(c) \/ Crash(c) \/
            HandlerReturns(c, TRUE) \/ HandlerReturns(c, FALSE)
    BY <2>1, BusyCaller
    DEF TypeOK, RowTypeOK, CallTypeOK, WorldTypeOK, Dispatch, Renew,
        RenewFails, HandlerReturns, SkipComplete, RecheckUnconfirmed,
        Annotate, Crash, rowVars, worldVars, IsWrite, Owned, Goto, End,
        LoseLease, MustReview, MayComplete
  <2>2. CASE RecheckReplay(c)
    BY <2>2, BusyCaller
    DEF TypeOK, RowTypeOK, CallTypeOK, WorldTypeOK, RecheckReplay, rowVars,
        Goto, Reply
  <2>3. CASE ReleaseUnstarted(c)
    BY <2>3, BusyCaller
    DEF TypeOK, RowTypeOK, CallTypeOK, WorldTypeOK, ReleaseUnstarted, rowVars,
        Owned, Leave, End
  <2>4. CASE Complete(c)
    BY <2>4, BusyCaller
    DEF TypeOK, RowTypeOK, CallTypeOK, WorldTypeOK, Complete, IsWrite, Owned,
        Leave, SaveReceipt, Goto, Reply, MustReview, MayComplete
  <2>5. CASE CompleteUnconfirmed(c)
    BY <2>5, BusyCaller
    DEF TypeOK, RowTypeOK, CallTypeOK, WorldTypeOK, CompleteUnconfirmed,
        rowVars, worldVars, IsWrite, Owned, Leave, SaveReceipt, Goto,
        MustReview, MayComplete
  <2>6. CASE MarkUnknown(c)
    BY <2>6, BusyCaller
    DEF TypeOK, RowTypeOK, CallTypeOK, WorldTypeOK, MarkUnknown, rowVars,
        worldVars, Owned, Leave, End
  <2> QED
    BY <1>1, <2>1, <2>2, <2>3, <2>4, <2>5, <2>6
    DEF CallerStep
<1>2. ASSUME NEW c \in Caller, NEW i \in Invocation, ClaimGranted(c, i)
      PROVE  AnswersAgree'
  BY <1>2, LedgerAssumption
  DEF TypeOK, RowTypeOK, WorldTypeOK, ClaimGranted, worldVars, IsWrite,
      Expired, MayRetryUnattended, Claimable
<1>3. ASSUME NEW c \in Caller, NEW i \in Invocation, ClaimExpired(c, i)
      PROVE  AnswersAgree'
  BY <1>3, LedgerAssumption
  DEF TypeOK, RowTypeOK, WorldTypeOK, ClaimExpired, worldVars, IsWrite,
      Expired, MayRetryUnattended, Leave
<1>4. ASSUME NEW c \in Caller, NEW i \in Invocation, ClaimReplay(c, i)
      PROVE  AnswersAgree'
  BY <1>4, LedgerAssumption
  DEF TypeOK, RowTypeOK, WorldTypeOK, ClaimReplay, rowVars, Reply
<1>5. ASSUME NEW i \in Invocation, Land(i)
      PROVE  AnswersAgree'
  BY <1>5, LedgerAssumption
  DEF TypeOK, RowTypeOK, WorldTypeOK, Land, rowVars, IsWrite
<1>6. ASSUME NEW i \in Invocation, ReconcileExpired(i)
      PROVE  AnswersAgree'
  BY <1>6, LedgerAssumption
  DEF TypeOK, RowTypeOK, WorldTypeOK, ReconcileExpired, worldVars, IsWrite,
      Expired, MayRetryUnattended, Leave
<1>7. ASSUME NEW o \in Operator, NEW i \in Invocation, Inspect(o, i)
      PROVE  AnswersAgree'
  BY <1>7, LedgerAssumption
  DEF TypeOK, RowTypeOK, WorldTypeOK, Inspect, rowVars, worldVars
<1>8. ASSUME NEW o \in Operator, NEW h \in BOOLEAN, Resolve(o, h)
      PROVE  AnswersAgree'
  <2>1. view[o].inv \in Invocation
    BY <1>8 DEF Resolve, View, TypeOK
  <2>2. CASE ~MayResolve(o)
    BY <1>8, <2>2
    DEF TypeOK, RowTypeOK, WorldTypeOK, Resolve, rowVars, worldVars
  <2>3. CASE MayResolve(o) /\ h
    BY <1>8, <2>1, <2>3
    DEF TypeOK, RowTypeOK, WorldTypeOK, Resolve, rowVars, worldVars, Leave,
        MayResolve
  <2>4. CASE MayResolve(o) /\ ~h
    BY <1>8, <2>1, <2>4
    DEF TypeOK, RowTypeOK, WorldTypeOK, Resolve, rowVars, worldVars, Leave,
        MayResolve
  <2> QED
    BY <2>2, <2>3, <2>4
<1>9. CASE Tick \/ UNCHANGED vars
  BY <1>9
  DEF TypeOK, RowTypeOK, WorldTypeOK, Tick, vars, rowVars, callVars, worldVars
<1> QED
  BY <1>1, <1>2, <1>3, <1>4, <1>5, <1>6, <1>7, <1>8, <1>9
  DEF Next

\* A stored receipt was earned by the last attempt.
LEMMA ReceiptStep ==
  ASSUME TypeOK, LedgerInv, [Next]_vars
  PROVE  ReceiptIsEarned'
<1> USE DEF LedgerInv, ReceiptIsEarned, SourceInv
<1>1. ASSUME NEW c \in Caller, CallerStep(c) PROVE ReceiptIsEarned'
  <2>1. CASE RenewFails(c) \/ SkipComplete(c) \/ RecheckReplay(c) \/
            RecheckUnconfirmed(c) \/ Annotate(c) \/ Crash(c) \/
            HandlerReturns(c, TRUE) \/ HandlerReturns(c, FALSE)
    <3>1. UNCHANGED <<attempts, source, receipt, dispatched, landed>>
      BY <2>1 DEF RenewFails, HandlerReturns, SkipComplete, RecheckReplay,
         RecheckUnconfirmed, Annotate, Crash, rowVars, worldVars
    <3> QED
      BY <3>1
  <2>2. CASE Dispatch(c)
    BY <2>2, BusyCaller
    DEF TypeOK, RowTypeOK, CallTypeOK, WorldTypeOK, Dispatch, rowVars,
        IsWrite, Goto
  <2>3. CASE Renew(c)
    <3>1. CASE Owned(c, FALSE)
      BY <2>3, <3>1, BusyCaller
      DEF TypeOK, RowTypeOK, CallTypeOK, WorldTypeOK, Renew, rowVars,
          callVars, worldVars, IsWrite, Owned, LoseLease
    <3>2. CASE ~Owned(c, FALSE)
      BY <2>3, <3>2, BusyCaller
      DEF TypeOK, RowTypeOK, CallTypeOK, WorldTypeOK, Renew, rowVars,
          callVars, worldVars, IsWrite, LoseLease
    <3> QED
      BY <3>1, <3>2
  <2>4. CASE ReleaseUnstarted(c)
    BY <2>4, BusyCaller
    DEF TypeOK, RowTypeOK, CallTypeOK, WorldTypeOK, ReleaseUnstarted, rowVars,
        IsWrite, Owned, Leave, End
  <2>5. CASE Complete(c)
    BY <2>5, SavedIsEarned DEF Complete
  <2>6. CASE CompleteUnconfirmed(c)
    <3>1. CASE UNCHANGED rowVars
      BY <2>6, <3>1 DEF CompleteUnconfirmed, rowVars, worldVars
    <3>2. CASE Owned(c, FALSE) /\ SaveReceipt(inv[c], attempt[c])
      BY <2>6, <3>2, SavedIsEarned DEF CompleteUnconfirmed, worldVars
    <3> QED
      BY <2>6, <3>1, <3>2 DEF CompleteUnconfirmed
  <2>7. CASE MarkUnknown(c)
    <3>1. UNCHANGED <<attempts, source, receipt, dispatched, landed>>
      BY <2>7 DEF MarkUnknown, Leave, rowVars, worldVars
    <3> QED
      BY <3>1
  <2> QED
    BY <1>1, <2>1, <2>2, <2>3, <2>4, <2>5, <2>6, <2>7
    DEF CallerStep
<1>2. ASSUME NEW c \in Caller, NEW i \in Invocation, ClaimGranted(c, i)
      PROVE  ReceiptIsEarned'
  BY <1>2, LedgerAssumption
  DEF TypeOK, RowTypeOK, CallTypeOK, WorldTypeOK, ClaimGranted, worldVars,
      IsWrite, Expired, MayRetryUnattended, Claimable
<1>3. ASSUME NEW c \in Caller, NEW i \in Invocation, ClaimExpired(c, i)
      PROVE  ReceiptIsEarned'
  BY <1>3, LedgerAssumption
  DEF TypeOK, RowTypeOK, CallTypeOK, WorldTypeOK, ClaimExpired, callVars,
      worldVars, IsWrite, Expired, MayRetryUnattended, Leave
<1>4. ASSUME NEW c \in Caller, NEW i \in Invocation, ClaimReplay(c, i)
      PROVE  ReceiptIsEarned'
  BY <1>4, LedgerAssumption
  DEF TypeOK, RowTypeOK, CallTypeOK, WorldTypeOK, ClaimReplay, rowVars,
      IsWrite, Reply
<1>5. ASSUME NEW i \in Invocation, Land(i)
      PROVE  ReceiptIsEarned'
  BY <1>5, LedgerAssumption
  DEF TypeOK, RowTypeOK, CallTypeOK, WorldTypeOK, Land, rowVars, callVars,
      IsWrite
<1>6. ASSUME NEW i \in Invocation, ReconcileExpired(i)
      PROVE  ReceiptIsEarned'
  BY <1>6, LedgerAssumption
  DEF TypeOK, RowTypeOK, CallTypeOK, WorldTypeOK, ReconcileExpired, callVars,
      worldVars, IsWrite, Expired, MayRetryUnattended, Leave
<1>7. ASSUME NEW o \in Operator, NEW i \in Invocation, Inspect(o, i)
      PROVE  ReceiptIsEarned'
  BY <1>7, LedgerAssumption
  DEF TypeOK, RowTypeOK, CallTypeOK, WorldTypeOK, Inspect, rowVars, callVars,
      worldVars, IsWrite
<1>8. ASSUME NEW o \in Operator, NEW h \in BOOLEAN, Resolve(o, h)
      PROVE  ReceiptIsEarned'
  <2>1. view[o].inv \in Invocation
    BY <1>8 DEF Resolve, View, TypeOK
  <2>2. CASE ~MayResolve(o)
    BY <1>8, <2>2
    DEF TypeOK, RowTypeOK, CallTypeOK, WorldTypeOK, Resolve, rowVars,
        callVars, worldVars, IsWrite
  <2>3. CASE MayResolve(o) /\ h
    BY <1>8, <2>1, <2>3
    DEF TypeOK, RowTypeOK, CallTypeOK, WorldTypeOK, Resolve, rowVars,
        callVars, worldVars, IsWrite, Leave, MayResolve
  <2>4. CASE MayResolve(o) /\ ~h
    BY <1>8, <2>1, <2>4
    DEF TypeOK, RowTypeOK, CallTypeOK, WorldTypeOK, Resolve, rowVars,
        callVars, worldVars, IsWrite, Leave, MayResolve
  <2> QED
    BY <2>2, <2>3, <2>4
<1>9. CASE Tick \/ UNCHANGED vars
  BY <1>9
  DEF TypeOK, RowTypeOK, CallTypeOK, WorldTypeOK, Tick, IsWrite, vars,
      rowVars, callVars, worldVars
<1> QED
  BY <1>1, <1>2, <1>3, <1>4, <1>5, <1>6, <1>7, <1>8, <1>9
  DEF Next

\* A dispatch uses a permission no earlier run has used.
LEMMA DispatchStep ==
  ASSUME TypeOK, LedgerInv, [Next]_vars
  PROVE  UsedOnceInv'
<1> USE DEF LedgerInv, UsedOnceInv, ClaimEpochInv, Claimed
<1>1. ASSUME NEW c \in Caller, CallerStep(c) PROVE UsedOnceInv'
  <2>1. CASE Renew(c) \/ RenewFails(c) \/ SkipComplete(c) \/ RecheckReplay(c)
            \/ RecheckUnconfirmed(c) \/ Annotate(c) \/ Crash(c) \/
            HandlerReturns(c, TRUE) \/ HandlerReturns(c, FALSE)
    BY <2>1, BusyCaller
    DEF TypeOK, RowTypeOK, CallTypeOK, WorldTypeOK, Renew, RenewFails,
        HandlerReturns, SkipComplete, RecheckReplay, RecheckUnconfirmed,
        Annotate, Crash, rowVars, callVars, worldVars, IsWrite, Owned, Goto,
        End, Reply, LoseLease, MustReview, MayComplete
  <2>2. CASE Dispatch(c)
    BY <2>2, BusyCaller
    DEF TypeOK, RowTypeOK, CallTypeOK, WorldTypeOK, Dispatch, rowVars, Owned,
        Goto
  <2>3. CASE ReleaseUnstarted(c)
    BY <2>3, BusyCaller
    DEF TypeOK, RowTypeOK, CallTypeOK, WorldTypeOK, ReleaseUnstarted, rowVars,
        Owned, Leave, End
  <2>4. CASE Complete(c)
    BY <2>4, BusyCaller
    DEF TypeOK, RowTypeOK, CallTypeOK, WorldTypeOK, Complete, IsWrite, Owned,
        Leave, SaveReceipt, Goto, Reply, MustReview, MayComplete
  <2>5. CASE CompleteUnconfirmed(c)
    BY <2>5, BusyCaller
    DEF TypeOK, RowTypeOK, CallTypeOK, WorldTypeOK, CompleteUnconfirmed,
        rowVars, worldVars, IsWrite, Owned, Leave, SaveReceipt, Goto,
        MustReview, MayComplete
  <2>6. CASE MarkUnknown(c)
    BY <2>6, BusyCaller
    DEF TypeOK, RowTypeOK, CallTypeOK, WorldTypeOK, MarkUnknown, rowVars,
        worldVars, Owned, Leave, End
  <2> QED
    BY <1>1, <2>1, <2>2, <2>3, <2>4, <2>5, <2>6
    DEF CallerStep
<1>2. ASSUME NEW c \in Caller, NEW i \in Invocation, ClaimGranted(c, i)
      PROVE  UsedOnceInv'
  BY <1>2, LedgerAssumption
  DEF TypeOK, RowTypeOK, CallTypeOK, WorldTypeOK, ClaimGranted, worldVars,
      IsWrite, Owned, Expired, MayRetryUnattended, Claimable
<1>3. ASSUME NEW c \in Caller, NEW i \in Invocation, ClaimExpired(c, i)
      PROVE  UsedOnceInv'
  BY <1>3, LedgerAssumption
  DEF TypeOK, RowTypeOK, CallTypeOK, WorldTypeOK, ClaimExpired, callVars,
      worldVars, IsWrite, Owned, Expired, MayRetryUnattended, Leave
<1>4. ASSUME NEW c \in Caller, NEW i \in Invocation, ClaimReplay(c, i)
      PROVE  UsedOnceInv'
  BY <1>4, LedgerAssumption
  DEF TypeOK, RowTypeOK, CallTypeOK, WorldTypeOK, ClaimReplay, rowVars, Owned,
      Reply
<1>5. ASSUME NEW i \in Invocation, Land(i)
      PROVE  UsedOnceInv'
  BY <1>5, LedgerAssumption
  DEF TypeOK, RowTypeOK, CallTypeOK, WorldTypeOK, Land, rowVars, callVars,
      IsWrite, Owned
<1>6. ASSUME NEW i \in Invocation, ReconcileExpired(i)
      PROVE  UsedOnceInv'
  BY <1>6, LedgerAssumption
  DEF TypeOK, RowTypeOK, CallTypeOK, WorldTypeOK, ReconcileExpired, callVars,
      worldVars, IsWrite, Owned, Expired, MayRetryUnattended, Leave
<1>7. ASSUME NEW o \in Operator, NEW i \in Invocation, Inspect(o, i)
      PROVE  UsedOnceInv'
  BY <1>7, LedgerAssumption
  DEF TypeOK, RowTypeOK, CallTypeOK, WorldTypeOK, Inspect, rowVars, callVars,
      worldVars, Owned
<1>8. ASSUME NEW o \in Operator, NEW h \in BOOLEAN, Resolve(o, h)
      PROVE  UsedOnceInv'
  BY <1>8, LedgerAssumption
  DEF TypeOK, RowTypeOK, CallTypeOK, WorldTypeOK, Resolve, rowVars, callVars,
      worldVars, View, Owned, Leave, MayResolve
<1>9. CASE Tick \/ UNCHANGED vars
  BY <1>9
  DEF TypeOK, RowTypeOK, CallTypeOK, WorldTypeOK, Tick, Owned, vars, rowVars,
      callVars, worldVars
<1> QED
  BY <1>1, <1>2, <1>3, <1>4, <1>5, <1>6, <1>7, <1>8, <1>9
  DEF Next

\* No run is ahead of the operators.
LEMMA RunEpochStep ==
  ASSUME TypeOK, LedgerInv, [Next]_vars
  PROVE  RunEpochInv'
<1> USE DEF LedgerInv, RunEpochInv, ClaimEpochInv, Claimed
<1>1. ASSUME NEW c \in Caller, CallerStep(c) PROVE RunEpochInv'
  <2>1. CASE Renew(c) \/ RenewFails(c) \/ SkipComplete(c) \/ RecheckReplay(c)
            \/ RecheckUnconfirmed(c) \/ Annotate(c) \/ Crash(c) \/
            HandlerReturns(c, TRUE) \/ HandlerReturns(c, FALSE)
    BY <2>1, BusyCaller
    DEF TypeOK, RowTypeOK, CallTypeOK, WorldTypeOK, Renew, RenewFails,
        HandlerReturns, SkipComplete, RecheckReplay, RecheckUnconfirmed,
        Annotate, Crash, rowVars, callVars, worldVars, IsWrite, Owned, Goto,
        End, Reply, LoseLease, MustReview, MayComplete
  <2>2. CASE Dispatch(c)
    BY <2>2, BusyCaller
    DEF TypeOK, RowTypeOK, CallTypeOK, WorldTypeOK, Dispatch, rowVars, Owned,
        Goto
  <2>3. CASE ReleaseUnstarted(c)
    BY <2>3, BusyCaller
    DEF TypeOK, RowTypeOK, CallTypeOK, WorldTypeOK, ReleaseUnstarted, rowVars,
        Owned, Leave, End
  <2>4. CASE Complete(c)
    BY <2>4, BusyCaller
    DEF TypeOK, RowTypeOK, CallTypeOK, WorldTypeOK, Complete, IsWrite, Owned,
        Leave, SaveReceipt, Goto, Reply, MustReview, MayComplete
  <2>5. CASE CompleteUnconfirmed(c)
    BY <2>5, BusyCaller
    DEF TypeOK, RowTypeOK, CallTypeOK, WorldTypeOK, CompleteUnconfirmed,
        rowVars, worldVars, IsWrite, Owned, Leave, SaveReceipt, Goto,
        MustReview, MayComplete
  <2>6. CASE MarkUnknown(c)
    BY <2>6, BusyCaller
    DEF TypeOK, RowTypeOK, CallTypeOK, WorldTypeOK, MarkUnknown, rowVars,
        worldVars, Owned, Leave, End
  <2> QED
    BY <1>1, <2>1, <2>2, <2>3, <2>4, <2>5, <2>6
    DEF CallerStep
<1>2. ASSUME NEW c \in Caller, NEW i \in Invocation, ClaimGranted(c, i)
      PROVE  RunEpochInv'
  BY <1>2, LedgerAssumption
  DEF TypeOK, RowTypeOK, CallTypeOK, WorldTypeOK, ClaimGranted, worldVars,
      IsWrite, Owned, Expired, MayRetryUnattended, Claimable
<1>3. ASSUME NEW c \in Caller, NEW i \in Invocation, ClaimExpired(c, i)
      PROVE  RunEpochInv'
  BY <1>3, LedgerAssumption
  DEF TypeOK, RowTypeOK, CallTypeOK, WorldTypeOK, ClaimExpired, callVars,
      worldVars, IsWrite, Owned, Expired, MayRetryUnattended, Leave
<1>4. ASSUME NEW c \in Caller, NEW i \in Invocation, ClaimReplay(c, i)
      PROVE  RunEpochInv'
  BY <1>4, LedgerAssumption
  DEF TypeOK, RowTypeOK, CallTypeOK, WorldTypeOK, ClaimReplay, rowVars, Owned,
      Reply
<1>5. ASSUME NEW i \in Invocation, Land(i)
      PROVE  RunEpochInv'
  BY <1>5, LedgerAssumption
  DEF TypeOK, RowTypeOK, CallTypeOK, WorldTypeOK, Land, rowVars, callVars,
      IsWrite, Owned
<1>6. ASSUME NEW i \in Invocation, ReconcileExpired(i)
      PROVE  RunEpochInv'
  BY <1>6, LedgerAssumption
  DEF TypeOK, RowTypeOK, CallTypeOK, WorldTypeOK, ReconcileExpired, callVars,
      worldVars, IsWrite, Owned, Expired, MayRetryUnattended, Leave
<1>7. ASSUME NEW o \in Operator, NEW i \in Invocation, Inspect(o, i)
      PROVE  RunEpochInv'
  BY <1>7, LedgerAssumption
  DEF TypeOK, RowTypeOK, CallTypeOK, WorldTypeOK, Inspect, rowVars, callVars,
      worldVars, Owned
<1>8. ASSUME NEW o \in Operator, NEW h \in BOOLEAN, Resolve(o, h)
      PROVE  RunEpochInv'
  <2>1. view[o].inv \in Invocation
    BY <1>8 DEF Resolve, View, TypeOK
  <2>2. CASE ~MayResolve(o)
    BY <1>8, <2>2
    DEF TypeOK, RowTypeOK, CallTypeOK, WorldTypeOK, Resolve, rowVars,
        callVars, worldVars, Owned
  <2>3. CASE MayResolve(o) /\ h
    BY <1>8, <2>1, <2>3
    DEF TypeOK, RowTypeOK, CallTypeOK, WorldTypeOK, Resolve, rowVars,
        callVars, worldVars, Owned, Leave, MayResolve
  <2>4. CASE MayResolve(o) /\ ~h
    <3> DEFINE i == view[o].inv
    <3>1. dispatched' = dispatched /\ reopened' = [reopened EXCEPT ![i] = @ + 1]
      BY <1>8, <2>4 DEF Resolve, Leave, worldVars
    <3> HIDE DEF i
    <3>2. \A j \in Invocation : reopened'[j] \in Nat /\ reopened'[j] >= reopened[j]
      BY <3>1 DEF TypeOK, RowTypeOK
    <3>3. \A j \in Invocation : \A r \in dispatched[j] : r.epoch \in Nat
      BY DEF TypeOK, WorldTypeOK, Run
    <3> QED
      BY <3>1, <3>2, <3>3, CountersAreNat, LedgerAssumption
  <2> QED
    BY <2>2, <2>3, <2>4
<1>9. CASE Tick \/ UNCHANGED vars
  BY <1>9
  DEF TypeOK, RowTypeOK, CallTypeOK, WorldTypeOK, Tick, Owned, vars, rowVars,
      callVars, worldVars
<1> QED
  BY <1>1, <1>2, <1>3, <1>4, <1>5, <1>6, <1>7, <1>8, <1>9
  DEF Next

\* A claimed caller holds an unused permission.
LEMMA ClaimEpochStep ==
  ASSUME TypeOK, LedgerInv, [Next]_vars
  PROVE  ClaimEpochInv'
<1> USE DEF LedgerInv, ClaimEpochInv, ClaimUniqueInv, RunEpochInv,
  OpenEpochInv, HeldAttemptInv, Claimed, InFlight
<1>1. ASSUME NEW c \in Caller, CallerStep(c) PROVE ClaimEpochInv'
  <2>1. CASE Renew(c) \/ RenewFails(c) \/ SkipComplete(c) \/ RecheckReplay(c)
            \/ Annotate(c) \/ Crash(c) \/ HandlerReturns(c, TRUE) \/
            HandlerReturns(c, FALSE)
    BY <2>1, BusyCaller
    DEF TypeOK, RowTypeOK, CallTypeOK, WorldTypeOK, Run, Renew, RenewFails,
        HandlerReturns, SkipComplete, RecheckReplay, Annotate, Crash, rowVars,
        callVars, worldVars, IsWrite, Owned, Goto, End, Reply, LoseLease,
        MustReview, MayComplete
  <2>2. CASE Dispatch(c)
    BY <2>2, BusyCaller
    DEF TypeOK, RowTypeOK, CallTypeOK, WorldTypeOK, Run, Dispatch, rowVars,
        Owned, Goto
  <2>3. CASE RecheckUnconfirmed(c)
    <3>1. \A e \in Caller : pc'[e] = "claimed" =>
            /\ pc[e] = "claimed"
            /\ inv'[e] = inv[e] /\ epoch'[e] = epoch[e] /\ attempt'[e] = attempt[e]
      BY <2>3 DEF TypeOK, CallTypeOK, RecheckUnconfirmed, Goto, End
    <3> QED
      BY <2>3, <3>1 DEF RecheckUnconfirmed, Owned, rowVars, worldVars
  <2>4. CASE ReleaseUnstarted(c)
    BY <2>4, BusyCaller, SMTT(30)
    DEF TypeOK, RowTypeOK, CallTypeOK, WorldTypeOK, Run, ReleaseUnstarted,
        rowVars, Owned, Leave, End
  <2>5. CASE Complete(c)
    BY <2>5, BusyCaller
    DEF TypeOK, RowTypeOK, CallTypeOK, WorldTypeOK, Run, Complete, IsWrite,
        Owned, Leave, SaveReceipt, Goto, Reply, MustReview, MayComplete
  <2>6. CASE CompleteUnconfirmed(c)
    BY <2>6, BusyCaller
    DEF TypeOK, RowTypeOK, CallTypeOK, WorldTypeOK, Run, CompleteUnconfirmed,
        rowVars, worldVars, IsWrite, Owned, Leave, SaveReceipt, Goto,
        MustReview, MayComplete
  <2>7. CASE MarkUnknown(c)
    BY <2>7, BusyCaller
    DEF TypeOK, RowTypeOK, CallTypeOK, WorldTypeOK, Run, MarkUnknown, rowVars,
        worldVars, Owned, Leave, End
  <2> QED
    BY <1>1, <2>1, <2>2, <2>3, <2>4, <2>5, <2>6, <2>7
    DEF CallerStep
<1>2. ASSUME NEW c \in Caller, NEW i \in Invocation, ClaimGranted(c, i)
      PROVE  ClaimEpochInv'
  BY <1>2, LedgerAssumption
  DEF TypeOK, RowTypeOK, CallTypeOK, WorldTypeOK, Run, ClaimGranted,
      worldVars, IsWrite, Owned, Expired, MayRetryUnattended, Claimable
<1>3. ASSUME NEW c \in Caller, NEW i \in Invocation, ClaimExpired(c, i)
      PROVE  ClaimEpochInv'
  BY <1>3, LedgerAssumption
  DEF TypeOK, RowTypeOK, CallTypeOK, WorldTypeOK, Run, ClaimExpired, callVars,
      worldVars, IsWrite, Owned, Expired, MayRetryUnattended, Leave
<1>4. ASSUME NEW c \in Caller, NEW i \in Invocation, ClaimReplay(c, i)
      PROVE  ClaimEpochInv'
  <2>1. CASE source[i] = "tool"
    BY <1>4, <2>1, BusyCaller
    DEF TypeOK, RowTypeOK, CallTypeOK, WorldTypeOK, Run, ClaimReplay, rowVars,
        Owned, Reply
  <2>2. CASE source[i] # "tool"
    BY <1>4, <2>2, BusyCaller
    DEF TypeOK, RowTypeOK, CallTypeOK, WorldTypeOK, Run, ClaimReplay, rowVars,
        Owned, Reply
  <2> QED
    BY <2>1, <2>2
<1>5. ASSUME NEW i \in Invocation, Land(i)
      PROVE  ClaimEpochInv'
  BY <1>5, LedgerAssumption
  DEF TypeOK, RowTypeOK, CallTypeOK, WorldTypeOK, Run, Land, rowVars,
      callVars, IsWrite, Owned
<1>6. ASSUME NEW i \in Invocation, ReconcileExpired(i)
      PROVE  ClaimEpochInv'
  BY <1>6, LedgerAssumption
  DEF TypeOK, RowTypeOK, CallTypeOK, WorldTypeOK, Run, ReconcileExpired,
      callVars, worldVars, IsWrite, Owned, Expired, MayRetryUnattended, Leave
<1>7. ASSUME NEW o \in Operator, NEW i \in Invocation, Inspect(o, i)
      PROVE  ClaimEpochInv'
  BY <1>7, LedgerAssumption
  DEF TypeOK, RowTypeOK, CallTypeOK, WorldTypeOK, Run, Inspect, rowVars,
      callVars, worldVars, Owned
<1>8. ASSUME NEW o \in Operator, NEW h \in BOOLEAN, Resolve(o, h)
      PROVE  ClaimEpochInv'
  <2>1. view[o].inv \in Invocation
    BY <1>8 DEF Resolve, View, TypeOK
  <2>2. CASE ~MayResolve(o)
    BY <1>8, <2>2
    DEF TypeOK, RowTypeOK, CallTypeOK, WorldTypeOK, Run, Resolve, rowVars,
        callVars, worldVars, Owned
  <2>3. CASE MayResolve(o) /\ h
    BY <1>8, <2>1, <2>3, SMTT(30)
    DEF TypeOK, RowTypeOK, CallTypeOK, WorldTypeOK, Run, Resolve, rowVars,
        callVars, worldVars, Owned, Leave, MayResolve
  <2>4. CASE MayResolve(o) /\ ~h
    BY <1>8, <2>1, <2>4, SMTT(30)
    DEF TypeOK, RowTypeOK, CallTypeOK, WorldTypeOK, Run, Resolve, rowVars,
        callVars, worldVars, Owned, Leave, MayResolve
  <2> QED
    BY <2>2, <2>3, <2>4
<1>9. CASE Tick \/ UNCHANGED vars
  BY <1>9
  DEF TypeOK, RowTypeOK, CallTypeOK, WorldTypeOK, Run, Tick, Owned, vars,
      rowVars, callVars, worldVars
<1> QED
  BY <1>1, <1>2, <1>3, <1>4, <1>5, <1>6, <1>7, <1>8, <1>9
  DEF Next

\* Two callers never hold the same permission.
LEMMA ClaimUniqueStep ==
  ASSUME TypeOK, LedgerInv, [Next]_vars
  PROVE  ClaimUniqueInv'
<1> USE DEF LedgerInv, ClaimUniqueInv, OpenEpochInv, Claimed
<1>1. ASSUME NEW c \in Caller, CallerStep(c) PROVE ClaimUniqueInv'
  <2>1. CASE Dispatch(c) \/ Renew(c) \/ RenewFails(c) \/ SkipComplete(c) \/
            RecheckReplay(c) \/ Annotate(c) \/ Crash(c) \/ HandlerReturns(c,
            TRUE) \/ HandlerReturns(c, FALSE)
    BY <2>1, BusyCaller
    DEF TypeOK, RowTypeOK, CallTypeOK, WorldTypeOK, Dispatch, Renew,
        RenewFails, HandlerReturns, SkipComplete, RecheckReplay, Annotate,
        Crash, rowVars, callVars, worldVars, IsWrite, Owned, Goto, End, Reply,
        LoseLease, MustReview, MayComplete
  <2>2. CASE RecheckUnconfirmed(c)
    <3>1. CASE IsWrite(inv[c])
      BY <2>2, <3>1, BusyCaller
      DEF TypeOK, RowTypeOK, CallTypeOK, WorldTypeOK, RecheckUnconfirmed,
          rowVars, worldVars, IsWrite, Goto, End
    <3>2. CASE ~IsWrite(inv[c])
      BY <2>2, <3>2, BusyCaller, SMTT(30)
      DEF TypeOK, RowTypeOK, CallTypeOK, WorldTypeOK, RecheckUnconfirmed,
          rowVars, worldVars, IsWrite, Goto, End
    <3> QED
      BY <3>1, <3>2
  <2>3. CASE ReleaseUnstarted(c)
    BY <2>3, BusyCaller
    DEF TypeOK, RowTypeOK, CallTypeOK, WorldTypeOK, ReleaseUnstarted, rowVars,
        Owned, Leave, End
  <2>4. CASE Complete(c)
    BY <2>4, BusyCaller
    DEF TypeOK, RowTypeOK, CallTypeOK, WorldTypeOK, Complete, IsWrite, Owned,
        Leave, SaveReceipt, Goto, Reply, MustReview, MayComplete
  <2>5. CASE CompleteUnconfirmed(c)
    BY <2>5, BusyCaller
    DEF TypeOK, RowTypeOK, CallTypeOK, WorldTypeOK, CompleteUnconfirmed,
        rowVars, worldVars, IsWrite, Owned, Leave, SaveReceipt, Goto,
        MustReview, MayComplete
  <2>6. CASE MarkUnknown(c)
    BY <2>6, BusyCaller
    DEF TypeOK, RowTypeOK, CallTypeOK, WorldTypeOK, MarkUnknown, rowVars,
        worldVars, Owned, Leave, End
  <2> QED
    BY <1>1, <2>1, <2>2, <2>3, <2>4, <2>5, <2>6
    DEF CallerStep
<1>2. ASSUME NEW c \in Caller, NEW i \in Invocation, ClaimGranted(c, i)
      PROVE  ClaimUniqueInv'
  BY <1>2, LedgerAssumption
  DEF TypeOK, RowTypeOK, CallTypeOK, WorldTypeOK, ClaimGranted, worldVars,
      IsWrite, Expired, MayRetryUnattended, Claimable
<1>3. ASSUME NEW c \in Caller, NEW i \in Invocation, ClaimExpired(c, i)
      PROVE  ClaimUniqueInv'
  BY <1>3, LedgerAssumption
  DEF TypeOK, RowTypeOK, CallTypeOK, WorldTypeOK, ClaimExpired, callVars,
      worldVars, IsWrite, Expired, MayRetryUnattended, Leave
<1>4. ASSUME NEW c \in Caller, NEW i \in Invocation, ClaimReplay(c, i)
      PROVE  ClaimUniqueInv'
  BY <1>4, LedgerAssumption, SMTT(30)
  DEF TypeOK, RowTypeOK, CallTypeOK, WorldTypeOK, ClaimReplay, rowVars, Reply
<1>5. ASSUME NEW i \in Invocation, Land(i)
      PROVE  ClaimUniqueInv'
  BY <1>5, LedgerAssumption
  DEF TypeOK, RowTypeOK, CallTypeOK, WorldTypeOK, Land, rowVars, callVars,
      IsWrite
<1>6. ASSUME NEW i \in Invocation, ReconcileExpired(i)
      PROVE  ClaimUniqueInv'
  BY <1>6, LedgerAssumption
  DEF TypeOK, RowTypeOK, CallTypeOK, WorldTypeOK, ReconcileExpired, callVars,
      worldVars, IsWrite, Expired, MayRetryUnattended, Leave
<1>7. ASSUME NEW o \in Operator, NEW i \in Invocation, Inspect(o, i)
      PROVE  ClaimUniqueInv'
  BY <1>7, LedgerAssumption
  DEF TypeOK, RowTypeOK, CallTypeOK, WorldTypeOK, Inspect, rowVars, callVars,
      worldVars
<1>8. ASSUME NEW o \in Operator, NEW h \in BOOLEAN, Resolve(o, h)
      PROVE  ClaimUniqueInv'
  BY <1>8, LedgerAssumption
  DEF TypeOK, RowTypeOK, CallTypeOK, WorldTypeOK, Resolve, rowVars, callVars,
      worldVars, View, Leave, MayResolve
<1>9. CASE Tick \/ UNCHANGED vars
  BY <1>9
  DEF TypeOK, RowTypeOK, CallTypeOK, WorldTypeOK, Tick, vars, rowVars,
      callVars, worldVars
<1> QED
  BY <1>1, <1>2, <1>3, <1>4, <1>5, <1>6, <1>7, <1>8, <1>9
  DEF Next

\* A claimable row's permission is neither held nor used.
LEMMA OpenEpochStep ==
  ASSUME TypeOK, LedgerInv, [Next]_vars
  PROVE  OpenEpochInv'
<1> USE DEF LedgerInv, OpenEpochInv, ClaimEpochInv, RunEpochInv,
  ClaimUniqueInv, Claimed
<1>1. ASSUME NEW c \in Caller, CallerStep(c) PROVE OpenEpochInv'
  <2>1. CASE Renew(c) \/ RenewFails(c)
    BY <2>1, BusyCaller
    DEF TypeOK, RowTypeOK, CallTypeOK, WorldTypeOK, Run, Renew, RenewFails,
        rowVars, callVars, worldVars, Owned, LoseLease
  <2>7. CASE SkipComplete(c) \/ RecheckReplay(c) \/ RecheckUnconfirmed(c) \/ Annotate(c)
            \/ Crash(c) \/ HandlerReturns(c, TRUE) \/ HandlerReturns(c, FALSE)
    <3>1. UNCHANGED <<status, reopened, dispatched>>
      BY <2>7 DEF SkipComplete, RecheckReplay, RecheckUnconfirmed, Annotate, Crash,
                  HandlerReturns, rowVars, worldVars
    <3>2. \A e \in Caller : pc'[e] = "claimed" =>
            pc[e] = "claimed" /\ inv'[e] = inv[e] /\ epoch'[e] = epoch[e]
      BY <2>7, Zenon
      DEF TypeOK, CallTypeOK, SkipComplete, RecheckReplay, RecheckUnconfirmed, Annotate,
          Crash, HandlerReturns, Goto, End
    <3> QED
      BY <3>1, <3>2
  <2>2. CASE Dispatch(c)
    BY <2>2, BusyCaller
    DEF TypeOK, RowTypeOK, CallTypeOK, WorldTypeOK, Run, Dispatch, rowVars,
        Owned, Goto
  <2>3. CASE ReleaseUnstarted(c)
    <3>1. CASE Owned(c, TRUE)
      <4> DEFINE i == inv[c]
      <4>1. i \in Invocation /\ Claimed(c, i)
        BY <2>3, BusyCaller DEF ReleaseUnstarted
      <4>2. \A e \in Caller : pc'[e] = "claimed" =>
              /\ e # c /\ pc[e] = "claimed"
              /\ inv'[e] = inv[e] /\ epoch'[e] = epoch[e]
        BY <2>3 DEF ReleaseUnstarted, End, TypeOK, CallTypeOK
      <4>3. /\ status' = [status EXCEPT ![i] = "retryable"]
            /\ reopened' = reopened /\ dispatched' = dispatched
        BY <2>3, <3>1 DEF ReleaseUnstarted, Leave
      <4>4. ASSUME i \in WriteInvocation
            PROVE  /\ \A r \in dispatched[i] : r.epoch < reopened[i]
                   /\ \A e \in Caller :
                        e # c /\ Claimed(e, i) => epoch[e] < reopened[i]
        <5>1. epoch[c] = reopened[i] /\ reopened[i] \in Nat
          BY <3>1, <4>1, <4>4 DEF TypeOK, RowTypeOK
        <5>2. \A r \in dispatched[i] : r.epoch # epoch[c]
          BY <4>1, <4>4
        <5>3. \A r \in dispatched[i] : r.epoch \in Nat /\ r.epoch <= reopened[i]
          BY <4>1, <4>4 DEF TypeOK, WorldTypeOK, Run
        <5>4. \A e \in Caller : e # c /\ Claimed(e, i) =>
                /\ epoch[e] \in Nat
                /\ epoch[e] <= reopened[i] /\ epoch[e] # epoch[c]
          BY <4>1, <4>4 DEF TypeOK, CallTypeOK
        <5> QED
          BY <5>1, <5>2, <5>3, <5>4
      <4> HIDE DEF i
      <4> QED
        BY <4>1, <4>2, <4>3, <4>4, LedgerAssumption DEF TypeOK, RowTypeOK
    <3>2. CASE ~Owned(c, TRUE)
      BY <2>3, <3>2 DEF ReleaseUnstarted, End, TypeOK, CallTypeOK, rowVars
    <3> QED
      BY <3>1, <3>2
  <2>4. CASE Complete(c)
    BY <2>4, BusyCaller
    DEF TypeOK, RowTypeOK, CallTypeOK, WorldTypeOK, Run, Complete, IsWrite,
        Owned, Leave, SaveReceipt, Goto, Reply, MustReview, MayComplete
  <2>5. CASE CompleteUnconfirmed(c)
    <3>1. CASE UNCHANGED rowVars
      BY <2>5, <3>1 DEF TypeOK, CallTypeOK, CompleteUnconfirmed, Goto, End, rowVars, worldVars
    <3>2. CASE ~(UNCHANGED rowVars)
      <4> DEFINE i == inv[c]
      <4>1. /\ \A e \in Caller : pc'[e] = "claimed" =>
                 pc[e] = "claimed" /\ inv'[e] = inv[e] /\ epoch'[e] = epoch[e]
            /\ status' = [status EXCEPT ![i] = "completed"]
            /\ reopened' = reopened /\ dispatched' = dispatched
        BY <2>5, <3>2 DEF TypeOK, CallTypeOK, CompleteUnconfirmed, Goto, End, SaveReceipt, Leave, worldVars
      <4> HIDE DEF i
      <4> QED
        BY <4>1, LedgerAssumption DEF TypeOK, RowTypeOK
    <3> QED
      BY <3>1, <3>2
  <2>6. CASE MarkUnknown(c)
    <3>1. CASE UNCHANGED rowVars
      BY <2>6, <3>1 DEF TypeOK, CallTypeOK, MarkUnknown, Goto, End, rowVars, worldVars
    <3>2. CASE ~(UNCHANGED rowVars)
      <4> DEFINE i == inv[c]
      <4>1. /\ \A e \in Caller : pc'[e] = "claimed" =>
                 pc[e] = "claimed" /\ inv'[e] = inv[e] /\ epoch'[e] = epoch[e]
            /\ status' = [status EXCEPT ![i] = "outcome_unknown"]
            /\ reopened' = reopened /\ dispatched' = dispatched
        BY <2>6, <3>2 DEF TypeOK, CallTypeOK, MarkUnknown, Goto, End, Leave, worldVars
      <4> HIDE DEF i
      <4> QED
        BY <4>1, LedgerAssumption DEF TypeOK, RowTypeOK
    <3> QED
      BY <3>1, <3>2
  <2> QED
    BY <1>1, <2>1, <2>2, <2>3, <2>4, <2>5, <2>6, <2>7
    DEF CallerStep
<1>2. ASSUME NEW c \in Caller, NEW i \in Invocation, ClaimGranted(c, i)
      PROVE  OpenEpochInv'
  BY <1>2, LedgerAssumption
  DEF TypeOK, RowTypeOK, CallTypeOK, WorldTypeOK, Run, ClaimGranted,
      worldVars, IsWrite, Owned, Expired, MayRetryUnattended, Claimable
<1>3. ASSUME NEW c \in Caller, NEW i \in Invocation, ClaimExpired(c, i)
      PROVE  OpenEpochInv'
  BY <1>3, LedgerAssumption
  DEF TypeOK, RowTypeOK, CallTypeOK, WorldTypeOK, Run, ClaimExpired, callVars,
      worldVars, IsWrite, Owned, Expired, MayRetryUnattended, Leave
<1>4. ASSUME NEW c \in Caller, NEW i \in Invocation, ClaimReplay(c, i)
      PROVE  OpenEpochInv'
  <2>1. CASE source[i] = "tool"
    BY <1>4, <2>1, BusyCaller
    DEF TypeOK, RowTypeOK, CallTypeOK, WorldTypeOK, Run, ClaimReplay, rowVars,
        Owned, Reply
  <2>2. CASE source[i] # "tool"
    BY <1>4, <2>2, BusyCaller
    DEF TypeOK, RowTypeOK, CallTypeOK, WorldTypeOK, Run, ClaimReplay, rowVars,
        Owned, Reply
  <2> QED
    BY <2>1, <2>2
<1>5. ASSUME NEW i \in Invocation, Land(i)
      PROVE  OpenEpochInv'
  BY <1>5, LedgerAssumption
  DEF TypeOK, RowTypeOK, CallTypeOK, WorldTypeOK, Run, Land, rowVars,
      callVars, IsWrite, Owned
<1>6. ASSUME NEW i \in Invocation, ReconcileExpired(i)
      PROVE  OpenEpochInv'
  BY <1>6, LedgerAssumption
  DEF TypeOK, RowTypeOK, CallTypeOK, WorldTypeOK, Run, ReconcileExpired,
      callVars, worldVars, IsWrite, Owned, Expired, MayRetryUnattended, Leave
<1>7. ASSUME NEW o \in Operator, NEW i \in Invocation, Inspect(o, i)
      PROVE  OpenEpochInv'
  BY <1>7, LedgerAssumption
  DEF TypeOK, RowTypeOK, CallTypeOK, WorldTypeOK, Run, Inspect, rowVars,
      callVars, worldVars, Owned
<1>8. ASSUME NEW o \in Operator, NEW h \in BOOLEAN, Resolve(o, h)
      PROVE  OpenEpochInv'
  BY <1>8, LedgerAssumption, SMTT(30)
  DEF TypeOK, RowTypeOK, CallTypeOK, WorldTypeOK, Run, Resolve, rowVars,
      callVars, worldVars, View, Owned, Leave, MayResolve
<1>9. CASE Tick \/ UNCHANGED vars
  BY <1>9
  DEF TypeOK, RowTypeOK, CallTypeOK, WorldTypeOK, Run, Tick, Owned, vars,
      rowVars, callVars, worldVars
<1> QED
  BY <1>1, <1>2, <1>3, <1>4, <1>5, <1>6, <1>7, <1>8, <1>9
  DEF Next

\* Revisions only grow, and an attempt is granted only with a new revision.
LEMMA RevisionStep ==
  ASSUME TypeOK, [Next]_vars, NEW i \in Invocation
  PROVE  /\ revision'[i] >= revision[i]
         /\ revision'[i] = revision[i] => attempts'[i] = attempts[i]
<1> USE DEF TypeOK, RowTypeOK
<1>0. revision \in [Invocation -> Nat] /\ attempts \in [Invocation -> Nat]
  OBVIOUS
<1>1. ASSUME NEW c \in Caller, CallerStep(c)
      PROVE  revision'[i] >= revision[i] /\ attempts' = attempts
  <2> HIDE DEF TypeOK, RowTypeOK
  <2>1. \/ revision' = revision
        \/ \E j \in Invocation : Bump(j)
    <3>1. CASE ReleaseUnstarted(c)
      BY <3>1, BusyCaller DEF ReleaseUnstarted, Leave, rowVars
    <3>2. CASE Renew(c)
      BY <3>2, BusyCaller DEF Renew, rowVars
    <3>3. CASE Complete(c) \/ CompleteUnconfirmed(c)
      BY <3>3, BusyCaller
      DEF Complete, CompleteUnconfirmed, MayComplete, SaveReceipt, Leave, rowVars
    <3>4. CASE MarkUnknown(c) \/ Annotate(c)
      BY <3>4, BusyCaller DEF MarkUnknown, Annotate, Leave, rowVars
    <3>5. CASE Dispatch(c) \/ RenewFails(c) \/ SkipComplete(c) \/
               RecheckReplay(c) \/ RecheckUnconfirmed(c) \/ Crash(c) \/
               HandlerReturns(c, TRUE) \/ HandlerReturns(c, FALSE)
      BY <3>5 DEF Dispatch, RenewFails, SkipComplete, RecheckReplay,
         RecheckUnconfirmed, Crash, HandlerReturns, rowVars
    <3> QED
      BY <1>1, <3>1, <3>2, <3>3, <3>4, <3>5 DEF CallerStep
  <2>2. attempts' = attempts
    BY <1>1 DEF CallerStep, ReleaseUnstarted, Dispatch, Renew, RenewFails,
       SkipComplete, Complete, CompleteUnconfirmed, RecheckReplay,
       RecheckUnconfirmed, MarkUnknown, Annotate, Crash, HandlerReturns,
       SaveReceipt, Leave, rowVars
  <2> QED
    BY <1>0, <2>1, <2>2 DEF Bump
<1>2. ASSUME NEW c \in Caller, NEW j \in Invocation,
             ClaimGranted(c, j) \/ ClaimExpired(c, j) \/ ClaimReplay(c, j)
      PROVE  /\ revision'[i] >= revision[i]
             /\ revision'[i] = revision[i] => attempts'[i] = attempts[i]
  BY <1>2 DEF ClaimGranted, ClaimExpired, ClaimReplay, Leave, Bump, rowVars
<1>3. ASSUME NEW j \in Invocation, Land(j) \/ ReconcileExpired(j)
      PROVE  revision'[i] >= revision[i] /\ attempts' = attempts
  BY <1>3 DEF Land, ReconcileExpired, Leave, Bump, rowVars
<1>4. ASSUME NEW o \in Operator, NEW j \in Invocation, Inspect(o, j)
      PROVE  revision'[i] >= revision[i] /\ attempts' = attempts
  BY <1>4 DEF Inspect, rowVars
<1>5. ASSUME NEW o \in Operator, NEW happened \in BOOLEAN, Resolve(o, happened)
      PROVE  revision'[i] >= revision[i] /\ attempts' = attempts
  BY <1>5 DEF Resolve, Leave, Bump, rowVars
<1>6. CASE Tick \/ UNCHANGED vars
  BY <1>6 DEF Tick, vars, rowVars
<1> QED
  BY <1>1, <1>2, <1>3, <1>4, <1>5, <1>6 DEF Next

\* A page that shows the row's revision shows its attempt.
LEMMA ViewStep ==
  ASSUME TypeOK, LedgerInv, [Next]_vars
  PROVE  ViewInv'
<1> SUFFICES ASSUME NEW o \in Operator, view'[o].inv # NoInvocation
             PROVE  /\ view'[o].revision <= revision'[view'[o].inv]
                    /\ view'[o].revision = revision'[view'[o].inv]
                         => view'[o].attempts = attempts'[view'[o].inv]
  BY DEF ViewInv
<1>1. CASE view'[o] = view[o]
  <2>1. view[o].inv \in Invocation /\ view[o].revision \in Nat
    BY <1>1 DEF TypeOK, View
  <2>2. /\ revision[view[o].inv] \in Nat
        /\ revision'[view[o].inv] \in Nat
    BY <2>1, TypeStep DEF TypeOK, RowTypeOK
  <2>3. /\ view[o].revision <= revision[view[o].inv]
        /\ view[o].revision = revision[view[o].inv]
             => view[o].attempts = attempts[view[o].inv]
    BY <1>1 DEF LedgerInv, ViewInv
  <2> QED
    BY <1>1, <2>1, <2>2, <2>3, RevisionStep
<1>2. CASE view'[o] # view[o]
  <2>1. \/ \E p \in Operator, i \in Invocation : Inspect(p, i)
        \/ \E p \in Operator, happened \in BOOLEAN : Resolve(p, happened)
    BY <1>2 DEF Next, CallerStep, ReleaseUnstarted, Dispatch, Renew, RenewFails,
       SkipComplete, Complete, CompleteUnconfirmed, RecheckReplay,
       RecheckUnconfirmed, MarkUnknown, Annotate, Crash, HandlerReturns,
       ClaimGranted, ClaimExpired, ClaimReplay, Land, ReconcileExpired, Tick,
       vars
  <2>2. ASSUME NEW p \in Operator, NEW i \in Invocation, Inspect(p, i)
        PROVE  /\ view'[o].revision <= revision'[view'[o].inv]
               /\ view'[o].attempts = attempts'[view'[o].inv]
    <3>1. view'[o] = [inv |-> i, revision |-> revision[i], attempts |-> attempts[i]]
      BY <1>2, <2>2 DEF Inspect, TypeOK
    <3>2. revision' = revision /\ attempts' = attempts /\ revision[i] \in Nat
      BY <2>2 DEF Inspect, rowVars, TypeOK, RowTypeOK
    <3> QED
      BY <3>1, <3>2
  <2>3. ASSUME NEW p \in Operator, NEW happened \in BOOLEAN, Resolve(p, happened)
        PROVE  FALSE
    BY <1>2, <2>3 DEF Resolve, NoView, TypeOK
  <2> QED
    BY <2>1, <2>2, <2>3
<1> QED
  BY <1>1, <1>2

-----------------------------------------------------------------------------
\* The ledger's invariant holds in every reachable state.
THEOREM LedgerCorrect == Spec => []LedgerInv
<1>1. Init => LedgerInv
  BY LedgerAssumption
  DEF Init, LedgerInv, UsedOnceInv, RunEpochInv, ClaimEpochInv,
      ClaimUniqueInv, OpenEpochInv, AttemptsAccounted, OpenBudgetInv, Budget,
      HeldAttemptInv, OwnerInv, ReceiptIsEarned, AnswersAgree, RunInv,
      SourceInv, ViewInv, NoView, Claimed, InFlight, IsWrite
<1>2. TypeOK /\ LedgerInv /\ [Next]_vars => LedgerInv'
  BY OwnerStep, HeldStep, OpenBudgetStep, AccountStep, RunStep, SourceStep,
     AnswerStep, ReceiptStep, DispatchStep, RunEpochStep, ClaimEpochStep,
     ClaimUniqueStep, OpenEpochStep, ViewStep
  DEF LedgerInv
<1> QED
  BY <1>1, <1>2, TypeCorrect, PTL DEF Spec

\* A set of runs with different epochs, none beyond n, has at most n + 1 members.
LEMMA RunsCounted ==
    ASSUME NEW n \in Nat, NEW R \in SUBSET Run,
           \A r \in R : r.epoch <= n, \A r, s \in R : r.epoch = s.epoch => r = s
    PROVE  Cardinality(R) <= 1 + n
<1> DEFINE f == [r \in R |-> r.epoch]
<1>1. \A r \in R : r.epoch \in 0 .. n
  BY DEF Run
<1>2. f \in [R -> 0 .. n] /\ \A r, s \in R : f[r] = f[s] => r = s
  BY <1>1
<1> HIDE DEF f
<1>3. f \in Injection(R, 0 .. n)
  BY <1>2 DEF Injection, IsInjective
<1>4. IsFiniteSet(0 .. n) /\ Cardinality(0 .. n) = n + 1
  BY FS_Interval
<1>5. Cardinality(R) <= Cardinality(0 .. n)
  BY <1>3, <1>4, FS_Injection
<1> QED
  BY <1>4, <1>5

\* A write is handed out at most once more than operators decided that a run did
\* not happen, and a second run between the same decisions is a late one, through
\* any number of crashes, expiries, lost acknowledgements and callers.
THEOREM WritesArePaidFor == Spec => []DispatchesArePaidFor
<1>1. TypeOK /\ LedgerInv => DispatchesArePaidFor
  <2> SUFFICES ASSUME TypeOK, LedgerInv, NEW i \in WriteInvocation
               PROVE  /\ Cardinality(dispatched[i]) <= 1 + reopened[i]
                      /\ \A r, s \in dispatched[i] :
                           r # s /\ r.decided = s.decided => Late(r) \/ Late(s)
    BY DEF DispatchesArePaidFor
  <2>1. i \in Invocation /\ reopened[i] \in Nat /\ dispatched[i] \in SUBSET Run
    BY LedgerAssumption DEF TypeOK, RowTypeOK, WorldTypeOK
  <2>2. \A r, s \in dispatched[i] : r.epoch = s.epoch => r = s
    BY DEF LedgerInv, UsedOnceInv
  <2>3. \A r \in dispatched[i] : r.epoch <= reopened[i] /\ r.epoch <= r.decided
    BY DEF LedgerInv, RunEpochInv
  <2>4. Cardinality(dispatched[i]) <= 1 + reopened[i]
    BY <2>1, <2>2, <2>3, RunsCounted
  <2>5. \A r \in dispatched[i] : r.epoch \in Nat /\ r.decided \in Nat
    BY <2>1 DEF Run
  <2> QED
    BY <2>2, <2>3, <2>4, <2>5 DEF Late
<1> QED
  BY <1>1, TypeCorrect, LedgerCorrect, PTL

\* Everyone who runs an invocation is answered with the one stored receipt.
THEOREM AnswersAreTheReceipt == Spec => []AnswersAgree
BY LedgerCorrect, PTL DEF LedgerInv

\* A stored receipt is that of the last attempt, was dispatched, and landed.
THEOREM ReceiptsAreEarned == Spec => []ReceiptIsEarned
BY LedgerCorrect, PTL DEF LedgerInv

\* Every attempt beyond the unattended budget was released or reopened.
THEOREM AttemptsAreAccounted == Spec => []AttemptsAccounted
BY LedgerCorrect, PTL DEF LedgerInv

-----------------------------------------------------------------------------
\* An uncertain outcome is closed only by an operator who inspected this
\* attempt: no claim, expiry, renewal or late caller closes it
\* (resolveUnknown).
THEOREM ReviewsAreCurrent == Spec => ReviewIsCurrent
<1> DEFINE Closed(i) == /\ status[i] = "outcome_unknown"
                        /\ status'[i] # "outcome_unknown"
           Inspected(i) == \E o \in Operator : /\ view[o].inv = i
                                              /\ view[o].attempts = attempts[i]
                                              /\ view'[o] = NoView
<1>1. ASSUME TypeOK, LedgerInv, [Next]_vars, NEW i \in Invocation, Closed(i)
      PROVE  Inspected(i)
  <2> USE DEF TypeOK, RowTypeOK, CallTypeOK, Owned
  <2>1. ASSUME NEW c \in Caller, CallerStep(c) PROVE FALSE
    BY <1>1, <2>1, BusyCaller
    DEF CallerStep, ReleaseUnstarted, Dispatch, Renew, RenewFails,
        SkipComplete, Complete, CompleteUnconfirmed, RecheckReplay,
        RecheckUnconfirmed, MarkUnknown, Annotate, Crash, HandlerReturns,
        SaveReceipt, Leave, MayComplete, rowVars
  <2>2. ASSUME NEW c \in Caller, NEW j \in Invocation,
               ClaimGranted(c, j) \/ ClaimExpired(c, j) \/ ClaimReplay(c, j)
        PROVE  FALSE
    BY <1>1, <2>2 DEF ClaimGranted, ClaimExpired, ClaimReplay, Claimable,
       Expired, Leave, rowVars
  <2>3. ASSUME NEW j \in Invocation, Land(j) \/ ReconcileExpired(j)
        PROVE  FALSE
    BY <1>1, <2>3 DEF Land, ReconcileExpired, Expired, Leave, rowVars
  <2>4. ASSUME NEW o \in Operator, NEW j \in Invocation, Inspect(o, j)
        PROVE  FALSE
    BY <1>1, <2>4 DEF Inspect, rowVars
  <2>5. ASSUME NEW o \in Operator, NEW happened \in BOOLEAN,
               Resolve(o, happened)
        PROVE  Inspected(i)
    <3>1. view[o].inv = i /\ revision[i] = view[o].revision
      BY <1>1, <2>5 DEF Resolve, MayResolve, Leave, rowVars, View
    <3>2. view[o].attempts = attempts[i]
      BY <1>1, <3>1, LedgerAssumption DEF LedgerInv, ViewInv
    <3>3. view'[o] = NoView
      BY <1>1, <2>5 DEF Resolve
    <3> QED
      BY <3>1, <3>2, <3>3
  <2>6. CASE Tick \/ UNCHANGED vars
    BY <1>1, <2>6 DEF Tick, vars, rowVars
  <2> QED
    BY <1>1, <2>1, <2>2, <2>3, <2>4, <2>5, <2>6 DEF Next
<1>2. TypeOK /\ LedgerInv /\ [Next]_vars
        => [\A i \in Invocation :
              /\ status[i] = "outcome_unknown"
              /\ status'[i] # "outcome_unknown"
              => \E o \in Operator : /\ view[o].inv = i
                                     /\ view[o].attempts = attempts[i]
                                     /\ view'[o] = NoView]_vars
  BY <1>1
<1> QED
  BY <1>2, TypeCorrect, LedgerCorrect, PTL DEF Spec, ReviewIsCurrent

-----------------------------------------------------------------------------
(* Refinement: what a step of the ledger does to the abstract state.       *)

Phase == [i \in Invocation |-> PhaseOf(status[i])]

\* A step that leaves the abstract state alone.
LEMMA Stutter ==
  ASSUME TypeOK, UNCHANGED <<status, reopened, receipt, dispatched, answers>>
  PROVE  UNCHANGED Reviewed!absVars
BY DEF Reviewed!absVars

\* One row gets a new status: its phase follows.
LEMMA PhaseChanges ==
  ASSUME TypeOK, NEW i \in Invocation, NEW s \in Status,
         status' = [status EXCEPT ![i] = s]
  PROVE  Phase' = [Phase EXCEPT ![i] = PhaseOf(s)]
BY DEF TypeOK, RowTypeOK, Phase

\* The phase of each status.
LEMMA Phases ==
  ASSUME TypeOK, NEW i \in Invocation
  PROVE  /\ status[i] \in {"absent", "retryable"} => Phase[i] = "open"
         /\ status[i] = "executing" => Phase[i] = "busy"
         /\ status[i] = "outcome_unknown" => Phase[i] = "uncertain"
         /\ status[i] = "completed" => Phase[i] = "done"
BY DEF Phase, PhaseOf

\* An executing row becomes uncertain.
LEMMA Uncertain ==
  ASSUME TypeOK, NEW i \in Invocation, status[i] = "executing",
         Leave(i, "outcome_unknown"),
         UNCHANGED <<reopened, receipt, dispatched, answers>>
  PROVE  Reviewed!AbsNext
<1>1. Phase' = [Phase EXCEPT ![i] = "uncertain"]
  BY PhaseChanges DEF Leave, Status, PhaseOf
<1>2. Reviewed!Suspect(i)
  BY <1>1, Phases DEF Reviewed!Suspect, Phase
<1> QED
  BY <1>2 DEF Reviewed!AbsNext

\* An executing row is given back: no run used its current permission, or it
\* is a read-only tool's.
LEMMA GivenBack ==
  ASSUME TypeOK, NEW i \in Invocation, status[i] = "executing",
         IsWrite(i) => \A r \in dispatched[i] : r.epoch < reopened[i],
         Leave(i, "retryable"),
         UNCHANGED <<reopened, receipt, dispatched, answers>>
  PROVE  Reviewed!AbsNext
<1>1. Phase' = [Phase EXCEPT ![i] = "open"]
  BY PhaseChanges DEF Leave, Status, PhaseOf
<1>2. Reviewed!GiveBack(i)
  BY <1>1, Phases DEF Reviewed!GiveBack, Phase, IsWrite
<1> QED
  BY <1>2 DEF Reviewed!AbsNext

\* A caller saves its receipt, and is answered with it or not.
LEMMA Finished ==
  ASSUME TypeOK, LedgerInv, NEW c \in Caller, MayComplete(c), Owned(c, FALSE),
         SaveReceipt(inv[c], attempt[c]), UNCHANGED dispatched,
         Reply(inv[c], attempt[c]) \/ UNCHANGED answers
  PROVE  Reviewed!AbsNext
<1> DEFINE i == inv[c]
           a == attempt[c]
<1>1. i \in Invocation /\ status[i] = "executing"
  BY BusyCaller DEF MayComplete, Owned
<1>2. \E r \in dispatched[i] : r.attempt = a
  BY <1>1 DEF MayComplete, LedgerInv, RunInv, InFlight
<1>3. Phase' = [Phase EXCEPT ![i] = "done"]
  BY <1>1, PhaseChanges DEF SaveReceipt, Leave, Status, PhaseOf
<1>4. receipt' = [receipt EXCEPT ![i] = a] /\ reopened' = reopened
  BY DEF SaveReceipt
<1>5. receipt'[i] = a
  BY <1>1, <1>4 DEF TypeOK, RowTypeOK
<1>6. \E r \in dispatched[i] : receipt' = [receipt EXCEPT ![i] = r.attempt]
  BY <1>2, <1>4
<1>7. \/ answers' = [answers EXCEPT ![i] = {receipt'[i]}]
      \/ answers' = answers
  <2>1. answers[i] = {}
    BY <1>1 DEF LedgerInv, AnswersAgree
  <2>2. CASE Reply(i, a)
    BY <1>1, <1>5, <2>1, <2>2 DEF Reply, TypeOK, WorldTypeOK
  <2> QED
    BY <2>2
<1> HIDE DEF i, a
<1>8. Reviewed!Finish(i)
  BY <1>1, <1>3, <1>4, <1>6, <1>7, Phases DEF Reviewed!Finish, Phase
<1> QED
  BY <1>1, <1>8 DEF Reviewed!AbsNext

\* A completed row's receipt is returned to an agent.
LEMMA Answered ==
  ASSUME TypeOK, NEW i \in Invocation, status[i] = "completed",
         Reply(i, receipt[i]), UNCHANGED <<rowVars, dispatched>>
  PROVE  Reviewed!AbsNext
<1>1. Reviewed!Answer(i)
  BY Phases DEF Reviewed!Answer, Phase, Reply, rowVars
<1> QED
  BY <1>1 DEF Reviewed!AbsNext

\* A run starts: its permission was given, and for a write no run has used it.
LEMMA Started ==
  ASSUME TypeOK, LedgerInv, NEW c \in Caller, Dispatch(c)
  PROVE  Reviewed!AbsNext \/ UNCHANGED Reviewed!absVars
<1> DEFINE i == inv[c]
           r == [attempt |-> attempt[c], epoch |-> epoch[c], decided |-> reopened[i]]
<1>1. i \in Invocation /\ Claimed(c, i) /\ r \in Run
  BY BusyCaller DEF Dispatch, Claimed, Run, TypeOK, RowTypeOK, CallTypeOK
<1>2. dispatched' = [dispatched EXCEPT ![i] = @ \cup {r}]
  BY DEF Dispatch
<1>3. r.epoch <= reopened[i]
  BY <1>1 DEF LedgerInv, HeldAttemptInv
<1>4. i \in WriteInvocation =>
        /\ \A s \in dispatched[i] : s.epoch # r.epoch
        /\ status[i] \in {"absent", "retryable"} => r.epoch < reopened[i]
  BY <1>1 DEF LedgerInv, ClaimEpochInv, OpenEpochInv
<1>5. UNCHANGED <<status, reopened, receipt, answers>>
  BY DEF Dispatch, rowVars
<1> HIDE DEF i, r
<1>6. CASE r \in dispatched[i]
  <2>1. dispatched' = dispatched
    BY <1>1, <1>2, <1>6 DEF TypeOK, WorldTypeOK
  <2> QED
    BY <1>5, <2>1, Stutter
<1>7. CASE r \notin dispatched[i]
  <2>1. r \in dispatched'[i] \ dispatched[i]
    BY <1>1, <1>2, <1>7 DEF TypeOK, WorldTypeOK
  <2>2. Phase[i] = "open" => status[i] \in {"absent", "retryable"}
    BY <1>1 DEF Phase, PhaseOf, TypeOK, RowTypeOK, Status
  <2>3. Phase' = Phase
    BY <1>5 DEF Phase
  <2>4. Reviewed!Start(i)
    BY <1>2, <1>3, <1>4, <1>5, <2>1, <2>2, <2>3 DEF Reviewed!Start, Phase
  <2> QED
    BY <1>1, <2>4 DEF Reviewed!AbsNext
<1> QED
  BY <1>6, <1>7

\* An operator's decision confirms the effect or permits another run.
LEMMA Decided ==
  ASSUME TypeOK, NEW o \in Operator, NEW happened \in BOOLEAN,
         Resolve(o, happened)
  PROVE  Reviewed!AbsNext \/ UNCHANGED Reviewed!absVars
<1> DEFINE i == view[o].inv
<1>1. i \in Invocation
  BY DEF Resolve, TypeOK, View
<1>2. UNCHANGED <<dispatched, answers, receipt>>
  BY DEF Resolve, worldVars, rowVars
<1>3. CASE ~MayResolve(o)
  BY <1>2, <1>3, Stutter DEF Resolve, rowVars
<1>4. CASE MayResolve(o) /\ happened
  <2>1. /\ status[i] = "outcome_unknown" /\ Leave(i, "completed")
        /\ reopened' = [reopened EXCEPT ![i] = @]
    BY <1>4 DEF Resolve, MayResolve
  <2>2. Phase' = [Phase EXCEPT ![i] = "done"]
    BY <1>1, <2>1, PhaseChanges DEF Leave, Status, PhaseOf
  <2>3. reopened' = reopened
    BY <1>1, <2>1 DEF TypeOK, RowTypeOK
  <2>4. Reviewed!Confirm(i)
    BY <1>1, <1>2, <2>1, <2>2, <2>3, Phases DEF Reviewed!Confirm, Phase
  <2> QED
    BY <1>1, <2>4 DEF Reviewed!AbsNext
<1>5. CASE MayResolve(o) /\ ~happened
  <2>1. /\ status[i] = "outcome_unknown" /\ Leave(i, "retryable")
        /\ reopened' = [reopened EXCEPT ![i] = @ + 1]
    BY <1>5 DEF Resolve, MayResolve
  <2>2. Phase' = [Phase EXCEPT ![i] = "open"]
    BY <1>1, <2>1, PhaseChanges DEF Leave, Status, PhaseOf
  <2>3. Reviewed!Permit(i)
    BY <1>1, <1>2, <2>1, <2>2, Phases DEF Reviewed!Permit, Phase
  <2> QED
    BY <1>1, <2>3 DEF Reviewed!AbsNext
<1> QED
  BY <1>3, <1>4, <1>5

\* Every step of a caller is a step of the promise, or none of it.
LEMMA CallerRefines ==
  ASSUME TypeOK, LedgerInv, NEW c \in Caller, CallerStep(c)
  PROVE  Reviewed!AbsNext \/ UNCHANGED Reviewed!absVars
<1>1. CASE Renew(c) \/ RenewFails(c) \/ SkipComplete(c) \/ Annotate(c) \/
           RecheckUnconfirmed(c) \/ Crash(c) \/
           HandlerReturns(c, TRUE) \/ HandlerReturns(c, FALSE)
  <2>1. UNCHANGED <<status, reopened, receipt, dispatched, answers>>
    BY <1>1 DEF Renew, RenewFails, SkipComplete, Annotate, RecheckUnconfirmed,
       Crash, HandlerReturns, rowVars, worldVars
  <2> QED
    BY <2>1, Stutter
<1>2. CASE ReleaseUnstarted(c)
  <2> DEFINE i == inv[c]
  <2>1. i \in Invocation /\ Claimed(c, i)
    BY <1>2, BusyCaller DEF ReleaseUnstarted, Claimed
  <2>2. UNCHANGED <<reopened, receipt, dispatched, answers>>
    BY <1>2 DEF ReleaseUnstarted, rowVars
  <2>3. CASE Owned(c, TRUE)
    <3>1. status[i] = "executing" /\ Leave(i, "retryable")
      BY <1>2, <2>3 DEF ReleaseUnstarted, Owned
    <3>2. ASSUME IsWrite(i), NEW r \in dispatched[i]
          PROVE  r.epoch < reopened[i]
      <4>1. epoch[c] = reopened[i] /\ r.epoch # epoch[c]
        BY <2>1, <2>3, <3>2 DEF LedgerInv, ClaimEpochInv, IsWrite
      <4>2. r.epoch <= reopened[i]
        BY <2>1, <3>2 DEF LedgerInv, RunEpochInv, IsWrite
      <4>3. r.epoch \in Nat /\ reopened[i] \in Nat
        BY <2>1, <3>2 DEF TypeOK, RowTypeOK, WorldTypeOK, Run
      <4> QED
        BY <4>1, <4>2, <4>3
    <3> QED
      BY <2>1, <2>2, <3>1, <3>2, GivenBack
  <2>4. CASE ~Owned(c, TRUE)
    BY <1>2, <2>2, <2>4, Stutter DEF ReleaseUnstarted, rowVars
  <2> QED
    BY <2>3, <2>4
<1>3. CASE Dispatch(c)
  BY <1>3, Started
<1>4. CASE Complete(c)
  BY <1>4, Finished DEF Complete
<1>5. CASE CompleteUnconfirmed(c)
  <2>1. CASE UNCHANGED rowVars
    BY <1>5, <2>1, Stutter DEF CompleteUnconfirmed, rowVars, worldVars
  <2>2. CASE Owned(c, FALSE) /\ SaveReceipt(inv[c], attempt[c])
    BY <1>5, <2>2, Finished DEF CompleteUnconfirmed, worldVars
  <2> QED
    BY <1>5, <2>1, <2>2 DEF CompleteUnconfirmed
<1>6. CASE RecheckReplay(c)
  BY <1>6, BusyCaller, Answered DEF RecheckReplay
<1>7. CASE MarkUnknown(c)
  <2>1. CASE UNCHANGED rowVars
    BY <1>7, <2>1, Stutter DEF MarkUnknown, rowVars, worldVars
  <2>2. CASE Owned(c, TRUE) /\ Leave(inv[c], "outcome_unknown") /\
             UNCHANGED <<source, receipt, reopened>>
    BY <1>7, <2>2, BusyCaller, Uncertain DEF MarkUnknown, Owned, worldVars
  <2> QED
    BY <1>7, <2>1, <2>2 DEF MarkUnknown
<1> QED
  BY <1>1, <1>2, <1>3, <1>4, <1>5, <1>6, <1>7 DEF CallerStep

\* Every step of the ledger is a step of the promise, or none of it.
LEMMA StepRefines ==
  ASSUME TypeOK, LedgerInv, [Next]_vars
  PROVE  Reviewed!AbsNext \/ UNCHANGED Reviewed!absVars
<1>1. ASSUME NEW c \in Caller, NEW i \in Invocation, ClaimGranted(c, i)
      PROVE  Reviewed!AbsNext \/ UNCHANGED Reviewed!absVars
  <2>1. /\ status' = [status EXCEPT ![i] = "executing"]
        /\ UNCHANGED <<reopened, receipt, dispatched, answers>>
    BY <1>1 DEF ClaimGranted, worldVars
  <2>2. CASE status[i] = "executing"
    <3>1. status' = status
      BY <2>1, <2>2 DEF TypeOK, RowTypeOK
    <3> QED
      BY <2>1, <3>1, Stutter
  <2>3. CASE status[i] # "executing"
    <3>1. status[i] \in {"absent", "retryable"}
      BY <1>1, <2>3 DEF ClaimGranted, Claimable, Expired
    <3>2. Phase' = [Phase EXCEPT ![i] = "busy"]
      BY <2>1, PhaseChanges DEF Status, PhaseOf
    <3>3. Reviewed!Begin(i)
      BY <2>1, <3>1, <3>2, Phases DEF Reviewed!Begin, Phase
    <3> QED
      BY <3>3 DEF Reviewed!AbsNext
  <2> QED
    BY <2>2, <2>3
<1>2. ASSUME NEW c \in Caller, NEW i \in Invocation, ClaimExpired(c, i)
      PROVE  Reviewed!AbsNext
  BY <1>2, Uncertain DEF ClaimExpired, Expired, worldVars
<1>3. ASSUME NEW c \in Caller, NEW i \in Invocation, ClaimReplay(c, i)
      PROVE  Reviewed!AbsNext
  BY <1>3, Answered DEF ClaimReplay
<1>4. ASSUME NEW i \in Invocation, ReconcileExpired(i)
      PROVE  Reviewed!AbsNext
  <2>1. /\ status[i] = "executing"
        /\ UNCHANGED <<reopened, receipt, dispatched, answers>>
    BY <1>4 DEF ReconcileExpired, Expired, worldVars
  <2>2. CASE MayRetryUnattended(i)
    BY <1>4, <2>1, <2>2, GivenBack DEF ReconcileExpired, MayRetryUnattended
  <2>3. CASE ~MayRetryUnattended(i)
    BY <1>4, <2>1, <2>3, Uncertain DEF ReconcileExpired
  <2> QED
    BY <2>2, <2>3
<1>5. ASSUME NEW o \in Operator, NEW i \in Invocation, Inspect(o, i)
      PROVE  UNCHANGED Reviewed!absVars
  BY <1>5, Stutter DEF Inspect, rowVars, worldVars
<1>6. ASSUME NEW i \in Invocation, Land(i)
      PROVE  UNCHANGED Reviewed!absVars
  BY <1>6, Stutter DEF Land, rowVars
<1>7. CASE Tick \/ UNCHANGED vars
  <2>1. UNCHANGED <<status, reopened, receipt, dispatched, answers>>
    BY <1>7 DEF Tick, vars, rowVars, worldVars
  <2> QED
    BY <2>1, Stutter
<1> QED
  BY <1>1, <1>2, <1>3, <1>4, <1>5, <1>6, <1>7, CallerRefines, Decided DEF Next

\* The ledger, its callers and its operators implement ReviewedExecution: with
\* leases, tokens, clocks, crashes and lost acknowledgements, a write is still
\* run once per permission and answered with its one result.
THEOREM LedgerImplementsReviewed == Spec => ImplementsReviewed
<1>1. Init => Reviewed!AbsInit
  <2> SUFFICES ASSUME Init PROVE Reviewed!AbsInit
    OBVIOUS
  <2>1. [i \in Invocation |-> PhaseOf(status[i])] = [i \in Invocation |-> "open"]
    BY DEF Init, PhaseOf
  <2> QED
    BY <2>1 DEF Init, Reviewed!AbsInit
<1>2. TypeOK /\ LedgerInv /\ [Next]_vars => [Reviewed!AbsNext]_(Reviewed!absVars)
  BY StepRefines
<1> QED
  BY <1>1, <1>2, TypeCorrect, LedgerCorrect, PTL
  DEF Spec, ImplementsReviewed, Reviewed!AbsSpec
=============================================================================
