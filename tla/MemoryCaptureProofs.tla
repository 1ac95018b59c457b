------------------------ MODULE MemoryCaptureProofs ------------------------
(***************************************************************************)
(* Type correctness of MemoryCapture, and why only what the memory service *)
(* has stored counts as captured and old claims move nothing: for any      *)
(* number of captures, runs, processes and faults.                         *)
(***************************************************************************)
EXTENDS MemoryCapture, FiniteSetTheorems, TLAPS

-----------------------------------------------------------------------------
(* How the parts of a step keep their types.                               *)

RowTyped ==
    /\ status \in [Capture -> Status]
    /\ token \in [Capture -> Nat]
    /\ attempts \in [Capture -> Nat]
    /\ live \in [Capture -> BOOLEAN]
    /\ due \in [Capture -> BOOLEAN]

CallTyped ==
    /\ call \in [Caller -> Call]
    /\ \A p \in Caller :
         call[p].pc \notin {"idle", "list"} => call[p].capture \in Capture

\* A caller that goes on keeps its capture and its token.
LEMMA GotoStep ==
    ASSUME CallTyped, NEW p \in Caller, NEW pc \in PC, Goto(p, pc),
           pc \in {"idle", "list"} \/ call[p].pc \notin {"idle", "list"}
    PROVE  /\ CallTyped'
           /\ call'[p] = [pc |-> pc, capture |-> call[p].capture, token |-> call[p].token]
           /\ \A q \in Caller : q # p => call'[q] = call[q]
<1>1. call[p].capture \in Capture \cup {NoCapture} /\ call[p].token \in Nat
  BY DEF CallTyped, Call
<1>2. [pc |-> pc, capture |-> call[p].capture, token |-> call[p].token] \in Call
  BY <1>1 DEF Call
<1>3. /\ call' \in [Caller -> Call]
      /\ call'[p] = [pc |-> pc, capture |-> call[p].capture, token |-> call[p].token]
      /\ \A q \in Caller : q # p => call'[q] = call[q]
  BY <1>2 DEF CallTyped, Goto
<1>4. \A q \in Caller : call'[q].pc \notin {"idle", "list"} => call'[q].capture \in Capture
  <2> TAKE q \in Caller
  <2>1. CASE q = p
    BY <2>1, <1>3 DEF CallTyped
  <2>2. CASE q # p
    BY <2>2, <1>3 DEF CallTyped
  <2> QED
    BY <2>1, <2>2
<1> QED
  BY <1>3, <1>4 DEF CallTyped

\* A caller that ends forgets everything.
LEMMA EndStep ==
    ASSUME CallTyped, NEW p \in Caller, End(p)
    PROVE  /\ CallTyped'
           /\ call'[p] = NoCall
           /\ \A q \in Caller : q # p => call'[q] = call[q]
<1>1. NoCall \in Call
  BY DEF NoCall, Call, PC
<1>2. /\ call' \in [Caller -> Call]
      /\ call'[p] = NoCall
      /\ \A q \in Caller : q # p => call'[q] = call[q]
  BY <1>1 DEF CallTyped, End
<1>3. \A q \in Caller : call'[q].pc \notin {"idle", "list"} => call'[q].capture \in Capture
  BY <1>2 DEF CallTyped, NoCall
<1> QED
  BY <1>2, <1>3 DEF CallTyped

\* A caller that begins with a capture.
LEMMA BeginStep ==
    ASSUME CallTyped, NEW p \in Caller, NEW c \in Capture, NEW pc \in PC, NEW t \in Nat,
           call' = [call EXCEPT ![p] = [pc |-> pc, capture |-> c, token |-> t]]
    PROVE  /\ CallTyped'
           /\ call'[p] = [pc |-> pc, capture |-> c, token |-> t]
           /\ \A q \in Caller : q # p => call'[q] = call[q]
<1>1. [pc |-> pc, capture |-> c, token |-> t] \in Call
  BY DEF Call
<1>2. /\ call' \in [Caller -> Call]
      /\ call'[p] = [pc |-> pc, capture |-> c, token |-> t]
      /\ \A q \in Caller : q # p => call'[q] = call[q]
  BY <1>1 DEF CallTyped
<1>3. \A q \in Caller : call'[q].pc \notin {"idle", "list"} => call'[q].capture \in Capture
  <2> TAKE q \in Caller
  <2>1. CASE q = p
    BY <2>1, <1>2
  <2>2. CASE q # p
    BY <2>2, <1>2 DEF CallTyped
  <2> QED
    BY <2>1, <2>2
<1> QED
  BY <1>2, <1>3 DEF CallTyped

\* A row that is claimed.
LEMMA TakeStep ==
    ASSUME RowTyped, NEW c \in Capture, TakeRow(c)
    PROVE  /\ RowTyped'
           /\ status'[c] = "pending" /\ live'[c] = TRUE
           /\ \A d \in Capture : d # c => status'[d] = status[d]
BY DEF RowTyped, TakeRow, Status

\* A row that leaves its claim.
LEMMA LeaveStep ==
    ASSUME RowTyped, NEW c \in Capture, NEW s \in Status, LeaveRow(c, s)
    PROVE  /\ RowTyped'
           /\ status'[c] = s
           /\ \A d \in Capture : d # c => status'[d] = status[d]
BY DEF RowTyped, LeaveRow

\* The request of a caller at work.
LEMMA SentTyped ==
    ASSUME CallTyped, NEW p \in Caller, call[p].pc \notin {"idle", "list"}
    PROVE  Sent(p) \in Request
BY DEF CallTyped, Call, Sent, Request

\* A fault is counted.
LEMMA FaultStep ==
    ASSUME MaxFaults \in Nat, faults \in 0 .. MaxFaults, Fault
    PROVE  faults' \in 0 .. MaxFaults
BY DEF Fault

-----------------------------------------------------------------------------
(* Type correctness.                                                       *)

RestTyped ==
    /\ todo \in [Worker -> SUBSET Capture]
    /\ wire \in SUBSET Request
    /\ landed \in SUBSET Request
    /\ faults \in 0 .. MaxFaults

\* The type invariant is that of the row, the calls and the rest.
LEMMA TypeParts == TypeOK <=> RowTyped /\ CallTyped /\ RestTyped
BY DEF TypeOK, RowTyped, CallTyped, RestTyped

\* The initial states are well typed.
LEMMA InitTyped == Init => TypeOK
<1> SUFFICES ASSUME Init PROVE TypeOK
  OBVIOUS
<1>1. RowTyped
  BY DEF Init, RowTyped, Status
<1>2. NoCall \in Call
  BY DEF NoCall, Call, PC
<1>3. CallTyped
  BY <1>2 DEF Init, CallTyped, NoCall
<1>4. RestTyped
  BY CaptureAssumption DEF Init, RestTyped
<1> QED
  BY <1>1, <1>3, <1>4, TypeParts

\* No step takes a variable out of its type.
LEMMA NextTyped == TypeOK /\ [Next]_vars => TypeOK'
<1> SUFFICES ASSUME TypeOK, [Next]_vars PROVE TypeOK'
  OBVIOUS
<1>r. RowTyped
  BY TypeParts
<1>c. CallTyped
  BY TypeParts
<1>t. RestTyped
  BY TypeParts
<1>f. MaxFaults \in Nat
  BY CaptureAssumption
<1>w. \A w \in Worker : w \in Caller
  BY DEF Caller
<1>k. \A p \in Caller : call[p].pc \notin {"idle", "list"} => call[p].capture \in Capture
  BY <1>c DEF CallTyped
<1> SUFFICES RowTyped' /\ CallTyped' /\ RestTyped'
  BY DEF TypeOK, RowTyped, CallTyped, RestTyped
<1>1. ASSUME NEW r \in Run, NEW c \in Capture, Start(r, c)
      PROVE  RowTyped' /\ CallTyped' /\ RestTyped'
  <2>1. CallTyped'
    BY <1>1, <1>c, BeginStep DEF Start, Caller, PC
  <2> QED
    BY <1>1, <1>r, <1>t, <2>1 DEF Start, RowTyped, RestTyped, rowVars
<1>2. ASSUME NEW p \in Caller, ReadCursor(p)
      PROVE  RowTyped' /\ CallTyped' /\ RestTyped'
  <2>1. call[p].pc = "cursor"
    BY <1>2 DEF ReadCursor, At
  <2>2. Goto(p, "claim") \/ Goto(p, "stale") \/ End(p)
    BY <1>2 DEF ReadCursor
  <2>3. CallTyped'
    BY <2>1, <2>2, <1>c, GotoStep, EndStep DEF PC
  <2> QED
    BY <1>2, <1>r, <1>t, <2>3 DEF ReadCursor, RowTyped, RestTyped, rowVars
<1>3. ASSUME NEW p \in Caller, Claim(p)
      PROVE  RowTyped' /\ CallTyped' /\ RestTyped'
  <2>1. call[p].pc = "claim" /\ call[p].capture \in Capture
    BY <1>3, <1>k DEF Claim, At
  <2>2. attempts[call[p].capture] + 1 \in Nat
    BY <2>1, <1>r DEF RowTyped
  <2>3. CASE Claimable(call[p].capture)
    <3>1. RowTyped'
      BY <1>3, <2>1, <2>3, <1>r, TakeStep DEF Claim
    <3>2. CallTyped'
      BY <1>3, <2>1, <2>2, <2>3, <1>c, BeginStep DEF Claim, PC
    <3> QED
      BY <1>3, <3>1, <3>2, <1>t DEF Claim, RestTyped
  <2>4. CASE ~Claimable(call[p].capture)
    <3>1. CallTyped'
      BY <1>3, <2>4, <1>c, EndStep DEF Claim
    <3> QED
      BY <1>3, <2>4, <3>1, <1>r, <1>t DEF Claim, RestTyped, RowTyped, rowVars
  <2> QED
    BY <2>3, <2>4
<1>4. ASSUME NEW p \in Caller, ClaimUnconfirmed(p)
      PROVE  RowTyped' /\ CallTyped' /\ RestTyped'
  <2>1. call[p].capture \in Capture
    BY <1>4, <1>k DEF ClaimUnconfirmed, At
  <2>2. RowTyped'
    BY <1>4, <2>1, <1>r, TakeStep DEF ClaimUnconfirmed
  <2>3. CallTyped'
    BY <1>4, <1>c, EndStep DEF ClaimUnconfirmed
  <2>4. faults' \in 0 .. MaxFaults
    BY <1>4, <1>f, <1>t, FaultStep DEF ClaimUnconfirmed, RestTyped
  <2> QED
    BY <1>4, <2>2, <2>3, <2>4, <1>t DEF ClaimUnconfirmed, RestTyped
<1>5. ASSUME NEW p \in Caller, StoreFails(p)
      PROVE  RowTyped' /\ CallTyped' /\ RestTyped'
  <2>1. CallTyped'
    BY <1>5, <1>c, EndStep DEF StoreFails
  <2>2. faults' \in 0 .. MaxFaults
    BY <1>5, <1>f, <1>t, FaultStep DEF StoreFails, RestTyped
  <2> QED
    BY <1>5, <2>1, <2>2, <1>r, <1>t DEF StoreFails, RestTyped, RowTyped, rowVars
<1>6. ASSUME NEW p \in Caller, Post(p)
      PROVE  RowTyped' /\ CallTyped' /\ RestTyped'
  <2>1. Sent(p) \in Request
    BY <1>6, <1>c, SentTyped DEF Post, At
  <2>2. CallTyped'
    BY <1>6, <1>c, GotoStep DEF Post, At, PC
  <2> QED
    BY <1>6, <2>1, <2>2, <1>r, <1>t DEF Post, RestTyped, RowTyped, rowVars
<1>7. ASSUME NEW q \in wire, Land(q) \/ Lose(q)
      PROVE  RowTyped' /\ CallTyped' /\ RestTyped'
  <2>1. q \in Request
    BY <1>t DEF RestTyped
  <2>2. faults' \in 0 .. MaxFaults
    BY <1>7, <1>f, <1>t, FaultStep DEF Land, Lose, RestTyped
  <2> QED
    BY <1>7, <2>1, <2>2, <1>r, <1>c, <1>t
    DEF Land, Lose, RestTyped, RowTyped, CallTyped, rowVars
<1>8. ASSUME NEW p \in Caller, Accepted(p) \/ Rejected(p) \/ AnswerLost(p)
      PROVE  RowTyped' /\ CallTyped' /\ RestTyped'
  <2>1. call[p].pc = "wait"
    BY <1>8 DEF Accepted, Rejected, AnswerLost, At
  <2>2. Goto(p, "accepted") \/ Goto(p, "rejected")
    BY <1>8 DEF Accepted, Rejected, AnswerLost
  <2>3. CallTyped'
    BY <2>1, <2>2, <1>c, GotoStep DEF PC
  <2>4. faults' \in 0 .. MaxFaults
    BY <1>8, <1>f, <1>t, FaultStep DEF Accepted, Rejected, AnswerLost, RestTyped
  <2> QED
    BY <1>8, <2>3, <2>4, <1>r, <1>t
    DEF Accepted, Rejected, AnswerLost, RestTyped, RowTyped, rowVars
<1>9. ASSUME NEW p \in Caller, Complete(p) \/ Fail(p)
      PROVE  RowTyped' /\ CallTyped' /\ RestTyped'
  <2>1. call[p].capture \in Capture
    BY <1>9, <1>k DEF Complete, Fail, At
  <2>2. CallTyped'
    BY <1>9, <1>c, EndStep DEF Complete, Fail
  <2>3. \/ LeaveRow(call[p].capture, "completed") \/ LeaveRow(call[p].capture, "failed")
        \/ UNCHANGED rowVars
    BY <1>9 DEF Complete, Fail
  <2>4. RowTyped'
    <3>1. CASE UNCHANGED rowVars
      BY <3>1, <1>r DEF RowTyped, rowVars
    <3> QED
      BY <2>1, <2>3, <3>1, <1>r, LeaveStep DEF Status
  <2> QED
    BY <1>9, <2>2, <2>4, <1>t DEF Complete, Fail, RestTyped
<1>10. ASSUME NEW p \in Caller, CompleteUnconfirmed(p)
       PROVE  RowTyped' /\ CallTyped' /\ RestTyped'
  <2>1. call[p].pc = "accepted" /\ call[p].capture \in Capture
    BY <1>10, <1>k DEF CompleteUnconfirmed, At
  <2>2. CallTyped'
    BY <1>10, <2>1, <1>c, GotoStep DEF CompleteUnconfirmed, PC
  <2>3. LeaveRow(call[p].capture, "completed") \/ UNCHANGED rowVars
    BY <1>10 DEF CompleteUnconfirmed
  <2>4. RowTyped'
    <3>1. CASE UNCHANGED rowVars
      BY <3>1, <1>r DEF RowTyped, rowVars
    <3> QED
      BY <2>1, <2>3, <3>1, <1>r, LeaveStep DEF Status
  <2>5. faults' \in 0 .. MaxFaults
    BY <1>10, <1>f, <1>t, FaultStep DEF CompleteUnconfirmed, RestTyped
  <2> QED
    BY <1>10, <2>2, <2>4, <2>5, <1>t DEF CompleteUnconfirmed, RestTyped
<1>11. ASSUME NEW p \in Caller, FailFails(p)
       PROVE  RowTyped' /\ CallTyped' /\ RestTyped'
  <2>1. CallTyped'
    BY <1>11, <1>c, EndStep DEF FailFails
  <2>2. faults' \in 0 .. MaxFaults
    BY <1>11, <1>f, <1>t, FaultStep DEF FailFails, RestTyped
  <2> QED
    BY <1>11, <2>1, <2>2, <1>r, <1>t DEF FailFails, RestTyped, RowTyped, rowVars
<1>12. ASSUME NEW p \in Caller, Crash(p)
       PROVE  RowTyped' /\ CallTyped' /\ RestTyped'
  <2>1. CallTyped'
    BY <1>12, <1>c, EndStep DEF Crash
  <2>2. faults' \in 0 .. MaxFaults
    BY <1>12, <1>f, <1>t, FaultStep DEF Crash, RestTyped
  <2>3. todo' \in [Worker -> SUBSET Capture]
    BY <1>12, <1>t DEF Crash, RestTyped
  <2> QED
    BY <1>12, <2>1, <2>2, <2>3, <1>r, <1>t DEF Crash, RestTyped, RowTyped, rowVars
<1>13. ASSUME NEW w \in Worker, Reclaim(w)
       PROVE  RowTyped' /\ CallTyped' /\ RestTyped'
  <2>1. CallTyped'
    BY <1>13, <1>w, <1>c, GotoStep DEF Reclaim, PC
  <2>2. RowTyped'
    BY <1>13, <1>r DEF Reclaim, RowTyped, Expired, Status
  <2> QED
    BY <1>13, <2>1, <2>2, <1>t DEF Reclaim, RestTyped
<1>14. ASSUME NEW w \in Worker, List(w)
       PROVE  RowTyped' /\ CallTyped' /\ RestTyped'
  <2>1. CallTyped'
    BY <1>14, <1>w, <1>c, GotoStep DEF List, PC
  <2>2. todo' \in [Worker -> SUBSET Capture]
    BY <1>14, <1>t DEF List, RestTyped
  <2> QED
    BY <1>14, <2>1, <2>2, <1>r, <1>t DEF List, RestTyped, RowTyped, rowVars
<1>15. ASSUME NEW w \in Worker, NEW c \in Capture, TakeNext(w, c)
       PROVE  RowTyped' /\ CallTyped' /\ RestTyped'
  <2>1. CallTyped'
    BY <1>15, <1>w, <1>c, BeginStep DEF TakeNext, PC
  <2>2. todo' \in [Worker -> SUBSET Capture]
    BY <1>15, <1>t DEF TakeNext, RestTyped
  <2> QED
    BY <1>15, <2>1, <2>2, <1>r, <1>t DEF TakeNext, RestTyped, RowTyped, rowVars
<1>16. ASSUME NEW w \in Worker, Skip(w)
       PROVE  RowTyped' /\ CallTyped' /\ RestTyped'
  <2>1. call[w].capture \in Capture
    BY <1>16, <1>w, <1>k DEF Skip, At
  <2>2. CallTyped'
    BY <1>16, <1>w, <1>c, EndStep DEF Skip
  <2>3. LeaveRow(call[w].capture, "completed") \/ UNCHANGED rowVars
    BY <1>16 DEF Skip
  <2>4. RowTyped'
    <3>1. CASE UNCHANGED rowVars
      BY <3>1, <1>r DEF RowTyped, rowVars
    <3> QED
      BY <2>1, <2>3, <3>1, <1>r, LeaveStep DEF Status
  <2> QED
    BY <1>16, <2>2, <2>4, <1>t DEF Skip, RestTyped
<1>17. ASSUME NEW c \in Capture, Due(c) \/ ExpireLease(c) \/ Stall(c)
       PROVE  RowTyped' /\ CallTyped' /\ RestTyped'
  <2>1. faults' \in 0 .. MaxFaults
    BY <1>17, <1>f, <1>t, FaultStep DEF Due, ExpireLease, Stall, RestTyped
  <2>2. RowTyped'
    BY <1>17, <1>r DEF Due, ExpireLease, Stall, RowTyped
  <2> QED
    BY <1>17, <2>1, <2>2, <1>c, <1>t DEF Due, ExpireLease, Stall, RestTyped, CallTyped
<1>18. CASE UNCHANGED vars
  BY <1>18, <1>r, <1>c, <1>t DEF vars, rowVars, RowTyped, CallTyped, RestTyped
<1> QED
  BY <1>1, <1>2, <1>3, <1>4, <1>5, <1>6, <1>7, <1>8, <1>9, <1>10, <1>11, <1>12,
     <1>13, <1>14, <1>15, <1>16, <1>17, <1>18
  DEF Next, CallStep, CallFault, SweepStep

\* Receipts, calls, sweeps and requests always have their types.
THEOREM CapturesTyped == Spec => []TypeOK
BY InitTyped, NextTyped, PTL DEF Spec

-----------------------------------------------------------------------------
(* What a step does to the receipts and to the calls.                      *)

\* A receipt becomes completed by a call whose request was accepted or by a
\* sweep that found it superseded, stays completed, and is moved on under a
\* live claim only by the call that holds the claim.
ReceiptsMove ==
    \A c \in Capture :
        /\ status[c] = "completed" => status'[c] = "completed"
        /\ status'[c] = "completed" =>
             \/ status[c] = "completed"
             \/ \E p \in Caller : At(p, "accepted") /\ call[p].capture = c
             \/ \E p \in Caller : At(p, "stale") /\ call[p].capture = c
        /\ status[c] = "pending" /\ live[c] /\ status'[c] # "pending" =>
             \E p \in Caller : /\ call[p].capture = c
                               /\ call[p].token = token[c]
                               /\ call'[p] # call[p]

\* A call that reaches the points "accepted" and "stale" has a reason to.
CallsMove ==
    \A p \in Caller :
        /\ call'[p].pc = "accepted" => call'[p] = call[p] \/ Sent(p)' \in landed
        /\ call'[p].pc = "stale" =>
             call'[p] = call[p] \/ Superseded(call'[p].capture)

\* A claim takes no completed receipt and leaves none.
LEMMA TakeMoves ==
    ASSUME RowTyped, NEW c \in Capture, TakeRow(c), Claimable(c)
    PROVE  ReceiptsMove
<1>1. status'[c] = "pending" /\ \A d \in Capture : d # c => status'[d] = status[d]
  BY TakeStep
<1>2. status[c] # "completed"
  BY DEF Claimable
<1> QED
  BY <1>1, <1>2 DEF ReceiptsMove

\* The holder of a claim closes it when its request was accepted, or fails it.
LEMMA HolderMoves ==
    ASSUME RowTyped, NEW p \in Caller, call[p].capture \in Capture, Holds(p),
           NEW s \in {"completed", "failed"}, LeaveRow(call[p].capture, s),
           s = "completed" => At(p, "accepted"), call'[p] # call[p]
    PROVE  ReceiptsMove
<1>1. /\ status'[call[p].capture] = s
      /\ \A d \in Capture : d # call[p].capture => status'[d] = status[d]
  BY LeaveStep DEF Status
<1>2. status[call[p].capture] = "pending" /\ token[call[p].capture] = call[p].token
  BY DEF Holds
<1> QED
  BY <1>1, <1>2 DEF ReceiptsMove

\* Most steps leave the states of the receipts alone.
LEMMA NoneMoves == status' = status => ReceiptsMove
BY DEF ReceiptsMove

\* Whatever a step does to a receipt is one of the moves of ReceiptsMove.
LEMMA StepMovesReceipts == TypeOK /\ [Next]_vars => ReceiptsMove
<1> SUFFICES ASSUME TypeOK, [Next]_vars PROVE ReceiptsMove
  OBVIOUS
<1>r. RowTyped
  BY TypeParts
<1>c. CallTyped
  BY TypeParts
<1>k. \A p \in Caller : call[p].pc \notin {"idle", "list"} => call[p].capture \in Capture
  BY <1>c DEF CallTyped
<1>1. CASE \E r \in Run, c \in Capture : Start(r, c)
  BY <1>1, NoneMoves DEF Start, rowVars
<1>2. ASSUME NEW p \in Caller, Claim(p) \/ ClaimUnconfirmed(p)
      PROVE  ReceiptsMove
  <2>1. call[p].capture \in Capture
    BY <1>2, <1>k DEF Claim, ClaimUnconfirmed, At
  <2>2. CASE TakeRow(call[p].capture) /\ Claimable(call[p].capture)
    BY <2>1, <2>2, <1>r, TakeMoves
  <2>3. CASE UNCHANGED rowVars
    BY <2>3, NoneMoves DEF rowVars
  <2> QED
    BY <1>2, <2>2, <2>3 DEF Claim, ClaimUnconfirmed
<1>3. ASSUME NEW p \in Caller,
             \/ ReadCursor(p) \/ StoreFails(p) \/ Post(p) \/ Accepted(p) \/ Rejected(p)
             \/ AnswerLost(p) \/ FailFails(p) \/ Crash(p)
      PROVE  ReceiptsMove
  BY <1>3, NoneMoves
  DEF ReadCursor, StoreFails, Post, Accepted, Rejected, AnswerLost, FailFails, Crash,
      rowVars
<1>4. ASSUME NEW p \in Caller, Complete(p) \/ CompleteUnconfirmed(p) \/ Fail(p)
      PROVE  ReceiptsMove
  <2>1. call[p].capture \in Capture /\ call[p].pc \in {"accepted", "rejected"}
    BY <1>4, <1>k DEF Complete, CompleteUnconfirmed, Fail, At
  <2>2. CASE UNCHANGED rowVars
    BY <2>2, NoneMoves DEF rowVars
  <2>3. call'[p] # call[p]
    <3>1. CASE End(p)
      <4>1. call'[p] = NoCall
        BY <3>1, <1>c, EndStep
      <4> QED
        BY <4>1, <2>1 DEF NoCall
    <3>2. CASE CompleteUnconfirmed(p)
      <4>1. Goto(p, "rejected") /\ call[p].pc = "accepted"
        BY <3>2 DEF CompleteUnconfirmed, At
      <4>2. call'[p] = [pc |-> "rejected", capture |-> call[p].capture,
                        token |-> call[p].token]
        BY <4>1, <1>c, GotoStep DEF PC
      <4> QED
        BY <4>1, <4>2
    <3> QED
      BY <1>4, <3>1, <3>2 DEF Complete, Fail
  <2>4. CASE Holds(p) /\ LeaveRow(call[p].capture, "completed") /\ At(p, "accepted")
    BY <2>1, <2>3, <2>4, <1>r, HolderMoves
  <2>5. CASE Holds(p) /\ LeaveRow(call[p].capture, "failed")
    BY <2>1, <2>3, <2>5, <1>r, HolderMoves
  <2> QED
    BY <1>4, <2>2, <2>4, <2>5 DEF Complete, CompleteUnconfirmed, Fail
<1>5. ASSUME NEW w \in Worker, Reclaim(w)
      PROVE  ReceiptsMove
  <2>1. \A c \in Capture : status'[c] = IF Expired(c) THEN "failed" ELSE status[c]
    BY <1>5 DEF Reclaim
  <2>2. \A c \in Capture : Expired(c) => status[c] = "pending" /\ ~live[c]
    BY DEF Expired
  <2> QED
    BY <2>1, <2>2 DEF ReceiptsMove
<1>6. ASSUME NEW w \in Worker, Skip(w)
      PROVE  ReceiptsMove
  <2>1. w \in Caller /\ At(w, "stale") /\ call[w].capture \in Capture
    BY <1>6, <1>k DEF Skip, At, Caller
  <2>2. CASE status[call[w].capture] = "failed"
    <3>1. /\ status'[call[w].capture] = "completed"
          /\ \A d \in Capture : d # call[w].capture => status'[d] = status[d]
      BY <1>6, <1>r, <2>1, <2>2, LeaveStep DEF Skip, Status
    <3> QED
      BY <2>1, <2>2, <3>1 DEF ReceiptsMove
  <2>3. CASE status[call[w].capture] # "failed"
    BY <1>6, <2>3, NoneMoves DEF Skip, rowVars
  <2> QED
    BY <2>2, <2>3
<1>7. ASSUME NEW w \in Worker, List(w) \/ \E c \in Capture : TakeNext(w, c)
      PROVE  ReceiptsMove
  BY <1>7, NoneMoves DEF List, TakeNext, rowVars
<1>8. CASE \E q \in wire : Land(q) \/ Lose(q)
  BY <1>8, NoneMoves DEF Land, Lose, rowVars
<1>9. CASE \E c \in Capture : Due(c) \/ ExpireLease(c) \/ Stall(c)
  BY <1>9, NoneMoves DEF Due, ExpireLease, Stall
<1>10. CASE UNCHANGED vars
  BY <1>10, NoneMoves DEF vars, rowVars
<1> QED
  BY <1>1, <1>2, <1>3, <1>4, <1>5, <1>6, <1>7, <1>8, <1>9, <1>10
  DEF Next, CallStep, CallFault, SweepStep

\* One call moves, to a point where it needs no reason, and the others stay.
LEMMA PlainCall ==
    ASSUME NEW p \in Caller, call'[p].pc \notin {"accepted", "stale"},
           \A q \in Caller : q # p => call'[q] = call[q]
    PROVE  CallsMove
BY DEF CallsMove

\* Whatever a step does to a call is one of the moves of CallsMove.
LEMMA StepMovesCalls == TypeOK /\ [Next]_vars => CallsMove
<1> SUFFICES ASSUME TypeOK, [Next]_vars PROVE CallsMove
  OBVIOUS
<1>c. CallTyped
  BY TypeParts
<1>n. call' = call => CallsMove
  BY DEF CallsMove
<1>e. ASSUME NEW p \in Caller, End(p) PROVE CallsMove
  <2>1. call'[p] = NoCall /\ \A q \in Caller : q # p => call'[q] = call[q]
    BY <1>e, <1>c, EndStep
  <2> QED
    BY <2>1, PlainCall DEF NoCall
<1>g. ASSUME NEW p \in Caller, NEW pc \in PC, Goto(p, pc),
             pc \in {"idle", "list"} \/ call[p].pc \notin {"idle", "list"},
             pc = "accepted" => Sent(p) \in landed,
             pc = "stale" => Superseded(call[p].capture)
      PROVE  CallsMove
  <2>1. /\ call'[p] = [pc |-> pc, capture |-> call[p].capture, token |-> call[p].token]
        /\ \A q \in Caller : q # p => call'[q] = call[q]
    BY <1>g, <1>c, GotoStep
  <2>2. call'[p].capture = call[p].capture /\ Sent(p)' = Sent(p) /\ call'[p].pc = pc
    BY <2>1 DEF Sent
  <2> QED
    BY <1>g, <2>1, <2>2 DEF CallsMove
<1>b. ASSUME NEW p \in Caller, NEW c \in Capture, NEW pc \in {"cursor", "post"}, NEW t \in Nat,
             call' = [call EXCEPT ![p] = [pc |-> pc, capture |-> c, token |-> t]]
      PROVE  CallsMove
  <2>1. /\ call'[p] = [pc |-> pc, capture |-> c, token |-> t]
        /\ \A q \in Caller : q # p => call'[q] = call[q]
    <3>1. pc \in PC
      BY DEF PC
    <3> QED
      BY <3>1, <1>b, <1>c, BeginStep
  <2>2. call'[p].pc = pc
    BY <2>1
  <2> QED
    BY <2>1, <2>2, PlainCall
<1>1. ASSUME NEW r \in Run, NEW c \in Capture, Start(r, c) PROVE CallsMove
  BY <1>1, <1>b DEF Start, Caller
<1>2. ASSUME NEW p \in Caller, ReadCursor(p) PROVE CallsMove
  <2>1. call[p].pc = "cursor"
    BY <1>2 DEF ReadCursor, At
  <2>2. \/ Goto(p, "claim") \/ End(p)
        \/ Goto(p, "stale") /\ Superseded(call[p].capture)
    BY <1>2 DEF ReadCursor
  <2>3. CASE Goto(p, "claim")
    BY <2>1, <2>3, <1>g DEF PC
  <2>4. CASE Goto(p, "stale") /\ Superseded(call[p].capture)
    BY <2>1, <2>4, <1>g DEF PC
  <2> QED
    BY <2>2, <2>3, <2>4, <1>e
<1>3. ASSUME NEW p \in Caller, Claim(p) PROVE CallsMove
  <2>1. call[p].capture \in Capture
    BY <1>3, <1>c DEF Claim, At, CallTyped
  <2>2. attempts[call[p].capture] + 1 \in Nat
    BY <2>1 DEF TypeOK
  <2>3. \/ End(p)
        \/ call' = [call EXCEPT ![p] = [pc |-> "post", capture |-> call[p].capture,
                                        token |-> attempts[call[p].capture] + 1]]
    BY <1>3 DEF Claim
  <2> QED
    BY <2>1, <2>2, <2>3, <1>e, <1>b
<1>4. ASSUME NEW p \in Caller,
             \/ ClaimUnconfirmed(p) \/ StoreFails(p) \/ Complete(p) \/ Fail(p)
             \/ FailFails(p) \/ Crash(p)
      PROVE  CallsMove
  BY <1>4, <1>e DEF ClaimUnconfirmed, StoreFails, Complete, Fail, FailFails, Crash
<1>5. ASSUME NEW p \in Caller, Post(p) PROVE CallsMove
  BY <1>5, <1>g DEF Post, At, PC
<1>6. ASSUME NEW p \in Caller, Accepted(p) PROVE CallsMove
  BY <1>6, <1>g DEF Accepted, At, PC
<1>7. ASSUME NEW p \in Caller, Rejected(p) \/ AnswerLost(p) \/ CompleteUnconfirmed(p)
      PROVE  CallsMove
  BY <1>7, <1>g DEF Rejected, AnswerLost, CompleteUnconfirmed, At, PC
<1>8. ASSUME NEW w \in Worker, Reclaim(w) PROVE CallsMove
  BY <1>8, <1>g DEF Reclaim, PC, Caller
<1>9. ASSUME NEW w \in Worker, List(w) PROVE CallsMove
  BY <1>9, <1>g DEF List, PC, Caller
<1>10. ASSUME NEW w \in Worker, NEW c \in Capture, TakeNext(w, c) PROVE CallsMove
  BY <1>10, <1>b DEF TakeNext, Caller
<1>11. ASSUME NEW w \in Worker, Skip(w) PROVE CallsMove
  BY <1>11, <1>e DEF Skip, Caller
<1>12. CASE \E q \in wire : Land(q) \/ Lose(q)
  BY <1>12, <1>n DEF Land, Lose
<1>13. CASE \E c \in Capture : Due(c) \/ ExpireLease(c) \/ Stall(c)
  BY <1>13, <1>n DEF Due, ExpireLease, Stall
<1>14. CASE UNCHANGED vars
  BY <1>14, <1>n DEF vars
<1> QED
  BY <1>1, <1>2, <1>3, <1>4, <1>5, <1>6, <1>7, <1>8, <1>9, <1>10, <1>11, <1>12, <1>13,
     <1>14
  DEF Next, CallStep, CallFault, SweepStep

\* What the service has stored stays stored.
LEMMA StoredStays == [Next]_vars => landed \subseteq landed'
BY DEF Next, CallStep, CallFault, SweepStep, Start, ReadCursor, Claim, ClaimUnconfirmed,
       StoreFails, Post, Land, Lose, Accepted, Rejected, AnswerLost, Complete,
       CompleteUnconfirmed, Fail, FailFails, Reclaim, List, TakeNext, Skip, Due,
       ExpireLease, Stall, Crash, vars

-----------------------------------------------------------------------------
(* Claims: every token is issued once, to one call.                        *)

\* A row is claimed, left, or keeps its token.
LEMMA StepMovesTokens ==
    TypeOK /\ ClaimInv /\ [Next]_vars =>
      \A c \in Capture : attempts'[c] >= attempts[c] /\ token'[c] <= attempts'[c]
<1> SUFFICES ASSUME TypeOK, ClaimInv, [Next]_vars
             PROVE  \A c \in Capture :
                      attempts'[c] >= attempts[c] /\ token'[c] <= attempts'[c]
  OBVIOUS
<1>r. RowTyped
  BY TypeParts
<1>i. \A c \in Capture : token[c] \in Nat /\ attempts[c] \in Nat /\ token[c] <= attempts[c]
  BY <1>r DEF RowTyped, ClaimInv
<1>k. \A p \in Caller : call[p].pc \notin {"idle", "list"} => call[p].capture \in Capture
  BY DEF TypeOK
<1>u. CASE UNCHANGED <<token, attempts>>
  BY <1>u, <1>i
<1>t. ASSUME NEW c \in Capture, TakeRow(c)
      PROVE  \A d \in Capture : attempts'[d] >= attempts[d] /\ token'[d] <= attempts'[d]
  <2> TAKE d \in Capture
  <2>1. CASE d = c
    BY <2>1, <1>t, <1>i, <1>r DEF TakeRow, RowTyped
  <2>2. CASE d # c
    BY <2>2, <1>t, <1>i, <1>r DEF TakeRow, RowTyped
  <2> QED
    BY <2>1, <2>2
<1>l. ASSUME NEW c \in Capture, NEW s \in Status, LeaveRow(c, s)
      PROVE  \A d \in Capture : attempts'[d] >= attempts[d] /\ token'[d] <= attempts'[d]
  BY <1>l, <1>i, <1>r DEF LeaveRow, RowTyped
<1>1. ASSUME NEW p \in Caller, Claim(p) \/ ClaimUnconfirmed(p)
      PROVE  \A c \in Capture : attempts'[c] >= attempts[c] /\ token'[c] <= attempts'[c]
  <2>1. call[p].capture \in Capture
    BY <1>1, <1>k DEF Claim, ClaimUnconfirmed, At
  <2>2. TakeRow(call[p].capture) \/ UNCHANGED <<token, attempts>>
    BY <1>1 DEF Claim, ClaimUnconfirmed, rowVars
  <2> QED
    BY <2>1, <2>2, <1>t, <1>u
<1>2. ASSUME NEW p \in Caller, Complete(p) \/ CompleteUnconfirmed(p) \/ Fail(p)
      PROVE  \A c \in Capture : attempts'[c] >= attempts[c] /\ token'[c] <= attempts'[c]
  <2>1. call[p].capture \in Capture
    BY <1>2, <1>k DEF Complete, CompleteUnconfirmed, Fail, At
  <2>2. \/ LeaveRow(call[p].capture, "completed") \/ LeaveRow(call[p].capture, "failed")
        \/ UNCHANGED <<token, attempts>>
    BY <1>2 DEF Complete, CompleteUnconfirmed, Fail, rowVars
  <2> QED
    BY <2>1, <2>2, <1>l, <1>u DEF Status
<1>3. ASSUME NEW w \in Worker, Reclaim(w)
      PROVE  \A c \in Capture : attempts'[c] >= attempts[c] /\ token'[c] <= attempts'[c]
  <2>1. \A c \in Capture : /\ token'[c] = IF Expired(c) THEN 0 ELSE token[c]
                           /\ attempts'[c] = attempts[c]
    BY <1>3 DEF Reclaim
  <2> QED
    BY <2>1, <1>i
<1>4. ASSUME NEW w \in Worker, Skip(w)
      PROVE  \A c \in Capture : attempts'[c] >= attempts[c] /\ token'[c] <= attempts'[c]
  <2>1. call[w].capture \in Capture
    BY <1>4, <1>k DEF Skip, At, Caller
  <2>2. LeaveRow(call[w].capture, "completed") \/ UNCHANGED <<token, attempts>>
    BY <1>4 DEF Skip, rowVars
  <2> QED
    BY <2>1, <2>2, <1>l, <1>u DEF Status
<1>5. \/ UNCHANGED <<token, attempts>>
      \/ \E p \in Caller : \/ Claim(p) \/ ClaimUnconfirmed(p) \/ Complete(p)
                           \/ CompleteUnconfirmed(p) \/ Fail(p)
      \/ \E w \in Worker : Reclaim(w) \/ Skip(w)
  BY DEF Next, CallStep, CallFault, SweepStep, Start, ReadCursor, StoreFails, Post, Land,
         Lose, Accepted, Rejected, AnswerLost, FailFails, Crash, List, TakeNext, Due,
         ExpireLease, Stall, rowVars, vars
<1> QED
  BY <1>u, <1>1, <1>2, <1>3, <1>4, <1>5

\* A call that goes on under its claim, and one that has just claimed.
KeepsClaim(q) ==
    /\ call[q].pc \in Holding
    /\ call'[q].pc = "post" => call[q].pc = "post"
    /\ call'[q].capture = call[q].capture
    /\ call'[q].token = call[q].token
NewClaim(q) ==
    /\ call[q].pc = "claim" /\ call[q].capture \in Capture
    /\ call'[q] = [pc |-> "post", capture |-> call[q].capture,
                   token |-> attempts[call[q].capture] + 1]
    /\ Claimable(call[q].capture) /\ TakeRow(call[q].capture)
    /\ UNCHANGED <<wire, landed, faults>>
    /\ \A p \in Caller : p # q => call'[p] = call[p]

\* Only Claim gives out a claim.
LEMMA StepMovesClaims ==
    TypeOK /\ [Next]_vars =>
      \A q \in Caller : call'[q].pc \in Holding => KeepsClaim(q) \/ NewClaim(q)
<1> SUFFICES ASSUME TypeOK, [Next]_vars
             PROVE  \A q \in Caller :
                      call'[q].pc \in Holding => KeepsClaim(q) \/ NewClaim(q)
  OBVIOUS
<1>c. CallTyped
  BY TypeParts
<1>n. CASE call' = call
  BY <1>n DEF KeepsClaim
<1>e. ASSUME NEW p \in Caller, End(p)
      PROVE  \A q \in Caller : call'[q].pc \in Holding => KeepsClaim(q)
  <2>1. call'[p] = NoCall /\ \A q \in Caller : q # p => call'[q] = call[q]
    BY <1>e, <1>c, EndStep
  <2> QED
    BY <2>1 DEF NoCall, Holding, KeepsClaim
<1>g. ASSUME NEW p \in Caller, NEW pc \in PC, Goto(p, pc),
             pc \in {"idle", "list"} \/ call[p].pc \notin {"idle", "list"},
             pc \in Holding => call[p].pc \in Holding /\ pc # "post"
      PROVE  \A q \in Caller : call'[q].pc \in Holding => KeepsClaim(q)
  <2>1. /\ call'[p] = [pc |-> pc, capture |-> call[p].capture, token |-> call[p].token]
        /\ \A q \in Caller : q # p => call'[q] = call[q]
    BY <1>g, <1>c, GotoStep
  <2> QED
    BY <1>g, <2>1 DEF KeepsClaim
<1>b. ASSUME NEW p \in Caller, NEW c \in Capture,
             call' = [call EXCEPT ![p] = [pc |-> "cursor", capture |-> c, token |-> 0]]
      PROVE  \A q \in Caller : call'[q].pc \in Holding => KeepsClaim(q)
  <2>1. /\ call'[p] = [pc |-> "cursor", capture |-> c, token |-> 0]
        /\ \A q \in Caller : q # p => call'[q] = call[q]
    <3>1. "cursor" \in PC /\ 0 \in Nat
      BY DEF PC
    <3> QED
      BY <3>1, <1>b, <1>c, BeginStep
  <2> QED
    BY <2>1 DEF KeepsClaim, Holding
<1>1. ASSUME NEW r \in Run, NEW c \in Capture, Start(r, c)
      PROVE  \A q \in Caller : call'[q].pc \in Holding => KeepsClaim(q)
  BY <1>1, <1>b DEF Start, Caller
<1>2. ASSUME NEW p \in Caller, ReadCursor(p)
      PROVE  \A q \in Caller : call'[q].pc \in Holding => KeepsClaim(q)
  <2>1. call[p].pc = "cursor" /\ (Goto(p, "claim") \/ Goto(p, "stale") \/ End(p))
    BY <1>2 DEF ReadCursor, At
  <2>2. CASE Goto(p, "claim")
    BY <2>1, <2>2, <1>g DEF PC, Holding
  <2>3. CASE Goto(p, "stale")
    BY <2>1, <2>3, <1>g DEF PC, Holding
  <2> QED
    BY <2>1, <2>2, <2>3, <1>e
<1>3. ASSUME NEW p \in Caller, Claim(p)
      PROVE  \A q \in Caller : call'[q].pc \in Holding => KeepsClaim(q) \/ NewClaim(q)
  <2>1. call[p].pc = "claim" /\ call[p].capture \in Capture
    BY <1>3, <1>c DEF Claim, At, CallTyped
  <2>2. attempts[call[p].capture] + 1 \in Nat
    BY <2>1 DEF TypeOK
  <2>3. CASE Claimable(call[p].capture)
    <3>1. call' = [call EXCEPT ![p] = [pc |-> "post", capture |-> call[p].capture,
                                       token |-> attempts[call[p].capture] + 1]]
      BY <1>3, <2>3 DEF Claim
    <3>2. /\ call'[p] = [pc |-> "post", capture |-> call[p].capture,
                         token |-> attempts[call[p].capture] + 1]
          /\ \A q \in Caller : q # p => call'[q] = call[q]
      BY <3>1, <1>c DEF CallTyped
    <3>3. TakeRow(call[p].capture) /\ UNCHANGED <<wire, landed, faults>>
      BY <1>3, <2>3 DEF Claim
    <3>4. NewClaim(p)
      BY <2>1, <2>3, <3>2, <3>3 DEF NewClaim
    <3> QED
      BY <3>2, <3>4 DEF KeepsClaim
  <2>4. CASE ~Claimable(call[p].capture)
    BY <1>3, <2>4, <1>e DEF Claim
  <2> QED
    BY <2>3, <2>4
<1>4. ASSUME NEW p \in Caller,
             \/ ClaimUnconfirmed(p) \/ StoreFails(p) \/ Complete(p) \/ Fail(p)
             \/ FailFails(p) \/ Crash(p)
      PROVE  \A q \in Caller : call'[q].pc \in Holding => KeepsClaim(q)
  BY <1>4, <1>e DEF ClaimUnconfirmed, StoreFails, Complete, Fail, FailFails, Crash
<1>5. ASSUME NEW p \in Caller, NEW pc \in {"wait", "accepted", "rejected"}, Goto(p, pc),
             call[p].pc \in Holding
      PROVE  \A q \in Caller : call'[q].pc \in Holding => KeepsClaim(q)
  BY <1>5, <1>g DEF PC, Holding
<1>6. ASSUME NEW p \in Caller,
             \/ Post(p) \/ Accepted(p) \/ Rejected(p) \/ AnswerLost(p)
             \/ CompleteUnconfirmed(p)
      PROVE  \A q \in Caller : call'[q].pc \in Holding => KeepsClaim(q)
  <2>1. /\ call[p].pc \in Holding
        /\ Goto(p, "wait") \/ Goto(p, "accepted") \/ Goto(p, "rejected")
    BY <1>6 DEF Post, Accepted, Rejected, AnswerLost, CompleteUnconfirmed, At, Holding
  <2> QED
    BY <2>1, <1>5
<1>7. ASSUME NEW w \in Worker, Reclaim(w)
      PROVE  \A q \in Caller : call'[q].pc \in Holding => KeepsClaim(q)
  BY <1>7, <1>g DEF Reclaim, PC, Caller, Holding
<1>8. ASSUME NEW w \in Worker, List(w)
      PROVE  \A q \in Caller : call'[q].pc \in Holding => KeepsClaim(q)
  BY <1>8, <1>g DEF List, PC, Caller, Holding
<1>9. ASSUME NEW w \in Worker, NEW c \in Capture, TakeNext(w, c)
      PROVE  \A q \in Caller : call'[q].pc \in Holding => KeepsClaim(q)
  BY <1>9, <1>b DEF TakeNext, Caller
<1>10. ASSUME NEW w \in Worker, Skip(w)
       PROVE  \A q \in Caller : call'[q].pc \in Holding => KeepsClaim(q)
  BY <1>10, <1>e DEF Skip, Caller
<1>11. ASSUME call' # call
       PROVE  \/ \E r \in Run, c \in Capture : Start(r, c)
              \/ \E p \in Caller : CallStep(p) \/ CallFault(p)
              \/ \E w \in Worker : SweepStep(w)
  BY <1>11 DEF Next, Land, Lose, Due, ExpireLease, Stall, vars
<1> QED
  BY <1>n, <1>1, <1>2, <1>3, <1>4, <1>6, <1>7, <1>8, <1>9, <1>10, <1>11
  DEF CallStep, CallFault, SweepStep

\* No two calls ever hold the same claim.
LEMMA ClaimStep == TypeOK /\ ClaimInv /\ [Next]_vars => ClaimInv'
<1> SUFFICES ASSUME TypeOK, ClaimInv, [Next]_vars PROVE ClaimInv'
  OBVIOUS
<1>1. \A c \in Capture : attempts'[c] >= attempts[c] /\ token'[c] <= attempts'[c]
  BY StepMovesTokens
<1>2. \A q \in Caller : call'[q].pc \in Holding => KeepsClaim(q) \/ NewClaim(q)
  BY StepMovesClaims
<1>3. TypeOK'
  BY NextTyped
<1>4. /\ \A c \in Capture : attempts[c] \in Nat /\ attempts'[c] \in Nat
      /\ \A p \in Caller : call[p].pc \in Holding => call[p].capture \in Capture
      /\ \A p \in Caller : call[p].token \in Nat /\ call'[p].token \in Nat
  BY <1>3 DEF TypeOK, Holding, Call
<1>5. \A q \in Caller : NewClaim(q) =>
         /\ call[q].pc \notin Holding
         /\ call'[q].capture = call[q].capture /\ call[q].capture \in Capture
         /\ call'[q].token = attempts[call[q].capture] + 1
         /\ attempts'[call[q].capture] = attempts[call[q].capture] + 1
         /\ \A p \in Caller : p # q => call'[p] = call[p]
  BY DEF NewClaim, Holding, TakeRow, TypeOK
<1>6. \A q \in Caller : call[q].pc \in Holding =>
                          call[q].token \in 1 .. attempts[call[q].capture]
  BY DEF ClaimInv
<1>7. ASSUME NEW q \in Caller, call'[q].pc \in Holding
      PROVE  call'[q].token \in 1 .. attempts'[call'[q].capture]
  <2>1. CASE KeepsClaim(q)
    <3>1. /\ call[q].capture \in Capture /\ call'[q].capture = call[q].capture
          /\ call'[q].token = call[q].token
          /\ call[q].token \in 1 .. attempts[call[q].capture]
      BY <2>1, <1>4, <1>6 DEF KeepsClaim
    <3>2. /\ attempts'[call[q].capture] >= attempts[call[q].capture]
          /\ attempts'[call[q].capture] \in Nat /\ attempts[call[q].capture] \in Nat
      BY <3>1, <1>1, <1>4
    <3> QED
      BY <3>1, <3>2
  <2>2. CASE NewClaim(q)
    <3>1. attempts[call[q].capture] \in Nat
      BY <2>2, <1>4, <1>5
    <3> QED
      BY <2>2, <3>1, <1>5
  <2> QED
    BY <1>7, <1>2, <2>1, <2>2
<1>8. ASSUME NEW p \in Caller, NEW q \in Caller, p # q,
             call'[p].pc \in Holding, call'[q].pc \in Holding,
             NewClaim(p), call'[p].capture = call'[q].capture
      PROVE  call'[p].token # call'[q].token
  <2>1. call'[q] = call[q] /\ call[q].pc \in Holding
    BY <1>8, <1>5
  <2>2. /\ call[q].token \in 1 .. attempts[call[q].capture]
        /\ call[q].capture = call[p].capture /\ call[p].capture \in Capture
    BY <1>8, <2>1, <1>5, <1>6
  <2>3. call[q].token <= attempts[call[p].capture] /\ attempts[call[p].capture] \in Nat
    BY <2>2, <1>4
  <2>4. call'[p].token = attempts[call[p].capture] + 1
    BY <1>8, <1>5
  <2> QED
    BY <2>1, <2>3, <2>4, <1>4
<1>9. ASSUME NEW p \in Caller, NEW q \in Caller,
             call'[p].pc \in Holding, call'[q].pc \in Holding,
             call'[p].capture = call'[q].capture, call'[p].token = call'[q].token
      PROVE  p = q
  <2>1. CASE KeepsClaim(p) /\ KeepsClaim(q)
    BY <2>1, <1>9 DEF KeepsClaim, ClaimInv
  <2>2. CASE NewClaim(p)
    BY <2>2, <1>8, <1>9
  <2>3. CASE NewClaim(q)
    BY <2>3, <1>8, <1>9
  <2> QED
    BY <1>2, <1>9, <2>1, <2>2, <2>3
<1> QED
  BY <1>1, <1>7, <1>9 DEF ClaimInv

-----------------------------------------------------------------------------
(* Copies: all but the one in charge have been paid for with a fault.      *)

\* What the copies of a capture may have cost so far.
Paid(c) == IF status[c] = "completed" THEN faults + 1 ELSE faults
CopyAt(c) ==
    /\ IsFiniteSet(Copies(c))
    /\ Cardinality(Copies(c) \ Current(c)) <= Paid(c)

\* CopyInv, capture by capture.
LEMMA CopyParts == CopyInv <=> \A c \in Capture : CopyAt(c)
BY DEF CopyInv, CopyAt, Paid

\* What copies may have cost is a number.
LEMMA PaidTyped ==
    ASSUME TypeOK, TypeOK', NEW c \in Capture
    PROVE  Paid(c) \in Nat /\ Paid(c)' \in Nat
<1>1. faults \in Nat /\ faults' \in Nat
  BY CaptureAssumption DEF TypeOK
<1> QED
  BY <1>1 DEF Paid

\* One element more at most.
LEMMA OneMore ==
    ASSUME NEW A, NEW B, NEW x, IsFiniteSet(A), B \subseteq A \cup {x}
    PROVE  /\ IsFiniteSet(B)
           /\ Cardinality(A) \in Nat /\ Cardinality(B) \in Nat
           /\ Cardinality(B) <= Cardinality(A) + 1
<1>1. /\ IsFiniteSet(A \cup {x})
      /\ Cardinality(A) \in Nat
      /\ \/ Cardinality(A \cup {x}) = Cardinality(A)
         \/ Cardinality(A \cup {x}) = Cardinality(A) + 1
  BY FS_AddElement, FS_CardinalityType
<1>2. /\ IsFiniteSet(B) /\ Cardinality(B) \in Nat
      /\ Cardinality(B) <= Cardinality(A \cup {x})
  BY <1>1, FS_Subset, FS_CardinalityType
<1> QED
  BY <1>1, <1>2

\* At most one request is the current one.
LEMMA CurrentIsOne ==
    ASSUME NEW c \in Capture
    PROVE  Current(c) \subseteq {[capture |-> c, token |-> token[c]]}
BY DEF Current, InCharge, Sent

\* A step that costs a fault, or closes the receipt, may give up the current copy.
LEMMA PaidStep ==
    ASSUME TypeOK, TypeOK', NEW c \in Capture, CopyAt(c),
           Copies(c)' \subseteq Copies(c), Paid(c)' >= Paid(c) + 1
    PROVE  CopyAt(c)'
<1> DEFINE A == Copies(c) \ Current(c)
           B == Copies(c)' \ Current(c)'
           x == [capture |-> c, token |-> token[c]]
<1>1. IsFiniteSet(A) /\ Cardinality(A) <= Paid(c) /\ IsFiniteSet(Copies(c)')
  BY FS_Subset DEF CopyAt
<1>2. B \subseteq A \cup {x}
  BY CurrentIsOne
<1>3. Paid(c) \in Nat /\ Paid(c)' \in Nat
  BY PaidTyped
<1> HIDE DEF A, B, x
<1>4. /\ Cardinality(A) \in Nat /\ Cardinality(B) \in Nat
      /\ Cardinality(B) <= Cardinality(A) + 1
  BY <1>1, <1>2, OneMore
<1>5. Cardinality(B) <= Paid(c)'
  BY <1>1, <1>3, <1>4
<1> QED
  BY <1>1, <1>5 DEF CopyAt, B

\* A step that adds nothing to the copies that are not current.
LEMMA FreeStep ==
    ASSUME TypeOK, TypeOK', NEW c \in Capture, CopyAt(c), IsFiniteSet(Copies(c)'),
           Copies(c)' \ Current(c)' \subseteq Copies(c) \ Current(c), Paid(c)' >= Paid(c)
    PROVE  CopyAt(c)'
<1> DEFINE A == Copies(c) \ Current(c)
           B == Copies(c)' \ Current(c)'
<1>1. IsFiniteSet(A) /\ Cardinality(A) <= Paid(c)
  BY FS_Subset DEF CopyAt
<1>2. B \subseteq A
  OBVIOUS
<1>3. Paid(c) \in Nat /\ Paid(c)' \in Nat
  BY PaidTyped
<1> HIDE DEF A, B
<1>4. Cardinality(B) <= Cardinality(A) /\ Cardinality(B) \in Nat /\ Cardinality(A) \in Nat
  BY <1>1, <1>2, FS_Subset, FS_CardinalityType
<1>5. Cardinality(B) <= Paid(c)'
  BY <1>1, <1>3, <1>4
<1> QED
  BY <1>5 DEF CopyAt, B

\* Copies come from a new claim alone.
LEMMA NoNewCopies ==
    ASSUME wire' \cup landed' \subseteq wire \cup landed,
           \A q \in Caller : call'[q].pc = "post" => KeepsClaim(q),
           NEW c \in Capture
    PROVE  Copies(c)' \subseteq Copies(c)
BY DEF Copies, KeepsClaim, Sent, At

\* The holder goes on under a row that nobody touches.
Busy == {"post", "wait", "accepted"}
\* A copy that is current stays so while its claim and its calls last.
LEMMA StillCurrent ==
    ASSUME NEW c \in Capture,
           status[c] = "pending" /\ live[c] =>
             status'[c] = status[c] /\ token'[c] = token[c] /\ live'[c],
           \A q \in Caller : InCharge(q, c) =>
             /\ call'[q].pc \in Busy
             /\ call'[q].capture = call[q].capture /\ call'[q].token = call[q].token
    PROVE  Current(c) \subseteq Current(c)'
<1> SUFFICES ASSUME NEW q \in Caller, InCharge(q, c)
             PROVE  InCharge(q, c)' /\ Sent(q)' = Sent(q)
  BY DEF Current
<1>1. InCharge(q, c)'
  BY DEF InCharge, Busy
<1> QED
  BY <1>1 DEF Sent

\* Time, sweeps and calls that hold nothing leave the current copy alone.
LEMMA IdleStep ==
    ASSUME TypeOK, NEW p \in Caller, call[p].pc \notin Busy,
           \A q \in Caller : q # p => call'[q] = call[q],
           NEW c \in Capture,
           status[c] = "pending" /\ live[c] =>
             status'[c] = status[c] /\ token'[c] = token[c] /\ live'[c]
    PROVE  Current(c) \subseteq Current(c)'
<1>1. \A q \in Caller : InCharge(q, c) => call'[q] = call[q] /\ call[q].pc \in Busy
  BY DEF InCharge, Busy
<1> QED
  BY <1>1, StillCurrent

\* A step that adds a copy that is not current has had a fault.
LEMMA CopyStep == TypeOK /\ CaptureInv /\ [Next]_vars => CopyInv'
<1> SUFFICES ASSUME TypeOK, CaptureInv, [Next]_vars, NEW c \in Capture
             PROVE  CopyAt(c)'
  BY CopyParts DEF CopyInv, CopyAt, Paid
<1>i. TypeOK' /\ CopyAt(c) /\ ClaimInv /\ ClaimInv'
  BY NextTyped, ClaimStep, CopyParts DEF CaptureInv
<1>m. ReceiptsMove
  BY StepMovesReceipts
<1>q. \A q \in Caller : call'[q].pc \in Holding => KeepsClaim(q) \/ NewClaim(q)
  BY StepMovesClaims
<1>c. call \in [Caller -> Call]
  BY DEF TypeOK
<1>k. \A p \in Caller : call[p].pc \notin {"idle", "list"} => call[p].capture \in Capture
  BY DEF TypeOK
<1>n. faults \in Nat /\ faults' \in Nat
  BY <1>i, CaptureAssumption DEF TypeOK
<1>w. Worker \subseteq Caller /\ Run \subseteq Caller
  BY DEF Caller
<1>f. ASSUME faults' = faults + 1, wire' \cup landed' \subseteq wire \cup landed
      PROVE  CopyAt(c)'
  <2>1. \A q \in Caller : call'[q].pc = "post" => KeepsClaim(q)
    <3>1. \A q \in Caller : ~NewClaim(q)
      BY <1>f, <1>n DEF NewClaim
    <3> QED
      BY <3>1, <1>q DEF Holding
  <2>2. Copies(c)' \subseteq Copies(c)
    BY <1>f, <2>1, NoNewCopies
  <2>3. Paid(c)' >= Paid(c) + 1
    BY <1>f, <1>m, <1>n DEF Paid, ReceiptsMove
  <2> QED
    BY <2>2, <2>3, <1>i, PaidStep
<1>g. ASSUME faults' = faults, Copies(c)' \subseteq Copies(c),
             Current(c) \cap Copies(c)' \subseteq Current(c)'
      PROVE  CopyAt(c)'
  <2>1. IsFiniteSet(Copies(c)')
    BY <1>g, <1>i, FS_Subset DEF CopyAt
  <2>2. Copies(c)' \ Current(c)' \subseteq Copies(c) \ Current(c)
    BY <1>g
  <2>3. Paid(c)' >= Paid(c)
    BY <1>g, <1>m, <1>n DEF Paid, ReceiptsMove
  <2> QED
    BY <2>1, <2>2, <2>3, <1>i, FreeStep
<1>p. ASSUME wire' \cup landed' \subseteq wire \cup landed,
             \A q \in Caller : ~NewClaim(q)
      PROVE  Copies(c)' \subseteq Copies(c)
  <2>1. \A q \in Caller : call'[q].pc = "post" => KeepsClaim(q)
    BY <1>p, <1>q DEF Holding
  <2> QED
    BY <1>p, <2>1, NoNewCopies
<1>1. ASSUME \/ \E p \in Caller : CallFault(p)
             \/ \E m \in wire : Lose(m)
             \/ \E d \in Capture : Stall(d)
      PROVE  CopyAt(c)'
  <2>1. faults' = faults + 1 /\ wire' \cup landed' \subseteq wire \cup landed
    BY <1>1 DEF CallFault, ClaimUnconfirmed, StoreFails, AnswerLost, CompleteUnconfirmed,
                FailFails, Crash, Lose, Stall, Fault
  <2> QED
    BY <2>1, <1>f
<1>2. ASSUME NEW p \in Caller, Claim(p), Claimable(call[p].capture)
      PROVE  CopyAt(c)'
  <2>1. call[p].pc = "claim" /\ call[p].capture \in Capture
    BY <1>2, <1>k DEF Claim, At
  <2> DEFINE d == call[p].capture
             k == [capture |-> d, token |-> attempts[d] + 1]
  <2>2. /\ TakeRow(d) /\ wire' = wire /\ landed' = landed /\ faults' = faults
        /\ call' = [call EXCEPT ![p] = [pc |-> "post", capture |-> d,
                                         token |-> attempts[d] + 1]]
    BY <1>2 DEF Claim
  <2>3. /\ call'[p] = [pc |-> "post", capture |-> d, token |-> attempts[d] + 1]
        /\ \A q \in Caller : q # p => call'[q] = call[q]
    BY <2>2, <1>c
  <2>4. CASE c = d
    <3>1. Copies(c)' \subseteq Copies(c) \cup {k}
      BY <2>2, <2>3 DEF Copies, Sent, At
    <3>2. k \in Current(c)'
      <4>1. token'[d] = attempts[d] + 1 /\ status'[d] = "pending" /\ live'[d] = TRUE
        BY <2>1, <2>2 DEF TakeRow, TypeOK
      <4>2. InCharge(p, c)'
        BY <4>1, <2>3, <2>4 DEF InCharge
      <4>3. Sent(p)' = k
        BY <2>3 DEF Sent
      <4> QED
        BY <4>2, <4>3 DEF Current
    <3>3. Current(c) = {}
      BY <1>2, <2>4 DEF Current, InCharge, Claimable
    <3>4. IsFiniteSet(Copies(c)')
      BY <3>1, <1>i, OneMore DEF CopyAt
    <3>5. Copies(c)' \ Current(c)' \subseteq Copies(c) \ Current(c)
      BY <3>1, <3>2, <3>3
    <3>6. Paid(c)' >= Paid(c)
      BY <2>2, <1>m, <1>n DEF Paid, ReceiptsMove
    <3> QED
      BY <3>4, <3>5, <3>6, <1>i, FreeStep
  <2>5. CASE c # d
    <3>1. Copies(c)' \subseteq Copies(c)
      BY <2>2, <2>3, <2>5 DEF Copies, Sent, At
    <3>2. status'[c] = status[c] /\ token'[c] = token[c] /\ live'[c] = live[c]
      BY <2>1, <2>2, <2>5 DEF TakeRow, TypeOK
    <3>3. Current(c) \subseteq Current(c)'
      BY <2>1, <2>3, <3>2, IdleStep DEF Busy
    <3> QED
      BY <2>2, <3>1, <3>3, <1>g
  <2> QED
    BY <2>4, <2>5
<1>3. ASSUME NEW p \in Caller, Claim(p), ~Claimable(call[p].capture)
      PROVE  CopyAt(c)'
  <2>1. /\ call[p].pc = "claim" /\ call' = [call EXCEPT ![p] = NoCall]
        /\ UNCHANGED <<rowVars, wire, landed, faults>>
    BY <1>3 DEF Claim, At, End
  <2>2. \A q \in Caller : q # p => call'[q] = call[q]
    BY <2>1, <1>c
  <2>3. Current(c) \subseteq Current(c)'
    BY <2>1, <2>2, IdleStep DEF Busy, rowVars
  <2>4. \A q \in Caller : ~NewClaim(q)
    <3>1. \A q \in Caller : q # p => ~NewClaim(q)
      BY <2>1, <1>c DEF NewClaim, NoCall
    <3>2. ~NewClaim(p)
      BY <1>3 DEF NewClaim
    <3> QED
      BY <3>1, <3>2
  <2> QED
    BY <2>1, <2>3, <2>4, <1>g, <1>p
<1>4. ASSUME NEW p \in Caller, Post(p)
      PROVE  CopyAt(c)'
  <2>1. /\ call[p].pc = "post" /\ wire' = wire \cup {Sent(p)} /\ landed' = landed
        /\ call' = [call EXCEPT ![p] = [pc |-> "wait", capture |-> call[p].capture,
                                         token |-> call[p].token]]
        /\ UNCHANGED rowVars /\ faults' = faults
    BY <1>4 DEF Post, At, Goto
  <2>2. /\ call'[p] = [pc |-> "wait", capture |-> call[p].capture, token |-> call[p].token]
        /\ \A q \in Caller : q # p => call'[q] = call[q]
    BY <2>1, <1>c
  <2>3. Copies(c)' \subseteq Copies(c)
    <3>1. \A q \in Caller : call'[q].pc = "post" => q # p /\ call'[q] = call[q]
      BY <2>2
    <3>2. Sent(p).capture = c =>
            Sent(p) \in {Sent(q) : q \in {r \in Caller : At(r, "post") /\ call[r].capture = c}}
      BY <2>1 DEF Sent, At
    <3> QED
      BY <2>1, <3>1, <3>2 DEF Copies, Sent, At
  <2>4. \A q \in Caller : InCharge(q, c) =>
            /\ call'[q].pc \in Busy
            /\ call'[q].capture = call[q].capture /\ call'[q].token = call[q].token
    BY <2>2 DEF InCharge, Busy
  <2>5. Current(c) \subseteq Current(c)'
    BY <2>1, <2>4, StillCurrent DEF rowVars
  <2> QED
    BY <2>1, <2>3, <2>5, <1>g
<1>5. ASSUME NEW p \in Caller, Accepted(p)
      PROVE  CopyAt(c)'
  <2>1. /\ call[p].pc = "wait" /\ UNCHANGED <<rowVars, wire, landed, faults>>
        /\ call' = [call EXCEPT ![p] = [pc |-> "accepted", capture |-> call[p].capture,
                                         token |-> call[p].token]]
    BY <1>5 DEF Accepted, At, Goto
  <2>2. /\ call'[p] = [pc |-> "accepted", capture |-> call[p].capture,
                       token |-> call[p].token]
        /\ \A q \in Caller : q # p => call'[q] = call[q]
    BY <2>1, <1>c
  <2>3. \A q \in Caller : ~NewClaim(q)
    BY <2>1, <2>2 DEF NewClaim
  <2>4. \A q \in Caller : InCharge(q, c) =>
            /\ call'[q].pc \in Busy
            /\ call'[q].capture = call[q].capture /\ call'[q].token = call[q].token
    BY <2>2 DEF InCharge, Busy
  <2>5. Current(c) \subseteq Current(c)'
    BY <2>1, <2>4, StillCurrent DEF rowVars
  <2> QED
    BY <2>1, <2>3, <2>5, <1>g, <1>p
<1>6. ASSUME NEW p \in Caller, Rejected(p)
      PROVE  CopyAt(c)'
  <2>1. /\ call[p].pc = "wait" /\ UNCHANGED <<rowVars, wire, landed, faults>>
        /\ Sent(p) \notin wire \cup landed
        /\ call' = [call EXCEPT ![p] = [pc |-> "rejected", capture |-> call[p].capture,
                                         token |-> call[p].token]]
    BY <1>6 DEF Rejected, At, Goto
  <2>2. /\ call'[p] = [pc |-> "rejected", capture |-> call[p].capture,
                       token |-> call[p].token]
        /\ \A q \in Caller : q # p => call'[q] = call[q]
    BY <2>1, <1>c
  <2>3. \A q \in Caller : ~NewClaim(q)
    BY <2>1, <2>2 DEF NewClaim
  <2>4. Copies(c)' \subseteq Copies(c)
    BY <2>1, <2>3, <1>p
  <2>5. Sent(p) \notin Copies(c)
    <3>1. ASSUME NEW q \in Caller, At(q, "post")
          PROVE  Sent(q) # Sent(p)
      <4>1. q # p /\ call[q].pc \in Holding /\ call[p].pc \in Holding
        BY <3>1, <2>1 DEF At, Holding
      <4>2. ~(call[q].capture = call[p].capture /\ call[q].token = call[p].token)
        BY <4>1, <1>i DEF ClaimInv
      <4>3. /\ Sent(q).capture = call[q].capture /\ Sent(p).capture = call[p].capture
            /\ Sent(q).token = call[q].token /\ Sent(p).token = call[p].token
        BY DEF Sent
      <4> QED
        BY <4>2, <4>3
    <3> QED
      BY <2>1, <3>1 DEF Copies
  <2>6. ASSUME NEW q \in Caller, InCharge(q, c), q # p
        PROVE  InCharge(q, c)' /\ Sent(q)' = Sent(q)
    BY <2>1, <2>2, <2>6 DEF InCharge, Sent, rowVars
  <2>7. Current(c) \cap Copies(c)' \subseteq Current(c)'
    <3> SUFFICES ASSUME NEW q \in Caller, InCharge(q, c), Sent(q) \in Copies(c)'
                 PROVE  Sent(q) \in Current(c)'
      BY DEF Current
    <3>1. q # p
      BY <2>4, <2>5
    <3> QED
      BY <3>1, <2>6 DEF Current
  <2> QED
    BY <2>1, <2>4, <2>7, <1>g
<1>7. ASSUME NEW p \in Caller, Complete(p) \/ Fail(p)
      PROVE  CopyAt(c)'
  <2>1. /\ call[p].pc \in {"accepted", "rejected"} /\ call[p].pc \in Holding
        /\ call[p].capture \in Capture
        /\ call' = [call EXCEPT ![p] = NoCall] /\ UNCHANGED <<wire, landed, faults>>
    BY <1>7, <1>k DEF Complete, Fail, At, End, Holding
  <2>2. call'[p] = NoCall /\ \A q \in Caller : q # p => call'[q] = call[q]
    BY <2>1, <1>c
  <2>3. \A q \in Caller : ~NewClaim(q)
    <3>1. ASSUME NEW q \in Caller, q # p PROVE ~NewClaim(q)
      BY <2>2, <3>1 DEF NewClaim
    <3>2. ~NewClaim(p)
      BY <2>1 DEF NewClaim, Holding
    <3> QED
      BY <3>1, <3>2
  <2>4. Copies(c)' \subseteq Copies(c)
    BY <2>1, <2>3, <1>p
  <2>5. CASE c # call[p].capture
    <3>1. status'[c] = status[c] /\ token'[c] = token[c] /\ live'[c] = live[c]
      BY <1>7, <2>1, <2>5 DEF Complete, Fail, LeaveRow, rowVars, TypeOK
    <3>2. \A q \in Caller : InCharge(q, c) => q # p /\ call[q].pc \in Busy
      BY <2>5 DEF InCharge, Busy
    <3>3. Current(c) \subseteq Current(c)'
      BY <3>1, <3>2, <2>2, StillCurrent
    <3> QED
      BY <2>1, <2>4, <3>3, <1>g
  <2>6. CASE c = call[p].capture /\ ~Holds(p)
    <3>1. UNCHANGED rowVars
      BY <1>7, <2>6 DEF Complete, Fail
    <3>2. \A q \in Caller : InCharge(q, c) => q # p /\ call[q].pc \in Busy
      BY <2>6 DEF InCharge, Busy, Holds
    <3>3. Current(c) \subseteq Current(c)'
      BY <3>1, <3>2, <2>2, StillCurrent DEF rowVars
    <3> QED
      BY <2>1, <2>4, <3>3, <1>g
  <2>7. CASE c = call[p].capture /\ Holds(p) /\ Complete(p)
    <3>1. status[c] = "pending" /\ status'[c] = "completed"
      BY <2>1, <2>7 DEF Holds, Complete, LeaveRow, TypeOK
    <3>2. Paid(c)' >= Paid(c) + 1
      BY <3>1, <2>1, <1>n DEF Paid
    <3> QED
      BY <2>4, <3>2, <1>i, PaidStep
  <2>8. CASE c = call[p].capture /\ Holds(p) /\ Fail(p)
    <3>1. ASSUME NEW q \in Caller, InCharge(q, c) PROVE FALSE
      <4>1. /\ call[q].pc \in Holding /\ call[q].pc # "rejected"
            /\ call[q].capture = call[p].capture /\ call[q].token = call[p].token
        BY <3>1, <2>8 DEF InCharge, Holds, Holding
      <4>2. call[p].pc = "rejected"
        BY <2>8 DEF Fail, At
      <4> QED
        BY <4>1, <4>2, <2>1, <1>i DEF ClaimInv
    <3>2. Current(c) = {}
      BY <3>1 DEF Current
    <3> QED
      BY <2>1, <2>4, <3>2, <1>g
  <2> QED
    BY <1>7, <2>5, <2>6, <2>7, <2>8
<1>8. ASSUME NEW p \in Caller,
             call[p].pc \notin Busy, \A q \in Caller : q # p => call'[q] = call[q],
             \A q \in Caller : ~NewClaim(q),
             UNCHANGED <<wire, landed, faults>>,
             status[c] = "pending" /\ live[c] =>
               status'[c] = status[c] /\ token'[c] = token[c] /\ live'[c]
      PROVE  CopyAt(c)'
  <2>1. Current(c) \subseteq Current(c)'
    BY <1>8, IdleStep
  <2> QED
    BY <2>1, <1>8, <1>g, <1>p
<1>9. ASSUME NEW r \in Run, NEW d \in Capture, Start(r, d)
      PROVE  CopyAt(c)'
  <2>1. call[r].pc = "idle" /\ \A q \in Caller : q # r => call'[q] = call[q]
    BY <1>9, <1>c DEF Start, At
  <2>2. \A q \in Caller : ~NewClaim(q)
    BY <1>9, <2>1, <1>w DEF NewClaim
  <2> QED
    BY <1>9, <2>1, <2>2, <1>8, <1>w DEF Start, Busy, rowVars
<1>10. ASSUME NEW p \in Caller, ReadCursor(p)
       PROVE  CopyAt(c)'
  <2>1. call[p].pc = "cursor" /\ \A q \in Caller : q # p => call'[q] = call[q]
    BY <1>10, <1>c DEF ReadCursor, At, Goto, End
  <2>2. \A q \in Caller : ~NewClaim(q)
    BY <2>1 DEF NewClaim
  <2> QED
    BY <1>10, <2>1, <2>2, <1>8 DEF ReadCursor, Busy, rowVars
<1>11. ASSUME NEW w \in Worker, Reclaim(w)
       PROVE  CopyAt(c)'
  <2>1. call[w].pc = "idle" /\ \A q \in Caller : q # w => call'[q] = call[q]
    BY <1>11, <1>c DEF Reclaim, At, Goto
  <2>2. \A q \in Caller : ~NewClaim(q)
    BY <2>1, <1>w DEF NewClaim
  <2>3. status[c] = "pending" /\ live[c] =>
               status'[c] = status[c] /\ token'[c] = token[c] /\ live'[c]
    BY <1>11 DEF Reclaim, Expired
  <2> QED
    BY <1>11, <2>1, <2>2, <2>3, <1>8, <1>w DEF Reclaim, Busy
<1>12. ASSUME NEW w \in Worker, List(w)
       PROVE  CopyAt(c)'
  <2>1. call[w].pc = "list" /\ \A q \in Caller : q # w => call'[q] = call[q]
    BY <1>12, <1>c DEF List, At, Goto
  <2>2. \A q \in Caller : ~NewClaim(q)
    BY <2>1, <1>w DEF NewClaim
  <2> QED
    BY <1>12, <2>1, <2>2, <1>8, <1>w DEF List, Busy, rowVars
<1>13. ASSUME NEW w \in Worker, NEW d \in Capture, TakeNext(w, d)
       PROVE  CopyAt(c)'
  <2>1. call[w].pc = "idle" /\ \A q \in Caller : q # w => call'[q] = call[q]
    BY <1>13, <1>c DEF TakeNext, At
  <2>2. \A q \in Caller : ~NewClaim(q)
    BY <2>1, <1>w DEF NewClaim
  <2> QED
    BY <1>13, <2>1, <2>2, <1>8, <1>w DEF TakeNext, Busy, rowVars
<1>14. ASSUME NEW w \in Worker, Skip(w)
       PROVE  CopyAt(c)'
  <2>1. /\ call[w].pc = "stale" /\ call[w].capture \in Capture
        /\ \A q \in Caller : q # w => call'[q] = call[q]
    BY <1>14, <1>c, <1>k, <1>w DEF Skip, At, End
  <2>2. \A q \in Caller : ~NewClaim(q)
    BY <2>1, <1>w DEF NewClaim
  <2>3. status[c] = "pending" /\ live[c] =>
               status'[c] = status[c] /\ token'[c] = token[c] /\ live'[c]
    BY <1>14, <2>1 DEF Skip, LeaveRow, rowVars, TypeOK
  <2> QED
    BY <1>14, <2>1, <2>2, <2>3, <1>8, <1>w DEF Skip, Busy
<1>15. ASSUME call' = call, faults' = faults, wire' \cup landed' \subseteq wire \cup landed,
              status'[c] = status[c] /\ token'[c] = token[c],
              live'[c] = live[c] \/ Current(c) = {}
       PROVE  CopyAt(c)'
  <2>1. \A q \in Caller : ~NewClaim(q)
    BY <1>15 DEF NewClaim
  <2>2. Current(c) \subseteq Current(c)'
    <3>1. CASE Current(c) = {}
      BY <3>1
    <3>2. CASE live'[c] = live[c]
      BY <3>2, <1>15, StillCurrent DEF InCharge, Busy
    <3> QED
      BY <1>15, <3>1, <3>2
  <2> QED
    BY <1>15, <2>1, <2>2, <1>g, <1>p
<1>16. ASSUME NEW m \in wire, Land(m)
       PROVE  CopyAt(c)'
  BY <1>16, <1>15 DEF Land, rowVars
<1>17. ASSUME NEW d \in Capture, Due(d)
       PROVE  CopyAt(c)'
  BY <1>17, <1>15 DEF Due
<1>18. ASSUME NEW d \in Capture, ExpireLease(d)
       PROVE  CopyAt(c)'
  <2>1. d = c => Current(c) = {}
    BY <1>18 DEF ExpireLease, Worked, Current, InCharge
  <2>2. d # c => live'[c] = live[c]
    BY <1>18 DEF ExpireLease, TypeOK
  <2> QED
    BY <1>18, <2>1, <2>2, <1>15 DEF ExpireLease
<1>19. CASE UNCHANGED vars
  BY <1>19, <1>15 DEF vars, rowVars
<1> QED
  BY <1>1, <1>2, <1>3, <1>4, <1>5, <1>6, <1>7, <1>9, <1>10, <1>11, <1>12, <1>13, <1>14,
     <1>16, <1>17, <1>18, <1>19
  DEF Next, CallStep, SweepStep

-----------------------------------------------------------------------------
(* The inductive invariant, and what follows from it.                      *)

\* Every step preserves the invariant of the claims and receipts.
LEMMA CaptureInvInductive == TypeOK /\ CaptureInv /\ [Next]_vars => CaptureInv'
<1> SUFFICES ASSUME TypeOK, CaptureInv, [Next]_vars PROVE CaptureInv'
  OBVIOUS
<1>1. ReceiptsMove /\ CallsMove /\ landed \subseteq landed'
  BY StepMovesReceipts, StepMovesCalls, StoredStays
<1>2. \A c \in Capture : Cursor[c] \in Nat
  BY CaptureAssumption
<1>3. \A c \in Capture : Stored(c) => Stored(c)'
  BY <1>1 DEF Stored
<1>4. \A c \in Capture : Superseded(c) => Superseded(c)'
  BY <1>1 DEF Superseded, ReceiptsMove
<1>5. \A p \in Caller : call'[p].pc \notin {"idle", "list"} => call'[p].capture \in Capture
  BY NextTyped DEF TypeOK
<1>6. ASSUME NEW c \in Capture, status[c] = "completed"
      PROVE  \/ Stored(c)'
             \/ \E d \in Capture :
                  status'[d] = "completed" /\ Cursor[d] > Cursor[c] /\ Stored(d)'
  BY <1>6, <1>1, <1>3 DEF CaptureInv, CompletedIsEarned, ReceiptsMove
<1>7. CompletedIsEarned'
  <2> SUFFICES ASSUME NEW c \in Capture, status'[c] = "completed"
               PROVE  \/ Stored(c)'
                      \/ \E d \in Capture :
                           status'[d] = "completed" /\ Cursor[d] > Cursor[c] /\ Stored(d)'
    BY DEF CompletedIsEarned
  <2>1. CASE \E p \in Caller : At(p, "accepted") /\ call[p].capture = c
    <3>1. PICK p \in Caller : At(p, "accepted") /\ call[p].capture = c
      BY <2>1
    <3>2. Sent(p) \in landed /\ Sent(p).capture = c
      BY <3>1 DEF CaptureInv, AcceptedInv, Sent
    <3> QED
      BY <3>2, <1>3 DEF Stored
  <2>2. CASE \E p \in Caller : At(p, "stale") /\ call[p].capture = c
    <3>1. Superseded(c)
      BY <2>2 DEF CaptureInv, StaleInv
    <3>2. PICK d \in Capture : status[d] = "completed" /\ Cursor[d] > Cursor[c]
      BY <3>1 DEF Superseded
    <3>3. status'[d] = "completed"
      BY <3>2, <1>1 DEF ReceiptsMove
    <3>4. CASE Stored(d)'
      BY <3>2, <3>3, <3>4
    <3>5. CASE \E e \in Capture :
                 status'[e] = "completed" /\ Cursor[e] > Cursor[d] /\ Stored(e)'
      <4>1. PICK e \in Capture :
                 status'[e] = "completed" /\ Cursor[e] > Cursor[d] /\ Stored(e)'
        BY <3>5
      <4>2. Cursor[e] > Cursor[c]
        BY <4>1, <3>2, <1>2
      <4> QED
        BY <4>1, <4>2
    <3> QED
      BY <3>2, <3>4, <3>5, <1>6
  <2> QED
    BY <2>1, <2>2, <1>1, <1>6 DEF ReceiptsMove
<1>8. AcceptedInv'
  <2> SUFFICES ASSUME NEW p \in Caller, call'[p].pc = "accepted"
               PROVE  Sent(p)' \in landed'
    BY DEF AcceptedInv, At
  <2>1. CASE call'[p] = call[p]
    BY <2>1, <1>1 DEF CaptureInv, AcceptedInv, At, Sent
  <2> QED
    BY <2>1, <1>1 DEF CallsMove
<1>9. StaleInv'
  <2> SUFFICES ASSUME NEW p \in Caller, call'[p].pc = "stale"
               PROVE  Superseded(call[p].capture)'
    BY DEF StaleInv, At
  <2>1. Superseded(call'[p].capture)
    BY <1>1 DEF CallsMove, CaptureInv, StaleInv, At
  <2>2. call'[p].capture \in Capture
    BY <1>5
  <2> QED
    BY <2>1, <2>2, <1>4
<1>10. ClaimInv' /\ CopyInv'
  BY ClaimStep, CopyStep DEF CaptureInv
<1> QED
  BY <1>7, <1>8, <1>9, <1>10 DEF CaptureInv

\* Completed receipts are earned, and the calls know why they close them.
THEOREM CapturesCorrect == Spec => []CaptureInv
<1>1. Init => CaptureInv
  <2> SUFFICES ASSUME Init PROVE CaptureInv
    OBVIOUS
  <2>1. CompletedIsEarned /\ AcceptedInv /\ StaleInv
    BY DEF Init, CompletedIsEarned, AcceptedInv, StaleInv, At, NoCall
  <2>2. ClaimInv
    BY DEF Init, ClaimInv, NoCall, Holding
  <2>3. ASSUME NEW c \in Capture
        PROVE  CopyAt(c)
    <3>1. Copies(c) = {}
      BY DEF Init, Copies, At, NoCall
    <3>2. Copies(c) \ Current(c) = {}
      BY <3>1
    <3> QED
      BY <3>1, <3>2, FS_EmptySet DEF CopyAt, Paid, Init
  <2> QED
    BY <2>1, <2>2, <2>3, CopyParts DEF CaptureInv
<1> QED
  BY <1>1, CaptureInvInductive, CapturesTyped, PTL DEF Spec

\* Only what the memory service has stored counts as captured, whatever is
\* lost, late, stalled or crashed.
THEOREM CapturesEarned == Spec => []CompletedIsEarned
<1>1. CaptureInv => CompletedIsEarned
  BY DEF CaptureInv
<1> QED
  BY <1>1, CapturesCorrect, PTL

\* However many runs, sweeps and processes work on a capture, the service stores
\* its messages once; every copy more has cost a lost answer, a stall or a crash.
THEOREM CopiesAreCharged == Spec => []CopiesCostFaults
<1>1. ASSUME TypeOK, CaptureInv
      PROVE  CopiesCostFaults
  <2> SUFFICES ASSUME NEW c \in Capture
               PROVE  Cardinality({m \in landed : m.capture = c}) <= 1 + faults
    BY DEF CopiesCostFaults
  <2> DEFINE L == {m \in landed : m.capture = c}
             A == Copies(c) \ Current(c)
             x == [capture |-> c, token |-> token[c]]
  <2>1. IsFiniteSet(A) /\ Cardinality(A) <= Paid(c)
    BY <1>1, CopyParts, FS_Subset DEF CaptureInv, CopyAt
  <2>2. L \subseteq A \cup Current(c)
    BY DEF Copies
  <2>3. faults \in Nat
    BY <1>1, CaptureAssumption DEF TypeOK
  <2>4. CASE status[c] = "completed"
    <3>1. L \subseteq A
      BY <2>2, <2>4 DEF Current, InCharge
    <3> HIDE DEF L, A
    <3>2. Cardinality(L) <= Cardinality(A) /\ Cardinality(L) \in Nat /\ Cardinality(A) \in Nat
      BY <2>1, <3>1, FS_Subset, FS_CardinalityType
    <3>3. Cardinality(L) <= 1 + faults
      BY <2>1, <2>3, <2>4, <3>2 DEF Paid
    <3> QED
      BY <3>3 DEF L
  <2>5. CASE status[c] # "completed"
    <3>1. L \subseteq A \cup {x}
      BY <2>2, CurrentIsOne
    <3> HIDE DEF L, A, x
    <3>2. Cardinality(L) <= Cardinality(A) + 1 /\ Cardinality(L) \in Nat /\ Cardinality(A) \in Nat
      BY <2>1, <3>1, OneMore
    <3>3. Cardinality(L) <= 1 + faults
      BY <2>1, <2>3, <2>5, <3>2 DEF Paid
    <3> QED
      BY <3>3 DEF L
  <2> QED
    BY <2>4, <2>5
<1> QED
  BY <1>1, CapturesTyped, CapturesCorrect, PTL

\* A completed receipt is final, and under a live claim only its holder moves
\* the receipt on.
THEOREM OldCapturesPowerless == Spec => OldClaimIsPowerless
<1>1. ASSUME TypeOK, [Next]_vars
      PROVE  \A c \in Capture :
                /\ status[c] = "completed" => status'[c] = "completed"
                /\ status[c] = "pending" /\ live[c] /\ status'[c] # "pending" =>
                     \E p \in Caller : /\ call[p].capture = c
                                       /\ call[p].token = token[c]
                                       /\ call'[p] # call[p]
  BY <1>1, StepMovesReceipts DEF ReceiptsMove
<1> QED
  BY <1>1, CapturesTyped, PTL DEF Spec, OldClaimIsPowerless
=============================================================================
