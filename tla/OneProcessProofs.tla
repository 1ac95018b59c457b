-------------------------- MODULE OneProcessProofs --------------------------
(***************************************************************************)
(* What holds where one process serves the API.  The hub that feeds the    *)
(* streams of events and the bridge to a harness keep what they did in the *)
(* memory of their process: each property below needs that there is no     *)
(* other, and TLC shows for each what goes wrong with two.                 *)
(*                                                                         *)
(* Where the process that serves a stream publishes all events of the      *)
(* task, its reader misses none: for any number of events, reconnects and  *)
(* broken connections.                                                     *)
(*                                                                         *)
(* Where one process has the bridge, no number of a thread is persisted    *)
(* twice, and while the task has one thread no event is passed over: for   *)
(* any number of delegations, commands, rejected calls, exits and restarts.*)
(***************************************************************************)
EXTENDS EventStream, HarnessBridge, FiniteSetTheorems, SequenceTheorems,
        WellFoundedInduction, TLAPS

(* The stream of events.                                                   *)

StreamIInv == StreamTypeOK /\ StreamInv

-----------------------------------------------------------------------------
(* What push sends.                                                        *)

\* The members of an interval in order.
LEMMA IntervalInOrder ==
    ASSUME NEW a \in Nat, NEW n \in Nat
    PROVE  InOrder((a + 1) .. (a + n)) = [i \in 1 .. n |-> a + i]
<1> DEFINE S == (a + 1) .. (a + n)
<1>1. \A m \in Nat : Cardinality((a + 1) .. (a + m)) = m
  <2> SUFFICES ASSUME NEW m \in Nat
               PROVE  Cardinality((a + 1) .. (a + m)) = m
    OBVIOUS
  <2>1. a + 1 \in Int /\ a + m \in Int
    OBVIOUS
  <2>2. Cardinality((a + 1) .. (a + m)) =
            IF a + 1 > a + m THEN 0 ELSE (a + m) - (a + 1) + 1
    BY <2>1, FS_Interval
  <2> QED
    BY <2>2
<1>2. ASSUME NEW e \in S
      PROVE  Cardinality({f \in S : f <= e}) = e - a
  <2>1. {f \in S : f <= e} = (a + 1) .. (a + (e - a))
    OBVIOUS
  <2>2. e - a \in Nat
    OBVIOUS
  <2> QED
    BY <2>1, <2>2, <1>1
<1>3. ASSUME NEW i \in 1 .. n
      PROVE  (CHOOSE e \in S : Cardinality({f \in S : f <= e}) = i) = a + i
  <2>1. a + i \in S /\ (a + i) - a = i
    OBVIOUS
  <2>2. Cardinality({f \in S : f <= a + i}) = i
    BY <2>1, <1>2
  <2>3. ASSUME NEW e \in S, Cardinality({f \in S : f <= e}) = i
        PROVE  e = a + i
    <3>1. e - a = i
      BY <2>3, <1>2
    <3> QED
      BY <3>1
  <2> QED
    BY <2>1, <2>2, <2>3
<1>4. Cardinality(S) = n
  BY <1>1
<1> QED
  BY <1>3, <1>4 DEF InOrder

\* Pushing events of which those that are newer follow "last" without a gap.
LEMMA PushGapless ==
    ASSUME StreamTypeOK, NEW events, NEW n \in Nat,
           {e \in events : e > last} = (last + 1) .. (last + n),
           last + n <= MaxEvents, Push(events)
    PROVE  /\ last' = last + n
           /\ pipe' \in Seq(Sequence)
           /\ Len(pipe') = Len(pipe) + n
           /\ \A i \in 1 .. Len(pipe) : pipe'[i] = pipe[i]
           /\ \A i \in 1 .. n : pipe'[Len(pipe) + i] = last + i
<1> DEFINE new == [i \in 1 .. n |-> last + i]
<1>1. last \in Nat /\ MaxEvents \in Nat /\ pipe \in Seq(Sequence)
  BY StreamAssumption DEF StreamTypeOK
<1>2. InOrder({e \in events : e > last}) = new
  BY <1>1, IntervalInOrder
<1>3. new \in Seq(Sequence) /\ Len(new) = n
  <2>1. \A i \in 1 .. n : last + i \in Sequence
    BY <1>1 DEF Sequence
  <2>2. new \in [1 .. n -> Sequence]
    BY <2>1
  <2> QED
    BY <2>2
<1>4. pipe' = pipe \o new /\ last' = IF new = <<>> THEN last ELSE new[Len(new)]
  BY <1>2 DEF Push
<1>5. last' = last + n
  <2>1. CASE n = 0
    <3>1. new = <<>>
      BY <2>1, <1>3
    <3> QED
      BY <3>1, <2>1, <1>1, <1>4
  <2>2. CASE n # 0
    <3>1. new # <<>> /\ new[Len(new)] = last + n
      BY <2>2, <1>3
    <3> QED
      BY <3>1, <1>4
  <2> QED
    BY <2>1, <2>2
<1>6. /\ pipe' \in Seq(Sequence)
      /\ Len(pipe') = Len(pipe) + n
      /\ \A i \in 1 .. Len(pipe) : pipe'[i] = pipe[i]
      /\ \A i \in 1 .. n : pipe'[Len(pipe) + i] = new[i]
  <2>1. /\ pipe \o new \in Seq(Sequence)
        /\ Len(pipe \o new) = Len(pipe) + Len(new)
        /\ \A i \in 1 .. Len(pipe) + Len(new) :
             (pipe \o new)[i] = IF i <= Len(pipe) THEN pipe[i] ELSE new[i - Len(pipe)]
    <3> HIDE DEF new
    <3> QED
      BY <1>1, <1>3, ConcatProperties
  <2>2. Len(pipe) \in Nat
    BY <1>1
  <2>3. ASSUME NEW i \in 1 .. n
        PROVE  pipe'[Len(pipe) + i] = new[i]
    <3>1. Len(pipe) + i \in 1 .. Len(pipe) + Len(new) /\ ~(Len(pipe) + i <= Len(pipe))
          /\ (Len(pipe) + i) - Len(pipe) = i
      BY <2>2, <1>3
    <3> QED
      BY <3>1, <2>1, <1>4
  <2>4. ASSUME NEW i \in 1 .. Len(pipe)
        PROVE  pipe'[i] = pipe[i]
    <3>1. i \in 1 .. Len(pipe) + Len(new) /\ i <= Len(pipe)
      BY <2>2, <1>3
    <3> QED
      BY <3>1, <2>1, <1>4
  <2> QED
    BY <2>1, <2>3, <2>4, <1>3, <1>4
<1> QED
  BY <1>5, <1>6
-----------------------------------------------------------------------------
(* The steps.                                                              *)

LEMMA InitOK == StreamInit => StreamIInv
<1> SUFFICES ASSUME StreamInit PROVE StreamIInv
  OBVIOUS
<1>1. StreamTypeOK
  <2>1. appended \in Seq(Type) /\ Len(appended) = 0 /\ pipe \in Seq(Sequence)
        /\ \A p \in Process : <<>> \in Seq(Sequence)
    BY DEF StreamInit
  <2>2. committed \in [Process -> Seq(Sequence)]
    BY <2>1 DEF StreamInit
  <2>3. /\ row \in {"active", "resting", "quiet", "over"} /\ announcing \in Type \cup {"nothing"}
        /\ stream \in {"none", "subscribed", "read", "checking", "open", "closed"}
        /\ proc \in Process /\ pending \in SUBSET Sequence /\ timer \in BOOLEAN
        /\ reader \in {"connect", "reading", "reread", "done", "failed"}
        /\ terminal \in Type
    BY DEF StreamInit, Type
  <2>4. /\ last \in 0 .. MaxEvents /\ replay \in 0 .. MaxEvents /\ cursor \in 0 .. MaxEvents
        /\ reconnects \in 0 .. MaxReconnects /\ breaks \in 0 .. MaxBreaks
        /\ Len(appended) <= MaxEvents
    BY <2>1, StreamAssumption DEF StreamInit
  <2> QED
    BY <2>1, <2>2, <2>3, <2>4 DEF StreamTypeOK
<1>2. CommitInv
  BY DEF StreamInit, CommitInv, Published
<1>3. PipeInv
  BY DEF StreamInit, PipeInv
<1>4. ServerInv
  BY DEF StreamInit, ServerInv, replaying
<1> QED
  BY <1>1, <1>2, <1>3, <1>4 DEF StreamIInv, StreamInv

LEMMA UpdateRowOK ==
    ASSUME StreamIInv, NEW type \in Type, UpdateRow(type)
    PROVE  StreamIInv'
<1> USE DEF StreamIInv, StreamInv, UpdateRow, streamVars, readerVars
<1>1. StreamTypeOK'
  BY DEF StreamTypeOK, RowOf, Type
<1>2. CommitInv'
  BY DEF CommitInv, Published
<1>3. PipeInv'
  BY DEF PipeInv
<1>4. ServerInv'
  BY DEF ServerInv, replaying, Published
<1> QED
  BY <1>1, <1>2, <1>3, <1>4

LEMMA RestQuietlyOK ==
    ASSUME StreamIInv, RestQuietly
    PROVE  StreamIInv'
<1> USE DEF StreamIInv, StreamInv, RestQuietly, streamVars, readerVars
<1>1. StreamTypeOK'
  BY DEF StreamTypeOK
<1>2. CommitInv'
  BY DEF CommitInv, Published
<1>3. PipeInv'
  BY DEF PipeInv
<1>4. ServerInv'
  BY DEF ServerInv, replaying, Published
<1> QED
  BY <1>1, <1>2, <1>3, <1>4

LEMMA AppendEventOK ==
    ASSUME OneProcess, StreamIInv, NEW p \in Process, NEW type \in Type, AppendEvent(p, type)
    PROVE  StreamIInv'
<1> USE DEF StreamIInv, StreamInv
<1>1. /\ appended \in Seq(Type) /\ Len(appended) \in Nat /\ Len(appended) < MaxEvents
      /\ committed \in [Process -> Seq(Sequence)]
      /\ committed[p] \in Seq(Sequence) /\ Len(committed[p]) \in Nat
      /\ MaxEvents \in Nat
  BY StreamAssumption DEF StreamTypeOK, AppendEvent
<1>2. appended' \in Seq(Type) /\ Len(appended') = Len(appended) + 1
  BY <1>1 DEF AppendEvent
<1>3. Len(appended) + 1 \in Sequence
  BY <1>1 DEF Sequence
<1>4. /\ committed' \in [Process -> Seq(Sequence)]
      /\ committed'[p] = Append(committed[p], Len(appended) + 1)
  BY <1>1, <1>3 DEF AppendEvent
<1>5. /\ Len(committed'[p]) = Len(committed[p]) + 1
      /\ \A i \in 1 .. Len(committed[p]) : committed'[p][i] = committed[p][i]
      /\ committed'[p][Len(committed[p]) + 1] = Len(appended) + 1
      /\ DOMAIN committed'[p] = 1 .. Len(committed[p]) + 1
  BY <1>1, <1>3, <1>4
<1>6. Published(p)' = Published(p)
  BY <1>1, <1>2, <1>5 DEF Published
<1>7. \A q \in Process : q = p
  BY DEF OneProcess
<1>8. StreamTypeOK'
  BY <1>1, <1>2, <1>4 DEF StreamTypeOK, AppendEvent, streamVars, readerVars
<1>9. CommitInv'
  <2> SUFFICES /\ Len(committed'[p]) <= Len(appended')
               /\ \A i \in DOMAIN committed'[p] : committed'[p][i] = Published(p) + i
    BY <1>6, <1>7 DEF CommitInv
  <2>1. /\ Len(committed[p]) <= Len(appended)
        /\ \A i \in 1 .. Len(committed[p]) : committed[p][i] = Published(p) + i
    BY <1>1 DEF CommitInv
  <2>2. ASSUME NEW i \in 1 .. Len(committed[p]) + 1
        PROVE  committed'[p][i] = Published(p) + i
    <3>1. CASE i = Len(committed[p]) + 1
      BY <3>1, <1>1, <1>5 DEF Published
    <3>2. CASE i # Len(committed[p]) + 1
      BY <3>2, <1>1, <1>5, <2>1
    <3> QED
      BY <3>1, <3>2
  <2> QED
    BY <2>1, <2>2, <1>1, <1>2, <1>5
<1>10. PipeInv'
  BY <1>1, <1>2 DEF PipeInv, AppendEvent, streamVars, readerVars, StreamTypeOK
<1>11. ServerInv'
  <2>1. Published(proc)' = Published(proc)
    <3>1. proc \in Process /\ proc' = proc
      BY DEF StreamTypeOK, AppendEvent, streamVars
    <3> QED
      BY <3>1, <1>6, <1>7
  <2> QED
    BY <2>1, <1>1, <1>2 DEF ServerInv, replaying, AppendEvent, streamVars, readerVars, StreamTypeOK
<1> QED
  BY <1>8, <1>9, <1>10, <1>11

\* What PublishEvent does to the queue of its process.
LEMMA Dequeue ==
    ASSUME OneProcess, StreamIInv, NEW p \in Process, PublishEvent(p)
    PROVE  /\ committed' \in [Process -> Seq(Sequence)]
           /\ Published(p)' = Published(p) + 1
           /\ Published(p) \in Nat /\ Published(p) + 1 <= Len(appended)
           /\ Head(committed[p]) = Published(p) + 1
           /\ CommitInv'
<1> USE DEF StreamIInv, StreamInv
<1>1. /\ Len(appended) \in Nat /\ committed \in [Process -> Seq(Sequence)]
      /\ committed[p] \in Seq(Sequence) /\ Len(committed[p]) \in Nat \ {0}
      /\ committed[p] # <<>> /\ appended' = appended
  BY DEF StreamTypeOK, PublishEvent
<1>2. /\ committed' \in [Process -> Seq(Sequence)]
      /\ committed'[p] = Tail(committed[p])
  BY <1>1 DEF PublishEvent
<1>3. /\ Len(committed'[p]) = Len(committed[p]) - 1
      /\ DOMAIN committed'[p] = 1 .. Len(committed[p]) - 1
      /\ \A i \in 1 .. Len(committed[p]) - 1 : committed'[p][i] = committed[p][i + 1]
      /\ Head(committed[p]) = committed[p][1]
  BY <1>1, <1>2
<1>4. Published(p)' = Published(p) + 1
  BY <1>1, <1>3 DEF Published
<1>5. /\ Len(committed[p]) <= Len(appended)
      /\ \A i \in 1 .. Len(committed[p]) : committed[p][i] = Published(p) + i
  BY <1>1 DEF CommitInv
<1>6. Published(p) \in Nat /\ Published(p) + 1 <= Len(appended)
  BY <1>1, <1>5 DEF Published
<1>7. Head(committed[p]) = Published(p) + 1
  BY <1>1, <1>3, <1>5
<1>8. \A q \in Process : q = p
  BY DEF OneProcess
<1>9. CommitInv'
  <2>1. ASSUME NEW i \in 1 .. Len(committed[p]) - 1
        PROVE  committed'[p][i] = Published(p)' + i
    <3>1. i + 1 \in 1 .. Len(committed[p])
      BY <1>1
    <3>2. committed[p][i + 1] = Published(p) + (i + 1)
      BY <3>1, <1>5
    <3>3. committed'[p][i] = committed[p][i + 1]
      BY <1>3
    <3> QED
      BY <3>2, <3>3, <1>4, <1>6
  <2>2. Len(committed'[p]) <= Len(appended')
    BY <1>1, <1>3, <1>5
  <2> QED
    BY <2>1, <2>2, <1>3, <1>8 DEF CommitInv
<1> QED
  BY <1>2, <1>4, <1>6, <1>7, <1>9

LEMMA PublishOK ==
    ASSUME OneProcess, StreamIInv, NEW p \in Process, PublishEvent(p)
    PROVE  StreamIInv'
<1> USE DEF StreamIInv, StreamInv
<1> DEFINE e == Published(p) + 1
<1>1. /\ committed' \in [Process -> Seq(Sequence)]
      /\ Published(p)' = e /\ Published(p) \in Nat /\ e <= Len(appended)
      /\ Head(committed[p]) = e /\ CommitInv'
  BY Dequeue
<1>2. p = proc /\ proc' = proc /\ proc \in Process
  BY DEF OneProcess, StreamTypeOK, PublishEvent
<1>3. /\ Len(appended) \in Nat /\ Len(appended) <= MaxEvents /\ MaxEvents \in Nat
      /\ last \in Nat /\ replay \in Nat /\ cursor \in Nat /\ pipe \in Seq(Sequence)
      /\ Len(pipe) \in Nat
      /\ UNCHANGED <<row, appended, announcing, stream, proc, replay, readerVars, breaks>>
  BY StreamAssumption DEF StreamTypeOK, PublishEvent
<1>4. CASE stream \in {"none", "closed"} \/ e <= last
  <2>1. UNCHANGED <<last, pending, timer, pipe>>
    BY <1>4, <1>1 DEF PublishEvent
  <2>2. StreamTypeOK'
    BY <2>1, <1>1, <1>3 DEF StreamTypeOK, readerVars
  <2>3. PipeInv'
    BY <2>1, <1>3 DEF PipeInv, readerVars
  <2>4. ServerInv'
    <3>1. CASE stream \in {"none", "closed"}
      BY <3>1, <1>3 DEF ServerInv, replaying
    <3>2. CASE e <= last
      BY <3>2, <2>1, <1>1, <1>2, <1>3 DEF ServerInv, replaying, readerVars
    <3> QED
      BY <3>1, <3>2, <1>4
  <2> QED
    BY <2>2, <2>3, <2>4, <1>1
<1>5. CASE replaying /\ ~(e <= last)
  <2>1. pending' = pending \cup {e} /\ UNCHANGED <<last, timer, pipe>>
    BY <1>5, <1>1, <1>2 DEF PublishEvent, replaying
  <2>2. e \in Sequence
    BY <1>1, <1>3 DEF Sequence
  <2>3. StreamTypeOK'
    BY <2>1, <2>2, <1>1, <1>3 DEF StreamTypeOK, readerVars
  <2>4. PipeInv'
    BY <2>1, <1>3 DEF PipeInv, readerVars
  <2>5. ServerInv'
    BY <1>5, <2>1, <1>1, <1>2, <1>3 DEF ServerInv, replaying, readerVars
  <2> QED
    BY <2>3, <2>4, <2>5, <1>1
<1>6. CASE stream \in {"checking", "open"} /\ ~(e <= last)
  <2>1. Push({e}) /\ UNCHANGED pending
    BY <1>6, <1>1, <1>2 DEF PublishEvent, replaying
  <2>2. last = cursor + Len(pipe) /\ e = last + 1 /\ reader = "reading"
    BY <1>6, <1>1, <1>2, <1>3 DEF ServerInv, PipeInv
  <2>3. /\ last' = last + 1
        /\ pipe' \in Seq(Sequence)
        /\ Len(pipe') = Len(pipe) + 1
        /\ \A i \in 1 .. Len(pipe) : pipe'[i] = pipe[i]
        /\ \A i \in 1 .. 1 : pipe'[Len(pipe) + i] = last + i
    <3>1. {f \in {e} : f > last} = (last + 1) .. (last + 1) /\ last + 1 <= MaxEvents
      BY <2>2, <1>1, <1>3
    <3> QED
      BY <3>1, <2>1, PushGapless
  <2>4. timer' \in BOOLEAN
    BY <1>6, <1>1, <1>2 DEF PublishEvent, replaying, StreamTypeOK
  <2>5. StreamTypeOK'
    <3>1. pending' \in SUBSET Sequence
      BY <2>1 DEF StreamTypeOK
    <3>2. last + 1 <= MaxEvents
      BY <2>2, <1>1, <1>3
    <3>3. last' \in 0 .. MaxEvents
      BY <3>2, <2>3, <1>3
    <3> QED
      BY <3>1, <3>3, <2>3, <2>4, <1>1, <1>3 DEF StreamTypeOK, readerVars
  <2>6. PipeInv'
    <3>1. ASSUME NEW i \in 1 .. Len(pipe) + 1
          PROVE  pipe'[i] = cursor + i
      <4>1. CASE i = Len(pipe) + 1
        BY <4>1, <2>2, <2>3, <1>3
      <4>2. CASE i # Len(pipe) + 1
        <5>1. i \in 1 .. Len(pipe) /\ i \in DOMAIN pipe
          BY <4>2, <1>3
        <5> QED
          BY <5>1, <2>2, <2>3 DEF PipeInv
      <4> QED
        BY <4>1, <4>2
    <3>2. DOMAIN pipe' = 1 .. Len(pipe) + 1
      BY <2>3
    <3> QED
      BY <3>1, <3>2, <2>2, <2>3, <1>1, <1>3 DEF PipeInv, readerVars
  <2>7. ServerInv'
    BY <1>6, <2>2, <2>3, <1>1, <1>2, <1>3 DEF ServerInv, replaying, readerVars
  <2> QED
    BY <2>5, <2>6, <2>7, <1>1
<1>7. stream \in {"none", "closed", "checking", "open"} \/ replaying
  BY DEF StreamTypeOK, replaying
<1> QED
  BY <1>4, <1>5, <1>6, <1>7

LEMMA SubscribeOK ==
    ASSUME StreamIInv, NEW p \in Process, Subscribe(p)
    PROVE  StreamIInv'
<1> USE DEF StreamIInv, StreamInv, Subscribe, taskVars
<1>1. StreamTypeOK'
  <2>1. pipe' \in Seq(Sequence)
    OBVIOUS
  <2>2. pending' \in SUBSET Sequence /\ timer' \in BOOLEAN
    OBVIOUS
  <2>3. last' \in 0 .. MaxEvents /\ replay' \in 0 .. MaxEvents
    BY StreamAssumption DEF StreamTypeOK
  <2> QED
    BY <2>1, <2>2, <2>3 DEF StreamTypeOK
<1>2. CommitInv'
  BY DEF CommitInv, Published
<1>3. PipeInv'
  <2>1. Len(pipe') = 0 /\ DOMAIN pipe' = {}
    OBVIOUS
  <2>2. cursor \in Nat
    BY DEF StreamTypeOK
  <2> QED
    BY <2>1, <2>2 DEF PipeInv
<1>4. ServerInv'
  BY DEF ServerInv, replaying
<1> QED
  BY <1>1, <1>2, <1>3, <1>4

LEMMA ReadEventsOK ==
    ASSUME StreamIInv, ReadEvents
    PROVE  StreamIInv'
<1> USE DEF StreamIInv, StreamInv, ReadEvents, taskVars, readerVars
<1>1. StreamTypeOK'
  BY DEF StreamTypeOK
<1>2. CommitInv'
  BY DEF CommitInv, Published
<1>3. PipeInv'
  BY DEF PipeInv
<1>4. ServerInv'
  <2>1. /\ last = cursor /\ pipe = <<>> /\ pending \subseteq 1 .. Published(proc)
        /\ cursor <= Len(appended)
    BY DEF ServerInv, PipeInv, replaying
  <2>2. Published(proc) <= Len(appended) /\ Published(proc) \in Int /\ Len(appended) \in Nat
        /\ last \in Nat
    BY DEF StreamTypeOK, Published
  <2>3. (replay' + 1) .. Published(proc) \subseteq pending
    BY <2>2
  <2> QED
    BY <2>1, <2>2, <2>3 DEF ServerInv, replaying, Published
<1> QED
  BY <1>1, <1>2, <1>3, <1>4

LEMMA ReplayOK ==
    ASSUME StreamIInv, Replay
    PROVE  StreamIInv'
<1> USE DEF StreamIInv, StreamInv
<1>1. /\ Len(appended) \in Nat /\ Len(appended) <= MaxEvents /\ MaxEvents \in Nat
      /\ Published(proc) \in Nat /\ Published(proc) <= Len(appended)
      /\ last \in Nat /\ replay \in Nat /\ cursor \in Nat
  <2>1. proc \in Process /\ Len(committed[proc]) \in Nat
    BY DEF StreamTypeOK
  <2> QED
    BY <2>1, StreamAssumption DEF StreamTypeOK, CommitInv, Published
<1>2. /\ last = cursor /\ pipe = <<>> /\ Len(pipe) = 0 /\ reader = "reading"
      /\ pending \subseteq 1 .. Published(proc)
      /\ replay \in last .. Len(appended)
      /\ (replay + 1) .. Published(proc) \subseteq pending
  BY DEF ServerInv, PipeInv, replaying, Replay
<1>3. PICK n \in Nat : /\ last + n <= Len(appended)
                       /\ replay <= last + n /\ Published(proc) <= last + n
                       /\ last + n = replay \/ last + n = Published(proc)
  <2>1. CASE Published(proc) <= replay
    <3>1. replay - last \in Nat /\ last + (replay - last) = replay
      BY <1>1, <1>2
    <3> QED
      BY <3>1, <2>1, <1>2, <1>1
  <2>2. CASE ~(Published(proc) <= replay)
    <3>1. Published(proc) - last \in Nat /\ last + (Published(proc) - last) = Published(proc)
      BY <2>2, <1>1, <1>2
    <3> QED
      BY <3>1, <2>2, <1>1
  <2> QED
    BY <2>1, <2>2
<1>4. {e \in (1 .. replay) \cup pending : e > last} = (last + 1) .. (last + n)
  <2>1. ASSUME NEW e \in (1 .. replay) \cup pending, e > last
        PROVE  e \in (last + 1) .. (last + n)
    BY <2>1, <1>1, <1>2, <1>3
  <2>2. ASSUME NEW e \in (last + 1) .. (last + n)
        PROVE  e \in (1 .. replay) \cup pending /\ e > last
    <3>1. CASE e <= replay
      BY <3>1, <1>1
    <3>2. CASE ~(e <= replay)
      <4>1. e \in (replay + 1) .. Published(proc)
        BY <3>2, <1>1, <1>3
      <4> QED
        BY <4>1, <1>1, <1>2
    <3> QED
      BY <3>1, <3>2
  <2> QED
    BY <2>1, <2>2
<1>5. Push((1 .. replay) \cup pending)
  BY DEF Replay
<1>6. /\ last' = last + n
      /\ pipe' \in Seq(Sequence)
      /\ Len(pipe') = n
      /\ \A i \in 1 .. n : pipe'[i] = last + i
  <2>1. /\ last' = last + n
        /\ pipe' \in Seq(Sequence)
        /\ Len(pipe') = Len(pipe) + n
        /\ \A i \in 1 .. n : pipe'[Len(pipe) + i] = last + i
    <3>1. last + n <= MaxEvents
      BY <1>1, <1>3
    <3> QED
      BY <3>1, <1>4, <1>5, PushGapless
  <2> QED
    BY <2>1, <1>2
<1>7. /\ timer' \in BOOLEAN /\ pending' = {} /\ stream' = "checking"
      /\ UNCHANGED <<row, appended, announcing, committed, proc, replay, readerVars, breaks>>
  BY DEF Replay, taskVars
<1>8. StreamTypeOK'
  BY <1>1, <1>3, <1>6, <1>7 DEF StreamTypeOK, readerVars
<1>9. CommitInv'
  BY <1>7 DEF CommitInv, Published
<1>10. PipeInv'
  BY <1>1, <1>2, <1>3, <1>6, <1>7 DEF PipeInv, readerVars
<1>11. ServerInv'
  BY <1>1, <1>2, <1>3, <1>6, <1>7 DEF ServerInv, replaying, Published, readerVars
<1> QED
  BY <1>8, <1>9, <1>10, <1>11

\* The endpoint looks at the row.
LEMMA LookOK ==
    ASSUME StreamIInv, CheckRow \/ Timer
    PROVE  StreamIInv'
<1> USE DEF StreamIInv, StreamInv
<1>1. /\ stream \in {"checking", "open"} /\ stream' \in {"checking", "open", "closed"}
      /\ timer' \in BOOLEAN
      /\ UNCHANGED <<taskVars, proc, last, replay, pending, pipe, readerVars, breaks>>
  BY DEF CheckRow, Timer, StreamTypeOK
<1>2. StreamTypeOK'
  BY <1>1 DEF StreamTypeOK, taskVars, readerVars
<1>3. CommitInv'
  BY <1>1 DEF CommitInv, Published, taskVars
<1>4. PipeInv'
  BY <1>1 DEF PipeInv, taskVars, readerVars
<1>5. ServerInv'
  BY <1>1 DEF ServerInv, replaying, Published, taskVars, readerVars
<1> QED
  BY <1>2, <1>3, <1>4, <1>5

\* The reader reads the event that follows its cursor.
LEMMA ReadNext ==
    ASSUME StreamIInv, Read
    PROVE  /\ cursor' = cursor + 1 /\ terminal' = appended[cursor + 1]
           /\ cursor + 1 \in 1 .. Len(appended)
           /\ pipe' \in Seq(Sequence) /\ Len(pipe') = Len(pipe) - 1
           /\ \A i \in 1 .. Len(pipe) - 1 : pipe'[i] = cursor' + i
<1> USE DEF StreamIInv, StreamInv
<1>1. /\ pipe \in Seq(Sequence) /\ pipe # <<>> /\ Len(pipe) \in Nat \ {0}
      /\ cursor \in Nat /\ Len(appended) \in Nat
  BY DEF StreamTypeOK, Read
<1>2. /\ cursor + Len(pipe) <= Len(appended)
      /\ \A i \in 1 .. Len(pipe) : pipe[i] = cursor + i
  BY <1>1 DEF PipeInv, Read
<1>3. Head(pipe) = cursor + 1
  BY <1>1, <1>2
<1>4. cursor' = cursor + 1 /\ terminal' = appended[cursor + 1]
  BY <1>1, <1>3 DEF Read
<1>5. /\ pipe' \in Seq(Sequence) /\ Len(pipe') = Len(pipe) - 1
      /\ \A i \in 1 .. Len(pipe) - 1 : pipe'[i] = pipe[i + 1]
  BY <1>1 DEF Read
<1>6. ASSUME NEW i \in 1 .. Len(pipe) - 1
      PROVE  pipe'[i] = cursor' + i
  <2>1. i + 1 \in 1 .. Len(pipe)
    BY <1>1
  <2>2. pipe[i + 1] = cursor + (i + 1)
    BY <2>1, <1>2
  <2> QED
    BY <2>2, <1>1, <1>4, <1>5
<1> QED
  BY <1>1, <1>2, <1>4, <1>5, <1>6

LEMMA ReadOK ==
    ASSUME StreamIInv, Read
    PROVE  StreamIInv'
<1> USE DEF StreamIInv, StreamInv
<1>1. /\ cursor' = cursor + 1 /\ terminal' = appended[cursor + 1]
      /\ cursor + 1 \in 1 .. Len(appended)
      /\ pipe' \in Seq(Sequence) /\ Len(pipe') = Len(pipe) - 1
      /\ \A i \in 1 .. Len(pipe) - 1 : pipe'[i] = cursor' + i
  BY ReadNext
<1>2. /\ UNCHANGED <<taskVars, stream, proc, last, replay, pending, timer, reader,
                      reconnects, breaks>>
      /\ reader = "reading" /\ pipe # <<>>
  BY DEF Read
<1>3. /\ Len(appended) \in Nat /\ Len(appended) <= MaxEvents /\ MaxEvents \in Nat /\ cursor \in Nat
      /\ Len(pipe) \in Nat /\ appended \in Seq(Type) /\ last \in Nat
  BY StreamAssumption DEF StreamTypeOK
<1>4. appended[cursor + 1] \in Type
  BY <1>1, <1>3
<1>5. StreamTypeOK'
  BY <1>1, <1>2, <1>3, <1>4 DEF StreamTypeOK, taskVars
<1>6. CommitInv'
  BY <1>2 DEF CommitInv, Published, taskVars
<1>7. PipeInv'
  <2>1. DOMAIN pipe' = 1 .. Len(pipe) - 1
    <3> HIDE DEF StreamIInv
    <3> QED
      BY <1>1
  <2>2. stream # "none" /\ cursor + Len(pipe) <= Len(appended)
    BY <1>2 DEF PipeInv
  <2>3. cursor' <= Len(appended) /\ cursor' + Len(pipe') <= Len(appended)
    BY <2>2, <1>1, <1>3
  <2> QED
    BY <2>1, <2>2, <2>3, <1>1, <1>2 DEF PipeInv, taskVars
<1>8. ServerInv'
  <2>1. ~replaying
    BY <1>2 DEF ServerInv
  <2>2. cursor' + Len(pipe') = cursor + Len(pipe)
    BY <1>1, <1>3
  <2>3. Published(proc)' = Published(proc)
    BY <1>2 DEF Published, taskVars
  <2> QED
    BY <2>1, <2>2, <2>3, <1>2 DEF ServerInv, replaying
<1> QED
  BY <1>5, <1>6, <1>7, <1>8

\* A stream ends, breaks, or the row is read again.
LEMMA EndOK ==
    ASSUME StreamIInv, StreamEnds \/ Reread \/ Break
    PROVE  StreamIInv'
<1> USE DEF StreamIInv, StreamInv
<1>1. /\ UNCHANGED <<taskVars, proc, last, replay, pending, timer, pipe, cursor>>
      /\ stream' = "none" /\ reader' # "reading"
      /\ reader' \in {"connect", "reread", "done", "failed"}
      /\ terminal' \in Type
      /\ reconnects' \in 0 .. MaxReconnects
      /\ breaks' \in 0 .. MaxBreaks
  <2>0. /\ reconnects \in 0 .. MaxReconnects /\ breaks \in 0 .. MaxBreaks
        /\ MaxReconnects \in Nat /\ MaxBreaks \in Nat /\ terminal \in Type
    BY StreamAssumption DEF StreamTypeOK
  <2>1. CASE StreamEnds
    <3>1. /\ UNCHANGED <<taskVars, proc, last, replay, pending, timer, pipe, cursor,
                          terminal, breaks>>
          /\ stream' = "none"
      BY <2>1 DEF StreamEnds
    <3>2. CASE terminal = "end"
      BY <3>1, <3>2, <2>0, <2>1 DEF StreamEnds
    <3>3. CASE terminal = "rest"
      BY <3>1, <3>3, <2>0, <2>1 DEF StreamEnds
    <3>4. CASE terminal = "work"
      <4>1. Reconnect
        BY <3>4, <2>1 DEF StreamEnds
      <4> QED
        BY <3>1, <4>1, <2>0 DEF Reconnect
    <3> QED
      BY <3>2, <3>3, <3>4, <2>0 DEF Type
  <2>2. CASE Reread
    BY <2>0, <2>2 DEF Reread, Reconnect, Type, streamVars, PipeInv
  <2>3. CASE Break
    BY <2>0, <2>3 DEF Break
  <2> QED
    BY <2>1, <2>2, <2>3
<1>2. StreamTypeOK'
  BY <1>1 DEF StreamTypeOK, taskVars
<1>3. CommitInv'
  BY <1>1 DEF CommitInv, Published, taskVars
<1>4. PipeInv'
  BY <1>1 DEF PipeInv, taskVars
<1>5. ServerInv'
  BY <1>1 DEF ServerInv, replaying
<1> QED
  BY <1>2, <1>3, <1>4, <1>5

LEMMA NextOK ==
    ASSUME OneProcess, StreamIInv, [StreamNext]_eventVars
    PROVE  StreamIInv'
<1>1. CASE \E type \in Type : UpdateRow(type) \/ \E p \in Process : AppendEvent(p, type)
  BY <1>1, UpdateRowOK, AppendEventOK
<1>2. CASE \E p \in Process : PublishEvent(p)
  BY <1>2, PublishOK
<1>3. CASE Server
  BY <1>3, ReadEventsOK, ReplayOK, LookOK DEF Server
<1>4. CASE Reader
  BY <1>4, SubscribeOK, ReadOK, EndOK DEF Reader
<1>5. CASE Break
  BY <1>5, EndOK
<1>6. CASE RestQuietly
  BY <1>6, RestQuietlyOK
<1>7. CASE UNCHANGED eventVars
  BY <1>7 DEF eventVars, taskVars, streamVars, readerVars, StreamIInv, StreamInv, StreamTypeOK, CommitInv,
              Published, PipeInv, ServerInv, replaying
<1> QED
  BY <1>1, <1>2, <1>3, <1>4, <1>5, <1>6, <1>7 DEF StreamNext

-----------------------------------------------------------------------------
(* The theorems.                                                           *)

\* With one process the state of a stream is as its types say, what is on its
\* way follows what was read, and what is published was pushed or is buffered.
THEOREM StreamCorrect == OneProcess /\ StreamSpec => [](StreamTypeOK /\ StreamInv)
<1>1. CASE OneProcess
  <2>1. StreamIInv /\ [StreamNext]_eventVars => StreamIInv'
    BY <1>1, NextOK
  <2> QED
    BY <2>1, InitOK, PTL DEF StreamSpec, StreamIInv
<1> QED
  BY <1>1

\* With one process the reader sees every event of the task, in order and
\* without a gap, over however many streams, broken ones included.
THEOREM NothingIsMissed == OneProcess /\ StreamSpec => EveryTransitionIsReplayed
<1>1. ASSUME StreamIInv, [StreamNext]_eventVars
      PROVE  cursor' \in {cursor, cursor + 1}
  <2>1. CASE Read
    BY <1>1, <2>1, ReadNext
  <2>2. CASE ~Read
    BY <1>1, <2>2 DEF StreamNext, eventVars, UpdateRow, RestQuietly, AppendEvent, PublishEvent, Server, ReadEvents,
       Replay, CheckRow, Timer, Reader, Subscribe, StreamEnds, Reread, Break, taskVars,
       streamVars, readerVars
  <2> QED
    BY <2>1, <2>2
<1>2. CASE OneProcess
  BY <1>1, <1>2, StreamCorrect, PTL DEF EveryTransitionIsReplayed, StreamSpec, StreamIInv
<1> QED
  BY <1>2

-----------------------------------------------------------------------------
(* Numbers and queues.                                                     *)

\* Of sets that belong to the members of a finite set, one is minimal.
LEMMA SomeMinimal ==
    ASSUME NEW S, IsFiniteSet(S), NEW B \in [S -> SUBSET S], S # {}
    PROVE  \E x \in S : \A y \in S : B[y] \subseteq B[x] => B[y] = B[x]
<1> DEFINE T == {B[x] : x \in S}
<1>1. T \subseteq FiniteSubsetsOf(S) /\ T # {}
  <2>1. FiniteSubsetsOf(S) = SUBSET S
    BY FS_FiniteSubsetsOfFinite
  <2> QED
    BY <2>1
<1>2. PICK t \in T : \A u \in T : ~ (<<u, t>> \in StrictSubsetOrdering(S))
  <2> HIDE DEF T
  <2> QED
    BY <1>1, WFMin, FS_StrictSubsetOrderingWellFounded
<1>3. PICK x \in S : t = B[x]
  BY <1>2
<1>4. ASSUME NEW y \in S, B[y] \subseteq B[x], B[y] # B[x] PROVE FALSE
  <2>1. <<B[y], B[x]>> \in StrictSubsetOrdering(S)
    BY <1>4 DEF StrictSubsetOrdering
  <2> QED
    BY <2>1, <1>2, <1>3
<1> QED
  BY <1>4

\* A finite set with a transitive and irreflexive relation has a first member.
LEMMA SomeFirst ==
    ASSUME NEW S, IsFiniteSet(S), S # {}, NEW R,
           \A x, y, z \in S : <<x, y>> \in R /\ <<y, z>> \in R => <<x, z>> \in R,
           \A x \in S : <<x, x>> \notin R
    PROVE  \E x \in S : \A y \in S : <<y, x>> \notin R
<1>1. ASSUME NEW B, B = [x \in S |-> {y \in S : <<y, x>> \in R}]
      PROVE  \E x \in S : \A y \in S : <<y, x>> \notin R
  <2>1. B \in [S -> SUBSET S]
    BY <1>1
  <2>2. PICK x \in S : \A y \in S : B[y] \subseteq B[x] => B[y] = B[x]
    BY <2>1, SomeMinimal
  <2>3. ASSUME NEW y \in S, <<y, x>> \in R
        PROVE  FALSE
    <3>1. B[y] \subseteq B[x]
      BY <1>1, <2>3
    <3>2. y \in B[x] /\ y \notin B[y]
      BY <1>1, <2>3
    <3> QED
      BY <2>2, <3>1, <3>2
  <2> QED
    BY <2>3
<1> QED
  BY <1>1

\* A finite set of numbers has a largest and a smallest.
LEMMA Extremes ==
    ASSUME NEW S, S \subseteq Nat, IsFiniteSet(S), S # {}
    PROVE  /\ Max(S) \in S /\ \A y \in S : Max(S) >= y
           /\ Min(S) \in S /\ \A y \in S : Min(S) <= y
<1>1. ASSUME NEW R, R = {p \in Nat \X Nat : p[1] > p[2]}
      PROVE  \E x \in S : \A y \in S : x >= y
  <2>1. \A x, y \in Nat : <<y, x>> \in R <=> y > x
    BY <1>1
  <2>2. /\ \A x, y, z \in S : <<x, y>> \in R /\ <<y, z>> \in R => <<x, z>> \in R
        /\ \A x \in S : <<x, x>> \notin R
    BY <2>1
  <2>3. PICK x \in S : \A y \in S : <<y, x>> \notin R
    BY ONLY IsFiniteSet(S), S # {}, <2>2, SomeFirst
  <2>4. ASSUME NEW y \in S
        PROVE  x >= y
    <3>1. x \in Nat /\ y \in Nat
      OBVIOUS
    <3>2. <<y, x>> \notin R
      BY <2>3
    <3> QED
      BY <2>1, <3>1, <3>2
  <2> QED
    BY <2>4
<1>2. ASSUME NEW R, R = {p \in Nat \X Nat : p[1] < p[2]}
      PROVE  \E x \in S : \A y \in S : x <= y
  <2>1. \A x, y \in Nat : <<y, x>> \in R <=> y < x
    BY <1>2
  <2>2. /\ \A x, y, z \in S : <<x, y>> \in R /\ <<y, z>> \in R => <<x, z>> \in R
        /\ \A x \in S : <<x, x>> \notin R
    BY <2>1
  <2>3. PICK x \in S : \A y \in S : <<y, x>> \notin R
    BY ONLY IsFiniteSet(S), S # {}, <2>2, SomeFirst
  <2>4. ASSUME NEW y \in S
        PROVE  x <= y
    <3>1. x \in Nat /\ y \in Nat
      OBVIOUS
    <3>2. <<y, x>> \notin R
      BY <2>3
    <3> QED
      BY <2>1, <3>1, <3>2
  <2> QED
    BY <2>4
<1> QED
  BY <1>1, <1>2 DEF Max, Min

\* The number from which a thread is taken up is not below any that is persisted.
LEMMA LastIsLargest ==
    ASSUME TypeOK, StartedInv
    PROVE  /\ LastExternalSequence \in Nat
           /\ \A t \in Thread : \A n \in log[t] : n <= LastExternalSequence
           /\ LastExternalSequence = 0 \/ \E t \in Thread : LastExternalSequence \in log[t]
<1> DEFINE S == {0} \cup UNION {log[t] : t \in Thread}
<1>1. S \subseteq Nat /\ S # {}
  BY DEF TypeOK
<1>2. IsFiniteSet(S)
  BY FS_AddElement, FS_Union, FS_Singleton DEF StartedInv
<1>3. Max(S) \in S /\ \A y \in S : Max(S) >= y
  <2> HIDE DEF S
  <2> QED
    BY <1>1, <1>2, Extremes
<1> QED
  BY <1>1, <1>3 DEF LastExternalSequence

\* What is left of a sequence without its member at some place.
LEMMA RemovedAt ==
    ASSUME NEW S, NEW s \in Seq(S), NEW i \in DOMAIN s
    PROVE  /\ RemoveAt(s, i) \in Seq(S)
           /\ Len(RemoveAt(s, i)) = Len(s) - 1
           /\ \A j \in 1 .. (Len(s) - 1) :
                RemoveAt(s, i)[j] = IF j < i THEN s[j] ELSE s[j + 1]
<1>1. i \in 1 .. Len(s) /\ Len(s) \in Nat
  OBVIOUS
<1>2. SubSeq(s, 1, i - 1) \in Seq(S) /\ SubSeq(s, i + 1, Len(s)) \in Seq(S)
  BY <1>1
<1>3. Len(SubSeq(s, 1, i - 1)) = i - 1 /\ Len(SubSeq(s, i + 1, Len(s))) = Len(s) - i
  BY <1>1
<1> DEFINE u == SubSeq(s, 1, i - 1)
           v == SubSeq(s, i + 1, Len(s))
<1>4. /\ \A j \in 1 .. (i - 1) : u[j] = s[j]
      /\ \A j \in 1 .. (Len(s) - i) : v[j] = s[i + j]
  BY <1>1
<1>5. RemoveAt(s, i) = u \o v
  BY DEF RemoveAt
<1>6. u \in Seq(S) /\ v \in Seq(S) /\ Len(u) = i - 1 /\ Len(v) = Len(s) - i
  BY <1>2, <1>3
<1> HIDE DEF u, v
<1>7. /\ u \o v \in Seq(S) /\ Len(u \o v) = Len(s) - 1
      /\ \A j \in 1 .. (Len(s) - 1) :
            (u \o v)[j] = IF j <= Len(u) THEN u[j] ELSE v[j - Len(u)]
  <2>1. /\ u \o v \in Seq(S) /\ Len(u \o v) = Len(u) + Len(v)
        /\ \A j \in 1 .. (Len(u) + Len(v)) :
              (u \o v)[j] = IF j <= Len(u) THEN u[j] ELSE v[j - Len(u)]
    BY <1>6, ConcatProperties
  <2>2. Len(u) + Len(v) = Len(s) - 1
    BY <1>1, <1>6
  <2> QED
    BY <2>1, <2>2
<1>8. ASSUME NEW j \in 1 .. (Len(s) - 1)
      PROVE  (u \o v)[j] = IF j < i THEN s[j] ELSE s[j + 1]
  <2>1. CASE j < i
    <3>1. j \in 1 .. (i - 1) /\ j <= Len(u)
      BY <1>1, <1>6, <2>1
    <3> QED
      BY <1>4, <1>7, <2>1, <3>1
  <2>2. CASE ~(j < i)
    <3>1. j - (i - 1) \in 1 .. (Len(s) - i) /\ ~(j <= Len(u)) /\ i + (j - (i - 1)) = j + 1
      BY <1>1, <1>6, <2>2
    <3>2. v[j - (i - 1)] = s[j + 1]
      BY <1>4, <3>1
    <3> QED
      BY <1>6, <1>7, <2>2, <3>1, <3>2
  <2> QED
    BY <2>1, <2>2
<1> QED
  BY <1>5, <1>7, <1>8

-----------------------------------------------------------------------------
(* What the helpers do to loops and queues.                                *)

\* A delegation is free, or a loop.
LEMMA LoopOrFree ==
    ASSUME TypeOK, NEW d \in Delegation
    PROVE  /\ del[d] = NoLoop <=> del[d].pc = "free"
           /\ del[d] # NoLoop => del[d] \in Loop
BY DEF TypeOK, NoLoop, Loop

\* A loop with an event in its hand.
LEMMA HoldTyped ==
    ASSUME NEW r \in Loop, NEW e \in Event
    PROVE  /\ Hold(r, e) \in Loop /\ Hold(r, e).pc = "append"
           /\ Hold(r, e).proc = r.proc /\ Hold(r, e).thread = r.thread
           /\ Hold(r, e).event = e /\ Hold(r, e).after = e.seq
BY DEF Hold, Loop, Event

\* A loop that is aborted ends if it waits, and otherwise goes on.
LEMMA AbortTyped ==
    ASSUME NEW r \in Loop \cup {NoLoop}
    PROVE  /\ Abort(r) \in Loop \cup {NoLoop}
           /\ Abort(r) = NoLoop <=> r = NoLoop \/ r.pc = "wait"
           /\ Abort(r) # NoLoop =>
                /\ Abort(r).pc = r.pc /\ Abort(r).proc = r.proc
                /\ Abort(r).thread = r.thread /\ Abort(r).after = r.after
                /\ Abort(r).event = r.event
<1>1. CASE r = NoLoop
  BY <1>1 DEF NoLoop, Abort, Loop
<1>2. CASE r \in Loop
  BY <1>2 DEF NoLoop, Abort, Loop
<1> QED
  BY <1>1, <1>2

\* The loop "d", as "r", takes the first event after its cursor, which is the
\* i-th of the queue.
Draws(d, r, i) ==
    /\ i \in Later(r) /\ \A j \in Later(r) : i <= j
    /\ del' = [del EXCEPT ![d] = Hold(r, queue[r.proc][r.thread].events[i])]
    /\ queue' = [queue EXCEPT ![r.proc][r.thread].events = RemoveAt(@, i)]

\* There is none: the loop ends, or waits at a queue that is open.
Pauses(d, r) ==
    /\ Later(r) = {} /\ queue' = queue
    /\ \/ del' = [del EXCEPT ![d] = NoLoop]
       \/ /\ ~queue[r.proc][r.thread].closed
          /\ del' = [del EXCEPT ![d] = [r EXCEPT !.pc = "wait"]]

\* A queue with other events in it.
LEMMA QueueWith ==
    ASSUME TypeOK, NEW p \in Process, NEW t \in Thread, NEW x \in Seq(Event),
           NEW new, new = [queue EXCEPT ![p][t].events = x]
    PROVE  /\ new \in [Process -> [Thread -> Queue]]
           /\ new[p][t].events = x /\ new[p][t].seq = queue[p][t].seq
           /\ new[p][t].closed = queue[p][t].closed
           /\ \A q \in Process, u \in Thread :
                q # p \/ u # t => new[q][u] = queue[q][u]
<1>1. queue[p][t] \in Queue /\ queue[p] \in [Thread -> Queue]
  BY DEF TypeOK
<1>2. [queue[p][t] EXCEPT !.events = x] \in Queue
  BY <1>1 DEF Queue
<1>3. new = [queue EXCEPT ![p] = [queue[p] EXCEPT ![t] = [queue[p][t] EXCEPT !.events = x]]]
  OBVIOUS
<1>4. new[p][t] = [queue[p][t] EXCEPT !.events = x]
  BY <1>1, <1>3 DEF TypeOK
<1> QED
  BY <1>1, <1>2, <1>3, <1>4 DEF TypeOK, Queue

\* A loop that asks for its next event draws it or pauses.
LEMMA PullCases ==
    ASSUME TypeOK, NEW d \in Delegation, NEW r \in Loop, NEW act, Pull(d, r, act)
    PROVE  \/ \E i \in DOMAIN queue[r.proc][r.thread].events :
                 Draws(d, r, i) /\ active' = act
           \/ Pauses(d, r) /\ active' = Forget(act, d) /\ del'[d] = NoLoop
           \/ Pauses(d, r) /\ active' = act /\ del'[d] = [r EXCEPT !.pc = "wait"]
<1>1. r.proc \in Process /\ r.thread \in Thread
  BY DEF Loop
<1>2. d \in DOMAIN del
  BY DEF TypeOK
<1>3. CASE Later(r) # {}
  <2>1. Later(r) \subseteq Nat /\ IsFiniteSet(Later(r))
    <3> DEFINE events == queue[r.proc][r.thread].events
    <3>1. events \in Seq(Event)
      BY <1>1 DEF TypeOK, Queue
    <3>0. Later(r) \subseteq DOMAIN events
      BY DEF Later
    <3> HIDE DEF events
    <3>2. Later(r) \subseteq 1 .. Len(events) /\ Len(events) \in Nat
      BY <3>0, <3>1
    <3>3. IsFiniteSet(1 .. Len(events)) /\ 1 .. Len(events) \subseteq Nat
      BY <3>2, FS_Interval
    <3> QED
      BY <3>2, <3>3, FS_Subset
  <2>2. Min(Later(r)) \in Later(r) /\ \A j \in Later(r) : Min(Later(r)) <= j
    BY <1>3, <2>1, Extremes
  <2>3. Min(Later(r)) \in DOMAIN queue[r.proc][r.thread].events
    BY <2>2 DEF Later
  <2> QED
    BY <1>3, <2>2, <2>3 DEF Pull, Draws
<1>4. CASE Later(r) = {}
  BY <1>2, <1>4 DEF Pull, Pauses
<1> QED
  BY <1>3, <1>4

\* What a loop that asks for its next event leaves: its queue in type, the other
\* loops as they were, and itself a loop of the same thread or none.
LEMMA PullTyped ==
    ASSUME TypeOK, NEW d \in Delegation, NEW r \in Loop,
           NEW act \in [Process -> Delegation \cup {NoDelegation}], Pull(d, r, act),
           \A q \in Process : act[q] # NoDelegation =>
              IF act[q] = d THEN q = r.proc
              ELSE del[act[q]] # NoLoop /\ del[act[q]].proc = q
    PROVE  /\ queue' \in [Process -> [Thread -> Queue]]
           /\ del' \in [Delegation -> Loop \cup {NoLoop}]
           /\ active' \in [Process -> Delegation \cup {NoDelegation}]
           /\ \A e \in Delegation \ {d} : del'[e] = del[e]
           /\ del'[d] # NoLoop => del'[d].proc = r.proc /\ del'[d].thread = r.thread
           /\ \A q \in Process : active'[q] # NoDelegation =>
                del'[active'[q]] # NoLoop /\ del'[active'[q]].proc = q
<1>1. r.proc \in Process /\ r.thread \in Thread /\ r # NoLoop
  BY DEF Loop, NoLoop
<1>2. \A e \in Delegation \ {d} : del'[e] = del[e]
  BY DEF Pull, TypeOK
<1>3. CASE \E i \in DOMAIN queue[r.proc][r.thread].events : Draws(d, r, i) /\ active' = act
  <2>1. PICK i \in DOMAIN queue[r.proc][r.thread].events : Draws(d, r, i) /\ active' = act
    BY <1>3
  <2> DEFINE events == queue[r.proc][r.thread].events
  <2>2. events \in Seq(Event)
    BY <1>1 DEF TypeOK, Queue
  <2>3. events[i] \in Event
    BY <2>1, <2>2
  <2>4. RemoveAt(events, i) \in Seq(Event)
    BY <2>1, <2>2, RemovedAt
  <2>5. Hold(r, events[i]) \in Loop /\ Hold(r, events[i]).proc = r.proc
        /\ Hold(r, events[i]).thread = r.thread /\ Hold(r, events[i]) # NoLoop
    BY <2>3, HoldTyped DEF NoLoop
  <2>6. queue' \in [Process -> [Thread -> Queue]]
    <3>1. queue' = [queue EXCEPT ![r.proc][r.thread].events = RemoveAt(events, i)]
      BY <2>1 DEF Draws
    <3> QED
      BY <1>1, <2>4, <3>1, QueueWith
  <2>7. del'[d] = Hold(r, events[i]) /\ del' \in [Delegation -> Loop \cup {NoLoop}]
    BY <2>1, <2>5 DEF Draws, TypeOK
  <2> HIDE DEF events
  <2> QED
    BY <1>2, <2>1, <2>5, <2>6, <2>7
<1>4. CASE Pauses(d, r) /\ active' = Forget(act, d) /\ del'[d] = NoLoop
  BY <1>2, <1>4 DEF Pauses, Forget, TypeOK
<1>5. CASE Pauses(d, r) /\ active' = act /\ del'[d] = [r EXCEPT !.pc = "wait"]
  <2>1. [r EXCEPT !.pc = "wait"] \in Loop /\ [r EXCEPT !.pc = "wait"].proc = r.proc
        /\ [r EXCEPT !.pc = "wait"].thread = r.thread /\ [r EXCEPT !.pc = "wait"] # NoLoop
    BY DEF Loop, NoLoop
  <2>2. del' = [del EXCEPT ![d] = [r EXCEPT !.pc = "wait"]] /\ queue' = queue
    BY <1>5, <2>1 DEF Pauses, TypeOK
  <2>3. del' \in [Delegation -> Loop \cup {NoLoop}] /\ queue' \in [Process -> [Thread -> Queue]]
    BY <2>1, <2>2 DEF TypeOK
  <2> QED
    BY <1>2, <1>5, <2>1, <2>3
<1> QED
  BY <1>3, <1>4, <1>5, PullCases
\* A queue that was reopened, which goes on after "after".
LEMMA QueueReopened ==
    ASSUME TypeOK, NEW p \in Process, NEW t \in Thread, NEW after \in Nat,
           NEW new, new = Reopened(p, t, after)
    PROVE  /\ new \in [Process -> [Thread -> Queue]]
           /\ new[p][t].events = queue[p][t].events
           /\ new[p][t].seq >= queue[p][t].seq /\ new[p][t].seq >= after
           /\ \A q \in Process, u \in Thread :
                q # p \/ u # t => new[q][u] = queue[q][u]
<1> DEFINE n == Max({queue[p][t].seq, after})
           x == [queue[p][t] EXCEPT !.closed = FALSE, !.seq = n]
<1>1. queue[p][t] \in Queue /\ queue[p] \in [Thread -> Queue] /\ queue[p][t].seq \in Nat
  BY DEF TypeOK, Queue
<1>2. n \in Nat /\ n >= queue[p][t].seq /\ n >= after
  <2>1. IsFiniteSet({queue[p][t].seq} \cup {after})
    <3>1. IsFiniteSet({queue[p][t].seq})
      BY FS_Singleton
    <3> QED
      BY <3>1, FS_AddElement
  <2>2. {queue[p][t].seq, after} = {queue[p][t].seq} \cup {after}
    OBVIOUS
  <2>3. \A y \in {queue[p][t].seq, after} : n \in {queue[p][t].seq, after} /\ n >= y
    <3>1. {queue[p][t].seq, after} \subseteq Nat /\ {queue[p][t].seq, after} # {}
      BY <1>1
    <3> QED
      BY <2>1, <2>2, <3>1, Extremes
  <2> QED
    BY <1>1, <2>3
<1>3. new = [queue EXCEPT ![p] = [queue[p] EXCEPT ![t] = x]]
  <2> HIDE DEF n
  <2>1. new = [queue EXCEPT ![p][t].closed = FALSE, ![p][t].seq = n]
    <3>1. [queue EXCEPT ![p][t].closed = FALSE][p][t].seq = queue[p][t].seq
      BY <1>1 DEF TypeOK
    <3> QED
      BY <3>1 DEF Reopened, n
  <2>2. [queue EXCEPT ![p][t].closed = FALSE] =
            [queue EXCEPT ![p] = [queue[p] EXCEPT ![t] = [queue[p][t] EXCEPT !.closed = FALSE]]]
    OBVIOUS
  <2> QED
    BY <1>1, <2>1, <2>2 DEF TypeOK
<1> HIDE DEF n
<1>4. x \in Queue /\ x.events = queue[p][t].events /\ x.seq = n
  BY <1>1, <1>2 DEF Queue
<1>5. new[p][t] = x
  BY <1>1, <1>3 DEF TypeOK
<1> HIDE DEF x
<1> QED
  BY <1>1, <1>2, <1>3, <1>4, <1>5 DEF TypeOK

NewEvent(Q, p, t, kind) == [thread |-> t, seq |-> Q[p][t].seq + 1, kind |-> kind]

\* The queue of a thread counts another event.
Counts(Q, R, p, t) ==
    /\ R[p][t].seq = Q[p][t].seq + 1 /\ R[p][t].closed = Q[p][t].closed
    /\ \A q \in Process, u \in Thread : q # p \/ u # t => R[q][u] = Q[q][u]

\* No loop waits for the thread, and the event is queued.
Enqueues(Q, R, D, E, p, t, e) ==
    /\ \A d \in Delegation : ~(D[d].pc = "wait" /\ D[d].proc = p /\ D[d].thread = t)
    /\ R[p][t].events = Append(Q[p][t].events, e) /\ E = D

\* A waiting loop is handed the event.
Hands(Q, R, D, E, p, t, e) ==
    /\ R[p][t].events = Q[p][t].events
    /\ \E w \in Delegation : /\ D[w].pc = "wait" /\ D[w].proc = p /\ D[w].thread = t
                             /\ E = [D EXCEPT ![w] = Hold(D[w], e)]

\* A loop that waits is handed the event, or else it is queued; then the loops of
\* "ds" are aborted.
PublishAmounts(qs, p, t, kind, ds) ==
    /\ queue' \in [Process -> [Thread -> Queue]] /\ Counts(qs, queue', p, t)
    /\ \E E \in [Delegation -> Loop \cup {NoLoop}] :
         /\ \/ Enqueues(qs, queue', del, E, p, t, NewEvent(qs, p, t, kind))
            \/ Hands(qs, queue', del, E, p, t, NewEvent(qs, p, t, kind))
         /\ del' = [d \in Delegation |-> IF d \in ds THEN Abort(E[d]) ELSE E[d]]

\* That is what publishing does.
LEMMA PublishCases ==
    ASSUME TypeOK, NEW qs \in [Process -> [Thread -> Queue]],
           NEW p \in Process, NEW t \in Thread, NEW kind \in Kind,
           NEW ds \in SUBSET Delegation, Publish(qs, p, t, kind, ds)
    PROVE  PublishAmounts(qs, p, t, kind, ds)
<1> DEFINE e == NewEvent(qs, p, t, kind)
           numbered == [qs EXCEPT ![p][t].seq = e.seq]
<1>1. qs[p][t] \in Queue /\ e \in Event /\ e.seq = qs[p][t].seq + 1 /\ e.seq \in Nat
  <2>1. qs[p][t] \in Queue
    OBVIOUS
  <2>2. qs[p][t].seq \in Nat
    BY <2>1 DEF Queue
  <2> QED
    BY <2>1, <2>2 DEF Event, NewEvent
<1>2. /\ numbered \in [Process -> [Thread -> Queue]]
      /\ numbered[p][t].events = qs[p][t].events /\ numbered[p][t].seq = e.seq
      /\ numbered[p][t].closed = qs[p][t].closed
      /\ \A q \in Process, u \in Thread :
           q # p \/ u # t => numbered[q][u] = qs[q][u]
  <2>1. [qs[p][t] EXCEPT !.seq = e.seq] \in Queue /\ qs[p] \in [Thread -> Queue]
    BY <1>1 DEF Queue
  <2>2. numbered = [qs EXCEPT ![p] = [qs[p] EXCEPT ![t] = [qs[p][t] EXCEPT !.seq = e.seq]]]
    OBVIOUS
  <2>3. numbered[p][t] = [qs[p][t] EXCEPT !.seq = e.seq]
    BY <2>1, <2>2
  <2> HIDE DEF e
  <2> QED
    BY <1>1, <2>1, <2>2, <2>3 DEF Queue
<1>3. \/ /\ \A d \in Delegation : ~(del[d].pc = "wait" /\ del[d].proc = p /\ del[d].thread = t)
         /\ queue' = [numbered EXCEPT ![p][t].events = Append(@, e)]
         /\ del' = [d \in Delegation |-> IF d \in ds THEN Abort(del[d]) ELSE del[d]]
      \/ \E w \in Delegation :
            /\ del[w].pc = "wait" /\ del[w].proc = p /\ del[w].thread = t
            /\ queue' = numbered
            /\ del' = [d \in Delegation |->
                 LET r == IF d = w THEN Hold(del[d], e) ELSE del[d]
                 IN  IF d \in ds THEN Abort(r) ELSE r]
  BY DEF Publish, NewEvent
<1>4. \A d \in Delegation : del[d] \in Loop \cup {NoLoop}
  BY DEF TypeOK
<1> HIDE DEF e, numbered
<1>5. CASE /\ \A d \in Delegation : ~(del[d].pc = "wait" /\ del[d].proc = p /\ del[d].thread = t)
           /\ queue' = [numbered EXCEPT ![p][t].events = Append(@, e)]
           /\ del' = [d \in Delegation |-> IF d \in ds THEN Abort(del[d]) ELSE del[d]]
  <2>1. Append(qs[p][t].events, e) \in Seq(Event)
    BY <1>1 DEF Queue
  <2>2. queue' = [numbered EXCEPT ![p] = [numbered[p] EXCEPT ![t] =
                    [numbered[p][t] EXCEPT !.events = Append(qs[p][t].events, e)]]]
    BY <1>2, <1>5
  <2>3. numbered[p][t] \in Queue /\ numbered[p] \in [Thread -> Queue]
    BY <1>2
  <2> DEFINE x == [numbered[p][t] EXCEPT !.events = Append(qs[p][t].events, e)]
  <2>4. x \in Queue /\ x.events = Append(qs[p][t].events, e)
        /\ x.seq = e.seq /\ x.closed = qs[p][t].closed
    BY <1>2, <2>1, <2>3 DEF Queue
  <2> HIDE DEF x
  <2>5. queue'[p][t] = x
    BY <1>2, <2>2, <2>3 DEF x
  <2>6. /\ queue' \in [Process -> [Thread -> Queue]]
        /\ \A q \in Process, u \in Thread : q # p \/ u # t => queue'[q][u] = qs[q][u]
    BY <1>2, <2>2, <2>3, <2>4 DEF x
  <2>7. Counts(qs, queue', p, t)
    BY <1>1, <2>4, <2>5, <2>6 DEF Counts
  <2>8. Enqueues(qs, queue', del, del, p, t, e)
    BY <1>5, <2>4, <2>5 DEF Enqueues
  <2>9. del \in [Delegation -> Loop \cup {NoLoop}]
    BY DEF TypeOK
  <2> QED
    BY <1>5, <2>6, <2>7, <2>8, <2>9 DEF e, PublishAmounts
<1>6. ASSUME NEW w \in Delegation, del[w].pc = "wait", del[w].proc = p, del[w].thread = t,
             queue' = numbered,
             del' = [d \in Delegation |->
                LET r == IF d = w THEN Hold(del[d], e) ELSE del[d]
                IN  IF d \in ds THEN Abort(r) ELSE r]
      PROVE  /\ queue' \in [Process -> [Thread -> Queue]] /\ Counts(qs, queue', p, t)
             /\ \E E \in [Delegation -> Loop \cup {NoLoop}] :
                  /\ Hands(qs, queue', del, E, p, t, e)
                  /\ del' = [d \in Delegation |-> IF d \in ds THEN Abort(E[d]) ELSE E[d]]
  <2> DEFINE E == [del EXCEPT ![w] = Hold(del[w], e)]
  <2>1. del[w] \in Loop
    BY <1>6, <1>4 DEF NoLoop
  <2>2. Hold(del[w], e) \in Loop
    BY <1>1, <2>1, HoldTyped
  <2>3. E \in [Delegation -> Loop \cup {NoLoop}]
    BY <2>2 DEF TypeOK
  <2>4. \A d \in Delegation : E[d] = IF d = w THEN Hold(del[d], e) ELSE del[d]
    BY DEF TypeOK
  <2>5. Hands(qs, queue', del, E, p, t, e)
    BY <1>2, <1>6 DEF Hands
  <2>6. Counts(qs, queue', p, t)
    BY <1>1, <1>2, <1>6 DEF Counts
  <2> HIDE DEF E
  <2> QED
    BY <1>2, <1>6, <2>3, <2>4, <2>5, <2>6
<1> QED
  BY <1>3, <1>5, <1>6 DEF e, PublishAmounts

-----------------------------------------------------------------------------
(* What the parts of a step do to the invariant.                           *)

Logs == [Thread -> SUBSET Nat]
Queues == [Process -> [Thread -> Queue]]
Loops == [Delegation -> Loop \cup {NoLoop}]

\* The parts of a queue.
LEMMA QueueParts ==
    ASSUME NEW Q \in Queues, NEW p \in Process, NEW t \in Thread
    PROVE  /\ Q[p][t].seq \in Nat /\ Q[p][t].closed \in BOOLEAN
           /\ Q[p][t].events \in Seq(Event)
           /\ \A i \in DOMAIN Q[p][t].events :
                i \in Nat /\ i \in 1 .. Len(Q[p][t].events)
                /\ Q[p][t].events[i] \in Event /\ Q[p][t].events[i].seq \in Nat
<1>1. Q[p][t] \in Queue
  BY DEF Queues
<1>2. /\ Q[p][t].seq \in Nat /\ Q[p][t].closed \in BOOLEAN
      /\ Q[p][t].events \in Seq(Event)
  BY <1>1 DEF Queue
<1>3. ASSUME NEW i \in DOMAIN Q[p][t].events
      PROVE  /\ i \in Nat /\ i \in 1 .. Len(Q[p][t].events)
             /\ Q[p][t].events[i] \in Event
  BY <1>2
<1>4. \A e \in Event : e.seq \in Nat
  BY DEF Event
<1> QED
  BY <1>2, <1>3, <1>4

\* The parts of a loop.
LEMMA LoopParts ==
    ASSUME NEW D \in Loops, NEW d \in Delegation, D[d] # NoLoop
    PROVE  /\ D[d] \in Loop /\ D[d].proc \in Process /\ D[d].thread \in Thread
           /\ D[d].after \in Nat /\ D[d].event.seq \in Nat /\ D[d].pc # "free"
<1>1. D[d] \in Loop
  BY DEF Loops
<1> QED
  BY <1>1 DEF Loop, Event

\* A loop that went on with nothing new: it is as it was but for "aborted" and
\* its place in the program, and has no event in hand and does not wait unless it
\* did before; or it ended.
Calmer(x, r) ==
    \/ x = NoLoop
    \/ /\ r # NoLoop /\ x.thread = r.thread /\ x.proc = r.proc
       /\ x.after = r.after /\ x.event = r.event
       /\ x.pc = "append" => r.pc = "append"
       /\ x.pc = "wait" => r.pc = "wait"
       /\ r.pc = "new" => x.pc = "new"

\* Queues that are as they were, or were closed.
Shut(Q, R) ==
    \A p \in Process, t \in Thread :
        /\ R[p][t].events = Q[p][t].events /\ R[p][t].seq = Q[p][t].seq
        /\ Q[p][t].closed => R[p][t].closed

\* Calls that ended or went on, but for a sweep that reads its cursor.
Fewer(T, U, C, B, S, Z) ==
    \A p \in Process, t \in Thread :
        /\ t \in U[p] => t \in T[p]
        /\ Starts(B[p], t) => Starts(C[p], t)
        /\ Reads(Z[p], t) => Reads(S[p], t) /\ Z[p].after = S[p].after

\* Such steps keep the invariant.
LEMMA RestsKeep ==
    ASSUME NEW L, NEW Q, NEW R, NEW D, NEW E, NEW T, NEW U, NEW C, NEW B, NEW S, NEW Z,
           NEW one, SoundIn(L, Q, D, T, C, S, one),
           Shut(Q, R), \A d \in Delegation : Calmer(E[d], D[d]),
           \A d \in Delegation : E[d] # NoLoop => E[d].thread \in Thread /\ E[d].proc \in Process,
           Fewer(T, U, C, B, S, Z)
    PROVE  SoundIn(L, R, E, U, B, Z, one)
<1>1. \A d \in Delegation, t \in Thread : Holds(E[d], t) =>
        /\ Holds(D[d], t) /\ E[d].event = D[d].event /\ E[d].after = D[d].after
  BY DEF Calmer, Holds, NoLoop
<1>2. HeldIn(L, R, E)
  BY <1>1 DEF SoundIn, HeldIn, Shut
<1>3. QueueIn(L, R, E)
  <2> SUFFICES ASSUME NEW p \in Process, NEW t \in Thread,
                      NEW i \in DOMAIN R[p][t].events
               PROVE  /\ R[p][t].events[i].seq \notin L[t]
                      /\ 0 < R[p][t].events[i].seq /\ R[p][t].events[i].seq <= R[p][t].seq
                      /\ \A d \in Delegation : Holds(E[d], t) => E[d].event.seq # R[p][t].events[i].seq
                      /\ \A j \in DOMAIN R[p][t].events : i < j =>
                            R[p][t].events[i].seq < R[p][t].events[j].seq
    BY DEF QueueIn
  <2> QED
    BY <1>1 DEF SoundIn, QueueIn, Shut
<1>4. WaitIn(R, E)
  <2> SUFFICES ASSUME NEW d \in Delegation, E[d].pc = "wait",
                      NEW i \in DOMAIN R[E[d].proc][E[d].thread].events
               PROVE  R[E[d].proc][E[d].thread].events[i].seq <= E[d].after
    BY DEF WaitIn
  <2>1. E[d] # NoLoop
    BY DEF NoLoop
  <2>2. D[d].pc = "wait" /\ E[d].thread = D[d].thread /\ E[d].proc = D[d].proc /\ E[d].after = D[d].after
    BY <2>1 DEF Calmer
  <2> QED
    BY <2>1, <2>2 DEF SoundIn, WaitIn, Shut
<1>5. CountIn(L, R, E, U, B, Z)
  <2> SUFFICES ASSUME NEW p \in Process, NEW t \in Thread, ~Counted(L, R, p, t)
               PROVE  Forgotten(L, R, E, U, B, Z, p, t)
    BY DEF CountIn
  <2>1. Forgotten(L, Q, D, T, C, S, p, t)
    BY DEF SoundIn, CountIn, Counted, Shut
  <2>2. \A d \in Delegation : E[d] # NoLoop /\ E[d].thread = t => E[d].pc = "new"
    BY <2>1 DEF Forgotten, Calmer
  <2> QED
    BY <2>1, <2>2 DEF Forgotten, Shut, Fewer
<1>6. ASSUME CursorIn(L, Q, D, S)
      PROVE  CursorIn(L, R, E, Z)
  <2>1. \A a : \A p \in Process, t \in Thread : Clear(L, Q, p, t, a) => Clear(L, R, p, t, a)
    BY DEF Clear, Shut
  <2>2. \A d \in Delegation : E[d] # NoLoop =>
            D[d] # NoLoop /\ E[d].thread = D[d].thread /\ E[d].after = D[d].after
    BY DEF Calmer
  <2> QED
    BY <1>6, <2>1, <2>2 DEF CursorIn, Fewer
<1> QED
  BY <1>2, <1>3, <1>4, <1>5, <1>6 DEF SoundIn

\* All delegations but "d" are as they were; "d" has the thread it had.
Elsewhere(D, E, d) == \A e \in Delegation : e # d => E[e] = D[e]
SameThread(D, E, d) ==
    D[d] # NoLoop /\ E[d] # NoLoop /\ E[d].proc = D[d].proc /\ E[d].thread = D[d].thread

Recorded(L, M, D, E, d) ==
    /\ D[d].pc = "append" /\ E[d].pc = "settle" /\ E[d].after = D[d].after
    /\ Elsewhere(D, E, d) /\ SameThread(D, E, d)
    /\ M[D[d].thread] = L[D[d].thread] \cup {D[d].event.seq}
    /\ \A t \in Thread : t # D[d].thread => M[t] = L[t]

\* A loop "d" persists the event in its hand.
LEMMA RecordsKeep ==
    ASSUME NEW L \in Logs, NEW Q \in Queues, NEW D \in Loops, NEW T, NEW C, NEW S, NEW one,
           SoundIn(L, Q, D, T, C, S, one),
           NEW d \in Delegation, NEW M \in Logs, NEW E \in Loops, Recorded(L, M, D, E, d)
    PROVE  SoundIn(M, Q, E, T, C, S, one)
<1> DEFINE u == D[d].thread
           n == D[d].event.seq
<1>1. /\ D[d] \in Loop /\ u \in Thread /\ D[d].proc \in Process /\ n \in Nat
      /\ D[d].after \in Nat
  BY LoopParts DEF Recorded, SameThread
<1>2. /\ D[d].pc = "append" /\ E[d].pc = "settle" /\ E[d].after = D[d].after
      /\ D[d] # NoLoop /\ E[d] # NoLoop /\ E[d].thread = u /\ E[d].proc = D[d].proc
  BY DEF Recorded, SameThread
<1>3. Holds(D[d], u)
  BY <1>2 DEF Holds
<1>4. /\ n \notin L[u] /\ n = D[d].after /\ \A p \in Process : n <= Q[p][u].seq
      /\ \A e \in Delegation : Holds(D[e], u) /\ D[e].event.seq = n => d = e
  BY <1>1, <1>3 DEF SoundIn, HeldIn
<1>5. \A e \in Delegation : e # d => E[e] = D[e]
  BY DEF Recorded, Elsewhere
<1>6. M[u] = L[u] \cup {n} /\ \A t \in Thread : t # u => M[t] = L[t]
  BY DEF Recorded
<1> HIDE DEF u, n
<1>7. \A e \in Delegation, t \in Thread : Holds(E[e], t) => e # d /\ E[e] = D[e] /\ Holds(D[e], t)
  BY <1>2, <1>5 DEF Holds
<1>8. HeldIn(M, Q, E)
  <2> SUFFICES ASSUME NEW t \in Thread, NEW e \in Delegation, Holds(E[e], t)
               PROVE  /\ E[e].event.seq \notin M[t] /\ E[e].event.seq = E[e].after
                      /\ \A p \in Process : E[e].event.seq <= Q[p][t].seq
                      /\ \A f \in Delegation :
                            Holds(E[f], t) /\ E[f].event.seq = E[e].event.seq => e = f
    BY DEF HeldIn
  <2>1. e # d /\ E[e] = D[e] /\ Holds(D[e], t)
    BY <1>7
  <2>2. /\ D[e].event.seq \notin L[t] /\ D[e].event.seq = D[e].after
        /\ \A p \in Process : D[e].event.seq <= Q[p][t].seq
        /\ \A f \in Delegation : Holds(D[f], t) /\ D[f].event.seq = D[e].event.seq => e = f
    BY <2>1 DEF SoundIn, HeldIn
  <2>3. D[e].event.seq \notin M[t]
    BY <1>4, <1>6, <2>1, <2>2
  <2> QED
    BY <1>7, <2>1, <2>2, <2>3
<1>9. QueueIn(M, Q, E)
  <2> SUFFICES ASSUME NEW p \in Process, NEW t \in Thread,
                      NEW i \in DOMAIN Q[p][t].events
               PROVE  /\ Q[p][t].events[i].seq \notin M[t]
                      /\ 0 < Q[p][t].events[i].seq /\ Q[p][t].events[i].seq <= Q[p][t].seq
                      /\ \A e \in Delegation : Holds(E[e], t) => E[e].event.seq # Q[p][t].events[i].seq
                      /\ \A j \in DOMAIN Q[p][t].events : i < j =>
                            Q[p][t].events[i].seq < Q[p][t].events[j].seq
    BY DEF QueueIn
  <2>1. /\ Q[p][t].events[i].seq \notin L[t]
        /\ 0 < Q[p][t].events[i].seq /\ Q[p][t].events[i].seq <= Q[p][t].seq
        /\ \A e \in Delegation : Holds(D[e], t) => D[e].event.seq # Q[p][t].events[i].seq
        /\ \A j \in DOMAIN Q[p][t].events : i < j =>
              Q[p][t].events[i].seq < Q[p][t].events[j].seq
    BY DEF SoundIn, QueueIn
  <2>2. t = u => Q[p][t].events[i].seq # n
    BY <1>3, <2>1 DEF n
  <2>3. Q[p][t].events[i].seq \notin M[t]
    BY <1>6, <2>1, <2>2
  <2> QED
    BY <1>7, <2>1, <2>3
<1>10. WaitIn(Q, E)
  BY <1>2, <1>5 DEF SoundIn, WaitIn
<1>11. CountIn(M, Q, E, T, C, S)
  <2> SUFFICES ASSUME NEW p \in Process, NEW t \in Thread
               PROVE  Counted(M, Q, p, t) \/ Forgotten(M, Q, E, T, C, S, p, t)
    BY DEF CountIn
  <2>1. CASE t = u
    <3>1. ~Forgotten(L, Q, D, T, C, S, p, t)
      BY <1>2, <2>1 DEF Forgotten, u
    <3>2. Counted(L, Q, p, t)
      BY <3>1 DEF SoundIn, CountIn
    <3> QED
      BY <1>4, <1>6, <2>1, <3>2 DEF Counted
  <2>2. CASE t # u
    <3>1. Counted(L, Q, p, t) \/ Forgotten(L, Q, D, T, C, S, p, t)
      BY DEF SoundIn, CountIn
    <3> QED
      BY <1>2, <1>5, <1>6, <2>2, <3>1 DEF Counted, Forgotten
  <2> QED
    BY <2>1, <2>2
<1>12. ASSUME CursorIn(L, Q, D, S)
       PROVE  CursorIn(M, Q, E, S)
  <2>1. \A a : \A p \in Process, t \in Thread : Clear(L, Q, p, t, a) => Clear(M, Q, p, t, a)
    BY <1>6 DEF Clear
  <2>2. \A p \in Process : Clear(L, Q, p, u, n)
    BY <1>2, <1>4, <1>12 DEF CursorIn, u, n
  <2>3. ASSUME NEW p \in Process, NEW e \in Delegation, E[e] # NoLoop
        PROVE  Clear(M, Q, p, E[e].thread, E[e].after)
    <3>1. D[e] # NoLoop /\ E[e].thread = D[e].thread /\ E[e].after = D[e].after
      BY <1>2, <1>5, <2>3 DEF u
    <3>2. D[e].thread \in Thread
      BY <3>1, LoopParts
    <3> QED
      BY <1>12, <2>1, <3>1, <3>2 DEF CursorIn
  <2>4. \A p \in Process, t \in Thread : \A m \in M[t] : Clear(M, Q, p, t, m)
    BY <1>6, <1>12, <2>1, <2>2 DEF CursorIn
  <2> QED
    BY <1>12, <2>1, <2>3, <2>4 DEF CursorIn
<1> QED
  BY <1>8, <1>9, <1>10, <1>11, <1>12 DEF SoundIn

Drawn(Q, R, D, E, d, p, t, i) ==
    /\ D[d].pc \notin {"append", "wait"} /\ p = D[d].proc /\ t = D[d].thread
    /\ D[d].after < Q[p][t].events[i].seq
    /\ \A j \in DOMAIN Q[p][t].events : D[d].after < Q[p][t].events[j].seq => i <= j
    /\ Elsewhere(D, E, d) /\ SameThread(D, E, d)
    /\ E[d].pc = "append" /\ E[d].event = Q[p][t].events[i]
    /\ E[d].after = Q[p][t].events[i].seq
    /\ R[p][t].events = RemoveAt(Q[p][t].events, i)
    /\ R[p][t].seq = Q[p][t].seq /\ R[p][t].closed = Q[p][t].closed
    /\ \A q \in Process, u \in Thread : q # p \/ u # t => R[q][u] = Q[q][u]

\* A loop "d" that neither waits nor has an event in hand draws the first event
\* after its cursor, the i-th of its queue.
LEMMA DrawsKeep ==
    ASSUME NEW L \in Logs, NEW Q \in Queues, NEW D \in Loops, NEW T, NEW C, NEW S, NEW one,
           SoundIn(L, Q, D, T, C, S, one), OneProcess,
           NEW d \in Delegation, NEW p \in Process, NEW t \in Thread,
           NEW i \in DOMAIN Q[p][t].events, NEW E \in Loops, NEW R \in Queues,
           Drawn(Q, R, D, E, d, p, t, i)
    PROVE  SoundIn(L, R, E, T, C, S, one)
<1> DEFINE x == Q[p][t].events
           y == R[p][t].events
           n == x[i].seq
<1>1. /\ x \in Seq(Event) /\ Len(x) \in Nat /\ i \in 1 .. Len(x) /\ Q[p][t].seq \in Nat
      /\ DOMAIN x = 1 .. Len(x) /\ n \in Nat
      /\ \A j \in DOMAIN x : x[j].seq \in Nat
  BY QueueParts
<1>2. \A q \in Process : q = p
  BY DEF OneProcess
<1>6. /\ D[d].pc # "append" /\ D[d].pc # "wait" /\ p = D[d].proc /\ t = D[d].thread
      /\ D[d].after < n /\ \A j \in DOMAIN x : D[d].after < x[j].seq => i <= j
      /\ E[d].pc = "append" /\ E[d].event = x[i] /\ E[d].after = n
      /\ y = RemoveAt(x, i) /\ R[p][t].seq = Q[p][t].seq /\ R[p][t].closed = Q[p][t].closed
      /\ \A q \in Process, u \in Thread : q # p \/ u # t => R[q][u] = Q[q][u]
  BY DEF Drawn
<1>3. /\ D[d] # NoLoop /\ E[d] # NoLoop /\ E[d].thread = t /\ E[d].proc = p
      /\ E[d].event.seq = n /\ E[d].after = n
      /\ \A e \in Delegation : e # d => E[e] = D[e]
  BY DEF Drawn, SameThread, Elsewhere
<1>4. DOMAIN y = 1 .. (Len(x) - 1) /\ \A j \in DOMAIN y : y[j] = IF j < i THEN x[j] ELSE x[j + 1]
  <2> HIDE DEF x, y, n
  <2>1. y \in Seq(Event) /\ Len(y) = Len(x) - 1
        /\ \A j \in 1 .. (Len(x) - 1) : y[j] = IF j < i THEN x[j] ELSE x[j + 1]
    <3>1. x \in Seq(Event) /\ i \in DOMAIN x
      BY <1>1
    <3>2. /\ RemoveAt(x, i) \in Seq(Event) /\ Len(RemoveAt(x, i)) = Len(x) - 1
          /\ \A j \in 1 .. (Len(x) - 1) :
                RemoveAt(x, i)[j] = IF j < i THEN x[j] ELSE x[j + 1]
      BY ONLY <3>1, RemovedAt
    <3> QED
      BY <1>6, <3>2
  <2> QED
    BY <2>1
<1>5. \A j \in DOMAIN x :
        /\ x[j].seq \notin L[t] /\ 0 < x[j].seq /\ x[j].seq <= Q[p][t].seq
        /\ \A e \in Delegation : Holds(D[e], t) => D[e].event.seq # x[j].seq
        /\ \A k \in DOMAIN x : j < k => x[j].seq < x[k].seq
  BY DEF SoundIn, QueueIn
<1> HIDE DEF x, y, n
<1>7. \A j \in DOMAIN y : \E k \in DOMAIN x :
        y[j] = x[k] /\ k # i /\ (j < i => k = j) /\ (~(j < i) => k = j + 1)
  <2> SUFFICES ASSUME NEW j \in DOMAIN y
               PROVE  \E k \in DOMAIN x :
                        y[j] = x[k] /\ k # i /\ (j < i => k = j) /\ (~(j < i) => k = j + 1)
    OBVIOUS
  <2>1. CASE j < i
    BY <1>1, <1>4, <2>1
  <2>2. CASE ~(j < i)
    BY <1>1, <1>4, <2>2
  <2> QED
    BY <2>1, <2>2
<1>8. \A e \in Delegation, u \in Thread : Holds(E[e], u) =>
        \/ e = d /\ u = t
        \/ e # d /\ E[e] = D[e] /\ Holds(D[e], u)
  BY <1>3, <1>6 DEF Holds
<1>9. \A q \in Process, u \in Thread : R[q][u].seq = Q[q][u].seq
  BY <1>2, <1>6
<1>10. HeldIn(L, R, E)
  <2> SUFFICES ASSUME NEW u \in Thread, NEW e \in Delegation, Holds(E[e], u)
               PROVE  /\ E[e].event.seq \notin L[u] /\ E[e].event.seq = E[e].after
                      /\ \A q \in Process : E[e].event.seq <= R[q][u].seq
                      /\ \A f \in Delegation :
                            Holds(E[f], u) /\ E[f].event.seq = E[e].event.seq => e = f
    BY DEF HeldIn
  <2>1. CASE e = d
    <3>1. u = t
      BY <1>3, <2>1 DEF Holds
    <3>2. \A f \in Delegation : Holds(E[f], t) /\ E[f].event.seq = n => f = d
      BY <1>1, <1>5, <1>8 DEF n
    <3> QED
      BY <1>1, <1>2, <1>3, <1>5, <1>9, <2>1, <3>1, <3>2 DEF n
  <2>2. CASE e # d
    <3>1. E[e] = D[e] /\ Holds(D[e], u)
      BY <1>8, <2>2
    <3>2. /\ D[e].event.seq \notin L[u] /\ D[e].event.seq = D[e].after
          /\ \A q \in Process : D[e].event.seq <= Q[q][u].seq
          /\ \A f \in Delegation : Holds(D[f], u) /\ D[f].event.seq = D[e].event.seq => e = f
      BY <3>1 DEF SoundIn, HeldIn
    <3>3. u = t => D[e].event.seq # n
      BY <1>1, <1>5, <3>1 DEF n
    <3> QED
      BY <1>3, <1>8, <1>9, <2>2, <3>1, <3>2, <3>3
  <2> QED
    BY <2>1, <2>2
<1>11. QueueIn(L, R, E)
  <2> SUFFICES ASSUME NEW q \in Process, NEW u \in Thread, NEW j \in DOMAIN R[q][u].events
               PROVE  /\ R[q][u].events[j].seq \notin L[u]
                      /\ 0 < R[q][u].events[j].seq /\ R[q][u].events[j].seq <= R[q][u].seq
                      /\ \A e \in Delegation : Holds(E[e], u) => E[e].event.seq # R[q][u].events[j].seq
                      /\ \A k \in DOMAIN R[q][u].events : j < k =>
                            R[q][u].events[j].seq < R[q][u].events[k].seq
    BY DEF QueueIn
  <2>1. CASE u = t
    <3>0. R[q][u].events = y /\ j \in DOMAIN y
      BY <1>2, <1>6, <2>1 DEF y
    <3>1. PICK a \in DOMAIN x :
            y[j] = x[a] /\ a # i /\ (j < i => a = j) /\ (~(j < i) => a = j + 1)
      BY <1>7, <3>0
    <3>2. y[j].seq # n
      <4>1. a < i \/ i < a
        BY <1>1, <3>1
      <4> QED
        BY <1>1, <1>5, <3>1, <4>1 DEF n
    <3>3. \A e \in Delegation : Holds(E[e], t) => E[e].event.seq # y[j].seq
      BY <1>3, <1>5, <1>8, <3>1, <3>2
    <3>4. ASSUME NEW k \in DOMAIN y, j < k
          PROVE  y[j].seq < y[k].seq
      <4>1. PICK b \in DOMAIN x :
              y[k] = x[b] /\ b # i /\ (k < i => b = k) /\ (~(k < i) => b = k + 1)
        BY <1>7
      <4>2. a < b
        BY <1>1, <1>4, <3>0, <3>1, <3>4, <4>1
      <4> QED
        BY <1>5, <3>1, <4>1, <4>2
    <3> QED
      BY <1>2, <1>6, <1>5, <2>1, <3>0, <3>1, <3>3, <3>4
  <2>2. CASE u # t
    <3>1. R[q][u] = Q[q][u]
      BY <1>6, <2>2
    <3> QED
      BY <1>8, <2>2, <3>1 DEF SoundIn, QueueIn
  <2> QED
    BY <2>1, <2>2
<1>12. WaitIn(R, E)
  <2> SUFFICES ASSUME NEW e \in Delegation, E[e].pc = "wait",
                      NEW j \in DOMAIN R[E[e].proc][E[e].thread].events
               PROVE  R[E[e].proc][E[e].thread].events[j].seq <= E[e].after
    BY DEF WaitIn
  <2>0. E[e].pc = "wait"
    OBVIOUS
  <2>1. e # d /\ E[e] = D[e] /\ D[e] # NoLoop
    BY <1>3, <1>6, <2>0 DEF NoLoop
  <2>2. D[e].proc = p /\ D[e].thread \in Thread
    BY <1>2, <1>6, <2>1, LoopParts
  <2>3. CASE D[e].thread = t
    <3>1. PICK k \in DOMAIN x : y[j] = x[k]
      BY <1>7, <2>1, <2>2, <2>3 DEF y
    <3> QED
      BY <2>1, <2>2, <2>3, <3>1 DEF SoundIn, WaitIn, x, y
  <2>4. CASE D[e].thread # t
    <3>1. R[E[e].proc][E[e].thread] = Q[D[e].proc][D[e].thread]
      BY <1>6, <2>1, <2>2, <2>4
    <3> QED
      BY <2>1, <3>1 DEF SoundIn, WaitIn
  <2> QED
    BY <2>3, <2>4
<1>13. Counted(L, Q, p, t)
  <2>1. Q[p][t].events # <<>>
    BY <1>1 DEF x
  <2> QED
    BY <2>1 DEF SoundIn, CountIn, Forgotten
<1>14. CountIn(L, R, E, T, C, S)
  <2> SUFFICES ASSUME NEW q \in Process, NEW u \in Thread
               PROVE  Counted(L, R, q, u) \/ Forgotten(L, R, E, T, C, S, q, u)
    BY DEF CountIn
  <2>1. CASE u = t
    BY <1>2, <1>6, <1>13, <2>1 DEF Counted
  <2>2. CASE u # t
    <3>1. R[q][u] = Q[q][u]
      BY <1>6, <2>2
    <3>2. Counted(L, Q, q, u) \/ Forgotten(L, Q, D, T, C, S, q, u)
      BY DEF SoundIn, CountIn
    <3> QED
      BY <1>3, <2>2, <3>1, <3>2 DEF Counted, Forgotten
  <2> QED
    BY <2>1, <2>2
<1>15. ASSUME CursorIn(L, Q, D, S)
       PROVE  CursorIn(L, R, E, S)
  <2>1. ASSUME NEW q \in Process, NEW u \in Thread, NEW a, Clear(L, Q, q, u, a)
        PROVE  Clear(L, R, q, u, a)
    <3>1. CASE u = t
      <4>1. q = p
        BY <1>2
      <4>2. /\ \A k \in DOMAIN x : a < x[k].seq
            /\ a <= Q[p][t].seq \/ \E m \in L[t] : a <= m
        BY <2>1, <3>1, <4>1 DEF Clear, x
      <4>3. \A j \in DOMAIN y : a < y[j].seq
        BY <1>7, <4>2
      <4> QED
        BY <1>6, <3>1, <4>1, <4>2, <4>3 DEF Clear, y
    <3>2. CASE u # t
      BY <1>6, <2>1, <3>2 DEF Clear
    <3> QED
      BY <3>1, <3>2
  <2>2. Clear(L, Q, p, t, D[d].after)
    BY <1>3, <1>6, <1>15 DEF CursorIn
  <2>3. i = 1
    <3>1. 1 \in DOMAIN x /\ D[d].after < x[1].seq
      BY <1>1, <2>2 DEF Clear, x
    <3> QED
      BY <1>1, <1>6, <3>1
  <2>4. Clear(L, R, p, t, n)
    <3>1. ASSUME NEW j \in DOMAIN y
          PROVE  n < y[j].seq
      <4>1. PICK k \in DOMAIN x :
              y[j] = x[k] /\ k # i /\ (j < i => k = j) /\ (~(j < i) => k = j + 1)
        BY <1>7
      <4>2. i < k
        BY <1>1, <2>3, <4>1
      <4> QED
        BY <1>1, <1>5, <4>1, <4>2 DEF n
    <3>2. n <= R[p][t].seq
      BY <1>1, <1>5, <1>6 DEF n
    <3> QED
      BY <3>1, <3>2 DEF Clear, y
  <2>5. ASSUME NEW q \in Process, NEW e \in Delegation, E[e] # NoLoop
        PROVE  Clear(L, R, q, E[e].thread, E[e].after)
    <3>1. CASE e = d
      BY <1>2, <1>6, <1>3, <2>4, <3>1
    <3>2. CASE e # d
      <4>1. E[e] = D[e] /\ D[e] # NoLoop
        BY <1>3, <2>5, <3>2
      <4>2. D[e].thread \in Thread
        BY <4>1, LoopParts
      <4> QED
        BY <1>15, <2>1, <4>1, <4>2 DEF CursorIn
    <3> QED
      BY <3>1, <3>2
  <2> QED
    BY <1>15, <2>1, <2>5 DEF CursorIn
<1> QED
  BY <1>10, <1>11, <1>12, <1>14, <1>15 DEF SoundIn

Waited(Q, D, E, d, p, t) ==
    /\ D[d].pc \notin {"append", "wait"} /\ p = D[d].proc /\ t = D[d].thread
    /\ \A i \in DOMAIN Q[p][t].events : ~(D[d].after < Q[p][t].events[i].seq)
    /\ ~Q[p][t].closed
    /\ Elsewhere(D, E, d) /\ SameThread(D, E, d)
    /\ E[d].pc = "wait" /\ E[d].after = D[d].after

\* A loop "d" that neither waits nor has an event in hand finds nothing in its
\* queue, which is open, and waits.
LEMMA WaitsKeep ==
    ASSUME NEW L \in Logs, NEW Q \in Queues, NEW D \in Loops, NEW T, NEW C, NEW S, NEW one,
           SoundIn(L, Q, D, T, C, S, one), OneProcess,
           NEW d \in Delegation, NEW p \in Process, NEW t \in Thread, NEW E \in Loops,
           Waited(Q, D, E, d, p, t)
    PROVE  SoundIn(L, Q, E, T, C, S, one)
<1>1. /\ D[d].pc # "append" /\ D[d].pc # "wait" /\ p = D[d].proc /\ t = D[d].thread
      /\ \A i \in DOMAIN Q[p][t].events : ~(D[d].after < Q[p][t].events[i].seq)
      /\ ~Q[p][t].closed
      /\ D[d] # NoLoop /\ E[d] # NoLoop /\ E[d].thread = t /\ E[d].proc = p
      /\ E[d].pc = "wait" /\ E[d].after = D[d].after
      /\ \A e \in Delegation : e # d => E[e] = D[e]
  BY DEF Waited, SameThread, Elsewhere
<1>2. \A e \in Delegation, u \in Thread : Holds(E[e], u) =>
         e # d /\ E[e] = D[e] /\ Holds(D[e], u)
  BY <1>1 DEF Holds
<1>3. HeldIn(L, Q, E)
  BY <1>2 DEF SoundIn, HeldIn
<1>4. QueueIn(L, Q, E)
  BY <1>2 DEF SoundIn, QueueIn
<1>5. WaitIn(Q, E)
  <2> SUFFICES ASSUME NEW e \in Delegation, E[e].pc = "wait",
                      NEW j \in DOMAIN Q[E[e].proc][E[e].thread].events
               PROVE  Q[E[e].proc][E[e].thread].events[j].seq <= E[e].after
    BY DEF WaitIn
  <2>1. CASE e = d
    <3>1. j \in DOMAIN Q[p][t].events
      BY <1>1, <2>1
    <3>2. Q[p][t].events[j].seq \in Nat /\ D[d].after \in Nat
      BY <1>1, <3>1, QueueParts, LoopParts
    <3>3. ~(D[d].after < Q[p][t].events[j].seq)
      BY <1>1, <3>1
    <3>4. Q[p][t].events[j].seq <= D[d].after
      BY <3>2, <3>3
    <3> QED
      BY <1>1, <2>1, <3>4
  <2>2. CASE e # d
    <3>1. E[e] = D[e] /\ D[e].pc = "wait"
      BY <1>1, <2>2
    <3> QED
      BY <3>1 DEF SoundIn, WaitIn
  <2> QED
    BY <2>1, <2>2
<1>6. CountIn(L, Q, E, T, C, S)
  <2> SUFFICES ASSUME NEW q \in Process, NEW u \in Thread
               PROVE  Counted(L, Q, q, u) \/ Forgotten(L, Q, E, T, C, S, q, u)
    BY DEF CountIn
  <2>1. Counted(L, Q, q, u) \/ Forgotten(L, Q, D, T, C, S, q, u)
    BY DEF SoundIn, CountIn
  <2>2. CASE u = t
    <3>1. q = p
      BY DEF OneProcess
    <3>2. ~Forgotten(L, Q, D, T, C, S, q, u)
      BY <1>1, <2>2, <3>1 DEF Forgotten
    <3> QED
      BY <2>1, <3>2
  <2>3. CASE u # t
    BY <1>1, <2>1, <2>3 DEF Forgotten
  <2> QED
    BY <2>2, <2>3
<1>7. ASSUME CursorIn(L, Q, D, S)
      PROVE  CursorIn(L, Q, E, S)
  <2>1. ASSUME NEW e \in Delegation, E[e] # NoLoop
        PROVE  D[e] # NoLoop /\ E[e].thread = D[e].thread /\ E[e].after = D[e].after
    BY <1>1, <2>1
  <2> QED
    BY <1>7, <2>1 DEF CursorIn
<1> QED
  BY <1>3, <1>4, <1>5, <1>6, <1>7 DEF SoundIn

Added(D, E, d, t, a) ==
    /\ Elsewhere(D, E, d) /\ D[d] = NoLoop
    /\ E[d] # NoLoop /\ E[d].pc = "new" /\ E[d].thread = t /\ E[d].after = a

\* A new loop "d" of the thread "t" whose cursor is "a".
LEMMA AddsKeep ==
    ASSUME NEW L, NEW Q, NEW D, NEW E, NEW T, NEW C, NEW S, NEW one,
           SoundIn(L, Q, D, T, C, S, one),
           NEW d \in Delegation, NEW t \in Thread, NEW a, Added(D, E, d, t, a),
           one => \A p \in Process : Clear(L, Q, p, t, a)
    PROVE  SoundIn(L, Q, E, T, C, S, one)
<1>1. /\ \A e \in Delegation : e # d => E[e] = D[e]
      /\ D[d] = NoLoop /\ E[d] # NoLoop /\ E[d].pc = "new" /\ E[d].thread = t /\ E[d].after = a
  BY DEF Added, Elsewhere
<1>2. \A e \in Delegation, u \in Thread : Holds(E[e], u) => E[e] = D[e] /\ Holds(D[e], u)
  BY <1>1 DEF Holds
<1>3. HeldIn(L, Q, E)
  BY <1>2 DEF SoundIn, HeldIn
<1>4. QueueIn(L, Q, E)
  BY <1>2 DEF SoundIn, QueueIn
<1>5. WaitIn(Q, E)
  <2>1. \A e \in Delegation : E[e].pc = "wait" => E[e] = D[e]
    BY <1>1
  <2> QED
    BY <2>1 DEF SoundIn, WaitIn
<1>6. CountIn(L, Q, E, T, C, S)
  <2> SUFFICES ASSUME NEW q \in Process, NEW u \in Thread
               PROVE  Counted(L, Q, q, u) \/ Forgotten(L, Q, E, T, C, S, q, u)
    BY DEF CountIn
  <2>1. Counted(L, Q, q, u) \/ Forgotten(L, Q, D, T, C, S, q, u)
    BY DEF SoundIn, CountIn
  <2> QED
    BY <1>1, <2>1 DEF Forgotten
<1>7. ASSUME CursorIn(L, Q, D, S), one
      PROVE  CursorIn(L, Q, E, S)
  <2>1. ASSUME NEW e \in Delegation, E[e] # NoLoop, NEW p \in Process
        PROVE  Clear(L, Q, p, E[e].thread, E[e].after)
    <3>1. CASE e = d
      BY <1>1, <1>7, <3>1
    <3>2. CASE e # d
      <4>1. E[e] = D[e] /\ D[e] # NoLoop
        BY <1>1, <2>1, <3>2
      <4> QED
        BY <1>7, <4>1 DEF CursorIn
    <3> QED
      BY <3>1, <3>2
  <2> QED
    BY <1>7, <2>1 DEF CursorIn
<1> QED
  BY <1>3, <1>4, <1>5, <1>6, <1>7 DEF SoundIn

Looked(S, Z, p, t, a) ==
    /\ \A q \in Process : q # p => Z[q] = S[q]
    /\ Z[p].thread = t /\ Z[p].after = a

\* A sweep reads the thread "t" and the cursor "a".
LEMMA LooksKeep ==
    ASSUME NEW L, NEW Q, NEW D, NEW T, NEW C, NEW S, NEW Z, NEW one,
           SoundIn(L, Q, D, T, C, S, one),
           NEW p \in Process, NEW t \in Thread, NEW a, Looked(S, Z, p, t, a),
           \A n \in L[t] : n <= a, one => \A q \in Process : Clear(L, Q, q, t, a)
    PROVE  SoundIn(L, Q, D, T, C, Z, one)
<1>1. /\ \A q \in Process : q # p => Z[q] = S[q]
      /\ Z[p].thread = t /\ Z[p].after = a
  BY DEF Looked
<1>2. CountIn(L, Q, D, T, C, Z)
  <2> SUFFICES ASSUME NEW q \in Process, NEW u \in Thread
               PROVE  Counted(L, Q, q, u) \/ Forgotten(L, Q, D, T, C, Z, q, u)
    BY DEF CountIn
  <2>1. Counted(L, Q, q, u) \/ Forgotten(L, Q, D, T, C, S, q, u)
    BY DEF SoundIn, CountIn
  <2>2. Reads(Z[q], u) => (Reads(S[q], u) /\ Z[q] = S[q]) \/ (u = t /\ Z[q].after = a)
    BY <1>1 DEF Reads
  <2> QED
    BY <2>1, <2>2 DEF Forgotten
<1>3. ASSUME CursorIn(L, Q, D, S), one
      PROVE  CursorIn(L, Q, D, Z)
  <2>1. ASSUME NEW q \in Process, NEW u \in Thread, Reads(Z[q], u)
        PROVE  Clear(L, Q, q, u, Z[q].after)
    <3>1. (Reads(S[q], u) /\ Z[q] = S[q]) \/ (u = t /\ Z[q].after = a)
      BY <1>1, <2>1 DEF Reads
    <3> QED
      BY <1>3, <3>1 DEF CursorIn
  <2> QED
    BY <1>3, <2>1 DEF CursorIn
<1> QED
  BY <1>2, <1>3 DEF SoundIn

Recounted(L, Q, R, p, t) ==
    /\ R[p][t].events = Q[p][t].events /\ R[p][t].seq >= Q[p][t].seq
    /\ Counted(L, R, p, t)
    /\ \A q \in Process, u \in Thread : q # p \/ u # t => R[q][u] = Q[q][u]

\* A queue is reopened and goes on after all that is persisted of its thread.
LEMMA ReopensKeep ==
    ASSUME NEW L \in Logs, NEW Q \in Queues, NEW D \in Loops, NEW T, NEW C, NEW S, NEW one,
           SoundIn(L, Q, D, T, C, S, one),
           NEW p \in Process, NEW t \in Thread, NEW R \in Queues, Recounted(L, Q, R, p, t),
           \A q \in Process : S[q].after \in Nat
    PROVE  SoundIn(L, R, D, T, C, S, one)
<1>1. /\ R[p][t].events = Q[p][t].events /\ R[p][t].seq >= Q[p][t].seq
      /\ Counted(L, R, p, t)
      /\ \A q \in Process, u \in Thread : q # p \/ u # t => R[q][u] = Q[q][u]
  BY DEF Recounted
<1>2. \A q \in Process, u \in Thread :
        /\ R[q][u].events = Q[q][u].events /\ R[q][u].seq >= Q[q][u].seq
        /\ R[q][u].seq \in Nat /\ Q[q][u].seq \in Nat
  BY <1>1, QueueParts
<1>3. HeldIn(L, R, D)
  <2> SUFFICES ASSUME NEW u \in Thread, NEW d \in Delegation, Holds(D[d], u), NEW q \in Process
               PROVE  D[d].event.seq <= R[q][u].seq
    BY DEF SoundIn, HeldIn
  <2>1. D[d].event.seq <= Q[q][u].seq
    BY DEF SoundIn, HeldIn
  <2>2. D[d].event.seq \in Nat
    BY LoopParts DEF Holds, NoLoop
  <2> QED
    BY <1>2, <2>1, <2>2
<1>4. QueueIn(L, R, D)
  <2> SUFFICES ASSUME NEW q \in Process, NEW u \in Thread, NEW i \in DOMAIN Q[q][u].events
               PROVE  Q[q][u].events[i].seq <= R[q][u].seq
    BY <1>2 DEF SoundIn, QueueIn
  <2>1. Q[q][u].events[i].seq <= Q[q][u].seq
    BY DEF SoundIn, QueueIn
  <2>2. Q[q][u].events[i].seq \in Nat
    BY QueueParts
  <2> QED
    BY <1>2, <2>1, <2>2
<1>5. WaitIn(R, D)
  <2>1. ASSUME NEW d \in Delegation, D[d].pc = "wait"
        PROVE  R[D[d].proc][D[d].thread].events = Q[D[d].proc][D[d].thread].events
    <3>1. D[d].proc \in Process /\ D[d].thread \in Thread
      BY <2>1, LoopParts DEF NoLoop
    <3> QED
      BY <1>2, <3>1
  <2> QED
    BY <2>1 DEF SoundIn, WaitIn
<1>6. CountIn(L, R, D, T, C, S)
  <2> SUFFICES ASSUME NEW q \in Process, NEW u \in Thread
               PROVE  Counted(L, R, q, u) \/ Forgotten(L, R, D, T, C, S, q, u)
    BY DEF CountIn
  <2>1. CASE q = p /\ u = t
    BY <1>1, <2>1
  <2>2. CASE q # p \/ u # t
    <3>1. R[q][u] = Q[q][u]
      BY <1>1, <2>2
    <3> QED
      BY <3>1 DEF SoundIn, CountIn, Counted, Forgotten
  <2> QED
    BY <2>1, <2>2
<1>7. ASSUME CursorIn(L, Q, D, S)
      PROVE  CursorIn(L, R, D, S)
  <2>1. ASSUME NEW q \in Process, NEW u \in Thread, NEW a \in Nat, Clear(L, Q, q, u, a)
        PROVE  Clear(L, R, q, u, a)
    BY <1>2, <2>1 DEF Clear
  <2>2. \A u \in Thread : \A n \in L[u] : n \in Nat
    BY DEF Logs
  <2>3. \A d \in Delegation : D[d] # NoLoop => D[d].thread \in Thread /\ D[d].after \in Nat
    BY LoopParts
  <2>4. ASSUME NEW q \in Process, NEW u \in Thread, Reads(S[q], u)
        PROVE  Clear(L, R, q, u, S[q].after)
    <3>1. Clear(L, Q, q, u, S[q].after)
      BY <1>7, <2>4 DEF CursorIn
    <3>2. \A i \in DOMAIN R[q][u].events : S[q].after < R[q][u].events[i].seq
      BY <1>2, <3>1 DEF Clear
    <3> QED
      BY <1>2, <3>1, <3>2 DEF Clear
  <2> QED
    BY <1>7, <2>1, <2>2, <2>3, <2>4 DEF CursorIn
<1> QED
  BY <1>3, <1>4, <1>5, <1>6, <1>7 DEF SoundIn

\* Everything in the queue of a thread, in a loop's hand and, while the task has
\* one thread, under a cursor was counted before the next event.
LEMMA CountedAll ==
    ASSUME NEW L \in Logs, NEW Q \in Queues, NEW D \in Loops, NEW T, NEW C, NEW S, NEW one,
           SoundIn(L, Q, D, T, C, S, one), OneProcess,
           NEW p \in Process, NEW t \in Thread, Counted(L, Q, p, t)
    PROVE  /\ \A n \in L[t] : n \in Nat /\ n <= Q[p][t].seq
           /\ \A i \in DOMAIN Q[p][t].events :
                Q[p][t].events[i].seq \in Nat /\ Q[p][t].events[i].seq <= Q[p][t].seq
           /\ \A d \in Delegation : Holds(D[d], t) =>
                D[d].event.seq \in Nat /\ D[d].event.seq <= Q[p][t].seq
           /\ \A q \in Process : \A a \in Nat : Clear(L, Q, q, t, a) => a <= Q[p][t].seq
<1>1. \A n \in L[t] : n \in Nat /\ n <= Q[p][t].seq
  BY DEF Counted, Logs
<1>2. ASSUME NEW i \in DOMAIN Q[p][t].events
      PROVE  Q[p][t].events[i].seq \in Nat /\ Q[p][t].events[i].seq <= Q[p][t].seq
  BY QueueParts DEF SoundIn, QueueIn
<1>3. ASSUME NEW d \in Delegation, Holds(D[d], t)
      PROVE  D[d].event.seq \in Nat /\ D[d].event.seq <= Q[p][t].seq
  <2>1. D[d] # NoLoop
    BY <1>3 DEF Holds, NoLoop
  <2> QED
    BY <1>3, <2>1, LoopParts DEF SoundIn, HeldIn
<1>4. ASSUME NEW q \in Process, NEW a \in Nat, Clear(L, Q, q, t, a)
      PROVE  a <= Q[p][t].seq
  <2>1. q = p
    BY DEF OneProcess
  <2>2. a <= Q[p][t].seq \/ \E n \in L[t] : a <= n
    BY <1>4, <2>1 DEF Clear
  <2>3. Q[p][t].seq \in Nat
    BY QueueParts
  <2> QED
    BY <1>1, <2>2, <2>3
<1> QED
  BY <1>1, <1>2, <1>3, <1>4

\* The next event of a thread goes into its queue, as no loop waits for it.
LEMMA EnqueuesKeep ==
    ASSUME NEW L \in Logs, NEW Q \in Queues, NEW D \in Loops, NEW T, NEW C, NEW S, NEW one,
           SoundIn(L, Q, D, T, C, S, one), OneProcess,
           NEW p \in Process, NEW t \in Thread, Counted(L, Q, p, t),
           NEW R \in Queues, Counts(Q, R, p, t), NEW e \in Event, e.seq = Q[p][t].seq + 1,
           Enqueues(Q, R, D, D, p, t, e), \A q \in Process : S[q].after \in Nat
    PROVE  SoundIn(L, R, D, T, C, S, one)
<1> DEFINE x == Q[p][t].events
           y == R[p][t].events
           n == Q[p][t].seq
<1>1. /\ x \in Seq(Event) /\ Len(x) \in Nat /\ DOMAIN x = 1 .. Len(x) /\ n \in Nat
  BY QueueParts
<1>2. \A q \in Process : q = p
  BY DEF OneProcess
<1>3. /\ R[p][t].seq = n + 1 /\ R[p][t].closed = Q[p][t].closed
      /\ \A q \in Process, u \in Thread : q # p \/ u # t => R[q][u] = Q[q][u]
      /\ \A d \in Delegation : ~(D[d].pc = "wait" /\ D[d].proc = p /\ D[d].thread = t)
      /\ y = Append(x, e)
  BY DEF Counts, Enqueues
<1>4. /\ \A m \in L[t] : m \in Nat /\ m <= n
      /\ \A i \in DOMAIN x : x[i].seq \in Nat /\ x[i].seq <= n
      /\ \A d \in Delegation : Holds(D[d], t) => D[d].event.seq \in Nat /\ D[d].event.seq <= n
      /\ \A q \in Process : \A a \in Nat : Clear(L, Q, q, t, a) => a <= n
  BY CountedAll
<1>5. \A i \in DOMAIN x :
        /\ x[i].seq \notin L[t] /\ 0 < x[i].seq
        /\ \A d \in Delegation : Holds(D[d], t) => D[d].event.seq # x[i].seq
        /\ \A k \in DOMAIN x : i < k => x[i].seq < x[k].seq
  BY DEF SoundIn, QueueIn
<1>6. e.seq = n + 1
  OBVIOUS
<1> HIDE DEF x, y, n
<1>7. /\ DOMAIN y = 1 .. (Len(x) + 1) /\ y[Len(x) + 1] = e
      /\ \A i \in DOMAIN x : i \in DOMAIN y /\ y[i] = x[i]
  BY <1>1, <1>3
<1>8. \A i \in DOMAIN y : i \in DOMAIN x \/ i = Len(x) + 1
  BY <1>1, <1>7
<1>9. HeldIn(L, R, D)
  <2> SUFFICES ASSUME NEW u \in Thread, NEW d \in Delegation, Holds(D[d], u), NEW q \in Process
               PROVE  D[d].event.seq <= R[q][u].seq
    BY DEF SoundIn, HeldIn
  <2>1. CASE u = t
    <3>1. q = p
      BY <1>2
    <3> QED
      BY <1>1, <1>3, <1>4, <2>1, <3>1
  <2>2. CASE u # t
    BY <1>3, <2>2 DEF SoundIn, HeldIn
  <2> QED
    BY <2>1, <2>2
<1>10. QueueIn(L, R, D)
  <2> SUFFICES ASSUME NEW q \in Process, NEW u \in Thread, NEW j \in DOMAIN R[q][u].events
               PROVE  /\ R[q][u].events[j].seq \notin L[u]
                      /\ 0 < R[q][u].events[j].seq /\ R[q][u].events[j].seq <= R[q][u].seq
                      /\ \A d \in Delegation : Holds(D[d], u) => D[d].event.seq # R[q][u].events[j].seq
                      /\ \A k \in DOMAIN R[q][u].events : j < k =>
                            R[q][u].events[j].seq < R[q][u].events[k].seq
    BY DEF QueueIn
  <2>1. CASE u = t
    <3>1. q = p /\ R[q][u].events = y /\ j \in DOMAIN y
      BY <1>2, <2>1 DEF y
    <3>2. CASE j \in DOMAIN x
      <4>1. y[j] = x[j] /\ y[j].seq \in Nat /\ y[j].seq <= n
        BY <1>4, <1>7, <3>2
      <4>2. ASSUME NEW k \in DOMAIN y, j < k
            PROVE  y[j].seq < y[k].seq
        <5>1. CASE k \in DOMAIN x
          BY <1>5, <1>7, <3>2, <4>2, <5>1
        <5>2. CASE k = Len(x) + 1
          BY <1>1, <1>6, <1>7, <4>1, <5>2
        <5> QED
          BY <1>8, <5>1, <5>2
      <4>3. y[j].seq <= n + 1
        BY <1>1, <4>1
      <4> QED
        BY <1>3, <1>5, <2>1, <3>1, <3>2, <4>1, <4>2, <4>3
    <3>3. CASE j = Len(x) + 1
      <4>1. y[j] = e
        BY <1>7, <3>3
      <4>2. e.seq \notin L[t] /\ 0 < e.seq /\ e.seq <= n + 1
        BY <1>1, <1>4, <1>6
      <4>3. \A d \in Delegation : Holds(D[d], t) => D[d].event.seq # e.seq
        BY <1>1, <1>4, <1>6
      <4>4. \A k \in DOMAIN y : ~(j < k)
        BY <1>1, <1>7, <3>3
      <4> QED
        BY <1>3, <2>1, <3>1, <4>1, <4>2, <4>3, <4>4
    <3> QED
      BY <1>8, <3>1, <3>2, <3>3
  <2>2. CASE u # t
    <3>1. R[q][u] = Q[q][u]
      BY <1>3, <2>2
    <3> QED
      BY <3>1 DEF SoundIn, QueueIn
  <2> QED
    BY <2>1, <2>2
<1>11. WaitIn(R, D)
  <2>1. ASSUME NEW d \in Delegation, D[d].pc = "wait"
        PROVE  R[D[d].proc][D[d].thread] = Q[D[d].proc][D[d].thread]
    <3>1. D[d].proc \in Process /\ D[d].thread \in Thread
      BY <2>1, LoopParts DEF NoLoop
    <3> QED
      BY <1>2, <1>3, <2>1, <3>1
  <2> QED
    BY <2>1 DEF SoundIn, WaitIn
<1>12. CountIn(L, R, D, T, C, S)
  <2> SUFFICES ASSUME NEW q \in Process, NEW u \in Thread
               PROVE  Counted(L, R, q, u) \/ Forgotten(L, R, D, T, C, S, q, u)
    BY DEF CountIn
  <2>1. CASE u = t
    <3>1. q = p
      BY <1>2
    <3> QED
      BY <1>1, <1>3, <1>4, <2>1, <3>1 DEF Counted
  <2>2. CASE u # t
    <3>1. R[q][u] = Q[q][u]
      BY <1>3, <2>2
    <3> QED
      BY <3>1 DEF SoundIn, CountIn, Counted, Forgotten
  <2> QED
    BY <2>1, <2>2
<1>13. ASSUME CursorIn(L, Q, D, S)
       PROVE  CursorIn(L, R, D, S)
  <2>1. ASSUME NEW q \in Process, NEW u \in Thread, NEW a \in Nat, Clear(L, Q, q, u, a)
        PROVE  Clear(L, R, q, u, a)
    <3>1. CASE u = t
      <4>1. q = p
        BY <1>2
      <4>2. a <= n /\ a <= R[p][t].seq /\ a < e.seq
        <5>1. a <= n
          BY <1>4, <2>1, <3>1
        <5> QED
          BY <1>1, <1>3, <1>6, <5>1
      <4>3. \A j \in DOMAIN x : a < x[j].seq
        BY <2>1, <3>1, <4>1 DEF Clear, x
      <4>4. \A j \in DOMAIN y : a < y[j].seq
        BY <1>7, <1>8, <4>2, <4>3
      <4> QED
        BY <3>1, <4>1, <4>2, <4>4 DEF Clear, y
    <3>2. CASE u # t
      BY <1>3, <2>1, <3>2 DEF Clear
    <3> QED
      BY <3>1, <3>2
  <2>2. \A u \in Thread : \A m \in L[u] : m \in Nat
    BY DEF Logs
  <2>3. \A d \in Delegation : D[d] # NoLoop => D[d].thread \in Thread /\ D[d].after \in Nat
    BY LoopParts
  <2> QED
    BY <1>13, <2>1, <2>2, <2>3 DEF CursorIn
<1> QED
  BY <1>9, <1>10, <1>11, <1>12, <1>13 DEF SoundIn

Handed(Q, R, D, E, p, t, e, w) ==
    /\ R[p][t].events = Q[p][t].events
    /\ D[w].pc = "wait" /\ D[w].proc = p /\ D[w].thread = t
    /\ Elsewhere(D, E, w) /\ SameThread(D, E, w)
    /\ E[w].pc = "append" /\ E[w].event = e /\ E[w].after = e.seq

\* The next event of a thread is handed to the loop "w", which waits for it.
LEMMA HandsKeep ==
    ASSUME NEW L \in Logs, NEW Q \in Queues, NEW D \in Loops, NEW T, NEW C, NEW S, NEW one,
           SoundIn(L, Q, D, T, C, S, one), OneProcess,
           NEW p \in Process, NEW t \in Thread, Counted(L, Q, p, t),
           NEW R \in Queues, Counts(Q, R, p, t), NEW e, e.seq = Q[p][t].seq + 1,
           NEW w \in Delegation, NEW E \in Loops, Handed(Q, R, D, E, p, t, e, w),
           \A q \in Process : S[q].after \in Nat
    PROVE  SoundIn(L, R, E, T, C, S, one)
<1> DEFINE x == Q[p][t].events
           n == Q[p][t].seq
<1>1. n \in Nat
  BY QueueParts
<1>2. \A q \in Process : q = p
  BY DEF OneProcess
<1>3. /\ R[p][t].seq = n + 1 /\ R[p][t].closed = Q[p][t].closed /\ R[p][t].events = x
      /\ \A q \in Process, u \in Thread : q # p \/ u # t => R[q][u] = Q[q][u]
      /\ D[w].pc = "wait" /\ D[w].proc = p /\ D[w].thread = t /\ D[w] # NoLoop
      /\ E[w] # NoLoop /\ E[w].proc = p /\ E[w].thread = t
      /\ E[w].pc = "append" /\ E[w].event = e /\ E[w].after = e.seq
      /\ \A d \in Delegation : d # w => E[d] = D[d]
  BY DEF Counts, Handed, SameThread, Elsewhere
<1>4. /\ \A m \in L[t] : m \in Nat /\ m <= n
      /\ \A i \in DOMAIN x : x[i].seq \in Nat /\ x[i].seq <= n
      /\ \A d \in Delegation : Holds(D[d], t) => D[d].event.seq \in Nat /\ D[d].event.seq <= n
      /\ \A q \in Process : \A a \in Nat : Clear(L, Q, q, t, a) => a <= n
  BY CountedAll
<1>5. e.seq = n + 1
  OBVIOUS
<1> HIDE DEF x, n
<1>6. e.seq \in Nat /\ n < e.seq
  BY <1>1, <1>5
<1>7. \A d \in Delegation, u \in Thread : Holds(E[d], u) =>
        \/ d = w /\ u = t
        \/ d # w /\ E[d] = D[d] /\ Holds(D[d], u)
  BY <1>3 DEF Holds
<1>8. \A q \in Process, u \in Thread : R[q][u].events = Q[q][u].events
  BY <1>2, <1>3 DEF x
<1>9. HeldIn(L, R, E)
  <2> SUFFICES ASSUME NEW u \in Thread, NEW d \in Delegation, Holds(E[d], u)
               PROVE  /\ E[d].event.seq \notin L[u] /\ E[d].event.seq = E[d].after
                      /\ \A q \in Process : E[d].event.seq <= R[q][u].seq
                      /\ \A f \in Delegation :
                            Holds(E[f], u) /\ E[f].event.seq = E[d].event.seq => d = f
    BY DEF HeldIn
  <2>1. CASE d = w
    <3>1. u = t /\ E[d].event.seq = n + 1 /\ E[d].after = n + 1
      BY <1>3, <1>5, <1>7, <2>1
    <3>2. n + 1 \notin L[t]
      BY <1>1, <1>4
    <3>3. \A f \in Delegation : Holds(E[f], t) /\ E[f].event.seq = n + 1 => f = w
      BY <1>1, <1>4, <1>7
    <3>4. \A q \in Process : n + 1 <= R[q][t].seq
      BY <1>1, <1>2, <1>3
    <3> QED
      BY <2>1, <3>1, <3>2, <3>3, <3>4
  <2>2. CASE d # w
    <3>1. E[d] = D[d] /\ Holds(D[d], u)
      BY <1>7, <2>2
    <3>2. /\ D[d].event.seq \notin L[u] /\ D[d].event.seq = D[d].after
          /\ \A q \in Process : D[d].event.seq <= Q[q][u].seq
          /\ \A f \in Delegation : Holds(D[f], u) /\ D[f].event.seq = D[d].event.seq => d = f
      BY <3>1 DEF SoundIn, HeldIn
    <3>3. \A q \in Process : D[d].event.seq <= R[q][u].seq
      <4>1. CASE u = t
        BY <1>1, <1>2, <1>3, <1>4, <3>1, <4>1
      <4>2. CASE u # t
        BY <1>3, <3>2, <4>2
      <4> QED
        BY <4>1, <4>2
    <3>4. Holds(E[w], u) => E[w].event.seq # D[d].event.seq
      <4>1. Holds(E[w], u) => u = t /\ E[w].event.seq = n + 1
        BY <1>3, <1>5, <1>7
      <4> QED
        BY <1>1, <1>4, <3>1, <4>1
    <3> QED
      BY <1>7, <3>1, <3>2, <3>3, <3>4
  <2> QED
    BY <2>1, <2>2
<1>10. QueueIn(L, R, E)
  <2> SUFFICES ASSUME NEW q \in Process, NEW u \in Thread, NEW j \in DOMAIN Q[q][u].events
               PROVE  /\ Q[q][u].events[j].seq \notin L[u]
                      /\ 0 < Q[q][u].events[j].seq /\ Q[q][u].events[j].seq <= R[q][u].seq
                      /\ \A d \in Delegation : Holds(E[d], u) => E[d].event.seq # Q[q][u].events[j].seq
                      /\ \A k \in DOMAIN Q[q][u].events : j < k =>
                            Q[q][u].events[j].seq < Q[q][u].events[k].seq
    BY <1>8 DEF QueueIn
  <2>1. /\ Q[q][u].events[j].seq \notin L[u]
        /\ 0 < Q[q][u].events[j].seq /\ Q[q][u].events[j].seq <= Q[q][u].seq
        /\ \A d \in Delegation : Holds(D[d], u) => D[d].event.seq # Q[q][u].events[j].seq
        /\ \A k \in DOMAIN Q[q][u].events : j < k =>
              Q[q][u].events[j].seq < Q[q][u].events[k].seq
    BY DEF SoundIn, QueueIn
  <2>2. CASE u = t
    <3>1. q = p
      BY <1>2
    <3>2. Q[q][u].events[j].seq \in Nat /\ Q[q][u].events[j].seq <= n
      BY <1>4, <2>2, <3>1 DEF x
    <3>3. Q[q][u].events[j].seq <= R[q][u].seq
      BY <1>1, <1>3, <2>2, <3>1, <3>2
    <3>4. Q[q][u].events[j].seq # E[w].event.seq
      BY <1>1, <1>3, <1>5, <3>2
    <3> QED
      BY <1>7, <2>1, <3>3, <3>4
  <2>3. CASE u # t
    <3>1. R[q][u] = Q[q][u]
      BY <1>3, <2>3
    <3> QED
      BY <1>7, <2>1, <2>3, <3>1
  <2> QED
    BY <2>2, <2>3
<1>11. WaitIn(R, E)
  <2>1. ASSUME NEW d \in Delegation, E[d].pc = "wait"
        PROVE  E[d] = D[d] /\ D[d].proc \in Process /\ D[d].thread \in Thread
    <3>1. d # w
      BY <1>3, <2>1
    <3>2. E[d] = D[d]
      BY <1>3, <3>1
    <3>3. D[d] # NoLoop
      BY <2>1, <3>2 DEF NoLoop
    <3> QED
      BY <3>2, <3>3, LoopParts
  <2>2. \A d \in Delegation : E[d].pc = "wait" =>
            R[E[d].proc][E[d].thread].events = Q[D[d].proc][D[d].thread].events
    BY <1>8, <2>1
  <2> QED
    BY <2>1, <2>2 DEF SoundIn, WaitIn
<1>12. CountIn(L, R, E, T, C, S)
  <2> SUFFICES ASSUME NEW q \in Process, NEW u \in Thread
               PROVE  Counted(L, R, q, u) \/ Forgotten(L, R, E, T, C, S, q, u)
    BY DEF CountIn
  <2>1. CASE u = t
    <3>1. q = p
      BY <1>2
    <3> QED
      BY <1>1, <1>3, <1>4, <2>1, <3>1 DEF Counted
  <2>2. CASE u # t
    <3>1. R[q][u] = Q[q][u]
      BY <1>3, <2>2
    <3>2. Counted(L, Q, q, u) \/ Forgotten(L, Q, D, T, C, S, q, u)
      BY DEF SoundIn, CountIn
    <3> QED
      BY <1>3, <2>2, <3>1, <3>2 DEF Counted, Forgotten
  <2> QED
    BY <2>1, <2>2
<1>13. ASSUME CursorIn(L, Q, D, S)
       PROVE  CursorIn(L, R, E, S)
  <2>1. ASSUME NEW q \in Process, NEW u \in Thread, NEW a \in Nat, Clear(L, Q, q, u, a)
        PROVE  Clear(L, R, q, u, a)
    <3>1. CASE u = t
      <4>1. q = p
        BY <1>2
      <4>2. a <= R[p][t].seq
        <5>1. a <= n
          BY <1>4, <2>1, <3>1
        <5> QED
          BY <1>1, <1>3, <5>1
      <4> QED
        BY <1>8, <2>1, <3>1, <4>1, <4>2 DEF Clear
    <3>2. CASE u # t
      BY <1>3, <2>1, <3>2 DEF Clear
    <3> QED
      BY <3>1, <3>2
  <2>2. \A u \in Thread : \A m \in L[u] : m \in Nat
    BY DEF Logs
  <2>3. \A d \in Delegation : D[d] # NoLoop => D[d].thread \in Thread /\ D[d].after \in Nat
    BY LoopParts
  <2>4. DOMAIN x = {}
    <3>1. ASSUME NEW i \in DOMAIN x
          PROVE  FALSE
      <4>1. D[w].after < x[i].seq
        BY <1>3, <1>13 DEF CursorIn, Clear, x
      <4>2. x[i].seq <= D[w].after
        BY <1>3 DEF SoundIn, WaitIn, x
      <4>3. D[w].after \in Nat /\ x[i].seq \in Nat
        BY <1>3, <1>4, <2>3
      <4> QED
        BY <4>1, <4>2, <4>3
    <3> QED
      BY <3>1
  <2>5. Clear(L, R, p, t, e.seq)
    <3>1. e.seq <= R[p][t].seq
      BY <1>1, <1>3, <1>5
    <3> QED
      BY <1>3, <2>4, <3>1 DEF Clear
  <2>6. ASSUME NEW q \in Process, NEW d \in Delegation, E[d] # NoLoop
        PROVE  Clear(L, R, q, E[d].thread, E[d].after)
    <3>1. CASE d = w
      BY <1>2, <1>3, <2>5, <3>1
    <3>2. CASE d # w
      <4>1. E[d] = D[d] /\ D[d] # NoLoop
        BY <1>3, <2>6, <3>2
      <4> QED
        BY <1>13, <2>1, <2>3, <4>1 DEF CursorIn
    <3> QED
      BY <3>1, <3>2
  <2> QED
    BY <1>13, <2>1, <2>2, <2>6 DEF CursorIn
<1> QED
  BY <1>9, <1>10, <1>11, <1>12, <1>13 DEF SoundIn

-----------------------------------------------------------------------------
(* What asking for an event, and publishing one, do to the invariant.      *)

\* The parts of the state that the invariant is about have their types.
LEMMA StateParts ==
    ASSUME TypeOK
    PROVE  /\ log \in Logs /\ queue \in Queues /\ del \in Loops
           /\ \A p \in Process : sweep[p].after \in Nat
<1>1. \A p \in Process : sweep[p] \in Sweep
  BY DEF TypeOK
<1> QED
  BY <1>1 DEF TypeOK, Logs, Queues, Loops, Sweep

\* A loop that is aborted has calmed down.
LEMMA AbortCalms ==
    ASSUME NEW r \in Loop \cup {NoLoop}
    PROVE  Calmer(Abort(r), r)
BY AbortTyped DEF Calmer, NoLoop

\* The loop "d" asks for its next event: in D it is where it was before it asks,
\* with the thread and the cursor of "r".
LEMMA PullKeeps ==
    ASSUME TypeOK, OneProcess, NEW L \in Logs, NEW D \in Loops,
           NEW T, NEW C, NEW S, NEW one, SoundIn(L, queue, D, T, C, S, one),
           NEW d \in Delegation, NEW r \in Loop, NEW act, Pull(d, r, act),
           Elsewhere(del, D, d), D[d] # NoLoop, D[d].pc \notin {"append", "wait"},
           D[d].proc = r.proc, D[d].thread = r.thread, D[d].after = r.after,
           queue' \in Queues, del' \in Loops
    PROVE  SoundIn(L, queue', del', T, C, S, one)
<1> DEFINE p == r.proc
           t == r.thread
<1>1. p \in Process /\ t \in Thread /\ r # NoLoop /\ queue \in Queues
  BY StateParts DEF Loop, NoLoop
<1>2. /\ D[d] # NoLoop /\ D[d].pc # "append" /\ D[d].pc # "wait"
      /\ D[d].proc = p /\ D[d].thread = t /\ D[d].after = r.after
  OBVIOUS
<1>3. d \in DOMAIN del /\ \A e \in Delegation : e # d => D[e] = del[e]
  BY DEF TypeOK, Elsewhere
<1>4. Later(r) = {i \in DOMAIN queue[p][t].events : queue[p][t].events[i].seq > r.after}
  BY DEF Later
<1>5. \A e \in Delegation : e # d => del'[e] = D[e]
  <2>1. \/ \E x : del' = [del EXCEPT ![d] = x]
    BY DEF Pull
  <2> QED
    BY <1>3, <2>1 DEF TypeOK
<1>6. CASE \E i \in DOMAIN queue[p][t].events : Draws(d, r, i) /\ active' = act
  <2>1. PICK i \in DOMAIN queue[p][t].events : Draws(d, r, i)
    BY <1>6
  <2> DEFINE events == queue[p][t].events
  <2>2. events[i] \in Event /\ events[i].seq \in Nat /\ r.after \in Nat
        /\ events \in Seq(Event) /\ \A j \in DOMAIN events : events[j].seq \in Nat
    BY <1>1, QueueParts DEF Loop
  <2>3. /\ del'[d] = Hold(r, events[i])
        /\ i \in Later(r) /\ \A j \in Later(r) : i <= j
        /\ queue' = [queue EXCEPT ![p][t].events = RemoveAt(events, i)]
    BY <1>3, <2>1 DEF Draws
  <2>4. RemoveAt(events, i) \in Seq(Event)
    BY <2>2, RemovedAt
  <2>5. /\ queue'[p][t].events = RemoveAt(events, i) /\ queue'[p][t].seq = queue[p][t].seq
        /\ queue'[p][t].closed = queue[p][t].closed
        /\ \A q \in Process, u \in Thread : q # p \/ u # t => queue'[q][u] = queue[q][u]
    BY <1>1, <2>3, <2>4, QueueWith
  <2>6. /\ del'[d].pc = "append" /\ del'[d].proc = p /\ del'[d].thread = t
        /\ del'[d].event = events[i] /\ del'[d].after = events[i].seq /\ del'[d] # NoLoop
    <3>1. /\ del'[d] \in Loop /\ del'[d].pc = "append"
          /\ del'[d].proc = r.proc /\ del'[d].thread = r.thread
          /\ del'[d].event = events[i] /\ del'[d].after = events[i].seq
      <4> DEFINE e == events[i]
                 new == del'[d]
      <4>1. e \in Event /\ new = Hold(r, e)
        BY <2>2, <2>3
      <4> HIDE DEF e, new
      <4>2. /\ new \in Loop /\ new.pc = "append" /\ new.proc = r.proc
            /\ new.thread = r.thread /\ new.event = e /\ new.after = e.seq
        BY ONLY <4>1, HoldTyped, r \in Loop
      <4> QED
        BY <4>2 DEF e, new
    <3>2. r.proc = p /\ r.thread = t
      BY <1>1
    <3>3. del'[d] # NoLoop
      BY <3>1 DEF NoLoop
    <3> QED
      BY <3>1, <3>2, <3>3
  <2>7. r.after < events[i].seq /\ \A j \in DOMAIN events : r.after < events[j].seq => i <= j
    BY <1>4, <2>2, <2>3
  <2>8. Drawn(queue, queue', D, del', d, p, t, i)
    BY <1>2, <1>5, <2>5, <2>6, <2>7 DEF Drawn, Elsewhere, SameThread
  <2> QED
    BY <1>1, <2>8, DrawsKeep
<1>7. CASE Pauses(d, r) /\ del'[d] = NoLoop
  <2>1. queue' = queue
    BY <1>7 DEF Pauses
  <2>2. \A e \in Delegation : Calmer(del'[e], D[e])
    BY <1>5, <1>7 DEF Calmer
  <2>3. Shut(queue, queue') /\ Fewer(T, T, C, C, S, S)
    BY <2>1 DEF Shut, Fewer
  <2>4. \A e \in Delegation : del'[e] # NoLoop => del'[e].thread \in Thread /\ del'[e].proc \in Process
    BY LoopParts
  <2> QED
    BY <2>2, <2>3, <2>4, RestsKeep
<1>8. CASE Pauses(d, r) /\ del'[d] = [r EXCEPT !.pc = "wait"]
  <2>1. /\ del'[d].pc = "wait" /\ del'[d].proc = p /\ del'[d].thread = t
        /\ del'[d].after = r.after /\ del'[d] # NoLoop
    BY <1>8 DEF Loop, NoLoop
  <2>2. Later(r) = {} /\ queue' = queue /\ ~queue[p][t].closed
    BY <1>3, <1>8, <2>1 DEF Pauses
  <2>3. \A i \in DOMAIN queue[p][t].events : ~(r.after < queue[p][t].events[i].seq)
    <3>1. \A i \in DOMAIN queue[p][t].events : queue[p][t].events[i].seq \in Nat /\ r.after \in Nat
      BY <1>1, QueueParts DEF Loop
    <3> QED
      BY <1>4, <2>2, <3>1
  <2>4. Waited(queue, D, del', d, p, t)
    BY <1>2, <1>5, <2>1, <2>2, <2>3 DEF Waited, Elsewhere, SameThread
  <2> QED
    BY <1>1, <2>2, <2>4, WaitsKeep
<1> QED
  BY <1>6, <1>7, <1>8, PullCases

\* An event is published on the queues Q, whose count of the thread is not behind
\* what is persisted, and some delegations are aborted.
LEMMA PublishKeeps ==
    ASSUME TypeOK, OneProcess, NEW Q \in Queues,
           NEW T, NEW C, NEW S, NEW one, SoundIn(log, Q, del, T, C, S, one),
           NEW p \in Process, NEW t \in Thread, NEW kind \in Kind,
           NEW ds \in SUBSET Delegation, Counted(log, Q, p, t),
           Publish(Q, p, t, kind, ds), \A q \in Process : S[q].after \in Nat
    PROVE  SoundIn(log, queue', del', T, C, S, one)
<1> DEFINE e == NewEvent(Q, p, t, kind)
<1>1. Q \in [Process -> [Thread -> Queue]] /\ log \in Logs /\ del \in Loops
  BY StateParts DEF Queues
<1>2. /\ queue' \in Queues /\ Counts(Q, queue', p, t)
      /\ \E E \in Loops :
           /\ Enqueues(Q, queue', del, E, p, t, e) \/ Hands(Q, queue', del, E, p, t, e)
           /\ del' = [d \in Delegation |-> IF d \in ds THEN Abort(E[d]) ELSE E[d]]
  <2>1. /\ queue' \in [Process -> [Thread -> Queue]] /\ Counts(Q, queue', p, t)
        /\ \E E \in [Delegation -> Loop \cup {NoLoop}] :
             /\ Enqueues(Q, queue', del, E, p, t, e) \/ Hands(Q, queue', del, E, p, t, e)
             /\ del' = [d \in Delegation |-> IF d \in ds THEN Abort(E[d]) ELSE E[d]]
    <3>1. PublishAmounts(Q, p, t, kind, ds)
      BY <1>1, PublishCases
    <3> QED
      BY <3>1 DEF PublishAmounts
  <2> QED
    BY <2>1 DEF Queues, Loops
<1>3. PICK E \in Loops :
           /\ Enqueues(Q, queue', del, E, p, t, e) \/ Hands(Q, queue', del, E, p, t, e)
           /\ del' = [d \in Delegation |-> IF d \in ds THEN Abort(E[d]) ELSE E[d]]
  BY <1>2
<1>4. e \in Event /\ e.seq = Q[p][t].seq + 1 /\ e.seq \in Nat
  BY QueueParts DEF NewEvent, Event
<1> HIDE DEF e
<1>5. SoundIn(log, queue', E, T, C, S, one)
  <2>1. CASE Enqueues(Q, queue', del, E, p, t, e)
    <3>1. E = del
      BY <2>1 DEF Enqueues
    <3> QED
      BY <1>1, <1>2, <1>4, <2>1, <3>1, EnqueuesKeep
  <2>2. CASE Hands(Q, queue', del, E, p, t, e)
    <3>1. PICK w \in Delegation : /\ del[w].pc = "wait" /\ del[w].proc = p /\ del[w].thread = t
                                  /\ E = [del EXCEPT ![w] = Hold(del[w], e)]
      BY <2>2 DEF Hands
    <3>2. del[w] \in Loop /\ del[w] # NoLoop
      BY <1>1, <3>1, LoopParts DEF NoLoop
    <3>3. /\ E[w] = Hold(del[w], e) /\ Elsewhere(del, E, w)
      BY <3>1 DEF Elsewhere, TypeOK
    <3>4. /\ E[w].pc = "append" /\ E[w].proc = p /\ E[w].thread = t
          /\ E[w].event = e /\ E[w].after = e.seq /\ E[w] # NoLoop
      BY <1>4, <3>1, <3>2, <3>3, HoldTyped DEF NoLoop
    <3>5. Handed(Q, queue', del, E, p, t, e, w)
      BY <2>2, <3>1, <3>2, <3>3, <3>4 DEF Handed, Hands, SameThread
    <3> QED
      BY <1>1, <1>2, <1>4, <3>5, HandsKeep
  <2> QED
    BY <1>3, <2>1, <2>2
<1>6. \A d \in Delegation : Calmer(del'[d], E[d])
  <2> SUFFICES ASSUME NEW d \in Delegation
               PROVE  Calmer(del'[d], E[d])
    OBVIOUS
  <2>1. E[d] \in Loop \cup {NoLoop}
    BY DEF Loops
  <2>2. del'[d] = Abort(E[d]) \/ del'[d] = E[d]
    BY <1>3
  <2> QED
    BY <2>1, <2>2, AbortCalms DEF Calmer
<1>7. \A d \in Delegation : del'[d] # NoLoop => del'[d].thread \in Thread /\ del'[d].proc \in Process
  <2> SUFFICES ASSUME NEW d \in Delegation, del'[d] # NoLoop
               PROVE  del'[d].thread \in Thread /\ del'[d].proc \in Process
    OBVIOUS
  <2>1. E[d] # NoLoop /\ del'[d].thread = E[d].thread /\ del'[d].proc = E[d].proc
    BY <1>6 DEF Calmer
  <2> QED
    BY <2>1, LoopParts
<1>8. Shut(queue', queue') /\ Fewer(T, T, C, C, S, S)
  BY DEF Shut, Fewer
<1> QED
  BY <1>5, <1>6, <1>7, <1>8, RestsKeep

-----------------------------------------------------------------------------
(* Every state has its type, and what calls, sweeps and the map refer to is *)
(* there: for any number of processes.                                     *)

TypedInv == TypeOK /\ ReferInv /\ StartedInv

\* A step may move a loop or end it, but its process and thread stay.
Kept(d) ==
    del'[d] # NoLoop =>
        del[d] # NoLoop /\ del'[d].proc = del[d].proc /\ del'[d].thread = del[d].thread

\* A call goes on, or ends; a sweep goes on, ends or begins.
Early == {"idle", "thread", "events"}
CmdOn(p) ==
    /\ cmd'[p].pc = "events" => cmd[p].pc = "events" \/ connected \in Thread
    /\ \/ /\ cmd'[p].pc \in Early /\ cmd'[p].del = NoDelegation
          /\ cmd'[p].thread \in {NoThread, cmd[p].thread}
       \/ /\ cmd'[p].thread = cmd[p].thread /\ cmd'[p].del = cmd[p].del
          /\ cmd'[p].pc \in {"run", "connect"} =>
               cmd[p].pc \in {"run", "connect"} /\ del'[cmd[p].del].pc = "new"
          /\ cmd'[p].pc \in Early => cmd[p].pc \in Early
          /\ cmd'[p].pc = "send" => cmd[p].pc \in {"run", "connect", "send"}
SweepOn(p) ==
    \/ sweep'[p] = sweep[p] \/ sweep'[p] = NoSweep
    \/ /\ sweep'[p].pc = "events" /\ sweep'[p].thread = NoThread
       /\ sweep'[p].del = NoDelegation /\ connected \in Thread
ActiveOn(p) ==
    active'[p] # NoDelegation => active'[p] = active[p] /\ del'[active[p]] # NoLoop

LogOn ==
    \/ log' = log
    \/ /\ IsFiniteSet(UNION {log'[t] : t \in Thread})
       /\ \A t \in Thread : log'[t] # {} => t \in started

\* Then what they refer to stays there.
LEMMA OnRefers ==
    ASSUME TypedInv, TypeOK', UNCHANGED <<connected, started>>, LogOn,
           \A d \in Delegation : Kept(d),
           \A p \in Process : ActiveOn(p) /\ CmdOn(p) /\ SweepOn(p)
    PROVE  TypedInv'
<1>1. StartedInv'
  BY DEF TypedInv, StartedInv, Kept, LogOn
<1>2. ASSUME NEW p \in Process
      PROVE  ActiveRefers(p)'
  <2>1. ActiveRefers(p) /\ ActiveOn(p) /\ active[p] \in Delegation \cup {NoDelegation}
    BY DEF TypedInv, ReferInv, TypeOK
  <2> QED
    BY <2>1 DEF ActiveRefers, ActiveOn, Kept
<1>3. ASSUME NEW p \in Process
      PROVE  CmdRefers(p)'
  <2>1. CmdRefers(p) /\ CmdOn(p)
    BY DEF TypedInv, ReferInv
  <2>2. cmd[p].del # NoDelegation => Kept(cmd[p].del)
    BY DEF TypedInv, TypeOK, Cmd
  <2>3. NoDelegation \notin Delegation
    BY DEF NoDelegation, Delegation
  <2> QED
    BY <2>1, <2>2, <2>3 DEF CmdRefers, CmdOn, Early, Kept, NoLoop, Owned
<1>4. ASSUME NEW p \in Process
      PROVE  SweepRefers(p)'
  <2>1. SweepRefers(p) /\ SweepOn(p)
    BY DEF TypedInv, ReferInv
  <2>2. sweep[p].del # NoDelegation => Kept(sweep[p].del)
    BY DEF TypedInv, TypeOK, Sweep
  <2> QED
    BY <2>1, <2>2 DEF SweepRefers, SweepOn, NoSweep, Kept, Owned
<1> QED
  BY <1>1, <1>2, <1>3, <1>4 DEF TypedInv, ReferInv

\* A new delegation is no loop, and nothing refers to it.
LEMMA FreshIsUnused ==
    ASSUME NEW d \in Delegation, Fresh(d)
    PROVE  d \in Unused
<1>1. Unused \subseteq Nat /\ Unused # {} /\ IsFiniteSet(Unused)
  <2>1. Delegation = 1 .. MaxLoops /\ MaxLoops \in Nat
    BY HarnessAssumption DEF Delegation
  <2>2. IsFiniteSet(1 .. MaxLoops)
    BY <2>1, FS_Interval
  <2>3. Unused \subseteq 1 .. MaxLoops
    BY <2>1 DEF Unused
  <2> QED
    <3>1. IsFiniteSet(Unused)
      BY ONLY <2>2, <2>3, FS_Subset
    <3>2. 1 .. MaxLoops \subseteq Nat
      BY <2>1
    <3> QED
      BY <2>3, <3>1, <3>2 DEF Fresh
<1> QED
  BY <1>1, Extremes DEF Fresh

\* What publishing leaves: queues and loops in type, and all loops but those that
\* it aborts.
LEMMA PublishTyped ==
    ASSUME TypeOK, NEW Q \in Queues, NEW p \in Process, NEW t \in Thread, NEW kind \in Kind,
           NEW ds \in SUBSET Delegation, Publish(Q, p, t, kind, ds)
    PROVE  /\ queue' \in Queues /\ del' \in Loops
           /\ \A d \in Delegation :
                /\ Kept(d)
                /\ del[d].pc = "new" => del'[d].pc = "new"
                /\ d \notin ds /\ del[d] # NoLoop => del'[d] # NoLoop
<1> DEFINE e == NewEvent(Q, p, t, kind)
<1>1. Q \in [Process -> [Thread -> Queue]] /\ del \in Loops
  BY StateParts DEF Queues
<1>2. PICK E \in Loops :
           /\ queue' \in Queues
           /\ Enqueues(Q, queue', del, E, p, t, e) \/ Hands(Q, queue', del, E, p, t, e)
           /\ del' = [d \in Delegation |-> IF d \in ds THEN Abort(E[d]) ELSE E[d]]
  <2>1. /\ queue' \in [Process -> [Thread -> Queue]] /\ Counts(Q, queue', p, t)
        /\ \E E \in [Delegation -> Loop \cup {NoLoop}] :
             /\ Enqueues(Q, queue', del, E, p, t, e) \/ Hands(Q, queue', del, E, p, t, e)
             /\ del' = [d \in Delegation |-> IF d \in ds THEN Abort(E[d]) ELSE E[d]]
    <3>1. PublishAmounts(Q, p, t, kind, ds)
      BY <1>1, PublishCases
    <3> QED
      BY <3>1 DEF PublishAmounts
  <2> QED
    BY <2>1 DEF Queues, Loops
<1>3. e \in Event
  BY QueueParts DEF NewEvent, Event
<1> HIDE DEF e
<1>4. \A d \in Delegation : E[d] \in Loop \cup {NoLoop} /\ del[d] \in Loop \cup {NoLoop}
  BY <1>1 DEF Loops
<1>5. del' \in Loops
  BY <1>2, <1>4, AbortTyped DEF Loops
<1>6. ASSUME NEW d \in Delegation
      PROVE  /\ E[d] = NoLoop <=> del[d] = NoLoop
             /\ E[d] # NoLoop => E[d].proc = del[d].proc /\ E[d].thread = del[d].thread
             /\ del[d].pc = "new" => E[d].pc = "new"
  <2>1. CASE Enqueues(Q, queue', del, E, p, t, e)
    BY <2>1 DEF Enqueues
  <2>2. CASE Hands(Q, queue', del, E, p, t, e)
    <3>1. PICK w \in Delegation : /\ del[w].pc = "wait"
                                  /\ E = [del EXCEPT ![w] = Hold(del[w], e)]
      BY <2>2 DEF Hands
    <3>2. del[w] \in Loop /\ del[w] # NoLoop
      BY <1>4, <3>1 DEF NoLoop
    <3>3. /\ E[w] = Hold(del[w], e) /\ \A f \in Delegation : f # w => E[f] = del[f]
      BY <1>1, <3>1 DEF Loops
    <3>4. /\ E[w].proc = del[w].proc /\ E[w].thread = del[w].thread /\ E[w] # NoLoop
      BY <1>3, <3>2, <3>3, HoldTyped DEF NoLoop
    <3> QED
      BY <3>1, <3>2, <3>3, <3>4
  <2> QED
    BY <1>2, <2>1, <2>2
<1>7. ASSUME NEW d \in Delegation
      PROVE  /\ Kept(d)
             /\ del[d].pc = "new" => del'[d].pc = "new"
             /\ d \notin ds /\ del[d] # NoLoop => del'[d] # NoLoop
  <2>1. del'[d] = IF d \in ds THEN Abort(E[d]) ELSE E[d]
    BY <1>2
  <2>2. /\ Abort(E[d]) = NoLoop <=> E[d] = NoLoop \/ E[d].pc = "wait"
        /\ Abort(E[d]) # NoLoop => /\ Abort(E[d]).pc = E[d].pc /\ Abort(E[d]).proc = E[d].proc
                                   /\ Abort(E[d]).thread = E[d].thread
    BY <1>4, AbortTyped
  <2> QED
    BY <1>6, <2>1, <2>2 DEF Kept, NoLoop
<1> QED
  BY <1>2, <1>5, <1>7

\* The queues on which a thread is resumed.
LEMMA ReopenedTyped ==
    ASSUME TypeOK, NEW p \in Process, NEW t \in Thread, NEW after \in Nat
    PROVE  /\ Reopened(p, t, after) \in Queues
           /\ \A L : Counted(L, queue, p, t) /\ L \in Logs =>
                Recounted(L, queue, Reopened(p, t, after), p, t)
           /\ \A L : (\A n \in L[t] : n <= after) /\ L \in Logs =>
                Recounted(L, queue, Reopened(p, t, after), p, t)
<1>1. PICK R : R = Reopened(p, t, after)
  OBVIOUS
<1>2. /\ R \in [Process -> [Thread -> Queue]]
      /\ R[p][t].events = queue[p][t].events
      /\ R[p][t].seq >= queue[p][t].seq /\ R[p][t].seq >= after
      /\ \A q \in Process, u \in Thread : q # p \/ u # t => R[q][u] = queue[q][u]
  BY <1>1, QueueReopened
<1>3. R \in Queues
  BY <1>2 DEF Queues
<1>4. R[p][t].seq \in Nat /\ queue[p][t].seq \in Nat
  BY <1>3, QueueParts, StateParts
<1>5. ASSUME NEW L, L \in Logs, NEW n \in L[t], n <= queue[p][t].seq \/ n <= after
      PROVE  n <= R[p][t].seq
  <2>1. n \in Nat
    BY <1>5 DEF Logs
  <2> QED
    BY <1>2, <1>4, <1>5, <2>1
<1> QED
  BY <1>1, <1>2, <1>3, <1>5 DEF Recounted, Counted

\* The bounds are kept.
LEMMA BoundsKept ==
    ASSUME TypeOK, Command \/ Fault \/ UNCHANGED bounds
    PROVE  /\ commands' \in 0 .. MaxCommands /\ faults' \in 0 .. MaxFaults
           /\ started' = started /\ started' \in SUBSET Thread
<1>1. MaxCommands \in Nat /\ MaxFaults \in Nat
  BY HarnessAssumption
<1> QED
  BY <1>1 DEF TypeOK, Command, Fault, bounds

\* The commands.
LEMMA StartBeginTyped ==
    ASSUME TypedInv, NEW p \in Process, StartBegin(p)
    PROVE  TypedInv'
<1>1. cmd' = [cmd EXCEPT ![p].pc = "thread"] /\ cmd[p] \in Cmd /\ cmd[p].pc = "idle"
  BY DEF StartBegin, TypedInv, TypeOK
<1>2. cmd'[p] \in Cmd /\ cmd'[p].pc = "thread" /\ cmd'[p].del = cmd[p].del
      /\ cmd'[p].thread = cmd[p].thread
      /\ cmd' \in [Process -> Cmd] /\ \A q \in Process : q # p => cmd'[q] = cmd[q]
  BY <1>1 DEF Cmd, TypedInv, TypeOK
<1>3. TypeOK'
  BY <1>2, BoundsKept DEF StartBegin, rowVars, TypedInv, TypeOK
<1>4. \A d \in Delegation : Kept(d)
  BY DEF StartBegin, Kept
<1>5. \A q \in Process : ActiveOn(q) /\ SweepOn(q)
  BY DEF StartBegin, ActiveOn, SweepOn, TypedInv, ReferInv, ActiveRefers
<1>6. \A q \in Process : CmdOn(q)
  BY <1>1, <1>2 DEF StartBegin, CmdOn, Early, TypedInv, ReferInv, CmdRefers
<1> QED
  BY <1>3, <1>4, <1>5, <1>6, OnRefers DEF LogOn, StartBegin, Command, rowVars

LEMMA ResumeBeginTyped ==
    ASSUME TypedInv, NEW p \in Process, ResumeBegin(p)
    PROVE  TypedInv'
<1>1. cmd' = [cmd EXCEPT ![p].pc = "events"] /\ cmd[p] \in Cmd /\ cmd[p].pc = "idle"
  BY DEF ResumeBegin, TypedInv, TypeOK
<1>2. cmd'[p] \in Cmd /\ cmd'[p].pc = "events" /\ cmd'[p].del = cmd[p].del
      /\ cmd'[p].thread = cmd[p].thread
      /\ cmd' \in [Process -> Cmd] /\ \A q \in Process : q # p => cmd'[q] = cmd[q]
  BY <1>1 DEF Cmd, TypedInv, TypeOK
<1>3. TypeOK'
  BY <1>2, BoundsKept DEF ResumeBegin, rowVars, TypedInv, TypeOK
<1>4. \A d \in Delegation : Kept(d)
  BY DEF ResumeBegin, Kept
<1>5. \A q \in Process : ActiveOn(q) /\ SweepOn(q)
  BY DEF ResumeBegin, ActiveOn, SweepOn, TypedInv, ReferInv, ActiveRefers
<1>6. \A q \in Process : CmdOn(q)
  BY <1>1, <1>2 DEF ResumeBegin, CmdOn, Early, TypedInv, TypeOK, ReferInv, CmdRefers
<1> QED
  BY <1>3, <1>4, <1>5, <1>6, OnRefers DEF LogOn, ResumeBegin, Command, rowVars

\* A loop that begins is a loop.
LEMMA NewLoopTyped ==
    ASSUME NEW p \in Process, NEW t \in Thread, NEW after \in Nat
    PROVE  /\ NewLoop(p, t, after) \in Loop /\ NewLoop(p, t, after) # NoLoop
           /\ NewLoop(p, t, after).pc = "new" /\ NewLoop(p, t, after).proc = p
           /\ NewLoop(p, t, after).thread = t /\ NewLoop(p, t, after).after = after
BY DEF NewLoop, Loop, Event, Kind, NoLoop

\* A command that has its delegation refers to it, and so do the map and the
\* calls of others to theirs.
LEMMA BegunRefers ==
    ASSUME TypedInv, TypeOK', NEW p \in Process, NEW d \in Delegation, NEW t \in started',
           t \in Thread, d \in Unused, connected' = connected, log' = log, sweep' = sweep,
           started \subseteq started', IsFiniteSet(started'),
           \A q \in Process : q # p => active'[q] = active[q] /\ cmd'[q] = cmd[q],
           \A e \in Delegation : e # d => del'[e] = del[e],
           cmd'[p].pc \notin Early,
           active'[p] = d, del'[d] # NoLoop, del'[d].pc = "new", del'[d].proc = p,
           del'[d].thread = t, cmd'[p].thread = t, cmd'[p].del = d
    PROVE  TypedInv'
<1>1. del[d] = NoLoop /\ \A q \in Process : cmd[q].del # d /\ sweep[q].del # d
  BY DEF Unused
<1>2. StartedInv'
  BY DEF TypedInv, StartedInv
<1>3. ASSUME NEW q \in Process
      PROVE  ActiveRefers(q)'
  <2>1. ActiveRefers(q) /\ active[q] \in Delegation \cup {NoDelegation}
    BY DEF TypedInv, ReferInv, TypeOK
  <2> QED
    BY <1>1, <2>1 DEF ActiveRefers
<1>4. ASSUME NEW q \in Process
      PROVE  CmdRefers(q)'
  <2>1. CmdRefers(q) /\ cmd[q].del \in Delegation \cup {NoDelegation}
    BY DEF TypedInv, ReferInv, TypeOK, Cmd
  <2> QED
    BY <1>1, <2>1 DEF CmdRefers, Owned, Early
<1>5. ASSUME NEW q \in Process
      PROVE  SweepRefers(q)'
  <2>1. SweepRefers(q) /\ sweep[q].del \in Delegation \cup {NoDelegation}
    BY DEF TypedInv, ReferInv, TypeOK, Sweep
  <2> QED
    BY <1>1, <2>1 DEF SweepRefers, Owned
<1> QED
  BY <1>2, <1>3, <1>4, <1>5 DEF TypedInv, ReferInv

LEMMA StartThreadTyped ==
    ASSUME TypedInv, NEW p \in Process, NEW d \in Delegation, NEW t \in Thread,
           StartThread(p, d, t)
    PROVE  TypedInv'
<1>1. d \in Unused
  BY FreshIsUnused DEF StartThread
<1>2. /\ NewLoop(p, t, 0) \in Loop /\ NewLoop(p, t, 0) # NoLoop
      /\ NewLoop(p, t, 0).pc = "new" /\ NewLoop(p, t, 0).proc = p
      /\ NewLoop(p, t, 0).thread = t
  BY NewLoopTyped
<1>3. del' = [del EXCEPT ![d] = NewLoop(p, t, 0)]
  BY DEF StartThread
<1>4. del' \in [Delegation -> Loop \cup {NoLoop}] /\ del'[d] = NewLoop(p, t, 0)
      /\ \A e \in Delegation : e # d => del'[e] = del[e]
  BY <1>2, <1>3 DEF TypedInv, TypeOK
<1>5. queue' \in [Process -> [Thread -> Queue]]
  <2>1. [queue[p][t] EXCEPT !.closed = FALSE] \in Queue /\ queue[p] \in [Thread -> Queue]
    <3>1. queue[p][t] \in Queue /\ queue[p] \in [Thread -> Queue]
      BY DEF TypedInv, TypeOK
    <3> QED
      BY <3>1 DEF Queue
  <2>2. queue' = [queue EXCEPT ![p] = [queue[p] EXCEPT ![t] = [queue[p][t] EXCEPT !.closed = FALSE]]]
    BY DEF StartThread
  <2> QED
    BY <2>1, <2>2 DEF TypedInv, TypeOK
<1>6. /\ cmd' \in [Process -> Cmd] /\ cmd'[p].thread = t /\ cmd'[p].del = d
      /\ cmd'[p].pc = "run"
      /\ \A q \in Process : q # p => cmd'[q] = cmd[q]
  <2>1. [pc |-> "run", kind |-> "start", thread |-> t, del |-> d] \in Cmd
    BY DEF Cmd
  <2> QED
    BY <2>1 DEF StartThread, TypedInv, TypeOK
<1>7. /\ active' \in [Process -> Delegation \cup {NoDelegation}] /\ active'[p] = d
      /\ \A q \in Process : q # p => active'[q] = active[q]
  BY DEF StartThread, TypedInv, TypeOK
<1>8. started' = started \cup {t} /\ IsFiniteSet(started')
  BY FS_AddElement DEF StartThread, TypedInv, StartedInv
<1>9. TypeOK'
  BY <1>4, <1>5, <1>6, <1>7, <1>8 DEF StartThread, rowVars, TypedInv, TypeOK
<1>10. connected' = connected /\ log' = log /\ sweep' = sweep
  BY DEF StartThread, rowVars
<1> QED
  BY <1>1, <1>2, <1>4, <1>6, <1>7, <1>8, <1>9, <1>10, BegunRefers DEF Early

LEMMA ResumeThreadTyped ==
    ASSUME TypedInv, NEW p \in Process, NEW d \in Delegation, ResumeThread(p, d)
    PROVE  TypedInv'
<1> DEFINE t == connected
           after == LastExternalSequence
<1>1. d \in Unused /\ t \in Thread /\ t \in started /\ after \in Nat
  <2>1. d \in Unused
    BY FreshIsUnused DEF ResumeThread
  <2>2. connected \in Thread /\ connected \in started
    BY HarnessAssumption DEF ResumeThread, TypedInv, ReferInv, CmdRefers, StartedInv
  <2> QED
    BY <2>1, <2>2, LastIsLargest DEF TypedInv
<1>2. del' = [del EXCEPT ![d] = NewLoop(p, t, after)]
  BY DEF ResumeThread
<1>3. cmd' = [cmd EXCEPT ![p] = [pc |-> "run", kind |-> "resume", thread |-> t, del |-> d]]
  BY DEF ResumeThread
<1> HIDE DEF t, after
<1>4. /\ NewLoop(p, t, after) \in Loop /\ NewLoop(p, t, after) # NoLoop
      /\ NewLoop(p, t, after).pc = "new" /\ NewLoop(p, t, after).proc = p
      /\ NewLoop(p, t, after).thread = t
  BY <1>1, NewLoopTyped
<1>5. del' \in [Delegation -> Loop \cup {NoLoop}] /\ del'[d] = NewLoop(p, t, after)
      /\ \A e \in Delegation : e # d => del'[e] = del[e]
  BY <1>2, <1>4 DEF TypedInv, TypeOK
<1>6. /\ cmd' \in [Process -> Cmd] /\ cmd'[p].thread = t /\ cmd'[p].del = d
      /\ cmd'[p].pc = "run"
      /\ \A q \in Process : q # p => cmd'[q] = cmd[q]
  <2>1. [pc |-> "run", kind |-> "resume", thread |-> t, del |-> d] \in Cmd
    BY <1>1 DEF Cmd
  <2> QED
    BY <1>3, <2>1 DEF TypedInv, TypeOK
<1>7. /\ active' \in [Process -> Delegation \cup {NoDelegation}] /\ active'[p] = d
      /\ \A q \in Process : q # p => active'[q] = active[q]
  BY DEF ResumeThread, TypedInv, TypeOK
<1>8. TypeOK'
  BY <1>5, <1>6, <1>7, BoundsKept DEF ResumeThread, bounds, rowVars, TypedInv, TypeOK
<1>9. IsFiniteSet(started) /\ started' = started
  BY DEF ResumeThread, bounds, TypedInv, StartedInv
<1>10. connected' = connected /\ log' = log /\ sweep' = sweep
  BY DEF ResumeThread, rowVars
<1> QED
  BY <1>1, <1>4, <1>5, <1>6, <1>7, <1>8, <1>9, <1>10, BegunRefers DEF Early

LEMMA CmdRunTyped ==
    ASSUME TypedInv, NEW p \in Process, CmdRun(p)
    PROVE  TypedInv'
<1>1. cmd' = [cmd EXCEPT ![p].pc = "connect"] /\ cmd[p] \in Cmd /\ cmd[p].pc = "run"
  BY DEF CmdRun, TypedInv, TypeOK
<1>2. cmd'[p] \in Cmd /\ cmd'[p].pc = "connect" /\ cmd'[p].thread = cmd[p].thread
      /\ cmd'[p].del = cmd[p].del
      /\ cmd' \in [Process -> Cmd] /\ \A q \in Process : q # p => cmd'[q] = cmd[q]
  BY <1>1 DEF Cmd, TypedInv, TypeOK
<1>3. TypeOK'
  BY <1>2 DEF CmdRun, bounds, Status, TypedInv, TypeOK
<1>4. \A d \in Delegation : Kept(d)
  BY DEF CmdRun, Kept
<1>5. \A q \in Process : ActiveOn(q) /\ SweepOn(q)
  BY DEF CmdRun, ActiveOn, SweepOn, TypedInv, ReferInv, ActiveRefers
<1>6. \A q \in Process : CmdOn(q)
  BY <1>1, <1>2 DEF CmdRun, CmdOn, Early, TypedInv, ReferInv, CmdRefers
<1> QED
  BY <1>3, <1>4, <1>5, <1>6, OnRefers DEF LogOn, CmdRun, bounds

\* What a loop that asks for its next event leaves the map with, if the loop is
\* of the process that registers it.
LEMMA PullActive ==
    ASSUME TypeOK, ReferInv, NEW d \in Delegation, NEW r \in Loop,
           NEW act \in [Process -> Delegation \cup {NoDelegation}], Pull(d, r, act),
           \A q \in Process : act[q] \in {active[q], NoDelegation} \/ (act[q] = d /\ q = r.proc),
           del[d] # NoLoop => del[d].proc = r.proc
    PROVE  /\ queue' \in Queues /\ del' \in Loops
           /\ active' \in [Process -> Delegation \cup {NoDelegation}]
           /\ \A e \in Delegation \ {d} : del'[e] = del[e]
           /\ del'[d] # NoLoop => del'[d].proc = r.proc /\ del'[d].thread = r.thread
           /\ \A q \in Process : ActiveRefers(q)'
<1>1. ASSUME NEW q \in Process, act[q] # NoDelegation
      PROVE  IF act[q] = d THEN q = r.proc
             ELSE del[act[q]] # NoLoop /\ del[act[q]].proc = q
  <2>1. ActiveRefers(q)
    BY DEF ReferInv
  <2> QED
    BY <1>1, <2>1 DEF ActiveRefers
<1> QED
  BY <1>1, PullTyped DEF Queues, Loops, ActiveRefers

LEMMA CmdConnectTyped ==
    ASSUME TypedInv, NEW p \in Process, CmdConnect(p)
    PROVE  TypedInv'
<1> DEFINE d == cmd[p].del
           r == del[d]
<1>1. /\ CmdRefers(p) /\ cmd[p].pc = "connect" /\ cmd[p] \in Cmd
      /\ Pull(d, r, active) /\ connected' = cmd[p].thread
      /\ cmd' = [cmd EXCEPT ![p].pc = "send"]
  BY DEF CmdConnect, TypedInv, TypeOK, ReferInv
<1>2. /\ d \in Delegation /\ r.pc = "new" /\ r.proc = p /\ r.thread = cmd[p].thread
      /\ cmd[p].thread \in Thread /\ cmd[p].thread \in started
  BY <1>1, HarnessAssumption DEF CmdRefers
<1>3. r \in Loop
  BY <1>2, StateParts, LoopParts DEF NoLoop, TypedInv
<1>4. /\ active \in [Process -> Delegation \cup {NoDelegation}]
      /\ queue' \in Queues /\ del' \in Loops
      /\ active' \in [Process -> Delegation \cup {NoDelegation}]
      /\ \A e \in Delegation \ {d} : del'[e] = del[e]
      /\ del'[d] # NoLoop => del'[d].proc = r.proc /\ del'[d].thread = r.thread
      /\ \A q \in Process : ActiveRefers(q)'
  <2>1. active \in [Process -> Delegation \cup {NoDelegation}]
    BY DEF TypedInv, TypeOK
  <2> HIDE DEF r, d
  <2>2. \A q \in Process : active[q] \in {active[q], NoDelegation}
    OBVIOUS
  <2> QED
    BY <1>1, <1>2, <1>3, <2>1, <2>2, PullActive DEF r, TypedInv
<1>5. cmd'[p] \in Cmd /\ cmd'[p].pc = "send" /\ cmd'[p].thread = cmd[p].thread
      /\ cmd'[p].del = cmd[p].del
      /\ cmd' \in [Process -> Cmd] /\ \A q \in Process : q # p => cmd'[q] = cmd[q]
  BY <1>1 DEF Cmd, TypedInv, TypeOK
<1>6. TypeOK'
  BY <1>1, <1>2, <1>4, <1>5 DEF CmdConnect, bounds, TypedInv, TypeOK, Queues, Loops
<1>7. StartedInv'
  <2> HIDE DEF d, r
  <2>1. \A e \in Delegation : del'[e] # NoLoop => del'[e].thread \in started
    BY <1>2, <1>4 DEF TypedInv, StartedInv
  <2> QED
    BY <1>1, <1>2, <2>1 DEF CmdConnect, bounds, TypedInv, StartedInv
<1>8. ASSUME NEW q \in Process
      PROVE  CmdRefers(q)' /\ SweepRefers(q)'
  <2>1. /\ CmdRefers(q) /\ SweepRefers(q)
        /\ cmd[q].del \in Delegation \cup {NoDelegation}
        /\ sweep[q].del \in Delegation \cup {NoDelegation}
    BY DEF TypedInv, ReferInv, TypeOK, Cmd, Sweep
  <2>2. \A e \in Delegation, c \in Process : Owned(e, c) => Owned(e, c)'
    <3> HIDE DEF d
    <3> QED
      BY <1>2, <1>4 DEF Owned, NoLoop
  <2>3. SweepRefers(q)'
    BY <1>1, <1>2, <2>1, <2>2 DEF SweepRefers, CmdConnect, bounds, Owned
  <2>4. CmdRefers(q)'
    <3>1. CASE q = p
      BY <1>2, <1>5, <2>1, <2>2, <3>1 DEF CmdRefers, CmdConnect, bounds, Owned
    <3>2. CASE q # p
      <4>1. cmd[q].pc \in {"run", "connect"} => cmd[q].del # d
        BY <1>2, <2>1, <3>2 DEF CmdRefers
      <4> HIDE DEF d, r
      <4> QED
        BY <1>1, <1>2, <1>4, <1>5, <2>1, <2>2, <3>2, <4>1 DEF CmdRefers, CmdConnect, bounds, Owned
    <3> QED
      BY <3>1, <3>2
  <2> QED
    BY <2>3, <2>4
<1> QED
  BY <1>4, <1>6, <1>7, <1>8 DEF TypedInv, ReferInv

\* A command that publishes an event is over.
LEMMA CmdSendTyped ==
    ASSUME TypedInv, NEW p \in Process, NEW Q \in Queues, NEW t \in Thread,
           Publish(Q, p, t, "item", {}), cmd' = [cmd EXCEPT ![p] = NoCmd],
           turn' \in [Process -> SUBSET Thread],
           UNCHANGED <<rowVars, active, stop, sweep, bounds>>
    PROVE  TypedInv'
<1>1. /\ queue' \in Queues /\ del' \in Loops
      /\ \A d \in Delegation :
           /\ Kept(d)
           /\ del[d].pc = "new" => del'[d].pc = "new"
           /\ d \notin {} /\ del[d] # NoLoop => del'[d] # NoLoop
  <2>1. {} \in SUBSET Delegation /\ "item" \in Kind
    BY DEF Kind
  <2> QED
    BY <2>1, PublishTyped DEF TypedInv
<1>2. NoCmd \in Cmd
  BY DEF NoCmd, Cmd
<1>3. cmd' \in [Process -> Cmd] /\ cmd'[p] = NoCmd /\ \A q \in Process : q # p => cmd'[q] = cmd[q]
  BY <1>2 DEF TypedInv, TypeOK
<1>4. TypeOK'
  BY <1>1, <1>3 DEF TypedInv, TypeOK, Queues, Loops, rowVars, bounds
<1>5. ASSUME NEW q \in Process
      PROVE  ActiveOn(q) /\ CmdOn(q) /\ SweepOn(q)
  <2>1. ActiveRefers(q) /\ CmdRefers(q) /\ active[q] \in Delegation \cup {NoDelegation}
    BY DEF TypedInv, ReferInv, TypeOK
  <2>2. ActiveOn(q)
    BY <1>1, <2>1 DEF ActiveOn, ActiveRefers
  <2>3. CmdOn(q)
    BY <1>1, <1>3, <2>1 DEF CmdOn, Early, CmdRefers, NoCmd
  <2> QED
    BY <2>2, <2>3 DEF SweepOn
<1> QED
  BY <1>1, <1>4, <1>5, OnRefers DEF LogOn, rowVars, bounds

LEMMA CmdTurnTyped ==
    ASSUME TypedInv, NEW p \in Process, CmdTurn(p)
    PROVE  TypedInv'
<1>1. cmd[p].thread \in Thread
  BY DEF CmdTurn, TypedInv, ReferInv, CmdRefers
<1>2. turn' \in [Process -> SUBSET Thread]
  BY <1>1 DEF CmdTurn, TypedInv, TypeOK
<1>3. queue \in Queues
  BY StateParts DEF TypedInv
<1> QED
  BY <1>1, <1>2, <1>3, CmdSendTyped DEF CmdTurn

LEMMA CmdResumeTyped ==
    ASSUME TypedInv, NEW p \in Process, CmdResume(p)
    PROVE  TypedInv'
<1>1. cmd[p].thread \in Thread
  BY DEF CmdResume, TypedInv, ReferInv, CmdRefers
<1>2. LastExternalSequence \in Nat
  BY LastIsLargest DEF TypedInv
<1>3. Reopened(p, cmd[p].thread, LastExternalSequence) \in Queues
  BY <1>1, <1>2, ReopenedTyped DEF TypedInv
<1>4. turn' \in [Process -> SUBSET Thread]
  BY DEF CmdResume, TypedInv, TypeOK
<1> QED
  BY <1>1, <1>3, <1>4, CmdSendTyped DEF CmdResume

LEMMA CmdFailsTyped ==
    ASSUME TypedInv, NEW p \in Process, CmdFails(p)
    PROVE  TypedInv'
<1>1. NoCmd \in Cmd
  BY DEF NoCmd, Cmd
<1>2. cmd' \in [Process -> Cmd] /\ cmd'[p] = NoCmd /\ \A q \in Process : q # p => cmd'[q] = cmd[q]
  BY <1>1 DEF CmdFails, TypedInv, TypeOK
<1>3. \A d \in Delegation :
        /\ del[d] \in Loop \cup {NoLoop}
        /\ del'[d] = IF del[d].pc = "new" /\ cmd[p].del = d THEN NoLoop
                     ELSE IF d = active[p] /\ cmd[p].pc \notin {"thread", "events"} THEN Abort(del[d])
                     ELSE del[d]
  BY DEF CmdFails, TypedInv, TypeOK
<1>4. del' \in [Delegation -> Loop \cup {NoLoop}]
  <2>1. \A d \in Delegation : del'[d] \in Loop \cup {NoLoop}
    BY <1>3, AbortTyped
  <2> QED
    BY <2>1 DEF CmdFails
<1>5. /\ active' \in [Process -> Delegation \cup {NoDelegation}]
      /\ \A q \in Process : q # p => active'[q] = active[q]
      /\ active'[p] = IF cmd[p].pc \in {"thread", "events"} THEN active[p] ELSE NoDelegation
  BY DEF CmdFails, TypedInv, TypeOK
<1>6. TypeOK'
  BY <1>2, <1>4, <1>5, BoundsKept DEF CmdFails, rowVars, TypedInv, TypeOK
<1>7. \A d \in Delegation : Kept(d)
  BY <1>3, AbortTyped DEF Kept
<1>8. ASSUME NEW q \in Process
      PROVE  ActiveOn(q) /\ CmdOn(q) /\ SweepOn(q)
  <2>1. /\ ActiveRefers(q) /\ CmdRefers(q) /\ CmdRefers(p)
        /\ active[q] \in Delegation \cup {NoDelegation}
    BY DEF TypedInv, ReferInv, TypeOK
  <2>0. ActiveRefers(p) /\ cmd[p].del \in Delegation \cup {NoDelegation}
        /\ NoDelegation \notin Delegation
    BY DEF TypedInv, ReferInv, TypeOK, Cmd, NoDelegation, Delegation
  <2>2. ActiveOn(q)
    <3>1. CASE q = p
      BY <1>3, <1>5, <2>0, <2>1, <3>1 DEF ActiveOn, ActiveRefers, CmdRefers
    <3>2. CASE q # p
      BY <1>3, <1>5, <2>0, <2>1, <3>2 DEF ActiveOn, ActiveRefers, CmdRefers, Owned, NoLoop
    <3> QED
      BY <3>1, <3>2
  <2>3. CmdOn(q)
    <3>1. CASE q = p
      BY <1>2, <3>1 DEF CmdOn, Early, NoCmd
    <3>2. CASE q # p
      BY <1>2, <1>3, <2>0, <2>1, <3>2 DEF CmdOn, Early, ActiveRefers, CmdRefers, Owned, NoLoop
    <3> QED
      BY <3>1, <3>2
  <2> QED
    BY <2>2, <2>3 DEF SweepOn, CmdFails
<1> QED
  BY <1>6, <1>7, <1>8, OnRefers DEF LogOn, CmdFails, Fault, rowVars

\* The interrupt.
LEMMA InterruptTyped ==
    ASSUME TypedInv, NEW p \in Process, Interrupt(p)
    PROVE  TypedInv'
<1> DEFINE d == active[p]
           t == del[d].thread
<1>1. /\ d \in Delegation /\ del[d] # NoLoop /\ del[d].proc = p /\ del[d].pc # "new"
      /\ t \in Thread
  <2>1. d \in Delegation /\ del[d] # NoLoop /\ del[d].proc = p /\ del[d].pc # "new"
    BY DEF Interrupt, TypedInv, TypeOK, ReferInv, ActiveRefers
  <2> QED
    BY <2>1, StateParts, LoopParts DEF TypedInv
<1>2. Publish(queue, p, t, "turn.interrupted", {d}) /\ active' = [active EXCEPT ![p] = NoDelegation]
  BY DEF Interrupt
<1> HIDE DEF d, t
<1>3. /\ queue' \in Queues /\ del' \in Loops
      /\ \A e \in Delegation :
           /\ Kept(e)
           /\ del[e].pc = "new" => del'[e].pc = "new"
           /\ e \notin {d} /\ del[e] # NoLoop => del'[e] # NoLoop
  <2>1. {d} \in SUBSET Delegation /\ "turn.interrupted" \in Kind /\ queue \in Queues
    BY <1>1, StateParts DEF Kind, Outcome, TypedInv
  <2> QED
    BY <1>1, <1>2, <2>1, PublishTyped DEF TypedInv
<1>4. /\ active' \in [Process -> Delegation \cup {NoDelegation}] /\ active'[p] = NoDelegation
      /\ \A q \in Process : q # p => active'[q] = active[q]
  BY <1>2 DEF TypedInv, TypeOK
<1>5. TypeOK'
  BY <1>3, <1>4, BoundsKept DEF Interrupt, rowVars, TypedInv, TypeOK, Queues, Loops
<1>6. ASSUME NEW q \in Process
      PROVE  ActiveOn(q) /\ CmdOn(q) /\ SweepOn(q)
  <2>1. ActiveRefers(q) /\ CmdRefers(q) /\ active[q] \in Delegation \cup {NoDelegation}
    BY DEF TypedInv, ReferInv, TypeOK
  <2>2. ActiveOn(q)
    BY <1>1, <1>3, <1>4, <2>1 DEF ActiveOn, ActiveRefers
  <2>3. CmdOn(q)
    BY <1>3, <2>1 DEF CmdOn, Early, CmdRefers, Interrupt
  <2> QED
    BY <2>2, <2>3 DEF SweepOn, Interrupt
<1> QED
  BY <1>3, <1>5, <1>6, OnRefers DEF LogOn, Interrupt, Command, rowVars

\* Steps that leave loops, calls and sweeps alone.
LEMMA RowTyped ==
    ASSUME TypedInv, status' \in Status, leased' \in BOOLEAN,
           stop' \in [Process -> {"idle", "read", "write"}],
           UNCHANGED <<connected, log, active, queue, turn, cmd, sweep, del>>,
           Command \/ UNCHANGED bounds
    PROVE  TypedInv'
<1>1. TypeOK'
  BY BoundsKept DEF TypedInv, TypeOK
<1>2. started' = started
  BY DEF Command, bounds
<1>3. ASSUME NEW q \in Process
      PROVE  ActiveOn(q) /\ CmdOn(q) /\ SweepOn(q)
  BY DEF ActiveOn, CmdOn, Early, SweepOn, TypedInv, ReferInv, CmdRefers, ActiveRefers
<1> QED
  BY <1>1, <1>2, <1>3, OnRefers DEF LogOn, Kept

LEMMA RowStepsTyped ==
    ASSUME TypedInv,
           \/ \E p \in Process : InterruptRead(p) \/ InterruptWrite(p)
           \/ CoordinatorClaims \/ (\E s \in {"over", "paused"} : CoordinatorEnds(s))
           \/ Cancel
    PROVE  TypedInv'
<1>1. ASSUME NEW p \in Process, InterruptRead(p) PROVE TypedInv'
  <2>1. /\ status' \in Status /\ leased' \in BOOLEAN
        /\ stop' \in [Process -> {"idle", "read", "write"}]
    BY <1>1 DEF InterruptRead, rowVars, Status, TypedInv, TypeOK
  <2> QED
    BY <1>1, <2>1, RowTyped DEF InterruptRead, rowVars
<1>2. ASSUME NEW p \in Process, InterruptWrite(p) PROVE TypedInv'
  <2>1. /\ status' \in Status /\ leased' \in BOOLEAN
        /\ stop' \in [Process -> {"idle", "read", "write"}]
    BY <1>2 DEF InterruptWrite, Status, TypedInv, TypeOK
  <2> QED
    BY <1>2, <2>1, RowTyped DEF InterruptWrite
<1>3. CASE CoordinatorClaims
  <2>1. /\ status' \in Status /\ leased' \in BOOLEAN
        /\ stop' \in [Process -> {"idle", "read", "write"}]
    BY <1>3 DEF CoordinatorClaims, Status, TypedInv, TypeOK
  <2> QED
    BY <1>3, <2>1, RowTyped DEF CoordinatorClaims
<1>4. ASSUME NEW s \in {"over", "paused"}, CoordinatorEnds(s) PROVE TypedInv'
  <2>1. /\ status' \in Status /\ leased' \in BOOLEAN
        /\ stop' \in [Process -> {"idle", "read", "write"}]
    BY <1>4 DEF CoordinatorEnds, Status, TypedInv, TypeOK
  <2> QED
    BY <1>4, <2>1, RowTyped DEF CoordinatorEnds
<1>5. CASE Cancel
  <2>1. /\ status' \in Status /\ leased' \in BOOLEAN
        /\ stop' \in [Process -> {"idle", "read", "write"}]
    BY <1>5 DEF Cancel, Status, TypedInv, TypeOK
  <2> QED
    BY <1>5, <2>1, RowTyped DEF Cancel
<1> QED
  BY <1>1, <1>2, <1>3, <1>4, <1>5

\* Queues, loops and the map keep their types, and all loops but one, which keeps its
\* process and thread, are as they were.
Went(d) ==
    /\ queue' \in Queues /\ del' \in Loops
    /\ active' \in [Process -> Delegation \cup {NoDelegation}]
    /\ \A e \in Delegation : e # d => del'[e] = del[e]
    /\ Kept(d) /\ \A q \in Process : ActiveOn(q)

\* consume().  Steps that move or end one loop that is not new.
LEMMA LoopTyped ==
    ASSUME TypedInv, TypeOK', NEW d \in Delegation, del[d] # NoLoop, del[d].pc # "new",
           Went(d), LogOn,
           UNCHANGED <<connected, cmd, sweep, started>>
    PROVE  TypedInv'
<1>1. \A e \in Delegation : Kept(e)
  BY DEF Kept, Went
<1>2. ASSUME NEW q \in Process
      PROVE  CmdOn(q) /\ SweepOn(q)
  <2>1. CmdRefers(q)
    BY DEF TypedInv, ReferInv
  <2> QED
    BY <2>1 DEF CmdOn, Early, SweepOn, CmdRefers, Went
<1> QED
  BY <1>1, <1>2, OnRefers DEF Went

\* A loop that ends is not in the map any more.
LEMMA EndTyped ==
    ASSUME TypedInv, NEW d \in Delegation, End(d)
    PROVE  Went(d)
<1>1. /\ \A e \in Delegation : del'[e] = IF e = d THEN NoLoop ELSE del[e]
      /\ del' \in Loops /\ queue' = queue
  BY DEF End, TypedInv, TypeOK, Loops
<1>2. /\ active' \in [Process -> Delegation \cup {NoDelegation}]
      /\ \A q \in Process : active'[q] = IF active[q] = d THEN NoDelegation ELSE active[q]
  BY DEF End, Forget, TypedInv, TypeOK
<1>3. ASSUME NEW q \in Process
      PROVE  ActiveOn(q)
  <2>1. ActiveRefers(q) /\ active[q] \in Delegation \cup {NoDelegation}
    BY DEF TypedInv, ReferInv, TypeOK
  <2> QED
    BY <1>1, <1>2, <2>1 DEF ActiveOn, ActiveRefers
<1> QED
  BY <1>1, <1>2, <1>3, StateParts DEF Went, Kept, TypedInv

\* A loop moves to another place.
MovesTo(d, pc) ==
    del' = [del EXCEPT ![d].pc = pc] /\ UNCHANGED <<active, queue>>

LEMMA MovedTyped ==
    ASSUME TypedInv, NEW d \in Delegation, del[d] # NoLoop,
           NEW pc \in {"settle", "write", "lost", "pause"}, MovesTo(d, pc)
    PROVE  /\ Went(d)
           /\ del'[d] # NoLoop /\ del'[d].pc = pc /\ del'[d].proc = del[d].proc
           /\ del'[d].thread = del[d].thread /\ del'[d].after = del[d].after
           /\ del'[d].event = del[d].event
<1> USE DEF MovesTo
<1>1. del[d] \in Loop
  BY StateParts, LoopParts DEF TypedInv
<1>2. /\ [del[d] EXCEPT !.pc = pc] \in Loop /\ [del[d] EXCEPT !.pc = pc] # NoLoop
      /\ [del[d] EXCEPT !.pc = pc].proc = del[d].proc
      /\ [del[d] EXCEPT !.pc = pc].thread = del[d].thread
      /\ [del[d] EXCEPT !.pc = pc].pc = pc
      /\ [del[d] EXCEPT !.pc = pc].after = del[d].after
      /\ [del[d] EXCEPT !.pc = pc].event = del[d].event
  BY <1>1 DEF Loop, NoLoop
<1>3. del' = [del EXCEPT ![d] = [del[d] EXCEPT !.pc = pc]]
  OBVIOUS
<1>4. /\ del' \in Loops /\ del'[d] = [del[d] EXCEPT !.pc = pc]
      /\ \A e \in Delegation : e # d => del'[e] = del[e]
  BY <1>2, <1>3 DEF TypedInv, TypeOK, Loops
<1>5. ASSUME NEW q \in Process
      PROVE  ActiveOn(q)
  <2>1. ActiveRefers(q) /\ active[q] \in Delegation \cup {NoDelegation}
    BY DEF TypedInv, ReferInv, TypeOK
  <2> QED
    BY <1>2, <1>4, <2>1 DEF ActiveOn, ActiveRefers
<1> QED
  BY <1>2, <1>4, <1>5, StateParts DEF Went, Kept, TypedInv, TypeOK

\* A loop that asks for its next event.
LEMMA AskedTyped ==
    ASSUME TypedInv, NEW d \in Delegation, del[d] # NoLoop, NEW r \in Loop,
           r.proc = del[d].proc, r.thread = del[d].thread,
           NEW act \in {active, Forget(active, d)}, Pull(d, r, act)
    PROVE  Went(d)
<1>1. active \in [Process -> Delegation \cup {NoDelegation}]
  BY DEF TypedInv, TypeOK
<1>2. /\ act \in [Process -> Delegation \cup {NoDelegation}]
      /\ \A q \in Process : act[q] \in {active[q], NoDelegation}
  BY <1>1 DEF Forget
<1>3. /\ queue' \in Queues /\ del' \in Loops
      /\ active' \in [Process -> Delegation \cup {NoDelegation}]
      /\ \A e \in Delegation \ {d} : del'[e] = del[e]
      /\ del'[d] # NoLoop => del'[d].proc = r.proc /\ del'[d].thread = r.thread
      /\ \A q \in Process : ActiveRefers(q)'
  BY <1>2, PullActive DEF TypedInv
<1>4. \A q \in Process : active'[q] \in {act[q], NoDelegation}
  <2>1. active' = act \/ active' = Forget(act, d)
    BY DEF Pull
  <2> QED
    BY <2>1 DEF Forget
<1>5. \A q \in Process : ActiveOn(q)
  BY <1>2, <1>3, <1>4 DEF ActiveOn, ActiveRefers
<1> QED
  BY <1>3, <1>5 DEF Kept, Went

LEMMA ConsumeAppendTyped ==
    ASSUME TypedInv, NEW d \in Delegation, ConsumeAppend(d)
    PROVE  TypedInv'
<1> DEFINE r == del[d]
<1>1. /\ r \in Loop /\ r # NoLoop /\ r.pc = "append" /\ r.thread \in Thread
      /\ r.event.seq \in Nat /\ r.thread \in started
  <2>1. r.pc = "append" /\ r # NoLoop
    BY DEF ConsumeAppend, NoLoop
  <2> QED
    BY <2>1, StateParts, LoopParts DEF TypedInv, StartedInv
<1>2. log' = [log EXCEPT ![r.thread] = @ \cup {r.event.seq}]
  BY DEF ConsumeAppend
<1>3. Went(d)
  <2>1. CASE Pull(d, r, active)
    BY <1>1, <2>1, AskedTyped
  <2>2. CASE MovesTo(d, "settle")
    BY <1>1, <2>2, MovedTyped
  <2> QED
    BY <2>1, <2>2 DEF ConsumeAppend, MovesTo
<1> HIDE DEF r
<1>4. /\ log' \in [Thread -> SUBSET Nat]
      /\ log'[r.thread] = log[r.thread] \cup {r.event.seq}
      /\ \A t \in Thread : t # r.thread => log'[t] = log[t]
  BY <1>1, <1>2 DEF TypedInv, TypeOK
<1>5. LogOn
  <2>1. UNION {log'[t] : t \in Thread} = (UNION {log[t] : t \in Thread}) \cup {r.event.seq}
    <3>1. ASSUME NEW n, NEW t \in Thread, n \in log'[t]
          PROVE  n \in (UNION {log[u] : u \in Thread}) \cup {r.event.seq}
      BY <1>4, <3>1
    <3>2. ASSUME NEW n, NEW t \in Thread, n \in log[t]
          PROVE  n \in log'[t]
      BY <1>4, <3>2
    <3>3. r.event.seq \in log'[r.thread]
      BY <1>4
    <3> QED
      BY <1>1, <3>1, <3>2, <3>3
  <2>2. IsFiniteSet(UNION {log'[t] : t \in Thread})
    <3>1. IsFiniteSet(UNION {log[t] : t \in Thread})
      BY DEF TypedInv, StartedInv
    <3> QED
      <4>1. IsFiniteSet((UNION {log[t] : t \in Thread}) \cup {r.event.seq})
        BY ONLY <3>1, FS_AddElement
      <4> QED
        BY ONLY <2>1, <4>1
  <2>3. \A t \in Thread : log'[t] # {} => t \in started
    BY <1>1, <1>4 DEF TypedInv, StartedInv
  <2> QED
    BY <2>2, <2>3 DEF LogOn
<1>6. UNCHANGED <<status, leased, connected, turn, cmd, stop, sweep, bounds>>
  BY DEF ConsumeAppend
<1>7. TypeOK'
  BY <1>3, <1>4, <1>6 DEF TypedInv, TypeOK, bounds, Queues, Loops, Went
<1> QED
  BY <1>1, <1>3, <1>5, <1>6, <1>7, LoopTyped DEF r, bounds

\* The other steps of a loop: it moves to another place, ends, or asks.
Goes(d) ==
    \/ \E pc \in {"settle", "write", "lost", "pause"} : MovesTo(d, pc)
    \/ End(d) \/ Pull(d, del[d], active)
    \/ Pull(d, [del[d] EXCEPT !.aborted = TRUE], Forget(active, d))

LEMMA ConsumeTyped ==
    ASSUME TypedInv, NEW d \in Delegation, del[d] # NoLoop, del[d].pc # "new",
           Goes(d),
           status' \in Status, Fault \/ UNCHANGED bounds,
           UNCHANGED <<leased, connected, log, turn, cmd, stop, sweep>>
    PROVE  TypedInv'
<1>1. /\ del[d] \in Loop /\ [del[d] EXCEPT !.aborted = TRUE] \in Loop
      /\ [del[d] EXCEPT !.aborted = TRUE].proc = del[d].proc
      /\ [del[d] EXCEPT !.aborted = TRUE].thread = del[d].thread
  <2>1. del[d] \in Loop
    BY StateParts, LoopParts DEF TypedInv
  <2> QED
    BY <2>1 DEF Loop
<1>2. Went(d)
  <2>1. CASE \E pc \in {"settle", "write", "lost", "pause"} : MovesTo(d, pc)
    BY <2>1, MovedTyped
  <2>2. CASE End(d)
    BY <2>2, EndTyped
  <2>3. CASE Pull(d, del[d], active)
    BY <1>1, <2>3, AskedTyped
  <2>4. CASE Pull(d, [del[d] EXCEPT !.aborted = TRUE], Forget(active, d))
    BY <1>1, <2>4, AskedTyped
  <2> QED
    BY <2>1, <2>2, <2>3, <2>4 DEF Goes
<1>3. TypeOK'
  BY <1>2, BoundsKept DEF TypedInv, TypeOK, Queues, Loops, Went
<1>4. started' = started /\ LogOn
  BY DEF Fault, bounds, LogOn
<1> QED
  BY <1>2, <1>3, <1>4, LoopTyped

LEMMA ConsumeStepsTyped ==
    ASSUME TypedInv, NEW d \in Delegation, ConsumeStep(d) \/ ConsumeFails(d)
    PROVE  TypedInv'
<1>1. status \in Status /\ {"over", "paused"} \subseteq Status
  BY DEF TypedInv, TypeOK, Status
<1>2. CASE ConsumeAppend(d)
  BY <1>2, ConsumeAppendTyped
<1>3. CASE ConsumeSettle(d)
  <2>1. Goes(d) /\ del[d] # NoLoop /\ del[d].pc # "new"
    BY <1>3 DEF ConsumeSettle, Goes, MovesTo, NoLoop
  <2>2. /\ status' \in Status /\ (Fault \/ UNCHANGED bounds)
        /\ UNCHANGED <<leased, connected, log, turn, cmd, stop, sweep>>
    BY <1>1, <1>3 DEF ConsumeSettle, rowVars
  <2> QED
    BY <2>1, <2>2, ConsumeTyped
<1>4. CASE ConsumeOutcome(d)
  <2>1. Goes(d) /\ del[d] # NoLoop /\ del[d].pc # "new"
    BY <1>4 DEF ConsumeOutcome, Goes, MovesTo, NoLoop
  <2>2. /\ status' \in Status /\ (Fault \/ UNCHANGED bounds)
        /\ UNCHANGED <<leased, connected, log, turn, cmd, stop, sweep>>
    BY <1>1, <1>4 DEF ConsumeOutcome
  <2> QED
    BY <2>1, <2>2, ConsumeTyped
<1>5. CASE ConsumeFails(d)
  <2>1. Goes(d) /\ del[d] # NoLoop /\ del[d].pc # "new"
    BY <1>5 DEF ConsumeFails, Goes, MovesTo, NoLoop
  <2>2. /\ status' \in Status /\ (Fault \/ UNCHANGED bounds)
        /\ UNCHANGED <<leased, connected, log, turn, cmd, stop, sweep>>
    BY <1>1, <1>5 DEF ConsumeFails, rowVars
  <2> QED
    BY <2>1, <2>2, ConsumeTyped
<1>6. CASE ConsumeLost(d)
  <2>1. Goes(d) /\ del[d] # NoLoop /\ del[d].pc # "new"
    BY <1>6 DEF ConsumeLost, Goes, MovesTo, NoLoop
  <2>2. /\ status' \in Status /\ (Fault \/ UNCHANGED bounds)
        /\ UNCHANGED <<leased, connected, log, turn, cmd, stop, sweep>>
    BY <1>1, <1>6 DEF ConsumeLost, rowVars
  <2> QED
    BY <2>1, <2>2, ConsumeTyped
<1>7. CASE ConsumePause(d)
  <2>1. Goes(d) /\ del[d] # NoLoop /\ del[d].pc # "new"
    BY <1>7 DEF ConsumePause, Goes, MovesTo, NoLoop
  <2>2. /\ status' \in Status /\ (Fault \/ UNCHANGED bounds)
        /\ UNCHANGED <<leased, connected, log, turn, cmd, stop, sweep>>
    BY <1>1, <1>7 DEF ConsumePause
  <2> QED
    BY <2>1, <2>2, ConsumeTyped
<1> QED
  BY <1>2, <1>3, <1>4, <1>5, <1>6, <1>7 DEF ConsumeStep

\* The sweep.
LEMMA SweepListTyped ==
    ASSUME TypedInv, NEW p \in Process, SweepList(p)
    PROVE  TypedInv'
<1>1. sweep' = [sweep EXCEPT ![p] = [NoSweep EXCEPT !.pc = "events", !.status = status]]
      /\ connected \in Thread
  BY DEF SweepList, TypedInv, TypeOK
<1>2. /\ [NoSweep EXCEPT !.pc = "events", !.status = status] \in Sweep
      /\ [NoSweep EXCEPT !.pc = "events", !.status = status].pc = "events"
      /\ [NoSweep EXCEPT !.pc = "events", !.status = status].thread = NoThread
      /\ [NoSweep EXCEPT !.pc = "events", !.status = status].del = NoDelegation
  BY DEF Sweep, NoSweep, TypedInv, TypeOK
<1>3. /\ sweep' \in [Process -> Sweep]
      /\ \A q \in Process : q # p => sweep'[q] = sweep[q]
      /\ sweep'[p].pc = "events" /\ sweep'[p].thread = NoThread
      /\ sweep'[p].del = NoDelegation
  BY <1>1, <1>2 DEF TypedInv, TypeOK
<1>4. TypeOK'
  BY <1>3 DEF SweepList, rowVars, bounds, TypedInv, TypeOK
<1>5. \A d \in Delegation : Kept(d)
  BY DEF SweepList, Kept
<1>6. \A q \in Process : ActiveOn(q) /\ CmdOn(q) /\ SweepOn(q)
  BY <1>1, <1>3 DEF SweepList, ActiveOn, CmdOn, Early, SweepOn, TypedInv, ReferInv, ActiveRefers, CmdRefers
<1> QED
  BY <1>4, <1>5, <1>6, OnRefers DEF LogOn, SweepList, rowVars, bounds

\* A sweep that goes on, with the thread that is bound or its own.
LEMMA SweepGoesOn ==
    ASSUME TypedInv, TypeOK', NEW p \in Process,
           UNCHANGED <<connected, log, active, cmd, del, started>>,
           \A q \in Process : q # p => sweep'[q] = sweep[q],
           sweep'[p].pc = "take", sweep'[p].del = NoDelegation,
           sweep'[p].thread \in started
    PROVE  TypedInv'
<1>1. StartedInv'
  BY DEF TypedInv, StartedInv
<1>2. \A q \in Process : ActiveRefers(q)' /\ CmdRefers(q)'
  BY DEF TypedInv, ReferInv, ActiveRefers, CmdRefers, Owned
<1>3. \A q \in Process : SweepRefers(q)'
  BY DEF TypedInv, ReferInv, SweepRefers, Owned
<1> QED
  BY <1>1, <1>2, <1>3 DEF TypedInv, ReferInv

LEMMA SweepEventsTyped ==
    ASSUME TypedInv, NEW p \in Process, SweepEvents(p)
    PROVE  TypedInv'
<1> DEFINE after == LastExternalSequence
<1>1. connected \in Thread /\ connected \in started /\ after \in Nat
  BY HarnessAssumption, LastIsLargest DEF SweepEvents, TypedInv, ReferInv, SweepRefers, StartedInv
<1>2. sweep' = [sweep EXCEPT ![p] =
            [pc |-> "take", status |-> sweep[p].status, del |-> NoDelegation,
             after |-> after, thread |-> connected]]
  BY DEF SweepEvents
<1> HIDE DEF after
<1>3. [pc |-> "take", status |-> sweep[p].status, del |-> NoDelegation,
       after |-> after, thread |-> connected] \in Sweep
  BY <1>1 DEF Sweep, TypedInv, TypeOK
<1>4. /\ sweep' \in [Process -> Sweep]
      /\ \A q \in Process : q # p => sweep'[q] = sweep[q]
      /\ sweep'[p].pc = "take" /\ sweep'[p].thread = connected
      /\ sweep'[p].del = NoDelegation /\ sweep'[p].after = after
  BY <1>2, <1>3 DEF TypedInv, TypeOK
<1>5. TypeOK'
  BY <1>1, <1>4 DEF SweepEvents, rowVars, bounds, TypedInv, TypeOK
<1> QED
  BY <1>1, <1>4, <1>5, SweepGoesOn DEF SweepEvents, rowVars, bounds

LEMMA SweepTakeTyped ==
    ASSUME TypedInv, NEW p \in Process, NEW d \in Delegation, SweepTake(p, d)
    PROVE  TypedInv'
<1> DEFINE t == sweep[p].thread
           r == NewLoop(p, t, sweep[p].after)
           act == [active EXCEPT ![p] = d]
<1>1. /\ d \in Unused /\ sweep[p].pc = "take" /\ t \in Thread /\ t \in started
      /\ sweep[p] \in Sweep /\ sweep[p].after \in Nat
  <2>1. d \in Unused
    BY FreshIsUnused DEF SweepTake
  <2>2. sweep[p].pc = "take" /\ t \in Thread /\ t \in started /\ sweep[p] \in Sweep
    BY HarnessAssumption DEF SweepTake, TypedInv, TypeOK, ReferInv, SweepRefers
  <2> QED
    BY <2>1, <2>2, StateParts DEF TypedInv
<1>2. /\ Pull(d, r, act) /\ sweep' = [sweep EXCEPT ![p] = [@ EXCEPT !.pc = "resume", !.del = d]]
      /\ UNCHANGED <<rowVars, turn, cmd, stop, bounds>>
  BY DEF SweepTake
<1>3. r \in Loop /\ r.proc = p /\ r.thread = t
  BY <1>1, NewLoopTyped
<1>4. act \in [Process -> Delegation \cup {NoDelegation}]
      /\ \A q \in Process : act[q] \in {active[q], NoDelegation} \/ (act[q] = d /\ q = p)
  BY DEF TypedInv, TypeOK
<1>5. del[d] = NoLoop /\ \A q \in Process : cmd[q].del # d /\ sweep[q].del # d
  BY <1>1 DEF Unused
<1> HIDE DEF r, act, t
<1>6. /\ queue' \in Queues /\ del' \in Loops
      /\ active' \in [Process -> Delegation \cup {NoDelegation}]
      /\ \A e \in Delegation \ {d} : del'[e] = del[e]
      /\ del'[d] # NoLoop => del'[d].proc = p /\ del'[d].thread = t
      /\ \A q \in Process : ActiveRefers(q)'
  BY <1>2, <1>3, <1>4, <1>5, PullActive DEF TypedInv
<1>7. /\ sweep' \in [Process -> Sweep] /\ sweep'[p].pc = "resume" /\ sweep'[p].del = d
      /\ sweep'[p].thread = t /\ sweep'[p].after = sweep[p].after
      /\ \A q \in Process : q # p => sweep'[q] = sweep[q]
  <2>1. [sweep[p] EXCEPT !.pc = "resume", !.del = d] \in Sweep
    BY <1>1 DEF Sweep
  <2>2. sweep' = [sweep EXCEPT ![p] = [sweep[p] EXCEPT !.pc = "resume", !.del = d]]
    BY <1>2
  <2>3. sweep'[p] = [sweep[p] EXCEPT !.pc = "resume", !.del = d]
    BY <2>2 DEF TypedInv, TypeOK
  <2>4. sweep'[p].pc = "resume" /\ sweep'[p].del = d
        /\ sweep'[p].thread = t /\ sweep'[p].after = sweep[p].after
    BY <1>1, <2>3 DEF Sweep, t
  <2> QED
    BY <2>1, <2>2, <2>4 DEF TypedInv, TypeOK
<1>8. TypeOK'
  BY <1>1, <1>2, <1>6, <1>7 DEF rowVars, bounds, TypedInv, TypeOK, Queues, Loops
<1>9. StartedInv'
  BY <1>1, <1>2, <1>6 DEF rowVars, bounds, TypedInv, StartedInv
<1>10. ASSUME NEW q \in Process
       PROVE  CmdRefers(q)' /\ SweepRefers(q)'
  <2>1. /\ CmdRefers(q) /\ SweepRefers(q)
        /\ cmd[q].del \in Delegation \cup {NoDelegation}
        /\ sweep[q].del \in Delegation \cup {NoDelegation}
    BY DEF TypedInv, ReferInv, TypeOK, Cmd, Sweep
  <2>2. connected' = connected /\ cmd' = cmd /\ started' = started
    BY <1>2 DEF rowVars, bounds
  <2>3. SweepRefers(q)'
    BY <1>1, <1>5, <1>6, <1>7, <2>1, <2>2 DEF SweepRefers, Owned
  <2>4. CmdRefers(q)'
    BY <1>5, <1>6, <2>1, <2>2 DEF CmdRefers, Owned
  <2> QED
    BY <2>3, <2>4
<1> QED
  BY <1>6, <1>8, <1>9, <1>10 DEF TypedInv, ReferInv

\* A sweep, or the sidecar, publishes an event.
LEMMA SweepSendTyped ==
    ASSUME TypedInv, NEW Q \in Queues, NEW p \in Process, NEW t \in Thread, NEW kind \in Kind,
           Publish(Q, p, t, kind, {}), turn' \in [Process -> SUBSET Thread],
           sweep' = [sweep EXCEPT ![p] = NoSweep] \/ sweep' = sweep,
           UNCHANGED <<rowVars, active, cmd, stop, bounds>>
    PROVE  TypedInv'
<1>1. /\ queue' \in Queues /\ del' \in Loops
      /\ \A d \in Delegation :
           /\ Kept(d)
           /\ del[d].pc = "new" => del'[d].pc = "new"
           /\ d \notin {} /\ del[d] # NoLoop => del'[d] # NoLoop
  <2>1. {} \in SUBSET Delegation
    OBVIOUS
  <2> QED
    BY <2>1, PublishTyped DEF TypedInv
<1>2. NoSweep \in Sweep /\ NoSweep.pc = "idle"
  BY DEF NoSweep, Sweep, Status
<1>3. sweep' \in [Process -> Sweep]
      /\ \A q \in Process : sweep'[q] = sweep[q] \/ sweep'[q] = NoSweep
  BY <1>2 DEF TypedInv, TypeOK
<1>4. TypeOK'
  BY <1>1, <1>2, <1>3 DEF TypedInv, TypeOK, Queues, Loops, rowVars, bounds
<1>5. ASSUME NEW q \in Process
      PROVE  ActiveOn(q) /\ CmdOn(q) /\ SweepOn(q)
  <2>1. ActiveRefers(q) /\ CmdRefers(q) /\ active[q] \in Delegation \cup {NoDelegation}
    BY DEF TypedInv, ReferInv, TypeOK
  <2>2. ActiveOn(q)
    BY <1>1, <2>1 DEF ActiveOn, ActiveRefers
  <2>3. CmdOn(q)
    BY <1>1, <2>1 DEF CmdOn, Early, CmdRefers
  <2> QED
    BY <1>3, <2>2, <2>3 DEF SweepOn
<1> QED
  BY <1>1, <1>4, <1>5, OnRefers DEF LogOn, rowVars, bounds

LEMMA SweepResumeTyped ==
    ASSUME TypedInv, NEW p \in Process, SweepResume(p)
    PROVE  TypedInv'
<1>1. sweep[p].thread \in Thread /\ sweep[p].after \in Nat
  BY StateParts DEF SweepResume, TypedInv, TypeOK
<1>2. Reopened(p, sweep[p].thread, sweep[p].after) \in Queues /\ "item" \in Kind
  BY <1>1, ReopenedTyped DEF TypedInv, Kind
<1>3. turn' \in [Process -> SUBSET Thread]
  BY DEF SweepResume, TypedInv, TypeOK
<1> QED
  BY <1>1, <1>2, <1>3, SweepSendTyped DEF SweepResume

LEMMA SidecarEndsTyped ==
    ASSUME TypedInv, NEW p \in Process, NEW t \in Thread, NEW kind \in Outcome,
           SidecarEnds(p, t, kind)
    PROVE  TypedInv'
<1>1. kind \in Kind /\ queue \in Queues
  BY StateParts DEF Kind, TypedInv
<1>2. turn' \in [Process -> SUBSET Thread]
  BY DEF SidecarEnds, TypedInv, TypeOK
<1> QED
  BY <1>1, <1>2, SweepSendTyped DEF SidecarEnds

LEMMA SweepFailsTyped ==
    ASSUME TypedInv, NEW p \in Process, SweepFails(p)
    PROVE  TypedInv'
<1> DEFINE s == sweep[p].del
<1>1. sweep[p].pc = "resume" => s \in Delegation /\ Owned(s, p)
  <2>1. SweepRefers(p) /\ NoDelegation \notin Delegation
    BY DEF TypedInv, ReferInv, NoDelegation, Delegation
  <2> QED
    BY <2>1 DEF SweepRefers
<1>2. \/ UNCHANGED <<active, del>>
      \/ /\ s \in Delegation /\ Owned(s, p)
         /\ active' = [active EXCEPT ![p] = NoDelegation]
         /\ del' = [del EXCEPT ![s] = Abort(@)]
  BY <1>1 DEF SweepFails
<1> HIDE DEF s
<1>3. /\ del' \in Loops
      /\ \A e \in Delegation :
           /\ del[e] \in Loop \cup {NoLoop}
           /\ del'[e] = del[e] \/ (e = s /\ Owned(s, p) /\ del'[e] = Abort(del[e]))
  <2>1. \A e \in Delegation : del[e] \in Loop \cup {NoLoop} /\ Abort(del[e]) \in Loop \cup {NoLoop}
    BY AbortTyped DEF TypedInv, TypeOK
  <2> QED
    BY <1>2, <2>1 DEF TypedInv, TypeOK, Loops
<1>4. /\ active' \in [Process -> Delegation \cup {NoDelegation}]
      /\ \A q \in Process : q # p => active'[q] = active[q]
      /\ active'[p] = NoDelegation \/ UNCHANGED <<active, del>>
  BY <1>2 DEF TypedInv, TypeOK
<1>5. NoSweep \in Sweep /\ NoSweep.pc = "idle"
  BY DEF NoSweep, Sweep, Status
<1>6. /\ sweep' \in [Process -> Sweep]
      /\ \A q \in Process : sweep'[q] = sweep[q] \/ sweep'[q] = NoSweep
  BY <1>5 DEF SweepFails, TypedInv, TypeOK
<1>7. TypeOK'
  BY <1>3, <1>4, <1>5, <1>6, BoundsKept DEF SweepFails, rowVars, TypedInv, TypeOK, Loops
<1>8. \A d \in Delegation : Kept(d)
  BY <1>3, AbortTyped DEF Kept
<1>9. ASSUME NEW q \in Process
      PROVE  ActiveOn(q) /\ CmdOn(q) /\ SweepOn(q)
  <2>1. /\ ActiveRefers(q) /\ CmdRefers(q) /\ active[q] \in Delegation \cup {NoDelegation}
        /\ cmd' = cmd
    BY DEF TypedInv, ReferInv, TypeOK, SweepFails
  <2>2. ActiveOn(q)
    <3>1. CASE q = p
      BY <1>4, <2>1, <3>1 DEF ActiveOn, ActiveRefers
    <3>2. CASE q # p
      BY <1>3, <1>4, <2>1, <3>2 DEF ActiveOn, ActiveRefers, Owned
    <3> QED
      BY <3>1, <3>2
  <2>3. CmdOn(q)
    <3>1. cmd[q].pc \in {"run", "connect"} => del'[cmd[q].del].pc = "new"
      BY <1>3, <2>1, AbortTyped DEF CmdRefers, NoLoop
    <3> QED
      BY <2>1, <3>1 DEF CmdOn, Early, CmdRefers
  <2> QED
    BY <1>6, <2>2, <2>3 DEF SweepOn
<1> QED
  BY <1>7, <1>8, <1>9, OnRefers DEF LogOn, SweepFails, Fault, rowVars

\* The sidecar exits, or the process crashes.
LEMMA SidecarExitsTyped ==
    ASSUME TypedInv, NEW p \in Process, SidecarExits(p)
    PROVE  TypedInv'
<1> DEFINE over == {d \in Delegation : del[d].pc = "wait" /\ del[d].proc = p}
<1>1. /\ queue' = [queue EXCEPT ![p] =
            [t \in Thread |-> [queue[p][t] EXCEPT !.closed = TRUE]]]
      /\ turn' = [turn EXCEPT ![p] = {}]
      /\ del' = [d \in Delegation |-> IF d \in over THEN NoLoop ELSE del[d]]
      /\ active' = [active EXCEPT ![p] = IF @ \in over THEN NoDelegation ELSE @]
  BY DEF SidecarExits
<1> HIDE DEF over
<1>2. \A t \in Thread : [queue[p][t] EXCEPT !.closed = TRUE] \in Queue
  <2>1. \A t \in Thread : queue[p][t] \in Queue
    BY DEF TypedInv, TypeOK
  <2> QED
    BY <2>1 DEF Queue
<1>3. /\ queue' \in [Process -> [Thread -> Queue]] /\ turn' \in [Process -> SUBSET Thread]
      /\ del' \in [Delegation -> Loop \cup {NoLoop}]
      /\ active' \in [Process -> Delegation \cup {NoDelegation}]
  BY <1>1, <1>2 DEF TypedInv, TypeOK
<1>4. TypeOK'
  BY <1>3, BoundsKept DEF SidecarExits, rowVars, TypedInv, TypeOK
<1>5. \A d \in Delegation : Kept(d)
  BY <1>1 DEF Kept
<1>6. ASSUME NEW q \in Process
      PROVE  ActiveOn(q) /\ CmdOn(q) /\ SweepOn(q)
  <2>1. /\ ActiveRefers(q) /\ CmdRefers(q) /\ active[q] \in Delegation \cup {NoDelegation}
        /\ cmd' = cmd /\ sweep' = sweep
        /\ active'[q] = IF q = p /\ active[q] \in over THEN NoDelegation ELSE active[q]
    BY <1>1 DEF TypedInv, ReferInv, TypeOK, SidecarExits
  <2>2. ActiveOn(q)
    BY <1>1, <2>1 DEF ActiveOn, ActiveRefers, over
  <2>3. CmdOn(q)
    BY <1>1, <2>1 DEF CmdOn, Early, CmdRefers, over
  <2> QED
    BY <2>1, <2>2, <2>3 DEF SweepOn
<1> QED
  BY <1>4, <1>5, <1>6, OnRefers DEF LogOn, SidecarExits, Fault, rowVars

LEMMA CrashTyped ==
    ASSUME TypedInv, NEW p \in Process, Crash(p)
    PROVE  TypedInv'
<1>1. NoQueue \in Queue /\ NoCmd \in Cmd /\ NoSweep \in Sweep
  BY DEF NoQueue, Queue, NoCmd, Cmd, NoSweep, Sweep, Status
<1>2. /\ queue' \in [Process -> [Thread -> Queue]] /\ turn' \in [Process -> SUBSET Thread]
      /\ active' \in [Process -> Delegation \cup {NoDelegation}]
      /\ cmd' \in [Process -> Cmd] /\ stop' \in [Process -> {"idle", "read", "write"}]
      /\ sweep' \in [Process -> Sweep]
  BY <1>1 DEF Crash, TypedInv, TypeOK
<1>3. /\ del' \in [Delegation -> Loop \cup {NoLoop}]
      /\ \A d \in Delegation :
           del'[d] = IF del[d] # NoLoop /\ del[d].proc = p THEN NoLoop ELSE del[d]
  BY DEF Crash, TypedInv, TypeOK
<1>4. /\ active'[p] = NoDelegation /\ cmd'[p] = NoCmd /\ sweep'[p] = NoSweep
      /\ \A q \in Process : q # p =>
           active'[q] = active[q] /\ cmd'[q] = cmd[q] /\ sweep'[q] = sweep[q]
  BY DEF Crash, TypedInv, TypeOK
<1>5. TypeOK'
  BY <1>2, <1>3, <1>4, BoundsKept DEF Crash, rowVars, TypedInv, TypeOK, NoSweep
<1>6. \A d \in Delegation : Kept(d)
  BY <1>3 DEF Kept
<1>7. ASSUME NEW q \in Process
      PROVE  ActiveOn(q) /\ CmdOn(q) /\ SweepOn(q)
  <2>1. /\ ActiveRefers(q) /\ CmdRefers(q) /\ active[q] \in Delegation \cup {NoDelegation}
    BY DEF TypedInv, ReferInv, TypeOK
  <2>2. ActiveOn(q)
    BY <1>3, <1>4, <2>1 DEF ActiveOn, ActiveRefers
  <2>3. CmdOn(q)
    <3>1. CASE q = p
      BY <1>4, <3>1 DEF CmdOn, Early, NoCmd
    <3>2. CASE q # p
      BY <1>3, <1>4, <2>1, <3>2 DEF CmdOn, Early, CmdRefers
    <3> QED
      BY <3>1, <3>2
  <2> QED
    BY <1>4, <2>2, <2>3 DEF SweepOn
<1> QED
  BY <1>5, <1>6, <1>7, OnRefers DEF LogOn, Crash, Fault, rowVars

LEMMA InitTyped == Init => TypedInv
<1> SUFFICES ASSUME Init PROVE TypedInv
  OBVIOUS
<1>1. NoQueue \in Queue /\ NoCmd \in Cmd /\ NoSweep \in Sweep
  BY DEF NoQueue, Queue, NoCmd, Cmd, NoSweep, Sweep, Status
<1>2. commands \in 0 .. MaxCommands /\ faults \in 0 .. MaxFaults
  BY HarnessAssumption DEF Init
<1>3. TypeOK
  BY <1>1, <1>2 DEF Init, TypeOK, Status, NoSweep
<1>4. StartedInv
  <2>1. UNION {log[t] : t \in Thread} = {}
    BY DEF Init
  <2>2. IsFiniteSet({})
    BY FS_EmptySet
  <2> QED
    BY <2>1, <2>2 DEF Init, StartedInv
<1>5. ReferInv
  BY DEF Init, ReferInv, ActiveRefers, CmdRefers, SweepRefers, NoCmd, NoSweep
<1> QED
  BY <1>3, <1>4, <1>5 DEF TypedInv

LEMMA NextTyped ==
    ASSUME TypedInv, [Next]_vars
    PROVE  TypedInv'
<1>1. CASE \E p \in Process : CmdStep(p)
  BY <1>1, StartThreadTyped, ResumeThreadTyped, CmdRunTyped, CmdConnectTyped, CmdTurnTyped, CmdResumeTyped
  DEF CmdStep
<1>2. CASE \E p \in Process : SweepStep(p)
  BY <1>2, SweepListTyped, SweepEventsTyped, SweepResumeTyped, SweepTakeTyped DEF SweepStep
<1>3. CASE \E p \in Process :
         \/ StartBegin(p) \/ ResumeBegin(p) \/ CmdFails(p)
         \/ Interrupt(p) \/ SweepFails(p) \/ SidecarExits(p) \/ Crash(p)
         \/ \E t \in Thread, kind \in Outcome : SidecarEnds(p, t, kind)
  BY <1>3, StartBeginTyped, ResumeBeginTyped, CmdFailsTyped, InterruptTyped, SweepFailsTyped,
     SidecarExitsTyped, CrashTyped, SidecarEndsTyped
<1>4. CASE \/ \E p \in Process : InterruptRead(p) \/ InterruptWrite(p)
           \/ CoordinatorClaims \/ (\E s \in {"over", "paused"} : CoordinatorEnds(s))
           \/ Cancel
  BY <1>4, RowStepsTyped
<1>5. CASE \E d \in Delegation : ConsumeStep(d) \/ ConsumeFails(d)
  BY <1>5, ConsumeStepsTyped
<1>6. CASE UNCHANGED vars
  <2>1. UNCHANGED <<connected, started>> /\ LogOn /\ TypeOK'
    BY <1>6 DEF vars, rowVars, bounds, TypedInv, TypeOK, LogOn
  <2>2. \A d \in Delegation : Kept(d)
    BY <1>6 DEF vars, Kept
  <2>3. ASSUME NEW p \in Process
        PROVE  ActiveOn(p) /\ CmdOn(p) /\ SweepOn(p)
    <3>1. ActiveRefers(p) /\ CmdRefers(p)
      BY DEF TypedInv, ReferInv
    <3> QED
      BY <1>6, <3>1 DEF vars, ActiveOn, CmdOn, Early, SweepOn, ActiveRefers, CmdRefers
  <2> QED
    BY <2>1, <2>2, <2>3, OnRefers
<1> QED
  BY <1>1, <1>2, <1>3, <1>4, <1>5, <1>6 DEF Next

-----------------------------------------------------------------------------
(* Where one process has the bridge, every step keeps the invariant.       *)

OneStarted == Cardinality(started) <= 1
Sound == SoundIn(log, queue, del, turn, cmd, sweep, OneStarted)

\* The numbers and queues of two states of which the types are known.
Typed2 == TypedInv /\ TypedInv'

\* What was started while the task has one thread is that thread.
LEMMA OneIsAll ==
    ASSUME TypedInv, OneStarted, NEW t \in started, NEW u \in started
    PROVE  t = u
<1>1. IsFiniteSet(started) /\ {t, u} \subseteq started
  BY DEF TypedInv, StartedInv
<1>2. Cardinality({t, u}) <= Cardinality(started)
  BY ONLY <1>1, FS_Subset
<1>3. ASSUME t # u
      PROVE  Cardinality({t, u}) = 2
  <2>1. IsFiniteSet({u}) /\ Cardinality({u}) = 1
    BY FS_Singleton
  <2>2. Cardinality({u} \cup {t}) = Cardinality({u}) + 1
    BY <1>3, <2>1, FS_AddElement
  <2>3. {u} \cup {t} = {t, u}
    OBVIOUS
  <2> QED
    BY <2>1, <2>2, <2>3
<1>4. Cardinality(started) \in Nat
  BY <1>1, FS_CardinalityType
<1> QED
  BY <1>2, <1>3, <1>4 DEF OneStarted

\* Then the number from which it is taken up is no further than what is persisted.
LEMMA LastIsClear ==
    ASSUME TypedInv, Sound, OneStarted, NEW t \in Thread, t \in started, NEW p \in Process
    PROVE  Clear(log, queue, p, t, LastExternalSequence)
<1> DEFINE n == LastExternalSequence
<1>1. n = 0 \/ \E u \in Thread : n \in log[u]
  BY LastIsLargest DEF TypedInv
<1> HIDE DEF n
<1>2. CASE n = 0
  <2>1. \A i \in DOMAIN queue[p][t].events : 0 < queue[p][t].events[i].seq
    BY DEF Sound, SoundIn, QueueIn
  <2>2. 0 <= queue[p][t].seq
    <3>1. queue[p][t].seq \in Nat
      BY QueueParts, StateParts DEF TypedInv
    <3> QED
      BY <3>1
  <2> QED
    BY <1>2, <2>1, <2>2 DEF Clear, n
<1>3. CASE \E u \in Thread : n \in log[u]
  <2>1. PICK u \in Thread : n \in log[u]
    BY <1>3
  <2>2. u = t
    BY <2>1, OneIsAll DEF TypedInv, StartedInv
  <2> QED
    BY <2>1, <2>2 DEF Sound, SoundIn, CursorIn, n
<1> QED
  BY <1>1, <1>2, <1>3

\* A thread that is worked on was counted.
LEMMA WorkedOnIsCounted ==
    ASSUME Sound, NEW p \in Process, NEW t \in Thread,
           \/ t \in turn[p] \/ Starts(cmd[p], t)
           \/ \E d \in Delegation : del[d] # NoLoop /\ del[d].thread = t /\ del[d].pc # "new"
    PROVE  Counted(log, queue, p, t)
BY DEF Sound, SoundIn, CountIn, Forgotten

\* Calls and turns that begin do so with a thread that was counted.
LEMMA CallsKeep ==
    ASSUME NEW L, NEW Q, NEW D, NEW T, NEW U, NEW C, NEW B, NEW S, NEW one,
           SoundIn(L, Q, D, T, C, S, one),
           \A p \in Process, t \in Thread :
              /\ t \in U[p] => t \in T[p] \/ Counted(L, Q, p, t)
              /\ Starts(B[p], t) => Starts(C[p], t) \/ Counted(L, Q, p, t)
    PROVE  SoundIn(L, Q, D, U, B, S, one)
<1>1. CountIn(L, Q, D, U, B, S)
  <2>1. CountIn(L, Q, D, T, C, S)
    BY DEF SoundIn
  <2> QED
    BY <2>1 DEF CountIn, Forgotten
<1> QED
  BY <1>1 DEF SoundIn

\* Steps that only end things, or move them on.
LEMMA RestSound ==
    ASSUME Typed2, Sound, log' = log, started' = started, Shut(queue, queue'),
           \A d \in Delegation : Calmer(del'[d], del[d]),
           Fewer(turn, turn', cmd, cmd', sweep, sweep')
    PROVE  Sound'
<1>1. \A d \in Delegation : del'[d] # NoLoop =>
        del'[d].thread \in Thread /\ del'[d].proc \in Process
  <2>1. del' \in Loops
    BY DEF Typed2, TypedInv, TypeOK, Loops
  <2> QED
    BY <2>1, LoopParts
<1>2. OneStarted' = OneStarted
  BY DEF OneStarted
<1>3. SoundIn(log, queue', del', turn', cmd', sweep', OneStarted)
  BY <1>1, RestsKeep DEF Sound
<1> QED
  BY <1>2, <1>3 DEF Sound

\* A loop that neither waits nor has an event in hand asks for the next.
LEMMA PullSound ==
    ASSUME Typed2, OneProcess, Sound, log' = log, started' = started,
           NEW d \in Delegation, NEW r \in Loop, NEW act, Pull(d, r, act),
           del[d] # NoLoop, del[d].pc \notin {"append", "wait"},
           del[d].proc = r.proc, del[d].thread = r.thread, del[d].after = r.after,
           Fewer(turn, turn', cmd, cmd', sweep, sweep')
    PROVE  Sound'
<1>1. /\ TypeOK /\ log \in Logs /\ del \in Loops /\ queue' \in Queues /\ del' \in Loops
      /\ Elsewhere(del, del, d)
  BY StateParts DEF Typed2, TypedInv, TypeOK, Queues, Loops, Elsewhere
<1>2. SoundIn(log, queue', del', turn, cmd, sweep, OneStarted)
  BY <1>1, PullKeeps DEF Sound
<1>3. \A e \in Delegation : Calmer(del'[e], del'[e])
  BY DEF Calmer
<1>4. \A e \in Delegation : del'[e] # NoLoop =>
        del'[e].thread \in Thread /\ del'[e].proc \in Process
  BY <1>1, LoopParts
<1>5. Shut(queue', queue')
  BY DEF Shut
<1>6. SoundIn(log, queue', del', turn', cmd', sweep', OneStarted)
  BY <1>2, <1>3, <1>4, <1>5, RestsKeep
<1> QED
  BY <1>6 DEF Sound, OneStarted

\* An event of a thread that was counted is published.
LEMMA PublishSound ==
    ASSUME Typed2, OneProcess, log' = log, started' = started, NEW Q \in Queues, NEW U,
           SoundIn(log, Q, del, U, cmd, sweep, OneStarted),
           NEW p \in Process, NEW t \in Thread, NEW kind \in Kind, NEW ds \in SUBSET Delegation,
           Counted(log, Q, p, t), Publish(Q, p, t, kind, ds),
           Fewer(U, turn', cmd, cmd', sweep, sweep')
    PROVE  Sound'
<1>1. TypeOK /\ del' \in Loops /\ \A q \in Process : sweep[q].after \in Nat
  BY StateParts DEF Typed2, TypedInv, TypeOK, Loops
<1>2. SoundIn(log, queue', del', U, cmd, sweep, OneStarted)
  BY <1>1, PublishKeeps
<1>3. \A e \in Delegation : Calmer(del'[e], del'[e])
  BY DEF Calmer
<1>4. \A e \in Delegation : del'[e] # NoLoop =>
        del'[e].thread \in Thread /\ del'[e].proc \in Process
  BY <1>1, LoopParts
<1>5. Shut(queue', queue')
  BY DEF Shut
<1>6. SoundIn(log, queue', del', turn', cmd', sweep', OneStarted)
  BY <1>2, <1>3, <1>4, <1>5, RestsKeep
<1> QED
  BY <1>6 DEF Sound, OneStarted

\* The steps that only end things.
LEMMA StartBeginSound ==
    ASSUME Typed2, Sound, NEW p \in Process, StartBegin(p)
    PROVE  Sound'
<1>1. cmd' = [cmd EXCEPT ![p].pc = "thread"] /\ cmd[p] \in Cmd
      /\ UNCHANGED <<log, queue, turn, sweep, del, started>>
  BY DEF StartBegin, Command, rowVars, Typed2, TypedInv, TypeOK
<1>2. cmd'[p].pc = "thread" /\ \A q \in Process : q # p => cmd'[q] = cmd[q]
  BY <1>1 DEF Cmd, Typed2, TypedInv, TypeOK
<1>3. Fewer(turn, turn', cmd, cmd', sweep, sweep')
  BY <1>1, <1>2 DEF Fewer, Starts
<1>4. Shut(queue, queue') /\ \A d \in Delegation : Calmer(del'[d], del[d])
  BY <1>1 DEF Shut, Calmer
<1> QED
  BY <1>1, <1>3, <1>4, RestSound

LEMMA ResumeBeginSound ==
    ASSUME Typed2, Sound, NEW p \in Process, ResumeBegin(p)
    PROVE  Sound'
<1>1. cmd' = [cmd EXCEPT ![p].pc = "events"] /\ cmd[p] \in Cmd
      /\ UNCHANGED <<log, queue, turn, sweep, del, started>>
  BY DEF ResumeBegin, Command, rowVars, Typed2, TypedInv, TypeOK
<1>2. cmd'[p].pc = "events" /\ \A q \in Process : q # p => cmd'[q] = cmd[q]
  BY <1>1 DEF Cmd, Typed2, TypedInv, TypeOK
<1>3. Fewer(turn, turn', cmd, cmd', sweep, sweep')
  BY <1>1, <1>2 DEF Fewer, Starts
<1>4. Shut(queue, queue') /\ \A d \in Delegation : Calmer(del'[d], del[d])
  BY <1>1 DEF Shut, Calmer
<1> QED
  BY <1>1, <1>3, <1>4, RestSound

LEMMA CmdRunSound ==
    ASSUME Typed2, Sound, NEW p \in Process, CmdRun(p)
    PROVE  Sound'
<1>1. cmd' = [cmd EXCEPT ![p].pc = "connect"] /\ cmd[p] \in Cmd /\ cmd[p].pc = "run"
      /\ UNCHANGED <<log, queue, turn, sweep, del, started>>
  BY DEF CmdRun, bounds, Typed2, TypedInv, TypeOK
<1>2. /\ cmd'[p].kind = cmd[p].kind /\ cmd'[p].thread = cmd[p].thread
      /\ \A q \in Process : q # p => cmd'[q] = cmd[q]
  BY <1>1 DEF Cmd, Typed2, TypedInv, TypeOK
<1>3. Fewer(turn, turn', cmd, cmd', sweep, sweep')
  BY <1>1, <1>2 DEF Fewer, Starts
<1>4. Shut(queue, queue') /\ \A d \in Delegation : Calmer(del'[d], del[d])
  BY <1>1 DEF Shut, Calmer
<1> QED
  BY <1>1, <1>3, <1>4, RestSound

LEMMA CmdFailsSound ==
    ASSUME Typed2, Sound, NEW p \in Process, CmdFails(p)
    PROVE  Sound'
<1>1. /\ UNCHANGED <<log, queue, turn, sweep, started>>
      /\ cmd'[p] = NoCmd /\ \A q \in Process : q # p => cmd'[q] = cmd[q]
  BY DEF CmdFails, Fault, rowVars, Typed2, TypedInv, TypeOK
<1>2. \A d \in Delegation :
        /\ del[d] \in Loop \cup {NoLoop}
        /\ del'[d] \in {NoLoop, Abort(del[d]), del[d]}
  BY DEF CmdFails, Typed2, TypedInv, TypeOK
<1>3. Fewer(turn, turn', cmd, cmd', sweep, sweep')
  BY <1>1 DEF Fewer, Starts, NoCmd
<1>4. Shut(queue, queue')
  BY <1>1 DEF Shut
<1>5. \A d \in Delegation : Calmer(del'[d], del[d])
  BY <1>2, AbortCalms DEF Calmer
<1> QED
  BY <1>1, <1>3, <1>4, <1>5, RestSound

LEMMA SweepListSound ==
    ASSUME Typed2, Sound, NEW p \in Process, SweepList(p)
    PROVE  Sound'
<1>1. sweep' = [sweep EXCEPT ![p] = [NoSweep EXCEPT !.pc = "events", !.status = status]]
      /\ UNCHANGED <<log, queue, turn, cmd, del, started>>
  BY DEF SweepList, rowVars, bounds
<1>2. sweep'[p].pc = "events" /\ \A q \in Process : q # p => sweep'[q] = sweep[q]
  BY <1>1 DEF NoSweep, Typed2, TypedInv, TypeOK
<1>3. Fewer(turn, turn', cmd, cmd', sweep, sweep')
  BY <1>1, <1>2 DEF Fewer, Reads
<1>4. Shut(queue, queue') /\ \A d \in Delegation : Calmer(del'[d], del[d])
  BY <1>1 DEF Shut, Calmer
<1> QED
  BY <1>1, <1>3, <1>4, RestSound

LEMMA SweepFailsSound ==
    ASSUME Typed2, Sound, NEW p \in Process, SweepFails(p)
    PROVE  Sound'
<1>1. /\ UNCHANGED <<log, queue, turn, cmd, started>>
      /\ sweep'[p] = NoSweep /\ \A q \in Process : q # p => sweep'[q] = sweep[q]
  BY DEF SweepFails, Fault, rowVars, Typed2, TypedInv, TypeOK
<1>2. \A d \in Delegation :
        /\ del[d] \in Loop \cup {NoLoop}
        /\ del'[d] \in {Abort(del[d]), del[d]}
  BY DEF SweepFails, Typed2, TypedInv, TypeOK
<1>3. Fewer(turn, turn', cmd, cmd', sweep, sweep')
  BY <1>1 DEF Fewer, Reads, NoSweep
<1>4. Shut(queue, queue')
  BY <1>1 DEF Shut
<1>5. \A d \in Delegation : Calmer(del'[d], del[d])
  BY <1>2, AbortCalms DEF Calmer
<1> QED
  BY <1>1, <1>3, <1>4, <1>5, RestSound

LEMMA SidecarExitsSound ==
    ASSUME Typed2, Sound, NEW p \in Process, SidecarExits(p)
    PROVE  Sound'
<1>1. /\ UNCHANGED <<log, cmd, sweep, started>>
      /\ turn'[p] = {} /\ \A q \in Process : q # p => turn'[q] = turn[q]
  BY DEF SidecarExits, Fault, rowVars, Typed2, TypedInv, TypeOK
<1>2. \A d \in Delegation : del'[d] \in {NoLoop, del[d]}
  BY DEF SidecarExits
<1>3. Shut(queue, queue')
  <2>1. \A t \in Thread : queue[p][t] \in Queue
    BY DEF Typed2, TypedInv, TypeOK
  <2>2. /\ \A t \in Thread : queue'[p][t] = [queue[p][t] EXCEPT !.closed = TRUE]
        /\ \A q \in Process : q # p => queue'[q] = queue[q]
    BY DEF SidecarExits, Typed2, TypedInv, TypeOK
  <2>3. \A t \in Thread : /\ queue'[p][t].closed
                          /\ queue'[p][t].events = queue[p][t].events
                          /\ queue'[p][t].seq = queue[p][t].seq
    BY <2>1, <2>2 DEF Queue
  <2> QED
    BY <2>2, <2>3 DEF Shut
<1>4. Fewer(turn, turn', cmd, cmd', sweep, sweep')
  BY <1>1 DEF Fewer
<1>5. \A d \in Delegation : Calmer(del'[d], del[d])
  BY <1>2 DEF Calmer
<1> QED
  BY <1>1, <1>3, <1>4, <1>5, RestSound

LEMMA RowStepsSound ==
    ASSUME Typed2, Sound,
           \/ \E p \in Process : InterruptRead(p) \/ InterruptWrite(p)
           \/ CoordinatorClaims \/ (\E s \in {"over", "paused"} : CoordinatorEnds(s))
           \/ Cancel \/ UNCHANGED vars
    PROVE  Sound'
<1>1. UNCHANGED <<log, queue, del, turn, cmd, sweep, started>>
  BY DEF InterruptRead, InterruptWrite, CoordinatorClaims, CoordinatorEnds, Cancel, Command,
     rowVars, bounds, vars
<1> QED
  BY <1>1 DEF Sound, OneStarted

\* Where one process has the bridge, a crash takes everything with it but what is
\* persisted.
LEMMA CrashSound ==
    ASSUME Typed2, OneProcess, NEW p \in Process, Crash(p)
    PROVE  Sound'
<1>1. \A q \in Process : q = p
  BY DEF OneProcess
<1>2. \A d \in Delegation : del'[d] = NoLoop
  <2>1. \A d \in Delegation : del[d] # NoLoop => del[d].proc = p
    BY <1>1, StateParts, LoopParts DEF Typed2, TypedInv
  <2> QED
    BY <2>1 DEF Crash
<1>3. /\ \A q \in Process : /\ \A t \in Thread : queue'[q][t] = NoQueue
                            /\ turn'[q] = {} /\ cmd'[q] = NoCmd /\ sweep'[q] = NoSweep
      /\ log' = log
  BY <1>1 DEF Crash, rowVars, Typed2, TypedInv, TypeOK
<1>4. HeldIn(log', queue', del') /\ WaitIn(queue', del')
  BY <1>2 DEF HeldIn, WaitIn, Holds, NoLoop
<1>5. \A q \in Process, t \in Thread :
        queue'[q][t].closed /\ queue'[q][t].events = <<>> /\ DOMAIN queue'[q][t].events = {}
  BY <1>3 DEF NoQueue
<1>6. QueueIn(log', queue', del')
  BY <1>5 DEF QueueIn
<1>7. CountIn(log', queue', del', turn', cmd', sweep')
  <2>1. \A q \in Process, t \in Thread : ~Starts(cmd'[q], t) /\ ~Reads(sweep'[q], t)
    BY <1>3 DEF Starts, Reads, NoCmd, NoSweep
  <2> QED
    BY <1>2, <1>3, <1>5, <2>1 DEF CountIn, Forgotten
<1>8. CursorIn(log', queue', del', sweep')
  <2>1. \A q \in Process, t \in Thread : ~Reads(sweep'[q], t)
    BY <1>3 DEF Reads, NoSweep
  <2>2. \A t \in Thread : \A n \in log'[t] : n \in Nat /\ n <= n
    BY DEF Typed2, TypedInv, TypeOK
  <2>3. \A q \in Process, t \in Thread : \A n \in log'[t] : Clear(log', queue', q, t, n)
    BY <1>5, <2>2 DEF Clear
  <2> QED
    BY <1>2, <2>1, <2>3 DEF CursorIn
<1> QED
  BY <1>4, <1>6, <1>7, <1>8 DEF Sound, SoundIn

\* A call gets its delegation: a thread that starts has nothing persisted.
LEMMA StartThreadSound ==
    ASSUME Typed2, Sound, NEW p \in Process, NEW d \in Delegation, NEW t \in Thread,
           StartThread(p, d, t)
    PROVE  Sound'
<1>1. /\ t \notin started /\ started' = started \cup {t} /\ log[t] = {} /\ log' = log
      /\ UNCHANGED <<turn, sweep>>
  BY DEF StartThread, rowVars, Typed2, TypedInv, StartedInv
<1>2. OneStarted' => OneStarted
  <2>1. Cardinality(started') = Cardinality(started) + 1 /\ Cardinality(started) \in Nat
    BY <1>1, FS_AddElement, FS_CardinalityType DEF Typed2, TypedInv, StartedInv
  <2> QED
    BY <2>1 DEF OneStarted
<1>3. /\ queue' \in Queues /\ Recounted(log, queue, queue', p, t)
  <2>1. [queue[p][t] EXCEPT !.closed = FALSE].seq = queue[p][t].seq
        /\ [queue[p][t] EXCEPT !.closed = FALSE].events = queue[p][t].events
        /\ queue[p] \in [Thread -> Queue] /\ queue[p][t].seq \in Nat
    <3>1. queue[p][t] \in Queue /\ queue[p] \in [Thread -> Queue]
      BY DEF Typed2, TypedInv, TypeOK
    <3> QED
      BY <3>1 DEF Queue
  <2>2. queue' = [queue EXCEPT ![p] = [queue[p] EXCEPT ![t] = [queue[p][t] EXCEPT !.closed = FALSE]]]
    BY DEF StartThread
  <2>3. queue'[p][t].seq = queue[p][t].seq /\ queue'[p][t].events = queue[p][t].events
        /\ \A q \in Process, u \in Thread : q # p \/ u # t => queue'[q][u] = queue[q][u]
    BY <2>1, <2>2 DEF Typed2, TypedInv, TypeOK
  <2>4. queue' \in Queues
    BY DEF Typed2, TypedInv, TypeOK, Queues
  <2> QED
    BY <1>1, <2>1, <2>3, <2>4 DEF Recounted, Counted
<1>4. SoundIn(log, queue', del, turn, cmd, sweep, OneStarted)
  BY <1>3, StateParts, ReopensKeep DEF Typed2, TypedInv, Sound
<1>5. SoundIn(log, queue', del, turn, cmd, sweep, OneStarted')
  BY <1>2, <1>4 DEF SoundIn
<1>6. SoundIn(log, queue', del', turn, cmd, sweep, OneStarted')
  <2>1. NewLoop(p, t, 0).pc = "new" /\ NewLoop(p, t, 0).thread = t /\ NewLoop(p, t, 0).after = 0
        /\ NewLoop(p, t, 0) # NoLoop
    BY NewLoopTyped
  <2>2. del' = [del EXCEPT ![d] = NewLoop(p, t, 0)] /\ del[d] = NoLoop
    BY FreshIsUnused DEF StartThread, Unused
  <2>3. Added(del, del', d, t, 0)
    BY <2>1, <2>2 DEF Added, Elsewhere, Typed2, TypedInv, TypeOK
  <2>4. \A q \in Process : Clear(log, queue', q, t, 0)
    <3>1. \A q \in Process : \A i \in DOMAIN queue'[q][t].events : 0 < queue'[q][t].events[i].seq
      BY <1>5 DEF SoundIn, QueueIn
    <3>2. \A q \in Process : queue'[q][t].seq \in Nat
      BY <1>3, QueueParts
    <3>3. \A q \in Process : 0 <= queue'[q][t].seq
      BY <3>2
    <3> QED
      BY <3>1, <3>3 DEF Clear
  <2> QED
    BY <1>5, <2>3, <2>4, AddsKeep
<1>7. \A q \in Process, u \in Thread :
        Starts(cmd'[q], u) => Starts(cmd[q], u) \/ Counted(log, queue', q, u)
  <2>1. cmd'[p].thread = t /\ \A q \in Process : q # p => cmd'[q] = cmd[q]
    BY DEF StartThread, Typed2, TypedInv, TypeOK
  <2> QED
    BY <1>1, <2>1 DEF Starts, Counted
<1>8. SoundIn(log, queue', del', turn, cmd', sweep, OneStarted')
  BY <1>6, <1>7, CallsKeep
<1> QED
  BY <1>1, <1>8 DEF Sound

LEMMA ResumeThreadSound ==
    ASSUME Typed2, Sound, NEW p \in Process, NEW d \in Delegation, ResumeThread(p, d)
    PROVE  Sound'
<1> DEFINE t == connected
           n == LastExternalSequence
<1>1. /\ t \in Thread /\ t \in started /\ n \in Nat
      /\ UNCHANGED <<log, queue, turn, sweep, started>>
  <2>1. t \in Thread /\ t \in started
    BY HarnessAssumption DEF ResumeThread, Typed2, TypedInv, ReferInv, CmdRefers, StartedInv
  <2> QED
    BY <2>1, LastIsLargest DEF ResumeThread, bounds, rowVars, Typed2, TypedInv
<1>2. del' = [del EXCEPT ![d] = NewLoop(p, t, n)] /\ del[d] = NoLoop
  BY FreshIsUnused DEF ResumeThread, Unused
<1>3. OneStarted => \A q \in Process : Clear(log, queue, q, t, n)
  BY <1>1, LastIsClear DEF Typed2
<1>4. cmd' = [cmd EXCEPT ![p] = [pc |-> "run", kind |-> "resume", thread |-> t, del |-> d]]
  BY DEF ResumeThread
<1> HIDE DEF t, n
<1>5. NewLoop(p, t, n).pc = "new" /\ NewLoop(p, t, n).thread = t /\ NewLoop(p, t, n).after = n
      /\ NewLoop(p, t, n) # NoLoop
  BY <1>1, NewLoopTyped
<1>6. Added(del, del', d, t, n)
  BY <1>2, <1>5 DEF Added, Elsewhere, Typed2, TypedInv, TypeOK
<1>7. SoundIn(log, queue, del', turn, cmd, sweep, OneStarted)
  BY <1>1, <1>3, <1>6, AddsKeep DEF Sound
<1>8. \A q \in Process, u \in Thread : Starts(cmd'[q], u) => Starts(cmd[q], u)
  <2>1. cmd'[p].kind = "resume" /\ \A q \in Process : q # p => cmd'[q] = cmd[q]
    BY <1>4 DEF Typed2, TypedInv, TypeOK
  <2> QED
    BY <2>1 DEF Starts
<1>9. SoundIn(log, queue, del', turn, cmd', sweep, OneStarted)
  BY <1>7, <1>8, CallsKeep
<1> QED
  BY <1>1, <1>9 DEF Sound, OneStarted

\* The calls that go on.
LEMMA CmdConnectSound ==
    ASSUME Typed2, OneProcess, Sound, NEW p \in Process, CmdConnect(p)
    PROVE  Sound'
<1> DEFINE d == cmd[p].del
           r == del[d]
<1>1. /\ CmdRefers(p) /\ cmd[p].pc = "connect" /\ cmd[p] \in Cmd
      /\ Pull(d, r, active) /\ cmd' = [cmd EXCEPT ![p].pc = "send"]
      /\ UNCHANGED <<log, turn, sweep, started>>
  BY DEF CmdConnect, bounds, Typed2, TypedInv, TypeOK, ReferInv
<1>2. /\ d \in Delegation /\ r.pc = "new" /\ r # NoLoop
  BY <1>1 DEF CmdRefers, NoLoop
<1>3. r \in Loop
  BY <1>2, StateParts, LoopParts DEF Typed2, TypedInv
<1>4. /\ cmd'[p].kind = cmd[p].kind /\ cmd'[p].thread = cmd[p].thread
      /\ \A q \in Process : q # p => cmd'[q] = cmd[q]
  BY <1>1 DEF Cmd, Typed2, TypedInv, TypeOK
<1>5. Fewer(turn, turn', cmd, cmd', sweep, sweep')
  BY <1>1, <1>4 DEF Fewer, Starts
<1> HIDE DEF d
<1> QED
  BY <1>1, <1>2, <1>3, <1>5, PullSound

LEMMA CmdTurnSound ==
    ASSUME Typed2, OneProcess, Sound, NEW p \in Process, CmdTurn(p)
    PROVE  Sound'
<1> DEFINE t == cmd[p].thread
<1>1. /\ cmd[p].pc = "send" /\ cmd[p].kind = "start" /\ t \in Thread
      /\ Publish(queue, p, t, "item", {})
      /\ UNCHANGED <<log, sweep, started>>
  BY DEF CmdTurn, rowVars, bounds, Typed2, TypedInv, ReferInv, CmdRefers
<1>2. Counted(log, queue, p, t)
  BY <1>1, WorkedOnIsCounted DEF Starts
<1>3. /\ \A q \in Process, u \in Thread : u \in turn'[q] => u \in turn[q] \/ (q = p /\ u = t)
      /\ cmd'[p] = NoCmd /\ \A q \in Process : q # p => cmd'[q] = cmd[q]
  BY DEF CmdTurn, Typed2, TypedInv, TypeOK
<1> HIDE DEF t
<1>4. SoundIn(log, queue, del, turn', cmd, sweep, OneStarted)
  BY <1>2, <1>3, CallsKeep DEF Sound
<1>5. Fewer(turn', turn', cmd, cmd', sweep, sweep')
  BY <1>1, <1>3 DEF Fewer, Starts, NoCmd
<1>6. queue \in Queues /\ "item" \in Kind /\ {} \in SUBSET Delegation
  BY StateParts DEF Typed2, TypedInv, Kind
<1> QED
  BY <1>1, <1>2, <1>4, <1>5, <1>6, PublishSound

LEMMA CmdResumeSound ==
    ASSUME Typed2, OneProcess, Sound, NEW p \in Process, CmdResume(p)
    PROVE  Sound'
<1> DEFINE t == cmd[p].thread
           n == LastExternalSequence
           R == Reopened(p, t, n)
<1>1. /\ t \in Thread /\ Publish(R, p, t, "item", {})
      /\ UNCHANGED <<log, turn, sweep, started>>
  BY DEF CmdResume, rowVars, bounds, Typed2, TypedInv, ReferInv, CmdRefers
<1>2. n \in Nat /\ \A m \in log[t] : m <= n
  BY <1>1, LastIsLargest DEF Typed2, TypedInv
<1>3. cmd'[p] = NoCmd /\ \A q \in Process : q # p => cmd'[q] = cmd[q]
  BY DEF CmdResume, Typed2, TypedInv, TypeOK
<1> HIDE DEF t, n
<1>4. R \in Queues /\ Recounted(log, queue, R, p, t)
  BY <1>1, <1>2, ReopenedTyped, StateParts DEF Typed2, TypedInv
<1> HIDE DEF R
<1>5. SoundIn(log, R, del, turn, cmd, sweep, OneStarted) /\ Counted(log, R, p, t)
  BY <1>1, <1>4, StateParts, ReopensKeep DEF Sound, Typed2, TypedInv, Recounted
<1>6. Fewer(turn, turn', cmd, cmd', sweep, sweep')
  BY <1>1, <1>3 DEF Fewer, Starts, NoCmd
<1>7. "item" \in Kind /\ {} \in SUBSET Delegation
  BY DEF Kind
<1> QED
  BY <1>1, <1>4, <1>5, <1>6, <1>7, PublishSound

LEMMA InterruptSound ==
    ASSUME Typed2, OneProcess, Sound, NEW p \in Process, Interrupt(p)
    PROVE  Sound'
<1> DEFINE d == active[p]
           t == del[d].thread
<1>1. /\ d \in Delegation /\ del[d] # NoLoop /\ del[d].pc # "new" /\ t \in Thread
      /\ Publish(queue, p, t, "turn.interrupted", {d})
      /\ UNCHANGED <<log, turn, cmd, sweep, started>>
  <2>1. d \in Delegation /\ del[d] # NoLoop /\ del[d].pc # "new"
    BY DEF Interrupt, Typed2, TypedInv, TypeOK, ReferInv, ActiveRefers
  <2>2. t \in Thread
    BY <2>1, StateParts, LoopParts DEF Typed2, TypedInv
  <2> QED
    BY <2>1, <2>2 DEF Interrupt, Command, rowVars
<1>2. Counted(log, queue, p, t)
  BY <1>1, WorkedOnIsCounted
<1> HIDE DEF d, t
<1>3. Fewer(turn, turn', cmd, cmd', sweep, sweep')
  BY <1>1 DEF Fewer
<1>4. queue \in Queues /\ "turn.interrupted" \in Kind /\ {d} \in SUBSET Delegation
  BY <1>1, StateParts DEF Typed2, TypedInv, Kind, Outcome
<1> QED
  BY <1>1, <1>2, <1>3, <1>4, PublishSound DEF Sound

LEMMA SidecarEndsSound ==
    ASSUME Typed2, OneProcess, Sound, NEW p \in Process, NEW t \in Thread, NEW kind \in Outcome,
           SidecarEnds(p, t, kind)
    PROVE  Sound'
<1>1. /\ Publish(queue, p, t, kind, {}) /\ UNCHANGED <<log, cmd, sweep, started>>
      /\ t \in turn[p]
  BY DEF SidecarEnds, rowVars, bounds
<1>2. Counted(log, queue, p, t)
  BY <1>1, WorkedOnIsCounted
<1>3. \A q \in Process : turn'[q] \subseteq turn[q]
  BY DEF SidecarEnds, Typed2, TypedInv, TypeOK
<1>4. Fewer(turn, turn', cmd, cmd', sweep, sweep')
  BY <1>1, <1>3 DEF Fewer
<1>5. queue \in Queues /\ kind \in Kind /\ {} \in SUBSET Delegation
  BY StateParts DEF Typed2, TypedInv, Kind
<1> QED
  BY <1>1, <1>2, <1>4, <1>5, PublishSound DEF Sound

\* The steps of a loop.
LEMMA ConsumeAppendSound ==
    ASSUME Typed2, OneProcess, Sound, NEW d \in Delegation, ConsumeAppend(d)
    PROVE  Sound'
<1> DEFINE r == del[d]
           D == [del EXCEPT ![d].pc = "settle"]
<1>1. /\ r \in Loop /\ r # NoLoop /\ r.pc = "append" /\ r.thread \in Thread
      /\ r.event.seq \in Nat
  <2>1. r.pc = "append" /\ r # NoLoop
    BY DEF ConsumeAppend, NoLoop
  <2> QED
    BY <2>1, StateParts, LoopParts DEF Typed2, TypedInv
<1>2. /\ log' = [log EXCEPT ![r.thread] = @ \cup {r.event.seq}]
      /\ Pull(d, r, active) \/ (del' = D /\ queue' = queue)
      /\ UNCHANGED <<turn, cmd, sweep, started>>
  BY DEF ConsumeAppend, bounds
<1>3. /\ D \in Loops /\ D[d] # NoLoop /\ D[d].pc = "settle" /\ D[d].proc = r.proc
      /\ D[d].thread = r.thread /\ D[d].after = r.after
      /\ \A e \in Delegation : e # d => D[e] = del[e]
  <2>1. [r EXCEPT !.pc = "settle"] \in Loop /\ [r EXCEPT !.pc = "settle"] # NoLoop
        /\ [r EXCEPT !.pc = "settle"].pc = "settle"
        /\ [r EXCEPT !.pc = "settle"].proc = r.proc
        /\ [r EXCEPT !.pc = "settle"].thread = r.thread
        /\ [r EXCEPT !.pc = "settle"].after = r.after
    BY <1>1 DEF Loop, NoLoop
  <2>2. D = [del EXCEPT ![d] = [r EXCEPT !.pc = "settle"]]
    OBVIOUS
  <2>3. D[d] = [r EXCEPT !.pc = "settle"]
    BY <2>2 DEF Typed2, TypedInv, TypeOK
  <2> QED
    BY <2>1, <2>2, <2>3 DEF Typed2, TypedInv, TypeOK, Loops
<1> HIDE DEF D
<1>4. /\ log \in Logs /\ queue \in Queues /\ del \in Loops /\ log' \in Logs
      /\ queue' \in Queues /\ del' \in Loops
  BY StateParts DEF Typed2, TypedInv, TypeOK, Logs, Queues, Loops
<1>5. Recorded(log, log', del, D, d)
  <2>1. log'[r.thread] = log[r.thread] \cup {r.event.seq}
        /\ \A t \in Thread : t # r.thread => log'[t] = log[t]
    BY <1>1, <1>2, <1>4 DEF Logs
  <2> QED
    BY <1>1, <1>3, <2>1 DEF Recorded, Elsewhere, SameThread
<1>6. SoundIn(log', queue, D, turn, cmd, sweep, OneStarted)
  BY <1>3, <1>4, <1>5, RecordsKeep DEF Sound
<1>7. CASE del' = D /\ queue' = queue
  BY <1>2, <1>6, <1>7 DEF Sound, OneStarted
<1>8. CASE Pull(d, r, active)
  <2>1. Elsewhere(del, D, d) /\ D[d].pc \notin {"append", "wait"}
    BY <1>3 DEF Elsewhere
  <2>2. TypeOK
    BY DEF Typed2, TypedInv
  <2>3. SoundIn(log', queue', del', turn, cmd, sweep, OneStarted)
    <3> HIDE DEF r
    <3> QED
      BY <1>1, <1>3, <1>4, <1>6, <1>8, <2>1, <2>2, PullKeeps
  <2> QED
    BY <1>2, <2>3 DEF Sound, OneStarted
<1> QED
  BY <1>2, <1>7, <1>8

\* A loop that moves or ends calms down.
LEMMA GoneSound ==
    ASSUME Typed2, Sound, NEW d \in Delegation, del[d] # NoLoop, del[d].pc # "new",
           End(d) \/ \E pc \in {"settle", "write", "lost", "pause"} : MovesTo(d, pc),
           UNCHANGED <<log, turn, cmd, sweep, started>>
    PROVE  Sound'
<1>1. queue' = queue /\ \A e \in Delegation : Calmer(del'[e], del[e])
  <2>1. CASE End(d)
    BY <2>1 DEF End, Calmer, Typed2, TypedInv, TypeOK
  <2>2. ASSUME NEW pc \in {"settle", "write", "lost", "pause"}, MovesTo(d, pc)
        PROVE  queue' = queue /\ \A e \in Delegation : Calmer(del'[e], del[e])
    <3>1. /\ Went(d) /\ del'[d] # NoLoop /\ del'[d].pc = pc /\ del'[d].proc = del[d].proc
          /\ del'[d].thread = del[d].thread /\ del'[d].after = del[d].after
          /\ del'[d].event = del[d].event
      BY <2>2, MovedTyped DEF Typed2
    <3> QED
      BY <2>2, <3>1 DEF Calmer, Went, MovesTo
  <2> QED
    BY <2>1, <2>2
<1>2. Shut(queue, queue') /\ Fewer(turn, turn', cmd, cmd', sweep, sweep')
  BY <1>1 DEF Shut, Fewer
<1> QED
  BY <1>1, <1>2, RestSound

LEMMA ConsumeStepsSound ==
    ASSUME Typed2, OneProcess, Sound, NEW d \in Delegation, ConsumeStep(d) \/ ConsumeFails(d)
    PROVE  Sound'
<1>1. del[d].pc # "free" => del[d] # NoLoop /\ del[d] \in Loop
  BY StateParts, LoopParts DEF Typed2, TypedInv, NoLoop
<1>2. CASE ConsumeAppend(d)
  BY <1>2, ConsumeAppendSound
<1>3. CASE ConsumeSettle(d)
  <2>1. /\ del[d].pc = "settle" /\ UNCHANGED <<log, turn, cmd, sweep, started>>
        /\ Pull(d, del[d], active) \/ MovesTo(d, "write")
    BY <1>3 DEF ConsumeSettle, MovesTo, rowVars, bounds
  <2>2. Fewer(turn, turn', cmd, cmd', sweep, sweep')
    BY <2>1 DEF Fewer
  <2>3. CASE Pull(d, del[d], active)
    BY <1>1, <2>1, <2>2, <2>3, PullSound
  <2>4. CASE MovesTo(d, "write")
    BY <1>1, <2>1, <2>4, GoneSound
  <2> QED
    BY <2>1, <2>3, <2>4
<1>4. CASE ConsumeOutcome(d)
  <2> DEFINE r == [del[d] EXCEPT !.aborted = TRUE]
  <2>1. /\ del[d].pc = "write" /\ UNCHANGED <<log, turn, cmd, sweep, started>>
        /\ Pull(d, r, Forget(active, d))
    BY <1>4 DEF ConsumeOutcome, bounds
  <2>2. r \in Loop /\ r.proc = del[d].proc /\ r.thread = del[d].thread /\ r.after = del[d].after
    BY <1>1, <2>1 DEF Loop
  <2>3. Fewer(turn, turn', cmd, cmd', sweep, sweep')
    BY <2>1 DEF Fewer
  <2> HIDE DEF r
  <2> QED
    BY <1>1, <2>1, <2>2, <2>3, PullSound
<1>5. CASE ConsumeFails(d)
  <2>1. /\ del[d].pc \in {"append", "settle", "write"} /\ UNCHANGED <<log, turn, cmd, sweep, started>>
        /\ End(d) \/ MovesTo(d, "lost")
    BY <1>5 DEF ConsumeFails, MovesTo, Fault, rowVars
  <2> QED
    BY <1>1, <2>1, GoneSound
<1>6. CASE ConsumeLost(d)
  <2>1. /\ del[d].pc = "lost" /\ UNCHANGED <<log, turn, cmd, sweep, started>>
        /\ End(d) \/ MovesTo(d, "pause")
    BY <1>6 DEF ConsumeLost, MovesTo, rowVars, bounds
  <2> QED
    BY <1>1, <2>1, GoneSound
<1>7. CASE ConsumePause(d)
  <2>1. /\ del[d].pc = "pause" /\ UNCHANGED <<log, turn, cmd, sweep, started>> /\ End(d)
    BY <1>7 DEF ConsumePause, bounds
  <2> QED
    BY <1>1, <2>1, GoneSound
<1> QED
  BY <1>2, <1>3, <1>4, <1>5, <1>6, <1>7 DEF ConsumeStep

\* The sweep.
LEMMA SweepEventsSound ==
    ASSUME Typed2, Sound, NEW p \in Process, SweepEvents(p)
    PROVE  Sound'
<1> DEFINE t == connected
           n == LastExternalSequence
<1>1. /\ t \in Thread /\ t \in started /\ UNCHANGED <<log, queue, del, turn, cmd, started>>
  BY HarnessAssumption DEF SweepEvents, rowVars, bounds, Typed2, TypedInv, ReferInv,
     SweepRefers, StartedInv
<1>2. \A m \in log[t] : m <= n
  BY <1>1, LastIsLargest DEF Typed2, TypedInv
<1>3. OneStarted => \A q \in Process : Clear(log, queue, q, t, n)
  BY <1>1, LastIsClear DEF Typed2
<1>4. Looked(sweep, sweep', p, t, n)
  BY DEF SweepEvents, Looked, Typed2, TypedInv, TypeOK
<1> HIDE DEF t, n
<1>5. SoundIn(log, queue, del, turn, cmd, sweep', OneStarted)
  BY <1>1, <1>2, <1>3, <1>4, LooksKeep DEF Sound
<1> QED
  BY <1>1, <1>5 DEF Sound, OneStarted

LEMMA SweepTakeSound ==
    ASSUME Typed2, OneProcess, Sound, NEW p \in Process, NEW d \in Delegation, SweepTake(p, d)
    PROVE  Sound'
<1> DEFINE t == sweep[p].thread
           n == sweep[p].after
           r == NewLoop(p, t, n)
           act == [active EXCEPT ![p] = d]
           D == [del EXCEPT ![d] = r]
<1>1. /\ Pull(d, r, act) /\ sweep[p].pc = "take" /\ del[d] = NoLoop
      /\ t \in Thread /\ n \in Nat /\ sweep[p] \in Sweep
      /\ UNCHANGED <<log, turn, cmd, started>>
      /\ sweep' = [sweep EXCEPT ![p] = [sweep[p] EXCEPT !.pc = "resume", !.del = d]]
  <2>1. d \in Unused
    BY FreshIsUnused DEF SweepTake
  <2> QED
    BY <2>1, StateParts DEF SweepTake, Unused, rowVars, bounds, Typed2, TypedInv, TypeOK
<1>2. /\ sweep'[p].thread = t /\ sweep'[p].after = n
      /\ \A q \in Process : q # p => sweep'[q] = sweep[q]
  <2>1. sweep'[p] = [sweep[p] EXCEPT !.pc = "resume", !.del = d]
    BY <1>1 DEF Typed2, TypedInv, TypeOK
  <2> QED
    BY <1>1, <2>1 DEF Sweep, Typed2, TypedInv, TypeOK
<1>3. Reads(sweep[p], t)
  BY <1>1 DEF Reads
<1>4. OneStarted => \A q \in Process : Clear(log, queue, q, t, n)
  BY <1>1, <1>3 DEF Sound, SoundIn, CursorIn, OneProcess
<1>5. Fewer(turn, turn', cmd, cmd', sweep, sweep')
  BY <1>1, <1>2 DEF Fewer, Reads
<1> HIDE DEF t, n
<1>6. /\ r \in Loop /\ r # NoLoop /\ r.pc = "new" /\ r.proc = p /\ r.thread = t /\ r.after = n
  BY <1>1, NewLoopTyped
<1> HIDE DEF r, act
<1>7. /\ D \in Loops /\ D[d] = r /\ \A e \in Delegation : e # d => D[e] = del[e]
  BY <1>6 DEF Typed2, TypedInv, TypeOK, Loops
<1> HIDE DEF D
<1>8. Added(del, D, d, t, n) /\ Elsewhere(del, D, d)
  BY <1>1, <1>6, <1>7 DEF Added, Elsewhere
<1>9. SoundIn(log, queue, D, turn, cmd, sweep, OneStarted)
  BY <1>1, <1>4, <1>8, AddsKeep DEF Sound
<1>10. /\ TypeOK /\ log \in Logs /\ queue' \in Queues /\ del' \in Loops
  BY StateParts DEF Typed2, TypedInv, TypeOK, Queues, Loops
<1>11. SoundIn(log, queue', del', turn, cmd, sweep, OneStarted)
  BY <1>1, <1>6, <1>7, <1>8, <1>9, <1>10, PullKeeps
<1>12. SoundIn(log, queue', del', turn', cmd', sweep', OneStarted)
  <2>1. Shut(queue', queue') /\ \A e \in Delegation : Calmer(del'[e], del'[e])
    BY DEF Shut, Calmer
  <2>2. \A e \in Delegation : del'[e] # NoLoop =>
          del'[e].thread \in Thread /\ del'[e].proc \in Process
    BY <1>10, LoopParts
  <2> QED
    BY <1>5, <1>11, <2>1, <2>2, RestsKeep
<1> QED
  BY <1>1, <1>12 DEF Sound, OneStarted

LEMMA SweepResumeSound ==
    ASSUME Typed2, OneProcess, Sound, NEW p \in Process, SweepResume(p)
    PROVE  Sound'
<1> DEFINE t == sweep[p].thread
           n == sweep[p].after
           R == Reopened(p, t, n)
<1>1. /\ t \in Thread /\ n \in Nat /\ Publish(R, p, t, "item", {}) /\ sweep[p].pc = "resume"
      /\ UNCHANGED <<log, turn, cmd, started>>
  BY StateParts DEF SweepResume, rowVars, bounds, Typed2, TypedInv, TypeOK
<1>2. Counted(log, queue, p, t) \/ \A m \in log[t] : m <= n
  BY <1>1 DEF Sound, SoundIn, CountIn, Forgotten, Reads
<1>3. sweep'[p] = NoSweep /\ \A q \in Process : q # p => sweep'[q] = sweep[q]
  BY DEF SweepResume, Typed2, TypedInv, TypeOK
<1> HIDE DEF t, n
<1>4. R \in Queues /\ Recounted(log, queue, R, p, t)
  BY <1>1, <1>2, ReopenedTyped, StateParts DEF Typed2, TypedInv
<1> HIDE DEF R
<1>5. SoundIn(log, R, del, turn, cmd, sweep, OneStarted) /\ Counted(log, R, p, t)
  BY <1>1, <1>4, StateParts, ReopensKeep DEF Sound, Typed2, TypedInv, Recounted
<1>6. Fewer(turn, turn', cmd, cmd', sweep, sweep')
  BY <1>1, <1>3 DEF Fewer, Reads, NoSweep
<1>7. "item" \in Kind /\ {} \in SUBSET Delegation
  BY DEF Kind
<1> QED
  BY <1>1, <1>4, <1>5, <1>6, <1>7, PublishSound

LEMMA InitSound == Init => Sound
<1> SUFFICES ASSUME Init PROVE Sound
  OBVIOUS
<1>1. /\ \A p \in Process : /\ \A t \in Thread : queue[p][t] = NoQueue
                            /\ turn[p] = {} /\ cmd[p] = NoCmd /\ sweep[p] = NoSweep
      /\ \A t \in Thread : log[t] = {}
      /\ \A d \in Delegation : del[d] = NoLoop
  BY DEF Init
<1>2. HeldIn(log, queue, del) /\ WaitIn(queue, del)
  BY <1>1 DEF HeldIn, WaitIn, Holds, NoLoop
<1>3. QueueIn(log, queue, del)
  BY <1>1 DEF QueueIn, NoQueue
<1>4. CountIn(log, queue, del, turn, cmd, sweep)
  BY <1>1 DEF CountIn, Counted
<1>5. CursorIn(log, queue, del, sweep)
  BY <1>1 DEF CursorIn, Reads, NoSweep
<1> QED
  BY <1>2, <1>3, <1>4, <1>5 DEF Sound, SoundIn

LEMMA NextSound ==
    ASSUME Typed2, OneProcess, Sound, [Next]_vars
    PROVE  Sound'
<1>1. CASE \E p \in Process : CmdStep(p)
  BY <1>1, StartThreadSound, ResumeThreadSound, CmdRunSound, CmdConnectSound, CmdTurnSound, CmdResumeSound
  DEF CmdStep
<1>2. CASE \E p \in Process : SweepStep(p)
  BY <1>2, SweepListSound, SweepEventsSound, SweepResumeSound, SweepTakeSound DEF SweepStep
<1>3. CASE \E p \in Process :
         \/ StartBegin(p) \/ ResumeBegin(p) \/ CmdFails(p)
         \/ Interrupt(p) \/ SweepFails(p) \/ SidecarExits(p) \/ Crash(p)
         \/ \E t \in Thread, kind \in Outcome : SidecarEnds(p, t, kind)
  BY <1>3, StartBeginSound, ResumeBeginSound, CmdFailsSound, InterruptSound, SweepFailsSound,
     SidecarExitsSound, CrashSound, SidecarEndsSound
<1>4. CASE \/ \E p \in Process : InterruptRead(p) \/ InterruptWrite(p)
           \/ CoordinatorClaims \/ (\E s \in {"over", "paused"} : CoordinatorEnds(s))
           \/ Cancel \/ UNCHANGED vars
  BY <1>4, RowStepsSound
<1>5. CASE \E d \in Delegation : ConsumeStep(d) \/ ConsumeFails(d)
  BY <1>5, ConsumeStepsSound
<1> QED
  BY <1>1, <1>2, <1>3, <1>4, <1>5 DEF Next

-----------------------------------------------------------------------------
(* The theorems.                                                           *)

\* However many processes have the bridge, whose calls interleave, fail and are cut
\* off by crashes: what the map, a call or a sweep refers to is a delegation of its
\* own process that is there, and nothing is persisted or bound of a thread that was
\* not started.
THEOREM BridgeTyped == Spec => [](TypeOK /\ ReferInv /\ StartedInv)
<1>1. TypedInv /\ [Next]_vars => TypedInv'
  BY NextTyped
<1> QED
  BY <1>1, InitTyped, PTL DEF Spec, TypedInv

\* Where one process has the bridge, the event in a loop's hand is still to be
\* persisted and in no other hand, queues are in order and have nothing that is
\* persisted, and the adapter has counted past what is persisted, or is made to
\* before it publishes anything of the thread again.
THEOREM BridgeCorrect == OneProcess /\ Spec => []BridgeInv
<1>1. TypedInv /\ [Next]_vars => TypedInv'
  BY NextTyped
<1>2. CASE OneProcess
  <2>1. Sound /\ TypedInv /\ TypedInv' /\ [Next]_vars => Sound'
    BY <1>2, NextSound DEF Typed2
  <2>2. TypedInv /\ Sound => BridgeInv
    BY DEF TypedInv, Sound, OneStarted, BridgeInv
  <2> QED
    BY <1>1, <2>1, <2>2, InitTyped, InitSound, PTL DEF Spec
<1> QED
  BY <1>2

\* Where one process has the bridge, an event of a thread is persisted once, over
\* however many interrupts, reconnects and restarts of the process.
THEOREM PersistedOnce == OneProcess /\ Spec => EventsPersistedOnce
<1>1. ASSUME BridgeInv, NEW d \in Delegation, ConsumeAppend(d)
      PROVE  del[d].event.seq \notin log[del[d].thread]
  <2>1. del[d].pc = "append" /\ del[d].thread \in Thread
    <3>1. del[d].pc = "append" /\ del[d] # NoLoop
      BY <1>1 DEF ConsumeAppend, NoLoop
    <3> QED
      BY <1>1, <3>1, StateParts, LoopParts DEF BridgeInv
  <2>2. HeldIn(log, queue, del)
    BY <1>1 DEF BridgeInv, SoundIn
  <2> QED
    BY <2>1, <2>2 DEF HeldIn, Holds
<1>2. BridgeInv => \A d \in Delegation :
        ConsumeAppend(d) => del[d].event.seq \notin log[del[d].thread]
  BY <1>1
<1> QED
  BY <1>2, BridgeCorrect, PTL DEF EventsPersistedOnce

\* Where one process has the bridge and the task has one thread, no cursor passes an
\* event that is still queued: the outcome of a turn reaches the loop that is to
\* settle the task.
THEOREM NothingIsStranded == OneProcess /\ Spec => []NoEventIsStranded
<1>1. BridgeInv => NoEventIsStranded
  <2> SUFFICES ASSUME BridgeInv, NEW p \in Process, active[p] # NoDelegation,
                      Cardinality(started) <= 1
               PROVE  Later(del[active[p]]) =
                        DOMAIN queue[p][del[active[p]].thread].events
    BY DEF NoEventIsStranded
  <2> DEFINE r == del[active[p]]
  <2>1. active[p] \in Delegation /\ r # NoLoop /\ r.proc = p
    BY DEF BridgeInv, TypeOK, ReferInv, ActiveRefers
  <2>2. r.thread \in Thread /\ r.after \in Nat /\ queue \in Queues
    BY <2>1, StateParts, LoopParts DEF BridgeInv
  <2>3. Clear(log, queue, p, r.thread, r.after)
    BY <2>1 DEF BridgeInv, SoundIn, CursorIn
  <2> HIDE DEF r
  <2>4. \A i \in DOMAIN queue[p][r.thread].events :
          queue[p][r.thread].events[i].seq \in Nat /\ r.after < queue[p][r.thread].events[i].seq
    BY <2>2, <2>3, QueueParts DEF Clear
  <2>5. Later(r) = DOMAIN queue[p][r.thread].events
    BY <2>1, <2>2, <2>4 DEF Later
  <2> QED
    BY <2>5 DEF r
<1> QED
  BY <1>1, BridgeCorrect, PTL
=============================================================================
