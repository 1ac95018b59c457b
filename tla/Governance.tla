----------------------------- MODULE Governance -----------------------------
(***************************************************************************)
(* Tool governance of one tenant (enterpriseGovernance.ts): how many calls *)
(* of external tools may run at once and per window, and a circuit breaker *)
(* for every tool source.  A call reserves a slot, enters the provider,    *)
(* reports how it went and gives the slot back (businessCapabilities.ts);  *)
(* each of the four is one transaction of the store, and everything may    *)
(* happen in between.                                                      *)
(*                                                                         *)
(* A reservation is a row with a lease.  The lease of a call whose process *)
(* died runs out, and the next reservation takes the row away; so may that *)
(* of a call that is alive but late, which then goes on without a slot.    *)
(*                                                                         *)
(* Every store operation first brings the tenant's usage up to date, so    *)
(* "used" is what ensureUsage would return.  Counts that the code compares *)
(* with a threshold stop at that threshold.                                *)
(***************************************************************************)
EXTENDS Integers, FiniteSets

CONSTANTS
    Call,          \* calls in flight; one is reused when its row is gone
    Source,        \* tool sources
    Window,        \* quota windows: hour and month
    Policies,      \* governance policies a manager may set
    Threshold,     \* AXIOM_TOOL_CIRCUIT_FAILURE_THRESHOLD
    Recovery,      \* AXIOM_TOOL_CIRCUIT_RECOVERY_THRESHOLD
    LeaseTicks,    \* callLeaseMs, in ticks
    CooldownTicks, \* AXIOM_TOOL_CIRCUIT_COOLDOWN_MS, in ticks
    NoLease,       \* the lease of a call without a row
    MaxGeneration, \* bound: times a circuit opens
    MaxUsed        \* bound: calls in a window without a limit

Policy == [concurrent : Nat \ {0}, limit : [Window -> Nat]]
Lease == [source : Source, time : 0 .. LeaseTicks, probe : BOOLEAN,
          recorded : BOOLEAN, generation : Nat]

ASSUME GovernanceAssumption ==
    /\ {Threshold, Recovery, LeaseTicks, CooldownTicks} \subseteq Nat \ {0}
    /\ {MaxGeneration, MaxUsed} \subseteq Nat
    /\ IsFiniteSet(Call)
    /\ Policies \subseteq Policy
    /\ Policies # {}
    /\ NoLease \notin Lease

VARIABLES
    policy,  \* the tenant's policy
    used,    \* Window -> hour_calls, month_calls
    active,  \* active_calls
    lease,   \* Call -> its row in axiom_tool_call_leases
    health,  \* Source -> its row in axiom_tool_health
    pc,      \* Call -> how far the call is
    current, \* Source -> calls granted since its circuit last opened (history)
    earned   \* Source -> successes those calls reported in time (history)

usageVars == <<policy, used>>
historyVars == <<current, earned>>
vars == <<usageVars, active, lease, health, pc, historyVars>>

Status == {"healthy", "degraded", "open", "half-open"}
Health == [status : Status, failures : 0 .. Threshold, successes : 0 .. Recovery,
           generation : Nat, cooldown : 0 .. CooldownTicks]
Healthy == [status |-> "healthy", failures |-> 0, successes |-> 0,
            generation |-> 0, cooldown |-> 0]

TypeOK ==
    /\ policy \in Policies
    /\ used \in [Window -> Nat]
    /\ active \in Nat
    /\ lease \in [Call -> Lease \cup {NoLease}]
    /\ health \in [Source -> Health]
    /\ pc \in [Call -> {"idle", "calling", "reported"}]
    /\ current \in [Source -> SUBSET Call]
    /\ earned \in [Source -> Nat]

Init ==
    /\ policy \in Policies
    /\ used = [w \in Window |-> 0]
    /\ active = 0
    /\ lease = [c \in Call |-> NoLease]
    /\ health = [s \in Source |-> Healthy]
    /\ pc = [c \in Call |-> "idle"]
    /\ current = [s \in Source |-> {}]
    /\ earned = [s \in Source |-> 0]

-----------------------------------------------------------------------------
(* Slots.                                                                  *)

Live(c) == lease[c] # NoLease /\ lease[c].time > 0

\* Mistake: rows whose lease has run out are kept.
KeptForEver(c) == lease[c] # NoLease

\* reconcileLeases keeps the rows whose lease has not run out ...
Kept(c) == Live(c)

Reconciled == [c \in Call |-> IF Kept(c) THEN lease[c] ELSE NoLease]

\* ... and counts them again.
Slots(rows) == Cardinality({c \in Call : rows[c] # NoLease})

\* The quotas; a limit of 0 (only for the month) is none.
WithinLimits ==
    /\ \A w \in Window : policy.limit[w] > 0 => used[w] < policy.limit[w]
    /\ Slots(Reconciled) < policy.concurrent

-----------------------------------------------------------------------------
(* The circuit breaker of a source.                                        *)

\* Mistake: the probe that is under way is not looked for.
UntestedHalfOpen(s) == TRUE

\* No probe of s is under way: none has a row and is yet to report.
Untested(s) ==
    \A c \in Call :
      Kept(c) /\ lease[c].source = s /\ lease[c].probe => lease[c].recorded

Admits(s) ==
    /\ health[s].status = "open" => health[s].cooldown = 0
    /\ health[s].status = "half-open" => Untested(s)

AtMost(n, max) == IF n > max THEN max ELSE n

Tests(h) == h.status \in {"open", "half-open"}

\* A success closes a circuit that is not being tested, or that has now been
\* tested often enough.
Closes(h) == h.status = "half-open" => h.successes + 1 >= Recovery

AfterSuccess(h) ==
    [status |-> IF Closes(h) THEN "healthy" ELSE h.status,
     failures |-> 0,
     successes |-> AtMost(h.successes + 1, Recovery),
     generation |-> h.generation,
     cooldown |-> 0]

\* A failed probe opens the circuit, and so do enough failures in a row.
Trips(h) == h.status = "half-open" \/ h.failures + 1 >= Threshold

\* Mistake: successes from before the circuit opened count as tests.
OpenedKeepingSuccesses(h) ==
    [status |-> "open",
     failures |-> AtMost(h.failures + 1, Threshold),
     successes |-> h.successes,
     generation |-> h.generation + 1,
     cooldown |-> CooldownTicks]

Opened(h) ==
    [status |-> "open",
     failures |-> AtMost(h.failures + 1, Threshold),
     successes |-> 0,
     generation |-> h.generation + 1,
     cooldown |-> CooldownTicks]

Degraded(h) ==
    [status |-> "degraded",
     failures |-> h.failures + 1,
     successes |-> 0,
     generation |-> h.generation,
     cooldown |-> 0]

\* The report of c changes the health of its source.
Counts(c) ==
    LET h == health[lease[c].source]
    IN  /\ Live(c) /\ ~lease[c].recorded
        /\ lease[c].generation = h.generation
        /\ h.status # "open"
        /\ h.status = "half-open" => lease[c].probe

-----------------------------------------------------------------------------
(* The calls.                                                              *)

\* reserveToolCall; a call that is refused changes nothing (ROLLBACK).
Reserve(c, s) ==
    /\ pc[c] = "idle" /\ ~Kept(c)
    /\ Admits(s)
    /\ WithinLimits
    /\ \A w \in Window : used[w] < MaxUsed
    /\ lease' = [Reconciled EXCEPT ![c] =
                   [source |-> s, time |-> LeaseTicks, probe |-> Tests(health[s]),
                    recorded |-> FALSE, generation |-> health[s].generation]]
    /\ active' = Slots(Reconciled) + 1
    /\ used' = [w \in Window |-> used[w] + 1]
    /\ health' = [health EXCEPT ![s].status = IF @ = "open" THEN "half-open" ELSE @]
    /\ pc' = [pc EXCEPT ![c] = "calling"]
    /\ current' = [current EXCEPT ![s] = @ \cup {c}]
    /\ UNCHANGED <<policy, earned>>

\* The row of c has its outcome and accepts no other.
Recorded(c) ==
    lease' = IF Live(c) THEN [lease EXCEPT ![c].recorded = TRUE] ELSE lease

\* Mistake: the heartbeat goes on when the call has ended.
RenewsForEver(c) == TRUE

\* keepToolCallLease runs until the slot is given back.
Renews(c) == pc[c] # "idle"

\* renewToolCall: a lease that has run out stays so.
Renew(c) ==
    /\ Renews(c)
    /\ Live(c)
    /\ lease' = [lease EXCEPT ![c].time = LeaseTicks]
    /\ UNCHANGED <<usageVars, active, health, pc, historyVars>>

\* recordToolOutcome, of a call that went well ...
ReportSuccess(c) ==
    LET s == lease[c].source
    IN  /\ pc[c] = "calling" /\ Counts(c)
        /\ Recorded(c)
        /\ health' = [health EXCEPT ![s] = AfterSuccess(@)]
        /\ earned' = IF c \in current[s] THEN [earned EXCEPT ![s] = AtMost(@ + 1, Recovery)]
                                         ELSE earned
        /\ pc' = [pc EXCEPT ![c] = "reported"]
        /\ UNCHANGED <<usageVars, active, current>>

\* ... of one that did not, or whose receipt could not be saved ...
ReportFailure(c) ==
    LET s == lease[c].source
        h == health[s]
    IN  /\ pc[c] = "calling" /\ Counts(c)
        /\ Recorded(c)
        /\ pc' = [pc EXCEPT ![c] = "reported"]
        /\ \/ /\ ~Trips(h)
              /\ health' = [health EXCEPT ![s] = Degraded(h)]
              /\ UNCHANGED historyVars
           \/ /\ Trips(h)
              /\ h.generation < MaxGeneration
              /\ health' = [health EXCEPT ![s] = Opened(h)]
              /\ current' = [current EXCEPT ![s] = {}]
              /\ earned' = [earned EXCEPT ![s] = 0]
        /\ UNCHANGED <<usageVars, active>>

\* ... and of one whose report comes too late to count.
ReportIgnored(c) ==
    /\ pc[c] = "calling" /\ (Live(c) => ~Counts(c))
    /\ Recorded(c)
    /\ pc' = [pc EXCEPT ![c] = "reported"]
    /\ UNCHANGED <<usageVars, active, health, historyVars>>

\* A report the store rejects is given up.
ReportFails(c) ==
    /\ pc[c] = "calling"
    /\ pc' = [pc EXCEPT ![c] = "reported"]
    /\ UNCHANGED <<usageVars, active, lease, health, historyVars>>

Over(c) ==
    /\ pc' = [pc EXCEPT ![c] = "idle"]
    /\ current' = [s \in Source |-> current[s] \ {c}]

SlotsAfterRelease(rows) == Slots(rows)

\* releaseToolCall deletes the row, if it is still there, and counts again ...
Release(c) ==
    LET rows == [Reconciled EXCEPT ![c] = NoLease]
    IN  /\ pc[c] = "reported"
        /\ lease' = rows
        /\ active' = SlotsAfterRelease(rows)
        /\ Over(c)
        /\ UNCHANGED <<usageVars, health, earned>>

\* ... or fails, and the row stays until its lease runs out.
ReleaseFails(c) ==
    /\ pc[c] = "reported"
    /\ Over(c)
    /\ UNCHANGED <<usageVars, active, lease, health, earned>>

Crash(c) ==
    /\ pc[c] \in {"calling", "reported"}
    /\ Over(c)
    /\ UNCHANGED <<usageVars, active, lease, health, earned>>

-----------------------------------------------------------------------------
(* The tenant.                                                             *)

\* GET /governance: snapshot reconciles too.
Snapshot ==
    /\ lease' = Reconciled
    /\ active' = Slots(Reconciled)
    /\ UNCHANGED <<usageVars, health, pc, historyVars>>

\* PATCH /governance/policy, when the revision it was read at is still there.
UpdatePolicy(p) ==
    /\ policy' = p
    /\ UNCHANGED <<used, active, lease, health, pc, historyVars>>

\* A new hour, or month, begins: ensureUsage starts its count again.
NewWindow(w) ==
    /\ used' = [used EXCEPT ![w] = 0]
    /\ UNCHANGED <<policy, active, lease, health, pc, historyVars>>

Sooner(n) == IF n > 0 THEN n - 1 ELSE 0

Tick ==
    /\ \/ \E c \in Call : Live(c)
       \/ \E s \in Source : health[s].cooldown > 0
    /\ lease' = [c \in Call |-> IF Live(c) THEN [lease[c] EXCEPT !.time = @ - 1]
                                           ELSE lease[c]]
    /\ health' = [s \in Source |-> [health[s] EXCEPT !.cooldown = Sooner(@)]]
    /\ UNCHANGED <<usageVars, active, pc, historyVars>>

Report(c) == ReportSuccess(c) \/ ReportFailure(c) \/ ReportIgnored(c) \/ ReportFails(c)

Next ==
    \/ \E c \in Call :
         \/ \E s \in Source : Reserve(c, s)
         \/ Renew(c)
         \/ ReportSuccess(c)
         \/ ReportFailure(c)
         \/ ReportIgnored(c)
         \/ ReportFails(c)
         \/ Release(c)
         \/ ReleaseFails(c)
         \/ Crash(c)
    \/ Snapshot
    \/ \E p \in Policies : UpdatePolicy(p)
    \/ \E w \in Window : NewWindow(w)
    \/ Tick

Spec == Init /\ [][Next]_vars

\* Time passes, and a call that is alive ends: the provider is given 30
\* seconds and the store answers or fails.
Fairness ==
    /\ WF_vars(Tick)
    /\ \A c \in Call : WF_vars(Report(c)) /\ WF_vars(Release(c) \/ ReleaseFails(c))

FairSpec == Spec /\ Fairness

-----------------------------------------------------------------------------
(* Properties.                                                             *)

\* A lease that is still to report the outcome of a probe.
Probing(c) == Live(c) /\ lease[c].probe /\ ~lease[c].recorded

\* active_calls is the number of rows.
SlotInv == active = Slots(lease)

\* A probe that may still report belongs to the test that is going on, and no
\* source has two of them.
ProbeInv ==
    \A c \in Call : Probing(c) =>
      /\ health[lease[c].source].status = "half-open"
      /\ lease[c].generation = health[lease[c].source].generation
      /\ \A d \in Call : Probing(d) /\ lease[d].source = lease[c].source => d = c

\* The generation of a row says whether the circuit has opened since.
GenerationInv ==
    /\ \A c \in Call : lease[c] # NoLease =>
         lease[c].generation <= health[lease[c].source].generation
    /\ \A c \in Call : pc[c] = "calling" /\ Live(c) =>
         /\ ~lease[c].recorded
         /\ lease[c].generation = health[lease[c].source].generation
              => c \in current[lease[c].source]
    /\ \A s \in Source : \A c \in current[s] :
         /\ pc[c] # "idle"
         /\ lease[c] # NoLease => lease[c].source = s

\* Nothing is granted while the circuit is open, and only probes are while it
\* is tested; each success that counts has been reported.
RecoveryInv ==
    \A s \in Source :
      /\ health[s].status = "open" => current[s] = {} /\ health[s].successes = 0
      /\ health[s].status = "half-open" =>
           /\ \A c \in current[s] : lease[c] # NoLease => lease[c].probe
           /\ health[s].successes <= earned[s]

\* What the store and the calls keep true between their transactions; the
\* theorems of GovernanceProofs rest on it.
GovernanceInv == SlotInv /\ ProbeInv /\ GenerationInv /\ RecoveryInv

\* While a circuit is half-open at most one call with a slot is in the
\* provider, whatever calls of earlier days are still under way and however
\* many probes have died (reserveToolCall, "not-half-open").
OneProbe ==
    \A s \in Source : health[s].status = "half-open" =>
      \A c, d \in current[s] :
        pc[c] = "calling" /\ Live(c) /\ pc[d] = "calling" /\ Live(d) => c = d

\* A call that was granted before the circuit last opened, or whose lease has
\* run out, changes the health of no source (recordToolOutcome's generation
\* and lease).
OldCallsArePowerless ==
    [][\A c \in Call :
         /\ pc[c] = "calling" /\ pc'[c] = "reported"
         /\ Live(c) => c \notin current[lease[c].source]
         => health' = health]_vars

\* A circuit that was open closes only on Recovery successes of calls that
\* were granted after it opened, with no failure among them.
RecoveryIsEarned ==
    [][\A s \in Source :
         health[s].status = "half-open" /\ health'[s].status = "healthy"
         => earned'[s] >= Recovery]_vars

\* No circuit refuses calls for ever, though probes die in the provider: it
\* cools down, and the lease of a dead probe runs out.
CircuitAdmitsAgain == \A s \in Source : ~Admits(s) ~> Admits(s)

\* No dead call keeps its slot.
SlotsReturn == (Slots(Reconciled) >= policy.concurrent) ~> (Slots(Reconciled) < policy.concurrent)
=============================================================================
