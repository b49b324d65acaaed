-------------------------- MODULE McpLeaseProofs --------------------------
(***************************************************************************)
(* Theorems about McpLease, for any operations, leases, requests, deadlines *)
(* and bounds: no run outlives its lease unseen, a revocation or a         *)
(* cancellation that is remembered reaches every run it is about, and what *)
(* is recorded of a stopped run names its cause.                           *)
(***************************************************************************)
EXTENDS McpLease, TLAPS

(***************************************************************************)
(* Type correctness.                                                       *)
(***************************************************************************)
LEMMA EarliestTyped ==
  ASSUME NEW a \in Nat, NEW b \in Nat
  PROVE  Earliest({a, b}) \in Nat
<1>1. CASE a = 0 /\ b = 0
  BY <1>1 DEF Earliest
<1>2. CASE ~(a = 0 /\ b = 0)
  <2> DEFINE S == {a, b} \ {0}
  <2>1. PICK m \in S : \A y \in S : m <= y
    <3>1. CASE a # 0 /\ (b = 0 \/ a <= b)
      BY <3>1
    <3>2. CASE b # 0 /\ (a = 0 \/ b <= a)
      BY <3>2
    <3>3. QED
      BY <1>2, <3>1, <3>2
  <2>2. Min(S) \in S
    BY <2>1 DEF Min
  <2>3. ~({a, b} \subseteq {0})
    BY <1>2
  <2>4. QED
    BY <2>2, <2>3 DEF Earliest
<1>3. QED
  BY <1>1, <1>2

LEMMA ExtendedTyped ==
  ASSUME NEW d \in Nat, NEW e \in Nat
  PROVE  Extended(d, e) \in Nat
BY DEF Extended

LEMMA RequestTyped ==
  ASSUME LeaseTypeOK, NEW t \in Tasks
  PROVE  /\ req[t] \in Request
         /\ req[t].lease \in Leases \cup {NoLease}
         /\ req[t].end \in Nat
         /\ RunDeadline(req[t]) \in Nat
<1>1. req[t] \in Request
  BY LeaseAssumption DEF LeaseTypeOK
<1>2. req[t].leaseEnd \in Nat /\ req[t].end \in Nat
  BY <1>1 DEF Request
<1>3. RunDeadline(req[t]) \in Nat
  BY <1>2, EarliestTyped DEF RunDeadline
<1>4. QED
  BY <1>1, <1>2, <1>3 DEF Request

HoldStates == [open : BOOLEAN, deadline : Nat, cancels : SUBSET Tasks]

ExpirerStates == [stage : {"none", "look", "compare", "expire", "cancel"},
                  deadline : Nat, cancels : SUBSET Tasks]

(***************************************************************************)
(* The inductive invariant.  An operation that is not registered yet has   *)
(* touched nothing; only an expirer that is cancelling has runs to cancel; *)
(* a watcher watches a lease; and an open hold has a watcher.              *)
(***************************************************************************)
Untouched ==
  \A t \in Tasks : stage[t] \in {"idle", "accepted", "cleared"} =>
    runs[t] = "none" /\ ctx[t] = "none" /\ expirers[t] = Idle

CancelsWhileCancelling ==
  \A x \in Expirers : expirers[x].stage # "cancel" => expirers[x].cancels = {}

WatchersHaveLeases ==
  \A t \in Tasks : expirers[t].stage # "none" => req[t].lease \in Leases

HoldsAreWatched == \A l \in Leases : holds[l].open => Watched(l)

RunsAreHeld ==
  \A t \in Tasks : Running(t) /\ req[t].lease \in Leases =>
    t \in holds[req[t].lease].cancels \/ BeingCancelled(t)

LeaseInv ==
  /\ LeaseTypeOK
  /\ Untouched
  /\ CancelsWhileCancelling
  /\ WatchersHaveLeases
  /\ HoldsAreWatched
  /\ RunsAreHeld
  /\ RevokedRunStops
  /\ CancelledRunStops

LEMMA InitInv == Init => LeaseInv
<1> SUFFICES ASSUME Init PROVE LeaseInv
  OBVIOUS
<1>1. NoHold \in HoldStates /\ Idle \in ExpirerStates
  BY DEF NoHold, Idle, HoldStates, ExpirerStates
<1>2. LeaseTypeOK
  <2>1. log \in [Tasks -> Outcomes \cup {"none", "started", "unknown"}]
    BY LeaseAssumption DEF Init
  <2>2. holds \in [Leases -> HoldStates] /\ \A l \in Leases : holds[l] = NoHold
    BY <1>1 DEF Init
  <2>3. expirers \in [Expirers -> ExpirerStates]
    BY <1>1 DEF Init
  <2>4. QED
    BY <2>1, <2>2, <2>3 DEF Init, Each, LeaseTypeOK, Stages, Outcomes, HoldStates, ExpirerStates
<1>3. Untouched
  BY DEF Init, Each, Untouched, Expirers
<1>4. CancelsWhileCancelling /\ WatchersHaveLeases
  BY DEF Init, Idle, CancelsWhileCancelling, WatchersHaveLeases, Expirers
<1>5. HoldsAreWatched
  BY DEF Init, NoHold, HoldsAreWatched
<1>6. RunsAreHeld /\ RevokedRunStops /\ CancelledRunStops
  BY DEF Init, Each, Running, RunsAreHeld, RevokedRunStops, CancelledRunStops
<1>7. QED
  BY <1>2, <1>3, <1>4, <1>5, <1>6 DEF LeaseInv

(***************************************************************************)
(* Steps of an operation.                                                  *)
(***************************************************************************)
\* A step that starts or ends no run and touches no hold and no expirer.
LEMMA AloofStep ==
  ASSUME LeaseInv, LeaseTypeOK', Untouched',
         UNCHANGED <<req, holds, expirers, revoked, runs>>,
         now' >= now,
         \A t \in Tasks : ctx'[t] = "live" => ctx[t] = "live",
         \A t \in Tasks : Running(t) /\ cancelled'[t] > now' /\ ctx'[t] = "live"
            => t \in cancelling'
  PROVE  LeaseInv'
<1>1. \A t \in Tasks : Running(t)' => Running(t)
  BY DEF Running
<1>2. \A t \in Tasks : BeingCancelled(t)' <=> BeingCancelled(t)
  BY DEF BeingCancelled, Expirers
<1>3. \A l \in Leases : Watched(l)' <=> Watched(l)
  BY DEF Watched
<1>4. CancelsWhileCancelling' /\ WatchersHaveLeases' /\ HoldsAreWatched'
  BY <1>3 DEF LeaseInv, CancelsWhileCancelling, WatchersHaveLeases, HoldsAreWatched, Expirers
<1>5. RunsAreHeld'
  BY <1>1, <1>2 DEF LeaseInv, RunsAreHeld
<1>6. RevokedRunStops'
  <2>1. \A l \in Leases \cup {NoLease} : Revoked(l)' => Revoked(l)
    BY DEF LeaseInv, LeaseTypeOK, Revoked
  <2>2. \A t \in Tasks : req[t].lease \in Leases \cup {NoLease}
    BY RequestTyped DEF LeaseInv
  <2>3. QED
    BY <1>1, <1>2, <2>1, <2>2 DEF LeaseInv, RevokedRunStops
<1>7. CancelledRunStops'
  BY <1>1 DEF CancelledRunStops, Cancelled, Running
<1>8. QED
  BY <1>4, <1>5, <1>6, <1>7 DEF LeaseInv

\* What is remembered of cancellations is as before, and so is what they concern.
LEMMA SameCancellations ==
  ASSUME LeaseInv, UNCHANGED <<cancelled, cancelling>>, now' \in Nat, now' >= now
  PROVE  \A t \in Tasks : Running(t) /\ cancelled'[t] > now' /\ ctx'[t] = "live"
            => t \in cancelling'
BY DEF LeaseInv, LeaseTypeOK, CancelledRunStops, Cancelled

LEMMA ConcludeTyped ==
  ASSUME LeaseTypeOK, NEW t \in Tasks, NEW o \in Outcomes, Conclude(t, o)
  PROVE  /\ outcome' \in [Tasks -> Outcomes \cup {"none"}]
         /\ stage' \in [Tasks -> Stages]
         /\ stage' = [stage EXCEPT ![t] = "finishing"]
BY DEF LeaseTypeOK, Conclude, Stages

LEMMA AcceptInv ==
  ASSUME LeaseInv, NEW t \in Tasks, Accept(t)
  PROVE  LeaseInv'
<1>1. LeaseTypeOK'
  BY ConcludeTyped DEF LeaseInv, LeaseTypeOK, Accept, leaseVars, memoryVars, Conclude,
     Stages, Outcomes
<1>2. Untouched'
  BY DEF LeaseInv, LeaseTypeOK, Untouched, Accept, leaseVars, Conclude
<1>3. QED
  BY <1>1, <1>2, AloofStep, SameCancellations
     DEF LeaseInv, LeaseTypeOK, Accept, leaseVars, memoryVars

LEMMA ClearInv ==
  ASSUME LeaseInv, NEW t \in Tasks, Clear(t)
  PROVE  LeaseInv'
<1>1. LeaseTypeOK'
  BY DEF LeaseInv, LeaseTypeOK, Clear, leaseVars, memoryVars, Conclude, Stages, Outcomes
<1>2. Untouched'
  BY DEF LeaseInv, LeaseTypeOK, Untouched, Clear, leaseVars, Conclude
<1>3. QED
  BY <1>1, <1>2, AloofStep, SameCancellations
     DEF LeaseInv, LeaseTypeOK, Clear, leaseVars, memoryVars

LEMMA TimeoutInv ==
  ASSUME LeaseInv, NEW t \in Tasks, Timeout(t)
  PROVE  LeaseInv'
<1>1. LeaseTypeOK'
  BY DEF LeaseInv, LeaseTypeOK, Timeout, leaseVars, memoryVars
<1>2. Untouched'
  BY DEF LeaseInv, LeaseTypeOK, Untouched, Timeout, leaseVars
<1>3. QED
  BY <1>1, <1>2, AloofStep, SameCancellations
     DEF LeaseInv, LeaseTypeOK, Timeout, leaseVars, memoryVars

LEMMA ReturnInv ==
  ASSUME LeaseInv, NEW t \in Tasks, Return(t)
  PROVE  LeaseInv'
<1>1. OutcomeOf(t) \in Outcomes
  BY DEF OutcomeOf, Outcomes
<1>2. LeaseTypeOK'
  BY <1>1, ConcludeTyped DEF LeaseInv, LeaseTypeOK, Return, leaseVars, memoryVars
<1>3. Untouched'
  BY DEF LeaseInv, LeaseTypeOK, Untouched, Return, leaseVars, Conclude
<1>4. QED
  BY <1>2, <1>3, AloofStep, SameCancellations
     DEF LeaseInv, LeaseTypeOK, Return, leaseVars, memoryVars

LEMMA TickInv ==
  ASSUME LeaseInv, Tick
  PROVE  LeaseInv'
<1>1. now' \in Nat /\ now' >= now
  BY DEF LeaseInv, LeaseTypeOK, Tick
<1>2. LeaseTypeOK'
  BY <1>1 DEF LeaseInv, LeaseTypeOK, Tick, taskVars, leaseVars, memoryVars
<1>3. Untouched'
  BY DEF LeaseInv, Untouched, Tick, taskVars, leaseVars
<1>4. QED
  BY <1>1, <1>2, <1>3, AloofStep, SameCancellations
     DEF LeaseInv, Tick, taskVars, leaseVars, memoryVars

\* A run that the cancellation finds is put down to be cancelled in the same step.
LEMMA CancelInv ==
  ASSUME LeaseInv, NEW t \in Tasks, Cancel(t)
  PROVE  LeaseInv'
<1>1. now + CancelTTL \in Nat
  BY LeaseAssumption DEF LeaseInv, LeaseTypeOK
<1>2. LeaseTypeOK'
  BY <1>1 DEF LeaseInv, LeaseTypeOK, Cancel, Ordered, taskVars, leaseVars
<1>3. Untouched'
  BY DEF LeaseInv, Untouched, Cancel, taskVars, leaseVars
<1>4. \A u \in Tasks : Running(u) /\ cancelled'[u] > now' /\ ctx'[u] = "live"
        => u \in cancelling'
  BY DEF LeaseInv, LeaseTypeOK, Cancel, CancelledRunStops, Cancelled, Running, taskVars
<1>5. UNCHANGED <<req, holds, expirers, revoked, runs, now, ctx>>
  BY DEF Cancel, taskVars, leaseVars
<1>6. QED
  BY <1>2, <1>3, <1>4, <1>5, AloofStep DEF LeaseInv, LeaseTypeOK

\* The context of a run is cancelled; no other context is revived.
LEMMA ContextCancelled ==
  ASSUME LeaseTypeOK, NEW t \in Tasks, CancelContext(t)
  PROVE  /\ ctx' \in [Tasks -> {"none", "live", "cancelled", "timeout"}]
         /\ \A u \in Tasks : ctx'[u] = "live" => ctx[u] = "live" /\ u # t
         /\ \A u \in Tasks : ctx[u] = "none" => ctx'[u] = "none"
BY DEF LeaseTypeOK, CancelContext

LEMMA CancelFoundInv ==
  ASSUME LeaseInv, NEW t \in Tasks, CancelFound(t)
  PROVE  LeaseInv'
<1>1. /\ ctx' \in [Tasks -> {"none", "live", "cancelled", "timeout"}]
      /\ \A u \in Tasks : ctx'[u] = "live" => ctx[u] = "live" /\ u # t
      /\ \A u \in Tasks : ctx[u] = "none" => ctx'[u] = "none"
  BY ContextCancelled DEF LeaseInv, CancelFound
<1>2. LeaseTypeOK'
  BY <1>1 DEF LeaseInv, LeaseTypeOK, CancelFound, leaseVars
<1>3. Untouched'
  BY <1>1 DEF LeaseInv, Untouched, CancelFound, leaseVars
<1>4. \A u \in Tasks : Running(u) /\ cancelled'[u] > now' /\ ctx'[u] = "live"
        => u \in cancelling'
  BY <1>1 DEF LeaseInv, CancelledRunStops, Cancelled, CancelFound
<1>5. UNCHANGED <<req, holds, expirers, revoked, runs, now>>
  BY DEF CancelFound, leaseVars
<1>6. QED
  BY <1>1, <1>2, <1>3, <1>4, <1>5, AloofStep DEF LeaseInv, LeaseTypeOK

\* A run that ends leaves its hold; every other run stays where it is.
LEMMA FinishInv ==
  ASSUME LeaseInv, NEW t \in Tasks, Finish(t)
  PROVE  LeaseInv'
<1> DEFINE l == req[t].lease
<1>1. /\ holds' \in [Leases -> HoldStates]
      /\ \A m \in Leases : holds'[m].open = holds[m].open
      /\ \A m \in Leases, u \in Tasks : u \in holds[m].cancels /\ u # t => u \in holds'[m].cancels
      /\ \A m \in Leases : ~holds'[m].open => holds'[m] = NoHold
  <2>1. CASE runs[t] # "none" /\ l \in Leases
    <3>1. \A m \in Leases : holds[m] \in HoldStates
      BY DEF LeaseInv, LeaseTypeOK, HoldStates
    <3>2. holds' = [holds EXCEPT ![l] = [holds[l] EXCEPT !.cancels = holds[l].cancels \ {t}]]
      BY <2>1 DEF Finish, LeaveHold
    <3>3. [holds[l] EXCEPT !.cancels = holds[l].cancels \ {t}] \in HoldStates
      BY <2>1, <3>1 DEF HoldStates
    <3>4. /\ \A m \in Leases : m # l => holds'[m] = holds[m]
          /\ holds'[l] = [holds[l] EXCEPT !.cancels = holds[l].cancels \ {t}]
          /\ holds' \in [Leases -> HoldStates]
      BY <2>1, <3>2, <3>3 DEF LeaseInv, LeaseTypeOK, HoldStates
    <3>5. holds'[l].open = holds[l].open /\ holds'[l].cancels = holds[l].cancels \ {t}
      BY <2>1, <3>1, <3>4 DEF HoldStates
    <3>6. ~holds[l].open => holds'[l] = NoHold
      <4>1. holds[l] = NoHold => holds[l].cancels \ {t} = {}
        BY DEF NoHold
      <4>2. [NoHold EXCEPT !.cancels = {}] = NoHold
        BY DEF NoHold
      <4>3. ~holds[l].open => holds[l] = NoHold
        BY <2>1 DEF LeaseInv, LeaseTypeOK
      <4>4. QED
        BY <3>4, <4>1, <4>2, <4>3
    <3>7. QED
      BY <3>4, <3>5, <3>6 DEF LeaseInv, LeaseTypeOK
  <2>2. CASE ~(runs[t] # "none" /\ l \in Leases)
    BY <2>2 DEF LeaseInv, LeaseTypeOK, Finish, HoldStates
  <2>3. QED
    BY <2>1, <2>2
<1>2. outcome[t] \in Outcomes \cup {"none"}
  BY DEF LeaseInv, LeaseTypeOK
<1>3. LeaseTypeOK'
  BY <1>1, <1>2 DEF LeaseInv, LeaseTypeOK, Finish, memoryVars, Stages, HoldStates
<1>4. Untouched'
  BY DEF LeaseInv, LeaseTypeOK, Untouched, Finish
<1>5. \A u \in Tasks : Running(u)' => Running(u) /\ u # t
  BY DEF LeaseInv, LeaseTypeOK, Running, Finish
<1>6. /\ \A u \in Tasks : BeingCancelled(u)' <=> BeingCancelled(u)
      /\ \A m \in Leases : Watched(m)' <=> Watched(m)
  BY DEF BeingCancelled, Watched, Finish, Expirers
<1>7. CancelsWhileCancelling' /\ WatchersHaveLeases' /\ HoldsAreWatched'
  BY <1>1, <1>6 DEF LeaseInv, CancelsWhileCancelling, WatchersHaveLeases, HoldsAreWatched,
     Finish, Expirers
<1>8. RunsAreHeld'
  BY <1>1, <1>5, <1>6 DEF LeaseInv, RunsAreHeld, Finish
<1>9. RevokedRunStops' /\ CancelledRunStops'
  BY <1>5, <1>6 DEF LeaseInv, RevokedRunStops, CancelledRunStops, Revoked, Cancelled,
     Finish, memoryVars
<1>10. QED
  BY <1>3, <1>4, <1>7, <1>8, <1>9 DEF LeaseInv

(***************************************************************************)
(* Registration.                                                           *)
(***************************************************************************)
LEMMA RegisterInv ==
  ASSUME LeaseInv, NEW t \in Tasks, Register(t)
  PROVE  LeaseInv'
<1> DEFINE l == req[t].lease
<1>1. /\ runs[t] = "none" /\ ctx[t] = "none" /\ expirers[t] = Idle
      /\ req[t].end \in Nat /\ l \in Leases \cup {NoLease} /\ RunDeadline(req[t]) \in Nat
  BY RequestTyped DEF LeaseInv, Untouched, Register
<1>2. CASE Over(req[t].end)
  <2>1. Conclude(t, "refused") /\ UNCHANGED <<now, req, log, ctx, until, leaseVars, memoryVars, orders>>
    BY <1>2 DEF Register
  <2>2. LeaseTypeOK'
    BY <2>1, ConcludeTyped DEF LeaseInv, LeaseTypeOK, leaseVars, memoryVars, Outcomes
  <2>3. Untouched'
    BY <2>1 DEF LeaseInv, LeaseTypeOK, Untouched, leaseVars, Conclude
  <2>4. QED
    BY <2>1, <2>2, <2>3, AloofStep, SameCancellations
       DEF LeaseInv, LeaseTypeOK, leaseVars, memoryVars
<1>3. ASSUME ~Over(req[t].end)
      PROVE  /\ stage' = [stage EXCEPT ![t] = "running"] /\ stage' \in [Tasks -> Stages]
             /\ until' \in [Tasks -> Nat]
             /\ UNCHANGED <<now, req, log, outcome, memoryVars, orders>>
  <2>1. now + DefaultTimeout \in Nat
    BY LeaseAssumption DEF LeaseInv, LeaseTypeOK
  <2>2. stage' = [stage EXCEPT ![t] = "running"] /\ stage' \in [Tasks -> Stages]
    BY <1>3 DEF LeaseInv, LeaseTypeOK, Register, Stages
  <2>3. until' = [until EXCEPT ![t] =
          IF req[t].end = 0 THEN now + DefaultTimeout ELSE req[t].end]
    BY <1>3 DEF Register
  <2>4. until' \in [Tasks -> Nat]
    BY <1>1, <2>1, <2>3 DEF LeaseInv, LeaseTypeOK
  <2>5. QED
    BY <1>3, <2>2, <2>4 DEF Register
<1>4. CASE ~Over(req[t].end) /\ RefusedAtRegistration(t)
  <2>1. ctx' = [ctx EXCEPT ![t] = "cancelled"] /\ UNCHANGED leaseVars
    BY <1>4 DEF Register
  <2>2. LeaseTypeOK'
    BY <1>3, <1>4, <2>1 DEF LeaseInv, LeaseTypeOK, leaseVars, memoryVars
  <2>3. Untouched'
    BY <1>3, <1>4, <2>1 DEF LeaseInv, LeaseTypeOK, Untouched, leaseVars
  <2>4. QED
    BY <1>3, <1>4, <2>1, <2>2, <2>3, AloofStep, SameCancellations
       DEF LeaseInv, LeaseTypeOK, leaseVars, memoryVars
<1>5. CASE ~Over(req[t].end) /\ ~RefusedAtRegistration(t)
  <2>1. ctx' = [ctx EXCEPT ![t] = "live"] /\ runs' = [runs EXCEPT ![t] = "registered"]
    BY <1>5 DEF Register
  <2>2. /\ holds' \in [Leases -> HoldStates]
        /\ \A m \in Leases : m # l => holds'[m] = holds[m]
        /\ \A m \in Leases : holds[m].cancels \subseteq holds'[m].cancels
        /\ l \in Leases => holds'[l].open /\ t \in holds'[l].cancels
    <3>1. CASE l \in Leases
      <4>1. holds[l] \in HoldStates
        BY <3>1 DEF LeaseInv, LeaseTypeOK, HoldStates
      <4>2. Joined(holds[l], t, RunDeadline(req[t])) \in HoldStates
        BY <1>1, <4>1, ExtendedTyped DEF Joined, HoldStates
      <4>3. holds' = [holds EXCEPT ![l] = Joined(holds[l], t, RunDeadline(req[t]))]
        BY <1>5, <3>1 DEF Register
      <4>4. /\ Joined(holds[l], t, RunDeadline(req[t])).open
            /\ Joined(holds[l], t, RunDeadline(req[t])).cancels = holds[l].cancels \cup {t}
        BY DEF Joined
      <4>5. /\ holds' \in [Leases -> HoldStates]
            /\ \A m \in Leases : m # l => holds'[m] = holds[m]
            /\ holds'[l] = Joined(holds[l], t, RunDeadline(req[t]))
        BY <3>1, <4>2, <4>3 DEF LeaseInv, LeaseTypeOK, HoldStates
      <4>6. QED
        BY <4>4, <4>5
    <3>2. CASE l \notin Leases
      BY <1>5, <3>2 DEF LeaseInv, LeaseTypeOK, Register, HoldStates
    <3>3. QED
      BY <3>1, <3>2
  <2>3. /\ expirers' \in [Expirers -> ExpirerStates]
        /\ \A x \in Expirers : x # t => expirers'[x] = expirers[x]
        /\ expirers'[t] = Idle \/ (l \in Leases /\ expirers'[t] = Watcher)
        /\ l \in Leases /\ ~holds[l].open => expirers'[t] = Watcher
    <3>1. Watcher \in ExpirerStates /\ t \in Expirers
      BY DEF Watcher, ExpirerStates, Expirers
    <3>2. expirers \in [Expirers -> ExpirerStates]
      BY DEF LeaseInv, LeaseTypeOK, ExpirerStates
    <3>3. CASE l \in Leases /\ ~holds[l].open
      <4>1. expirers' = [expirers EXCEPT ![t] = Watcher]
        BY <1>5, <3>3 DEF Register
      <4>2. QED
        BY <3>1, <3>2, <3>3, <4>1
    <3>4. CASE ~(l \in Leases /\ ~holds[l].open)
      <4>1. expirers' = expirers
        BY <1>5, <3>4 DEF Register
      <4>2. QED
        BY <1>1, <3>2, <3>4, <4>1
    <3>5. QED
      BY <3>3, <3>4
  <2>4. LeaseTypeOK'
    <3>1. \A m \in Leases : ~holds'[m].open => holds'[m] = NoHold
      BY <2>2 DEF LeaseInv, LeaseTypeOK
    <3>2. QED
      BY <1>3, <1>5, <2>1, <2>2, <2>3, <3>1
         DEF LeaseInv, LeaseTypeOK, memoryVars, HoldStates, ExpirerStates
  <2>5. Untouched'
    BY <1>3, <1>5, <2>1, <2>3 DEF LeaseInv, LeaseTypeOK, Untouched, Expirers
  <2>6. \A x \in Expirers : expirers'[x].cancels = expirers[x].cancels
    BY <1>1, <2>3 DEF Idle, Watcher
  <2>7. \A u \in Tasks : BeingCancelled(u)' <=> BeingCancelled(u)
    BY <2>6 DEF BeingCancelled, Expirers
  <2>8. CancelsWhileCancelling'
    BY <2>3 DEF LeaseInv, CancelsWhileCancelling, Idle, Watcher, Expirers
  <2>9. WatchersHaveLeases'
    BY <1>3, <1>5, <2>3 DEF LeaseInv, WatchersHaveLeases, Idle, Expirers
  <2>10. HoldsAreWatched'
    <3> SUFFICES ASSUME NEW m \in Leases, holds'[m].open PROVE Watched(m)'
      BY DEF HoldsAreWatched
    <3>1. CASE m = l /\ ~holds[m].open
      <4>1. expirers'[t].stage = "look" /\ req'[t].lease = m
        BY <1>3, <1>5, <2>3, <3>1 DEF Watcher
      <4>2. QED
        BY <4>1 DEF Watched
    <3>2. CASE holds[m].open
      <4>1. PICK u \in Tasks : /\ req[u].lease = m
                               /\ expirers[u].stage \in {"look", "compare", "expire"}
        BY <3>2 DEF LeaseInv, HoldsAreWatched, Watched
      <4>2. u # t
        BY <1>1, <4>1 DEF Idle
      <4>3. QED
        BY <1>3, <1>5, <2>3, <4>1, <4>2 DEF Watched, Expirers
    <3>3. QED
      BY <2>2, <3>1, <3>2
  <2>11. \A u \in Tasks : Running(u)' => Running(u) \/ u = t
    BY <2>1 DEF Running, LeaseInv, LeaseTypeOK
  <2>12. RunsAreHeld'
    BY <1>3, <1>5, <2>2, <2>7, <2>11 DEF LeaseInv, RunsAreHeld
  <2>13. RevokedRunStops'
    <3>1. \A m : Revoked(m)' <=> Revoked(m)
      BY <1>3, <1>5 DEF Revoked, memoryVars
    <3>2. \A m \in Leases : expirers'[m] = expirers[m]
      BY <2>3, LeaseAssumption DEF Expirers
    <3>3. \A u \in Tasks : Revoked(req[u].lease) => req[u].lease \in Leases
      BY DEF Revoked
    <3>4. ~Revoked(req[t].lease)
      BY <1>5 DEF RefusedAtRegistration
    <3>5. QED
      BY <1>3, <1>5, <2>7, <2>11, <3>1, <3>2, <3>3, <3>4 DEF LeaseInv, RevokedRunStops
  <2>14. CancelledRunStops'
    BY <1>3, <1>5, <2>11 DEF LeaseInv, CancelledRunStops, Cancelled, RefusedAtRegistration, memoryVars
  <2>15. QED
    BY <2>4, <2>5, <2>8, <2>9, <2>10, <2>12, <2>13, <2>14 DEF LeaseInv
<1>6. QED
  BY <1>2, <1>4, <1>5

(***************************************************************************)
(* Steps of watchers and revocations.                                      *)
(***************************************************************************)
\* One expirer moves on; it stays what it was, a watcher or a revocation.
LEMMA MovedExpirer ==
  ASSUME LeaseInv, NEW x \in Expirers, NEW e \in ExpirerStates,
         expirers' = [expirers EXCEPT ![x] = e],
         UNCHANGED req,
         e.stage # "cancel" => e.cancels = {},
         x \in Tasks /\ e.stage # "none" => req[x].lease \in Leases
  PROVE  /\ expirers' \in [Expirers -> ExpirerStates]
         /\ expirers'[x] = e
         /\ \A y \in Expirers : y # x => expirers'[y] = expirers[y]
         /\ CancelsWhileCancelling'
         /\ WatchersHaveLeases'
<1>1. expirers \in [Expirers -> ExpirerStates]
  BY DEF LeaseInv, LeaseTypeOK, ExpirerStates
<1>2. /\ expirers' \in [Expirers -> ExpirerStates]
      /\ expirers'[x] = e
      /\ \A y \in Expirers : y # x => expirers'[y] = expirers[y]
  BY <1>1
<1>3. CancelsWhileCancelling'
  BY <1>2 DEF LeaseInv, CancelsWhileCancelling
<1>4. WatchersHaveLeases'
  BY <1>2 DEF LeaseInv, WatchersHaveLeases, Expirers
<1>5. QED
  BY <1>2, <1>3, <1>4

\* What one step of an expirer leaves alone.
LEMMA UntouchedKept ==
  ASSUME LeaseInv, NEW x \in Expirers,
         UNCHANGED stage,
         \A y \in Expirers : y # x => expirers'[y] = expirers[y],
         \A t \in Tasks : runs[t] = "none" => runs'[t] = "none",
         \A t \in Tasks : ctx[t] = "none" => ctx'[t] = "none",
         expirers[x] # Idle \/ x \in Leases
  PROVE  Untouched'
BY LeaseAssumption DEF LeaseInv, Untouched, Expirers

LEMMA LookInv ==
  ASSUME LeaseInv, NEW t \in Tasks, Look(t)
  PROVE  LeaseInv'
<1> DEFINE l == req[t].lease
<1>1. /\ expirers[t].stage = "look" /\ expirers[t].cancels = {} /\ l \in Leases
      /\ expirers[t] # Idle /\ t \in Expirers
      /\ UNCHANGED <<now, req, log, taskVars, runs, memoryVars, orders>>
  BY DEF LeaseInv, CancelsWhileCancelling, WatchersHaveLeases, Look, Expirers, Idle
<1>2. /\ holds[l] \in HoldStates /\ expirers[t] \in ExpirerStates
      /\ ~holds[l].open => holds[l] = NoHold
  BY <1>1 DEF LeaseInv, LeaseTypeOK, HoldStates, ExpirerStates
<1>3. \A u \in Tasks : Running(u)' <=> Running(u)
  BY <1>1 DEF Running, taskVars
<1>4. CASE Abandoned(holds[l])
  <2>1. /\ holds' = [holds EXCEPT ![l] = NoHold]
        /\ expirers' = [expirers EXCEPT ![t] = Idle]
    BY <1>4 DEF Look
  <2>2. Idle \in ExpirerStates /\ Idle.stage = "none" /\ Idle.cancels = {}
    BY DEF Idle, ExpirerStates
  <2>3. /\ expirers' \in [Expirers -> ExpirerStates]
        /\ expirers'[t] = Idle
        /\ \A y \in Expirers : y # t => expirers'[y] = expirers[y]
        /\ CancelsWhileCancelling'
        /\ WatchersHaveLeases'
    BY <1>1, <2>1, <2>2, MovedExpirer
  <2>4. /\ holds' \in [Leases -> HoldStates] /\ holds'[l] = NoHold
        /\ \A m \in Leases : m # l => holds'[m] = holds[m]
    BY <1>1, <2>1 DEF LeaseInv, LeaseTypeOK, NoHold, HoldStates
  <2>5. holds[l].cancels = {}
    BY <1>2, <1>4 DEF Abandoned, NoHold
  <2>6. LeaseTypeOK'
    BY <1>1, <2>3, <2>4 DEF LeaseInv, LeaseTypeOK, HoldStates, ExpirerStates, taskVars, memoryVars
  <2>7. Untouched'
    BY <1>1, <2>3, UntouchedKept DEF taskVars
  <2>8. HoldsAreWatched'
    BY <1>1, <2>3, <2>4 DEF LeaseInv, HoldsAreWatched, Watched, NoHold, Expirers
  <2>9. \A u \in Tasks : BeingCancelled(u)' <=> BeingCancelled(u)
    BY <1>1, <2>2, <2>3 DEF BeingCancelled
  <2>10. RunsAreHeld'
    BY <1>1, <1>3, <2>4, <2>5, <2>9 DEF LeaseInv, RunsAreHeld
  <2>11. RevokedRunStops' /\ CancelledRunStops'
    BY <1>1, <1>3, <2>3, <2>9, LeaseAssumption
       DEF LeaseInv, RevokedRunStops, CancelledRunStops, Revoked, Cancelled, memoryVars, Expirers
  <2>12. QED
    BY <2>3, <2>6, <2>7, <2>8, <2>10, <2>11 DEF LeaseInv
<1>5. CASE ~Abandoned(holds[l])
  <2> DEFINE e == [expirers[t] EXCEPT !.stage = "compare", !.deadline = holds[l].deadline]
  <2>1. UNCHANGED holds /\ expirers' = [expirers EXCEPT ![t] = e]
    BY <1>5 DEF Look
  <2>2. e \in ExpirerStates /\ e.stage = "compare" /\ e.cancels = {}
    BY <1>1, <1>2 DEF ExpirerStates, HoldStates
  <2> HIDE DEF e
  <2>3. /\ expirers' \in [Expirers -> ExpirerStates]
        /\ expirers'[t] = e
        /\ \A y \in Expirers : y # t => expirers'[y] = expirers[y]
        /\ CancelsWhileCancelling'
        /\ WatchersHaveLeases'
    BY <1>1, <2>1, <2>2, MovedExpirer
  <2>4. LeaseTypeOK'
    BY <1>1, <2>1, <2>3 DEF LeaseInv, LeaseTypeOK, ExpirerStates, taskVars, memoryVars
  <2>5. Untouched'
    BY <1>1, <2>3, UntouchedKept DEF taskVars
  <2>6. HoldsAreWatched'
    BY <1>1, <2>1, <2>2, <2>3 DEF LeaseInv, HoldsAreWatched, Watched, Expirers
  <2>7. \A u \in Tasks : BeingCancelled(u)' <=> BeingCancelled(u)
    BY <1>1, <2>2, <2>3 DEF BeingCancelled
  <2>8. RunsAreHeld'
    BY <1>1, <1>3, <2>1, <2>7 DEF LeaseInv, RunsAreHeld
  <2>9. RevokedRunStops' /\ CancelledRunStops'
    BY <1>1, <1>3, <2>3, <2>7, LeaseAssumption
       DEF LeaseInv, RevokedRunStops, CancelledRunStops, Revoked, Cancelled, memoryVars, Expirers
  <2>10. QED
    BY <2>3, <2>4, <2>5, <2>6, <2>8, <2>9 DEF LeaseInv
<1>6. QED
  BY <1>4, <1>5

LEMMA CompareInv ==
  ASSUME LeaseInv, NEW t \in Tasks, Compare(t)
  PROVE  LeaseInv'
<1> DEFINE e == [expirers[t] EXCEPT !.stage = IF Over(expirers[t].deadline) THEN "expire" ELSE "look"]
<1>1. /\ expirers[t].stage = "compare" /\ expirers[t].cancels = {} /\ req[t].lease \in Leases
      /\ expirers[t] # Idle /\ t \in Expirers /\ expirers[t] \in ExpirerStates
      /\ UNCHANGED <<now, req, log, taskVars, runs, holds, memoryVars, orders>>
  BY DEF LeaseInv, LeaseTypeOK, CancelsWhileCancelling, WatchersHaveLeases, Compare, Expirers,
     Idle, ExpirerStates
<1>2. expirers' = [expirers EXCEPT ![t] = e]
  BY DEF Compare
<1>3. e \in ExpirerStates /\ e.stage \in {"expire", "look"} /\ e.cancels = {}
  BY <1>1 DEF ExpirerStates
<1> HIDE DEF e
<1>4. /\ expirers' \in [Expirers -> ExpirerStates]
      /\ expirers'[t] = e
      /\ \A y \in Expirers : y # t => expirers'[y] = expirers[y]
      /\ CancelsWhileCancelling'
      /\ WatchersHaveLeases'
  BY <1>1, <1>2, <1>3, MovedExpirer
<1>5. LeaseTypeOK'
  BY <1>1, <1>4 DEF LeaseInv, LeaseTypeOK, ExpirerStates, taskVars, memoryVars
<1>6. Untouched'
  BY <1>1, <1>4, UntouchedKept DEF taskVars
<1>7. HoldsAreWatched'
  BY <1>1, <1>3, <1>4 DEF LeaseInv, HoldsAreWatched, Watched, Expirers
<1>8. \A u \in Tasks : BeingCancelled(u)' <=> BeingCancelled(u)
  BY <1>1, <1>3, <1>4 DEF BeingCancelled
<1>9. \A u \in Tasks : Running(u)' <=> Running(u)
  BY <1>1 DEF Running, taskVars
<1>10. RunsAreHeld'
  BY <1>1, <1>8, <1>9 DEF LeaseInv, RunsAreHeld
<1>11. RevokedRunStops' /\ CancelledRunStops'
  BY <1>1, <1>4, <1>8, <1>9, LeaseAssumption
     DEF LeaseInv, RevokedRunStops, CancelledRunStops, Revoked, Cancelled, memoryVars, Expirers
<1>12. QED
  BY <1>4, <1>5, <1>6, <1>7, <1>10, <1>11 DEF LeaseInv

\* The runs of the hold that is dropped pass to the expirer in the same step.
LEMMA ExpireInv ==
  ASSUME LeaseInv, NEW x \in Expirers, Expire(x)
  PROVE  LeaseInv'
<1> DEFINE l == LeaseOf(x)
           h == holds[l].cancels
           e == [expirers[x] EXCEPT !.stage = CancelStage(h), !.cancels = h]
<1>1. /\ expirers[x].stage = "expire" /\ expirers[x].cancels = {} /\ expirers[x] # Idle
      /\ UNCHANGED <<now, req, log, taskVars, memoryVars, orders>>
  BY DEF LeaseInv, CancelsWhileCancelling, Expire, Idle
<1>2. l \in Leases /\ (x \in Tasks => l = req[x].lease) /\ (x \in Leases => l = x)
  BY <1>1, LeaseAssumption DEF LeaseInv, WatchersHaveLeases, LeaseOf, Expirers
<1>3. h \subseteq Tasks
  BY <1>2 DEF LeaseInv, LeaseTypeOK
<1>4. /\ expirers' = [expirers EXCEPT ![x] = e]
      /\ holds' = [holds EXCEPT ![l] = NoHold]
      /\ runs' = [t \in Tasks |-> IF t \in h /\ runs[t] # "none" THEN "expired" ELSE runs[t]]
  BY DEF Expire, HeldRuns
<1>5. e \in ExpirerStates /\ e.cancels = h /\ (e.stage # "cancel" => e.cancels = {})
  BY <1>3 DEF LeaseInv, LeaseTypeOK, ExpirerStates, CancelStage
<1> HIDE DEF e
<1>6. /\ expirers' \in [Expirers -> ExpirerStates]
      /\ expirers'[x] = e
      /\ \A y \in Expirers : y # x => expirers'[y] = expirers[y]
      /\ CancelsWhileCancelling'
      /\ WatchersHaveLeases'
  BY <1>1, <1>2, <1>4, <1>5, MovedExpirer
<1>7. /\ holds' \in [Leases -> HoldStates] /\ holds'[l] = NoHold
      /\ \A m \in Leases : m # l => holds'[m] = holds[m]
  BY <1>2, <1>4 DEF LeaseInv, LeaseTypeOK, NoHold, HoldStates
<1>8. /\ runs' \in [Tasks -> {"none", "registered", "expired"}]
      /\ \A t \in Tasks : runs'[t] = "none" <=> runs[t] = "none"
  BY <1>4 DEF LeaseInv, LeaseTypeOK
<1>9. LeaseTypeOK'
  BY <1>1, <1>6, <1>7, <1>8 DEF LeaseInv, LeaseTypeOK, HoldStates, ExpirerStates, taskVars, memoryVars
<1>10. Untouched'
  BY <1>1, <1>6, <1>8, UntouchedKept DEF taskVars
<1>11. \A t \in Tasks : Running(t)' <=> Running(t)
  BY <1>1, <1>8 DEF Running, taskVars
<1>12. \A t \in Tasks : BeingCancelled(t) \/ t \in h => BeingCancelled(t)'
  BY <1>1, <1>5, <1>6 DEF BeingCancelled
<1>13. HoldsAreWatched'
  <2> SUFFICES ASSUME NEW m \in Leases, holds'[m].open PROVE Watched(m)'
    BY DEF HoldsAreWatched
  <2>1. m # l /\ holds[m].open
    BY <1>7 DEF NoHold
  <2>2. PICK t \in Tasks : /\ req[t].lease = m
                           /\ expirers[t].stage \in {"look", "compare", "expire"}
    BY <2>1 DEF LeaseInv, HoldsAreWatched, Watched
  <2>3. t # x
    BY <1>2, <2>1, <2>2
  <2>4. QED
    BY <1>1, <1>6, <2>2, <2>3 DEF Watched, Expirers
<1>14. RunsAreHeld'
  <2> SUFFICES ASSUME NEW t \in Tasks, Running(t)', req[t].lease \in Leases
               PROVE  t \in holds'[req[t].lease].cancels \/ BeingCancelled(t)'
    BY <1>1 DEF RunsAreHeld
  <2>1. t \in holds[req[t].lease].cancels \/ BeingCancelled(t)
    BY <1>11 DEF LeaseInv, RunsAreHeld
  <2>2. QED
    BY <1>7, <1>12, <2>1
<1>15. RevokedRunStops'
  <2> SUFFICES ASSUME NEW t \in Tasks, Running(t)', Revoked(req[t].lease)'
               PROVE  BeingCancelled(t)' \/ expirers'[req[t].lease].stage = "expire"
    BY <1>1 DEF RevokedRunStops
  <2>1. req[t].lease \in Leases /\ Revoked(req[t].lease)
    BY <1>1 DEF Revoked, memoryVars
  <2>2. CASE x = req[t].lease
    BY <1>2, <1>11, <1>12, <2>1, <2>2 DEF LeaseInv, RunsAreHeld
  <2>3. CASE x # req[t].lease
    BY <1>6, <1>11, <1>12, <2>1, <2>3 DEF LeaseInv, RevokedRunStops, Expirers
  <2>4. QED
    BY <2>2, <2>3
<1>16. CancelledRunStops'
  BY <1>1, <1>11 DEF LeaseInv, CancelledRunStops, Cancelled, memoryVars
<1>17. QED
  BY <1>6, <1>9, <1>10, <1>13, <1>14, <1>15, <1>16 DEF LeaseInv

LEMMA CancelNextInv ==
  ASSUME LeaseInv, NEW x \in Expirers, CancelNext(x)
  PROVE  LeaseInv'
<1>1. PICK t \in expirers[x].cancels :
        LET left == expirers[x].cancels \ {t} IN
        /\ CancelContext(t)
        /\ expirers' = [expirers EXCEPT ![x] =
              [@ EXCEPT !.stage = CancelStage(left), !.cancels = left]]
        /\ UNCHANGED <<now, req, log, stage, outcome, until, runs, holds, memoryVars, orders>>
  BY DEF CancelNext
<1> DEFINE left == expirers[x].cancels \ {t}
           e == [expirers[x] EXCEPT !.stage = CancelStage(left), !.cancels = left]
<1>2. t \in Tasks /\ left \subseteq Tasks
  BY DEF LeaseInv, LeaseTypeOK
<1>3. expirers[x].stage = "cancel" /\ expirers[x] # Idle
  BY DEF LeaseInv, CancelsWhileCancelling, Idle
<1>4. /\ e \in ExpirerStates /\ e.cancels = left
      /\ e.stage # "cancel" => e.cancels = {}
  BY <1>2 DEF LeaseInv, LeaseTypeOK, ExpirerStates, CancelStage
<1>5. expirers' = [expirers EXCEPT ![x] = e]
  BY <1>1
<1>6. x \in Tasks => req[x].lease \in Leases
  BY <1>3 DEF LeaseInv, WatchersHaveLeases
<1>7. /\ ctx' \in [Tasks -> {"none", "live", "cancelled", "timeout"}]
      /\ \A u \in Tasks : ctx'[u] = "live" => ctx[u] = "live" /\ u # t
      /\ \A u \in Tasks : ctx[u] = "none" => ctx'[u] = "none"
  BY <1>1, <1>2, ContextCancelled DEF LeaseInv
<1>8. UNCHANGED <<now, req, log, stage, outcome, until, runs, holds, memoryVars, orders>>
  BY <1>1
<1> HIDE DEF e
<1>9. /\ expirers' \in [Expirers -> ExpirerStates]
      /\ expirers'[x] = e
      /\ \A y \in Expirers : y # x => expirers'[y] = expirers[y]
      /\ CancelsWhileCancelling'
      /\ WatchersHaveLeases'
  BY <1>4, <1>5, <1>6, <1>8, MovedExpirer
<1>10. LeaseTypeOK'
  BY <1>7, <1>8, <1>9 DEF LeaseInv, LeaseTypeOK, ExpirerStates, memoryVars
<1>11. Untouched'
  BY <1>3, <1>7, <1>8, <1>9, UntouchedKept
<1>12. \A u \in Tasks : Running(u)' => Running(u) /\ u # t
  BY <1>7, <1>8 DEF Running
<1>13. \A u \in Tasks : u # t /\ BeingCancelled(u) => BeingCancelled(u)'
  <2> SUFFICES ASSUME NEW u \in Tasks, u # t, BeingCancelled(u) PROVE BeingCancelled(u)'
    OBVIOUS
  <2>1. PICK y \in Expirers : u \in expirers[y].cancels
    BY DEF BeingCancelled
  <2>2. u \in expirers'[y].cancels
    BY <1>4, <1>9, <2>1
  <2>3. QED
    BY <2>2 DEF BeingCancelled, Expirers
<1>14. HoldsAreWatched'
  BY <1>3, <1>8, <1>9 DEF LeaseInv, HoldsAreWatched, Watched, Expirers
<1>15. RunsAreHeld'
  BY <1>8, <1>12, <1>13 DEF LeaseInv, RunsAreHeld
<1>16. RevokedRunStops'
  <2>1. \A m \in Leases : expirers[m].stage = "expire" => expirers'[m].stage = "expire"
    BY <1>3, <1>9 DEF Expirers
  <2>2. QED
    BY <1>8, <1>12, <1>13, <2>1 DEF LeaseInv, RevokedRunStops, Revoked, memoryVars
<1>17. CancelledRunStops'
  BY <1>8, <1>12 DEF LeaseInv, CancelledRunStops, Cancelled, memoryVars
<1>18. QED
  BY <1>9, <1>10, <1>11, <1>14, <1>15, <1>16, <1>17 DEF LeaseInv

LEMMA RenewInv ==
  ASSUME LeaseInv, NEW l \in Leases, NEW d \in Renewals, Renew(l, d)
  PROVE  LeaseInv'
<1>1. d \in Nat /\ UNCHANGED <<now, req, log, taskVars, runs, expirers, memoryVars>>
  BY LeaseAssumption DEF Renew
<1>2. holds[l] \in HoldStates /\ Extended(holds[l].deadline, d) \in Nat
  BY <1>1, ExtendedTyped DEF LeaseInv, LeaseTypeOK, HoldStates
<1> DEFINE h == [holds[l] EXCEPT !.deadline = Extended(holds[l].deadline, d)]
<1>3. holds' = [holds EXCEPT ![l] = h] /\ holds[l].open
  BY DEF Renew
<1>4. h \in HoldStates /\ h.open = holds[l].open /\ h.cancels = holds[l].cancels
  BY <1>2 DEF HoldStates
<1> HIDE DEF h
<1>5. /\ holds' \in [Leases -> HoldStates]
      /\ \A m \in Leases : /\ holds'[m].open = holds[m].open
                           /\ holds'[m].cancels = holds[m].cancels
      /\ \A m \in Leases : ~holds'[m].open => holds'[m] = NoHold
  BY <1>3, <1>4 DEF LeaseInv, LeaseTypeOK, HoldStates
<1>6. LeaseTypeOK'
  BY <1>1, <1>5 DEF LeaseInv, LeaseTypeOK, HoldStates, Renew, Ordered, taskVars, memoryVars
<1>7. Untouched' /\ CancelsWhileCancelling' /\ WatchersHaveLeases'
  BY <1>1 DEF LeaseInv, Untouched, CancelsWhileCancelling, WatchersHaveLeases, taskVars, Expirers
<1>8. \A t \in Tasks : (Running(t)' <=> Running(t)) /\ (BeingCancelled(t)' <=> BeingCancelled(t))
  BY <1>1 DEF Running, BeingCancelled, taskVars, Expirers
<1>9. HoldsAreWatched' /\ RunsAreHeld'
  BY <1>1, <1>5, <1>8 DEF LeaseInv, HoldsAreWatched, Watched, RunsAreHeld
<1>10. RevokedRunStops' /\ CancelledRunStops'
  BY <1>1, <1>8 DEF LeaseInv, RevokedRunStops, CancelledRunStops, Revoked, Cancelled, memoryVars
<1>11. QED
  BY <1>6, <1>7, <1>9, <1>10 DEF LeaseInv

\* The revocation is remembered, and about to expire the lease, in the same step.
LEMMA RevokeInv ==
  ASSUME LeaseInv, NEW l \in Leases, Revoke(l)
  PROVE  LeaseInv'
<1> DEFINE e == [expirers[l] EXCEPT !.stage = "expire"]
<1>1. /\ expirers[l].stage = "none" /\ expirers[l].cancels = {} /\ l \in Expirers /\ l \notin Tasks
      /\ UNCHANGED <<now, req, log, taskVars, runs, holds, cancelled, cancelling>>
  BY LeaseAssumption DEF LeaseInv, CancelsWhileCancelling, Revoke, Expirers
<1>2. expirers' = [expirers EXCEPT ![l] = e]
  BY DEF Revoke
<1>3. e \in ExpirerStates /\ e.stage = "expire" /\ e.cancels = {}
  BY <1>1 DEF LeaseInv, LeaseTypeOK, ExpirerStates
<1> HIDE DEF e
<1>4. /\ expirers' \in [Expirers -> ExpirerStates]
      /\ expirers'[l] = e
      /\ \A y \in Expirers : y # l => expirers'[y] = expirers[y]
      /\ CancelsWhileCancelling'
      /\ WatchersHaveLeases'
  BY <1>1, <1>2, <1>3, MovedExpirer
<1>5. Remembered(l) \in Nat
  <2>1. now + RevokeTTL \in Nat /\ holds[l].deadline \in Nat
    BY LeaseAssumption DEF LeaseInv, LeaseTypeOK
  <2>2. QED
    BY <2>1, ExtendedTyped DEF Remembered
<1>6. revoked' \in [Leases -> Nat] /\ \A m \in Leases : m # l => revoked'[m] = revoked[m]
  BY <1>5 DEF LeaseInv, LeaseTypeOK, Revoke
<1>7. LeaseTypeOK'
  BY <1>1, <1>4, <1>6 DEF LeaseInv, LeaseTypeOK, ExpirerStates, Revoke, Ordered, taskVars
<1>8. Untouched'
  BY <1>1, <1>4, UntouchedKept DEF taskVars
<1>9. \A t \in Tasks : BeingCancelled(t)' <=> BeingCancelled(t)
  BY <1>1, <1>3, <1>4 DEF BeingCancelled
<1>10. \A t \in Tasks : Running(t)' <=> Running(t)
  BY <1>1 DEF Running, taskVars
<1>11. HoldsAreWatched' /\ RunsAreHeld'
  BY <1>1, <1>4, <1>9, <1>10 DEF LeaseInv, HoldsAreWatched, Watched, RunsAreHeld, Expirers
<1>12. RevokedRunStops'
  BY <1>1, <1>3, <1>4, <1>6, <1>9, <1>10 DEF LeaseInv, RevokedRunStops, Revoked, Expirers
<1>13. CancelledRunStops'
  BY <1>1, <1>10 DEF LeaseInv, CancelledRunStops, Cancelled
<1>14. QED
  BY <1>4, <1>7, <1>8, <1>11, <1>12, <1>13 DEF LeaseInv

(***************************************************************************)
(* The theorems.                                                           *)
(***************************************************************************)
LEMMA StepInv == LeaseInv /\ [Next]_vars => LeaseInv'
<1> SUFFICES ASSUME LeaseInv, [Next]_vars PROVE LeaseInv'
  OBVIOUS
<1>1. CASE UNCHANGED vars
  BY <1>1 DEF LeaseInv, LeaseTypeOK, Untouched, CancelsWhileCancelling, WatchersHaveLeases,
     HoldsAreWatched, Watched, RunsAreHeld, BeingCancelled, Running, RevokedRunStops,
     CancelledRunStops, Revoked, Cancelled, Expirers, vars, taskVars, leaseVars, memoryVars
<1>2. ASSUME NEW t \in Tasks,
             Accept(t) \/ TaskStep(t) \/ Return(t) \/ Timeout(t)
               \/ WatcherStep(t) \/ Cancel(t) \/ CancelFound(t)
      PROVE  LeaseInv'
  BY <1>2, AcceptInv, ClearInv, RegisterInv, FinishInv, ReturnInv, TimeoutInv, LookInv,
     CompareInv, CancelInv, CancelFoundInv DEF TaskStep, WatcherStep
<1>3. ASSUME NEW x \in Expirers, ExpirerStep(x)
      PROVE  LeaseInv'
  BY <1>3, ExpireInv, CancelNextInv DEF ExpirerStep
<1>4. ASSUME NEW l \in Leases, Revoke(l) \/ \E d \in Renewals : Renew(l, d)
      PROVE  LeaseInv'
  BY <1>4, RevokeInv, RenewInv
<1>5. CASE Tick
  BY <1>5, TickInv
<1>6. QED
  BY <1>1, <1>2, <1>3, <1>4, <1>5 DEF Next

LEMMA AlwaysInv == Spec => []LeaseInv
BY InitInv, StepInv, PTL DEF Spec

\* The variables of a lease, of its runs and of what is remembered of them keep
\* their types, and a hold that is not in mcpLeases is empty.
THEOREM LeaseTypeCorrect == Spec => []LeaseTypeOK
<1>1. LeaseInv => LeaseTypeOK
  BY DEF LeaseInv
<1>2. QED
  BY <1>1, AlwaysInv, PTL

\* No run outlives its lease unseen (registerMCPRun, watchMCPLease, expireMCPLease):
\* a running run is in the hold of its lease, which is watched, or about to be
\* cancelled, whatever watchers, revocations and registrations do to the hold.
THEOREM NoRunEscapesItsLease == Spec => []LiveRunIsWatched
<1>1. LeaseInv => LiveRunIsWatched
  <2> SUFFICES ASSUME LeaseInv, NEW t \in Tasks, Running(t), req[t].lease \in Leases,
                      ~BeingCancelled(t)
               PROVE  LET l == req[t].lease IN
                      holds[l].open /\ t \in holds[l].cancels /\ Watched(l)
    BY DEF LiveRunIsWatched
  <2>1. t \in holds[req[t].lease].cancels
    BY DEF LeaseInv, RunsAreHeld
  <2>2. holds[req[t].lease].open
    BY <2>1 DEF LeaseInv, LeaseTypeOK, NoHold
  <2>3. QED
    BY <2>1, <2>2 DEF LeaseInv, HoldsAreWatched
<1>2. QED
  BY <1>1, AlwaysInv, PTL

\* A revocation the agent remembers (revokeMCPLease) reaches every running run of
\* the lease, however it falls between the run's checks and its registration.
THEOREM RevocationReachesRuns == Spec => []RevokedRunStops
<1>1. LeaseInv => RevokedRunStops
  BY DEF LeaseInv
<1>2. QED
  BY <1>1, AlwaysInv, PTL

\* So does the cancellation of one operation (cancelMCPOperation), also one that
\* comes before the operation.
THEOREM CancellationReachesRun == Spec => []CancelledRunStops
<1>1. LeaseInv => CancelledRunStops
  BY DEF LeaseInv
<1>2. QED
  BY <1>1, AlwaysInv, PTL

\* Together: no order to stop a run is lost, wherever it falls.
THEOREM OrdersReachRuns == Spec => []OrderedRunStops
<1>1. RevokedRunStops /\ CancelledRunStops => OrderedRunStops
  BY DEF OrderedRunStops
<1>2. QED
  BY <1>1, RevocationReachesRuns, CancellationReachesRun, PTL

(***************************************************************************)
(* Why an operation was stopped.  A lease has a cause to stop its runs     *)
(* when it was revoked, or when a watcher has found a deadline over: that  *)
(* watcher never looks again.                                              *)
(***************************************************************************)
FoundOver(t) ==
  expirers[t].stage \in {"expire", "cancel", "none"} /\ Over(expirers[t].deadline)

LeaseEnded(l) == EverRevoked(l) \/ \E t \in Tasks : req[t].lease = l /\ FoundOver(t)

ExpiringHasCause ==
  /\ \A t \in Tasks : expirers[t].stage = "expire" => Over(expirers[t].deadline)
  /\ \A l \in Leases : expirers[l].stage # "none" => EverRevoked(l)

\* What a hold cancels are the registered runs of its lease.
HeldAreRegistered ==
  \A l \in Leases : \A t \in holds[l].cancels : req[t].lease = l /\ runs[t] = "registered"

\* A run about to be cancelled is marked as expired, if it has not ended since.
CarriedAreExpired ==
  \A x \in Expirers : \A t \in expirers[x].cancels :
    runs[t] = "expired" \/ (stage[t] = "done" /\ ctx[t] = "none")

ExpiredHasCause == \A t \in Tasks : runs[t] = "expired" => LeaseEnded(req[t].lease)

CancelledHasCause ==
  /\ \A t \in cancelling : cancelled[t] # 0
  /\ \A t \in Tasks : ctx[t] = "cancelled" =>
       cancelled[t] # 0 \/ EverRevoked(req[t].lease) \/ runs[t] = "expired"

TimeoutHasCause ==
  \A t \in Tasks : /\ ctx[t] = "live" => until[t] # 0
                   /\ ctx[t] = "timeout" => Over(until[t])

RecordHasCause ==
  \A t \in Tasks :
    /\ outcome[t] # "none" => stage[t] = "finishing"
    /\ outcome[t] = "cancelled" => cancelled[t] # 0 \/ EverRevoked(req[t].lease)
    /\ outcome[t] = "expired" => LeaseEnded(req[t].lease)
    /\ outcome[t] = "deadline" => Over(until[t])

CauseInv ==
  /\ now # 0
  /\ ExpiringHasCause
  /\ HeldAreRegistered
  /\ CarriedAreExpired
  /\ ExpiredHasCause
  /\ CancelledHasCause
  /\ TimeoutHasCause
  /\ RecordHasCause

LEMMA InitCause == Init => CauseInv
BY DEF Init, Each, Idle, NoHold, CauseInv, ExpiringHasCause, HeldAreRegistered, CarriedAreExpired,
   ExpiredHasCause, CancelledHasCause, TimeoutHasCause, RecordHasCause, Expirers

\* A cause once there stays.
LEMMA CauseKept ==
  ASSUME LeaseTypeOK, UNCHANGED req, now' \in Nat, now' >= now,
         \A l \in Leases : revoked[l] # 0 => revoked'[l] # 0,
         \A t \in Tasks : FoundOver(t) => expirers'[t] = expirers[t] \/ FoundOver(t)'
  PROVE  \A l : /\ EverRevoked(l) => EverRevoked(l)'
                /\ LeaseEnded(l) => LeaseEnded(l)'
<1>1. \A t \in Tasks : FoundOver(t) => FoundOver(t)'
  BY DEF FoundOver, Over, LeaseTypeOK, Expirers
<1>2. QED
  BY <1>1 DEF LeaseEnded, EverRevoked

\* A step of one operation that leaves leases, runs and orders alone keeps all but what
\* is recorded of the operation and what its context says.
LEMMA AloofCause ==
  ASSUME LeaseInv, CauseInv, UNCHANGED <<req, leaseVars, memoryVars>>,
         now' \in Nat, now' >= now,
         \A t \in Tasks : stage[t] = "done" => stage'[t] = "done" /\ ctx'[t] = ctx[t],
         \A t \in Tasks : ctx'[t] = "cancelled" /\ ctx[t] # "cancelled" =>
            cancelled[t] # 0 \/ EverRevoked(req[t].lease),
         TimeoutHasCause',
         \A t \in Tasks :
            \/ outcome'[t] = outcome[t] /\ stage'[t] = stage[t] /\ until'[t] = until[t]
            \/ /\ outcome'[t] # "none" => stage'[t] = "finishing"
               /\ outcome'[t] = "cancelled" => cancelled[t] # 0 \/ EverRevoked(req[t].lease)
               /\ outcome'[t] = "expired" => LeaseEnded(req[t].lease)
               /\ outcome'[t] = "deadline" => Over(until[t])'
  PROVE  CauseInv'
<1>1. \A l : /\ EverRevoked(l) => EverRevoked(l)'
             /\ LeaseEnded(l) => LeaseEnded(l)'
  BY CauseKept DEF LeaseInv, leaseVars, memoryVars
<1>2. now' # 0 /\ now \in Nat
  BY DEF LeaseInv, LeaseTypeOK, CauseInv
<1>3. ExpiringHasCause'
  BY <1>1, <1>2 DEF LeaseInv, LeaseTypeOK, CauseInv, ExpiringHasCause, Over, leaseVars, Expirers
<1>4. HeldAreRegistered'
  BY DEF CauseInv, HeldAreRegistered, leaseVars
<1>5. CarriedAreExpired'
  BY DEF LeaseInv, LeaseTypeOK, CauseInv, CarriedAreExpired, leaseVars
<1>6. ExpiredHasCause'
  BY <1>1 DEF CauseInv, ExpiredHasCause, leaseVars
<1>7. CancelledHasCause'
  BY <1>1 DEF CauseInv, CancelledHasCause, leaseVars, memoryVars
<1>8. RecordHasCause'
  <2>1. cancelled' = cancelled /\ req' = req
    BY DEF memoryVars
  <2>2. \A t \in Tasks : until'[t] = until[t] /\ Over(until[t]) => Over(until[t])'
    BY <1>2 DEF Over, LeaseInv, LeaseTypeOK
  <2> SUFFICES ASSUME NEW t \in Tasks
               PROVE  /\ outcome'[t] # "none" => stage'[t] = "finishing"
                      /\ outcome'[t] = "cancelled" => cancelled[t] # 0 \/ EverRevoked(req[t].lease)'
                      /\ outcome'[t] = "expired" => LeaseEnded(req[t].lease)'
                      /\ outcome'[t] = "deadline" => Over(until[t])'
    BY <2>1 DEF RecordHasCause
  <2>3. QED
    BY <1>1, <2>1, <2>2 DEF CauseInv, RecordHasCause
<1>9. QED
  BY <1>2, <1>3, <1>4, <1>5, <1>6, <1>7, <1>8 DEF CauseInv

LEMMA AcceptCause ==
  ASSUME LeaseInv, CauseInv, NEW t \in Tasks, Accept(t)
  PROVE  CauseInv'
<1>1. /\ UNCHANGED <<now, req, ctx, until, leaseVars, memoryVars>>
      /\ stage[t] = "idle" /\ now \in Nat
  BY DEF Accept, LeaseInv, LeaseTypeOK
<1>2. /\ \A u \in Tasks \ {t} : outcome'[u] = outcome[u] /\ stage'[u] = stage[u]
      /\ \/ stage'[t] = "finishing" /\ outcome'[t] = "refused"
         \/ stage'[t] = "finishing" /\ outcome'[t] = "cancelled" /\ Cancelled(t)
         \/ outcome'[t] = outcome[t]
  BY DEF Accept, Conclude, LeaseInv, LeaseTypeOK
<1>3. Cancelled(t) => cancelled[t] # 0
  BY <1>1 DEF Cancelled
<1>4. outcome[t] = "none"
  BY <1>1 DEF CauseInv, RecordHasCause
<1>5. TimeoutHasCause'
  BY <1>1 DEF CauseInv, TimeoutHasCause, Over
<1>6. QED
  BY <1>1, <1>2, <1>3, <1>4, <1>5, AloofCause

LEMMA ClearCause ==
  ASSUME LeaseInv, CauseInv, NEW t \in Tasks, Clear(t)
  PROVE  CauseInv'
<1>1. /\ UNCHANGED <<now, req, ctx, until, leaseVars, memoryVars>>
      /\ stage[t] = "accepted" /\ now \in Nat
  BY DEF Clear, LeaseInv, LeaseTypeOK
<1>2. /\ \A u \in Tasks \ {t} : outcome'[u] = outcome[u] /\ stage'[u] = stage[u]
      /\ \/ stage'[t] = "finishing" /\ outcome'[t] = "refused"
         \/ stage'[t] = "finishing" /\ outcome'[t] = "cancelled" /\ Cancelled(t)
         \/ outcome'[t] = outcome[t]
  BY DEF Clear, Conclude, LeaseInv, LeaseTypeOK
<1>3. Cancelled(t) => cancelled[t] # 0
  BY <1>1 DEF Cancelled
<1>4. outcome[t] = "none"
  BY <1>1 DEF CauseInv, RecordHasCause
<1>5. TimeoutHasCause'
  BY <1>1 DEF CauseInv, TimeoutHasCause, Over
<1>6. QED
  BY <1>1, <1>2, <1>3, <1>4, <1>5, AloofCause

LEMMA TimeoutCause ==
  ASSUME LeaseInv, CauseInv, NEW t \in Tasks, Timeout(t)
  PROVE  CauseInv'
<1>1. /\ UNCHANGED <<now, req, stage, outcome, until, leaseVars, memoryVars>>
      /\ stage[t] = "running" /\ now \in Nat
      /\ \A u \in Tasks \ {t} : ctx'[u] = ctx[u]
      /\ ctx'[t] = "timeout"
  BY DEF Timeout, LeaseInv, LeaseTypeOK
<1>2. Over(until[t])
  BY DEF Timeout, CauseInv, TimeoutHasCause, Over
<1>3. TimeoutHasCause'
  BY <1>1, <1>2 DEF CauseInv, TimeoutHasCause, Over
<1>4. QED
  BY <1>1, <1>3, AloofCause

LEMMA TickCause ==
  ASSUME LeaseInv, CauseInv, Tick
  PROVE  CauseInv'
<1>1. now \in Nat /\ now' \in Nat /\ now' >= now
  BY DEF LeaseInv, LeaseTypeOK, Tick
<1>2. TimeoutHasCause'
  BY <1>1 DEF LeaseInv, LeaseTypeOK, CauseInv, TimeoutHasCause, Over, Tick, taskVars
<1>3. QED
  BY <1>1, <1>2, AloofCause DEF Tick, taskVars

\* What is recorded when the command ends follows from its context.
LEMMA ReturnCause ==
  ASSUME LeaseInv, CauseInv, NEW t \in Tasks, Return(t)
  PROVE  CauseInv'
<1>1. /\ UNCHANGED <<now, req, ctx, until, leaseVars, memoryVars>>
      /\ stage[t] = "running" /\ now \in Nat
  BY DEF Return, LeaseInv, LeaseTypeOK
<1>2. /\ \A u \in Tasks \ {t} : outcome'[u] = outcome[u] /\ stage'[u] = stage[u]
      /\ stage'[t] = "finishing" /\ outcome'[t] = OutcomeOf(t)
  BY DEF Return, Conclude, LeaseInv, LeaseTypeOK
<1>3. /\ OutcomeOf(t) = "cancelled" => cancelled[t] # 0 \/ EverRevoked(req[t].lease)
      /\ OutcomeOf(t) = "expired" => LeaseEnded(req[t].lease)
      /\ OutcomeOf(t) = "deadline" => Over(until[t])
  BY DEF OutcomeOf, CauseInv, CancelledHasCause, ExpiredHasCause, TimeoutHasCause
<1>4. TimeoutHasCause' /\ (Over(until[t]) => Over(until[t])')
  BY <1>1 DEF CauseInv, TimeoutHasCause, Over
<1>5. QED
  BY <1>1, <1>2, <1>3, <1>4, AloofCause

\* A step that leaves the records of the operations alone, and takes back no cause.
LEMMA StopCause ==
  ASSUME LeaseInv, CauseInv, UNCHANGED <<now, req, stage, outcome, until>>,
         \A l \in Leases : revoked[l] # 0 => revoked'[l] # 0,
         \A t \in Tasks : cancelled[t] # 0 => cancelled'[t] # 0,
         \A t \in Tasks : FoundOver(t) => expirers'[t] = expirers[t] \/ FoundOver(t)',
         \A t \in Tasks : runs[t] = "expired" => runs'[t] = "expired",
         \A t \in Tasks : runs'[t] = "expired" => runs[t] = "expired" \/ LeaseEnded(req[t].lease),
         \A t \in Tasks : \/ ctx'[t] = ctx[t]
                          \/ /\ ctx[t] = "live" /\ ctx'[t] = "cancelled"
                             /\ cancelled[t] # 0 \/ runs[t] = "expired",
         \A t \in cancelling' : cancelled'[t] # 0,
         \A x \in Expirers : \A t \in expirers'[x].cancels :
            t \in Tasks /\ (runs'[t] = "expired" \/ BeingCancelled(t)),
         ExpiringHasCause',
         HeldAreRegistered'
  PROVE  CauseInv'
<1>1. \A l : /\ EverRevoked(l) => EverRevoked(l)'
             /\ LeaseEnded(l) => LeaseEnded(l)'
  <2>1. now \in Nat /\ now' \in Nat /\ now' >= now
    BY DEF LeaseInv, LeaseTypeOK
  <2>2. QED
    BY <2>1, CauseKept DEF LeaseInv
<1>2. now' # 0
  BY DEF CauseInv
<1>3. CarriedAreExpired'
  BY DEF CauseInv, CarriedAreExpired, BeingCancelled
<1>4. ExpiredHasCause'
  BY <1>1 DEF CauseInv, ExpiredHasCause
<1>5. CancelledHasCause'
  BY <1>1 DEF CauseInv, CancelledHasCause
<1>6. TimeoutHasCause'
  BY DEF CauseInv, TimeoutHasCause, Over
<1>7. RecordHasCause'
  BY <1>1 DEF CauseInv, RecordHasCause, Over
<1>8. QED
  BY <1>2, <1>3, <1>4, <1>5, <1>6, <1>7 DEF CauseInv

\* What is about to be cancelled belongs to somebody who is.
LEMMA CarriedTyped ==
  ASSUME LeaseInv, NEW x \in Expirers, NEW t \in expirers[x].cancels
  PROVE  t \in Tasks /\ BeingCancelled(t)
BY DEF LeaseInv, LeaseTypeOK, BeingCancelled

LEMMA CancelCause ==
  ASSUME LeaseInv, CauseInv, NEW t \in Tasks, Cancel(t)
  PROVE  CauseInv'
<1>1. UNCHANGED <<now, req, taskVars, leaseVars, revoked>> /\ now \in Nat
  BY DEF Cancel, LeaseInv, LeaseTypeOK
<1>2. now + CancelTTL # 0
  BY <1>1, LeaseAssumption
<1>3. /\ \A u \in Tasks : cancelled[u] # 0 => cancelled'[u] # 0
      /\ \A u \in cancelling' : cancelled'[u] # 0
  BY <1>2 DEF Cancel, LeaseInv, LeaseTypeOK, CauseInv, CancelledHasCause
<1>4. ExpiringHasCause' /\ HeldAreRegistered'
  BY <1>1 DEF CauseInv, ExpiringHasCause, HeldAreRegistered, EverRevoked, Over, leaseVars
<1>5. QED
  BY <1>1, <1>3, <1>4, StopCause, CarriedTyped DEF taskVars, leaseVars

LEMMA CancelFoundCause ==
  ASSUME LeaseInv, CauseInv, NEW t \in Tasks, CancelFound(t)
  PROVE  CauseInv'
<1>1. /\ UNCHANGED <<now, req, stage, outcome, until, leaseVars, revoked, cancelled>>
      /\ t \in cancelling /\ cancelling' = cancelling \ {t}
  BY DEF CancelFound
<1>2. \A u \in Tasks : \/ ctx'[u] = ctx[u]
                       \/ u = t /\ ctx[u] = "live" /\ ctx'[u] = "cancelled"
  BY DEF CancelFound, CancelContext, LeaseInv, LeaseTypeOK
<1>3. \A u \in cancelling : cancelled[u] # 0
  BY DEF CauseInv, CancelledHasCause
<1>4. ExpiringHasCause' /\ HeldAreRegistered'
  BY <1>1 DEF CauseInv, ExpiringHasCause, HeldAreRegistered, EverRevoked, Over, leaseVars
<1>5. QED
  BY <1>1, <1>2, <1>3, <1>4, StopCause, CarriedTyped DEF leaseVars

LEMMA RenewCause ==
  ASSUME LeaseInv, CauseInv, NEW l \in Leases, NEW d \in Renewals, Renew(l, d)
  PROVE  CauseInv'
<1>1. UNCHANGED <<now, req, taskVars, runs, expirers, memoryVars>>
  BY DEF Renew
<1>2. \A m \in Leases : holds'[m].cancels = holds[m].cancels
  BY DEF Renew, LeaseInv, LeaseTypeOK
<1>3. \A u \in cancelling : cancelled[u] # 0
  BY DEF CauseInv, CancelledHasCause
<1>4. ExpiringHasCause' /\ HeldAreRegistered'
  BY <1>1, <1>2 DEF CauseInv, ExpiringHasCause, HeldAreRegistered, EverRevoked, Over, memoryVars
<1>5. QED
  BY <1>1, <1>3, <1>4, StopCause, CarriedTyped DEF taskVars, memoryVars

LEMMA RevokeCause ==
  ASSUME LeaseInv, CauseInv, NEW l \in Leases, Revoke(l)
  PROVE  CauseInv'
<1>1. UNCHANGED <<now, req, taskVars, runs, holds, cancelled, cancelling>> /\ l \notin Tasks
  BY LeaseAssumption DEF Revoke
<1>2. Remembered(l) # 0
  <2>1. now + RevokeTTL \in Nat \ {0} /\ holds[l].deadline \in Nat
    BY LeaseAssumption DEF LeaseInv, LeaseTypeOK
  <2>2. QED
    BY <2>1 DEF Remembered, Extended
<1>3. /\ \A m \in Leases : revoked[m] # 0 => revoked'[m] # 0
      /\ revoked'[l] # 0
  BY <1>2 DEF Revoke, LeaseInv, LeaseTypeOK
<1>4. /\ \A x \in Expirers : x # l => expirers'[x] = expirers[x]
      /\ \A x \in Expirers : expirers'[x].cancels = expirers[x].cancels
  BY DEF Revoke, LeaseInv, LeaseTypeOK
<1>5. \A u \in cancelling : cancelled[u] # 0
  BY DEF CauseInv, CancelledHasCause
<1>6. ExpiringHasCause'
  BY <1>1, <1>3, <1>4 DEF CauseInv, ExpiringHasCause, EverRevoked, Over, Expirers
<1>7. HeldAreRegistered'
  BY <1>1 DEF CauseInv, HeldAreRegistered
<1>8. \A t \in Tasks : expirers'[t] = expirers[t]
  BY <1>1, <1>4 DEF Expirers
<1>9. QED
  BY <1>1, <1>3, <1>4, <1>5, <1>6, <1>7, <1>8, StopCause, CarriedTyped DEF taskVars

LEMMA LookCause ==
  ASSUME LeaseInv, CauseInv, NEW t \in Tasks, Look(t)
  PROVE  CauseInv'
<1>1. /\ UNCHANGED <<now, req, taskVars, runs, memoryVars>> /\ expirers[t].stage = "look"
      /\ t \in Expirers /\ req[t].lease \in Leases
  BY DEF Look, Expirers, LeaseInv, WatchersHaveLeases
<1>2. /\ \A x \in Expirers : x # t => expirers'[x] = expirers[x]
      /\ expirers'[t].stage # "expire"
      /\ expirers'[t].cancels \subseteq expirers[t].cancels
  <2> DEFINE e == [expirers[t] EXCEPT !.stage = "compare", !.deadline = holds[req[t].lease].deadline]
  <2>1. expirers \in [Expirers -> ExpirerStates]
    BY DEF LeaseInv, LeaseTypeOK, ExpirerStates
  <2>2. e.stage = "compare" /\ e.cancels = expirers[t].cancels
    BY <1>1, <2>1 DEF ExpirerStates
  <2>3. Idle.stage = "none" /\ Idle.cancels = {}
    BY DEF Idle
  <2>4. expirers' = [expirers EXCEPT ![t] = e] \/ expirers' = [expirers EXCEPT ![t] = Idle]
    BY DEF Look
  <2> HIDE DEF e
  <2>5. QED
    BY <1>1, <2>1, <2>2, <2>3, <2>4
<1>3. \A m \in Leases : holds'[m].cancels \subseteq holds[m].cancels
  BY <1>1 DEF Look, NoHold, LeaseInv, LeaseTypeOK
<1>4. \A u \in cancelling : cancelled[u] # 0
  BY DEF CauseInv, CancelledHasCause
<1>5. ExpiringHasCause'
  BY <1>1, <1>2, LeaseAssumption DEF CauseInv, ExpiringHasCause, EverRevoked, Over, Expirers, memoryVars
<1>6. HeldAreRegistered'
  BY <1>1, <1>3 DEF CauseInv, HeldAreRegistered
<1>7. \A u \in Tasks : FoundOver(u) => expirers'[u] = expirers[u]
  BY <1>1, <1>2 DEF FoundOver, Expirers
<1>8. QED
  BY <1>1, <1>2, <1>4, <1>5, <1>6, <1>7, StopCause, CarriedTyped DEF taskVars, memoryVars

\* A watcher goes on to expire a lease only when the deadline it has seen is over.
LEMMA CompareCause ==
  ASSUME LeaseInv, CauseInv, NEW t \in Tasks, Compare(t)
  PROVE  CauseInv'
<1>1. /\ UNCHANGED <<now, req, taskVars, runs, holds, memoryVars>>
      /\ expirers[t].stage = "compare" /\ t \in Expirers
  BY DEF Compare, Expirers
<1>2. /\ \A x \in Expirers : x # t => expirers'[x] = expirers[x]
      /\ expirers'[t].stage = "expire" => Over(expirers'[t].deadline)
      /\ expirers'[t].cancels = expirers[t].cancels
  BY <1>1 DEF Compare, LeaseInv, LeaseTypeOK
<1>3. \A u \in cancelling : cancelled[u] # 0
  BY DEF CauseInv, CancelledHasCause
<1>4. ExpiringHasCause'
  BY <1>1, <1>2, LeaseAssumption DEF CauseInv, ExpiringHasCause, EverRevoked, Over, Expirers, memoryVars
<1>5. HeldAreRegistered'
  BY <1>1 DEF CauseInv, HeldAreRegistered
<1>6. \A u \in Tasks : FoundOver(u) => expirers'[u] = expirers[u]
  BY <1>1, <1>2 DEF FoundOver, Expirers
<1>7. QED
  BY <1>1, <1>2, <1>3, <1>4, <1>5, <1>6, StopCause, CarriedTyped DEF taskVars, memoryVars

\* The runs of the hold are marked as expired in the step that carries them off.
LEMMA ExpireCause ==
  ASSUME LeaseInv, CauseInv, NEW x \in Expirers, Expire(x)
  PROVE  CauseInv'
<1> DEFINE l == LeaseOf(x)
           h == holds[l].cancels
           e == [expirers[x] EXCEPT !.stage = CancelStage(h), !.cancels = h]
<1>1. /\ UNCHANGED <<now, req, taskVars, memoryVars>>
      /\ expirers[x].stage = "expire" /\ expirers[x].cancels = {}
  BY DEF LeaseInv, CancelsWhileCancelling, Expire
<1>2. /\ l \in Leases /\ h \subseteq Tasks
      /\ x \in Tasks => x \notin Leases /\ l = req[x].lease
      /\ x \in Leases => x \notin Tasks /\ l = x
  BY <1>1, LeaseAssumption DEF LeaseInv, LeaseTypeOK, WatchersHaveLeases, LeaseOf, Expirers
<1>3. /\ expirers' = [expirers EXCEPT ![x] = e]
      /\ holds' = [holds EXCEPT ![l] = NoHold]
      /\ runs' = [t \in Tasks |-> IF t \in h /\ runs[t] # "none" THEN "expired" ELSE runs[t]]
  BY DEF Expire, HeldRuns
<1>4. e.cancels = h /\ e.stage \in {"none", "cancel"} /\ e.deadline = expirers[x].deadline
  BY <1>1, <1>2 DEF LeaseInv, LeaseTypeOK, CancelStage
<1> HIDE DEF e
<1>5. expirers'[x] = e /\ \A y \in Expirers : y # x => expirers'[y] = expirers[y]
  BY <1>3 DEF LeaseInv, LeaseTypeOK
<1>6. LeaseEnded(l)
  BY <1>1, <1>2 DEF CauseInv, ExpiringHasCause, LeaseEnded, FoundOver, Expirers
<1>7. \A t \in h : req[t].lease = l /\ runs'[t] = "expired"
  BY <1>2, <1>3 DEF CauseInv, HeldAreRegistered
<1>8. /\ \A t \in Tasks : runs[t] = "expired" => runs'[t] = "expired"
      /\ \A t \in Tasks : runs'[t] = "expired" => runs[t] = "expired" \/ LeaseEnded(req[t].lease)
  BY <1>3, <1>6, <1>7
<1>9. \A y \in Expirers : \A t \in expirers'[y].cancels :
         t \in Tasks /\ (runs'[t] = "expired" \/ BeingCancelled(t))
  BY <1>2, <1>4, <1>5, <1>7, CarriedTyped
<1>10. ExpiringHasCause'
  BY <1>1, <1>4, <1>5 DEF CauseInv, ExpiringHasCause, EverRevoked, Over, Expirers, memoryVars
<1>11. HeldAreRegistered'
  <2> SUFFICES ASSUME NEW m \in Leases, NEW t \in holds'[m].cancels
               PROVE  req'[t].lease = m /\ runs'[t] = "registered"
    BY DEF HeldAreRegistered
  <2>1. m # l /\ t \in holds[m].cancels /\ t \in Tasks
    BY <1>2, <1>3 DEF NoHold, LeaseInv, LeaseTypeOK
  <2>2. req[t].lease = m /\ runs[t] = "registered" /\ t \notin h
    BY <1>2, <2>1 DEF CauseInv, HeldAreRegistered
  <2>3. QED
    BY <1>1, <1>3, <2>1, <2>2
<1>12. \A t \in Tasks : FoundOver(t) => expirers'[t] = expirers[t] \/ FoundOver(t)'
  BY <1>1, <1>4, <1>5 DEF FoundOver, Over, Expirers
<1>13. \A u \in cancelling : cancelled[u] # 0
  BY DEF CauseInv, CancelledHasCause
<1>14. QED
  BY <1>1, <1>8, <1>9, <1>10, <1>11, <1>12, <1>13, StopCause DEF taskVars, memoryVars

LEMMA CancelNextCause ==
  ASSUME LeaseInv, CauseInv, NEW x \in Expirers, CancelNext(x)
  PROVE  CauseInv'
<1>1. PICK t \in expirers[x].cancels :
        LET left == expirers[x].cancels \ {t} IN
        /\ CancelContext(t)
        /\ expirers' = [expirers EXCEPT ![x] =
              [@ EXCEPT !.stage = CancelStage(left), !.cancels = left]]
        /\ UNCHANGED <<now, req, log, stage, outcome, until, runs, holds, memoryVars, orders>>
  BY DEF CancelNext
<1> DEFINE left == expirers[x].cancels \ {t}
           e == [expirers[x] EXCEPT !.stage = CancelStage(left), !.cancels = left]
<1>2. e.cancels = left /\ e.stage \in {"none", "cancel"} /\ e.deadline = expirers[x].deadline
  BY DEF LeaseInv, LeaseTypeOK, CancelStage
<1>3. expirers' = [expirers EXCEPT ![x] = e]
  BY <1>1
<1> HIDE DEF e
<1>4. expirers'[x] = e /\ \A y \in Expirers : y # x => expirers'[y] = expirers[y]
  BY <1>3 DEF LeaseInv, LeaseTypeOK
<1>5. expirers[x].stage = "cancel"
  BY DEF LeaseInv, CancelsWhileCancelling
<1>6. runs[t] = "expired" \/ ctx[t] = "none"
  BY DEF CauseInv, CarriedAreExpired
<1>7. \A u \in Tasks : \/ ctx'[u] = ctx[u]
                       \/ ctx[u] = "live" /\ ctx'[u] = "cancelled" /\ runs[u] = "expired"
  BY <1>1, <1>6 DEF CancelContext, LeaseInv, LeaseTypeOK
<1>8. \A y \in Expirers : \A u \in expirers'[y].cancels : u \in Tasks /\ BeingCancelled(u)
  BY <1>2, <1>4, CarriedTyped
<1>9. ExpiringHasCause'
  BY <1>1, <1>2, <1>4, <1>5 DEF CauseInv, ExpiringHasCause, EverRevoked, Over, Expirers, memoryVars
<1>10. HeldAreRegistered'
  BY <1>1 DEF CauseInv, HeldAreRegistered
<1>11. \A u \in Tasks : FoundOver(u) => expirers'[u] = expirers[u] \/ FoundOver(u)'
  BY <1>1, <1>2, <1>4 DEF FoundOver, Over, Expirers
<1>12. \A u \in cancelling : cancelled[u] # 0
  BY DEF CauseInv, CancelledHasCause
<1>13. QED
  BY <1>1, <1>7, <1>8, <1>9, <1>10, <1>11, <1>12, StopCause DEF memoryVars

\* The operation's variables end together, so that nothing is left to have a cause.
LEMMA FinishCause ==
  ASSUME LeaseInv, CauseInv, NEW t \in Tasks, Finish(t)
  PROVE  CauseInv'
<1>1. /\ UNCHANGED <<now, req, expirers, memoryVars>>
      /\ stage[t] = "finishing"
      /\ stage'[t] = "done" /\ outcome'[t] = "none" /\ ctx'[t] = "none" /\ runs'[t] = "none"
  BY DEF Finish, LeaseInv, LeaseTypeOK
<1>2. \A u \in Tasks \ {t} : /\ stage'[u] = stage[u] /\ outcome'[u] = outcome[u]
                              /\ ctx'[u] = ctx[u] /\ until'[u] = until[u] /\ runs'[u] = runs[u]
  BY DEF Finish, LeaseInv, LeaseTypeOK
<1>3. \A m \in Leases : holds'[m].cancels \subseteq holds[m].cancels \ {t}
  <2> SUFFICES ASSUME NEW m \in Leases PROVE holds'[m].cancels \subseteq holds[m].cancels \ {t}
    OBVIOUS
  <2>1. t \in holds[m].cancels => runs[t] # "none" /\ req[t].lease = m
    BY DEF CauseInv, HeldAreRegistered
  <2>2. QED
    BY <2>1 DEF Finish, LeaveHold, LeaseInv, LeaseTypeOK
<1>4. \A l : /\ EverRevoked(l)' <=> EverRevoked(l)
             /\ LeaseEnded(l)' <=> LeaseEnded(l)
  BY <1>1 DEF EverRevoked, LeaseEnded, FoundOver, Over, memoryVars
<1>5. now' # 0 /\ ExpiringHasCause'
  BY <1>1, <1>4 DEF CauseInv, ExpiringHasCause, Over
<1>6. HeldAreRegistered'
  BY <1>1, <1>2, <1>3 DEF CauseInv, HeldAreRegistered, LeaseInv, LeaseTypeOK
<1>7. CarriedAreExpired'
  BY <1>1, <1>2, CarriedTyped DEF CauseInv, CarriedAreExpired
<1>8. ExpiredHasCause'
  BY <1>1, <1>2, <1>4 DEF CauseInv, ExpiredHasCause
<1>9. CancelledHasCause'
  BY <1>1, <1>2, <1>4 DEF CauseInv, CancelledHasCause, memoryVars
<1>10. TimeoutHasCause'
  BY <1>1, <1>2 DEF CauseInv, TimeoutHasCause, Over
<1>11. RecordHasCause'
  BY <1>1, <1>2, <1>4 DEF CauseInv, RecordHasCause, Over, memoryVars
<1>12. QED
  BY <1>5, <1>6, <1>7, <1>8, <1>9, <1>10, <1>11 DEF CauseInv

\* A registration is refused for a cause that is remembered, and starts the watcher of a
\* hold that had none.
LEMMA RegisterCause ==
  ASSUME LeaseInv, CauseInv, NEW t \in Tasks, Register(t)
  PROVE  CauseInv'
<1>1. /\ UNCHANGED <<now, req, memoryVars>> /\ stage[t] = "cleared" /\ now \in Nat
      /\ runs[t] = "none" /\ ctx[t] = "none" /\ expirers[t] = Idle /\ outcome[t] = "none"
      /\ req[t].end \in Nat
  BY RequestTyped DEF Register, LeaseInv, LeaseTypeOK, Untouched, CauseInv, RecordHasCause
<1>2. \A u \in Tasks \ {t} : /\ stage'[u] = stage[u] /\ outcome'[u] = outcome[u]
                              /\ ctx'[u] = ctx[u] /\ until'[u] = until[u] /\ runs'[u] = runs[u]
                              /\ expirers'[u] = expirers[u]
  BY DEF Register, Conclude, LeaseInv, LeaseTypeOK, leaseVars, Expirers
<1>3. /\ outcome'[t] \in {"none", "refused"}
      /\ outcome'[t] # "none" => stage'[t] = "finishing"
      /\ runs'[t] \in {"none", "registered"}
      /\ ctx'[t] \in {"none", "live", "cancelled"}
      /\ ctx'[t] = "live" => until'[t] # 0
      /\ ctx'[t] = "cancelled" => Revoked(req[t].lease) \/ Cancelled(t)
  <2>1. now + DefaultTimeout # 0
    BY <1>1, LeaseAssumption
  <2>2. QED
    BY <1>1, <2>1 DEF Register, Conclude, RefusedAtRegistration, LeaseInv, LeaseTypeOK, leaseVars
<1>4. expirers'[t] \in {Idle, Watcher} /\ \A l \in Leases : expirers'[l] = expirers[l]
  BY <1>1, LeaseAssumption DEF Register, LeaseInv, LeaseTypeOK, leaseVars, Expirers
<1>5. \A l : /\ EverRevoked(l)' <=> EverRevoked(l)
             /\ LeaseEnded(l) => LeaseEnded(l)'
  <2>1. ~FoundOver(t)
    BY <1>1 DEF FoundOver, Over, Idle
  <2>2. \A u \in Tasks : FoundOver(u) => FoundOver(u)'
    BY <1>1, <1>2, <2>1 DEF FoundOver, Over
  <2>3. QED
    BY <1>1, <2>2 DEF EverRevoked, LeaseEnded, memoryVars
<1>6. now' # 0 /\ ExpiringHasCause'
  BY <1>1, <1>2, <1>4, <1>5 DEF CauseInv, ExpiringHasCause, Over, Idle, Watcher
<1>7. HeldAreRegistered'
  <2> SUFFICES ASSUME NEW m \in Leases, NEW u \in holds'[m].cancels
               PROVE  req'[u].lease = m /\ runs'[u] = "registered"
    BY DEF HeldAreRegistered
  <2>1. \/ u \in holds[m].cancels
        \/ u = t /\ m = req[t].lease /\ runs'[t] = "registered"
    BY DEF Register, Joined, LeaseInv, LeaseTypeOK, leaseVars
  <2>2. u \in holds[m].cancels => u # t /\ u \in Tasks /\ req[u].lease = m /\ runs[u] = "registered"
    BY <1>1 DEF CauseInv, HeldAreRegistered, LeaseInv, LeaseTypeOK
  <2>3. QED
    BY <1>1, <1>2, <2>1, <2>2
<1>8. CarriedAreExpired'
  <2> SUFFICES ASSUME NEW x \in Expirers, NEW u \in expirers'[x].cancels
               PROVE  runs'[u] = "expired" \/ (stage'[u] = "done" /\ ctx'[u] = "none")
    BY DEF CarriedAreExpired
  <2>1. u \in expirers[x].cancels
    BY <1>2, <1>4 DEF Idle, Watcher, Expirers
  <2>2. u \in Tasks /\ u # t
    BY <1>1, <2>1, CarriedTyped DEF CauseInv, CarriedAreExpired
  <2>3. QED
    BY <1>2, <2>1, <2>2 DEF CauseInv, CarriedAreExpired
<1>9. ExpiredHasCause'
  BY <1>1, <1>2, <1>3, <1>5 DEF CauseInv, ExpiredHasCause
<1>10. CancelledHasCause'
  <2>1. ctx'[t] = "cancelled" => cancelled[t] # 0 \/ EverRevoked(req[t].lease)
    BY <1>1, <1>3 DEF Revoked, Cancelled, EverRevoked
  <2>2. QED
    BY <1>1, <1>2, <1>5, <2>1 DEF CauseInv, CancelledHasCause, memoryVars
<1>11. TimeoutHasCause'
  BY <1>1, <1>2, <1>3 DEF CauseInv, TimeoutHasCause, Over
<1>12. RecordHasCause'
  BY <1>1, <1>2, <1>3, <1>5 DEF CauseInv, RecordHasCause, Over, memoryVars
<1>13. QED
  BY <1>6, <1>7, <1>8, <1>9, <1>10, <1>11, <1>12 DEF CauseInv

LEMMA StepCause == LeaseInv /\ CauseInv /\ [Next]_vars => CauseInv'
<1> SUFFICES ASSUME LeaseInv, CauseInv, [Next]_vars PROVE CauseInv'
  OBVIOUS
<1>1. CASE UNCHANGED vars
  BY <1>1 DEF CauseInv, ExpiringHasCause, HeldAreRegistered, CarriedAreExpired, ExpiredHasCause,
     CancelledHasCause, TimeoutHasCause, RecordHasCause, LeaseEnded, EverRevoked, FoundOver, Over,
     vars, taskVars, leaseVars, memoryVars
<1>2. ASSUME NEW t \in Tasks,
             Accept(t) \/ TaskStep(t) \/ Return(t) \/ Timeout(t)
               \/ WatcherStep(t) \/ Cancel(t) \/ CancelFound(t)
      PROVE  CauseInv'
  BY <1>2, AcceptCause, ClearCause, RegisterCause, FinishCause, ReturnCause, TimeoutCause,
     LookCause, CompareCause, CancelCause, CancelFoundCause DEF TaskStep, WatcherStep
<1>3. ASSUME NEW x \in Expirers, ExpirerStep(x)
      PROVE  CauseInv'
  BY <1>3, ExpireCause, CancelNextCause DEF ExpirerStep
<1>4. ASSUME NEW l \in Leases, Revoke(l) \/ \E d \in Renewals : Renew(l, d)
      PROVE  CauseInv'
  BY <1>4, RevokeCause, RenewCause
<1>5. CASE Tick
  BY <1>5, TickCause
<1>6. QED
  BY <1>1, <1>2, <1>3, <1>4, <1>5 DEF Next

\* What is recorded of a stopped operation names a cause that was there (runMCPCommand,
\* mcpRunExpired): nothing is reported cancelled or expired but what was cancelled, revoked
\* or found past a deadline, however orders, watchers and the operation's end race.
THEOREM RecordsNameTheirCause == Spec => []OutcomeHasCause
<1>1. CauseInv => OutcomeHasCause
  BY DEF CauseInv, RecordHasCause, LeaseEnded, FoundOver, EverOver, OutcomeHasCause
<1>2. QED
  BY <1>1, InitCause, StepCause, AlwaysInv, PTL DEF Spec
=============================================================================
