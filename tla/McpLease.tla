----------------------------- MODULE McpLease -----------------------------
(***************************************************************************)
(* Remote operations of an AI client (server/mcp.go): each runs under a    *)
(* context of its own and may belong to a lease.  A lease with registered  *)
(* runs is held, with a deadline, and watched by a goroutine; when its     *)
(* deadline passes, or the server revokes it, its runs are stopped.  One   *)
(* operation can also be cancelled.                                        *)
(*                                                                         *)
(* Concurrent goroutines: one per accepted operation, one watcher per hold *)
(* and the readers that deliver events.  What the code does under mcpRunMu *)
(* is one action.  Contexts are cancelled outside the lock, one by one.    *)
(*                                                                         *)
(* A deadline of 0 is the zero time: none.  The clock starts at 1.  The    *)
(* task log, its failing writes and the reports to the server are TaskLog  *)
(* and ExecAgent; here the log is what is recorded of each operation, and  *)
(* an event reaches its handler once in the life of a process.             *)
(***************************************************************************)
EXTENDS Integers, FiniteSetsExt

CONSTANTS Tasks,           \* operations
          Leases,          \* lease ids
          NoLease,         \* the empty lease id
          Requests,        \* the requests the server may send for the operations
          Logs,            \* what the task log may hold when the process starts
          Renewals,        \* the deadlines it may renew a lease to
          DefaultTimeout,  \* of an operation without a deadline
          RevokeTTL,       \* mcpRevokeMemoryTTL
          CancelTTL,       \* mcpCancelMemoryTTL
          MaxNow,          \* bound on the clock, for model checking
          MaxOrders        \* bound on the renewals, revocations and cancellations

Request == [lease    : Leases \cup {NoLease},
            leaseEnd : Nat,      \* execution_lease_deadline
            end      : Nat,      \* operation_deadline or expires_at
            file     : BOOLEAN]  \* a file request, not a command

ASSUME LeaseAssumption ==
  /\ Tasks \cap Leases = {}
  /\ NoLease \notin Leases
  /\ Requests \subseteq [Tasks -> Request]
  /\ Logs \subseteq [Tasks -> {"none", "unknown"}]
  /\ Renewals \subseteq Nat
  /\ {DefaultTimeout, RevokeTTL, CancelTTL} \subseteq Nat \ {0}
  /\ {MaxNow, MaxOrders} \subseteq Nat

VARIABLES now,
          req,        \* each operation's request
          log,        \* what the task log has of it
          stage,      \* how far its goroutine is
          outcome,    \* what it is about to record
          ctx,        \* its context: live, cancelled or timed out
          until,      \* the context's deadline
          runs,       \* mcpRuns
          holds,      \* mcpLeases
          expirers,   \* watchers, by the operation that started them, and revocations, by lease
          revoked,    \* mcpRevoked: 0, or the time until which a lease is refused
          cancelled,  \* mcpCancelled, likewise
          cancelling, \* cancellations that have found their run
          orders      \* how many renewals, revocations and cancellations came

taskVars == <<stage, outcome, ctx, until>>
leaseVars == <<runs, holds, expirers>>
memoryVars == <<revoked, cancelled, cancelling>>
vars == <<now, req, log, taskVars, leaseVars, memoryVars, orders>>

\* "refused" (exit code -1) is recorded of an operation that was not started,
\* "expired" and "deadline" (124) of one that was stopped.
Outcomes == {"result", "refused", "expired", "cancelled", "deadline"}

Stages == {"idle", "accepted", "cleared", "running", "finishing", "done"}

NoHold == [open |-> FALSE, deadline |-> 0, cancels |-> {}]

Idle == [stage |-> "none", deadline |-> 0, cancels |-> {}]

Watcher == [stage |-> "look", deadline |-> 0, cancels |-> {}]

Expirers == Tasks \cup Leases

LeaseOf(x) == IF x \in Leases THEN x ELSE req[x].lease

(***************************************************************************)
(* Deadlines.                                                              *)
(***************************************************************************)
Over(d) == d # 0 /\ d <= now

Earliest(ends) == IF ends \subseteq {0} THEN 0 ELSE Min(ends \ {0})

\* The time from which the event is refused.
StartBy(r) == IF r.file THEN Earliest({r.leaseEnd, r.end}) ELSE r.leaseEnd

RunDeadline(r) == Earliest({r.leaseEnd, r.end})

Extended(d, e) == IF e > d THEN e ELSE d

Revoked(l) == l \in Leases /\ revoked[l] > now

Cancelled(t) == cancelled[t] > now

(***************************************************************************)
(* An operation.  Its event is checked by the reader and recorded as       *)
(* started.  The checks of the reader are one step: a revocation or a      *)
(* cancellation between them is one that comes after them, and the checks  *)
(* are made again by the goroutine and, under the lock, at registration.   *)
(***************************************************************************)
Conclude(t, o) ==
  /\ outcome' = [outcome EXCEPT ![t] = o]
  /\ stage' = [stage EXCEPT ![t] = "finishing"]

Accept(t) ==
  /\ stage[t] = "idle"
  /\ \/ /\ Over(StartBy(req[t])) \/ Revoked(req[t].lease)
        /\ Conclude(t, "refused")
        /\ UNCHANGED log
     \/ /\ ~Over(StartBy(req[t]))
        /\ ~Revoked(req[t].lease)
        /\ Cancelled(t)
        /\ Conclude(t, "cancelled")
        /\ UNCHANGED log
     \/ /\ ~Over(StartBy(req[t]))
        /\ ~Revoked(req[t].lease)
        /\ ~Cancelled(t)
        /\ IF log[t] = "none"
           THEN /\ log' = [log EXCEPT ![t] = "started"]
                /\ stage' = [stage EXCEPT ![t] = "accepted"]
           ELSE /\ stage' = [stage EXCEPT ![t] = "done"]
                /\ UNCHANGED log
        /\ UNCHANGED outcome
  /\ UNCHANGED <<now, req, ctx, until, leaseVars, memoryVars, orders>>

\* rejectMCPRun, in the operation's own goroutine.
Clear(t) ==
  /\ stage[t] = "accepted"
  /\ \/ Revoked(req[t].lease) /\ Conclude(t, "refused")
     \/ ~Revoked(req[t].lease) /\ Cancelled(t) /\ Conclude(t, "cancelled")
     \/ /\ ~Revoked(req[t].lease)
        /\ ~Cancelled(t)
        /\ stage' = [stage EXCEPT ![t] = "cleared"]
        /\ UNCHANGED outcome
  /\ UNCHANGED <<now, req, log, ctx, until, leaseVars, memoryVars, orders>>

Joined(h, t, d) ==
  [open |-> TRUE, deadline |-> Extended(h.deadline, d), cancels |-> h.cancels \cup {t}]

\* Fault: registration looks at the lease only.
RefusedIfRevoked(t) == Revoked(req[t].lease)

RefusedAtRegistration(t) == Revoked(req[t].lease) \/ Cancelled(t)

\* The context, with its timeout, and registerMCPRun.  A registration that is
\* refused cancels the context; the operation goes on with it as it is.
Register(t) ==
  /\ stage[t] = "cleared"
  /\ IF Over(req[t].end)
     THEN /\ Conclude(t, "refused")
          /\ UNCHANGED <<ctx, until, leaseVars>>
     ELSE /\ stage' = [stage EXCEPT ![t] = "running"]
          /\ until' = [until EXCEPT ![t] =
                IF req[t].end = 0 THEN now + DefaultTimeout ELSE req[t].end]
          /\ UNCHANGED outcome
          /\ IF RefusedAtRegistration(t)
             THEN /\ ctx' = [ctx EXCEPT ![t] = "cancelled"]
                  /\ UNCHANGED leaseVars
             ELSE LET l == req[t].lease IN
                  /\ ctx' = [ctx EXCEPT ![t] = "live"]
                  /\ runs' = [runs EXCEPT ![t] = "registered"]
                  /\ IF l \notin Leases
                     THEN UNCHANGED <<holds, expirers>>
                     ELSE /\ holds' = [holds EXCEPT ![l] = Joined(@, t, RunDeadline(req[t]))]
                          /\ expirers' = IF holds[l].open THEN expirers
                                         ELSE [expirers EXCEPT ![t] = Watcher]
  /\ UNCHANGED <<now, req, log, memoryVars, orders>>

\* The context's timer, which matters while the operation runs.
Timeout(t) ==
  /\ stage[t] = "running"
  /\ ctx[t] = "live"
  /\ until[t] <= now
  /\ ctx' = [ctx EXCEPT ![t] = "timeout"]
  /\ UNCHANGED <<now, req, log, stage, outcome, until, leaseVars, memoryVars, orders>>

\* Fault: why the context was cancelled is not asked.
BlamesCancellation(t) ==
  CASE ctx[t] = "cancelled" -> "cancelled"
    [] ctx[t] = "timeout"   -> "deadline"
    [] OTHER                -> "result"

OutcomeOf(t) ==
  CASE ctx[t] = "cancelled" -> IF runs[t] = "expired" THEN "expired" ELSE "cancelled"
    [] ctx[t] = "timeout"   -> "deadline"
    [] OTHER                -> "result"

\* The command or the file request ends: by itself at any time, and for sure once
\* its context is done.
Return(t) ==
  /\ stage[t] = "running"
  /\ Conclude(t, OutcomeOf(t))
  /\ UNCHANGED <<now, req, log, ctx, until, leaseVars, memoryVars, orders>>

\* Fault: the run leaves mcpRuns but stays in its hold.
LeftInHold(l, t) == UNCHANGED holds

LeaveHold(l, t) == holds' = [holds EXCEPT ![l].cancels = @ \ {t}]

\* finishTask records the outcome, whatever the log has of the operation; then come
\* the deferred cancel and unregisterMCPRun.  Nobody reads the log in between, so
\* it is one step.  The operation's own variables end with it.
Finish(t) ==
  /\ stage[t] = "finishing"
  /\ log' = [log EXCEPT ![t] = outcome[t]]
  /\ stage' = [stage EXCEPT ![t] = "done"]
  /\ outcome' = [outcome EXCEPT ![t] = "none"]
  /\ ctx' = [ctx EXCEPT ![t] = "none"]
  /\ until' = [until EXCEPT ![t] = 0]
  /\ runs' = [runs EXCEPT ![t] = "none"]
  /\ IF runs[t] # "none" /\ req[t].lease \in Leases
     THEN LeaveHold(req[t].lease, t)
     ELSE UNCHANGED holds
  /\ UNCHANGED <<now, req, expirers, memoryVars, orders>>

(***************************************************************************)
(* The end of a lease.  The watcher looks at the hold under the lock, lets *)
(* go of the lock, compares the deadline it has seen with the clock, and   *)
(* sleeps or expires the lease, under the lock again.                      *)
(***************************************************************************)
\* Fault: the watcher gives up on a hold without a deadline.
NeedsNoWatcher(h) == ~h.open \/ h.cancels = {} \/ h.deadline = 0

Abandoned(h) == ~h.open \/ h.cancels = {}

Look(t) ==
  LET l == req[t].lease IN
  /\ expirers[t].stage = "look"
  /\ IF Abandoned(holds[l])
     THEN /\ holds' = [holds EXCEPT ![l] = NoHold]
          /\ expirers' = [expirers EXCEPT ![t] = Idle]
     ELSE /\ expirers' = [expirers EXCEPT ![t] =
                [@ EXCEPT !.stage = "compare", !.deadline = holds[l].deadline]]
          /\ UNCHANGED holds
  /\ UNCHANGED <<now, req, log, taskVars, runs, memoryVars, orders>>

Compare(t) ==
  /\ expirers[t].stage = "compare"
  /\ expirers' = [expirers EXCEPT ![t].stage = IF Over(expirers[t].deadline) THEN "expire" ELSE "look"]
  /\ UNCHANGED <<now, req, log, taskVars, runs, holds, memoryVars, orders>>

\* Fault: the hold is dropped, and its runs with it.
ForgetsRuns(h) == {}

HeldRuns(h) == h.cancels

CancelStage(cancels) == IF cancels = {} THEN "none" ELSE "cancel"

\* expireMCPLease, under the lock: the hold is gone, its runs are to be cancelled.
Expire(x) ==
  LET l == LeaseOf(x) IN
  /\ expirers[x].stage = "expire"
  /\ expirers' = [expirers EXCEPT ![x] =
        [@ EXCEPT !.stage = CancelStage(HeldRuns(holds[l])), !.cancels = HeldRuns(holds[l])]]
  /\ runs' = [t \in Tasks |->
        IF t \in holds[l].cancels /\ runs[t] # "none" THEN "expired" ELSE runs[t]]
  /\ holds' = [holds EXCEPT ![l] = NoHold]
  /\ UNCHANGED <<now, req, log, taskVars, memoryVars, orders>>

CancelContext(t) == ctx' = [ctx EXCEPT ![t] = IF @ = "live" THEN "cancelled" ELSE @]

\* expireMCPLease, outside the lock, in the order of Go's map iteration.
CancelNext(x) ==
  \E t \in expirers[x].cancels :
    LET left == expirers[x].cancels \ {t} IN
    /\ CancelContext(t)
    /\ expirers' = [expirers EXCEPT ![x] =
          [@ EXCEPT !.stage = CancelStage(left), !.cancels = left]]
    /\ UNCHANGED <<now, req, log, stage, outcome, until, runs, holds, memoryVars, orders>>

(***************************************************************************)
(* The server's events about leases and operations.                        *)
(***************************************************************************)
Ordered ==
  /\ orders < MaxOrders
  /\ orders' = orders + 1

Renew(l, d) ==
  /\ Ordered
  /\ ~Revoked(l)
  /\ holds[l].open
  /\ d > holds[l].deadline
  /\ holds' = [holds EXCEPT ![l].deadline = Extended(@, d)]
  /\ UNCHANGED <<now, req, log, taskVars, runs, expirers, memoryVars>>

Remembered(l) == Extended(now + RevokeTTL, holds[l].deadline)

Revoke(l) ==
  /\ Ordered
  /\ expirers[l].stage = "none"
  /\ revoked' = [revoked EXCEPT ![l] = Remembered(l)]
  /\ expirers' = [expirers EXCEPT ![l].stage = "expire"]
  /\ UNCHANGED <<now, req, log, taskVars, runs, holds, cancelled, cancelling>>

\* cancelMCPOperation, under the lock.
Cancel(t) ==
  /\ Ordered
  /\ cancelled' = [cancelled EXCEPT ![t] = now + CancelTTL]
  /\ cancelling' = IF runs[t] = "none" THEN cancelling ELSE cancelling \cup {t}
  /\ UNCHANGED <<now, req, log, taskVars, leaseVars, revoked>>

CancelFound(t) ==
  /\ t \in cancelling
  /\ CancelContext(t)
  /\ cancelling' = cancelling \ {t}
  /\ UNCHANGED <<now, req, log, stage, outcome, until, leaseVars, revoked, cancelled, orders>>

(***************************************************************************)
(* Time, and the process.  A behaviour is one life of the process: a start *)
(* finds no lease, no run and nothing revoked or cancelled, and in the log *)
(* what an earlier life left: "unknown" for an operation it was cut short  *)
(* in (TaskLog's Open), which the server may deliver again.                *)
(***************************************************************************)
Tick ==
  /\ now < MaxNow
  /\ now' = now + 1
  /\ UNCHANGED <<req, log, taskVars, leaseVars, memoryVars, orders>>

Each(v) == [t \in Tasks |-> v]

Init ==
  /\ now = 1
  /\ req \in Requests
  /\ log \in Logs
  /\ stage = Each("idle")
  /\ outcome = Each("none")
  /\ ctx = Each("none")
  /\ until = Each(0)
  /\ runs = Each("none")
  /\ holds = [l \in Leases |-> NoHold]
  /\ expirers = [x \in Expirers |-> Idle]
  /\ revoked = [l \in Leases |-> 0]
  /\ cancelled = Each(0)
  /\ cancelling = {}
  /\ orders = 0

TaskStep(t) == Clear(t) \/ Register(t) \/ Finish(t)

WatcherStep(t) == Look(t) \/ Compare(t)

ExpirerStep(x) == Expire(x) \/ CancelNext(x)

Next ==
  \/ \E t \in Tasks :
       \/ Accept(t) \/ TaskStep(t) \/ Return(t) \/ Timeout(t)
       \/ WatcherStep(t) \/ Cancel(t) \/ CancelFound(t)
  \/ \E x \in Expirers : ExpirerStep(x)
  \/ \E l \in Leases : Revoke(l) \/ \E d \in Renewals : Renew(l, d)
  \/ Tick

Spec == Init /\ [][Next]_vars

\* Goroutines run, timers fire, and a run whose context is done returns
\* (runMCPCommand kills the process and waits for it).  The server may send
\* nothing more, and a command may run for ever.
Fairness ==
  /\ \A t \in Tasks :
       /\ WF_vars(TaskStep(t))
       /\ WF_vars(ctx[t] # "live" /\ Return(t))
       /\ WF_vars(Timeout(t))
       /\ WF_vars(WatcherStep(t))
       /\ WF_vars(CancelFound(t))
  /\ \A x \in Expirers : WF_vars(ExpirerStep(x))
  /\ WF_vars(Tick)

FairSpec == Spec /\ Fairness
-----------------------------------------------------------------------------
(***************************************************************************)
(* Properties.                                                             *)
(***************************************************************************)

\* The variables hold what their Go types say; a hold that is not open is empty.
LeaseTypeOK ==
  /\ now \in Nat
  /\ req \in Requests
  /\ log \in [Tasks -> Outcomes \cup {"none", "started", "unknown"}]
  /\ stage \in [Tasks -> Stages]
  /\ outcome \in [Tasks -> Outcomes \cup {"none"}]
  /\ ctx \in [Tasks -> {"none", "live", "cancelled", "timeout"}]
  /\ until \in [Tasks -> Nat]
  /\ runs \in [Tasks -> {"none", "registered", "expired"}]
  /\ holds \in [Leases -> [open : BOOLEAN, deadline : Nat, cancels : SUBSET Tasks]]
  /\ \A l \in Leases : ~holds[l].open => holds[l] = NoHold
  /\ expirers \in [Expirers -> [stage    : {"none", "look", "compare", "expire", "cancel"},
                                deadline : Nat,
                                cancels  : SUBSET Tasks]]
  /\ revoked \in [Leases -> Nat]
  /\ cancelled \in [Tasks -> Nat]
  /\ cancelling \subseteq Tasks
  /\ orders \in Nat

\* The run is registered and nothing has stopped it yet.
Running(t) == runs[t] # "none" /\ ctx[t] = "live"

Watched(l) ==
  \E t \in Tasks : req[t].lease = l /\ expirers[t].stage \in {"look", "compare", "expire"}

BeingCancelled(t) == \E x \in Expirers : t \in expirers[x].cancels

\* No run outlives its lease unseen: whatever watchers, revocations and
\* registrations do to the same hold, a running run is either in the open hold
\* of its lease, with a watcher for it, or among the runs about to be cancelled.
LiveRunIsWatched ==
  \A t \in Tasks : Running(t) /\ req[t].lease \in Leases =>
     LET l == req[t].lease IN
     \/ holds[l].open /\ t \in holds[l].cancels /\ Watched(l)
     \/ BeingCancelled(t)

\* While the agent remembers the revocation of a lease, a running run of it is
\* about to be stopped: none slips in between its checks and its registration.
RevokedRunStops ==
  \A t \in Tasks : Running(t) /\ Revoked(req[t].lease) =>
     BeingCancelled(t) \/ expirers[req[t].lease].stage = "expire"

\* The same of an operation whose cancellation is remembered, whether it was
\* cancelled before its registration or after.
CancelledRunStops ==
  \A t \in Tasks : Running(t) /\ Cancelled(t) => t \in cancelling

\* No order to stop is lost, of a lease or of an operation, wherever it falls between
\* the checks of a run, its registration and its end (registerMCPRun).
OrderedRunStops == RevokedRunStops /\ CancelledRunStops

EverRevoked(l) == l \in Leases /\ revoked[l] # 0

\* Some watcher of the lease has seen one of its deadlines pass.
EverOver(l) == \E t \in Tasks : req[t].lease = l /\ Over(expirers[t].deadline)

\* What is recorded of a stopped operation names its cause: it was cancelled, or
\* its lease was revoked or a deadline of the lease passed, or its own deadline did.
OutcomeHasCause ==
  \A t \in Tasks :
     /\ outcome[t] = "cancelled" => cancelled[t] # 0 \/ EverRevoked(req[t].lease)
     /\ outcome[t] = "expired" => EverRevoked(req[t].lease) \/ EverOver(req[t].lease)
     /\ outcome[t] = "deadline" => Over(until[t])

LeaseOver(t) == req[t].lease \in Leases /\ Over(holds[req[t].lease].deadline)

\* A run whose operation is cancelled, whose lease is revoked or whose lease's
\* deadline passes is stopped, unless the deadline is extended in time.
StopIsObeyed ==
  \A t \in Tasks :
     Running(t) /\ (Cancelled(t) \/ Revoked(req[t].lease) \/ LeaseOver(t))
       ~> ~Running(t) \/ ~(Cancelled(t) \/ Revoked(req[t].lease) \/ LeaseOver(t))

HasRuns(l) == \E t \in Tasks : req[t].lease = l /\ runs[t] # "none"

\* The hold of a lease without runs, and its watcher, do not stay behind for ever.
HoldIsReleased ==
  \A l \in Leases : holds[l].open /\ ~HasRuns(l) ~> ~holds[l].open \/ HasRuns(l)

\* A lease is expired by its watcher only when the deadline it has is over: a
\* renewal, or a run with a later deadline, that came before keeps it.
ExpiresWhenOver ==
  [][\A t \in Tasks : LET l == req[t].lease IN
       expirers[t].stage = "expire" /\ expirers'[t].stage # "expire" /\ holds[l].open
         => Over(holds[l].deadline)]_vars

\* An operation cut short by the end of the process stays recorded as of unknown
\* outcome, whatever is delivered later.
InterruptedIsUnknown == [][\A t \in Tasks : log[t] = "unknown" => log'[t] = "unknown"]_vars
=============================================================================
