----------------------------- MODULE ExecAgent -----------------------------
(***************************************************************************)
(* How the agent takes, runs and reports remote commands: the handlers of  *)
(* exec events (server/websocket.go), accepting, executing and finishing a *)
(* task and recovering its report (server/task.go), over the task log.     *)
(*                                                                         *)
(* Concurrent goroutines, each advancing one step at a time:               *)
(*  - readers deliver events: the reader of a WebSocket connection (an old *)
(*    one may still be in a handler when the next connects), the pull loop *)
(*    and the report loop of the POST fallback;                            *)
(*  - one executor per accepted task: run, persist, upload, acknowledge;   *)
(*  - the recovery loop and its workers, for results not yet acknowledged. *)
(* A crash ends them all and loses what is only in memory.  The server     *)
(* delivers events at least once, and may deliver one again at any time.   *)
(*                                                                         *)
(* A task's event and the task share one id.  Results are run numbers: the *)
(* k-th execution of a task yields k, whatever its output (an empty, too   *)
(* long or disallowed command yields a message in place of output).        *)
(***************************************************************************)
EXTENDS TaskLog, SequencesExt

CONSTANTS Readers,         \* goroutines that deliver events
          Workers,         \* recoverWorkerCount, between 2 and 4
          FinishAttempts,  \* finishPersistMaxAttempts
          SeenLimit,       \* v2SeenEventLimit
          MaxRuns,         \* bound on the executions of all tasks together
          MaxCrashes       \* bound on the crashes

ASSUME ExecAssumption ==
  /\ Workers \in 2..4
  /\ FinishAttempts \in Nat \ {0}
  /\ SeenLimit \in Nat \ {0}
  /\ MaxRuns \in Nat
  /\ MaxCrashes \in Nat
  /\ 1..MaxRuns \subseteq Results

VARIABLES readers,   \* what each reader is doing
          execs,     \* the executor goroutines
          rec,       \* the recovery round: what is left to do for each task
          seen,      \* v2SeenEventIDs, oldest first
          runs,      \* how often each command was executed
          recv,      \* the results the server has received
          told,      \* the events put on v2AckEventIDs, which the server is to take as done
          crashes

memVars == <<readers, execs, rec, seen>>
srvVars == <<runs, recv, told>>
vars == <<logVars, memVars, srvVars, crashes>>

IdleReader == [stage |-> "idle"]

NoReport == [stage |-> "none"]

(***************************************************************************)
(* uploadTaskResult: the POST may fail, and it may reach the server while  *)
(* the agent sees a failure.  Its retries are one attempt here.            *)
(***************************************************************************)
UploadOutcomes == {"ok", "lost", "failed"}

Upload(t, res, outcome) ==
  recv' = IF outcome = "failed" THEN recv ELSE [recv EXCEPT ![t] = @ \cup {res}]

(***************************************************************************)
(* Events.                                                                 *)
(***************************************************************************)
\* Fault: a failed task stays marked, so that its redelivery is acknowledged.
NeverForgotten(t) == seen

Forgotten(t) ==
  IF t \in Range(seen)
  THEN RemoveAt(seen, CHOOSE i \in DOMAIN seen : seen[i] = t)
  ELSE seen

MarkSeen(t) ==
  LET marked == Append(seen, t)
  IN IF Len(marked) > SeenLimit THEN Tail(marked) ELSE marked

\* A reader hands an event to processV2Event.  One that is marked is answered
\* with an acknowledgement at once; another is marked and goes to acceptTask.
Deliver(r, t) ==
  /\ up
  /\ readers[r].stage = "idle"
  /\ \/ /\ t \in Range(seen)
        /\ told' = told \cup {t}
        /\ UNCHANGED <<readers, seen>>
     \/ /\ t \notin Range(seen)
        /\ seen' = MarkSeen(t)
        /\ readers' = [readers EXCEPT ![r] = [stage |-> "accept", task |-> t]]
        /\ UNCHANGED told
  /\ UNCHANGED <<logVars, execs, rec, runs, recv, crashes>>

\* Begin's outcome turned into what the handler does next.
AckedOutcomes == {"ok", "finished", "interrupted", "started"}

RunOutcomes == {"ok"}

Executions == FoldFunction(+, 0, runs)

\* The bound on executions; that it bounds those of one task too is spelled out.
MayRun(t) == Executions < MaxRuns /\ runs[t] < MaxRuns

Executor(t) == [task |-> t, run |-> runs[t] + 1, stage |-> "run", tries |-> 0, saved |-> FALSE]

\* The handler's end: the event's id joins the ids to acknowledge, or its mark is
\* forgotten, to be tried again.  It is taken in one step with what came before:
\* a redelivery that slips in between is answered as one that came earlier.
Answer(r, t, ack) ==
  /\ readers' = [readers EXCEPT ![r] = IdleReader]
  /\ IF ack THEN told' = told \cup {t} /\ UNCHANGED seen
            ELSE seen' = Forgotten(t) /\ UNCHANGED told

\* acceptTask up to its upload, if any, and the launch of the executor.
Accept(r) ==
  /\ readers[r].stage = "accept"
  /\ LET t == readers[r].task IN
     \E outcome \in BeginOutcomes :
       /\ Begin(t, outcome)
       /\ IF outcome \in RunOutcomes
          THEN /\ MayRun(t)
               /\ execs' = execs \cup {Executor(t)}
               /\ runs' = [runs EXCEPT ![t] = @ + 1]
          ELSE UNCHANGED <<execs, runs>>
       /\ IF outcome \in {"finished", "interrupted"} /\ ~entries[t].acked
          THEN /\ readers' = [readers EXCEPT ![r] =
                    [stage |-> "upload", task |-> t, res |-> entries[t].result]]
               /\ UNCHANGED <<seen, told>>
          ELSE Answer(r, t, outcome \in AckedOutcomes)
  /\ UNCHANGED <<rec, recv, crashes>>

\* acceptTask retransmits what the log has recorded for a known task.
Retransmit(r) ==
  /\ readers[r].stage = "upload"
  /\ LET rd == readers[r] IN
     \E outcome \in UploadOutcomes :
       /\ Upload(rd.task, rd.res, outcome)
       /\ IF outcome = "ok"
          THEN /\ readers' = [readers EXCEPT ![r] = [stage |-> "confirm", task |-> rd.task]]
               /\ UNCHANGED <<seen, told>>
          ELSE Answer(r, rd.task, TRUE)
  /\ UNCHANGED <<logVars, execs, rec, runs, crashes>>

ConfirmRetransmitted(r) ==
  /\ readers[r].stage = "confirm"
  /\ \E ok \in BOOLEAN : Ack(readers[r].task, ok)
  /\ Answer(r, readers[r].task, TRUE)
  /\ UNCHANGED <<execs, rec, runs, recv, crashes>>

(***************************************************************************)
(* Executors: executeAcceptedTask and finishTask.                          *)
(***************************************************************************)
Becomes(x, y) == execs' = (execs \ {x}) \cup {y}

\* The command ends and its result is persisted, or after a failed save the
\* executor sleeps and tries again, up to FinishAttempts times in all.
PersistFinish(x) ==
  /\ x.stage = "run"
  /\ \E ok \in BOOLEAN :
       /\ Finish(x.task, x.run, ok)
       /\ Becomes(x, [x EXCEPT !.saved = ok, !.tries = @ + 1,
                      !.stage = IF ok \/ x.tries + 1 = FinishAttempts
                                THEN "upload" ELSE "run"])
  /\ UNCHANGED <<readers, rec, seen, srvVars, crashes>>

\* Fault: the acknowledgement does not wait for the upload to succeed.
AckUnsent(x, outcome) == x.saved

\* The result is acknowledged only if it was both uploaded and persisted.
AckFollows(x, outcome) == outcome = "ok" /\ x.saved

UploadResult(x) ==
  /\ x.stage = "upload"
  /\ \E outcome \in UploadOutcomes :
       /\ Upload(x.task, x.run, outcome)
       /\ IF AckFollows(x, outcome)
          THEN Becomes(x, [x EXCEPT !.stage = "ack"])
          ELSE execs' = execs \ {x}
  /\ UNCHANGED <<logVars, readers, rec, seen, runs, told, crashes>>

AckResult(x) ==
  /\ x.stage = "ack"
  /\ \E ok \in BOOLEAN : Ack(x.task, ok)
  /\ execs' = execs \ {x}
  /\ UNCHANGED <<readers, rec, seen, srvVars, crashes>>

(***************************************************************************)
(* Recovery: recoverLoop and the workers of recoverPendingReportsWith.     *)
(***************************************************************************)
\* A round starts from a snapshot of the log, once the last round is over.
RecoverySnapshot ==
  /\ up
  /\ \A t \in TaskIDs : rec[t] = NoReport
  /\ PendingReports(entries) # {}
  /\ rec' = [t \in TaskIDs |-> IF t \in PendingReports(entries)
                               THEN [stage |-> "queued", res |-> entries[t].result]
                               ELSE NoReport]
  /\ UNCHANGED <<logVars, readers, execs, seen, srvVars, crashes>>

RecoveryUpload(t, outcome) ==
  /\ rec[t].stage = "queued"
  /\ Cardinality({s \in TaskIDs : rec[s].stage = "ack"}) < Workers
  /\ Upload(t, rec[t].res, outcome)
  /\ rec' = [rec EXCEPT ![t] = IF outcome = "ok" THEN [stage |-> "ack"] ELSE NoReport]
  /\ UNCHANGED <<logVars, readers, execs, seen, runs, told, crashes>>

RecoveryAck(t) ==
  /\ rec[t].stage = "ack"
  /\ \E ok \in BOOLEAN : Ack(t, ok)
  /\ rec' = [rec EXCEPT ![t] = NoReport]
  /\ UNCHANGED <<readers, execs, seen, srvVars, crashes>>

(***************************************************************************)
(* The process.                                                            *)
(***************************************************************************)
Init ==
  /\ LogInit
  /\ readers = [r \in Readers |-> IdleReader]
  /\ execs = {}
  /\ rec = [t \in TaskIDs |-> NoReport]
  /\ seen = <<>>
  /\ runs = [t \in TaskIDs |-> 0]
  /\ recv = [t \in TaskIDs |-> {}]
  /\ told = {}
  /\ crashes = 0

StartAgent(ok) == Open(ok) /\ UNCHANGED <<memVars, srvVars, crashes>>

Die ==
  /\ crashes < MaxCrashes
  /\ Crash
  /\ crashes' = crashes + 1
  /\ readers' = [r \in Readers |-> IdleReader]
  /\ execs' = {}
  /\ rec' = [t \in TaskIDs |-> NoReport]
  /\ seen' = <<>>
  /\ told' \in SUBSET told        \* those that had been sent
  /\ UNCHANGED <<runs, recv>>

Time == Tick /\ UNCHANGED <<memVars, srvVars, crashes>>

ReaderStep(r) ==
  \/ Accept(r)
  \/ Retransmit(r)
  \/ ConfirmRetransmitted(r)

ExecutorStep(x) ==
  \/ PersistFinish(x)
  \/ UploadResult(x)
  \/ AckResult(x)

RecoveryStep ==
  \/ RecoverySnapshot
  \/ \E t \in TaskIDs, outcome \in UploadOutcomes : RecoveryUpload(t, outcome)
  \/ \E t \in TaskIDs : RecoveryAck(t)

Next ==
  \/ \E ok \in BOOLEAN : StartAgent(ok)
  \/ Die
  \/ Time
  \/ \E r \in Readers, t \in TaskIDs : Deliver(r, t)
  \/ \E r \in Readers : ReaderStep(r)
  \/ \E x \in execs : ExecutorStep(x)
  \/ RecoveryStep

Spec == Init /\ [][Next]_vars

\* What the agent's scheduling and its surroundings give: a supervisor starts the
\* process again; goroutines run on, so commands end (runTaskCommand sets no time
\* limit: a command that hangs is outside this assumption); recovery rounds never
\* cease, and an upload tried for ever succeeds at last; and the server delivers
\* an event again until it is acknowledged.
Fairness ==
  /\ WF_vars(StartAgent(TRUE))
  /\ \A r \in Readers : WF_vars(ReaderStep(r))
  /\ \A t \in TaskIDs : WF_vars(\E x \in execs : x.task = t /\ ExecutorStep(x))
  /\ WF_vars(RecoveryStep)
  /\ \A t \in TaskIDs :
       /\ SF_vars(RecoveryUpload(t, "ok"))
       /\ SF_vars(t \notin told /\ \E r \in Readers : Deliver(r, t))

FairSpec == Spec /\ Fairness
-----------------------------------------------------------------------------
(***************************************************************************)
(* Properties.                                                             *)
(***************************************************************************)
ReaderStates ==
  [stage : {"idle"}]
  \cup [stage : {"accept", "confirm"}, task : TaskIDs]
  \cup [stage : {"upload"}, task : TaskIDs, res : Results \cup {Unknown}]

ExecutorStates ==
  [task : TaskIDs, run : 1..MaxRuns, stage : {"run", "upload", "ack"},
   tries : 0..FinishAttempts, saved : BOOLEAN]

RecoveryStates ==
  [stage : {"none", "ack"}] \cup [stage : {"queued"}, res : Results \cup {Unknown}]

\* The variables hold what their Go types say.
ExecTypeOK ==
  /\ LogTypeOK
  /\ readers \in [Readers -> ReaderStates]
  /\ execs \subseteq ExecutorStates
  /\ rec \in [TaskIDs -> RecoveryStates]
  /\ seen \in Seq(TaskIDs) /\ Len(seen) <= SeenLimit
  /\ runs \in [TaskIDs -> 0..MaxRuns]
  /\ recv \in [TaskIDs -> SUBSET (Results \cup {Unknown})]
  /\ told \subseteq TaskIDs
  /\ crashes \in 0..MaxCrashes

Executing(x) == x.stage = "run"

\* A command that is being executed is on disk as "started", so that a crash at
\* any moment of its life is reported; and no task has two executions at a time,
\* however its event is duplicated.
RunningIsLogged ==
  \A x \in execs : Executing(x) =>
    /\ x.task \in DOMAIN disk /\ disk[x.task].state = "started"
    /\ \A y \in execs : Executing(y) /\ y.task = x.task => y = x

\* An entry is acknowledged only after the server has received a result of its task;
\* of a task that ran once, the very result in the entry.  Of one that was forgotten
\* and ran anew it may be the earlier run's: a worker of the recovery that uploaded
\* that one acknowledges by the task's id, late, and so the new entry.
AckedMeansReported ==
  \A t \in DOMAIN disk : disk[t].acked =>
    /\ recv[t] # {}
    /\ runs[t] = 1 => disk[t].result \in recv[t]

\* Together: the state of the agent is sound, no command runs unknown to the log or beside
\* itself, and no task is settled before the server has a result of it.
ExecInvariant == ExecTypeOK /\ RunningIsLogged /\ AckedMeansReported

BeingAccepted(t) ==
  \E r \in Readers : readers[r].stage = "accept" /\ readers[r].task = t

HasTask(t) == t \in DOMAIN disk \/ recv[t] # {}

\* Any number of goroutines deliver and redeliver events.  At the moment one of them
\* has the agent say "done" of an event, the task is in the log file, or a result of it
\* was delivered, or another goroutine is just about to log it: no mark of an attempt
\* that failed, or of one that died, makes a redelivery count as done.
AcksHaveGrounds ==
  [][\A t \in TaskIDs : t \in told' \ told => (HasTask(t) \/ BeingAccepted(t))']_vars

\* The agent tells the server that an exec event is done only when the task is in
\* the log file or its result has been delivered, so that no command is lost: "Begin
\* persist failure must not ACK", says server/exec_accept_test.go.  With two goroutines
\* it is not so: one says "done" of an event that the other is about to fail to log.
EventAckedMeansLogged ==
  \A t \in told : HasTask(t) \/ BeingAccepted(t)

\* Every save of a finished task failed, and the process lives on: only a restart
\* turns the entry into one that is reported.
Stranded(t) ==
  /\ up /\ t \in DOMAIN entries /\ entries[t].state = "started"
  /\ \A x \in execs : x.task # t

Settled(t) == recv[t] # {} /\ t \notin PendingReports(disk)

\* Through crashes, failed uploads and failed saves, the server gets a result of
\* every task the agent ever logged, and the entry becomes acknowledged and so
\* stops blocking room in the log; except for a task that is stranded.
TaskGetsSettled ==
  \A t \in TaskIDs : t \in DOMAIN disk ~> Settled(t) \/ Stranded(t)

\* Every event is acknowledged at last, even if its task first found the log full or
\* could not be saved; save when a stranded task occupies the log (or when the
\* bound on executions is reached).
EventGetsAcked ==
  \A t \in TaskIDs :
    <>(t \in told \/ Executions = MaxRuns \/ \E s \in TaskIDs : Stranded(s))

(***************************************************************************)
(* The promise to the server, read off the log file.                       *)
(***************************************************************************)
StatusOf(t) ==
  CASE t \notin DOMAIN disk          -> "idle"
    [] t \in DOMAIN disk /\ disk[t].state = "started" -> "running"
    [] t \in DOMAIN disk /\ disk[t].state # "started" -> "ended"

Service == INSTANCE TaskService WITH status <- [t \in TaskIDs |-> StatusOf(t)]

\* Whatever is lost, repeated, reordered or crashes, the log file and what the
\* server receives behave as TaskService promises.
KeepsServicePromise == Service!ServiceSpec
=============================================================================
