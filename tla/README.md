# Verification of Lite-agent

Lite-agent (Go) runs on a monitored machine. It measures the machine, keeps a
session with the Lite server, runs commands and file operations the server
sends, and takes its settings from the server at run time. This directory holds
TLA+ models of its core, the TLC configurations that check them on small
instances, and proofs for TLAPS. `PROJECT.json` lists the runs, the mutants, the
source lines each definition stands for, the hazards and the theorems.

    tlasany M.tla                      # parse
    tlc -workers 2 -config X.cfg M     # model-check
    tlapm M.tla                        # check proofs

## 1. The system

| Component (source) | State | Operations | Interacts with |
|---|---|---|---|
| Task log (`tasklog/`) | map of task entries, one file | Open, Begin, Finish, Ack, PendingReports, pruning | called by remote commands and MCP |
| Remote commands (`server/task.go`) | executor goroutines, recovery loop | accept, execute, finish, recover | task log, server by HTTP POST |
| Session (`server/websocket.go`) | connection, tickers, list of acknowledgements, list of seen events | dial, attach, drop, report, heartbeat, POST fallback with pull loop, dispatch of events | everything below is started by an event |
| Runtime configuration (`server/runtime_config*.go`, `runtimeconfig/`, `server/basicInfo.go`) | current settings, processed and applied revision, pending result, change notification, upload request | apply a configuration, upload state and result | session (interval), netstatic, server |
| MCP (`server/mcp.go`) | runs, leases, revoked leases, cancelled operations | accept, execute, renew, revoke, cancel, watch, expire | task log, file sessions |
| MCP file sessions (`terminal/mcp_file.go`) | sessions by lease | get, lock, close, prune | file manager, MCP |
| File manager (`terminal/file_manager.go`) | uploads with parked chunks, reservations, downloads, workers | submit, upload start/chunk/finish/cancel, download, close | remote session |
| Remote session, shells (`terminal/`) | one connection, one pseudo terminal | forward | session event |
| Traffic statistics (`monitoring/netstatic/`) | store, cache, last counters, tickers, file | start, stop, sample, flush, save, reconfigure, clear | configuration, reports |
| Measurements (`monitoring/unit/`) | caches with a time to live | sample | reports |
| Self-update (`update/`), relocation (`relocate/`) | files on disk, service | replace the binary; move the installation | process start |
| Probes (`server/route.go`, `server/task.go`) | one mutex | trace a route, ping | session event |
| Atomic files, remote switch (`remotecontrol/`) | a flag, files | write atomically | token, commands |
| DNS (`dnsresolver/`), HTTP (`server/v2_*.go`), protocol, `ws/`, helpers | next to none | resolve, post, encode | all requests |

What is hard here, and what makes each part correct:

- **Remote commands.** Delivery is at least once, by two or more goroutines; the
  agent may die at any point; writes and uploads fail. A command must run at most
  once as long as the agent remembers it, a command cut short must be reported as
  such, a result must reach the server, and the bounded log must forget the right
  entries.
- **Session.** One goroutine selects over tickers and notifications while readers
  of old connections still run. Acknowledgements must not be lost, nor sent for
  what was not done.
- **Runtime configuration.** Configurations arrive on several goroutines, out of
  order and more than once; applying one may fail half-way; results are uploaded
  by concurrent goroutines. The newest must win, its result must arrive, and what
  is reported must be what is in force.
- **MCP leases.** Renewal, revocation, cancellation and expiry race with each
  other and with the start of a run. A run must not outlive its lease, and must
  not be killed under a lease in force.
- **Traffic statistics.** Goroutines are stopped and started on reconfiguration;
  nothing sampled may be counted twice or lost.
- **File uploads.** Chunks come in any order on several workers, and the session
  may close in between; reservations must be given back exactly once.
- **MCP file sessions.** Requests, each with a context of its own, share a session that
  is pruned, dropped or revoked while they have it in hand. No file may stay open, nor
  the lock with a goroutine whose request has given up.
- **Move and update.** The agent copies itself to another directory, hands over to
  another service, and replaces its own binary, any step of which may fail or be the
  last before a reboot. The host must keep an agent, one only, on the right release,
  with remote control as it was.
- **Probes.** Traces share one raw socket's view of the network, which hears late
  answers and those to others. A hop must be what stands there.

## 2. Plan

All of the first plan is done, in this order: `TaskLog` with `ExecAgent` over it and
the abstract `TaskService`; `RuntimeConfig`; `McpLease`; `FileUpload`; `NetStatic`;
`Installation`, with the order of versions; `Link`; `McpFile`; `Probe`; and the
theorems about them.

What is left, in the order of what it would add:

1. The file manager's copies, renames and removals by several workers: a copy that fails
   removes its target with whatever others put into it (`terminal/file_manager.go:836`).
2. The date of the last reset against a reference definition.

## 3. Modules

| Module | Models |
|---|---|
| `TaskLog` | `tasklog/tasklog.go` |
| `TaskService` | the abstract promise about commands |
| `ExecAgent` | exec events in `server/websocket.go`, the commands of `server/task.go`, over `TaskLog` |
| `Link` | the session in `server/websocket.go`, with `ws/` and `server/v2_http.go` |
| `RuntimeConfig` | `server/runtime_config*.go`, `runtimeconfig/`, uploads in `server/basicInfo.go`, how `NetworkSpeed` starts the statistics |
| `NetStatic` | `monitoring/netstatic/static.go` and its callers |
| `McpLease` | runs and leases in `server/mcp.go` |
| `McpFile` | `terminal/mcp_file.go`, downloads in `terminal/file_manager.go` |
| `FileUpload` | the queue, the workers and the uploads in `terminal/file_manager.go` |
| `Installation` | `relocate/`, `update/`, the start in `cmd/`, the state of `remotecontrol/` |
| `Probe` | `server/route.go`, pings in `server/task.go` |
| `MCTaskLog`, `MCExecAgent`, `MCExecLive`, `MCLink`, `MCRuntimeConfig`, `MCNetStatic`, `MCMcpLease`, `MCMcpFile`, `MCFileUpload`, `MCInstallation`, `MCProbe` | instances for TLC |
| `ExecAgentProofs` (with those about `TaskLog`), `RuntimeConfigProofs`, `McpLeaseProofs`, `FileUploadProofs`, `MonitoringProofs` (`NetStatic` and `Probe`), `InstallationProofs`, `McpFileProofs`, `LinkProofs` | theorems |

### TaskLog

`entries` is `Log.entries`, `disk` the content of the log file, `up` whether a
process has the log open. Every operation of the code holds the log's mutex from
start to end, so each is one action: `Open` (load, prune, convert, save),
`Begin` (with all its outcomes: `ok`, `full`, `failed`, and the state of an
entry that is there), `Finish`, `Ack`. A save either reaches the file or leaves it,
because the file is replaced by a rename; the error branches restore memory as
the code does, including that an evicted entry stays evicted. `Crash` is the
death of the process. The loops that drop the oldest entries are given by their
result (`Shrunk`): a set of droppable entries, oldest first, just as many as
needed; entries of equal age are chosen by Go's map order, hence
nondeterministically. An entry's summary, exit code and finish status are one
value `result`; a summary longer than 256 bytes is cut, which no property sees.

Operations take their outcome as a parameter so that callers compose by
conjunction.

### ExecAgent

One action for each stretch of a goroutine between two points at which others
can see what it did.

| Code | Actions |
|---|---|
| `markV2EventSeen`, start of `processV2Event` | `Deliver` |
| `acceptTask`, launch of the executor | `Accept` |
| retransmission in `acceptTask` | `Retransmit`, `ConfirmRetransmitted` |
| return of `processV2Event`, `addV2AckEventID` / `forgetV2Event` | `Answer` (part of the three above) |
| `executeAcceptedTask`, `persistTaskFinish` | `PersistFinish` |
| upload and acknowledgement in `finishTask` | `UploadResult`, `AckResult` |
| `recoverLoop`, `recoverPendingReportsWith` | `RecoverySnapshot`, `RecoveryUpload`, `RecoveryAck` |
| process start; any death | `StartAgent`, `Die` |

`readers` are the goroutines that may be inside `processV2Event` at one time:
the reader of a connection whose successor has connected already (nothing waits
for it), and the pull and report loops of the POST fallback. Readers number two
in the safety runs. The
server is an environment: it delivers any event at any time (at least once,
reordered, duplicated), and `recv` collects the results that reached it. An
upload may fail, succeed, or succeed with its reply lost. `told` are the events
acknowledged to the server; a crash loses those that were not sent. `runs`
counts executions, and the number of a run stands for its result.

### TaskService

For each task `idle -> running -> ended`, back from `ended` only when the server
has a result for it, and results are never taken back. `ExecAgent` implements
it under the mapping `StatusOf` that reads the status off the log file.

### RuntimeConfig

| Code | Actions |
|---|---|
| `processRuntimeConfig` up to the first effect, by an event or from a reply | `ReceiveEvent`, `TakeReply` (both `Take`) |
| `applyRuntimeConfig`: statistics on or off, their interfaces, `runtimeconfig.Set` | `SwitchStatistics`, `FilterStatistics`, `SetSettings` |
| the rest of `processRuntimeConfig` | `Record` |
| the goroutines that upload basic info | `BeginUpload` |
| `currentRuntimeConfigParams` | `ReadSettings`, `ReadRevision` |
| the POST and `processBasicInfoResponse` | `FailUpload`, `Replied`, `RepliedRequest`, `RepliedConfig` |
| `clearPendingConfigResult` | `ClearSent` |
| `NetworkSpeed` | `ReadForReport`, `RefreshStatistics` |

`work` is the holder of `runtimeConfigApplyMu` and the point it has reached. A
step ends wherever another goroutine can see the effect; steps are merged where
nobody can: reading the current settings with taking the lock (only its holder
writes them), and the stores of revision and result in `Record` (an uploader reads
the result first and the revision last, so that it cannot see these in the wrong
order; it can see new settings before them, and does). The reset clock is set in
the same step as the lock is taken, and a report sets clock and statistics at
once: in between only the clock can differ, which the next report sets again.

`uploads[u]` is an uploader: its stage, what it has read, and `sent`, the results
sent by the levels of `tryUploadData`, which calls itself when the reply asks for
the state. `Worker` is the goroutine that serves requests and tries again after a
failure; any other uploader runs by the clock or when a session begins.

Settings are two fields. `net` stands for the five that the statistics depend on
(reset day, time, zone, two filters), 0 for a reset day of 0; `rest` for the
others. A configuration may leave a field out (`Absent`), and may be invalid. The
server issues revisions in order; they arrive in any order and any number of
times, as do configurations without a revision. A restart loses all of this
state and is `Init` again. Starting the statistics at process start is assumed to
succeed. The id of the event that a result carries is left out: a revision has
one result, because a revision is recorded once.

### McpLease

| Code | Actions |
|---|---|
| `acceptMCPExec`, `acceptMCPFile` | `Accept` |
| `rejectMCPRun` in the goroutine of the operation | `Clear` |
| its context, `registerMCPRun` | `Register` |
| the context's timer | `Timeout` |
| end of `runMCPCommand`, of the file request | `Return` |
| `finishTask`, `unregisterMCPRun` | `Finish` |
| `watchMCPLease` | `Look`, `Compare` |
| `expireMCPLease` under the lock, then each `cancel()` | `Expire`, `CancelNext` |
| `renewMCPLease`, `revokeMCPLease` | `Renew`, `Revoke` |
| `cancelMCPOperation` | `Cancel`, `CancelFound` |

What the code does under `mcpRunMu` is one action. What it has read under the
lock and uses after it is kept: the deadline a watcher has seen, the runs an
expiry is still to cancel, the runs a cancellation has found. `expirers` holds
these goroutines: a watcher under the operation whose registration started it, a
revocation under its lease, as both end in `expireMCPLease`. A lease can have
several watchers, one that outlived its hold beside the one of a new hold.

Deadlines are instants of one clock, which starts at 1; 0 is Go's zero time, for a
request that names none. What the server asks (`req`) is fixed in a behaviour,
since an event with another content has another id. One behaviour is one life of
the process: leases and runs die with it, and `Logs` is what an earlier life may
have left of an operation, `"unknown"` for one it was cut short in. Within a
life the list of seen events answers a second delivery.

Left out: the limit of 4096 remembered revocations and cancellations and their
pruning, which only forgets what is over; events refused for their form or because
remote control is off; what file requests do, which is in `McpFile`; failing
writes of the log and uploads, which are `TaskLog` and `ExecAgent`.

### FileUpload

| Code | Actions |
|---|---|
| `submit`, with the frame or the JSON message before it | `Submit` |
| `worker`, the look at the context in `handleCtx` | `Take` |
| `startUpload` up to its temporary file; under the mutex | `Create`; `Reserve` |
| `uploadChunkBytes`: the lookup; `acceptUploadChunkLocked` | `Find`; `RefuseChunk`, `ParkChunk`, `WriteChunk` |
| `finishUpload`: `forgetUploadLocked`; up to `validateUploadTarget`; the rename | `ClaimFinish`; `Verify`; `Install` |
| `cancelUpload`: `forgetUploadLocked`; the removal | `ClaimCancel`; `Discard` |
| `close`: the context; under the mutex; each upload | `EndSession`; `Close`; `DropUpload` |

The actors are the requests, each with the stage it has reached (`stage`), rather
than the workers, which have no state of their own: a worker is busy with a request
in one of `BusyStages`, and `Take` lets no more requests be busy than there are
workers. `stage` also holds the answer, which may come late: a parked chunk is
answered when the chunk that fills the gap is written.

The manager's mutex guards `uploads`, `count` and `reserved`, the mutex of an
upload its file, and no code holds both. What is done under one of them is one
action; only a finish has a step inside, between the look at the target and the
rename, because a finish of another upload holds another mutex. `Unlocked` keeps the
others of the same upload out meanwhile.

Data are lengths and places. `content` is what stands in the temporary file, as chunks
each with the place it was written at; `torn` are the files that hold a part of a
chunk whose write failed. The checksum is not modelled: it is that of the chunks
accepted, in the order of their bytes, so that it can only refuse more. `Fault` is
any failure of a file operation. A behaviour is one session, whose manager and uploads
nobody else has; a client sends a request once (one sent again is another
request) and names an upload after the answer to its start.

Left out: chunks without an offset, whose client waits for each answer; empty chunks
and ones beyond the size limit, refused without effect; the replacement by way of a
backup on Windows. Downloads, which share the queue and the workers, are in `McpFile`.

### Link

| Code | Actions |
|---|---|
| `EstablishWebSocketConnection`, `dial` with its retries, `attach` | `Connect` (with `Attach`), `DialFails` |
| the `select` of `EstablishWebSocketConnection`: a write that fails, the reader done | `WriteFails`, `ReaderIsDone` (both `Disconnect`) |
| the reader: greeting, messages, its end | `Greet`, `GreetFails`, `Receive`, `ReadEnds` |
| the POST fallback: reports, and the pull loop | `PostReport`, `PullAgain`, `PullEnds` |
| a request, and the fallback from compression | `Rejected`, `Answered`, `Unanswered` |
| `processV2Event` | `Look` (with `Take`), `Succeed`, `Refuse` |
| the network | `Break` |

A goroutine has the events of a reply in `hands` and handles one (`busy`) at a time. The
readers of two connections, two pull loops and the session itself may do so at once,
because nothing waits for a reader whose connection was dropped, nor for a pull loop that
was cancelled. `seen` and `acks` are the two lists, under one mutex, so each access is one
action. `seen` is in the order in which events were marked, and `Mark` drops the oldest at the
limit of the list, also one that somebody still handles; `pushed` counts how often that
befell an event, for the property only. A connection is `open`, `broken` (the peer is gone, and writes may
still seem to succeed) or `closed`; the deadline that pongs move makes a broken one
unreadable. An event is work, which is forgotten when refused, or is one that stays
marked (a configuration without revision, parameters that cannot be read).

### NetStatic

| Code | Actions |
|---|---|
| `StartOrContinue`, by the start of the process or a report | `CallStart`, `Report` |
| `SetNewConfig`, `Stop`, by a configuration or a signal | `CallSetNewConfig`, `CallStop`, `Signal`; `Apply` is the configuration |
| the two goroutines: reading channel and tickers, a tick, sampling, flushing and saving | `EnterSelect`, `Fire`, `Sample`, `Flush` |
| death of the process | `Die` |
| the interfaces, the clock | `Traffic`, `CounterReset`, `Tick` |

What runs under the mutex is one action. The goroutines read the stop channel and the
tickers from globals, without the mutex, at each turn: `fresh` says whether a goroutine
that waits in its `select` holds those in force. `pending` is how far a counter is from
the last one read, `cache` and `store` the samples by instant. One reset falls at an
instant `Reset`; the sum of the cycle is of what lies at or after it. `expected` is the
reference: the bytes sampled that no known cause has lost, which are expiry, an interface
taken off the list, a failed save or load, and a crash. A saving goroutine keeps the instant
of its tick (`at`), which may be from before the reset when it gets the mutex. `Signal`
stands for the deferred stop and the exit after it; what a startup or an applier had left
to do at that moment may still happen or not, until the process dies (`Die`).

### McpFile

| Code | Actions |
|---|---|
| `registerMCPRun`, the contexts | `Register`, `ContextEnds` |
| a watcher's `expireMCPLease` under the lock; each `cancel` after it | `WatcherExpires`; `ContextEnds` |
| `revokeMCPLease`, its `expireMCPLease`, `CloseMCPFileSession` | `Revoke`, `Expire`, `CloseMCPFileSession` |
| `getMCPFileSession`, `pruneMCPFileSessions`, `manager.close` | `GetSession`, `Prune`, `Close` |
| the slots of chunks, `lockMCPFile` | `TakeSlot`, `Acquire`, `GiveUp`, `Return` |
| `runMCPFileLocked` | `Stopped`, `Start` |
| `beginDownloadHandle`, `readDownloadHandle`, `closeDownloadHandle` | `Start`, then `Admit`; `Seek`, `Read`; `CloseFile` |
| `executeMCPUploadChunk` | `Chunk` |

A request goes on with the session it has in hand, whether the map still has it or not; so
sessions are named by the request that made them, and files by the one that opened them.
`locker` is the goroutine that waits for the lock in a request's name and outlives it.
`recent` is the map in the order of last use, which decides who makes room; the ten
minutes without use are any time at all (`Prune`). An expiry takes the contexts a hold has
under the lock and cancels them one by one after it: `ctx` says of a request whether its
context is live, taken by an expiry that has not cancelled it yet, or done. A revocation
closes the session when its own cancels are through; those that a watcher has taken it does
not know of (`spared`, for the properties, says which they were). `manager.close` is one
step. Of uploads there is the hold on lock and slot only: what a
chunk does is in `FileUpload`, and the wait for its answer is done with nothing in hand.

### Installation

| Code | Actions |
|---|---|
| a start: settings and token, `relocate.Run`'s decision | `Launch`, `LoadConfig`, `Plan` |
| the move | `CopyBinary`, `CopySidecars`, `SeedState`, `Install`, `StartNew`, `WaitRunning`, `PreventRestart`, `DisableNoStop`, `Leave` |
| `retireLeftoverLegacy` | `Retire`, `StopLegacy`, `RemoveLegacy` |
| `CheckAndUpdate`, `replaceAgentBinary` | `CheckAndUpdate` |
| releases and their assets | `Publish`, `Attach` |
| a killed process, a reboot | `Crash`, `Reboot` |

A host is a record of what it has to do with this: its service manager (which differ in
whether a service can be disabled, or told not to start again), where the agent is, the
track it follows, and where token, configuration and the word on remote control come
from. A file is there or not; a copied one is whole. Each step of the move may fail,
and fails the way the code has it: some are logged and passed over, some end the move with
the old service in place. The retirement of the old service drops every error, so a failed
stop or removal goes on as if it had worked, with what was done of it; `failed` remembers it for the
properties. Versions are compared as the code does (`Ordered`), with tags
of three parts from 2.1.61 on that count their patch in tenths.

### Probe

| Code | Actions |
|---|---|
| `NewRouteTask` up to the first request, with its mutex | `Begin` |
| a hop | `Send`, `Hear`, `Timeout`, `Broken` |
| `runRouteProbe` | `Panic` |
| the unlock; the report | `Release`; `ReportRoute` |
| `NewPingTask` | `Measure`, `ReportPing` |

`flight` holds every message that may still reach the machine, each with what the code
compares (kind, sender, identity, sequence number, and the destination of the request an
error carries) and the task that caused it, which the code cannot see. An echo request is
answered by its destination, by "time exceeded" of the router where its TTL ends, or by
"destination unreachable" of any router up to there, which the code takes for the hop
as well. A message arrives
at any time, twice, or never. One that does not match is read and dropped, which nobody
can tell from one that never came. A report is tried once, as the code does.

## 4. What the runs check

| Run | Instance | Properties |
|---|---|---|
| `tasklog` | 3 tasks, capacity 2, retention 1, clock to 2, 2 failed writes | `MemoryMatchesDisk`, `ProtectedSurvives` |
| `exec` | 2 tasks, capacity 1, 2 readers, 2 executions, 1 crash, 1 failed write, list of seen events of length 1 | `ExecInvariant`, `KeepsServicePromise`, `AcksHaveGrounds` |
| `exec_live` | the same with 1 reader and a clock that stands, fairness | `TaskGetsSettled`, `EventGetsAcked` |
| `config` | 1 uploader, 2 revisions and 1 configuration without, of 4 kinds, 1 nested upload, 1 failing step | `NewestWins`, `ResultKept`, `ResultHasItsState` |
| `config_live` | 2 uploaders, 2 revisions that turn the statistics off, 1 failing step, fairness | `ResultArrives`, `StateArrives`, `StatisticsFollow` |
| `mcp` | 2 operations under 1 lease, one with a deadline of its own and one without; clock to 2; 2 renewals, revocations or cancellations; fairness | `LiveRunIsWatched`, `OrderedRunStops`, `OutcomeHasCause`, `StopIsObeyed`, `HoldIsReleased` |
| `mcpfile` | 6 workloads of 2 or 3 requests on 1 or 2 leases; room for 1 session and 1 chunk; fairness | `FilesOwned`, `RevocationCloses`, `ReadIsItsOffset`, `AllIsReleased` |
| `upload` | 2 uploads to 1 path, of 3 bytes and of none; 3 chunks, 2 finishes, 1 cancellation; 2 workers; room for 1 request, 1 parked chunk and 1 upload; 1 failing file operation; fairness | `UploadInvariant`, `TempFilesOwned`, `EndsOnce`, `RequestsAnswered` |
| `netstatic` | 1 interface, in the list of interfaces or not; 2 goroutines of each kind; 2 bytes; clock to 2 with the reset at 1, records kept for 1; a damaged file at first; 1 fault | `EveryByteOnce`, `SamplingGoesOn`, `RecordsKept` |
| `install` | 7 hosts; releases 2.1.62, 2.1.7 and 2.1.7.1; 2 faults, 2 crashes; fairness | `AgentCanStart`, `OneServes`, `RemoteControlKept`, `UpdatesAscend` |
| `link` | 1 event, of each sort; 2 connections and 2 pull loops at a time; 1 retry; WebSockets get through or not; a gateway that rejects compression; fairness | `TakenOnce`, `AcksKept`, `LinkRecovers`, `AcksArrive` |
| `probe` | a route to an address behind a router, and one to a name that gives it, an address beside the agent, or none; messages of another program; 1 ping; fairness | `HopsAreTheirs`, `ArrivalIsTheEnd`, `ProbesEnd` |

Each property has a mutant: a wrong variant of one definition (marked "Fault:" in
the modules) under which the same run finds the property violated. Three properties
join what belongs together: `ExecInvariant` (types, `RunningIsLogged`,
`AckedMeansReported`), `UploadInvariant` (`ReservationsMatch`, `UploadInOrder`) and
`RecordsKept` (`CycleKept`, `FileKept`).

Further configurations are kept beside the runs, to be called by hand. `MCLinkLimit.cfg` checks
`TakenOnce` with two events over one place in the list of seen events (below). The others
show what the code does against a doc, a comment or a test, and TLC finds the property of each
violated (see "Disagreements"):

| Configuration | Module | Property |
|---|---|---|
| `MCExecDup.cfg` | `MCExecAgent` | `EventAckedMeansLogged` |
| `MCConfigOff.cfg` | `MCRuntimeConfig` | `DisabledMeansStopped` |
| `MCMcpRenew.cfg`, `MCMcpUnknown.cfg` | `MCMcpLease` | `ExpiresWhenOver`, `InterruptedIsUnknown` |
| `MCMcpFileRevoked.cfg` | `MCMcpFile` | `RevokedIsClosed` |
| `MCUploadTorn.cfg`, `MCUploadReplaced.cfg` | `MCFileUpload` | `InstalledIsWhole`, `NothingIsReplaced` |
| `MCNetNewCycleIsClean.cfg`, `MCNetNewCycleIsWhole.cfg`, `MCNetHistoryIsKept.cfg` | `MCNetStatic` | `NewCycleIsClean`, `NewCycleIsWhole`, `HistoryIsKept` |
| `MCInstallationEnv.cfg` | `MCInstallation` | `AgentCanStart` |
| `MCProbeOwn.cfg` | `MCProbe` | `AnswersAreOwn` |

**Bounds.** With three tasks and capacity two every case of eviction occurs: a
full log of protected entries, a choice between entries of equal age and of
different age, and an entry that expires. With two tasks over one place in the
log and one place in the list of seen events, each task can push the other out of
both, so a forgotten event can be redelivered and a forgotten task run anew. Two
executions suffice for a rerun; one crash and one failed write can fall at every
point. `MaxNow`, `MaxSaveFails`, `MaxRuns` and `MaxCrashes` bound what would
grow without limit. `CHECK_DEADLOCK FALSE` is set because with the bounds reached
and everything settled nothing is left to do; so it is in the other runs, whose
clocks stop or whose requests are all through.

For `RuntimeConfig` two revisions arrive in both orders, repeated, and with one
without a revision between them; the four kinds turn the statistics off, move
their clock, change another field, and are invalid. One nested upload makes a
result be sent at two levels, one failing step leaves a change half-applied
(`MaxRevision`, `MaxPlain`, `MaxNested`, `MaxStatFails`).

For `McpLease` two operations can register before, after or while a watcher or a
revocation takes their hold, one cancelled and one not; the first may have been cut
short by an earlier life. At instant 1 nothing is over, at 2 the first lease and
the first operation, and 3 is a renewal that lies beyond the bound (`MaxNow`). Two
orders (`MaxOrders`) give every pair of them, such as a cancellation before the
registration and a revocation after it. The safety properties also hold with
three instants and three orders, which takes too long for a regular run.

For `McpFile` each workload is a meeting: two reads at different places of one file; one
file opened twice, the second closing the first, or opened and closed; two chunks, for one of
which there is no slot, or one beside a request that wants the lock alone; two leases, of which
one must make room. Contexts end, watchers expire leases and revocations come at any point. The
limit of downloads (`MaxDownloads`) is not reached.

For `FileUpload` the second chunk overlaps the first and the third can come before
both, so that chunks are written in order, parked, overtaken and refused. The other
upload is to the same path and must not replace a file. The requests that end the first
one meet each other and its chunks on the two workers; the end of the session can
fall anywhere. One place in the queue, for a parked chunk and for a registered upload
each make their limit bite: `submit` finds the queue full, a second early chunk is
refused, and the other upload can register only when the first has been claimed, so
that their finishes still overlap. One failing operation (`MaxFaults`) can be any.

For `NetStatic` two goroutines of each kind are one of earlier times beside the one in
force, which is where the code could sample or flush twice; they are
interchangeable (`Symmetry`). The instants are before, at and after the reset, and a
record expires between the first and the last. One byte at a time is enough to be lost or
counted twice; two are what it takes for one cache to have samples from both sides of the
reset, or for a flush of before to meet a sample of after. The configuration's constraint
`Bounded` allows the second byte where one goroutine of each kind is at work, all interfaces are
monitored and nothing has failed or been signalled, and a fault or a signal, but not both, with one byte. The fault (`MaxFaults`) is a write, a
read or a counter that goes back. The proofs (section 5) need none of this.

For `Installation` seven hosts have between them each service manager, each place, each source
of the token, a configuration to take along or none, and each word on remote control; any
two steps may fail and any two processes die, at any points. 2.1.62 is a
refresh of 2.1.6 by the code's order, so the releases also test that it is not taken
for newer than 2.1.7, and the third has four parts.

For `Link` two connections and two pull loops are those in force and those dropped or
cancelled and not yet gone. `MaxRetries` of 1 lets dialling fail twice, once to be tried again
and once to bring on the fallback. With one event in play all can meet over it, but nothing
pushes it off the list of seen events: that two do to each other in `MCLinkLimit.cfg` (a
connection, a pull loop and the session, with a list of one place and each event pushed off it
up to twice), in `exec` with tasks, and in the theorem with any number.

For `Probe` both traces may go to one address, where their requests are the same, and
their answers, still under way, meet both; the first hop's answer, or a router's word that
the destination is unreachable, may come as the second hop's. The limit of two hops lies at one
address and beyond the other, that of one before. Latencies lie on both sides of the retry
threshold and far enough apart for a drop.

**Fairness** and why the code justifies it. In `exec_live` goroutines run on
(weak fairness for every step of a reader, an executor and recovery rounds, which
`recoverLoop` repeats for ever); a supervisor restarts the process; an upload
repeated for ever succeeds at last, and the server redelivers what is not
acknowledged (strong fairness, since crashes and other tasks interrupt them).
Commands are assumed to end.

In `config_live` appliers, reports and the worker run on, and an upload that the
worker tries for ever is answered at last (strong fairness for `Replied`, since each
attempt may fail). Nothing is assumed of the uploads by the clock, but for
`StateArrives`, which says that it needs them.

In `mcp` goroutines run, timers fire and the clock moves up to its bound. A run
whose context is done returns, because `runMCPCommand` then kills the process and
waits for it; otherwise a command may run for ever, and the server need send
nothing more.

In `mcpfile` each request's goroutine, and the one that waits for the lock for it, run
on, contexts end by their deadlines or by the cancel that a watcher has taken, whoever is to close
a manager does it, and the pruner,
which looks every minute, drops what was left alone.

In `upload` the workers and the goroutine that closes the manager run: some request
in hand is handled further, and a request in the queue is taken. The latter is assumed
only while the session is open, since a worker that finds the context done and the queue
not empty chooses at random and may leave. The client need send nothing, and the
session need not end.

In `install` processes run on, a service manager launches what is enabled and does not
run, and the releases of the instance appear with their assets. Nothing is assumed of a
step's success, but faults and crashes are bounded.

In `link` goroutines, tickers and deadlines go on. What needs the network has strong
fairness: a connection tried for ever comes about where any does, one of those made for
ever lives to say its greeting, and of requests sent for ever one is answered.

In `probe` each goroutine runs, because each wait for the network has a deadline; of
the messages none need arrive.

**What the runs show.** The log never loses a protected task, memory follows the
file through every failure, a command is never run twice before the server has
a result for it, and every accepted command is settled at last unless it is
*stranded*: when all attempts to save its result failed, the entry stays
"started" until a restart turns it into "interrupted", is passed over by the
recovery loop, and occupies its place in the log. The agent calls an event done only when its task
is in the log or reported, or when another goroutine is about to log it, never for the mark of an
attempt that failed (`AcksHaveGrounds`). An entry is acknowledged when the server has a
result of its task. If the task was forgotten and run anew in the meantime, this may be the
earlier run's, whose worker acknowledges by the task's id (`task.go:177`), and the later result may
then never be sent; the abstract service allows that.

Of the session: whichever of the goroutines get an event, it takes effect once, and once more at
most for each time the list of seen events pushed it off, and no
acknowledgement leaves the list unsent, also while reports, pulls and readers of dropped
connections move the list at the same time. While a WebSocket is up acknowledgements
wait, because they are sent only when a connection begins; `AcksArrive` says that its
loss is what brings them to the server.

Of configurations: an older one never undoes a newer one, the result of the newest
is pending until the server has it, no result says other than what happened or
arrives ahead of the settings it speaks of, every result arrives or gives way to a
newer one by the worker alone, and the statistics come to follow the settings when
these call for them, even after a change that failed half-way.

Of the statistics: of goroutines that outlive a restart none loses a byte or counts it
twice, and those that remain always find the ticker in force. The sum of the cycle gains only what
is sampled and loses only what is lost to all records, but for the two flushes that `CycleKept`
names and the end of the process; the file is overwritten with less only by a change of the
configuration that could not load it, which `FileKept` names.

Of leases: no running run is ever without an open, watched hold or someone about to
cancel it, wherever revocations, expiries and registrations meet. A revocation or
a cancellation that is remembered reaches every run, also one that was checked
before it and registers after it; the second check in `registerMCPRun`, under the
lock, is what makes it so. What is recorded of a stopped run names a cause that was
there. Every stop is obeyed at last, and holds and watchers do not stay behind.
When registration is refused the command is started all the same, with a cancelled
context, which ends it at once.

Of file sessions: an open file always has somebody who will close it, none of a revoked
lease stays open but one whose request a watcher was about to cancel and had not, a read answers from its own offset although seek and read are two steps
(the session's lock, which downloads on a remote session do not have), and when
all requests are through nothing is held, not even by a goroutine that got the lock for
a request that had given up.

Of uploads: however two workers interleave, and whatever fails, each byte received is
in the file once and at its place; a place and the bytes reserved are given back exactly
once; an upload ends once; no temporary file is left when the session has ended. No
request waits for another one that waits for a worker or a mutex, because a parked
chunk holds neither. A chunk that is parked when its upload ends is never answered.

Of moves and updates: at any moment some enabled service finds what it needs to start,
the old and the new agent serve together only if the order to stop the old one failed, remote
control is what it was before, no update goes back unless the old service could not be stopped or
removed and so moved once more, and the newest release comes to serve.

Of probes: what counts as a hop stands there, or before there and says that the destination is
unreachable; the destination ends the trace, and every
probe reports, since the mutex is released after a panic too.

**Disagreements.** What follows holds of the code against a doc, a comment or a test. The
definition named stands in the module, and TLC finds it violated with the configuration in
the table above.

- `ExecAgent.EventAckedMeansLogged`, with two readers: `processV2Event` acknowledges a
  duplicate as soon as it is *marked*, not when its task is *logged*. The
  duplicate can be acknowledged while the first delivery is still in `Begin`; if that
  fails, the mark is removed but not the acknowledgement, and the command is lost.
  The tests (`server/exec_accept_test.go`) say a failed Begin must not be
  acknowledged, and check it with one goroutine. What holds with any number is
  `AcksHaveGrounds`.
- `RuntimeConfig.DisabledMeansStopped`: `NetworkSpeed` reads the reset day, a
  configuration sets it to 0 and stops the statistics, and the report then starts them
  again with the old day. From then on reports see 0 and leave them alone: they run until
  the process ends, although `month_rotate` 0 means disabled (`readme.md`, `cmd/root.go`).
- `McpLease.ExpiresWhenOver`: the watcher reads a deadline under the lock, compares it
  outside, and expires the lease without a second look. A renewal in between is answered
  with success, and the runs it was to keep are cancelled as expired, as are those of an
  operation registered in between with a later end of the lease. The test of renewal
  (`server/mcp_deadline_test.go`) has no watcher at its deadline.
- `McpLease.InterruptedIsUnknown`: an operation is refused for its lease, its deadline or
  a cancellation before anyone looks at the log. If the process died while it ran and
  the server delivers it again afterwards, "interrupted, outcome unknown" is
  replaced by "expired" or "cancelled" with exit code -1, as if it had never started,
  where `readme.md` promises a report of unknown outcome.
- `FileUpload.InstalledIsWhole`: `writeUploadChunkLocked` counts and hashes a chunk only
  when its write succeeds, but a write that fails may have left a part of it, with the
  file's position behind that part. The client that sends the chunk again appends it
  there. `finishUpload` compares the counter and the hash of what was accepted, never the
  file, and confirms a size and a checksum that the installed file does not have.
- `FileUpload.NothingIsReplaced`: `finishUpload` looks whether the target exists and renames
  over it in a later step, under a mutex of its own upload only. Of two finishes to one path
  the one that must not overwrite can find nothing and replace what the other has put there,
  although `readme.md:96` says that file operations intercept an existing target.
- `McpFile.RevokedIsClosed`: `expireMCPLease` takes the hold of a lease under the lock and calls
  its cancels after it. A revocation in between finds nothing to cancel and closes the
  session; a request that is live makes a session anew and leaves its download open in it until it
  is idle for ten minutes, where the comment at `terminal/mcp_file.go:84` has state kept until the
  lease is revoked.
- `NetStatic.HistoryIsKept`: `SetNewConfig` saves the empty store it began with
  (`static.go:607`) after a load that failed, and all history in the file is gone, of which
  the comment at `static.go:47` says that it is removed by age.
- `NetStatic.NewCycleIsWhole`: the saving goroutine takes its tick's time before it has the
  mutex. A tick from before the reset that waits for a sample taken after it records that
  sample in the old cycle, against the same line of the readme as the next one.
- `NetStatic.NewCycleIsClean`: a flush before the process has its reset clock, or after
  the clock was taken off, stamps the whole cache with the time of the flush, so that
  traffic from before the reset counts to the new cycle, which `readme.md:245` excludes.
- `Installation.AgentCanStart` with `MCEnvHosts`: the move copies the configuration that
  an argument names (`sidecarExtras`, `relocate/relocate.go:172`), not one named by the
  environment of the service, although `readme.md:238` says that the configuration is
  taken along. The new agent then cannot start after the old directory is removed.
- `Probe.AnswersAreOwn`: two probes of one address in a row send the same requests, so
  the second can take an answer that the first has given up. The router is right, the
  time is not this probe's. The test (`server/route_match_test.go`) has late packets
  of an earlier hop only. And whether the target was reached is
  judged by resolving it again (`server/route.go:44`), which may give another address than
  the one probed.

## 5. What is proved

`ExecAgentProofs`, first about the log by itself, for any finite or infinite set of
tasks, any capacity, retention and number of failures, from `LogAssumption` alone:

- `LogTypeCorrect`: `LogSpec => []LogTypeOK`. `LogTypeOK` is not inductive, since
  memory may be written to the file: `LogInv` says of memory too that an
  entry is "interrupted" exactly when its result is unknown.
- `MemoryFollowsDisk`: `LogSpec => []MemoryMatchesDisk`, from `MirrorInv`, which
  adds `LogInv` (the failing branches must restore well-typed maps).
- `ProtectedTasksSurvive`: `LogSpec => ProtectedSurvives`, from
  `MemoryMatchesDisk`: an operation saves memory, so what the file protects must
  be in memory before it.

The lemmas follow the code: what `Shrunk` and `Pruned` keep (`ShrunkKeepsProtected`,
`PrunedKeepsProtected`), that they return part of their argument, and one lemma for
each operation and each invariant.

Then about the agent over the log, from `ExecAssumption` as well, for any readers, tasks,
lost answers, crashes and attempts:

- `ExecTypeCorrect`: `Spec => []ExecTypeOK`.
- `ExecInvariantHolds`: `Spec => []ExecInvariant`.
- `ServicePromiseKept`: `Spec => KeepsServicePromise`, the refinement of `TaskService`:
  each step maps to a step of the service or to a stutter.
- `AcksAlwaysHaveGrounds`: `Spec => AcksHaveGrounds`.

The first three come from `ExecInv`. `ExecInvariant` relates the memory of goroutines to
the file, and none of its parts is inductive. For one task, `TaskInv` says that one
which never ran has left no trace but marked events (`NeverRan`), that who executes has its
"started" on disk and is alone (`RunningLogged`), and that whoever carries a result carries
the one on disk until the task runs again (`OwnResult`) and acknowledges only what the
server has (`HasResult`). Around it stand `MirrorInv` of the log, that a dead process holds
nothing (`Quiet`), and that both maps keep to the capacity (`BothBounded`): the service
forgets only what it may, and which entry `Shrunk` drops of a map that was too large would
be anybody's guess. `OwnResult` stops at a second run of a task on purpose. An entry that
was acknowledged and forgotten can be delivered once more, and a report of its first run is
then still on its way; the abstract service allows that, too.

`AcksAlwaysHaveGrounds` is about what the server is told, by any number of readers. `EventInv`
says of each mark that its task is logged, reported, or still being accepted
(`HasGrounds`), and it is by the marks that a redelivery is called done. That the save of the
accepting goroutine may fail afterwards is the disagreement above (`EventAckedMeansLogged`).
`AckedMeansReported` in `ExecInvariant` asks for the very result of the entry only while the task
has run once, for the reason given in section 4; beyond that, for some result of the task.

The guard of `MayRun` names the bound for one task beside that for all. The first
follows from the second, but by a sum over a function, which the provers cannot take apart.

`RuntimeConfigProofs`, for any uploaders, settings, configurations and failures,
from `ConfigAssumption` alone:

- `ConfigTypeCorrect`: `Spec => []ConfigTypeOK`. `TypeInv` adds that a revision at work
  or on its way was issued, that the one at work is newer than all processed, and
  that an upload under way holds a result or none.
- `NewestAlwaysWins`: `Spec => []NewestWins`. Between `Set` and the recording of the
  revision the settings are ahead of `done`, so the inductive `NewestInv` speaks of
  the revisions in force (`Effective`), and says what is about to be set is computed
  from the settings in force. `NewestStep` is the heart: a revision newer
  than some others sets the fields it mentions and no others.
- `ResultAlwaysKept`: `Spec => []ResultKept`. A pending result is cleared when it equals
  what an upload sent; `ResultInv` adds that every result under way is true, and
  that the server has what each answered level of an upload sent.
- `ResultsTravelWithState`: `Spec => []ResultHasItsState`. An upload reads the result, the
  settings and the revision one after the other, without the appliers' lock. The
  inductive `StateInv` rests on a `Horizon`: every revision in force is at most that,
  and every one that comes into force later is above it (`Grows`), so that the settings
  an upload has read stay those after all revisions up to some `n`, the result's included.

`McpLeaseProofs`, for any operations, leases, requests, deadlines and number of
orders, from `LeaseAssumption` alone:

- `LeaseTypeCorrect`: `Spec => []LeaseTypeOK`.
- `NoRunEscapesItsLease`: `Spec => []LiveRunIsWatched`.
- `RevocationReachesRuns`, `CancellationReachesRun`, and from both `OrdersReachRuns`:
  `Spec => []OrderedRunStops`.
- `RecordsNameTheirCause`: `Spec => []OutcomeHasCause`.

The first four come from one invariant, `LeaseInv`. None but the first is inductive: a
running run is stopped by way of its hold, so each needs that a run with a live
context is registered (`RunsAreHeld`) and in the open hold of its lease or in the
hands of an expiry, that an open hold has a watcher at work (`HoldsAreWatched`), that
watchers belong to operations of a lease (`WatchersHaveLeases`), that runs are carried
off only in the last stage of an expiry (`CancelsWhileCancelling`), and that an
operation not yet registered has no run, no context and no watcher (`Untouched`).
What an operation records is decided long after its cause, so `RecordsNameTheirCause`
comes from a second invariant, `CauseInv`: a lease that ends its runs was revoked, or a
watcher found its deadline over, removed the hold and never looks again (`LeaseEnded`);
the runs a hold cancels are registered runs of its lease (`HeldAreRegistered`); what an
expiry carries off is marked as expired in the same step (`CarriedAreExpired`); and every
ended context and every record has its cause. The lemmas are one for each action and
invariant.

`FileUploadProofs`, for any uploads, requests, limits and number of workers and
failures, from `UploadAssumption` and `RequestAssumption` (an upload has one start, as
its id is drawn at random for it):

- `UploadTypeCorrect`: `Spec => []UploadTypeOK`.
- `TempFilesAlwaysOwned`: `Spec => []TempFilesOwned`.
- `UploadEndsOnce`: `Spec => []EndsOnce`.

- `ReservationsAlwaysMatch`: `Spec => []ReservationsMatch`.
- `UploadAlwaysInOrder`: `Spec => []UploadInOrder`, and with it `UploadsAlwaysInStep`:
  `Spec => []UploadInvariant`.

The first three come from one invariant, `UploadInv`. That two requests do not both end an upload
rests on `RegisteredIsUnclaimed` (while it is registered no request to end it is past
its lookup), and this on an upload being registered only once: the client knows its id
only after its start succeeded (`UploadIsKnown`), and a start is handled once, because a
request is in the queue once (`QueuedOnce`). That no request but the one meant moves
when chunks are written needs that the parked ones are chunks (`ParkedAreChunks`,
`StagesFitRequests`).

`ReservationsMatch` follows from `CountInv`: the uploads are finitely many, their number
is `count` and their bytes are `reserved`. That the sum grows by the size of the upload
that is registered, in whatever order the fold takes its elements, is `SumStep`, by
induction over the number of elements: the set of the numbers for which it holds takes the
place of the predicate.

`UploadInOrder` follows from `OrderInv`, upload by upload: every chunk lies at its offset
and before the bytes still missing (`InPlace`), every byte received is in just one chunk
(`WrittenOnce`), what was written is what was answered (`AnsweredWhenWritten`), and of
the chunks that are parked no two begin at one place (`ParkedApart`). The heart is
`FollowingTiles`: when a missing chunk arrives, `Following` walks over the parked ones, and
what it takes covers a stretch without a gap or an overlap. Induction along the walk is out
of reach, so the proof reasons about the least set of places that is closed under its
steps (`Reach`), which has no place that the walk does not come to.

`MonitoringProofs`, about the statistics, for any interfaces, goroutines, records and
faults, from `NetStaticAssumption`:

- `SamplingNeverStops`: `Spec => []SamplingGoesOn`. The invariant adds only types
  (`SamplingInv`): the goroutine that the last start or change of configuration made
  keeps the ticker it read, or is yet to read it, until both are replaced again.
- `EveryByteAlwaysOnce`: `Spec => []EveryByteOnce`.
- `FileAlwaysKept`: `Spec => FileKept`.
- `RecordsAlwaysKept`: `Spec => RecordsKept`, that is `FileKept` and `CycleKept`, if
  `FilesOfThePast`.

`EveryByteOnce` is not inductive: loading a file again, after a failed start or a stop, replaces
the store, and is harmless only since the store has in it what the file has. `RecordInv`
adds that (`FileInStore`: all that has not expired, and nothing else when the last save
succeeded) and that before the first load nothing is in memory and no goroutine is at work
(`LoadedFirst`). The sums over instants are a recursive function, `Between`; the lemmas about
it (of a sum of records, of one record, of a stretch cut in two, of less and of as
many bytes) go by induction over instants with the set of those at which the claim holds in
place of the claim (`AllTimes`).

`CycleKept` compares sums up to now with sums over all time, so `PastInv` says that no
record, no tick and no file is of a time to come. That must be so of the file at the start:
`FilesOfThePast`, as the clock of the model starts when the agent is first started and
what is in the file was recorded before; the run's files satisfy it.

That is not enough. A record can be purged before the cycle is over, and a crash can bring it
back: a configuration is saved before the store is purged, and a start purges what it
loaded and saves nothing, so that the file still has what memory has dropped and the next
load can count it again. `HistoryInv` says why a report does not grow by that. The store has
nothing from before some instant and, from that instant on, all that the file has (`CutInv`).
And an interface has either nothing on record since the reset, in the store or in the file
(`NoLater`), or a cache with nothing from before the reset (`NoEarlier`), since the flush
that puts the first record of the cycle into the store empties the cache. So when a crash
brings back bytes of the cycle, it brings back more of the history than it loses, and
`expected` rises, too.

The other way, that the cycle loses no more than all records do, is a bound for each step
(`NoLess`, beside `NoMore`): a flush moves bytes across the reset only without the clock or
by a tick from before it (`FlushedKeepsCycle`), and a purge takes from the cycle no more than
from the history (`PurgedLoss`).

And about the return routes, for any tasks, addresses, routes, limits and messages on the raw
socket, from `ProbeAssumption`:

- `HopsAlwaysTheirs`: `ProbeSpec => []HopsAreTheirs`.
- `ArrivalAlwaysEnds`: `ProbeSpec => []ArrivalIsTheEnd`.

Both come from `RouteInv`. Who sends or waits has the mutex (`OneProbes`), so that whoever else
sent what is heard has stopped listening. What may still arrive from an echo request is
the answer of the router at its TTL, of whatever task, or of one before it that says
"unreachable" (`FlightAnswers`, `Stands`); and a hop is told by the request it was matched with
(`HeardFrom`). A trace goes on only while its address is not among its hops (`GoesOn`), and what is
reported follows from how it ended (`Reported`). The
assumption that `None` is no task is only there to tell a timeout from an answer.

`InstallationProofs`, for any hosts, releases, faults, crashes and reboots, from
`InstallationAssumption`:

- `AgentNeverLost`: `Spec => []AgentCanStart`, if no host names its configuration by the
  environment of its service (for those it is false, see above).
- `OldAndNewNeverServeTogether`: `Spec => []OneServes`.
- `RemoteControlAlwaysKept`: `Spec => []RemoteControlKept`.
- `BinariesOnlyAscend`: `Spec => NeverDowngrades`, if `ReleasesInOrder`.

The first two come from `InstallInv`, which follows the handover. `Complete`: nothing enables the
new service before its directory has all it needs, and nothing takes a file out of it.
`Enabled`: the new service is enabled wherever a step relies on it to disable the old one
or to end. `Retired`: the new agent serves only where the old process is gone, unless the order to
stop it failed, and the old service is gone, unless its removal failed.

`RemoteControlKept` is about agents that serve; what they take over was written long
before. `RemoteInv` says of the saved state in both places that it is missing or as it
should be, and no longer missing once the move has seeded it (`OldState`, `NewState`), and of
each process that has worked out its state that it is right.

For `NeverDowngrades`, `ReleaseInv` says that what is installed was published with its
asset, and that the old place has at least the release of the new one while both are
there and no removal has failed. That the order of publication is that of versions
(`ReleasesInOrder`) is a hypothesis, because the tracks do not share an order. The stable track
takes the highest version, the snapshot track the last release; if a fix of an older
line is published after a newer line, what one of them calls an update goes back for the
other.

`McpFileProofs`, for any workloads, leases and limits, from `McpFileAssumption`:

- `McpFileTypeCorrect`: `Spec => []McpFileTypeOK`.
- `FilesAlwaysOwned`: `Spec => []FilesOwned`.
- `RevocationAlwaysCloses`: `Spec => []RevocationCloses`.
- `ReadsAreNotMoved`: `Spec => []ReadIsItsOffset`.

They come from one invariant, `McpFileInv`. A request's session is in the map, about to be
closed, or closed (`SessionsAreKept`), and the map has one for each lease (`OnePerLease`), so
that a revocation which drops the lease's session drops all that can still be used. That
no file is opened afterwards needs that a live context of a revoked lease is one that a watcher
had taken before the session was closed (`RevokedIsCancelled`), since the context is looked at
under the lock; and that nobody moves a
file between seek and read needs that who reads holds the lock alone (`LockIsHeld`).
`FilesAreOfSessions` and `HandlesAreOfSessions` say that what a session lists and what a
request has found there are files opened in it.

`LinkProofs`, for any events, connections, pull loops and retries, from `LinkAssumption`:

- `EventsTakenOnce`: `Spec => []TakenOnce`.
- `AcksAlwaysKept`: `Spec => AcksKept`.

`TakenOnce` is inductive on a list without duplicates (`LinkInv`). Its heart are facts about
that list: what `Mark` adds and what the limit drops (`MarkFacts`), and that forgetting an event
takes out it and no other (`ForgottenFacts`). How many goroutines handle an event is a
cardinality, so there are finitely many of them (`LinkAssumption`).

Only model-checked: all liveness, which is out of the prover's reach (`RequestsAnswered`,
`ProbesEnd`, `UpdatesAscend` but for `NeverDowngrades`, and the other properties of the
runs with fairness), and the comparison of versions with its reference definition, a
computation over data.

## 6. Not modelled

Assumed away, in general: power loss between a write and its rename (the code never calls
fsync; a crash here is the death of the process), commands that never end, and what
commands do and print.

By part:

- **Statistics.** `Clear` and `ForceReplaceRecord`, which nothing in `src/` calls, and the
  arithmetic of dates: there is one reset instant. A byte is not told from another.
- **Session.** The report interval and the tickers, which only pace it.
- **Files.** Listing, reading, editing, copying, renaming and removing leave no state with the
  manager; what copies of several workers do to each other's targets is left to the
  file system. Downloads on a remote session, whose two workers read a handle without
  the session's lock (`file_manager.go:1024`): the server is expected to ask for one
  part at a time, and nothing in the agent makes it so. The older download of a whole file.
- **Move and update.** Only the build for Linux and FreeBSD of `relocate/`. A `systemctl stop` that succeeds is
  taken to end the process, the update library to exchange the file as one step, and published assets not
  to vanish. Start limits of the service managers are left out. `RemoteControlKept`
  excepts a host where two steps failed: the state of remote control can then be lost, and
  the new place begins with it off.
- **Probes.** Routes are taken to be stable, and no other program to use the agent's
  ICMP identity. Packets are records, not bytes.
- Everything listed as `not_modelled` in `PROJECT.json`, with its reason: the shell
  terminal, the encoding of messages, the DNS resolver, helpers, and the installers. These
  forward, parse or format, in one pass and with next to no state.
