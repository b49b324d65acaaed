--------------------------- MODULE RuntimeConfig ---------------------------
(***************************************************************************)
(* How the agent takes its settings from the server while it runs          *)
(* (server/runtime_config.go, server/runtime_config_delivery.go,           *)
(* runtimeconfig/config.go), reports what came of it (server/basicInfo.go) *)
(* and starts and stops the traffic statistics accordingly, beside the     *)
(* reports that do so too (monitoring/unit/net.go).                        *)
(*                                                                         *)
(* Concurrent goroutines:                                                  *)
(*  - those that receive a configuration, by an event or in the reply to   *)
(*    an upload; runtimeConfigApplyMu lets one apply at a time;            *)
(*  - the uploaders of basic info: Worker, which serves the requests for   *)
(*    an upload, and those that run by the clock or at a new session;      *)
(*  - the one that reports measurements.                                   *)
(*                                                                         *)
(* Configurations arrive at any time, in any order and more than once.  A  *)
(* restart loses all of this state and is Init again.                      *)
(*                                                                         *)
(* Settings have two fields here: net stands for those on which the        *)
(* traffic statistics depend (reset day, time and zone, network filters;   *)
(* 0 when the reset day is 0), rest for all others.  The event id that a   *)
(* result carries is left out: there is one result for each revision.      *)
(***************************************************************************)
EXTENDS Integers, Sequences, FiniteSetsExt

CONSTANTS Nets, Rests,     \* the values of the two fields; Nets contains 0
          Absent,          \* a field that a configuration leaves alone
          Configs,         \* the configurations the server may issue
          StartSettings,   \* from flags and configuration file
          Uploaders, Worker,
          MaxRevision,     \* bound on the configurations issued
          MaxPlain,        \* bound on the unversioned ones
          MaxNested,       \* bound on uploads within uploads
          MaxStatFails     \* bound on the failures of the traffic statistics

Settings == [net : Nets, rest : Rests]

ASSUME ConfigAssumption ==
  /\ Nets \subseteq Nat /\ 0 \in Nets
  /\ Absent \notin Nets /\ Absent \notin Rests
  /\ Configs \subseteq [net : Nets \cup {Absent}, rest : Rests \cup {Absent}, valid : BOOLEAN]
  /\ StartSettings \in Settings
  /\ Worker \in Uploaders
  /\ {MaxRevision, MaxPlain, MaxNested, MaxStatFails} \subseteq Nat

VARIABLES settings,    \* runtimeconfig.currentState
          processed,   \* processedConfigRevision
          applied,     \* appliedConfigRevision
          pending,     \* pendingConfigResult
          request,     \* runtimeConfigStateUploadRequests holds a request
          work,        \* what the holder of runtimeConfigApplyMu is doing
          uploads,     \* what each uploader is doing
          stats,       \* netstatic: the reset clock, and whether it runs
          report,      \* what NetworkSpeed is doing
          issued,      \* the server's configurations by revision
          results,     \* the results the server has received
          known,       \* the state of the agent as the server last received it
          done,        \* the revisions that were applied, for properties only
          plain, statFails

appVars == <<settings, processed, applied, done>>
statVars == <<stats, statFails>>
srvVars == <<issued, results, known, plain>>
vars == <<appVars, pending, request, work, uploads, statVars, report, srvVars>>

NoResult == [rev |-> 0, status |-> "none"]

IdleUpload == [stage |-> "idle", sent |-> <<>>]

Unlocked == [stage |-> "free"]

NoReport == [stage |-> "idle"]

(***************************************************************************)
(* The server.                                                             *)
(***************************************************************************)
Publish(c) ==
  /\ Len(issued) < MaxRevision
  /\ issued' = Append(issued, c)
  /\ UNCHANGED <<appVars, pending, request, work, uploads, statVars, report,
                 results, known, plain>>

\* A configuration on its way: a revision, or 0 for one without a revision.
Messages ==
  {[rev |-> r, config |-> issued[r]] : r \in DOMAIN issued}
  \cup {[rev |-> 0, config |-> c] : c \in {x \in Configs : plain < MaxPlain}}

Counted(msg) == plain' = IF msg.rev = 0 THEN plain + 1 ELSE plain

(***************************************************************************)
(* Applying a configuration, under the lock.                               *)
(***************************************************************************)
Field(old, new) == IF new = Absent THEN old ELSE new

Updated(c) == [net |-> Field(settings.net, c.net), rest |-> Field(settings.rest, c.rest)]

\* Fault: whatever arrives is applied.
NeverStale(rev) == FALSE

Stale(rev) == rev > 0 /\ rev <= processed

LockFree == work.stage = "free"

\* The applier's next stage, or its end with the status to record.
Goes(stage) == work' = [work EXCEPT !.stage = stage]

Ends(status) == work' = [work EXCEPT !.stage = "record", !.status = status]

\* An applier takes the lock.  An event whose revision is stale changes nothing;
\* an uploader goes on to clear what it sent.  `by` is the uploader, if it is one.
Take(msg, by) ==
  LET next == Updated(msg.config)
      stage == IF ~msg.config.valid \/ next = settings THEN "record"
               ELSE IF next.net # settings.net THEN "switch"
               ELSE "set"
  IN /\ LockFree
     /\ ~Stale(msg.rev)
     /\ work' = [stage |-> stage, rev |-> msg.rev, next |-> next, by |-> by,
                 changed |-> stage # "record",
                 status |-> IF msg.config.valid THEN "applied" ELSE "failed"]
     /\ stats' = IF stage = "switch" THEN [stats EXCEPT !.clock = next.net] ELSE stats
     /\ UNCHANGED <<appVars, pending, request, statFails, report, issued, results, known>>

ReceiveEvent(msg) == Take(msg, {}) /\ Counted(msg) /\ UNCHANGED uploads

StatFails == statFails < MaxStatFails /\ statFails' = statFails + 1

\* netstatic.Stop, whose last save may fail, or StartOrContinue, whose load may.
SwitchStatistics ==
  /\ work.stage = "switch"
  /\ IF work.next.net = 0
     THEN /\ stats' = [stats EXCEPT !.on = FALSE]
          /\ \/ Goes("set") /\ UNCHANGED statFails
             \/ stats.on /\ StatFails /\ Ends("failed")
     ELSE \/ /\ stats' = [stats EXCEPT !.on = TRUE]
             /\ Goes("filter")
             /\ UNCHANGED statFails
          \/ /\ ~stats.on /\ StatFails
             /\ Ends("failed")
             /\ UNCHANGED stats
  /\ UNCHANGED <<appVars, pending, request, uploads, report, srvVars>>

\* The interfaces are listed and handed to the statistics.
FilterStatistics ==
  /\ work.stage = "filter"
  /\ \/ Goes("set") /\ UNCHANGED statFails
     \/ StatFails /\ Ends("failed")
  /\ UNCHANGED <<appVars, pending, request, uploads, stats, report, srvVars>>

\* runtimeconfig.Set.
SetSettings ==
  /\ work.stage = "set"
  /\ settings' = work.next
  /\ Goes("record")
  /\ UNCHANGED <<processed, applied, done, pending, request, uploads, statVars,
                 report, srvVars>>

\* Fault: a revision that changes nothing is not counted as applied.
AppliedIfChanged == IF work.changed /\ work.status = "applied" THEN work.rev ELSE applied

AppliedNow == IF work.status = "applied" THEN work.rev ELSE applied

SetPending(res) == pending' = IF pending.rev > res.rev THEN pending ELSE res

\* The revision and its result are recorded, an upload is requested and the lock is
\* given back.  An uploader reads pending before applied, so that it cannot tell
\* the order in which these change; it can tell them from the settings.
Record ==
  /\ work.stage = "record"
  /\ IF work.rev = 0
     THEN /\ request' = (request \/ (work.changed /\ work.status = "applied"))
          /\ UNCHANGED <<processed, applied, done, pending>>
     ELSE /\ processed' = work.rev
          /\ applied' = AppliedNow
          /\ done' = IF work.status = "applied" THEN done \cup {work.rev} ELSE done
          /\ SetPending([rev |-> work.rev, status |-> work.status])
          /\ request' = TRUE
  /\ work' = Unlocked
  /\ uploads' = [u \in Uploaders |->
       IF u \in work.by THEN [stage |-> "clear", sent |-> uploads[u].sent] ELSE uploads[u]]
  /\ UNCHANGED <<settings, statVars, report, srvVars>>

(***************************************************************************)
(* Uploading basic info: tryUploadDataV2.  It runs within itself when the  *)
(* server asks for the state in its reply; `sent` holds the result that    *)
(* each level has sent, innermost last.                                    *)
(***************************************************************************)
\* Worker waits for a request; the others run by the clock.
BeginUpload(u) ==
  /\ uploads[u].stage = "idle"
  /\ IF u = Worker THEN request /\ request' = FALSE ELSE UNCHANGED request
  /\ uploads' = [uploads EXCEPT ![u] = [stage |-> "settings", sent |-> <<pending>>]]
  /\ UNCHANGED <<appVars, pending, work, statVars, report, srvVars>>

\* Fault: what the agent was started with is reported.
ReportedAtStart == StartSettings

ReportedSettings == settings

ReadSettings(u) ==
  /\ uploads[u].stage = "settings"
  /\ uploads' = [uploads EXCEPT ![u] =
       [stage |-> "revision", sent |-> @.sent, settings |-> ReportedSettings]]
  /\ UNCHANGED <<appVars, pending, request, work, statVars, report, srvVars>>

ReadRevision(u) ==
  /\ uploads[u].stage = "revision"
  /\ uploads' = [uploads EXCEPT ![u] =
       [stage |-> "post", sent |-> @.sent, settings |-> @.settings, rev |-> applied]]
  /\ UNCHANGED <<appVars, pending, request, work, statVars, report, srvVars>>

\* The POST reaches the server.
Received(u) ==
  LET upload == uploads[u]
      result == upload.sent[Len(upload.sent)]
  IN /\ known' = [rev |-> upload.rev, settings |-> upload.settings]
     /\ results' = results \cup ({result} \ {NoResult})

\* Fault: the worker leaves it at one attempt.
NeverAgain(u) == FALSE

\* The worker asks for another attempt after a pause.
AsksAgain(u) == u = Worker

\* The upload fails at all its levels, whether or not the server received it.
FailUpload(u) ==
  /\ uploads[u].stage = "post"
  /\ Received(u) \/ UNCHANGED <<known, results>>
  /\ uploads' = [uploads EXCEPT ![u] = IdleUpload]
  /\ request' = (request \/ AsksAgain(u))
  /\ UNCHANGED <<appVars, pending, work, statVars, report, issued, plain>>

\* processBasicInfoResponse: the reply asks for nothing, ...
Replied(u) ==
  /\ uploads[u].stage = "post"
  /\ Received(u)
  /\ uploads' = [uploads EXCEPT ![u] = [stage |-> "clear", sent |-> @.sent]]
  /\ UNCHANGED <<appVars, pending, request, work, statVars, report, issued, plain>>

\* ... asks for the state, ...
RepliedRequest(u) ==
  /\ uploads[u].stage = "post"
  /\ Len(uploads[u].sent) <= MaxNested
  /\ Received(u)
  /\ uploads' = [uploads EXCEPT ![u] = [stage |-> "settings", sent |-> Append(@.sent, pending)]]
  /\ UNCHANGED <<appVars, pending, request, work, statVars, report, issued, plain>>

\* ... or brings a configuration.
RepliedConfig(u, msg) ==
  /\ uploads[u].stage = "post"
  /\ Received(u)
  /\ uploads' = [uploads EXCEPT ![u] = [stage |-> "take", sent |-> @.sent, msg |-> msg]]
  /\ Counted(msg)
  /\ UNCHANGED <<appVars, pending, request, work, statVars, report, issued>>

TakeReply(u) ==
  /\ uploads[u].stage = "take"
  /\ \/ /\ Take(uploads[u].msg, {u})
        /\ UNCHANGED plain
        /\ uploads' = [uploads EXCEPT ![u] = [stage |-> "wait", sent |-> @.sent]]
     \/ /\ LockFree
        /\ Stale(uploads[u].msg.rev)
        /\ uploads' = [uploads EXCEPT ![u] = [stage |-> "clear", sent |-> @.sent]]
        /\ UNCHANGED <<appVars, pending, request, work, statVars, report, srvVars>>

\* Fault: whatever is pending was sent.
AnythingWasSent(result) == result # NoResult

WasSent(result) == result # NoResult /\ pending = result

\* clearPendingConfigResult at the innermost level, which then returns.
ClearSent(u) ==
  /\ uploads[u].stage = "clear"
  /\ LET sent == uploads[u].sent
         outer == SubSeq(sent, 1, Len(sent) - 1)
     IN /\ pending' = IF WasSent(sent[Len(sent)]) THEN NoResult ELSE pending
        /\ uploads' = [uploads EXCEPT ![u] =
             IF outer = <<>> THEN IdleUpload ELSE [stage |-> "clear", sent |-> outer]]
  /\ UNCHANGED <<appVars, request, work, statVars, report, srvVars>>

(***************************************************************************)
(* Reporting measurements: NetworkSpeed reads the settings and sees to it  *)
(* that the traffic statistics run.                                        *)
(***************************************************************************)
ReadForReport ==
  /\ report.stage = "idle"
  /\ settings.net # 0
  /\ report' = [stage |-> "refresh", net |-> settings.net]
  /\ UNCHANGED <<appVars, pending, request, work, uploads, statVars, srvVars>>

\* Fault: the report leaves the statistics alone.
LeftAsTheyAre(net) == stats

Refreshed(net) == [clock |-> net, on |-> TRUE]

RefreshStatistics ==
  /\ report.stage = "refresh"
  /\ \/ stats' = Refreshed(report.net) /\ UNCHANGED statFails
     \/ ~stats.on /\ StatFails /\ stats' = [stats EXCEPT !.clock = report.net]
  /\ report' = NoReport
  /\ UNCHANGED <<appVars, pending, request, work, uploads, srvVars>>

(***************************************************************************)
(* The whole.                                                              *)
(***************************************************************************)
\* At start the statistics run if the settings call for them; the clock is set by
\* the first report.
Init ==
  /\ settings = StartSettings
  /\ processed = 0 /\ applied = 0 /\ done = {}
  /\ pending = NoResult
  /\ request = FALSE
  /\ work = Unlocked
  /\ uploads = [u \in Uploaders |-> IdleUpload]
  /\ stats = [clock |-> 0, on |-> StartSettings.net # 0]
  /\ report = NoReport
  /\ issued = <<>>
  /\ results = {}
  /\ known = [rev |-> 0, settings |-> StartSettings]
  /\ plain = 0 /\ statFails = 0

Apply == SwitchStatistics \/ FilterStatistics \/ SetSettings \/ Record

UploadStep(u) ==
  \/ ReadSettings(u)
  \/ ReadRevision(u)
  \/ FailUpload(u)
  \/ Replied(u)
  \/ RepliedRequest(u)
  \/ \E msg \in Messages : RepliedConfig(u, msg)
  \/ TakeReply(u)
  \/ ClearSent(u)

Reporting == ReadForReport \/ RefreshStatistics

Next ==
  \/ \E c \in Configs : Publish(c)
  \/ \E msg \in Messages : ReceiveEvent(msg)
  \/ Apply
  \/ \E u \in Uploaders : BeginUpload(u) \/ UploadStep(u)
  \/ Reporting

Spec == Init /\ [][Next]_vars

UploadsGoOn(u) == WF_vars(BeginUpload(u)) /\ WF_vars(UploadStep(u)) /\ SF_vars(Replied(u))

\* Goroutines run on, measurements are reported for ever, and an upload that the
\* worker tries for ever succeeds at last.
Fairness == WF_vars(Apply) /\ WF_vars(Reporting) /\ UploadsGoOn(Worker)

FairSpec == Spec /\ Fairness
-----------------------------------------------------------------------------
(***************************************************************************)
(* Properties.                                                             *)
(***************************************************************************)
Statuses == {"applied", "failed"}

Results == [rev : 1..MaxRevision, status : Statuses]

Messaged == [rev : 0..MaxRevision, config : Configs]

WorkStates ==
  {Unlocked}
  \cup [stage : {"switch", "filter", "set", "record"}, rev : 0..MaxRevision, next : Settings,
        by : SUBSET Uploaders, changed : BOOLEAN, status : Statuses]

UploadStates ==
  LET sent == Seq(Results \cup {NoResult}) IN
  [stage : {"idle", "settings", "wait", "clear"}, sent : sent]
  \cup [stage : {"revision"}, sent : sent, settings : Settings]
  \cup [stage : {"post"}, sent : sent, settings : Settings, rev : 0..MaxRevision]
  \cup [stage : {"take"}, sent : sent, msg : Messaged]

\* The variables hold what their Go types say, and the lock has one holder.
ConfigTypeOK ==
  /\ settings \in Settings
  /\ processed \in 0..MaxRevision /\ applied \in 0..processed
  /\ pending \in Results \cup {NoResult}
  /\ request \in BOOLEAN
  /\ work \in WorkStates
  /\ uploads \in [Uploaders -> UploadStates]
  /\ stats \in [clock : Nets, on : BOOLEAN]
  /\ report \in {NoReport} \cup [stage : {"refresh"}, net : Nets \ {0}]
  /\ issued \in Seq(Configs) /\ Len(issued) <= MaxRevision
  /\ results \subseteq Results
  /\ known \in [rev : 0..MaxRevision, settings : Settings]
  /\ done \subseteq DOMAIN issued
  /\ plain \in 0..MaxPlain /\ statFails \in 0..MaxStatFails
  /\ \A u \in Uploaders : uploads[u].stage = "wait" <=> work.stage # "free" /\ u \in work.by

\* The value that the newest of some revisions to set a field gives it.
Newest(revs, start, values) ==
  LET setters == {r \in revs : values[r] # Absent}
  IN IF setters = {} THEN start ELSE values[Max(setters)]

InForceAfter(revs) ==
  [net |-> Newest(revs, StartSettings.net, [r \in DOMAIN issued |-> issued[r].net]),
   rest |-> Newest(revs, StartSettings.rest, [r \in DOMAIN issued |-> issued[r].rest])]

\* Whatever the order in which configurations arrive, and however often, each
\* setting is what the newest applied revision to mention it says.
NewestWins ==
  work.stage = "free" /\ plain = 0 => settings = InForceAfter(done)

\* The result of the newest configuration is pending until the server has it, and a
\* result says "applied" of exactly those revisions that were.
ResultKept ==
  /\ work.stage = "free" /\ processed > 0 =>
       pending.rev = processed \/ \E x \in results : x.rev = processed
  /\ \A x \in results \cup ({pending} \ {NoResult}) : (x.status = "applied") <=> (x.rev \in done)

\* The revisions whose settings are in force, or have been.
Effective == done \cup
  (IF work.stage = "record" /\ work.rev > 0 /\ work.status = "applied" THEN {work.rev} ELSE {})

\* An upload that reports a revision as applied carries settings in which that
\* revision, or a newer one, is in force, and says so.
ResultHasItsState ==
  plain = 0 =>
    \A u \in Uploaders : uploads[u].stage = "post" =>
      LET upload == uploads[u]
          sent == upload.sent[Len(upload.sent)]
      IN sent.status = "applied" =>
           /\ upload.rev >= sent.rev
           /\ \E n \in sent.rev..MaxRevision :
                upload.settings = InForceAfter({r \in Effective : r <= n})

\* A result gets to the server, by the worker alone and however many uploads fail,
\* or gives way to a newer one.
ResultArrives ==
  \A r \in 1..MaxRevision :
    pending.rev = r ~> pending.rev > r \/ \E x \in results : x.rev = r

\* When the settings change no more, the server comes to know them; for this the
\* uploads by the clock must go on, as one of them may be overtaken by a newer one.
StateArrives ==
  (\A u \in Uploaders : UploadsGoOn(u)) => <>[](known = [rev |-> applied, settings |-> settings])

\* When the settings change no more and call for statistics, these run, with the
\* clock the settings say, even after a change that failed half-way.
StatisticsFollow ==
  <>[](settings.net # 0 => stats = [clock |-> settings.net, on |-> TRUE])

\* A reset day of 0 leaves no statistics running ("`0` 为禁用", readme.md).
DisabledMeansStopped ==
  work.stage = "free" /\ report.stage = "idle" /\ settings.net = 0 => ~stats.on
=============================================================================
