------------------------ MODULE RuntimeConfigProofs ------------------------
(***************************************************************************)
(* Theorems about RuntimeConfig, for every number of uploaders, of         *)
(* configurations and of failures.                                         *)
(***************************************************************************)
EXTENDS RuntimeConfig, WellFoundedInduction, TLAPS

(***************************************************************************)
(* Type correctness.  What the appliers and uploaders hold must be added:  *)
(* a revision at work is one the server issued and newer than all that     *)
(* were processed, and an upload under way has a result or none to send.   *)
(***************************************************************************)
WorkOK ==
  work.stage # "free" /\ work.rev > 0 => work.rev \in DOMAIN issued /\ work.rev > processed

MessagesOK ==
  \A u \in Uploaders : uploads[u].stage = "take" /\ uploads[u].msg.rev > 0 =>
    /\ uploads[u].msg.rev \in DOMAIN issued
    /\ uploads[u].msg.config = issued[uploads[u].msg.rev]

SentOK ==
  \A u \in Uploaders : uploads[u].stage # "idle" => uploads[u].sent # <<>>

TypeInv == ConfigTypeOK /\ WorkOK /\ MessagesOK /\ SentOK

\* Only the stages that hold a field have it.
LEMMA UploadFields ==
  ASSUME NEW x \in UploadStates
  PROVE  /\ x.stage \in {"idle", "settings", "wait", "clear", "revision", "post", "take"}
         /\ x.sent \in Seq(Results \cup {NoResult})
         /\ x.stage = "revision" => x.settings \in Settings
         /\ x.stage = "post" => x.settings \in Settings /\ x.rev \in 0..MaxRevision
         /\ x.stage = "take" => x.msg \in Messaged
BY DEF UploadStates

LEMMA WorkFields ==
  ASSUME NEW x \in WorkStates, x.stage # "free"
  PROVE  x \in [stage : {"switch", "filter", "set", "record"}, rev : 0..MaxRevision,
                next : Settings, by : SUBSET Uploaders, changed : BOOLEAN, status : Statuses]
BY DEF WorkStates, Unlocked

LEMMA MessageFields ==
  ASSUME TypeInv, NEW msg \in Messages
  PROVE  /\ msg \in Messaged
         /\ msg.rev > 0 => msg.rev \in DOMAIN issued /\ msg.config = issued[msg.rev]
         /\ msg.rev = 0 => plain < MaxPlain
BY ConfigAssumption DEF TypeInv, ConfigTypeOK, Messages, Messaged

LEMMA UpdatedType ==
  ASSUME TypeInv, NEW c \in Configs
  PROVE  Updated(c) \in Settings
BY ConfigAssumption DEF TypeInv, ConfigTypeOK, Updated, Field, Settings

LEMMA InitTyped == Init => TypeInv
<1> SUFFICES ASSUME Init PROVE TypeInv
  OBVIOUS
<1>1. IdleUpload \in UploadStates
  BY DEF IdleUpload, UploadStates
<1>2. stats \in [clock : Nets, on : BOOLEAN]
  <2>1. (StartSettings.net # 0) \in BOOLEAN
    OBVIOUS
  <2>2. 0 \in Nets /\ stats = [clock |-> 0, on |-> StartSettings.net # 0]
    BY ConfigAssumption DEF Init
  <2>3. QED
    BY <2>1, <2>2, Zenon
<1>3. uploads \in [Uploaders -> UploadStates]
  BY <1>1 DEF Init
<1>4. known \in [rev : 0..MaxRevision, settings : Settings]
  BY ConfigAssumption DEF Init
<1>5. \A u \in Uploaders : uploads[u].stage = "idle"
  BY DEF Init, IdleUpload
<1>6. issued \in Seq(Configs) /\ Len(issued) <= MaxRevision /\ done \subseteq DOMAIN issued
  BY ConfigAssumption DEF Init
<1>7. work = Unlocked /\ work.stage = "free" /\ work \in WorkStates
  BY DEF Init, Unlocked, WorkStates
<1>8. ConfigTypeOK
  <2>1. settings \in Settings /\ processed \in 0..MaxRevision /\ applied \in 0..processed
    BY ConfigAssumption DEF Init
  <2>2. pending \in Results \cup {NoResult} /\ request \in BOOLEAN
    BY DEF Init
  <2>3. report \in {NoReport} \cup [stage : {"refresh"}, net : Nets \ {0}]
    BY DEF Init
  <2>4. results \subseteq Results /\ plain \in 0..MaxPlain /\ statFails \in 0..MaxStatFails
    BY ConfigAssumption DEF Init
  <2>5. \A u \in Uploaders : uploads[u].stage = "wait" <=> work.stage # "free" /\ u \in work.by
    BY <1>5, <1>7
  <2>6. QED
    BY <1>2, <1>3, <1>4, <1>6, <1>7, <2>1, <2>2, <2>3, <2>4, <2>5 DEF ConfigTypeOK
<1>9. QED
  BY <1>5, <1>7, <1>8 DEF TypeInv, WorkOK, MessagesOK, SentOK

LEMMA PublishTyped ==
  ASSUME TypeInv, NEW c \in Configs, Publish(c)
  PROVE  TypeInv'
<1>1. issued' \in Seq(Configs) /\ Len(issued') = Len(issued) + 1 /\ Len(issued') <= MaxRevision
  BY ConfigAssumption DEF TypeInv, ConfigTypeOK, Publish
<1>2. \A r \in DOMAIN issued : r \in DOMAIN issued' /\ issued'[r] = issued[r]
  BY DEF TypeInv, ConfigTypeOK, Publish
<1>3. QED
  BY <1>1, <1>2 DEF TypeInv, ConfigTypeOK, WorkOK, MessagesOK, SentOK, Publish,
     appVars, statVars, Messaged, WorkStates, Settings, Results, Statuses, NoResult,
     UploadStates

\* What one uploader does leaves the others as they are.
LEMMA OneUploader ==
  ASSUME TypeInv, NEW u \in Uploaders, NEW x \in UploadStates,
         uploads' = [uploads EXCEPT ![u] = x],
         x.stage # "idle" => x.sent # <<>>,
         x.stage = "take" /\ x.msg.rev > 0 =>
           x.msg.rev \in DOMAIN issued /\ x.msg.config = issued[x.msg.rev],
         UNCHANGED issued
  PROVE  uploads' \in [Uploaders -> UploadStates] /\ MessagesOK' /\ SentOK'
BY DEF TypeInv, ConfigTypeOK, MessagesOK, SentOK

\* The stage of each uploader under the lock is known to the holder of the lock.
WaitOK == \A u \in Uploaders :
  uploads[u].stage = "wait" <=> work.stage # "free" /\ u \in work.by

LEMMA OneUploaderWaits ==
  ASSUME TypeInv, NEW u \in Uploaders, NEW x,
         uploads' = [uploads EXCEPT ![u] = x], UNCHANGED work,
         uploads[u].stage # "wait", x.stage # "wait"
  PROVE  WaitOK'
BY DEF TypeInv, ConfigTypeOK, WaitOK

\* An applier takes the lock only for a revision that is new.
LEMMA TakeTyped ==
  ASSUME TypeInv, NEW msg \in Messaged, NEW by \in SUBSET Uploaders, Take(msg, by),
         msg.rev > 0 => msg.rev \in DOMAIN issued
  PROVE  /\ work' \in WorkStates /\ work'.stage # "free" /\ work'.by = by
         /\ work'.rev > 0 => work'.rev \in DOMAIN issued /\ work'.rev > processed
         /\ stats' \in [clock : Nets, on : BOOLEAN]
         /\ work.stage = "free"
<1> DEFINE next == Updated(msg.config)
           stage == IF ~msg.config.valid \/ next = settings THEN "record"
                    ELSE IF next.net # settings.net THEN "switch"
                    ELSE "set"
           status == IF msg.config.valid THEN "applied" ELSE "failed"
<1>1. next \in Settings
  BY UpdatedType DEF Messaged
<1>2. /\ work.stage = "free"
      /\ ~Stale(msg.rev)
      /\ work' = [stage |-> stage, rev |-> msg.rev, next |-> next, by |-> by,
                  changed |-> stage # "record", status |-> status]
      /\ stats' = IF stage = "switch" THEN [stats EXCEPT !.clock = next.net] ELSE stats
  BY DEF Take, LockFree
<1>3. /\ stage \in {"switch", "set", "record"} /\ (stage # "record") \in BOOLEAN
      /\ status \in Statuses /\ msg.rev \in 0..MaxRevision
  BY DEF Statuses, Messaged
<1> HIDE DEF next, stage, status
<1>4. work' \in WorkStates
  BY <1>1, <1>2, <1>3, Zenon DEF WorkStates
<1>5. stats' \in [clock : Nets, on : BOOLEAN]
  BY <1>1, <1>2 DEF TypeInv, ConfigTypeOK, Settings
<1>6. msg.rev > 0 => msg.rev > processed
  BY <1>2, <1>3, ConfigAssumption DEF Stale, TypeInv, ConfigTypeOK
<1>7. work'.stage = stage /\ work'.by = by /\ work'.rev = msg.rev
  BY <1>2
<1>8. QED
  BY <1>2, <1>3, <1>4, <1>5, <1>6, <1>7

LEMMA ReceiveEventTyped ==
  ASSUME TypeInv, NEW msg \in Messages, ReceiveEvent(msg)
  PROVE  TypeInv'
<1>1. Take(msg, {}) /\ Counted(msg) /\ UNCHANGED <<uploads, appVars, pending, request,
        statFails, report, issued, results, known>>
  BY DEF ReceiveEvent, Take
<1>2. /\ work' \in WorkStates /\ work'.stage # "free" /\ work'.by = {}
      /\ work'.rev > 0 => work'.rev \in DOMAIN issued /\ work'.rev > processed
      /\ stats' \in [clock : Nets, on : BOOLEAN]
      /\ work.stage = "free"
  BY <1>1, TakeTyped, MessageFields
<1>3. plain' \in 0..MaxPlain
  BY <1>1, MessageFields, ConfigAssumption DEF Counted, TypeInv, ConfigTypeOK
<1>4. WaitOK'
  BY <1>1, <1>2 DEF WaitOK, TypeInv, ConfigTypeOK
<1>5. QED
  BY <1>1, <1>2, <1>3, <1>4
     DEF TypeInv, ConfigTypeOK, WorkOK, MessagesOK, SentOK, WaitOK, appVars

\* An applier that goes on, or ends with a status, keeps its revision and uploader.
LEMMA WorkGoesOn ==
  ASSUME TypeInv, work.stage # "free",
         (\E stage \in {"filter", "set", "record"} : Goes(stage)) \/ Ends("failed")
  PROVE  /\ work' \in WorkStates /\ work'.stage # "free" /\ work'.by = work.by
         /\ work'.rev = work.rev /\ work'.next = work.next
<1>1. work \in [stage : {"switch", "filter", "set", "record"}, rev : 0..MaxRevision,
                next : Settings, by : SUBSET Uploaders, changed : BOOLEAN, status : Statuses]
  BY WorkFields DEF TypeInv, ConfigTypeOK
<1>2. CASE \E stage \in {"filter", "set", "record"} : Goes(stage)
  BY <1>1, <1>2 DEF Goes, WorkStates
<1>3. CASE Ends("failed")
  BY <1>1, <1>3 DEF Ends, WorkStates, Statuses
<1>4. QED
  BY <1>2, <1>3

LEMMA StatFailsTyped ==
  ASSUME TypeInv, StatFails \/ UNCHANGED statFails
  PROVE  statFails' \in 0..MaxStatFails
BY ConfigAssumption DEF StatFails, TypeInv, ConfigTypeOK

LEMMA SwitchStatisticsTyped ==
  ASSUME TypeInv, SwitchStatistics
  PROVE  TypeInv'
<1>1. work.stage = "switch" /\ UNCHANGED <<appVars, pending, request, uploads, report, srvVars>>
  BY DEF SwitchStatistics
<1>2. (\E stage \in {"filter", "set", "record"} : Goes(stage)) \/ Ends("failed")
  BY DEF SwitchStatistics
<1>3. /\ work' \in WorkStates /\ work'.stage # "free" /\ work'.by = work.by
      /\ work'.rev = work.rev
  BY <1>1, <1>2, WorkGoesOn
<1>4. statFails' \in 0..MaxStatFails
  BY StatFailsTyped DEF SwitchStatistics
<1>5. stats' \in [clock : Nets, on : BOOLEAN]
  BY DEF SwitchStatistics, TypeInv, ConfigTypeOK
<1>6. QED
  BY <1>1, <1>3, <1>4, <1>5
     DEF TypeInv, ConfigTypeOK, WorkOK, MessagesOK, SentOK, appVars, srvVars

LEMMA FilterStatisticsTyped ==
  ASSUME TypeInv, FilterStatistics
  PROVE  TypeInv'
<1>1. work.stage = "filter" /\ UNCHANGED <<appVars, pending, request, uploads, stats, report, srvVars>>
  BY DEF FilterStatistics
<1>2. (\E stage \in {"filter", "set", "record"} : Goes(stage)) \/ Ends("failed")
  BY DEF FilterStatistics
<1>3. /\ work' \in WorkStates /\ work'.stage # "free" /\ work'.by = work.by
      /\ work'.rev = work.rev
  BY <1>1, <1>2, WorkGoesOn
<1>4. statFails' \in 0..MaxStatFails
  BY StatFailsTyped DEF FilterStatistics
<1>5. QED
  BY <1>1, <1>3, <1>4
     DEF TypeInv, ConfigTypeOK, WorkOK, MessagesOK, SentOK, appVars, srvVars

LEMMA SetSettingsTyped ==
  ASSUME TypeInv, SetSettings
  PROVE  TypeInv'
<1>1. /\ work.stage = "set" /\ settings' = work.next /\ Goes("record")
      /\ UNCHANGED <<processed, applied, done, pending, request, uploads, statVars, report, srvVars>>
  BY DEF SetSettings
<1>2. /\ work' \in WorkStates /\ work'.stage # "free" /\ work'.by = work.by
      /\ work'.rev = work.rev
  BY <1>1, WorkGoesOn
<1>3. settings' \in Settings
  BY <1>1, WorkFields DEF TypeInv, ConfigTypeOK
<1>4. QED
  BY <1>1, <1>2, <1>3
     DEF TypeInv, ConfigTypeOK, WorkOK, MessagesOK, SentOK, statVars, srvVars

LEMMA RecordTyped ==
  ASSUME TypeInv, Record
  PROVE  TypeInv'
<1>1. /\ work.rev \in 0..MaxRevision /\ work.status \in Statuses /\ work.by \in SUBSET Uploaders
      /\ work.changed \in BOOLEAN
  BY WorkFields DEF TypeInv, ConfigTypeOK, Record
<1>2. /\ work.stage = "record" /\ work' = Unlocked /\ UNCHANGED <<settings, statVars, report, srvVars>>
      /\ uploads' = [u \in Uploaders |->
           IF u \in work.by THEN [stage |-> "clear", sent |-> uploads[u].sent] ELSE uploads[u]]
  BY DEF Record
<1>3. /\ processed' \in 0..MaxRevision /\ applied' \in 0..processed'
      /\ pending' \in Results \cup {NoResult} /\ request' \in BOOLEAN /\ done' \subseteq DOMAIN issued
  <2>1. CASE work.rev = 0
    <3>1. /\ request' = (request \/ (work.changed /\ work.status = "applied"))
          /\ UNCHANGED <<processed, applied, done, pending>>
      BY <2>1 DEF Record
    <3>2. request' \in BOOLEAN
      BY <3>1
    <3>3. QED
      BY <3>1, <3>2 DEF TypeInv, ConfigTypeOK
  <2>2. CASE work.rev # 0
    <3>1. work.rev \in DOMAIN issued /\ work.rev > processed
      BY <1>1, <1>2, <2>2, ConfigAssumption DEF TypeInv, WorkOK
    <3>2. /\ processed' = work.rev
          /\ applied' = AppliedNow
          /\ done' = IF work.status = "applied" THEN done \cup {work.rev} ELSE done
          /\ SetPending([rev |-> work.rev, status |-> work.status])
          /\ request' = TRUE
      BY <2>2 DEF Record
    <3>3. applied' \in 0..processed'
      BY <3>1, <3>2, <1>1, ConfigAssumption DEF AppliedNow, TypeInv, ConfigTypeOK
    <3>4. pending' \in Results \cup {NoResult}
      BY <3>1, <3>2, <1>1, ConfigAssumption DEF SetPending, TypeInv, ConfigTypeOK, Results
    <3>5. QED
      BY <3>1, <3>2, <3>3, <3>4, <1>1 DEF TypeInv, ConfigTypeOK
  <2>3. QED
    BY <2>1, <2>2
<1>4. \A u \in Uploaders : uploads'[u] \in UploadStates /\ uploads'[u].stage # "wait"
  <2>1. SUFFICES ASSUME NEW u \in Uploaders
                 PROVE  uploads'[u] \in UploadStates /\ uploads'[u].stage # "wait"
    OBVIOUS
  <2>2. CASE u \in work.by
    <3>1. uploads[u].sent \in Seq(Results \cup {NoResult})
      BY UploadFields DEF TypeInv, ConfigTypeOK
    <3>2. uploads'[u] = [stage |-> "clear", sent |-> uploads[u].sent]
      BY <1>2, <2>2
    <3>3. QED
      BY <3>1, <3>2 DEF UploadStates
  <2>3. CASE u \notin work.by
    BY <1>2, <2>3 DEF TypeInv, ConfigTypeOK
  <2>4. QED
    BY <2>2, <2>3
<1>5. SentOK' /\ MessagesOK'
  <2>1. \A u \in Uploaders : 
          \/ uploads'[u] = uploads[u]
          \/ /\ uploads'[u].stage = "clear" /\ uploads'[u].sent = uploads[u].sent
             /\ uploads[u].stage = "wait"
    BY <1>2 DEF TypeInv, ConfigTypeOK
  <2>2. QED
    BY <2>1, <1>2 DEF SentOK, MessagesOK, TypeInv, srvVars
<1>6. uploads' \in [Uploaders -> UploadStates]
  BY <1>2, <1>4
<1>7. work'.stage = "free" /\ work' \in WorkStates
  BY <1>2 DEF Unlocked, WorkStates
<1>8. QED
  BY <1>2, <1>3, <1>4, <1>5, <1>6, <1>7
     DEF TypeInv, ConfigTypeOK, WorkOK, statVars, srvVars

LEMMA BeginUploadTyped ==
  ASSUME TypeInv, NEW u \in Uploaders, BeginUpload(u)
  PROVE  TypeInv'
<1> DEFINE x == [stage |-> "settings", sent |-> <<pending>>]
<1>1. /\ uploads[u].stage = "idle" /\ uploads' = [uploads EXCEPT ![u] = x]
      /\ UNCHANGED <<appVars, pending, work, statVars, report, srvVars>>
  BY DEF BeginUpload
<1>2. x \in UploadStates /\ x.stage = "settings" /\ x.sent # <<>>
  BY DEF UploadStates, TypeInv, ConfigTypeOK
<1>3. request' \in BOOLEAN
  BY DEF BeginUpload, TypeInv, ConfigTypeOK
<1>4. uploads' \in [Uploaders -> UploadStates] /\ MessagesOK' /\ SentOK' /\ WaitOK'
  <2> HIDE DEF x
  <2>1. QED
    BY <1>1, <1>2, OneUploader, OneUploaderWaits DEF srvVars
<1>5. QED
  BY <1>1, <1>3, <1>4 DEF TypeInv, ConfigTypeOK, WorkOK, WaitOK, appVars, statVars, srvVars

LEMMA ReadSettingsTyped ==
  ASSUME TypeInv, NEW u \in Uploaders, ReadSettings(u)
  PROVE  TypeInv'
<1> DEFINE x == [stage |-> "revision", sent |-> uploads[u].sent, settings |-> settings]
<1>1. /\ uploads[u].stage = "settings" /\ uploads' = [uploads EXCEPT ![u] = x]
      /\ UNCHANGED <<appVars, pending, request, work, statVars, report, srvVars>>
  BY DEF ReadSettings, ReportedSettings, TypeInv, ConfigTypeOK
<1>2. x \in UploadStates /\ x.stage = "revision" /\ x.sent # <<>>
  BY <1>1, UploadFields DEF UploadStates, TypeInv, ConfigTypeOK, SentOK
<1>3. uploads' \in [Uploaders -> UploadStates] /\ MessagesOK' /\ SentOK' /\ WaitOK'
  <2> HIDE DEF x
  <2>1. QED
    BY <1>1, <1>2, OneUploader, OneUploaderWaits DEF srvVars
<1>4. QED
  BY <1>1, <1>3 DEF TypeInv, ConfigTypeOK, WorkOK, WaitOK, appVars, statVars, srvVars

LEMMA ReadRevisionTyped ==
  ASSUME TypeInv, NEW u \in Uploaders, ReadRevision(u)
  PROVE  TypeInv'
<1> DEFINE x == [stage |-> "post", sent |-> uploads[u].sent, settings |-> uploads[u].settings,
                 rev |-> applied]
<1>1. /\ uploads[u].stage = "revision" /\ uploads' = [uploads EXCEPT ![u] = x]
      /\ UNCHANGED <<appVars, pending, request, work, statVars, report, srvVars>>
  BY DEF ReadRevision, TypeInv, ConfigTypeOK
<1>2. applied \in 0..MaxRevision
  BY ConfigAssumption DEF TypeInv, ConfigTypeOK
<1>3. x \in UploadStates /\ x.stage = "post" /\ x.sent # <<>>
  BY <1>1, <1>2, UploadFields DEF UploadStates, TypeInv, ConfigTypeOK, SentOK
<1>4. uploads' \in [Uploaders -> UploadStates] /\ MessagesOK' /\ SentOK' /\ WaitOK'
  <2> HIDE DEF x
  <2>1. QED
    BY <1>1, <1>3, OneUploader, OneUploaderWaits DEF srvVars
<1>5. QED
  BY <1>1, <1>4 DEF TypeInv, ConfigTypeOK, WorkOK, WaitOK, appVars, statVars, srvVars

\* What the server receives is well-typed.
LEMMA ReceivedTyped ==
  ASSUME TypeInv, NEW u \in Uploaders, uploads[u].stage = "post",
         Received(u) \/ UNCHANGED <<known, results>>
  PROVE  known' \in [rev : 0..MaxRevision, settings : Settings] /\ results' \subseteq Results
<1>1. CASE UNCHANGED <<known, results>>
  BY <1>1 DEF TypeInv, ConfigTypeOK
<1>2. CASE Received(u)
  <2> DEFINE sent == uploads[u].sent
  <2>1. /\ sent \in Seq(Results \cup {NoResult}) /\ sent # <<>>
        /\ uploads[u].settings \in Settings /\ uploads[u].rev \in 0..MaxRevision
    BY UploadFields DEF TypeInv, ConfigTypeOK, SentOK
  <2>2. sent[Len(sent)] \in Results \cup {NoResult}
    <3> HIDE DEF sent
    <3>1. QED
      BY <2>1
  <2>3. QED
    BY <1>2, <2>1, <2>2 DEF Received, TypeInv, ConfigTypeOK
<1>3. QED
  BY <1>1, <1>2

LEMMA FailUploadTyped ==
  ASSUME TypeInv, NEW u \in Uploaders, FailUpload(u)
  PROVE  TypeInv'
<1>1. /\ uploads[u].stage = "post" /\ uploads' = [uploads EXCEPT ![u] = IdleUpload]
      /\ UNCHANGED <<appVars, pending, work, statVars, report, issued, plain>>
  BY DEF FailUpload
<1>2. IdleUpload \in UploadStates /\ IdleUpload.stage = "idle"
  BY DEF UploadStates, IdleUpload
<1>3. request' \in BOOLEAN
  BY DEF FailUpload, AsksAgain
<1>4. uploads' \in [Uploaders -> UploadStates] /\ MessagesOK' /\ SentOK' /\ WaitOK'
  BY <1>1, <1>2, OneUploader, OneUploaderWaits
<1>5. known' \in [rev : 0..MaxRevision, settings : Settings] /\ results' \subseteq Results
  BY ReceivedTyped DEF FailUpload
<1>6. QED
  BY <1>1, <1>3, <1>4, <1>5 DEF TypeInv, ConfigTypeOK, WorkOK, WaitOK, appVars, statVars

LEMMA RepliedTyped ==
  ASSUME TypeInv, NEW u \in Uploaders, Replied(u)
  PROVE  TypeInv'
<1> DEFINE x == [stage |-> "clear", sent |-> uploads[u].sent]
<1>1. /\ uploads[u].stage = "post" /\ uploads' = [uploads EXCEPT ![u] = x]
      /\ UNCHANGED <<appVars, pending, request, work, statVars, report, issued, plain>>
  BY DEF Replied, TypeInv, ConfigTypeOK
<1>2. x \in UploadStates /\ x.stage = "clear" /\ x.sent # <<>>
  BY <1>1, UploadFields DEF UploadStates, TypeInv, ConfigTypeOK, SentOK
<1>3. uploads' \in [Uploaders -> UploadStates] /\ MessagesOK' /\ SentOK' /\ WaitOK'
  <2> HIDE DEF x
  <2>1. QED
    BY <1>1, <1>2, OneUploader, OneUploaderWaits
<1>4. known' \in [rev : 0..MaxRevision, settings : Settings] /\ results' \subseteq Results
  BY ReceivedTyped DEF Replied
<1>5. QED
  BY <1>1, <1>3, <1>4 DEF TypeInv, ConfigTypeOK, WorkOK, WaitOK, appVars, statVars

LEMMA RepliedRequestTyped ==
  ASSUME TypeInv, NEW u \in Uploaders, RepliedRequest(u)
  PROVE  TypeInv'
<1> DEFINE x == [stage |-> "settings", sent |-> Append(uploads[u].sent, pending)]
<1>1. /\ uploads[u].stage = "post" /\ uploads' = [uploads EXCEPT ![u] = x]
      /\ UNCHANGED <<appVars, pending, request, work, statVars, report, issued, plain>>
  BY DEF RepliedRequest, TypeInv, ConfigTypeOK
<1>2. /\ x.sent \in Seq(Results \cup {NoResult}) /\ x.sent # <<>>
  <2>1. /\ uploads[u].sent \in Seq(Results \cup {NoResult})
        /\ pending \in Results \cup {NoResult}
    BY UploadFields DEF TypeInv, ConfigTypeOK
  <2>2. QED
    BY <2>1
<1>3. x \in UploadStates /\ x.stage = "settings"
  BY <1>2 DEF UploadStates
<1>4. uploads' \in [Uploaders -> UploadStates] /\ MessagesOK' /\ SentOK' /\ WaitOK'
  <2> HIDE DEF x
  <2>1. QED
    BY <1>1, <1>2, <1>3, OneUploader, OneUploaderWaits
<1>5. known' \in [rev : 0..MaxRevision, settings : Settings] /\ results' \subseteq Results
  BY ReceivedTyped DEF RepliedRequest
<1>6. QED
  BY <1>1, <1>4, <1>5 DEF TypeInv, ConfigTypeOK, WorkOK, WaitOK, appVars, statVars

LEMMA RepliedConfigTyped ==
  ASSUME TypeInv, NEW u \in Uploaders, NEW msg \in Messages, RepliedConfig(u, msg)
  PROVE  TypeInv'
<1> DEFINE x == [stage |-> "take", sent |-> uploads[u].sent, msg |-> msg]
<1>1. /\ uploads[u].stage = "post" /\ uploads' = [uploads EXCEPT ![u] = x]
      /\ UNCHANGED <<appVars, pending, request, work, statVars, report, issued>>
  BY DEF RepliedConfig, TypeInv, ConfigTypeOK
<1>2. msg \in Messaged /\ (msg.rev > 0 => msg.rev \in DOMAIN issued /\ msg.config = issued[msg.rev])
  BY MessageFields
<1>3. x \in UploadStates /\ x.stage = "take" /\ x.sent # <<>> /\ x.msg = msg
  BY <1>1, <1>2, UploadFields DEF UploadStates, TypeInv, ConfigTypeOK, SentOK
<1>4. uploads' \in [Uploaders -> UploadStates] /\ MessagesOK' /\ SentOK' /\ WaitOK'
  <2> HIDE DEF x
  <2>1. QED
    BY <1>1, <1>2, <1>3, OneUploader, OneUploaderWaits
<1>5. known' \in [rev : 0..MaxRevision, settings : Settings] /\ results' \subseteq Results
  BY ReceivedTyped DEF RepliedConfig
<1>6. plain' \in 0..MaxPlain
  BY MessageFields, ConfigAssumption DEF RepliedConfig, Counted, TypeInv, ConfigTypeOK
<1>7. QED
  BY <1>1, <1>4, <1>5, <1>6 DEF TypeInv, ConfigTypeOK, WorkOK, WaitOK, appVars, statVars

LEMMA TakeReplyTyped ==
  ASSUME TypeInv, NEW u \in Uploaders, TakeReply(u)
  PROVE  TypeInv'
<1>1. /\ uploads[u].stage = "take" /\ uploads[u].msg \in Messaged
      /\ uploads[u].sent \in Seq(Results \cup {NoResult}) /\ uploads[u].sent # <<>>
      /\ uploads[u].msg.rev > 0 => uploads[u].msg.rev \in DOMAIN issued
  BY UploadFields DEF TakeReply, TypeInv, ConfigTypeOK, MessagesOK, SentOK
<1>2. CASE /\ Take(uploads[u].msg, {u})
           /\ UNCHANGED plain
           /\ uploads' = [uploads EXCEPT ![u] = [stage |-> "wait", sent |-> @.sent]]
  <2> DEFINE x == [stage |-> "wait", sent |-> uploads[u].sent]
  <2>1. x \in UploadStates /\ x.stage = "wait" /\ x.sent # <<>>
    BY <1>1 DEF UploadStates
  <2>2. /\ uploads' = [uploads EXCEPT ![u] = x]
        /\ UNCHANGED <<appVars, pending, request, statFails, report, issued, results, known>>
    BY <1>2 DEF Take, TypeInv, ConfigTypeOK
  <2>3. /\ work' \in WorkStates /\ work'.stage # "free" /\ work'.by = {u}
        /\ work'.rev > 0 => work'.rev \in DOMAIN issued /\ work'.rev > processed
        /\ stats' \in [clock : Nets, on : BOOLEAN]
        /\ work.stage = "free"
    BY <1>1, <1>2, TakeTyped
  <2> HIDE DEF x
  <2>4. uploads' \in [Uploaders -> UploadStates] /\ MessagesOK' /\ SentOK'
    BY <2>1, <2>2, OneUploader
  <2>5. WaitOK'
    BY <2>1, <2>2, <2>3 DEF WaitOK, TypeInv, ConfigTypeOK
  <2>6. QED
    BY <1>2, <2>2, <2>3, <2>4, <2>5 DEF TypeInv, ConfigTypeOK, WorkOK, WaitOK, appVars
<1>3. CASE /\ uploads' = [uploads EXCEPT ![u] = [stage |-> "clear", sent |-> @.sent]]
           /\ UNCHANGED <<appVars, pending, request, work, statVars, report, srvVars>>
  <2> DEFINE x == [stage |-> "clear", sent |-> uploads[u].sent]
  <2>1. x \in UploadStates /\ x.stage = "clear" /\ x.sent # <<>>
    BY <1>1 DEF UploadStates
  <2>2. uploads' = [uploads EXCEPT ![u] = x]
    BY <1>3 DEF TypeInv, ConfigTypeOK
  <2> HIDE DEF x
  <2>3. uploads' \in [Uploaders -> UploadStates] /\ MessagesOK' /\ SentOK' /\ WaitOK'
    BY <1>1, <1>3, <2>1, <2>2, OneUploader, OneUploaderWaits DEF srvVars
  <2>4. QED
    BY <1>3, <2>3 DEF TypeInv, ConfigTypeOK, WorkOK, WaitOK, appVars, statVars, srvVars
<1>4. QED
  BY <1>2, <1>3 DEF TakeReply

\* One level of an upload returns to the one around it.
LEMMA OuterLevel ==
  ASSUME NEW S, NEW sent \in Seq(S), sent # <<>>
  PROVE  SubSeq(sent, 1, Len(sent) - 1) \in Seq(S)
OBVIOUS

LEMMA ClearSentTyped ==
  ASSUME TypeInv, NEW u \in Uploaders, ClearSent(u)
  PROVE  TypeInv'
<1> DEFINE sent == uploads[u].sent
           outer == SubSeq(sent, 1, Len(sent) - 1)
           x == IF outer = <<>> THEN IdleUpload ELSE [stage |-> "clear", sent |-> outer]
<1>1. /\ uploads[u].stage = "clear"
      /\ pending' = IF WasSent(sent[Len(sent)]) THEN NoResult ELSE pending
      /\ uploads' = [uploads EXCEPT ![u] = x]
      /\ UNCHANGED <<appVars, request, work, statVars, report, srvVars>>
  BY DEF ClearSent
<1>2. outer \in Seq(Results \cup {NoResult})
  <2>1. sent \in Seq(Results \cup {NoResult}) /\ sent # <<>>
    BY <1>1, UploadFields DEF TypeInv, ConfigTypeOK, SentOK
  <2> HIDE DEF sent
  <2>2. QED
    BY <2>1, OuterLevel
<1>3. x \in UploadStates /\ x.stage \in {"idle", "clear"} /\ (x.stage # "idle" => x.sent # <<>>)
  <2> HIDE DEF outer
  <2>1. CASE outer = <<>>
    BY <2>1 DEF IdleUpload, UploadStates
  <2>2. CASE outer # <<>>
    BY <1>2, <2>2 DEF UploadStates
  <2>3. QED
    BY <2>1, <2>2
<1>4. pending' \in Results \cup {NoResult}
  BY <1>1 DEF TypeInv, ConfigTypeOK
<1> HIDE DEF x
<1>5. uploads' \in [Uploaders -> UploadStates] /\ MessagesOK' /\ SentOK' /\ WaitOK'
  BY <1>1, <1>3, OneUploader, OneUploaderWaits DEF srvVars
<1>6. QED
  BY <1>1, <1>4, <1>5 DEF TypeInv, ConfigTypeOK, WorkOK, WaitOK, appVars, statVars, srvVars

LEMMA ReportingTyped ==
  ASSUME TypeInv, Reporting
  PROVE  TypeInv'
<1>1. UNCHANGED <<appVars, pending, request, work, uploads, srvVars>>
  BY DEF Reporting, ReadForReport, RefreshStatistics, srvVars
<1>2. report' \in {NoReport} \cup [stage : {"refresh"}, net : Nets \ {0}]
  BY DEF Reporting, ReadForReport, RefreshStatistics, TypeInv, ConfigTypeOK, Settings
<1>3. stats' \in [clock : Nets, on : BOOLEAN] /\ statFails' \in 0..MaxStatFails
  <2>1. CASE ReadForReport
    BY <2>1 DEF ReadForReport, TypeInv, ConfigTypeOK, statVars
  <2>2. CASE RefreshStatistics
    <3>1. report.net \in Nets
      BY <2>2 DEF RefreshStatistics, TypeInv, ConfigTypeOK, NoReport
    <3>2. statFails' \in 0..MaxStatFails
      BY <2>2, StatFailsTyped DEF RefreshStatistics
    <3>3. stats' \in [clock : Nets, on : BOOLEAN]
      <4>1. CASE stats' = Refreshed(report.net)
        BY <3>1, <4>1, Zenon DEF Refreshed
      <4>2. CASE stats' = [stats EXCEPT !.clock = report.net]
        BY <3>1, <4>2 DEF TypeInv, ConfigTypeOK
      <4>3. QED
        BY <2>2, <4>1, <4>2 DEF RefreshStatistics
    <3>4. QED
      BY <3>2, <3>3
  <2>3. QED
    BY <2>1, <2>2 DEF Reporting
<1>4. QED
  BY <1>1, <1>2, <1>3
     DEF TypeInv, ConfigTypeOK, WorkOK, MessagesOK, SentOK, appVars, srvVars

LEMMA NextTyped == TypeInv /\ [Next]_vars => TypeInv'
<1> SUFFICES ASSUME TypeInv, [Next]_vars PROVE TypeInv'
  OBVIOUS
<1>1. ASSUME NEW c \in Configs, Publish(c) PROVE TypeInv'
  BY <1>1, PublishTyped
<1>2. ASSUME NEW msg \in Messages, ReceiveEvent(msg) PROVE TypeInv'
  BY <1>2, ReceiveEventTyped
<1>3. CASE Apply
  BY <1>3, SwitchStatisticsTyped, FilterStatisticsTyped, SetSettingsTyped, RecordTyped DEF Apply
<1>4. ASSUME NEW u \in Uploaders, BeginUpload(u) PROVE TypeInv'
  BY <1>4, BeginUploadTyped
<1>5. ASSUME NEW u \in Uploaders, UploadStep(u) PROVE TypeInv'
  BY <1>5, ReadSettingsTyped, ReadRevisionTyped, FailUploadTyped, RepliedTyped,
     RepliedRequestTyped, RepliedConfigTyped, TakeReplyTyped, ClearSentTyped DEF UploadStep
<1>6. CASE Reporting
  BY <1>6, ReportingTyped
<1>7. CASE UNCHANGED vars
  BY <1>7 DEF TypeInv, ConfigTypeOK, WorkOK, MessagesOK, SentOK, vars, appVars, statVars, srvVars
<1>8. QED
  BY <1>1, <1>2, <1>3, <1>4, <1>5, <1>6, <1>7 DEF Next

\* Every variable keeps its type, no revision is at work, processed or applied that
\* the server did not issue, and runtimeConfigApplyMu has one holder at a time.
THEOREM TypeInvariant == Spec => []TypeInv
<1>1. QED
  BY InitTyped, NextTyped, PTL DEF Spec

THEOREM ConfigTypeCorrect == Spec => []ConfigTypeOK
<1>1. TypeInv => ConfigTypeOK
  BY DEF TypeInv
<1>2. QED
  BY <1>1, TypeInvariant, PTL

(***************************************************************************)
(* The newest configuration wins.  Under the lock the settings may be      *)
(* ahead of the recorded revisions: they are always those of the revisions *)
(* in force (Effective), and while a revision is at work what it will set  *)
(* is computed from the settings before it, which nobody else changes.     *)
(***************************************************************************)
\* Configurations without a revision are counted from when they are on their way.
PlainCounted ==
  /\ work.stage # "free" /\ work.rev = 0 => plain > 0
  /\ \A u \in Uploaders : uploads[u].stage = "take" /\ uploads[u].msg.rev = 0 => plain > 0

DoneOld == \A r \in done : r <= processed

WorkNext ==
  work.stage \in {"switch", "filter", "set"} =>
    /\ work.status = "applied"
    /\ work.rev > 0 => work.next = Updated(issued[work.rev])

InForce == plain = 0 => settings = InForceAfter(Effective)

NewestInv == TypeInv /\ PlainCounted /\ DoneOld /\ WorkNext /\ InForce

\* The revisions are few: a set of them has a maximum.
LEMMA MaxInSet ==
  ASSUME TypeInv, NEW S \in SUBSET DOMAIN issued, S # {}
  PROVE  Max(S) \in S
<1>1. S \subseteq 1..MaxRevision /\ MaxRevision \in Nat
  BY ConfigAssumption DEF TypeInv, ConfigTypeOK
<1> DEFINE below == {MaxRevision - x : x \in S}
<1>2. below \in SUBSET Nat /\ below # {}
  BY <1>1
<1> HIDE DEF below
<1>3. PICK n \in below : \A m \in below : n <= m
  <2>1. \A T : T \subseteq Nat /\ T # {} =>
          \E x \in T : \A y \in T : ~ (<<y, x>> \in OpToRel(<, Nat))
    BY NatLessThanWellFounded, WFMin, Zenon
  <2>2. \E x \in below : \A y \in below : ~ (<<y, x>> \in OpToRel(<, Nat))
    BY <1>2, <2>1, Zenon
  <2>3. PICK x \in below : \A y \in below : ~ (<<y, x>> \in OpToRel(<, Nat))
    BY <2>2, Zenon
  <2>4. \A y \in below : ~ (y < x)
    BY <1>2, <2>3 DEF OpToRel
  <2>5. QED
    BY <1>2, <2>4
<1>4. PICK x \in S : n = MaxRevision - x
  BY DEF below
<1>5. \A y \in S : x >= y
  <2>1. \A y \in S : n <= MaxRevision - y
    BY <1>3 DEF below
  <2>2. QED
    BY <1>1, <1>4, <2>1
<1>6. QED
  BY <1>5 DEF Max

\* A revision newer than some others sets the fields it mentions and no others.
LEMMA NewestStep ==
  ASSUME NEW revs \in SUBSET Nat, NEW r \in Nat, \A x \in revs : x < r,
         NEW start, NEW values
  PROVE  Newest(revs \cup {r}, start, values) = Field(Newest(revs, start, values), values[r])
<1> DEFINE setters(S) == {x \in S : values[x] # Absent}
<1>1. CASE values[r] = Absent
  <2>1. setters(revs \cup {r}) = setters(revs)
    BY <1>1
  <2>2. QED
    BY <1>1, <2>1 DEF Newest, Field
<1>2. CASE values[r] # Absent
  <2>1. setters(revs \cup {r}) = setters(revs) \cup {r}
    BY <1>2
  <2>2. Max(setters(revs) \cup {r}) = r
    <3>1. \A x \in setters(revs) : x \in Nat /\ x < r
      OBVIOUS
    <3> DEFINE S == setters(revs) \cup {r}
    <3> HIDE DEF setters
    <3>2. r \in S /\ \A y \in S : r >= y
      BY <3>1
    <3>3. \A x \in S : (\A y \in S : x >= y) => x = r
      BY <3>1
    <3> HIDE DEF S
    <3>4. Max(S) = r
      BY <3>2, <3>3 DEF Max
    <3>5. QED
      BY <3>4 DEF S
  <2>3. QED
    BY <1>2, <2>1, <2>2 DEF Newest, Field
<1>3. QED
  BY <1>1, <1>2

LEMMA InForceStep ==
  ASSUME TypeInv, NEW revs \in SUBSET Nat, NEW r \in DOMAIN issued, \A x \in revs : x < r,
         settings = InForceAfter(revs)
  PROVE  InForceAfter(revs \cup {r}) = Updated(issued[r])
<1>1. r \in Nat
  BY DEF TypeInv, ConfigTypeOK
<1> DEFINE nets == [x \in DOMAIN issued |-> issued[x].net]
           rests == [x \in DOMAIN issued |-> issued[x].rest]
<1>2. /\ Newest(revs \cup {r}, StartSettings.net, nets)
           = Field(Newest(revs, StartSettings.net, nets), nets[r])
      /\ Newest(revs \cup {r}, StartSettings.rest, rests)
           = Field(Newest(revs, StartSettings.rest, rests), rests[r])
  <2> HIDE DEF nets, rests
  <2>1. QED
    BY <1>1, NewestStep
<1>3. nets[r] = issued[r].net /\ rests[r] = issued[r].rest
  OBVIOUS
<1>4. /\ settings.net = Newest(revs, StartSettings.net, nets)
      /\ settings.rest = Newest(revs, StartSettings.rest, rests)
  BY DEF InForceAfter
<1>5. InForceAfter(revs \cup {r}) = [net |-> Newest(revs \cup {r}, StartSettings.net, nets),
                                   rest |-> Newest(revs \cup {r}, StartSettings.rest, rests)]
  BY DEF InForceAfter
<1>6. QED
  BY <1>2, <1>3, <1>4, <1>5 DEF Updated

LEMMA InitNewest == Init => NewestInv
<1> SUFFICES ASSUME Init PROVE NewestInv
  OBVIOUS
<1>1. work.stage = "free" /\ done = {} /\ \A u \in Uploaders : uploads[u].stage = "idle"
  BY DEF Init, Unlocked, IdleUpload
<1>2. Effective = {}
  BY <1>1 DEF Effective
<1>3. InForceAfter({}) = [net |-> StartSettings.net, rest |-> StartSettings.rest]
  BY DEF InForceAfter, Newest
<1>4. settings = InForceAfter({})
  BY <1>3, ConfigAssumption DEF Init, Settings
<1>5. QED
  BY <1>1, <1>2, <1>4, InitTyped DEF NewestInv, PlainCounted, DoneOld, WorkNext, InForce

\* Steps that leave appliers and settings alone.
LEMMA NewestKept ==
  ASSUME NewestInv, TypeInv', UNCHANGED <<appVars, work, issued>>, plain' >= plain,
         \A u \in Uploaders : uploads'[u].stage = "take" /\ uploads'[u].msg.rev = 0 => plain' > 0
  PROVE  NewestInv'
<1>1. UNCHANGED <<settings, processed, done, work, issued>>
  BY DEF appVars
<1>2. plain \in Nat /\ plain' \in Nat
  BY ConfigAssumption DEF NewestInv, TypeInv, ConfigTypeOK
<1>3. PlainCounted' /\ DoneOld'
  BY <1>1, <1>2 DEF NewestInv, PlainCounted, DoneOld
<1>4. WorkNext'
  BY <1>1 DEF NewestInv, WorkNext, Updated
<1>5. InForce'
  <2>1. Effective' = Effective /\ InForceAfter(Effective)' = InForceAfter(Effective)
    BY <1>1 DEF Effective, InForceAfter
  <2>2. QED
    BY <1>1, <1>2, <2>1 DEF NewestInv, InForce
<1>6. QED
  BY <1>3, <1>4, <1>5 DEF NewestInv

\* A new revision changes nothing about the older ones.
LEMMA PublishInForce ==
  ASSUME TypeInv, NEW c \in Configs, Publish(c)
  PROVE  /\ \A r \in DOMAIN issued : r \in DOMAIN issued' /\ issued'[r] = issued[r]
         /\ \A revs \in SUBSET DOMAIN issued : InForceAfter(revs)' = InForceAfter(revs)
<1>1. \A r \in DOMAIN issued : r \in DOMAIN issued' /\ issued'[r] = issued[r]
  BY DEF Publish, TypeInv, ConfigTypeOK
<1>2. \A revs \in SUBSET DOMAIN issued : \A start :
         /\ Newest(revs, start, [r \in DOMAIN issued' |-> issued'[r].net])
              = Newest(revs, start, [r \in DOMAIN issued |-> issued[r].net])
         /\ Newest(revs, start, [r \in DOMAIN issued' |-> issued'[r].rest])
              = Newest(revs, start, [r \in DOMAIN issued |-> issued[r].rest])
  <2>1. TAKE revs \in SUBSET DOMAIN issued
  <2>2. TAKE start
  <2> DEFINE S == {r \in revs : issued[r].net # Absent}
             T == {r \in revs : issued[r].rest # Absent}
  <2>3. (S # {} => Max(S) \in S) /\ (T # {} => Max(T) \in T)
    <3>1. S \in SUBSET DOMAIN issued /\ T \in SUBSET DOMAIN issued
      OBVIOUS
    <3> HIDE DEF S, T
    <3>2. QED
      BY <3>1, MaxInSet
  <2>4. S = {r \in revs : [x \in DOMAIN issued' |-> issued'[x].net][r] # Absent}
        /\ S = {r \in revs : [x \in DOMAIN issued |-> issued[x].net][r] # Absent}
        /\ T = {r \in revs : [x \in DOMAIN issued' |-> issued'[x].rest][r] # Absent}
        /\ T = {r \in revs : [x \in DOMAIN issued |-> issued[x].rest][r] # Absent}
    BY <1>1
  <2>5. QED
    BY <1>1, <2>3, <2>4 DEF Newest
<1>3. QED
  BY <1>1, <1>2 DEF InForceAfter

LEMMA PublishNewest ==
  ASSUME NewestInv, NEW c \in Configs, Publish(c)
  PROVE  NewestInv'
<1>1. UNCHANGED <<settings, processed, done, work, uploads, plain>> /\ issued' = Append(issued, c)
  BY DEF Publish, appVars, srvVars
<1>2. TypeInv'
  BY PublishTyped DEF NewestInv
<1>3. \A r \in DOMAIN issued : r \in DOMAIN issued' /\ issued'[r] = issued[r]
  BY PublishInForce DEF NewestInv
<1>4. PlainCounted' /\ DoneOld'
  BY <1>1 DEF NewestInv, PlainCounted, DoneOld
<1>5. WorkNext'
  <2>1. work.stage # "free" /\ work.rev > 0 => issued'[work.rev] = issued[work.rev]
    BY <1>3 DEF NewestInv, TypeInv, WorkOK
  <2>2. QED
    BY <1>1, <2>1 DEF NewestInv, WorkNext, Updated
<1>6. InForce'
  <2>1. Effective' = Effective /\ Effective \in SUBSET DOMAIN issued
    BY <1>1 DEF Effective, NewestInv, TypeInv, ConfigTypeOK, WorkOK
  <2>2. \A revs \in SUBSET DOMAIN issued : InForceAfter(revs)' = InForceAfter(revs)
    BY PublishInForce DEF NewestInv
  <2>3. InForceAfter(Effective)' = InForceAfter(Effective)
    BY <2>1, <2>2 DEF InForceAfter
  <2>4. QED
    BY <1>1, <2>3 DEF NewestInv, InForce
<1>7. QED
  BY <1>2, <1>4, <1>5, <1>6 DEF NewestInv

LEMMA ReceiveNewest ==
  ASSUME NewestInv, TypeInv', NEW msg \in Messaged, NEW by, Take(msg, by),
         msg.rev > 0 => msg.rev \in DOMAIN issued /\ msg.config = issued[msg.rev],
         plain' >= plain, msg.rev = 0 => plain' > 0,
         \A u \in Uploaders : uploads'[u].stage = "take" => uploads[u].stage = "take" /\ UNCHANGED uploads[u]
  PROVE  NewestInv'
<1> DEFINE next == Updated(msg.config)
<1>1. /\ work.stage = "free" /\ ~Stale(msg.rev)
      /\ work'.rev = msg.rev /\ work'.next = next
      /\ work'.stage \in {"switch", "set", "record"}
      /\ work'.status = IF msg.config.valid THEN "applied" ELSE "failed"
      /\ work'.stage # "record" => msg.config.valid
      /\ work'.stage = "record" /\ msg.config.valid => next = settings
      /\ UNCHANGED <<settings, processed, done, issued>>
  BY DEF Take, LockFree, appVars
<1>2. plain \in Nat /\ plain' \in Nat /\ msg.rev \in Nat /\ processed \in Nat
  BY ConfigAssumption DEF NewestInv, TypeInv, ConfigTypeOK, Messaged
<1>3. PlainCounted' /\ DoneOld'
  BY <1>1, <1>2 DEF NewestInv, PlainCounted, DoneOld
<1>4. WorkNext'
  BY <1>1 DEF NewestInv, WorkNext, Updated
<1>5. InForce'
  <2>1. SUFFICES ASSUME plain' = 0 PROVE settings' = InForceAfter(Effective)'
    BY DEF InForce
  <2>2. msg.rev > 0 /\ settings = InForceAfter(Effective) /\ Effective = done
    BY <1>1, <1>2, <2>1 DEF NewestInv, InForce, Effective
  <2>3. InForceAfter(Effective)' = InForceAfter(Effective')
    BY <1>1 DEF InForceAfter
  <2>4. CASE work'.stage = "record" /\ msg.config.valid
    <3>1. Effective' = done \cup {msg.rev}
      BY <1>1, <2>2, <2>4 DEF Effective
    <3>2. \A x \in done : x < msg.rev
      BY <1>1, <1>2, <2>2 DEF NewestInv, DoneOld, Stale, TypeInv, ConfigTypeOK
    <3>3. done \in SUBSET Nat
      BY DEF NewestInv, TypeInv, ConfigTypeOK
    <3>4. InForceAfter(done \cup {msg.rev}) = Updated(msg.config)
      BY <2>2, <3>2, <3>3, InForceStep DEF NewestInv
    <3>5. QED
      BY <1>1, <2>3, <2>4, <3>1, <3>4
  <2>5. CASE ~(work'.stage = "record" /\ msg.config.valid)
    <3>1. Effective' = done
      BY <1>1, <2>5 DEF Effective
    <3>2. QED
      BY <1>1, <2>2, <2>3, <3>1
  <2>6. QED
    BY <2>4, <2>5
<1>6. QED
  BY <1>3, <1>4, <1>5 DEF NewestInv

\* An applier that goes on or fails changes neither what is in force nor what will be.
LEMMA WorkNewest ==
  ASSUME NewestInv, TypeInv', UNCHANGED <<appVars, uploads, srvVars>>,
         work.stage \in {"switch", "filter"},
         (\E stage \in {"filter", "set"} : Goes(stage)) \/ Ends("failed")
  PROVE  NewestInv'
<1>1. UNCHANGED <<settings, processed, done, uploads, issued, plain>>
  BY DEF appVars, srvVars
<1>2. /\ work'.rev = work.rev /\ work'.next = work.next
      /\ \/ work'.stage \in {"filter", "set"} /\ work'.status = work.status
         \/ work'.stage = "record" /\ work'.status = "failed"
  <2>1. work \in [stage : {"switch", "filter", "set", "record"}, rev : 0..MaxRevision,
                  next : Settings, by : SUBSET Uploaders, changed : BOOLEAN, status : Statuses]
    BY WorkFields DEF NewestInv, TypeInv, ConfigTypeOK
  <2>2. QED
    BY <2>1 DEF Goes, Ends
<1>3. PlainCounted' /\ DoneOld'
  BY <1>1, <1>2 DEF NewestInv, PlainCounted, DoneOld
<1>4. WorkNext'
  BY <1>1, <1>2 DEF NewestInv, WorkNext, Updated
<1>5. InForce'
  <2>1. Effective' = done /\ Effective = done
    BY <1>1, <1>2 DEF Effective
  <2>2. InForceAfter(Effective)' = InForceAfter(Effective)
    BY <1>1, <2>1 DEF InForceAfter
  <2>3. QED
    BY <1>1, <2>2 DEF NewestInv, InForce
<1>6. QED
  BY <1>3, <1>4, <1>5 DEF NewestInv

LEMMA SetSettingsNewest ==
  ASSUME NewestInv, SetSettings
  PROVE  NewestInv'
<1>1. TypeInv'
  BY SetSettingsTyped DEF NewestInv
<1>2. /\ work.stage = "set" /\ settings' = work.next
      /\ UNCHANGED <<processed, done, uploads, issued, plain>>
  BY DEF SetSettings, srvVars
<1>3. /\ work'.rev = work.rev /\ work'.stage = "record" /\ work'.status = work.status
      /\ work.rev \in Nat
  <2>1. work \in [stage : {"switch", "filter", "set", "record"}, rev : 0..MaxRevision,
                  next : Settings, by : SUBSET Uploaders, changed : BOOLEAN, status : Statuses]
    BY <1>2, WorkFields DEF NewestInv, TypeInv, ConfigTypeOK
  <2>2. QED
    BY <2>1 DEF SetSettings, Goes
<1>4. PlainCounted' /\ DoneOld'
  BY <1>2, <1>3 DEF NewestInv, PlainCounted, DoneOld
<1>5. WorkNext'
  BY <1>3 DEF WorkNext
<1>6. InForce'
  <2>1. SUFFICES ASSUME plain' = 0 PROVE settings' = InForceAfter(Effective)'
    BY DEF InForce
  <2>2. work.rev > 0 /\ work.status = "applied"
    BY <1>2, <1>3, <2>1 DEF NewestInv, PlainCounted, WorkNext
  <2>3. Effective = done /\ Effective' = done \cup {work.rev}
    BY <1>2, <1>3, <2>2 DEF Effective
  <2>4. settings = InForceAfter(done)
    BY <1>2, <2>1, <2>3 DEF NewestInv, InForce
  <2>5. work.rev \in DOMAIN issued /\ done \in SUBSET Nat /\ \A x \in done : x < work.rev
    BY <1>2, <1>3, <2>2, ConfigAssumption
       DEF NewestInv, TypeInv, ConfigTypeOK, WorkOK, DoneOld
  <2>6. InForceAfter(done \cup {work.rev}) = Updated(issued[work.rev])
    BY <2>4, <2>5, InForceStep DEF NewestInv
  <2>7. InForceAfter(Effective)' = InForceAfter(Effective')
    BY <1>2 DEF InForceAfter
  <2>8. QED
    BY <1>2, <2>2, <2>3, <2>6, <2>7 DEF NewestInv, WorkNext
<1>7. QED
  BY <1>1, <1>4, <1>5, <1>6 DEF NewestInv

LEMMA RecordNewest ==
  ASSUME NewestInv, Record
  PROVE  NewestInv'
<1>1. TypeInv'
  BY RecordTyped DEF NewestInv
<1>2. /\ work.stage = "record" /\ work'.stage = "free" /\ UNCHANGED <<settings, issued, plain>>
      /\ work.rev \in Nat /\ processed \in Nat
      /\ work.rev # 0 => work.rev > processed
  BY WorkFields, ConfigAssumption
     DEF Record, Unlocked, srvVars, NewestInv, TypeInv, ConfigTypeOK, WorkOK
<1>3. done' = Effective /\ Effective' = done'
  <2>1. done' = IF work.rev > 0 /\ work.status = "applied" THEN done \cup {work.rev} ELSE done
    BY <1>2 DEF Record
  <2>2. Effective' = done'
    BY <1>2 DEF Effective
  <2>3. QED
    BY <1>2, <2>1, <2>2 DEF Effective
<1>4. \A u \in Uploaders : uploads'[u].stage = "take" => uploads'[u] = uploads[u]
  BY DEF Record
<1>5. PlainCounted'
  BY <1>2, <1>4 DEF NewestInv, PlainCounted
<1>6. DoneOld'
  <2>1. \A r \in done : r \in Nat
    BY DEF NewestInv, TypeInv, ConfigTypeOK
  <2>2. CASE work.rev = 0
    BY <2>2 DEF NewestInv, DoneOld, Record
  <2>3. CASE work.rev # 0
    <3>1. processed' = work.rev /\ done' \subseteq done \cup {work.rev}
      BY <2>3 DEF Record
    <3>2. QED
      BY <1>2, <2>1, <2>3, <3>1 DEF NewestInv, DoneOld
  <2>4. QED
    BY <2>2, <2>3
<1>7. WorkNext' /\ InForce'
  <2>1. InForceAfter(Effective)' = InForceAfter(Effective)
    BY <1>2, <1>3 DEF InForceAfter
  <2>2. QED
    BY <1>2, <2>1 DEF NewestInv, WorkNext, InForce
<1>8. QED
  BY <1>1, <1>5, <1>6, <1>7 DEF NewestInv

LEMMA NextNewest == NewestInv /\ [Next]_vars => NewestInv'
<1> SUFFICES ASSUME NewestInv, [Next]_vars PROVE NewestInv'
  OBVIOUS
<1>1. TypeInv /\ TypeInv'
  BY NextTyped DEF NewestInv
<1>2. ASSUME NEW c \in Configs, Publish(c) PROVE NewestInv'
  BY <1>2, PublishNewest
<1>3. plain \in Nat
  BY <1>1, ConfigAssumption DEF TypeInv, ConfigTypeOK
<1>4. ASSUME NEW msg \in Messages, ReceiveEvent(msg) PROVE NewestInv'
  <2>1. /\ msg \in Messaged
        /\ msg.rev > 0 => msg.rev \in DOMAIN issued /\ msg.config = issued[msg.rev]
    BY <1>1, MessageFields
  <2>2. plain' >= plain /\ (msg.rev = 0 => plain' > 0)
    BY <1>3, <1>4 DEF ReceiveEvent, Counted
  <2>3. QED
    BY <1>1, <1>4, <2>1, <2>2, ReceiveNewest DEF ReceiveEvent
<1>5. CASE SwitchStatistics
  <2>1. /\ UNCHANGED <<appVars, uploads, srvVars>> /\ work.stage = "switch"
        /\ (\E stage \in {"filter", "set"} : Goes(stage)) \/ Ends("failed")
    BY <1>5 DEF SwitchStatistics
  <2>2. QED
    BY <1>1, <2>1, WorkNewest
<1>6. CASE FilterStatistics
  <2>1. /\ UNCHANGED <<appVars, uploads, srvVars>> /\ work.stage = "filter"
        /\ (\E stage \in {"filter", "set"} : Goes(stage)) \/ Ends("failed")
    BY <1>6 DEF FilterStatistics
  <2>2. QED
    BY <1>1, <2>1, WorkNewest
<1>7. CASE SetSettings \/ Record
  BY <1>7, SetSettingsNewest, RecordNewest
<1>8. ASSUME NEW u \in Uploaders, TakeReply(u) PROVE NewestInv'
  <2>1. /\ uploads[u].stage = "take" /\ uploads[u].msg \in Messaged
        /\ uploads[u].msg.rev > 0 => /\ uploads[u].msg.rev \in DOMAIN issued
                                     /\ uploads[u].msg.config = issued[uploads[u].msg.rev]
        /\ uploads[u].msg.rev = 0 => plain > 0
    BY <1>8, UploadFields
       DEF TakeReply, NewestInv, TypeInv, ConfigTypeOK, MessagesOK, PlainCounted
  <2>2. /\ UNCHANGED plain
        /\ \A v \in Uploaders : uploads'[v].stage = "take" =>
              uploads[v].stage = "take" /\ uploads'[v] = uploads[v]
    BY <1>1, <1>8 DEF TakeReply, srvVars, TypeInv, ConfigTypeOK
  <2>3. CASE Take(uploads[u].msg, {u})
    BY <1>1, <1>3, <2>1, <2>2, <2>3, ReceiveNewest
  <2>4. CASE UNCHANGED <<appVars, pending, request, work, statVars, report, srvVars>>
    <3>1. \A v \in Uploaders : uploads'[v].stage = "take" /\ uploads'[v].msg.rev = 0 => plain' > 0
      BY <2>2 DEF NewestInv, PlainCounted
    <3>2. QED
      BY <1>1, <1>3, <2>2, <2>4, <3>1, NewestKept DEF srvVars
  <2>5. QED
    BY <1>8, <2>3, <2>4 DEF TakeReply
<1>9. ASSUME NEW u \in Uploaders, NEW msg \in Messages, RepliedConfig(u, msg) PROVE NewestInv'
  <2>1. plain' >= plain /\ (msg.rev = 0 => plain' > 0)
    BY <1>3, <1>9 DEF RepliedConfig, Counted
  <2>2. \A v \in Uploaders : uploads'[v].stage = "take" /\ uploads'[v].msg.rev = 0 => plain' > 0
    BY <1>1, <1>3, <1>9, <2>1 DEF RepliedConfig, NewestInv, PlainCounted, TypeInv, ConfigTypeOK
  <2>3. QED
    BY <1>1, <1>9, <2>1, <2>2, NewestKept DEF RepliedConfig
<1>10. ASSUME NEW u \in Uploaders,
              \/ BeginUpload(u) \/ ReadSettings(u) \/ ReadRevision(u) \/ FailUpload(u)
              \/ Replied(u) \/ RepliedRequest(u) \/ ClearSent(u)
       PROVE  NewestInv'
  <2>1. UNCHANGED <<appVars, work, issued, plain>>
    BY <1>10 DEF BeginUpload, ReadSettings, ReadRevision, FailUpload, Replied, RepliedRequest,
       ClearSent, srvVars
  <2>2. \A v \in Uploaders : uploads'[v].stage = "take" => uploads'[v] = uploads[v]
    BY <1>1, <1>10 DEF BeginUpload, ReadSettings, ReadRevision, FailUpload, Replied, RepliedRequest,
       ClearSent, IdleUpload, TypeInv, ConfigTypeOK
  <2>3. \A v \in Uploaders : uploads'[v].stage = "take" /\ uploads'[v].msg.rev = 0 => plain' > 0
    BY <2>1, <2>2 DEF NewestInv, PlainCounted
  <2>4. QED
    BY <1>1, <1>3, <2>1, <2>3, NewestKept
<1>11. CASE Reporting \/ UNCHANGED vars
  <2>1. UNCHANGED <<appVars, work, issued, plain, uploads>>
    BY <1>11 DEF Reporting, ReadForReport, RefreshStatistics, vars, srvVars
  <2>2. \A v \in Uploaders : uploads'[v].stage = "take" /\ uploads'[v].msg.rev = 0 => plain' > 0
    BY <2>1 DEF NewestInv, PlainCounted
  <2>3. QED
    BY <1>1, <1>3, <2>1, <2>2, NewestKept
<1>12. QED
  BY <1>2, <1>4, <1>5, <1>6, <1>7, <1>8, <1>9, <1>10, <1>11 DEF Next, Apply, UploadStep

\* Whatever the order in which configurations arrive, and however often, each setting
\* is what the newest applied revision to mention it says: processRuntimeConfig
\* passes over revisions that are not new and applies one at a time.
THEOREM NewestAlwaysWins == Spec => []NewestWins
<1>1. NewestInv => NewestWins
  <2>1. work.stage = "free" => Effective = done
    BY DEF Effective
  <2>2. QED
    BY <2>1 DEF NewestInv, InForce, NewestWins
<1>2. QED
  BY <1>1, InitNewest, NextNewest, PTL DEF Spec

(***************************************************************************)
(* No result is dropped.  clearPendingConfigResult compares what is        *)
(* pending with what this upload sent; that the server has it follows from *)
(* what every level of an upload under way has sent and received before.   *)
(***************************************************************************)
TruthfulOf(x, newest, revs) ==
  x # NoResult => x.rev \in 1..newest /\ ((x.status = "applied") <=> (x.rev \in revs))

Truthful(x) == TruthfulOf(x, processed, done)

ResultsTruthful ==
  /\ Truthful(pending)
  /\ \A x \in results : Truthful(x)
  /\ \A u \in Uploaders : \A i \in DOMAIN uploads[u].sent : Truthful(uploads[u].sent[i])

\* The levels whose POST was answered: all but the innermost, and that one too when
\* the answer is being dealt with.
Answered(upload, i) ==
  upload.stage \in {"take", "wait", "clear"} \/ i < Len(upload.sent)

SentReceived ==
  \A u \in Uploaders : \A i \in DOMAIN uploads[u].sent :
    Answered(uploads[u], i) => uploads[u].sent[i] \in results \cup {NoResult}

NewestKnown ==
  processed > 0 => pending.rev = processed \/ \E x \in results : x.rev = processed

ResultInv == TypeInv /\ DoneOld /\ ResultsTruthful /\ SentReceived /\ NewestKnown

LEMMA InitResult == Init => ResultInv
<1> SUFFICES ASSUME Init PROVE ResultInv
  OBVIOUS
<1>1. /\ processed = 0 /\ done = {} /\ pending = NoResult /\ results = {}
      /\ \A u \in Uploaders : uploads[u].sent = <<>>
  BY DEF Init, IdleUpload
<1>2. QED
  BY <1>1, InitTyped DEF ResultInv, DoneOld, ResultsTruthful, TruthfulOf, Truthful, SentReceived, NewestKnown

\* Steps that leave results and uploads alone.
LEMMA ResultUnmoved ==
  ASSUME ResultInv, TypeInv', UNCHANGED <<processed, done, pending, uploads, results>>
  PROVE  ResultInv'
BY DEF ResultInv, DoneOld, ResultsTruthful, Truthful, SentReceived, Answered, NewestKnown

\* A step of one uploader.  If it clears what is pending, then the server has that.
LEMMA ResultStep ==
  ASSUME ResultInv, TypeInv', NEW u \in Uploaders, NEW x,
         uploads' = [uploads EXCEPT ![u] = x],
         UNCHANGED <<processed, done>>,
         results \subseteq results', \A y \in results' : Truthful(y),
         \A i \in DOMAIN x.sent : Truthful(x.sent[i]),
         \A i \in DOMAIN x.sent : Answered(x, i) => x.sent[i] \in results' \cup {NoResult},
         pending' = pending \/ (pending' = NoResult /\ pending \in results' \cup {NoResult})
  PROVE  ResultInv'
<1>1. \A y : TruthfulOf(y, processed', done') <=> Truthful(y)
  BY DEF Truthful
<1>2. uploads'[u] = x /\ \A v \in Uploaders \ {u} : uploads'[v] = uploads[v]
  BY DEF ResultInv, TypeInv, ConfigTypeOK
<1>3. DoneOld'
  BY DEF ResultInv, DoneOld
<1>4. ResultsTruthful'
  <2>1. pending' = pending \/ pending' = NoResult
    OBVIOUS
  <2>2. Truthful(pending')
    BY <2>1 DEF ResultInv, ResultsTruthful, Truthful, TruthfulOf
  <2>3. \A v \in Uploaders : \A i \in DOMAIN uploads'[v].sent : Truthful(uploads'[v].sent[i])
    BY <1>2 DEF ResultInv, ResultsTruthful
  <2>4. QED
    BY <1>1, <2>2, <2>3 DEF ResultsTruthful, Truthful
<1>5. SentReceived'
  BY <1>2 DEF ResultInv, SentReceived, Answered
<1>6. NewestKnown'
  BY DEF ResultInv, NewestKnown, NoResult
<1>7. QED
  BY <1>3, <1>4, <1>5, <1>6 DEF ResultInv

LEMMA RecordResult ==
  ASSUME ResultInv, Record
  PROVE  ResultInv'
<1>1. TypeInv'
  BY RecordTyped DEF ResultInv
<1>2. /\ work.stage = "record" /\ work.rev \in 0..MaxRevision /\ work.status \in Statuses
      /\ processed \in Nat /\ MaxRevision \in Nat
      /\ work.rev # 0 => work.rev > processed
  BY WorkFields, ConfigAssumption DEF Record, ResultInv, TypeInv, ConfigTypeOK, WorkOK
<1>3. UNCHANGED results
  BY DEF Record, srvVars
<1>4. \A u \in Uploaders : /\ uploads'[u].sent = uploads[u].sent
                           /\ uploads'[u].stage # uploads[u].stage =>
                                uploads[u].stage = "wait" /\ uploads'[u].stage = "clear"
  BY <1>2 DEF Record, ResultInv, TypeInv, ConfigTypeOK
<1>5. SentReceived'
  <2>1. \A u \in Uploaders : \A i : Answered(uploads'[u], i) => Answered(uploads[u], i)
    BY <1>4 DEF Answered
  <2> HIDE DEF Answered
  <2>2. QED
    BY <1>3, <1>4, <2>1 DEF ResultInv, SentReceived
<1>6. CASE work.rev = 0
  <2>1. UNCHANGED <<processed, done, pending>>
    BY <1>6 DEF Record
  <2>2. \A x : TruthfulOf(x, processed', done') <=> Truthful(x)
    BY <2>1 DEF Truthful
  <2>3. DoneOld' /\ NewestKnown'
    BY <1>3, <2>1 DEF ResultInv, DoneOld, NewestKnown
  <2>4. ResultsTruthful'
    BY <1>3, <1>4, <2>1, <2>2 DEF ResultInv, ResultsTruthful, Truthful
  <2>5. QED
    BY <1>1, <1>5, <2>3, <2>4 DEF ResultInv
<1>7. CASE work.rev # 0
  <2> DEFINE res == [rev |-> work.rev, status |-> work.status]
  <2>1. /\ processed' = work.rev /\ work.rev > processed
        /\ done' = IF work.status = "applied" THEN done \cup {work.rev} ELSE done
        /\ pending' = IF pending.rev > work.rev THEN pending ELSE res
    BY <1>2, <1>7 DEF Record, SetPending
  <2>2. \A r \in done : r \in Nat /\ r <= processed
    BY DEF ResultInv, DoneOld, TypeInv, ConfigTypeOK
  <2>3. DoneOld'
    BY <1>2, <2>1, <2>2 DEF DoneOld
  <2>4. pending' = res
    <3>1. pending.rev \in 0..processed
      BY <1>2 DEF ResultInv, ResultsTruthful, Truthful, TruthfulOf, NoResult
    <3>2. QED
      BY <1>2, <2>1, <3>1
  <2>5. TruthfulOf(res, processed', done')
    <3>1. res.rev \in 1..processed'
      BY <1>2, <2>1
    <3>2. CASE work.status = "applied"
      BY <2>1, <3>1, <3>2 DEF TruthfulOf
    <3>3. CASE work.status # "applied"
      <4>1. work.rev \notin done
        BY <1>2, <2>1, <2>2
      <4>2. QED
        BY <2>1, <3>1, <3>3, <4>1 DEF TruthfulOf
    <3>4. QED
      BY <3>2, <3>3
  <2>6. \A x : Truthful(x) => TruthfulOf(x, processed', done')
    <3>1. \A x : x.rev \in 1..processed => x.rev \in 1..processed' /\ (x.rev \in done' <=> x.rev \in done)
      BY <1>2, <2>1
    <3>2. QED
      BY <3>1 DEF Truthful, TruthfulOf
  <2>7. ResultsTruthful'
    <3> HIDE DEF res
    <3>1. QED
      BY <1>3, <1>4, <2>4, <2>5, <2>6 DEF ResultInv, ResultsTruthful, Truthful
  <2>8. NewestKnown'
    BY <2>1, <2>4 DEF NewestKnown
  <2>9. QED
    BY <1>1, <1>5, <2>3, <2>7, <2>8 DEF ResultInv
<1>8. QED
  BY <1>6, <1>7

\* What an upload that the server receives adds to its results is true.
LEMMA ReceivedResult ==
  ASSUME ResultInv, NEW u \in Uploaders, uploads[u].stage = "post", Received(u)
  PROVE  /\ uploads[u].sent \in Seq(Results \cup {NoResult}) /\ uploads[u].sent # <<>>
         /\ results \subseteq results' /\ \A y \in results' : Truthful(y)
         /\ \A i \in DOMAIN uploads[u].sent : uploads[u].sent[i] \in results' \cup {NoResult}
<1> DEFINE sent == uploads[u].sent
<1>1. sent \in Seq(Results \cup {NoResult}) /\ sent # <<>>
  BY UploadFields DEF ResultInv, TypeInv, ConfigTypeOK, SentOK
<1>2. results' = results \cup ({sent[Len(sent)]} \ {NoResult})
  BY DEF Received
<1>3. \A i \in DOMAIN sent : Truthful(sent[i])
  BY DEF ResultInv, ResultsTruthful
<1>4. \A i \in DOMAIN sent : i < Len(sent) => sent[i] \in results \cup {NoResult}
  BY DEF ResultInv, SentReceived, Answered
<1> HIDE DEF sent
<1>5. Len(sent) \in DOMAIN sent /\ \A i \in DOMAIN sent : i < Len(sent) \/ i = Len(sent)
  BY <1>1
<1>6. results \subseteq results' /\ \A y \in results' : Truthful(y)
  BY <1>2, <1>3, <1>5 DEF ResultInv, ResultsTruthful
<1>7. \A i \in DOMAIN sent : sent[i] \in results' \cup {NoResult}
  BY <1>2, <1>4, <1>5
<1>8. QED
  BY <1>1, <1>6, <1>7 DEF sent

LEMMA UploadResultKept ==
  ASSUME ResultInv, TypeInv', NEW u \in Uploaders,
         BeginUpload(u) \/ ReadSettings(u) \/ ReadRevision(u)
  PROVE  ResultInv'
<1>1. UNCHANGED <<processed, done, pending, results>>
  BY DEF BeginUpload, ReadSettings, ReadRevision, appVars, srvVars
<1>2. \A y \in results' : Truthful(y)
  BY <1>1 DEF ResultInv, ResultsTruthful
<1>3. CASE BeginUpload(u)
  <2> DEFINE x == [stage |-> "settings", sent |-> <<pending>>]
  <2>1. uploads' = [uploads EXCEPT ![u] = x]
    BY <1>3 DEF BeginUpload
  <2>2. DOMAIN x.sent = {1} /\ x.sent[1] = pending /\ Len(x.sent) = 1 /\ x.stage = "settings"
    OBVIOUS
  <2> HIDE DEF x
  <2>3. \A i \in DOMAIN x.sent : Truthful(x.sent[i])
    BY <2>2 DEF ResultInv, ResultsTruthful
  <2>4. \A i \in DOMAIN x.sent : ~Answered(x, i)
    BY <2>2 DEF Answered
  <2>5. QED
    BY <1>1, <1>2, <2>1, <2>3, <2>4, ResultStep
<1>4. CASE ReadSettings(u) \/ ReadRevision(u)
  <2>1. PICK x : /\ uploads' = [uploads EXCEPT ![u] = x]
                 /\ x.stage \in {"revision", "post"} /\ x.sent = uploads[u].sent
    <3>1. CASE ReadSettings(u)
      <4> DEFINE x == [stage |-> "revision", sent |-> uploads[u].sent, settings |-> ReportedSettings]
      <4>1. /\ uploads' = [uploads EXCEPT ![u] = x]
            /\ x.stage \in {"revision", "post"} /\ x.sent = uploads[u].sent
        BY <3>1 DEF ReadSettings, ResultInv, TypeInv, ConfigTypeOK
      <4>2. QED
        BY <4>1
    <3>2. CASE ReadRevision(u)
      <4> DEFINE x == [stage |-> "post", sent |-> uploads[u].sent, settings |-> uploads[u].settings,
                       rev |-> applied]
      <4>1. /\ uploads' = [uploads EXCEPT ![u] = x]
            /\ x.stage \in {"revision", "post"} /\ x.sent = uploads[u].sent
        BY <3>2 DEF ReadRevision, ResultInv, TypeInv, ConfigTypeOK
      <4>2. QED
        BY <4>1
    <3>3. QED
      BY <1>4, <3>1, <3>2
  <2>2. \A i \in DOMAIN x.sent : Truthful(x.sent[i])
    BY <2>1 DEF ResultInv, ResultsTruthful
  <2>3. \A i \in DOMAIN x.sent : Answered(x, i) => x.sent[i] \in results \cup {NoResult}
    BY <2>1 DEF ResultInv, SentReceived, Answered
  <2>4. QED
    BY <1>1, <1>2, <2>1, <2>2, <2>3, ResultStep
<1>5. QED
  BY <1>3, <1>4

LEMMA ReceivedResultKept ==
  ASSUME ResultInv, TypeInv', NEW u \in Uploaders, NEW x,
         uploads[u].stage = "post", Received(u), uploads' = [uploads EXCEPT ![u] = x],
         x.sent = uploads[u].sent, UNCHANGED <<processed, done, pending>>
  PROVE  ResultInv'
<1>1. /\ results \subseteq results' /\ \A y \in results' : Truthful(y)
      /\ \A i \in DOMAIN x.sent : x.sent[i] \in results' \cup {NoResult}
  BY ReceivedResult
<1>2. \A i \in DOMAIN x.sent : Truthful(x.sent[i])
  BY DEF ResultInv, ResultsTruthful
<1>3. QED
  BY <1>1, <1>2, ResultStep

LEMMA FailUploadResult ==
  ASSUME ResultInv, TypeInv', NEW u \in Uploaders, FailUpload(u)
  PROVE  ResultInv'
<1>1. /\ uploads[u].stage = "post" /\ uploads' = [uploads EXCEPT ![u] = IdleUpload]
      /\ UNCHANGED <<processed, done, pending>>
  BY DEF FailUpload, appVars
<1>2. results \subseteq results' /\ \A y \in results' : Truthful(y)
  <2>1. CASE Received(u)
    BY <1>1, <2>1, ReceivedResult
  <2>2. CASE UNCHANGED <<known, results>>
    BY <2>2 DEF ResultInv, ResultsTruthful
  <2>3. QED
    BY <2>1, <2>2 DEF FailUpload
<1>3. DOMAIN IdleUpload.sent = {}
  BY DEF IdleUpload
<1>4. QED
  BY <1>1, <1>2, <1>3, ResultStep

LEMMA RepliedRequestResult ==
  ASSUME ResultInv, TypeInv', NEW u \in Uploaders, RepliedRequest(u)
  PROVE  ResultInv'
<1> DEFINE sent == uploads[u].sent
           x == [stage |-> "settings", sent |-> Append(sent, pending)]
<1>1. /\ uploads[u].stage = "post" /\ Received(u) /\ uploads' = [uploads EXCEPT ![u] = x]
      /\ UNCHANGED <<processed, done, pending>>
  BY DEF RepliedRequest, appVars, ResultInv, TypeInv, ConfigTypeOK
<1>2. /\ sent \in Seq(Results \cup {NoResult})
      /\ results \subseteq results' /\ \A y \in results' : Truthful(y)
      /\ \A i \in DOMAIN sent : sent[i] \in results' \cup {NoResult}
  BY <1>1, ReceivedResult
<1>3. pending \in Results \cup {NoResult} /\ Truthful(pending) /\ \A i \in DOMAIN sent : Truthful(sent[i])
  BY DEF ResultInv, ResultsTruthful, TypeInv, ConfigTypeOK
<1>4. x.sent = Append(sent, pending) /\ x.stage = "settings"
  OBVIOUS
<1> HIDE DEF sent, x
<1>5. /\ DOMAIN x.sent = 1 .. Len(sent) + 1 /\ DOMAIN sent = 1 .. Len(sent) /\ Len(sent) \in Nat
      /\ Len(x.sent) = Len(sent) + 1 /\ x.sent[Len(sent) + 1] = pending
      /\ \A i \in DOMAIN sent : x.sent[i] = sent[i]
  BY <1>2, <1>3, <1>4
<1>6. \A i \in DOMAIN x.sent : i \in DOMAIN sent \/ i = Len(sent) + 1
  BY <1>5
<1>7. \A i \in DOMAIN x.sent : Truthful(x.sent[i])
  BY <1>3, <1>5, <1>6
<1>8. \A i \in DOMAIN x.sent : Answered(x, i) => x.sent[i] \in results' \cup {NoResult}
  BY <1>2, <1>4, <1>5, <1>6 DEF Answered
<1>9. QED
  BY <1>1, <1>2, <1>7, <1>8, ResultStep

LEMMA TakeReplyResult ==
  ASSUME ResultInv, TypeInv', NEW u \in Uploaders, TakeReply(u)
  PROVE  ResultInv'
<1>1. uploads[u].stage = "take" /\ UNCHANGED <<processed, done, pending, results>>
  BY DEF TakeReply, Take, appVars, srvVars
<1>2. PICK stage \in {"wait", "clear"} :
        uploads' = [uploads EXCEPT ![u] = [stage |-> stage, sent |-> uploads[u].sent]]
  BY DEF TakeReply, ResultInv, TypeInv, ConfigTypeOK
<1> DEFINE x == [stage |-> stage, sent |-> uploads[u].sent]
<1>3. x.sent = uploads[u].sent /\ uploads' = [uploads EXCEPT ![u] = x]
  BY <1>2
<1> HIDE DEF x
<1>4. \A y \in results' : Truthful(y)
  BY <1>1 DEF ResultInv, ResultsTruthful
<1>5. \A i \in DOMAIN x.sent : Truthful(x.sent[i]) /\ x.sent[i] \in results' \cup {NoResult}
  BY <1>1, <1>3 DEF ResultInv, ResultsTruthful, SentReceived, Answered
<1>6. QED
  BY <1>1, <1>3, <1>4, <1>5, ResultStep

LEMMA ClearSentResult ==
  ASSUME ResultInv, TypeInv', NEW u \in Uploaders, ClearSent(u)
  PROVE  ResultInv'
<1> DEFINE sent == uploads[u].sent
           outer == SubSeq(sent, 1, Len(sent) - 1)
           x == IF outer = <<>> THEN IdleUpload ELSE [stage |-> "clear", sent |-> outer]
<1>1. /\ uploads[u].stage = "clear"
      /\ pending' = IF WasSent(sent[Len(sent)]) THEN NoResult ELSE pending
      /\ uploads' = [uploads EXCEPT ![u] = x]
      /\ UNCHANGED <<processed, done, results>>
  BY DEF ClearSent, appVars, srvVars
<1>2. /\ sent \in Seq(Results \cup {NoResult}) /\ sent # <<>>
      /\ \A i \in DOMAIN sent : Truthful(sent[i]) /\ sent[i] \in results \cup {NoResult}
  BY <1>1, UploadFields
     DEF ResultInv, TypeInv, ConfigTypeOK, SentOK, ResultsTruthful, SentReceived, Answered
<1>3. x.sent = outer
  BY DEF IdleUpload
<1> HIDE DEF x, sent
<1>4. /\ Len(sent) \in DOMAIN sent
      /\ \A i \in DOMAIN outer : i \in DOMAIN sent /\ outer[i] = sent[i]
  BY <1>2
<1>5. \A i \in DOMAIN x.sent : Truthful(x.sent[i]) /\ x.sent[i] \in results' \cup {NoResult}
  <2> HIDE DEF outer
  <2>1. QED
    BY <1>1, <1>2, <1>3, <1>4
<1>6. pending' = pending \/ (pending' = NoResult /\ pending \in results' \cup {NoResult})
  BY <1>1, <1>2, <1>4 DEF WasSent
<1>7. \A y \in results' : Truthful(y)
  BY <1>1 DEF ResultInv, ResultsTruthful
<1>8. QED
  BY <1>1, <1>5, <1>6, <1>7, ResultStep

LEMMA NextResult == ResultInv /\ [Next]_vars => ResultInv'
<1> SUFFICES ASSUME ResultInv, [Next]_vars PROVE ResultInv'
  OBVIOUS
<1>1. TypeInv'
  BY NextTyped DEF ResultInv
<1>2. CASE (\E c \in Configs : Publish(c)) \/ (\E msg \in Messages : ReceiveEvent(msg))
           \/ SwitchStatistics \/ FilterStatistics \/ SetSettings \/ Reporting \/ UNCHANGED vars
  <2>1. UNCHANGED <<processed, done, pending, uploads, results>>
    BY <1>2 DEF Publish, ReceiveEvent, Take, SwitchStatistics, FilterStatistics, SetSettings,
       Reporting, ReadForReport, RefreshStatistics, vars, appVars, srvVars
  <2>2. QED
    BY <1>1, <2>1, ResultUnmoved
<1>3. CASE Record
  BY <1>3, RecordResult
<1>4. ASSUME NEW u \in Uploaders, BeginUpload(u) \/ UploadStep(u) PROVE ResultInv'
  <2>1. CASE BeginUpload(u) \/ ReadSettings(u) \/ ReadRevision(u)
    BY <1>1, <2>1, UploadResultKept
  <2>2. CASE FailUpload(u) \/ RepliedRequest(u) \/ TakeReply(u) \/ ClearSent(u)
    BY <1>1, <2>2, FailUploadResult, RepliedRequestResult, TakeReplyResult, ClearSentResult
  <2>3. CASE Replied(u)
    <3> DEFINE x == [stage |-> "clear", sent |-> uploads[u].sent]
    <3>1. /\ uploads[u].stage = "post" /\ Received(u) /\ uploads' = [uploads EXCEPT ![u] = x]
          /\ x.sent = uploads[u].sent /\ UNCHANGED <<processed, done, pending>>
      BY <2>3 DEF Replied, appVars, ResultInv, TypeInv, ConfigTypeOK
    <3> HIDE DEF x
    <3>2. QED
      BY <1>1, <3>1, ReceivedResultKept
  <2>4. ASSUME NEW msg \in Messages, RepliedConfig(u, msg) PROVE ResultInv'
    <3> DEFINE x == [stage |-> "take", sent |-> uploads[u].sent, msg |-> msg]
    <3>1. /\ uploads[u].stage = "post" /\ Received(u) /\ uploads' = [uploads EXCEPT ![u] = x]
          /\ x.sent = uploads[u].sent /\ UNCHANGED <<processed, done, pending>>
      BY <2>4 DEF RepliedConfig, appVars, ResultInv, TypeInv, ConfigTypeOK
    <3> HIDE DEF x
    <3>2. QED
      BY <1>1, <3>1, ReceivedResultKept
  <2>5. QED
    BY <1>4, <2>1, <2>2, <2>3, <2>4 DEF UploadStep
<1>5. QED
  BY <1>2, <1>3, <1>4 DEF Next, Apply

\* The result of the newest configuration is pending until the server has it, however
\* uploads, replies and later configurations interleave, and no result, pending or
\* received, says "applied" of a revision that was not, or "failed" of one that was.
THEOREM ResultAlwaysKept == Spec => []ResultKept
<1>1. ResultInv => ResultKept
  BY DEF ResultInv, ResultsTruthful, Truthful, TruthfulOf, NewestKnown, ResultKept, Results,
     TypeInv, ConfigTypeOK, NoResult
<1>2. QED
  BY <1>1, InitResult, NextResult, PTL DEF Spec

(***************************************************************************)
(* A result travels with settings in which its revision is in force.  The  *)
(* settings are read after the result and before the revision, each        *)
(* without the appliers' lock.  Every revision in force is at most         *)
(* Horizon and every one that comes into force later is above it, so what  *)
(* an upload has read stays the settings after all revisions up to some n. *)
(***************************************************************************)
AppliedCovers == \A r \in done : r <= applied

Horizon ==
  IF work.stage = "record" /\ work.rev > 0 /\ work.status = "applied" THEN work.rev ELSE processed

UpTo(n) == {r \in Effective : r <= n}

ResultOf(upload) == upload.sent[Len(upload.sent)]

CarriesState(upload) ==
  \E n \in 0..Horizon :
    /\ upload.settings = InForceAfter(UpTo(n))
    /\ ResultOf(upload).status = "applied" => ResultOf(upload).rev <= n

HasRead(upload) == upload.stage \in {"revision", "post"}

UploadsCarryState ==
  \A u \in Uploaders :
    /\ plain = 0 /\ HasRead(uploads[u]) => CarriesState(uploads[u])
    /\ uploads[u].stage = "post" /\ ResultOf(uploads[u]).status = "applied" =>
         uploads[u].rev >= ResultOf(uploads[u]).rev

StateInv == NewestInv /\ ResultInv /\ AppliedCovers /\ UploadsCarryState

LEMMA InitState == Init => StateInv
<1> SUFFICES ASSUME Init PROVE StateInv
  OBVIOUS
<1>1. done = {} /\ \A u \in Uploaders : uploads[u].stage = "idle"
  BY DEF Init, IdleUpload
<1>2. QED
  BY <1>1, InitNewest, InitResult DEF StateInv, AppliedCovers, UploadsCarryState, HasRead

LEMMA HorizonBounds ==
  ASSUME NewestInv
  PROVE  /\ Horizon \in processed..MaxRevision /\ processed \in Nat /\ MaxRevision \in Nat
         /\ \A r \in Effective : r \in Nat /\ r <= Horizon
         /\ Effective \in SUBSET DOMAIN issued
<1>1. /\ processed \in 0..MaxRevision /\ MaxRevision \in Nat
      /\ work.stage # "free" => work.rev \in 0..MaxRevision
      /\ work.stage # "free" /\ work.rev > 0 => work.rev \in DOMAIN issued /\ work.rev > processed
      /\ done \in SUBSET DOMAIN issued /\ DOMAIN issued \in SUBSET Nat
      /\ \A r \in done : r <= processed
  BY WorkFields, ConfigAssumption
     DEF NewestInv, TypeInv, ConfigTypeOK, WorkOK, DoneOld
<1>2. QED
  BY <1>1 DEF Horizon, Effective

\* What comes into force, or is recorded, is newer than all that was in force before.
Grows ==
  /\ Horizon' \in Nat /\ Horizon <= Horizon'
  /\ Effective \subseteq Effective'
  /\ \A r \in Effective' \ Effective : r \in Nat /\ r > Horizon
  /\ \A revs \in SUBSET DOMAIN issued : InForceAfter(revs)' = InForceAfter(revs)

LEMMA GrowsKeepsCarried ==
  ASSUME NewestInv, Grows, NEW u \in Uploaders, CarriesState(uploads'[u])
  PROVE  CarriesState(uploads[u])'
<1>1. PICK n \in 0..Horizon :
        /\ uploads'[u].settings = InForceAfter(UpTo(n))
        /\ ResultOf(uploads'[u]).status = "applied" => ResultOf(uploads'[u]).rev <= n
  BY DEF CarriesState
<1>2. n \in 0..Horizon'
  BY HorizonBounds DEF Grows
<1>3. UpTo(n)' = UpTo(n)
  BY HorizonBounds DEF Grows, UpTo
<1>4. InForceAfter(UpTo(n))' = InForceAfter(UpTo(n))
  <2>1. UpTo(n) \in SUBSET DOMAIN issued
    BY HorizonBounds DEF UpTo
  <2>2. QED
    BY <1>3, <2>1 DEF Grows, InForceAfter
<1>5. QED
  BY <1>1, <1>2, <1>4 DEF CarriesState, ResultOf

LEMMA GrowsUnmoved ==
  ASSUME NewestInv, UNCHANGED <<processed, done, work, issued>>
  PROVE  Grows
<1>1. Horizon' = Horizon /\ Effective' = Effective
  BY DEF Horizon, Effective
<1>2. \A revs \in SUBSET DOMAIN issued : InForceAfter(revs)' = InForceAfter(revs)
  BY DEF InForceAfter
<1>3. QED
  BY <1>1, <1>2, HorizonBounds DEF Grows

LEMMA TakeGrows ==
  ASSUME NewestInv, NEW msg \in Messaged, NEW by, Take(msg, by)
  PROVE  Grows
<1>1. /\ work.stage = "free" /\ ~Stale(msg.rev) /\ msg.rev \in Nat
      /\ work'.rev = msg.rev /\ UNCHANGED <<processed, done, issued>>
  BY ConfigAssumption DEF Take, LockFree, appVars, Messaged
<1>2. Horizon = processed /\ Effective = done /\ processed \in Nat
  BY <1>1, HorizonBounds DEF Horizon, Effective
<1>3. \/ Horizon' = processed /\ Effective' = done
      \/ Horizon' = msg.rev /\ Effective' = done \cup {msg.rev} /\ msg.rev > processed
  <2>1. CASE work'.stage = "record" /\ msg.rev > 0 /\ work'.status = "applied"
    BY <1>1, <1>2, <2>1 DEF Horizon, Effective, Stale
  <2>2. CASE ~(work'.stage = "record" /\ msg.rev > 0 /\ work'.status = "applied")
    BY <1>1, <2>2 DEF Horizon, Effective
  <2>3. QED
    BY <2>1, <2>2
<1>4. \A revs \in SUBSET DOMAIN issued : InForceAfter(revs)' = InForceAfter(revs)
  BY <1>1 DEF InForceAfter
<1>5. QED
  BY <1>1, <1>2, <1>3, <1>4 DEF Grows

\* An applier that goes on puts a revision into force by SetSettings alone.
LEMMA WorkGrows ==
  ASSUME NewestInv, SwitchStatistics \/ FilterStatistics \/ SetSettings
  PROVE  Grows
<1>1. /\ UNCHANGED <<processed, done, issued>>
      /\ work.stage \in {"switch", "filter", "set"}
      /\ (\E stage \in {"filter", "set", "record"} : Goes(stage)) \/ Ends("failed")
  BY DEF SwitchStatistics, FilterStatistics, SetSettings, appVars, srvVars
<1>2. /\ work'.rev = work.rev /\ work.rev \in Nat
      /\ work.rev > 0 => work.rev > processed
  <2>1. work \in [stage : {"switch", "filter", "set", "record"}, rev : 0..MaxRevision,
                  next : Settings, by : SUBSET Uploaders, changed : BOOLEAN, status : Statuses]
    BY <1>1, WorkFields DEF NewestInv, TypeInv, ConfigTypeOK
  <2>2. work'.rev = work.rev
    BY <1>1, <2>1 DEF Goes, Ends
  <2>3. QED
    BY <1>1, <2>1, <2>2, ConfigAssumption DEF NewestInv, TypeInv, WorkOK
<1>3. Horizon = processed /\ Effective = done /\ processed \in Nat
  BY <1>1, HorizonBounds DEF Horizon, Effective
<1>4. \/ Horizon' = processed /\ Effective' = done
      \/ Horizon' = work.rev /\ Effective' = done \cup {work.rev} /\ work.rev > 0
  BY <1>1, <1>2 DEF Horizon, Effective
<1>5. \A revs \in SUBSET DOMAIN issued : InForceAfter(revs)' = InForceAfter(revs)
  BY <1>1 DEF InForceAfter
<1>6. QED
  BY <1>2, <1>3, <1>4, <1>5 DEF Grows

LEMMA RecordGrows ==
  ASSUME NewestInv, Record
  PROVE  Grows
<1>1. /\ work.stage = "record" /\ work'.stage = "free" /\ UNCHANGED issued
      /\ work.rev \in Nat /\ processed \in Nat
      /\ work.rev # 0 => work.rev > processed
  BY WorkFields, ConfigAssumption
     DEF Record, Unlocked, srvVars, NewestInv, TypeInv, ConfigTypeOK, WorkOK
<1>2. /\ done' = IF work.rev > 0 /\ work.status = "applied" THEN done \cup {work.rev} ELSE done
      /\ processed' = IF work.rev > 0 THEN work.rev ELSE processed
  BY <1>1 DEF Record
<1>3. Effective' = Effective /\ Horizon' = processed'
  BY <1>1, <1>2 DEF Effective, Horizon
<1>4. Horizon <= Horizon' /\ Horizon' \in Nat
  BY <1>1, <1>2, <1>3 DEF Horizon
<1>5. \A revs \in SUBSET DOMAIN issued : InForceAfter(revs)' = InForceAfter(revs)
  BY <1>1 DEF InForceAfter
<1>6. QED
  BY <1>3, <1>4, <1>5 DEF Grows

LEMMA NextPlain ==
  ASSUME TypeInv, [Next]_vars
  PROVE  plain' = 0 => plain = 0
<1>1. plain \in Nat
  BY ConfigAssumption DEF TypeInv, ConfigTypeOK
<1>2. UNCHANGED plain \/ \E msg \in Messages : Counted(msg)
  BY DEF Next, Apply, UploadStep, Reporting, Publish, ReceiveEvent, SwitchStatistics,
     FilterStatistics, SetSettings, Record, BeginUpload, ReadSettings, ReadRevision, FailUpload,
     Replied, RepliedRequest, RepliedConfig, TakeReply, ClearSent, ReadForReport,
     RefreshStatistics, vars, srvVars
<1>3. QED
  BY <1>1, <1>2 DEF Counted

LEMMA NextGrows ==
  ASSUME NewestInv, [Next]_vars
  PROVE  Grows
<1>1. ASSUME NEW c \in Configs, Publish(c) PROVE Grows
  <2>1. Horizon' = Horizon /\ Effective' = Effective
    BY <1>1 DEF Publish, appVars, Horizon, Effective
  <2>2. \A revs \in SUBSET DOMAIN issued : InForceAfter(revs)' = InForceAfter(revs)
    BY <1>1, PublishInForce DEF NewestInv
  <2>3. QED
    BY <2>1, <2>2, HorizonBounds DEF Grows
<1>2. ASSUME NEW msg \in Messages, ReceiveEvent(msg) PROVE Grows
  <2>1. msg \in Messaged /\ Take(msg, {})
    BY <1>2, MessageFields DEF ReceiveEvent, NewestInv
  <2>2. QED
    BY <2>1, TakeGrows
<1>3. CASE Apply
  BY <1>3, WorkGrows, RecordGrows DEF Apply
<1>4. ASSUME NEW u \in Uploaders, TakeReply(u) PROVE Grows
  <2>1. uploads[u].msg \in Messaged
    BY <1>4, UploadFields DEF TakeReply, NewestInv, TypeInv, ConfigTypeOK
  <2>2. CASE Take(uploads[u].msg, {u})
    BY <2>1, <2>2, TakeGrows
  <2>3. CASE UNCHANGED <<appVars, work, srvVars>>
    BY <2>3, GrowsUnmoved DEF appVars, srvVars
  <2>4. QED
    BY <1>4, <2>2, <2>3 DEF TakeReply
<1>5. CASE UNCHANGED <<appVars, work, issued>>
  <2>1. UNCHANGED <<processed, done, work, issued>>
    BY <1>5 DEF appVars
  <2>2. QED
    BY <2>1, GrowsUnmoved
<1>6. CASE \E u \in Uploaders :
             \/ BeginUpload(u) \/ ReadSettings(u) \/ ReadRevision(u) \/ FailUpload(u)
             \/ Replied(u) \/ RepliedRequest(u) \/ ClearSent(u)
             \/ \E msg \in Messages : RepliedConfig(u, msg)
  <2>1. UNCHANGED <<appVars, work, issued>>
    BY <1>6 DEF BeginUpload, ReadSettings, ReadRevision, FailUpload, Replied, RepliedRequest,
       RepliedConfig, ClearSent, srvVars
  <2>2. QED
    BY <1>5, <2>1
<1>7. CASE Reporting \/ UNCHANGED vars
  <2>1. UNCHANGED <<appVars, work, issued>>
    BY <1>7 DEF Reporting, ReadForReport, RefreshStatistics, vars, srvVars
  <2>2. QED
    BY <1>5, <2>1
<1>8. QED
  BY <1>1, <1>2, <1>3, <1>4, <1>6, <1>7 DEF Next, UploadStep

\* Only an uploader that reads them gets settings or a revision.
LEMMA OnlyReadersRead ==
  ASSUME TypeInv, [Next]_vars
  PROVE  \A u \in Uploaders :
           \/ ReadSettings(u)
           \/ ReadRevision(u)
           \/ HasRead(uploads[u])' => uploads'[u] = uploads[u]
<1>1. SUFFICES ASSUME NEW v \in Uploaders, ~ReadSettings(v), ~ReadRevision(v), HasRead(uploads[v])'
               PROVE  uploads'[v] = uploads[v]
  OBVIOUS
<1>2. uploads'[v].stage \in {"revision", "post"}
  BY <1>1 DEF HasRead
<1>3. uploads \in [Uploaders -> UploadStates]
  BY DEF TypeInv, ConfigTypeOK
<1>4. CASE \/ \E c \in Configs : Publish(c)
           \/ \E msg \in Messages : ReceiveEvent(msg)
           \/ SwitchStatistics \/ FilterStatistics \/ SetSettings
           \/ Reporting \/ UNCHANGED vars
  BY <1>4 DEF Publish, ReceiveEvent, SwitchStatistics, FilterStatistics, SetSettings,
     Reporting, ReadForReport, RefreshStatistics, vars
<1>5. CASE Record
  BY <1>2, <1>3, <1>5 DEF Record
<1>6. ASSUME NEW u \in Uploaders, BeginUpload(u) \/ UploadStep(u) PROVE uploads'[v] = uploads[v]
  <2>1. u # v => uploads'[v] = uploads[v]
    BY <1>3, <1>6 DEF UploadStep, BeginUpload, ReadSettings, ReadRevision, FailUpload, Replied,
       RepliedRequest, RepliedConfig, TakeReply, ClearSent
  <2>2. u = v => uploads'[v].stage \in {"settings", "idle", "clear", "take", "wait"}
    <3>1. CASE BeginUpload(u)
      BY <1>3, <3>1 DEF BeginUpload
    <3>2. CASE ReadSettings(u) \/ ReadRevision(u)
      BY <1>1, <3>2
    <3>3. CASE FailUpload(u)
      BY <1>3, <3>3 DEF FailUpload, IdleUpload
    <3>4. CASE Replied(u) \/ RepliedRequest(u)
      BY <1>3, <3>4 DEF Replied, RepliedRequest
    <3>5. ASSUME NEW msg \in Messages, RepliedConfig(u, msg)
          PROVE  uploads'[u].stage = "take"
      BY <1>3, <3>5 DEF RepliedConfig
    <3>6. CASE TakeReply(u)
      BY <1>3, <3>6 DEF TakeReply
    <3>7. CASE ClearSent(u)
      BY <1>3, <3>7 DEF ClearSent, IdleUpload
    <3>8. QED
      BY <1>6, <3>1, <3>2, <3>3, <3>4, <3>5, <3>6, <3>7 DEF UploadStep
  <2>3. QED
    BY <1>2, <2>1, <2>2
<1>7. QED
  BY <1>4, <1>5, <1>6 DEF Next, Apply

\* What applies a revision records it as the last applied one.
LEMMA NextCovers ==
  ASSUME NewestInv, AppliedCovers, [Next]_vars
  PROVE  AppliedCovers'
<1>1. CASE Record
  <2>1. /\ work.rev \in Nat /\ processed \in Nat
        /\ work.rev # 0 => work.rev > processed
    BY <1>1, WorkFields, ConfigAssumption DEF Record, NewestInv, TypeInv, ConfigTypeOK, WorkOK
  <2>2. \A r \in done : r \in Nat /\ r <= processed
    BY DEF NewestInv, DoneOld, TypeInv, ConfigTypeOK
  <2>3. \/ UNCHANGED <<applied, done>>
        \/ work.rev # 0 /\ applied' = work.rev /\ done' = done \cup {work.rev}
    BY <1>1 DEF Record, AppliedNow
  <2>4. CASE UNCHANGED <<applied, done>>
    BY <2>4 DEF AppliedCovers
  <2>5. CASE work.rev # 0 /\ applied' = work.rev /\ done' = done \cup {work.rev}
    <3>1. \A r \in done : r <= work.rev
      BY <2>1, <2>2, <2>5
    <3>2. QED
      BY <2>1, <2>5, <3>1 DEF AppliedCovers
  <2>6. QED
    BY <2>3, <2>4, <2>5
<1>2. CASE ~Record
  <2>1. UNCHANGED <<applied, done>>
    BY <1>2 DEF Next, Apply, UploadStep, Reporting, Publish, ReceiveEvent, Take, SwitchStatistics,
       FilterStatistics, SetSettings, BeginUpload, ReadSettings, ReadRevision, FailUpload,
       Replied, RepliedRequest, RepliedConfig, TakeReply, ClearSent, ReadForReport,
       RefreshStatistics, vars, appVars
  <2>2. QED
    BY <2>1 DEF AppliedCovers
<1>3. QED
  BY <1>1, <1>2

\* The innermost result of an upload is none or one that is recorded.
LEMMA ResultIsRecorded ==
  ASSUME ResultInv, NEW u \in Uploaders, uploads[u].stage # "idle",
         ResultOf(uploads[u]).status = "applied"
  PROVE  ResultOf(uploads[u]).rev \in 1..processed /\ ResultOf(uploads[u]).rev \in done
<1> DEFINE sent == uploads[u].sent
<1>1. sent \in Seq(Results \cup {NoResult}) /\ sent # <<>> /\ \A i \in DOMAIN sent : Truthful(sent[i])
  BY UploadFields DEF ResultInv, TypeInv, ConfigTypeOK, SentOK, ResultsTruthful
<1> HIDE DEF sent
<1>2. Truthful(sent[Len(sent)])
  BY <1>1
<1>3. QED
  BY <1>2 DEF Truthful, TruthfulOf, NoResult, ResultOf, sent

LEMMA ReadSettingsState ==
  ASSUME NewestInv, ResultInv, NEW u \in Uploaders, ReadSettings(u)
  PROVE  /\ uploads'[u].stage = "revision"
         /\ plain = 0 => CarriesState(uploads'[u])
<1>1. /\ uploads[u].stage = "settings" /\ uploads'[u].stage = "revision"
      /\ uploads'[u].settings = settings /\ uploads'[u].sent = uploads[u].sent
  BY DEF ReadSettings, ReportedSettings, NewestInv, TypeInv, ConfigTypeOK
<1>2. SUFFICES ASSUME plain = 0 PROVE CarriesState(uploads'[u])
  BY <1>1
<1>3. ResultOf(uploads'[u]) = ResultOf(uploads[u])
  BY <1>1 DEF ResultOf
<1>4. Horizon \in 0..Horizon /\ UpTo(Horizon) = Effective
  BY HorizonBounds DEF UpTo
<1>5. settings = InForceAfter(UpTo(Horizon))
  BY <1>2, <1>4 DEF NewestInv, InForce
<1>6. ResultOf(uploads[u]).status = "applied" => ResultOf(uploads[u]).rev <= Horizon
  BY <1>1, ResultIsRecorded, HorizonBounds
<1>7. QED
  BY <1>1, <1>3, <1>4, <1>5, <1>6 DEF CarriesState

LEMMA ReadRevisionState ==
  ASSUME StateInv, NEW u \in Uploaders, ReadRevision(u)
  PROVE  /\ uploads'[u].stage = "post"
         /\ ResultOf(uploads'[u]).status = "applied" => uploads'[u].rev >= ResultOf(uploads'[u]).rev
         /\ plain = 0 => CarriesState(uploads'[u])
<1>1. /\ uploads[u].stage = "revision" /\ uploads'[u].stage = "post" /\ uploads'[u].rev = applied
      /\ uploads'[u].settings = uploads[u].settings /\ uploads'[u].sent = uploads[u].sent
  BY DEF ReadRevision, StateInv, NewestInv, TypeInv, ConfigTypeOK
<1>2. ResultOf(uploads'[u]) = ResultOf(uploads[u])
  BY <1>1 DEF ResultOf
<1>3. ResultOf(uploads[u]).status = "applied" => applied >= ResultOf(uploads[u]).rev
  <2>1. applied \in Nat /\ processed \in Nat
    BY ConfigAssumption DEF StateInv, NewestInv, TypeInv, ConfigTypeOK
  <2>2. QED
    BY <1>1, <2>1, ResultIsRecorded DEF StateInv, AppliedCovers
<1>4. plain = 0 => CarriesState(uploads[u])
  BY <1>1 DEF StateInv, UploadsCarryState, HasRead
<1>5. QED
  BY <1>1, <1>2, <1>3, <1>4 DEF CarriesState

LEMMA NextState == StateInv /\ [Next]_vars => StateInv'
<1> SUFFICES ASSUME StateInv, [Next]_vars PROVE StateInv'
  OBVIOUS
<1>1. NewestInv /\ NewestInv' /\ ResultInv /\ ResultInv' /\ AppliedCovers'
  BY NextNewest, NextResult, NextCovers DEF StateInv
<1>2. Grows /\ (plain' = 0 => plain = 0)
  BY <1>1, NextGrows, NextPlain DEF NewestInv
<1>3. ASSUME NEW u \in Uploaders
      PROVE  /\ plain' = 0 /\ HasRead(uploads[u])' => CarriesState(uploads[u])'
             /\ uploads'[u].stage = "post" /\ ResultOf(uploads'[u]).status = "applied" =>
                  uploads'[u].rev >= ResultOf(uploads'[u]).rev
  <2> DEFINE y == uploads'[u]
  <2>1. /\ plain = 0 /\ y.stage \in {"revision", "post"} => CarriesState(y)
        /\ y.stage = "post" /\ ResultOf(y).status = "applied" => y.rev >= ResultOf(y).rev
    <3>1. CASE ReadSettings(u)
      BY <1>1, <1>2, <3>1, ReadSettingsState
    <3>2. CASE ReadRevision(u)
      BY <3>2, ReadRevisionState
    <3>3. CASE HasRead(uploads[u])' => uploads'[u] = uploads[u]
      BY <3>3 DEF StateInv, UploadsCarryState, HasRead
    <3>4. QED
      BY <1>1, <3>1, <3>2, <3>3, OnlyReadersRead DEF NewestInv
  <2>2. CarriesState(y) => CarriesState(uploads[u])'
    BY <1>1, <1>2, GrowsKeepsCarried
  <2>3. QED
    BY <1>2, <2>1, <2>2 DEF HasRead
<1>4. QED
  BY <1>1, <1>3 DEF StateInv, UploadsCarryState, ResultOf

\* An upload that reports a revision as applied carries settings in which that revision,
\* or a newer one, is in force, and says so, though tryUploadDataV2 reads the result, the
\* settings and the revision one after the other while configurations are applied.
THEOREM ResultsTravelWithState == Spec => []ResultHasItsState
<1>1. StateInv => ResultHasItsState
  <2>1. SUFFICES ASSUME StateInv, plain = 0, NEW u \in Uploaders, uploads[u].stage = "post",
                        ResultOf(uploads[u]).status = "applied"
                 PROVE  /\ uploads[u].rev >= ResultOf(uploads[u]).rev
                        /\ \E n \in ResultOf(uploads[u]).rev..MaxRevision :
                             uploads[u].settings = InForceAfter({r \in Effective : r <= n})
    BY DEF ResultHasItsState, ResultOf
  <2>2. PICK n \in 0..Horizon :
          /\ uploads[u].settings = InForceAfter(UpTo(n))
          /\ ResultOf(uploads[u]).rev <= n
    BY <2>1 DEF StateInv, UploadsCarryState, HasRead, CarriesState
  <2>3. ResultOf(uploads[u]).rev \in 1..processed
    BY <2>1, ResultIsRecorded DEF StateInv
  <2>4. n \in ResultOf(uploads[u]).rev..MaxRevision
    BY <2>1, <2>2, <2>3, HorizonBounds DEF StateInv
  <2>5. QED
    BY <2>1, <2>2, <2>4 DEF StateInv, UploadsCarryState, UpTo
<1>2. QED
  BY <1>1, InitState, NextState, PTL DEF Spec
=============================================================================
