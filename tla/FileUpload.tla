---------------------------- MODULE FileUpload ----------------------------
(***************************************************************************)
(* Uploads of files in one remote session (terminal/file_manager.go).      *)
(* Requests come through a bounded queue to a few workers.  An upload is   *)
(* reserved against two limits, collects chunks in a temporary file and is *)
(* finished by a rename, or cancelled; the end of the session drops what   *)
(* is left.  A chunk that comes too early is parked, and written when the  *)
(* ones before it have come.                                               *)
(*                                                                         *)
(* The manager's mutex guards the registered uploads and the reservations, *)
(* each upload has a mutex of its own for its file, and no code holds      *)
(* both.  What is done under a mutex is one action, except that a finish   *)
(* looks at the target and renames under the mutex of its upload, where a  *)
(* finish of another upload can come in between.                           *)
(***************************************************************************)
EXTENDS Integers, SequencesExt

CONSTANTS Targets,     \* paths
          Occupied,    \* those where there is a file at first
          Uploads,     \* upload ids
          Declared,    \* what the start of each upload declares
          Requests,    \* the requests the client may send, each once
          WorkerCount, \* fileWorkerCount
          QueueSize,   \* fileQueueSize
          MaxUploads,  \* maxConcurrentUploads
          MaxBytes,    \* maxFileTransferSize
          MaxParked,   \* maxPendingUploadChunks
          MaxFaults    \* bound on the failing file operations, for model checking

Request == [op : {"start", "chunk", "finish", "cancel"}, upload : Uploads, at : Nat, len : Nat]

ASSUME UploadAssumption ==
  /\ Declared \in [Uploads -> [target : Targets, size : Nat, overwrite : BOOLEAN]]
  /\ Requests \subseteq Request
  /\ Occupied \subseteq Targets
  /\ {WorkerCount, QueueSize, MaxUploads, MaxBytes, MaxParked, MaxFaults} \subseteq Nat
  /\ Uploads \cap {"none", "old"} = {}

\* An upload id is drawn at random for each start, and no chunk is empty.
ASSUME RequestAssumption ==
  \A r \in Requests :
    /\ r.op = "chunk" => r.len > 0
    /\ \A s \in Requests : r.op = "start" /\ s.op = "start" /\ r.upload = s.upload => r = s

VARIABLES session,  \* open; ending: its context is cancelled; closed
          jobs,     \* the queue
          stage,    \* how far each request is; "ok" and "failed" are its answer
          uploads,  \* the registered uploads
          count,    \* uploadCount
          reserved, \* reservedUploadBytes
          closing,  \* uploads taken by close, which it has not dropped yet
          temps,    \* uploads whose temporary file is on the disk
          opened,   \* uploads whose file is open
          torn,     \* uploads whose file has bytes that are not counted in it
          received, \* bytes written, as counted
          content,  \* the chunks written, each with its place in the file
          parked,   \* chunks that are parked
          targets,  \* what is at each path: nothing, an old file, or an upload
          faults    \* how many file operations have failed

managerVars == <<uploads, count, reserved, closing>>
dataVars == <<received, content, parked>>
fileVars == <<temps, opened, torn, targets>>
vars == <<session, jobs, stage, managerVars, dataVars, fileVars, faults>>

Size(u) == Declared[u].size

End(r) == r.at + r.len

Answer(r, a) == stage' = [stage EXCEPT ![r] = a]

Fault == faults < MaxFaults /\ faults' = faults + 1

(***************************************************************************)
(* The queue and the workers.                                              *)
(***************************************************************************)

\* The client learns the id of an upload from the answer to its start.
Known(u) == \E r \in Requests : r.op = "start" /\ r.upload = u /\ stage[r] = "ok"

\* submit, in the goroutine that reads the connection.
Submit(r) ==
  /\ session # "closed"
  /\ stage[r] = "unsent"
  /\ r.op # "start" => Known(r.upload)
  /\ IF Len(jobs) < QueueSize
     THEN jobs' = Append(jobs, r) /\ Answer(r, "queued")
     ELSE Answer(r, "failed") /\ UNCHANGED jobs
  /\ UNCHANGED <<session, managerVars, dataVars, fileVars, faults>>

BusyStages == {"taken", "created", "found", "finishing", "verified", "cancelling"}

Busy == {r \in Requests : stage[r] \in BusyStages}

\* A worker takes a request.  When the session is ending it may take another one
\* before it leaves: then handleCtx refuses the request, unless it is a binary
\* chunk, which does not pass there.
Take ==
  /\ jobs # <<>>
  /\ Cardinality(Busy) < WorkerCount
  /\ jobs' = Tail(jobs)
  /\ LET r == Head(jobs) IN
     \/ /\ session = "open" \/ r.op = "chunk"
        /\ Answer(r, "taken")
     \/ /\ session # "open"
        /\ Answer(r, "failed")
  /\ UNCHANGED <<session, managerVars, dataVars, fileVars, faults>>

(***************************************************************************)
(* The start of an upload.                                                 *)
(***************************************************************************)
Refuses(u) == targets[Declared[u].target] # "none" /\ ~Declared[u].overwrite

Create(r) ==
  LET u == r.upload IN
  /\ r.op = "start" /\ stage[r] = "taken"
  /\ \/ /\ Refuses(u) \/ Size(u) > MaxBytes
        /\ Answer(r, "failed")
        /\ UNCHANGED <<temps, opened, faults>>
     \/ /\ Fault
        /\ Answer(r, "failed")
        /\ UNCHANGED <<temps, opened>>
     \/ /\ ~Refuses(u)
        /\ Size(u) <= MaxBytes
        /\ Answer(r, "created")
        /\ temps' = temps \cup {u}
        /\ opened' = opened \cup {u}
        /\ UNCHANGED faults
  /\ UNCHANGED <<session, jobs, managerVars, dataVars, torn, targets>>

Admits(u) ==
  /\ session # "closed"
  /\ count < MaxUploads
  /\ reserved + Size(u) <= MaxBytes

Discarded(u) ==
  /\ temps' = temps \ {u}
  /\ opened' = opened \ {u}

Reserve(r) ==
  LET u == r.upload IN
  /\ r.op = "start" /\ stage[r] = "created"
  /\ IF Admits(u)
     THEN /\ uploads' = uploads \cup {u}
          /\ count' = count + 1
          /\ reserved' = reserved + Size(u)
          /\ Answer(r, "ok")
          /\ UNCHANGED <<temps, opened>>
     ELSE /\ Discarded(u)
          /\ Answer(r, "failed")
          /\ UNCHANGED <<uploads, count, reserved>>
  /\ UNCHANGED <<session, jobs, closing, dataVars, torn, targets, faults>>

(***************************************************************************)
(* A chunk: looked up under the manager's mutex, written under the         *)
(* upload's.                                                               *)
(***************************************************************************)
Find(r) ==
  /\ r.op = "chunk" /\ stage[r] = "taken"
  /\ Answer(r, IF r.upload \in uploads THEN "found" ELSE "failed")
  /\ UNCHANGED <<session, jobs, managerVars, dataVars, fileVars, faults>>

\* Fault: a chunk that has come too early waits under the mutex of the upload.
UnlockedUnlessParked(u) == \A r \in Requests : r.upload = u => stage[r] \notin {"verified", "parked"}

\* Nobody is between two actions under the mutex of the upload.
Unlocked(u) == \A r \in Requests : r.upload = u => stage[r] # "verified"

\* Fault: a chunk that was written already is accepted again.
MisplacedAhead(r) == End(r) > Size(r.upload)

Misplaced(r) == r.at < received[r.upload] \/ End(r) > Size(r.upload)

Behind(r) == r.at <= received[r.upload]

NoPlace(r) ==
  LET waiting == parked[r.upload] IN
  (\E p \in waiting : p.at = r.at) \/ Cardinality(waiting) >= MaxParked

RefuseChunk(r) ==
  /\ stage[r] = "found"
  /\ Unlocked(r.upload)
  /\ Misplaced(r) \/ (~Behind(r) /\ NoPlace(r))
  /\ Answer(r, "failed")
  /\ UNCHANGED <<session, jobs, managerVars, dataVars, fileVars, faults>>

ParkChunk(r) ==
  /\ stage[r] = "found"
  /\ Unlocked(r.upload)
  /\ ~Misplaced(r) /\ ~Behind(r) /\ ~NoPlace(r)
  /\ parked' = [parked EXCEPT ![r.upload] = @ \cup {r}]
  /\ Answer(r, "parked")
  /\ UNCHANGED <<session, jobs, managerVars, received, content, fileVars, faults>>

\* The parked chunks that follow on one another from the given offset.
Following(u, from) ==
  LET reached[n \in Nat] ==
        n = from \/ \E p \in parked[u] : p.at >= from /\ End(p) = n /\ reached[p.at]
  IN {p \in parked[u] : p.at >= from /\ reached[p.at]}

\* The chunk and those that follow are written, up to one whose write fails, and
\* that one is not parked any more.  A failing write may leave a part of the chunk
\* in the file.
WriteChunk(r) ==
  LET u == r.upload
      due == {r} \cup Following(u, End(r))
  IN
  /\ stage[r] = "found"
  /\ Unlocked(u)
  /\ ~Misplaced(r) /\ Behind(r)
  /\ \E bad \in {{}} \cup {{p} : p \in due} :
       LET written == {p \in due : \A b \in bad : p.at < b.at} IN
       /\ IF u \notin opened
          THEN bad = {r} /\ UNCHANGED <<torn, faults>>
          ELSE IF bad = {}
          THEN UNCHANGED <<torn, faults>>
          ELSE Fault /\ torn' \in {torn, torn \cup {u}}
       /\ \/ written = {} /\ UNCHANGED received
          \/ \E last \in written :
               /\ \A p \in written : p.at <= last.at
               /\ received' = [received EXCEPT ![u] = End(last)]
       /\ content' = [content EXCEPT ![u] =
             @ \cup {<<IF p = r THEN received[u] ELSE p.at, p>> : p \in written}]
       /\ parked' = [parked EXCEPT ![u] = @ \ (written \cup bad)]
       /\ stage' = [p \in Requests |->
             IF p \in written THEN "ok" ELSE IF p \in bad THEN "failed" ELSE stage[p]]
  /\ UNCHANGED <<session, jobs, managerVars, temps, opened, targets>>

(***************************************************************************)
(* The end of an upload.                                                   *)
(***************************************************************************)

\* Fault: the upload stays registered until its end.
Released(u) == uploads' = uploads /\ count' = count - 1 /\ reserved' = reserved - Size(u)

\* forgetUploadLocked, of a registered upload.
Forget(u) == uploads' = uploads \ {u} /\ count' = count - 1 /\ reserved' = reserved - Size(u)

Claim(r, next) ==
  /\ stage[r] = "taken"
  /\ IF r.upload \in uploads
     THEN Forget(r.upload) /\ Answer(r, next)
     ELSE Answer(r, "failed") /\ UNCHANGED <<uploads, count, reserved>>
  /\ UNCHANGED <<session, jobs, closing, dataVars, fileVars, faults>>

ClaimFinish(r) == r.op = "finish" /\ Claim(r, "finishing")

ClaimCancel(r) == r.op = "cancel" /\ Claim(r, "cancelling")

\* finishUpload, up to the look at the target.  The checksum it compares is that of
\* the chunks written in their order, the client's if the order is right.
Verify(r) ==
  LET u == r.upload IN
  /\ stage[r] = "finishing"
  /\ Unlocked(u)
  /\ \/ /\ received[u] # Size(u) \/ Refuses(u)
        /\ Answer(r, "failed")
        /\ Discarded(u)
        /\ UNCHANGED faults
     \/ /\ Fault
        /\ Answer(r, "failed")
        /\ Discarded(u)
     \/ /\ received[u] = Size(u)
        /\ ~Refuses(u)
        /\ Answer(r, "verified")
        /\ opened' = opened \ {u}
        /\ UNCHANGED <<temps, faults>>
  /\ UNCHANGED <<session, jobs, managerVars, dataVars, torn, targets>>

\* Fault: the temporary file of a failed rename is left.
LeftBehind(u) == UNCHANGED <<temps, opened>>

Dropped(u) == Discarded(u)

Install(r) ==
  LET u == r.upload IN
  /\ stage[r] = "verified"
  /\ \/ /\ targets' = [targets EXCEPT ![Declared[u].target] = u]
        /\ temps' = temps \ {u}
        /\ Answer(r, "ok")
        /\ UNCHANGED <<opened, faults>>
     \/ /\ Fault
        /\ Dropped(u)
        /\ Answer(r, "failed")
        /\ UNCHANGED targets
  /\ UNCHANGED <<session, jobs, managerVars, dataVars, torn>>

Discard(r) ==
  /\ stage[r] = "cancelling"
  /\ Unlocked(r.upload)
  /\ Discarded(r.upload)
  /\ Answer(r, "ok")
  /\ UNCHANGED <<session, jobs, managerVars, dataVars, torn, targets, faults>>

(***************************************************************************)
(* The end of the session: close cancels the context, takes the uploads    *)
(* and resets the counters under the mutex, and then drops one after       *)
(* another.                                                                *)
(***************************************************************************)
EndSession ==
  /\ session = "open"
  /\ session' = "ending"
  /\ UNCHANGED <<jobs, stage, managerVars, dataVars, fileVars, faults>>

Close ==
  /\ session = "ending"
  /\ session' = "closed"
  /\ closing' = uploads
  /\ uploads' = {}
  /\ count' = 0
  /\ reserved' = 0
  /\ UNCHANGED <<jobs, stage, dataVars, fileVars, faults>>

DropUpload(u) ==
  /\ u \in closing
  /\ Unlocked(u)
  /\ Discarded(u)
  /\ closing' = closing \ {u}
  /\ UNCHANGED <<session, jobs, stage, uploads, count, reserved, dataVars, torn, targets, faults>>

Init ==
  /\ session = "open"
  /\ jobs = <<>>
  /\ stage = [r \in Requests |-> "unsent"]
  /\ uploads = {} /\ count = 0 /\ reserved = 0 /\ closing = {}
  /\ temps = {} /\ opened = {} /\ torn = {}
  /\ received = [u \in Uploads |-> 0]
  /\ content = [u \in Uploads |-> {}]
  /\ parked = [u \in Uploads |-> {}]
  /\ targets = [t \in Targets |-> IF t \in Occupied THEN "old" ELSE "none"]
  /\ faults = 0

\* The worker that has the request goes on.
Handle(r) ==
  \/ Create(r) \/ Reserve(r)
  \/ Find(r) \/ RefuseChunk(r) \/ ParkChunk(r) \/ WriteChunk(r)
  \/ ClaimFinish(r) \/ Verify(r) \/ Install(r)
  \/ ClaimCancel(r) \/ Discard(r)

Next ==
  \/ \E r \in Requests : Submit(r) \/ Handle(r)
  \/ Take
  \/ EndSession \/ Close
  \/ \E u \in Uploads : DropUpload(u)

Spec == Init /\ [][Next]_vars

\* The workers and the closing goroutine run; a worker need not take another
\* request when the session is ending.  That some request is handled further is
\* enough, since each takes a few steps only.
Fairness ==
  /\ WF_vars(\E r \in Requests : Handle(r))
  /\ WF_vars(session = "open" /\ Take)
  /\ WF_vars(Close)
  /\ WF_vars(\E u \in Uploads : DropUpload(u))

FairSpec == Spec /\ Fairness
-----------------------------------------------------------------------------
(***************************************************************************)
(* Properties.                                                             *)
(***************************************************************************)

\* The variables hold what their Go types say; a closed session has no registered
\* upload, and only a closed one has uploads to drop.
UploadTypeOK ==
  /\ session \in {"open", "ending", "closed"}
  /\ jobs \in Seq(Requests)
  /\ stage \in [Requests -> BusyStages \cup {"unsent", "queued", "parked", "ok", "failed"}]
  /\ uploads \subseteq Uploads
  /\ IF session = "closed" THEN uploads = {} ELSE closing = {}
  /\ count \in Int
  /\ reserved \in Int
  /\ closing \subseteq Uploads
  /\ temps \subseteq Uploads
  /\ opened \subseteq Uploads
  /\ torn \subseteq Uploads
  /\ received \in [Uploads -> Nat]
  /\ content \in [Uploads -> SUBSET (Nat \X Requests)]
  /\ parked \in [Uploads -> SUBSET Requests]
  /\ targets \in [Targets -> Uploads \cup {"none", "old"}]
  /\ faults \in Nat

\* What counts against the limits is what is registered: every way an upload can
\* end, and the end of the session in the middle of one, gives back its place and
\* its bytes exactly once.
ReservationsMatch ==
  /\ count = Cardinality(uploads)
  /\ reserved = MapThenSumSet(Size, uploads)

Owner(r) == stage[r] \in {"created", "finishing", "verified", "cancelling"}

\* A temporary file on the disk belongs to a registered upload, to a request that
\* installs or removes it, or to the end of the session: none is left behind by a
\* start, a finish or a cancellation that the session's end falls into.
TempFilesOwned ==
  \A u \in temps :
    \/ u \in uploads /\ session # "closed"
    \/ u \in closing
    \/ \E r \in Requests : r.upload = u /\ Owner(r)

Covers(c, n) == c[1] <= n /\ n < c[1] + c[2].len

\* Whatever order two workers bring the chunks in, each byte received comes from one
\* chunk, which stands where its offset says; a chunk is answered with success when
\* it is written and not before; and none is parked that could be written.
UploadInOrder ==
  \A u \in Uploads :
    /\ \A c \in content[u] : c[1] = c[2].at /\ End(c[2]) <= received[u]
    /\ \A n \in 0 .. received[u] - 1 : Cardinality({c \in content[u] : Covers(c, n)}) = 1
    /\ {c[2] : c \in content[u]} =
         {r \in Requests : r.op = "chunk" /\ r.upload = u /\ stage[r] = "ok"}
    /\ \A p \in parked[u] : p.at # received[u]

\* What the limits count and what the files hold are in step with the requests answered.
UploadInvariant == ReservationsMatch /\ UploadInOrder

Ends(u) == {r \in Requests : r.upload = u /\ r.op \in {"finish", "cancel"}}

\* An upload ends once: of requests to finish and to cancel it that different
\* workers have, at most one gets past its lookup, and a file is at its path only
\* after a finish that succeeded.
EndsOnce ==
  \A u \in Uploads :
    /\ \A r, s \in Ends(u) :
         {stage[r], stage[s]} \subseteq {"finishing", "verified", "cancelling", "ok"} => r = s
    /\ \A t \in Targets : targets[t] = u => \E r \in Ends(u) : r.op = "finish" /\ stage[r] = "ok"

\* While the session lasts every request that was taken into the queue is answered,
\* or is a chunk that waits for those before it: no request waits for another that
\* waits for a worker or for a mutex.
RequestsAnswered ==
  []<>(session # "open"
       \/ \A r \in Requests : stage[r] \in {"unsent", "parked", "ok", "failed"})

\* The file that is installed has the bytes that were counted and whose checksum
\* was compared.
InstalledIsWhole == \A t \in Targets : targets[t] \in Uploads => targets[t] \notin torn

\* An upload that was not asked to overwrite takes a place where there is nothing
\* (readme.md:96).
NothingIsReplaced ==
  [][\A t \in Targets : targets'[t] \in Uploads /\ targets'[t] # targets[t] =>
       targets[t] = "none" \/ Declared[targets'[t]].overwrite]_vars
=============================================================================
