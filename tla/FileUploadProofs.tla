------------------------- MODULE FileUploadProofs -------------------------
(***************************************************************************)
(* Theorems about FileUpload, for any uploads, requests, workers and       *)
(* limits: an upload ends once, every temporary file has an owner, the     *)
(* limits count what is registered, and chunks that come in any order put  *)
(* each byte in its place once.                                            *)
(***************************************************************************)
EXTENDS FileUpload, FiniteSetTheorems, WellFoundedInduction, TLAPS

(***************************************************************************)
(* The inductive invariant.  A request is in the queue once, and goes      *)
(* through the stages of its kind; only chunks are parked; the client      *)
(* names an upload only after its start succeeded; and no request to end   *)
(* an upload is past its lookup while the upload is registered.            *)
(***************************************************************************)
Claimed(r) == stage[r] \in {"finishing", "verified", "cancelling", "ok"}

StagesFitRequests ==
  \A r \in Requests :
    /\ stage[r] = "created" => r.op = "start"
    /\ stage[r] \in {"found", "parked"} => r.op = "chunk"
    /\ stage[r] \in {"finishing", "verified"} => r.op = "finish"
    /\ stage[r] = "cancelling" => r.op = "cancel"

QueuedOnce ==
  /\ \A i \in 1 .. Len(jobs) : stage[jobs[i]] = "queued"
  /\ \A i, j \in 1 .. Len(jobs) : jobs[i] = jobs[j] => i = j

ParkedAreChunks == \A u \in Uploads : \A p \in parked[u] : stage[p] = "parked" /\ p.upload = u

UploadIsKnown ==
  /\ \A r \in Requests : r.op # "start" /\ stage[r] # "unsent" => Known(r.upload)
  /\ \A u \in uploads : Known(u)

RegisteredIsUnclaimed == \A u \in uploads : \A r \in Ends(u) : ~Claimed(r)

UploadInv ==
  /\ UploadTypeOK
  /\ StagesFitRequests
  /\ QueuedOnce
  /\ ParkedAreChunks
  /\ UploadIsKnown
  /\ RegisteredIsUnclaimed
  /\ EndsOnce
  /\ TempFilesOwned

ActionStages == BusyStages \cup {"unsent", "queued", "parked", "ok", "failed"}

(***************************************************************************)
(* What steps have in common.                                              *)
(***************************************************************************)

\* No answer is taken back.
AnswersKept == \A r \in Requests : stage[r] = "ok" => stage'[r] = "ok"

LEMMA KnownKept ==
  ASSUME AnswersKept, NEW u, Known(u)
  PROVE  Known(u)'
BY DEF AnswersKept, Known

\* A step that gives no request to end an upload past its lookup, and installs none.
LEMMA EndsKept ==
  ASSUME UploadInv, AnswersKept, targets' = targets,
         \A r \in Requests : r.op \in {"finish", "cancel"} /\ Claimed(r)' => Claimed(r)
  PROVE  EndsOnce'
<1>1. ASSUME NEW u \in Uploads, NEW r \in Ends(u), NEW q \in Ends(u),
             {stage'[r], stage'[q]} \subseteq {"finishing", "verified", "cancelling", "ok"}
      PROVE  r = q
  <2>1. Claimed(r)' /\ Claimed(q)'
    BY <1>1 DEF Claimed
  <2>2. Claimed(r) /\ Claimed(q)
    BY <2>1 DEF Ends
  <2>3. QED
    BY <2>2 DEF UploadInv, EndsOnce, Claimed
<1>2. ASSUME NEW u \in Uploads, NEW t \in Targets, targets'[t] = u
      PROVE  \E r \in Ends(u) : r.op = "finish" /\ stage'[r] = "ok"
  <2>1. PICK r \in Ends(u) : r.op = "finish" /\ stage[r] = "ok"
    BY <1>2 DEF UploadInv, EndsOnce
  <2>2. QED
    BY <2>1 DEF AnswersKept, Ends
<1>3. QED
  BY <1>1, <1>2 DEF EndsOnce, Ends

\* Nor does it register an upload.
LEMMA QuietEnds ==
  ASSUME UploadInv, AnswersKept, uploads' \subseteq uploads, targets' = targets,
         \A r \in Requests : r.op \in {"finish", "cancel"} /\ Claimed(r)' => Claimed(r)
  PROVE  RegisteredIsUnclaimed' /\ EndsOnce'
<1>1. \A u \in uploads : \A r \in Ends(u) : r \in Requests /\ (Claimed(r)' => Claimed(r))
  BY DEF Ends
<1>2. RegisteredIsUnclaimed'
  BY <1>1 DEF UploadInv, RegisteredIsUnclaimed, Ends
<1>3. QED
  BY <1>2, EndsKept

\* A step that makes no temporary file and takes none from its owner.
LEMMA QuietTemps ==
  ASSUME UploadInv, temps' \subseteq temps,
         uploads' = uploads, closing' = closing,
         session' = "closed" => session = "closed",
         \A r \in Requests : Owner(r) => Owner(r)' \/ r.upload \notin temps'
  PROVE  TempFilesOwned'
BY DEF UploadInv, TempFilesOwned

\* A step of one request that is not waiting in the queue, or that takes it from there.
LEMMA OneMoves ==
  ASSUME UploadInv, UploadTypeOK', NEW r \in Requests, NEW s \in ActionStages, Answer(r, s),
         s \notin {"queued", "unsent"},
         stage[r] \notin {"queued", "parked", "ok"},
         s = "created" => r.op = "start",
         s \in {"found", "parked"} => r.op = "chunk",
         s \in {"finishing", "verified"} => r.op = "finish",
         s = "cancelling" => r.op = "cancel",
         stage[r] # "unsent",
         jobs' = jobs,
         \A u \in uploads' : u \in uploads \/ (r.op = "start" /\ r.upload = u /\ s = "ok"),
         \A u \in Uploads : parked'[u] \subseteq parked[u] \cup IF s = "parked" /\ r.upload = u THEN {r} ELSE {}
  PROVE  /\ AnswersKept
         /\ StagesFitRequests'
         /\ QueuedOnce'
         /\ ParkedAreChunks'
         /\ UploadIsKnown'
<1>1. stage' = [stage EXCEPT ![r] = s] /\ stage \in [Requests -> ActionStages]
  BY DEF Answer, UploadInv, UploadTypeOK, ActionStages
<1>2. AnswersKept
  BY <1>1 DEF AnswersKept
<1>3. StagesFitRequests'
  BY <1>1 DEF UploadInv, StagesFitRequests
<1>4. QueuedOnce'
  <2>1. jobs \in Seq(Requests)
    BY DEF UploadInv, UploadTypeOK
  <2>2. \A i \in 1 .. Len(jobs) : jobs[i] \in Requests /\ jobs[i] # r
    BY <2>1 DEF UploadInv, QueuedOnce
  <2>3. QED
    BY <1>1, <2>2 DEF UploadInv, QueuedOnce
<1>5. ParkedAreChunks'
  <2>1. parked \in [Uploads -> SUBSET Requests]
    BY DEF UploadInv, UploadTypeOK
  <2>2. \A u \in Uploads : \A p \in parked[u] : p \in Requests /\ p # r
    BY <2>1 DEF UploadInv, ParkedAreChunks
  <2>3. QED
    BY <1>1, <2>2 DEF UploadInv, ParkedAreChunks
<1>6. UploadIsKnown'
  <2>1. \A q \in Requests : q.op # "start" /\ stage'[q] # "unsent" => Known(q.upload)'
    BY <1>1, <1>2, KnownKept DEF UploadInv, UploadIsKnown
  <2>2. \A u \in uploads' : Known(u)'
    BY <1>1, <1>2, KnownKept DEF UploadInv, UploadIsKnown, Known
  <2>3. QED
    BY <2>1, <2>2 DEF UploadIsKnown
<1>7. QED
  BY <1>2, <1>3, <1>4, <1>5, <1>6

(***************************************************************************)
(* The queue.                                                              *)
(***************************************************************************)
LEMMA SubmitInv ==
  ASSUME UploadInv, NEW r \in Requests, Submit(r)
  PROVE  UploadInv'
<1> USE DEF Submit, Answer, managerVars, dataVars, fileVars
<1>1. UploadTypeOK'
  <2>1. jobs' \in Seq(Requests)
    <3>1. jobs \in Seq(Requests) /\ (jobs' = jobs \/ jobs' = Append(jobs, r))
      BY DEF UploadInv, UploadTypeOK
    <3>2. QED
      BY <3>1
  <2>2. stage' \in [Requests -> ActionStages]
    BY DEF UploadInv, UploadTypeOK, ActionStages
  <2>3. QED
    BY <2>1, <2>2 DEF UploadInv, UploadTypeOK, ActionStages
<1>2. /\ stage[r] = "unsent"
      /\ stage' = [stage EXCEPT ![r] = "queued"] \/ stage' = [stage EXCEPT ![r] = "failed"]
      /\ stage \in [Requests -> ActionStages]
  BY DEF UploadInv, UploadTypeOK, ActionStages
<1>3. AnswersKept
  BY <1>2 DEF AnswersKept
<1>4. StagesFitRequests'
  BY <1>2 DEF UploadInv, StagesFitRequests
<1>5. QueuedOnce'
  <2>1. jobs \in Seq(Requests)
    BY DEF UploadInv, UploadTypeOK
  <2>2. \A i \in 1 .. Len(jobs) : jobs[i] \in Requests /\ jobs[i] # r
    BY <1>2, <2>1 DEF UploadInv, QueuedOnce
  <2>3. CASE UNCHANGED jobs
    BY <1>2, <2>2, <2>3 DEF UploadInv, QueuedOnce
  <2>4. CASE jobs' = Append(jobs, r) /\ stage' = [stage EXCEPT ![r] = "queued"]
    <3>1. /\ Len(jobs') = Len(jobs) + 1
          /\ \A i \in 1 .. Len(jobs) : jobs'[i] = jobs[i]
          /\ jobs'[Len(jobs) + 1] = r
      BY <2>1, <2>4
    <3>2. Len(jobs) \in Nat
      BY <2>1
    <3>3. \A i \in 1 .. Len(jobs') : i \in 1 .. Len(jobs) \/ i = Len(jobs) + 1
      BY <3>1, <3>2
    <3>4. \A i \in 1 .. Len(jobs') : stage'[jobs'[i]] = "queued"
      BY <1>2, <2>2, <2>4, <3>1, <3>3 DEF UploadInv, QueuedOnce
    <3>5. \A i, j \in 1 .. Len(jobs') : jobs'[i] = jobs'[j] => i = j
      BY <2>2, <3>1, <3>3 DEF UploadInv, QueuedOnce
    <3>6. QED
      BY <3>4, <3>5 DEF QueuedOnce
  <2>5. QED
    BY <2>3, <2>4
<1>6. ParkedAreChunks'
  BY <1>2 DEF UploadInv, UploadTypeOK, ParkedAreChunks
<1>7. UploadIsKnown'
  BY <1>2, <1>3, KnownKept DEF UploadInv, UploadIsKnown
<1>8. RegisteredIsUnclaimed' /\ EndsOnce'
  BY <1>2, <1>3, QuietEnds DEF Claimed
<1>9. TempFilesOwned'
  BY <1>2, QuietTemps DEF Owner
<1>10. QED
  BY <1>1, <1>4, <1>5, <1>6, <1>7, <1>8, <1>9 DEF UploadInv

LEMMA TakeInv ==
  ASSUME UploadInv, Take
  PROVE  UploadInv'
<1> DEFINE r == Head(jobs)
<1>1. /\ jobs \in Seq(Requests) /\ jobs # <<>>
      /\ r = jobs[1] /\ r \in Requests /\ Len(jobs) \in Nat \ {0}
  BY DEF Take, UploadInv, UploadTypeOK
<1>2. /\ stage[r] = "queued"
      /\ stage' = [stage EXCEPT ![r] = "taken"] \/ stage' = [stage EXCEPT ![r] = "failed"]
      /\ stage \in [Requests -> ActionStages]
  BY <1>1 DEF Take, Answer, UploadInv, UploadTypeOK, ActionStages, QueuedOnce
<1>3. /\ jobs' = Tail(jobs)
      /\ UNCHANGED <<session, managerVars, dataVars, fileVars, faults>>
  BY DEF Take
<1> HIDE DEF r
<1> USE DEF managerVars, dataVars, fileVars
<1>4. UploadTypeOK'
  <2>1. jobs' \in Seq(Requests)
    BY <1>1, <1>3
  <2>2. stage' \in [Requests -> ActionStages]
    BY <1>1, <1>2 DEF ActionStages, BusyStages
  <2>3. QED
    BY <1>3, <2>1, <2>2 DEF UploadInv, UploadTypeOK, ActionStages
<1>5. AnswersKept
  BY <1>2 DEF AnswersKept
<1>6. StagesFitRequests'
  BY <1>1, <1>2 DEF UploadInv, StagesFitRequests
<1>7. QueuedOnce'
  <2>1. /\ Len(jobs') = Len(jobs) - 1
        /\ \A i \in 1 .. Len(jobs') : jobs'[i] = jobs[i + 1] /\ i + 1 \in 1 .. Len(jobs)
    BY <1>1, <1>3
  <2>2. \A i \in 1 .. Len(jobs') : jobs'[i] \in Requests /\ jobs'[i] # r
    BY <1>1, <2>1 DEF UploadInv, QueuedOnce
  <2>3. \A i \in 1 .. Len(jobs') : stage'[jobs'[i]] = "queued"
    BY <1>2, <2>1, <2>2 DEF UploadInv, QueuedOnce
  <2>4. \A i, j \in 1 .. Len(jobs') : jobs'[i] = jobs'[j] => i = j
    BY <2>1 DEF UploadInv, QueuedOnce
  <2>5. QED
    BY <2>3, <2>4 DEF QueuedOnce
<1>8. ParkedAreChunks'
  BY <1>1, <1>2, <1>3 DEF UploadInv, UploadTypeOK, ParkedAreChunks
<1>9. UploadIsKnown'
  BY <1>2, <1>3, <1>5, KnownKept DEF UploadInv, UploadIsKnown
<1>10. RegisteredIsUnclaimed' /\ EndsOnce'
  BY <1>2, <1>3, <1>5, QuietEnds DEF Claimed
<1>11. TempFilesOwned'
  BY <1>2, <1>3, QuietTemps DEF Owner
<1>12. QED
  BY <1>4, <1>6, <1>7, <1>8, <1>9, <1>10, <1>11 DEF UploadInv

(***************************************************************************)
(* A start.                                                                *)
(***************************************************************************)
LEMMA SizeTyped ==
  ASSUME NEW u \in Uploads
  PROVE  Size(u) \in Nat /\ Declared[u].target \in Targets
BY UploadAssumption DEF Size

LEMMA RequestTyped ==
  ASSUME NEW r \in Requests
  PROVE  r.upload \in Uploads /\ r.at \in Nat /\ r.len \in Nat /\ End(r) \in Nat
<1>1. r \in Request
  BY UploadAssumption
<1>2. QED
  BY <1>1 DEF Request, End

LEMMA CreateInv ==
  ASSUME UploadInv, NEW r \in Requests, Create(r)
  PROVE  UploadInv'
<1> DEFINE u == r.upload
<1> USE DEF managerVars, dataVars
<1>1. /\ u \in Uploads
      /\ r.op = "start" /\ stage[r] = "taken"
      /\ \/ Answer(r, "failed") /\ UNCHANGED <<temps, opened>>
         \/ Answer(r, "created") /\ temps' = temps \cup {u} /\ opened' = opened \cup {u}
      /\ UNCHANGED <<session, jobs, uploads, count, reserved, closing, received, content,
                     parked, torn, targets>>
      /\ faults' \in Nat
  BY RequestTyped DEF Create, Fault, UploadInv, UploadTypeOK
<1> HIDE DEF u
<1>2. /\ stage \in [Requests -> ActionStages] /\ stage' \in [Requests -> ActionStages]
      /\ stage' = [stage EXCEPT ![r] = "failed"] \/ stage' = [stage EXCEPT ![r] = "created"]
  BY <1>1 DEF UploadInv, UploadTypeOK, Answer, ActionStages, BusyStages
<1>3. UploadTypeOK'
  BY <1>1, <1>2 DEF UploadInv, UploadTypeOK, ActionStages
<1>4. AnswersKept /\ StagesFitRequests' /\ QueuedOnce' /\ ParkedAreChunks' /\ UploadIsKnown'
  <2>1. "failed" \in ActionStages /\ "created" \in ActionStages
    BY DEF ActionStages, BusyStages
  <2>2. QED
    BY <1>1, <1>3, <2>1, OneMoves
<1>5. RegisteredIsUnclaimed' /\ EndsOnce'
  BY <1>1, <1>2, <1>4, QuietEnds DEF Claimed
<1>6. TempFilesOwned'
  <2>1. CASE temps' = temps
    BY <1>1, <1>2, <2>1, QuietTemps DEF Owner
  <2>2. CASE Answer(r, "created") /\ temps' = temps \cup {u}
    <3>1. stage' = [stage EXCEPT ![r] = "created"]
      BY <2>2 DEF Answer
    <3>2. Owner(r)' /\ \A q \in Requests : Owner(q) => Owner(q)'
      BY <1>2, <3>1 DEF Owner
    <3>3. QED
      BY <1>1, <2>2, <3>2 DEF UploadInv, TempFilesOwned, u
  <2>3. QED
    BY <1>1, <2>1, <2>2
<1>7. QED
  BY <1>3, <1>4, <1>5, <1>6 DEF UploadInv

LEMMA ReserveInv ==
  ASSUME UploadInv, NEW r \in Requests, Reserve(r)
  PROVE  UploadInv'
<1> DEFINE u == r.upload
<1> USE DEF dataVars
<1>1. /\ u \in Uploads
      /\ r.op = "start" /\ stage[r] = "created"
      /\ \/ /\ session # "closed" /\ uploads' = uploads \cup {u}
            /\ count' = count + 1 /\ reserved' = reserved + Size(u)
            /\ Answer(r, "ok") /\ UNCHANGED <<temps, opened>>
         \/ /\ temps' = temps \ {u} /\ opened' = opened \ {u}
            /\ Answer(r, "failed") /\ UNCHANGED <<uploads, count, reserved>>
      /\ UNCHANGED <<session, jobs, closing, received, content, parked, torn, targets, faults>>
  BY RequestTyped DEF Reserve, Admits, Discarded
<1> HIDE DEF u
<1>2. /\ stage \in [Requests -> ActionStages] /\ stage' \in [Requests -> ActionStages]
      /\ stage' = [stage EXCEPT ![r] = "failed"] \/ stage' = [stage EXCEPT ![r] = "ok"]
  BY <1>1 DEF UploadInv, UploadTypeOK, Answer, ActionStages, BusyStages
<1>3. UploadTypeOK'
  BY <1>1, <1>2, SizeTyped DEF UploadInv, UploadTypeOK, ActionStages
<1>4. AnswersKept /\ StagesFitRequests' /\ QueuedOnce' /\ ParkedAreChunks' /\ UploadIsKnown'
  <2>1. "failed" \in ActionStages /\ "ok" \in ActionStages
    BY DEF ActionStages
  <2>2. CASE Answer(r, "ok") /\ uploads' = uploads \cup {u}
    BY <1>1, <1>3, <2>1, <2>2, OneMoves DEF u
  <2>3. CASE Answer(r, "failed") /\ uploads' = uploads
    BY <1>1, <1>3, <2>1, <2>3, OneMoves
  <2>4. QED
    BY <1>1, <2>2, <2>3
<1>5. ~Known(u)
  \* The start of the upload is this one, and it is not answered yet.
  BY <1>1, RequestAssumption DEF Known, u
<1>6. RegisteredIsUnclaimed' /\ EndsOnce'
  <2>1. \A q \in Requests : q.op \in {"finish", "cancel"} /\ Claimed(q)' => Claimed(q)
    BY <1>1, <1>2 DEF Claimed
  <2>2. CASE uploads' = uploads
    BY <1>1, <1>4, <2>1, <2>2, QuietEnds
  <2>3. CASE uploads' = uploads \cup {u}
    <3>1. \A q \in Ends(u) : q \in Requests /\ stage[q] = "unsent"
      BY <1>5 DEF UploadInv, UploadIsKnown, Ends
    <3>2. \A q \in Ends(u) : ~Claimed(q)'
      BY <2>1, <3>1 DEF Claimed, Ends
    <3>3. \A v \in uploads : \A q \in Ends(v) : ~Claimed(q)'
      BY <2>1 DEF UploadInv, RegisteredIsUnclaimed, Ends
    <3>4. RegisteredIsUnclaimed'
      BY <2>3, <3>2, <3>3 DEF RegisteredIsUnclaimed, Ends
    <3>5. EndsOnce'
      BY <1>1, <1>4, <2>1, EndsKept
    <3>6. QED
      BY <3>4, <3>5
  <2>4. QED
    BY <1>1, <2>2, <2>3
<1>7. TempFilesOwned'
  <2>1. \A q \in Requests : q # r /\ Owner(q) => Owner(q)'
    BY <1>2 DEF Owner
  <2>2. QED
    BY <1>1, <2>1 DEF UploadInv, TempFilesOwned, u
<1>8. QED
  BY <1>3, <1>4, <1>6, <1>7 DEF UploadInv

(***************************************************************************)
(* A chunk.                                                                *)
(***************************************************************************)
\* A step that only answers or moves a request about a chunk.
LEMMA ChunkMoves ==
  ASSUME UploadInv, NEW r \in Requests, NEW s \in {"found", "parked", "failed"}, Answer(r, s),
         r.op = "chunk", stage[r] \in {"taken", "found"},
         UNCHANGED <<session, jobs, managerVars, received, content, fileVars, faults>>,
         parked' = [parked EXCEPT ![r.upload] = @ \cup IF s = "parked" THEN {r} ELSE {}]
  PROVE  UploadInv'
<1> USE DEF managerVars, fileVars
<1>1. /\ stage \in [Requests -> ActionStages] /\ s \in ActionStages
      /\ stage' = [stage EXCEPT ![r] = s] /\ stage' \in [Requests -> ActionStages]
  BY DEF UploadInv, UploadTypeOK, Answer, ActionStages, BusyStages
<1>2. /\ parked' \in [Uploads -> SUBSET Requests]
      /\ \A u \in Uploads : parked'[u] \subseteq parked[u] \cup IF s = "parked" /\ r.upload = u THEN {r} ELSE {}
  BY RequestTyped DEF UploadInv, UploadTypeOK
<1>3. UploadTypeOK'
  BY <1>1, <1>2 DEF UploadInv, UploadTypeOK, ActionStages
<1>4. AnswersKept /\ StagesFitRequests' /\ QueuedOnce' /\ ParkedAreChunks' /\ UploadIsKnown'
  BY <1>1, <1>2, <1>3, OneMoves
<1>5. RegisteredIsUnclaimed' /\ EndsOnce'
  BY <1>1, <1>4, QuietEnds DEF Claimed
<1>6. TempFilesOwned'
  BY <1>1, QuietTemps DEF Owner
<1>7. QED
  BY <1>3, <1>4, <1>5, <1>6 DEF UploadInv

LEMMA FindInv ==
  ASSUME UploadInv, NEW r \in Requests, Find(r)
  PROVE  UploadInv'
<1>1. parked' = [parked EXCEPT ![r.upload] = @ \cup {}]
  BY RequestTyped DEF Find, dataVars, UploadInv, UploadTypeOK
<1>2. QED
  BY <1>1, ChunkMoves DEF Find, dataVars

LEMMA RefuseChunkInv ==
  ASSUME UploadInv, NEW r \in Requests, RefuseChunk(r)
  PROVE  UploadInv'
<1>1. parked' = [parked EXCEPT ![r.upload] = @ \cup {}]
  BY RequestTyped DEF RefuseChunk, dataVars, UploadInv, UploadTypeOK
<1>2. r.op = "chunk"
  BY DEF RefuseChunk, UploadInv, StagesFitRequests
<1>3. QED
  BY <1>1, <1>2, ChunkMoves DEF RefuseChunk, dataVars

LEMMA ParkChunkInv ==
  ASSUME UploadInv, NEW r \in Requests, ParkChunk(r)
  PROVE  UploadInv'
<1>1. r.op = "chunk"
  BY DEF ParkChunk, UploadInv, StagesFitRequests
<1>2. QED
  BY <1>1, ChunkMoves DEF ParkChunk

LEMMA WriteChunkInv ==
  ASSUME UploadInv, NEW r \in Requests, WriteChunk(r)
  PROVE  UploadInv'
<1> DEFINE u == r.upload
           due == {r} \cup Following(u, End(r))
           Wrote(written, bad) ==
             /\ written \subseteq due /\ bad \subseteq due
             /\ torn' \subseteq torn \cup {u} /\ faults' \in Nat
             /\ received' = received
                  \/ \E last \in written : received' = [received EXCEPT ![u] = End(last)]
             /\ content' = [content EXCEPT ![u] =
                   @ \cup {<<IF p = r THEN received[u] ELSE p.at, p>> : p \in written}]
             /\ parked' = [parked EXCEPT ![u] = @ \ (written \cup bad)]
             /\ stage' = [p \in Requests |->
                   IF p \in written THEN "ok" ELSE IF p \in bad THEN "failed" ELSE stage[p]]
<1> USE DEF managerVars
<1>1. /\ u \in Uploads /\ stage[r] = "found" /\ r.op = "chunk"
      /\ stage \in [Requests -> ActionStages]
      /\ parked[u] \subseteq Requests
  BY RequestTyped DEF WriteChunk, UploadInv, UploadTypeOK, StagesFitRequests, ActionStages
<1>2. \A p \in due : p \in Requests /\ p.op = "chunk" /\ p.upload = u /\ (p = r \/ stage[p] = "parked")
  <2>1. Following(u, End(r)) \subseteq parked[u]
    BY DEF Following
  <2>2. QED
    BY <1>1, <2>1 DEF UploadInv, ParkedAreChunks, StagesFitRequests
<1>3. \E written, bad : Wrote(written, bad)
  <2>1. PICK bad \in {{}} \cup {{p} : p \in due} :
          LET written == {p \in due : \A b \in bad : p.at < b.at} IN
          /\ IF u \notin opened
             THEN bad = {r} /\ UNCHANGED <<torn, faults>>
             ELSE IF bad = {}
             THEN UNCHANGED <<torn, faults>>
             ELSE Fault /\ torn' \in {torn, torn \cup {u}}
          /\ \/ written = {} /\ UNCHANGED received
             \/ \E last \in written :
                  /\ \A p \in written : p.at <= last.at
                  /\ received' = [received EXCEPT ![u] = End(last)]
          /\ content' = [content EXCEPT ![u] =
                @ \cup {<<IF p = r THEN received[u] ELSE p.at, p>> : p \in written}]
          /\ parked' = [parked EXCEPT ![u] = @ \ (written \cup bad)]
          /\ stage' = [p \in Requests |->
                IF p \in written THEN "ok" ELSE IF p \in bad THEN "failed" ELSE stage[p]]
    BY DEF WriteChunk
  <2> DEFINE done == {p \in due : \A b \in bad : p.at < b.at}
  <2>2. faults' \in Nat /\ torn' \subseteq torn \cup {u}
    BY <2>1 DEF Fault, UploadInv, UploadTypeOK
  <2>3. done \subseteq due /\ bad \subseteq due
    BY <2>1
  <2>4. received' = received \/ \E last \in done : received' = [received EXCEPT ![u] = End(last)]
    BY <2>1
  <2>5. Wrote(done, bad)
    BY <2>1, <2>2, <2>3, <2>4
  <2> HIDE DEF Wrote
  <2>6. QED
    BY <2>5
<1>4. PICK written, bad : Wrote(written, bad)
  BY <1>3
<1> HIDE DEF due
<1>5. UNCHANGED <<session, jobs, uploads, count, reserved, closing, temps, opened, targets>>
  BY DEF WriteChunk
<1>6. UploadTypeOK'
  <2>1. stage' \in [Requests -> ActionStages]
    BY <1>1, <1>4 DEF ActionStages
  <2>2. received' \in [Uploads -> Nat]
    <3>1. received \in [Uploads -> Nat]
      BY DEF UploadInv, UploadTypeOK
    <3>2. \A last \in written : End(last) \in Nat
      BY <1>2, <1>4, RequestTyped
    <3>3. QED
      BY <1>4, <3>1, <3>2
  <2>3. content' \in [Uploads -> SUBSET (Nat \X Requests)]
    <3>1. {<<IF p = r THEN received[u] ELSE p.at, p>> : p \in written} \subseteq Nat \X Requests
      BY <1>1, <1>2, <1>4, RequestTyped DEF UploadInv, UploadTypeOK
    <3>2. QED
      BY <1>1, <1>4, <3>1 DEF UploadInv, UploadTypeOK
  <2>4. parked' \in [Uploads -> SUBSET Requests]
    BY <1>1, <1>4 DEF UploadInv, UploadTypeOK
  <2>5. QED
    BY <1>1, <1>4, <1>5, <2>1, <2>2, <2>3, <2>4 DEF UploadInv, UploadTypeOK, ActionStages
<1>7. \A p \in Requests :
        \/ stage'[p] = stage[p]
        \/ p \in written \cup bad /\ p.op = "chunk" /\ stage[p] \in {"found", "parked"}
             /\ stage'[p] \in {"ok", "failed"}
  BY <1>1, <1>2, <1>4
<1>8. AnswersKept
  BY <1>7 DEF AnswersKept
<1>9. StagesFitRequests'
  BY <1>7 DEF UploadInv, StagesFitRequests
<1>10. QueuedOnce'
  <2>1. \A i \in 1 .. Len(jobs) : jobs[i] \in Requests
    BY DEF UploadInv, UploadTypeOK
  <2>2. QED
    BY <1>5, <1>7, <2>1 DEF UploadInv, QueuedOnce
<1>11. ParkedAreChunks'
  <2>1. ASSUME NEW v \in Uploads, NEW p \in parked'[v]
        PROVE  stage'[p] = "parked" /\ p.upload = v
    <3>1. p \in parked[v] /\ (v = u => p \notin written \cup bad) /\ p \in Requests
      BY <1>1, <1>4 DEF UploadInv, UploadTypeOK
    <3>2. stage[p] = "parked" /\ p.upload = v
      BY <3>1 DEF UploadInv, ParkedAreChunks
    <3>3. p \notin written \cup bad
      BY <1>2, <1>4, <3>1, <3>2
    <3>4. QED
      BY <1>4, <3>1, <3>2, <3>3
  <2>2. QED
    BY <2>1 DEF ParkedAreChunks
<1>12. UploadIsKnown'
  BY <1>5, <1>7, <1>8, KnownKept DEF UploadInv, UploadIsKnown
<1>13. RegisteredIsUnclaimed' /\ EndsOnce'
  BY <1>5, <1>7, <1>8, QuietEnds DEF Claimed
<1>14. TempFilesOwned'
  BY <1>5, <1>7, QuietTemps DEF Owner
<1>15. QED
  BY <1>6, <1>9, <1>10, <1>11, <1>12, <1>13, <1>14 DEF UploadInv

(***************************************************************************)
(* The end of an upload.                                                   *)
(***************************************************************************)
\* The heart: the lookup takes the upload out of the registered ones, and a
\* registered upload has no other request past its lookup.
LEMMA ClaimInv ==
  ASSUME UploadInv, NEW r \in Requests, NEW s \in {"finishing", "cancelling"},
         r.op = IF s = "finishing" THEN "finish" ELSE "cancel", Claim(r, s)
  PROVE  UploadInv'
<1> DEFINE u == r.upload
<1> USE DEF dataVars, fileVars
<1>1. /\ u \in Uploads /\ stage[r] = "taken"
      /\ \/ /\ u \in uploads /\ uploads' = uploads \ {u}
            /\ count' = count - 1 /\ reserved' = reserved - Size(u)
            /\ Answer(r, s)
         \/ Answer(r, "failed") /\ UNCHANGED <<uploads, count, reserved>>
      /\ UNCHANGED <<session, jobs, closing, received, content, parked, temps, opened, torn,
                     targets, faults>>
  BY RequestTyped DEF Claim, Forget
<1> HIDE DEF u
<1>2. /\ s \in ActionStages /\ "failed" \in ActionStages
      /\ stage \in [Requests -> ActionStages] /\ stage' \in [Requests -> ActionStages]
      /\ stage' = [stage EXCEPT ![r] = "failed"] \/ stage' = [stage EXCEPT ![r] = s]
  BY <1>1 DEF UploadInv, UploadTypeOK, Answer, ActionStages, BusyStages
<1>3. UploadTypeOK'
  BY <1>1, <1>2, SizeTyped DEF UploadInv, UploadTypeOK, ActionStages
<1>4. AnswersKept /\ StagesFitRequests' /\ QueuedOnce' /\ ParkedAreChunks' /\ UploadIsKnown'
  <2>1. CASE Answer(r, s)
    BY <1>1, <1>2, <1>3, <2>1, OneMoves
  <2>2. CASE Answer(r, "failed")
    BY <1>1, <1>2, <1>3, <2>2, OneMoves
  <2>3. QED
    BY <1>1, <2>1, <2>2
<1>5. RegisteredIsUnclaimed' /\ EndsOnce'
  <2>1. CASE stage' = [stage EXCEPT ![r] = "failed"]
    BY <1>1, <1>2, <1>4, <2>1, QuietEnds DEF Claimed
  <2>2. CASE u \in uploads /\ uploads' = uploads \ {u} /\ stage' = [stage EXCEPT ![r] = s]
    <3>1. \A q \in Requests : q # r /\ Claimed(q)' => Claimed(q)
      BY <1>2, <2>2 DEF Claimed
    <3>2. RegisteredIsUnclaimed'
      BY <2>2, <3>1 DEF UploadInv, RegisteredIsUnclaimed, Ends, u
    <3>3. \A q \in Ends(u) : ~Claimed(q)
      BY <2>2 DEF UploadInv, RegisteredIsUnclaimed
    <3>4. ASSUME NEW v \in Uploads, NEW q \in Ends(v), NEW w \in Ends(v),
                 Claimed(q)', Claimed(w)'
          PROVE  q = w
      <4>1. CASE v = u
        BY <3>1, <3>3, <3>4, <4>1 DEF Ends
      <4>2. CASE v # u
        <5>1. q # r /\ w # r
          BY <4>2 DEF Ends, u
        <5>2. Claimed(q) /\ Claimed(w)
          BY <3>1, <3>4, <5>1 DEF Ends
        <5>3. QED
          BY <5>2 DEF UploadInv, EndsOnce, Claimed
      <4>3. QED
        BY <4>1, <4>2
    <3>5. ASSUME NEW v \in Uploads, NEW t \in Targets, targets'[t] = v
          PROVE  \E q \in Ends(v) : q.op = "finish" /\ stage'[q] = "ok"
      <4>1. PICK q \in Ends(v) : q.op = "finish" /\ stage[q] = "ok"
        BY <1>1, <3>5 DEF UploadInv, EndsOnce
      <4>2. QED
        BY <1>4, <4>1 DEF AnswersKept, Ends
    <3>6. EndsOnce'
      BY <3>4, <3>5 DEF EndsOnce, Claimed, Ends
    <3>7. QED
      BY <3>2, <3>6
  <2>3. QED
    BY <1>1, <2>1, <2>2 DEF Answer
<1>6. TempFilesOwned'
  <2>1. \A q \in Requests : Owner(q) => Owner(q)'
    BY <1>1, <1>2 DEF Owner
  <2>2. CASE uploads' = uploads
    BY <1>1, <2>1, <2>2, QuietTemps
  <2>3. CASE uploads' = uploads \ {u} /\ Answer(r, s)
    <3>1. Owner(r)'
      BY <1>2, <2>3 DEF Owner, Answer
    <3>2. QED
      BY <1>1, <2>1, <2>3, <3>1 DEF UploadInv, TempFilesOwned, u
  <2>4. QED
    BY <1>1, <2>2, <2>3
<1>7. QED
  BY <1>3, <1>4, <1>5, <1>6 DEF UploadInv

\* A request that is past its lookup goes on, and removes the temporary file when
\* it lets go of it.
LEMMA EndMoves ==
  ASSUME UploadInv, NEW r \in Requests, NEW s \in {"verified", "failed", "ok"},
         Answer(r, s), Claimed(r), stage[r] # "ok",
         s = "verified" => stage[r] = "finishing",
         UNCHANGED <<session, jobs, managerVars, dataVars, torn>>,
         opened' \subseteq opened, faults' \in Nat,
         temps' = IF s = "verified" THEN temps ELSE temps \ {r.upload},
         targets' = targets \/ (s = "ok" /\ r.op = "finish"
                      /\ targets' = [targets EXCEPT ![Declared[r.upload].target] = r.upload])
  PROVE  UploadInv'
<1> USE DEF managerVars, dataVars
<1>1. /\ s \in ActionStages /\ r.upload \in Uploads
      /\ stage \in [Requests -> ActionStages] /\ stage' \in [Requests -> ActionStages]
      /\ stage' = [stage EXCEPT ![r] = s]
      /\ stage[r] \in {"finishing", "verified", "cancelling"}
      /\ r.op \in {"finish", "cancel"}
  BY RequestTyped DEF UploadInv, UploadTypeOK, Answer, ActionStages, BusyStages, Claimed,
     StagesFitRequests
<1>2. UploadTypeOK'
  <2>1. targets' \in [Targets -> Uploads \cup {"none", "old"}]
    BY <1>1, SizeTyped DEF UploadInv, UploadTypeOK
  <2>2. QED
    BY <1>1, <2>1 DEF UploadInv, UploadTypeOK, ActionStages
<1>3. AnswersKept /\ StagesFitRequests' /\ QueuedOnce' /\ ParkedAreChunks' /\ UploadIsKnown'
  BY <1>1, <1>2, OneMoves DEF UploadInv, StagesFitRequests
<1>4. \A q \in Requests : Claimed(q)' => Claimed(q)
  BY <1>1 DEF Claimed
<1>5. RegisteredIsUnclaimed'
  BY <1>4 DEF UploadInv, RegisteredIsUnclaimed, Ends
<1>6. EndsOnce'
  <2>1. CASE targets' = targets
    BY <1>3, <1>4, <2>1, EndsKept
  <2>2. CASE s = "ok" /\ r.op = "finish"
          /\ targets' = [targets EXCEPT ![Declared[r.upload].target] = r.upload]
    <3>1. ASSUME NEW v \in Uploads, NEW q \in Ends(v), NEW w \in Ends(v),
                 Claimed(q)', Claimed(w)'
          PROVE  q = w
      <4>1. Claimed(q) /\ Claimed(w)
        BY <1>4, <3>1 DEF Ends
      <4>2. QED
        BY <4>1 DEF UploadInv, EndsOnce, Claimed
    <3>2. ASSUME NEW v \in Uploads, NEW t \in Targets, targets'[t] = v
          PROVE  \E q \in Ends(v) : q.op = "finish" /\ stage'[q] = "ok"
      <4>1. CASE v = r.upload
        BY <1>1, <2>2, <4>1 DEF Ends
      <4>2. CASE v # r.upload
        <5>1. targets[t] = v
          BY <2>2, <3>2, <4>2 DEF UploadInv, UploadTypeOK
        <5>2. PICK q \in Ends(v) : q.op = "finish" /\ stage[q] = "ok"
          BY <5>1 DEF UploadInv, EndsOnce
        <5>3. QED
          BY <1>3, <5>2 DEF AnswersKept, Ends
      <4>3. QED
        BY <4>1, <4>2
    <3>3. QED
      BY <3>1, <3>2 DEF EndsOnce, Claimed, Ends
  <2>3. QED
    BY <2>1, <2>2
<1>7. TempFilesOwned'
  <2>1. \A q \in Requests : Owner(q) => Owner(q)' \/ q.upload \notin temps'
    BY <1>1 DEF Owner
  <2>2. QED
    BY <2>1, QuietTemps
<1>8. QED
  BY <1>2, <1>3, <1>5, <1>6, <1>7 DEF UploadInv

LEMMA VerifyInv ==
  ASSUME UploadInv, NEW r \in Requests, Verify(r)
  PROVE  UploadInv'
<1>1. Claimed(r) /\ stage[r] = "finishing"
  BY DEF Verify, Claimed
<1>2. faults' \in Nat
  BY DEF Verify, Fault, UploadInv, UploadTypeOK
<1>3. CASE Answer(r, "failed")
  <2>1. temps' = temps \ {r.upload} /\ opened' = opened \ {r.upload}
    BY <1>1, <1>3 DEF Verify, Discarded, Answer, UploadInv, UploadTypeOK
  <2>2. QED
    BY <1>1, <1>2, <1>3, <2>1, EndMoves DEF Verify
<1>4. CASE Answer(r, "verified")
  <2>1. temps' = temps /\ opened' = opened \ {r.upload}
    BY <1>1, <1>4 DEF Verify, Discarded, Answer, UploadInv, UploadTypeOK
  <2>2. QED
    BY <1>1, <1>2, <1>4, <2>1, EndMoves DEF Verify
<1>5. QED
  BY <1>3, <1>4 DEF Verify

LEMMA InstallInv ==
  ASSUME UploadInv, NEW r \in Requests, Install(r)
  PROVE  UploadInv'
<1>1. Claimed(r) /\ stage[r] = "verified" /\ r.op = "finish"
  BY DEF Install, Claimed, UploadInv, StagesFitRequests
<1>2. faults' \in Nat
  BY DEF Install, Fault, UploadInv, UploadTypeOK
<1>3. CASE /\ targets' = [targets EXCEPT ![Declared[r.upload].target] = r.upload]
           /\ temps' = temps \ {r.upload}
           /\ Answer(r, "ok")
           /\ UNCHANGED opened
  BY <1>1, <1>2, <1>3, EndMoves DEF Install
<1>4. CASE Dropped(r.upload) /\ Answer(r, "failed") /\ UNCHANGED targets
  BY <1>1, <1>2, <1>4, EndMoves DEF Install, Dropped, Discarded
<1>5. QED
  BY <1>3, <1>4 DEF Install

LEMMA DiscardInv ==
  ASSUME UploadInv, NEW r \in Requests, Discard(r)
  PROVE  UploadInv'
<1>1. Claimed(r) /\ stage[r] = "cancelling" /\ faults \in Nat
  BY DEF Discard, Claimed, UploadInv, UploadTypeOK
<1>2. QED
  BY <1>1, EndMoves DEF Discard, Discarded

(***************************************************************************)
(* The end of the session.                                                 *)
(***************************************************************************)
LEMMA SessionInv ==
  ASSUME UploadInv, EndSession \/ Close \/ \E u \in Uploads : DropUpload(u)
  PROVE  UploadInv'
<1> USE DEF managerVars, dataVars, fileVars
<1>1. /\ UNCHANGED <<jobs, stage, received, content, parked, torn, targets, faults>>
      /\ uploads' \subseteq uploads
      /\ count' \in Int /\ reserved' \in Int
      /\ closing' \subseteq Uploads
      /\ temps' \subseteq temps /\ opened' \subseteq opened
      /\ session' \in {"open", "ending", "closed"}
      /\ IF session' = "closed" THEN uploads' = {} ELSE closing' = {}
  BY DEF EndSession, Close, DropUpload, Discarded, UploadInv, UploadTypeOK
<1>2. UploadTypeOK'
  BY <1>1 DEF UploadInv, UploadTypeOK
<1>3. AnswersKept
  BY <1>1 DEF AnswersKept
<1>4. StagesFitRequests' /\ QueuedOnce' /\ ParkedAreChunks'
  BY <1>1 DEF UploadInv, StagesFitRequests, QueuedOnce, ParkedAreChunks
<1>5. UploadIsKnown'
  BY <1>1, <1>3, KnownKept DEF UploadInv, UploadIsKnown
<1>6. RegisteredIsUnclaimed' /\ EndsOnce'
  BY <1>1, <1>3, QuietEnds DEF Claimed
<1>7. TempFilesOwned'
  <2>1. CASE EndSession
    BY <2>1 DEF EndSession, UploadInv, TempFilesOwned, Owner
  <2>2. CASE Close
    BY <2>2 DEF Close, UploadInv, UploadTypeOK, TempFilesOwned, Owner
  <2>3. CASE \E u \in Uploads : DropUpload(u)
    BY <2>3 DEF DropUpload, Discarded, UploadInv, TempFilesOwned, Owner
  <2>4. QED
    BY <2>1, <2>2, <2>3
<1>8. QED
  BY <1>2, <1>4, <1>5, <1>6, <1>7 DEF UploadInv

(***************************************************************************)
(* Sums over sets.  The library's induction theorems take an operator; by  *)
(* the set of the numbers for which the claim holds, that is not needed.   *)
(***************************************************************************)
LEMMA SmallestIsThere ==
  ASSUME NEW T \in SUBSET Nat, T # {}
  PROVE  \E n \in T : \A m \in T : n <= m
<1>1. \A X : X \subseteq Nat /\ X # {} =>
        \E x \in X : \A y \in X : ~ (<<y, x>> \in OpToRel(<, Nat))
  BY NatLessThanWellFounded, WFMin, Zenon
<1>2. \E x \in T : \A y \in T : ~ (<<y, x>> \in OpToRel(<, Nat))
  BY <1>1, Zenon
<1>3. PICK x \in T : \A y \in T : ~ (<<y, x>> \in OpToRel(<, Nat))
  BY <1>2, Zenon
<1>4. \A y \in T : ~ (y < x)
  BY <1>3 DEF OpToRel
<1>5. QED
  BY <1>4

LEMMA AllNumbers ==
  ASSUME NEW G, \A n \in Nat : (\A m \in Nat : m < n => m \in G) => n \in G
  PROVE  Nat \subseteq G
<1> SUFFICES ASSUME Nat \ G # {} PROVE FALSE
  OBVIOUS
<1> DEFINE T == Nat \ G
<1>1. T \in SUBSET Nat /\ T # {}
  OBVIOUS
<1> HIDE DEF T
<1>2. PICK n \in T : \A m \in T : n <= m
  BY <1>1, SmallestIsThere
<1>3. \A m \in Nat : m < n => m \in G
  BY <1>2 DEF T
<1>4. QED
  BY <1>2, <1>3 DEF T

SomeOf(s) == CHOOSE x \in s : TRUE

SumsOf(S) ==
  CHOOSE g : g = [s \in SUBSET S |->
    IF s = {} THEN 0 ELSE Size(SomeOf(s)) + g[s \ {SomeOf(s)}]]

LEMMA SumIs == \A S : MapThenSumSet(Size, S) = SumsOf(S)[S]
BY Zenon DEF MapThenSumSet, MapThenFoldSet, SumsOf, SomeOf

LEMMA AnyIsIn == \A s : s # {} => SomeOf(s) \in s
BY Zenon DEF SomeOf

LEMMA OneLess ==
  ASSUME NEW s, IsFiniteSet(s), s # {}
  PROVE  /\ IsFiniteSet(s \ {SomeOf(s)})
         /\ Cardinality(s) \in Nat /\ Cardinality(s \ {SomeOf(s)}) \in Nat
         /\ Cardinality(s \ {SomeOf(s)}) + 1 = Cardinality(s)
<1>1. SomeOf(s) \in s
  BY AnyIsIn
<1> HIDE DEF SomeOf
<1>2. IsFiniteSet(s \ {SomeOf(s)}) /\ Cardinality(s \ {SomeOf(s)}) = Cardinality(s) - 1
  BY <1>1, FS_RemoveElement
<1>3. QED
  BY <1>2, FS_CardinalityType

\* The recursion has a solution: for sets of n elements from one for smaller ones.
LEMMA SumDefined ==
  ASSUME NEW S, IsFiniteSet(S)
  PROVE  SumsOf(S) = [s \in SUBSET S |->
           IF s = {} THEN 0 ELSE Size(SomeOf(s)) + SumsOf(S)[s \ {SomeOf(s)}]]
<1> DEFINE Upto(n) == {t \in SUBSET S : Cardinality(t) <= n}
           Solves(g, D) == g = [s \in D |-> IF s = {} THEN 0 ELSE Size(SomeOf(s)) + g[s \ {SomeOf(s)}]]
           G == {n \in Nat : \E g : Solves(g, Upto(n))}
<1>1. \A t \in SUBSET S : /\ IsFiniteSet(t) /\ Cardinality(t) \in Nat
                          /\ Cardinality(t) <= Cardinality(S)
                          /\ Cardinality(t) = 0 => t = {}
  BY FS_Subset, FS_CardinalityType, FS_EmptySet
<1>2. 0 \in G
  <2> DEFINE g == [s \in Upto(0) |-> 0]
  <2>1. \A s \in Upto(0) : s = {}
    BY <1>1
  <2>2. Solves(g, Upto(0))
    BY <2>1
  <2> HIDE DEF Solves, Upto
  <2>3. QED
    BY <2>2
<1>3. ASSUME NEW n \in Nat, n \in G PROVE n + 1 \in G
  <2>1. PICK g : Solves(g, Upto(n))
    BY <1>3
  <2> DEFINE h == [s \in Upto(n + 1) |-> IF s = {} THEN 0 ELSE Size(SomeOf(s)) + g[s \ {SomeOf(s)}]]
  <2>2. ASSUME NEW s \in Upto(n + 1), s # {}
        PROVE  s \ {SomeOf(s)} \in Upto(n) /\ s \ {SomeOf(s)} \in Upto(n + 1)
    <3>1. Cardinality(s \ {SomeOf(s)}) + 1 = Cardinality(s) /\ Cardinality(s \ {SomeOf(s)}) \in Nat
      BY <1>1, <2>2, OneLess
    <3>2. QED
      BY <2>2, <3>1
  <2>3. \A t \in Upto(n) : t \in Upto(n + 1) /\ h[t] = g[t]
    <3>1. \A t \in Upto(n) : g[t] = IF t = {} THEN 0 ELSE Size(SomeOf(t)) + g[t \ {SomeOf(t)}]
      BY <2>1
    <3>2. \A t \in Upto(n) : t \in Upto(n + 1)
      BY <1>1
    <3> HIDE DEF Upto
    <3>3. QED
      BY <3>1, <3>2
  <2>4. \A s \in Upto(n + 1) : s # {} => h[s \ {SomeOf(s)}] = g[s \ {SomeOf(s)}]
    BY <2>2, <2>3
  <2>5. h = [s \in Upto(n + 1) |-> IF s = {} THEN 0 ELSE Size(SomeOf(s)) + h[s \ {SomeOf(s)}]]
    <3> HIDE DEF Upto
    <3>1. QED
      BY <2>4
  <2>6. Solves(h, Upto(n + 1))
    BY <2>5
  <2> HIDE DEF Solves, Upto, h
  <2>7. QED
    BY <2>6
<1>4. Nat \subseteq G
  <2> HIDE DEF G
  <2>1. ASSUME NEW n \in Nat, \A m \in Nat : m < n => m \in G
        PROVE  n \in G
    <3>1. CASE n = 0
      BY <1>2, <3>1
    <3>2. CASE n # 0
      <4>1. n - 1 \in Nat /\ n - 1 < n /\ (n - 1) + 1 = n
        BY <3>2
      <4>2. n - 1 \in G
        BY <2>1, <4>1
      <4>3. (n - 1) + 1 \in G
        BY <1>3, <4>1, <4>2
      <4>4. QED
        BY <4>1, <4>3
    <3>3. QED
      BY <3>1, <3>2
  <2>2. QED
    BY <2>1, AllNumbers
<1>5. Cardinality(S) \in G /\ Upto(Cardinality(S)) = SUBSET S
  BY <1>1, <1>4, FS_CardinalityType
<1>6. \E g : g = [s \in SUBSET S |-> IF s = {} THEN 0 ELSE Size(SomeOf(s)) + g[s \ {SomeOf(s)}]]
  BY <1>5
<1>7. QED
  BY <1>6, Zenon DEF SumsOf

\* What it gives for a set depends on the set only.
LEMMA SumLocal ==
  ASSUME NEW S, IsFiniteSet(S), NEW T \in SUBSET S
  PROVE  SumsOf(S)[T] = SumsOf(T)[T]
<1> DEFINE G == {n \in Nat : \A X : \A Y \in SUBSET X :
                   IsFiniteSet(X) /\ Cardinality(Y) = n => SumsOf(X)[Y] = SumsOf(Y)[Y]}
<1>1. ASSUME NEW n \in Nat, \A m \in Nat : m < n => m \in G
      PROVE  n \in G
  <2>1. ASSUME NEW X, NEW Y \in SUBSET X, IsFiniteSet(X), Cardinality(Y) = n
        PROVE  SumsOf(X)[Y] = SumsOf(Y)[Y]
    <3>1. IsFiniteSet(Y)
      BY <2>1, FS_Subset
    <3>2. /\ SumsOf(X)[Y] = IF Y = {} THEN 0 ELSE Size(SomeOf(Y)) + SumsOf(X)[Y \ {SomeOf(Y)}]
          /\ SumsOf(Y)[Y] = IF Y = {} THEN 0 ELSE Size(SomeOf(Y)) + SumsOf(Y)[Y \ {SomeOf(Y)}]
      <4>1. SumsOf(X) = [s \in SUBSET X |->
              IF s = {} THEN 0 ELSE Size(SomeOf(s)) + SumsOf(X)[s \ {SomeOf(s)}]]
        BY <2>1, SumDefined
      <4>2. SumsOf(Y) = [s \in SUBSET Y |->
              IF s = {} THEN 0 ELSE Size(SomeOf(s)) + SumsOf(Y)[s \ {SomeOf(s)}]]
        BY <3>1, SumDefined
      <4>3. Y \in SUBSET Y
        OBVIOUS
      <4>4. SumsOf(X)[Y] = IF Y = {} THEN 0 ELSE Size(SomeOf(Y)) + SumsOf(X)[Y \ {SomeOf(Y)}]
        BY <2>1, <4>1
      <4>5. SumsOf(Y)[Y] = IF Y = {} THEN 0 ELSE Size(SomeOf(Y)) + SumsOf(Y)[Y \ {SomeOf(Y)}]
        BY <4>2, <4>3
      <4>6. QED
        BY <4>4, <4>5
    <3>3. CASE Y = {}
      BY <3>2, <3>3
    <3>4. CASE Y # {}
      <4> DEFINE Z == Y \ {SomeOf(Y)}
      <4>1. Cardinality(Z) \in Nat /\ Cardinality(Z) < n
        BY <2>1, <3>1, <3>4, OneLess
      <4>2. Cardinality(Z) \in G
        BY <1>1, <4>1
      <4>3. Z \in SUBSET X /\ Z \in SUBSET Y
        OBVIOUS
      <4>4. SumsOf(X)[Z] = SumsOf(Z)[Z] /\ SumsOf(Y)[Z] = SumsOf(Z)[Z]
        BY <2>1, <3>1, <4>2, <4>3
      <4>5. QED
        BY <3>2, <3>4, <4>4
    <3>5. QED
      BY <3>3, <3>4
  <2>2. QED
    BY <2>1
<1> HIDE DEF G
<1>2. Nat \subseteq G
  BY <1>1, AllNumbers
<1>3. IsFiniteSet(T) /\ Cardinality(T) \in G
  BY <1>2, FS_Subset, FS_CardinalityType
<1>4. QED
  BY <1>3 DEF G

Bytes(S) == MapThenSumSet(Size, S)

LEMMA SumUnfolds ==
  ASSUME NEW S, IsFiniteSet(S), S # {}
  PROVE  Bytes(S) = Size(SomeOf(S)) + Bytes(S \ {SomeOf(S)})
<1>1. SumsOf(S) = [s \in SUBSET S |->
              IF s = {} THEN 0 ELSE Size(SomeOf(s)) + SumsOf(S)[s \ {SomeOf(s)}]]
  BY SumDefined
<1>2. SumsOf(S)[S] = Size(SomeOf(S)) + SumsOf(S)[S \ {SomeOf(S)}]
  BY <1>1
<1>3. SumsOf(S)[S \ {SomeOf(S)}] = SumsOf(S \ {SomeOf(S)})[S \ {SomeOf(S)}]
  BY SumLocal
<1>4. QED
  BY <1>2, <1>3, SumIs DEF Bytes

LEMMA SumOfNone == Bytes({}) = 0
<1>1. SumsOf({}) = [s \in SUBSET {} |->
              IF s = {} THEN 0 ELSE Size(SomeOf(s)) + SumsOf({})[s \ {SomeOf(s)}]]
  BY SumDefined, FS_EmptySet
<1>2. SumsOf({})[{}] = 0
  BY <1>1
<1>3. QED
  BY <1>2, SumIs DEF Bytes

\* In whatever order the sum is taken, one more upload adds its size.
LEMMA SumStep ==
  ASSUME NEW S \in SUBSET Uploads, IsFiniteSet(S), NEW u \in Uploads, u \notin S
  PROVE  /\ Bytes(S) \in Int
         /\ Bytes(S \cup {u}) = Bytes(S) + Size(u)
<1> DEFINE Adds(X, v) == Bytes(X) \in Int /\ Bytes(X \cup {v}) = Bytes(X) + Size(v)
           G == {n \in Nat : \A X \in SUBSET Uploads : \A v \in Uploads :
                   IsFiniteSet(X) /\ v \notin X /\ Cardinality(X) = n => Adds(X, v)}
<1>1. ASSUME NEW n \in Nat, \A m \in Nat : m < n => m \in G
      PROVE  n \in G
  <2>1. ASSUME NEW X \in SUBSET Uploads, NEW v \in Uploads,
               IsFiniteSet(X), v \notin X, Cardinality(X) = n
        PROVE  Adds(X, v)
    <3> DEFINE Y == X \cup {v}
               x == SomeOf(Y)
    <3>1. IsFiniteSet(Y) /\ Y # {} /\ x \in Y
      BY <2>1, FS_AddElement, AnyIsIn
    <3>2. Bytes(Y) = Size(x) + Bytes(Y \ {x})
      BY <3>1, SumUnfolds
    <3>3. Bytes(X) \in Int
      <4>1. CASE X = {}
        BY <4>1, SumOfNone
      <4>2. CASE X # {}
        <5>1. Bytes(X) = Size(SomeOf(X)) + Bytes(X \ {SomeOf(X)})
          BY <2>1, <4>2, SumUnfolds
        <5>2. SomeOf(X) \in X /\ SomeOf(X) \in Uploads
          BY <4>2, AnyIsIn
        <5>3. /\ IsFiniteSet(X \ {SomeOf(X)}) /\ Cardinality(X \ {SomeOf(X)}) \in Nat
              /\ Cardinality(X \ {SomeOf(X)}) < n
          BY <2>1, <4>2, OneLess
        <5>4. Adds(X \ {SomeOf(X)}, SomeOf(X))
          BY <1>1, <5>2, <5>3
        <5>5. QED
          <6>1. Size(SomeOf(X)) \in Nat
            BY <5>2, SizeTyped
          <6>2. QED
            BY <5>1, <5>4, <6>1
      <4>3. QED
        BY <4>1, <4>2
    <3>4. CASE x = v
      <4>1. Y \ {x} = X
        BY <2>1, <3>4
      <4>2. QED
        <5>1. Size(v) \in Nat
          BY SizeTyped
        <5>2. Bytes(X \cup {v}) = Size(v) + Bytes(X)
          BY <3>2, <3>4, <4>1
        <5>3. QED
          BY <3>3, <5>1, <5>2
    <3>5. CASE x # v
      <4> DEFINE Z == X \ {x}
      <4>1. x \in X /\ x \in Uploads
        BY <3>1, <3>5
      <4>2. Y \ {x} = Z \cup {v} /\ X = Z \cup {x} /\ v \notin Z /\ x \notin Z /\ Z \in SUBSET Uploads
        BY <2>1, <3>5, <4>1
      <4>3. IsFiniteSet(Z) /\ Cardinality(Z) \in Nat /\ Cardinality(Z) < n
        <5>1. IsFiniteSet(Z) /\ Cardinality(Z) = Cardinality(X) - 1
          BY <2>1, <4>1, FS_RemoveElement
        <5>2. Cardinality(Z) \in Nat
          BY <5>1, FS_CardinalityType
        <5>3. QED
          BY <2>1, <5>1, <5>2
      <4>4. Adds(Z, v) /\ Adds(Z, x)
        BY <1>1, <4>1, <4>2, <4>3
      <4>5. Bytes(Y \ {x}) = Bytes(Z) + Size(v) /\ Bytes(X) = Bytes(Z) + Size(x) /\ Bytes(Z) \in Int
        BY <4>2, <4>4
      <4>6. QED
        <5>1. Size(x) \in Nat /\ Size(v) \in Nat
          BY <4>1, SizeTyped
        <5>2. QED
          BY <3>2, <3>3, <4>5, <5>1
    <3>6. QED
      BY <3>4, <3>5
  <2>2. QED
    BY <2>1
<1> HIDE DEF G
<1>2. Nat \subseteq G
  BY <1>1, AllNumbers
<1>3. Cardinality(S) \in G
  BY <1>2, FS_CardinalityType
<1>4. QED
  BY <1>3 DEF G

(***************************************************************************)
(* What counts against the limits: a start registers an upload that was    *)
(* not registered, a claim takes out one that was, and close all of them.  *)
(***************************************************************************)
CountInv ==
  /\ IsFiniteSet(uploads)
  /\ count = Cardinality(uploads)
  /\ reserved = Bytes(uploads)

LEMMA ReserveCounts ==
  ASSUME UploadInv, CountInv, NEW r \in Requests, Reserve(r)
  PROVE  CountInv'
<1>1. CASE UNCHANGED <<uploads, count, reserved>>
  BY <1>1 DEF CountInv, Bytes
<1>2. CASE /\ uploads' = uploads \cup {r.upload}
           /\ count' = count + 1
           /\ reserved' = reserved + Size(r.upload)
  <2>1. ~Known(r.upload)
    BY RequestAssumption DEF Reserve, Known
  <2>2. /\ uploads \in SUBSET Uploads /\ r.upload \in Uploads /\ r.upload \notin uploads
        /\ IsFiniteSet(uploads)
    BY <2>1, RequestTyped DEF UploadInv, UploadTypeOK, UploadIsKnown, CountInv
  <2>3. IsFiniteSet(uploads') /\ Cardinality(uploads') = Cardinality(uploads) + 1
    BY <1>2, <2>2, FS_AddElement
  <2>4. Bytes(uploads \cup {r.upload}) = Bytes(uploads) + Size(r.upload)
    BY <2>2, SumStep
  <2>5. Bytes(uploads') = Bytes(uploads \cup {r.upload})
    BY <1>2
  <2>6. QED
    BY <1>2, <2>3, <2>4, <2>5 DEF CountInv
<1>3. QED
  BY <1>1, <1>2 DEF Reserve

LEMMA ClaimCounts ==
  ASSUME UploadInv, CountInv, NEW r \in Requests, NEW s, Claim(r, s)
  PROVE  CountInv'
<1>1. CASE UNCHANGED <<uploads, count, reserved>>
  BY <1>1 DEF CountInv
<1>2. CASE r.upload \in uploads /\ Forget(r.upload)
  <2> DEFINE u == r.upload
             rest == uploads \ {u}
  <2>1. /\ u \in Uploads /\ u \in uploads /\ uploads \subseteq Uploads /\ IsFiniteSet(uploads)
        /\ uploads' = rest /\ count' = count - 1 /\ reserved' = reserved - Size(u)
    BY <1>2, RequestTyped DEF Forget, UploadInv, UploadTypeOK, CountInv
  <2>2. IsFiniteSet(rest) /\ Cardinality(rest) = Cardinality(uploads) - 1
    BY <2>1, FS_RemoveElement
  <2>3. rest \in SUBSET Uploads /\ u \notin rest /\ rest \cup {u} = uploads
    BY <2>1
  <2> HIDE DEF rest, u
  <2>4. Bytes(rest) \in Int /\ Bytes(rest \cup {u}) = Bytes(rest) + Size(u)
    BY <2>1, <2>2, <2>3, SumStep
  <2>5. Bytes(uploads) = Bytes(rest) + Size(u) /\ Bytes(uploads') = Bytes(rest)
    BY <2>1, <2>3, <2>4
  <2>6. Size(u) \in Nat
    BY <2>1, SizeTyped
  <2>7. QED
    BY <2>1, <2>2, <2>4, <2>5, <2>6 DEF CountInv
<1>3. QED
  BY <1>1, <1>2 DEF Claim

LEMMA CountStep == UploadInv /\ CountInv /\ [Next]_vars => CountInv'
<1> SUFFICES ASSUME UploadInv, CountInv, [Next]_vars PROVE CountInv'
  OBVIOUS
<1>1. CASE UNCHANGED <<uploads, count, reserved>>
  BY <1>1 DEF CountInv
<1>2. ASSUME NEW r \in Requests, Submit(r) \/ Handle(r) PROVE CountInv'
  <2>1. CASE Reserve(r)
    BY <2>1, ReserveCounts
  <2>2. CASE ClaimFinish(r) \/ ClaimCancel(r)
    BY <2>2, ClaimCounts DEF ClaimFinish, ClaimCancel
  <2>3. CASE \/ Submit(r) \/ Create(r) \/ Find(r) \/ RefuseChunk(r) \/ ParkChunk(r)
             \/ WriteChunk(r) \/ Verify(r) \/ Install(r) \/ Discard(r)
    BY <1>1, <2>3 DEF Submit, Create, Find, RefuseChunk, ParkChunk, WriteChunk, Verify, Install,
       Discard, managerVars
  <2>4. QED
    BY <1>2, <2>1, <2>2, <2>3 DEF Handle
<1>3. CASE Close
  BY <1>3, FS_EmptySet, SumOfNone DEF Close, CountInv
<1>4. CASE Take \/ EndSession \/ \E u \in Uploads : DropUpload(u)
  BY <1>1, <1>4 DEF Take, EndSession, DropUpload, managerVars
<1>5. CASE UNCHANGED vars
  BY <1>1, <1>5 DEF vars, managerVars
<1>6. QED
  BY <1>2, <1>3, <1>4, <1>5 DEF Next

LEMMA CountInit == Init => CountInv
BY FS_EmptySet, SumOfNone DEF Init, CountInv

(***************************************************************************)
(* What the files hold.  Each byte received is in one chunk only, and of   *)
(* the parked chunks no two start at the same place.                       *)
(***************************************************************************)
InPlace(u) == \A c \in content[u] : c[1] = c[2].at /\ End(c[2]) <= received[u]

OneCovers(C, n) == \E c \in C : {d \in C : Covers(d, n)} = {c}

WrittenOnce(u) == \A n \in 0 .. received[u] - 1 : OneCovers(content[u], n)

AnsweredWhenWritten(u) ==
  {c[2] : c \in content[u]} =
    {r \in Requests : r.op = "chunk" /\ r.upload = u /\ stage[r] = "ok"}

ParkedApart(u) ==
  /\ \A p \in parked[u] : p.at # received[u]
  /\ \A p, q \in parked[u] : p.at = q.at => p = q

OrderInv ==
  \A u \in Uploads : InPlace(u) /\ WrittenOnce(u) /\ AnsweredWhenWritten(u) /\ ParkedApart(u)

\* A step that writes and parks no chunk answers none with success.
LEMMA QuietOrder ==
  ASSUME OrderInv, UNCHANGED <<received, content, parked>>,
         \A r \in Requests : r.op = "chunk" => (stage[r] = "ok" <=> stage'[r] = "ok")
  PROVE  OrderInv'
<1>1. \A u \in Uploads : InPlace(u)' /\ WrittenOnce(u)' /\ ParkedApart(u)'
  BY DEF OrderInv, InPlace, WrittenOnce, OneCovers, ParkedApart
<1>2. \A u \in Uploads : AnsweredWhenWritten(u)'
  BY DEF OrderInv, AnsweredWhenWritten
<1>3. QED
  BY <1>1, <1>2 DEF OrderInv

LEMMA ParkChunkOrder ==
  ASSUME UploadInv, OrderInv, NEW r \in Requests, ParkChunk(r)
  PROVE  OrderInv'
<1> DEFINE u == r.upload
<1>1. /\ u \in Uploads /\ stage[r] = "found" /\ r.at \in Nat
      /\ parked \in [Uploads -> SUBSET Requests] /\ received[u] \in Nat
      /\ parked' = [parked EXCEPT ![u] = @ \cup {r}]
      /\ stage \in [Requests -> ActionStages] /\ stage' = [stage EXCEPT ![r] = "parked"]
      /\ UNCHANGED <<received, content>>
  BY RequestTyped DEF ParkChunk, Answer, UploadInv, UploadTypeOK, ActionStages
<1>2. r.at # received[u] /\ \A p \in parked[u] : p.at # r.at
  BY <1>1 DEF ParkChunk, Behind, NoPlace
<1>3. \A v \in Uploads : InPlace(v)' /\ WrittenOnce(v)'
  BY <1>1 DEF OrderInv, InPlace, WrittenOnce, OneCovers
<1>4. \A v \in Uploads : AnsweredWhenWritten(v)'
  BY <1>1 DEF OrderInv, AnsweredWhenWritten
<1>5. \A v \in Uploads : ParkedApart(v)'
  BY <1>1, <1>2 DEF OrderInv, ParkedApart
<1>6. QED
  BY <1>3, <1>4, <1>5 DEF OrderInv

(***************************************************************************)
(* The chunks that follow on one another.  Those parked for an upload      *)
(* start at different places; R has the places that the walk of            *)
(* WriteChunk reaches from an offset, and F the chunks it finds there.     *)
(***************************************************************************)
Tiles(P, from, F, R) ==
  /\ R \subseteq Nat /\ from \in R
  /\ F = {p \in P : p.at >= from /\ p.at \in R}
  /\ \A n \in R : n >= from
  /\ \A p \in F : End(p) \in R
  /\ \A n \in R : \A m \in from .. n - 1 : \E p \in F : p.at <= m /\ m < End(p) /\ End(p) <= n
  /\ \A n \in R : \A p \in F : ~ (p.at < n /\ n < End(p))

\* The walk of the recursion reaches a set of places that is closed under its steps
\* and has no other ones: the least closed set is such a set.
Reach(P, from, g) ==
  g = [n \in Nat |-> n = from \/ \E p \in P : p.at >= from /\ End(p) = n /\ g[p.at]]

LEMMA ReachDefined ==
  ASSUME NEW P, \A p \in P : p.at \in Nat /\ End(p) \in Nat, NEW from \in Nat
  PROVE  \E g : Reach(P, from, g)
<1> DEFINE Closed(T) == from \in T /\ \A p \in P : p.at >= from /\ p.at \in T => End(p) \in T
           S == {n \in Nat : \A T \in SUBSET Nat : Closed(T) => n \in T}
           T0 == {n \in Nat : n = from \/ \E p \in P : p.at >= from /\ End(p) = n /\ p.at \in S}
           g == [n \in Nat |-> n \in S]
<1>1. Closed(S)
  OBVIOUS
<1>2. T0 \subseteq S
  BY <1>1
<1>3. Closed(T0) /\ T0 \in SUBSET Nat
  BY <1>2
<1>4. S = T0
  BY <1>2, <1>3
<1> HIDE DEF S, Closed
<1>5. \A n \in Nat : (n \in S) = (n = from \/ \E p \in P : p.at >= from /\ End(p) = n /\ p.at \in S)
  BY <1>4
<1> HIDE DEF T0
<1>6. \A p \in P : g[p.at] = (p.at \in S)
  OBVIOUS
<1>7. \A n \in Nat : (n \in S) = (n = from \/ \E p \in P : p.at >= from /\ End(p) = n /\ g[p.at])
  BY <1>5, <1>6
<1>8. g = [n \in Nat |-> n = from \/ \E p \in P : p.at >= from /\ End(p) = n /\ g[p.at]]
  BY <1>7
<1> HIDE DEF g
<1>9. QED
  BY <1>8 DEF Reach

LEMMA FollowingTiles ==
  ASSUME NEW u \in Uploads, NEW from \in Nat, parked[u] \subseteq Requests,
         \A p \in parked[u] : p.len > 0,
         \A p, q \in parked[u] : p.at = q.at => p = q
  PROVE  \E R : Tiles(parked[u], from, Following(u, from), R)
<1> DEFINE P == parked[u]
           F == Following(u, from)
<1>1. \A p \in P : p.at \in Nat /\ End(p) \in Nat /\ p.at < End(p)
  <2>1. \A p \in P : p.at \in Nat /\ p.len \in Nat /\ p.len > 0 /\ End(p) = p.at + p.len
    BY RequestTyped DEF End
  <2>2. QED
    BY <2>1
<1>2. PICK g : Reach(P, from, g) /\ F = {p \in P : p.at >= from /\ g[p.at]}
  <2>1. Reach(P, from, CHOOSE g : Reach(P, from, g))
    BY <1>1, ReachDefined, Zenon
  <2>2. F = {p \in P : p.at >= from /\ (CHOOSE g : Reach(P, from, g))[p.at]}
    BY Zenon DEF Following, Reach
  <2>3. QED
    BY <2>1, <2>2
<1> DEFINE R == {n \in Nat : g[n]}
<1>3. \A n \in Nat : n \in R <=> n = from \/ \E p \in P : p.at >= from /\ End(p) = n /\ p.at \in R
  BY <1>1, <1>2 DEF Reach
<1>4. F = {p \in P : p.at >= from /\ p.at \in R}
  BY <1>1, <1>2
<1>5. R \subseteq Nat
  OBVIOUS
<1>6. \A p, q \in P : p.at = q.at => p = q
  OBVIOUS
<1> HIDE DEF R, F, P
<1>7. from \in R /\ \A p \in F : p \in P /\ p.at \in R /\ End(p) \in R
  BY <1>1, <1>3, <1>4
<1> DEFINE Filled(n) == n >= from /\ \A m \in from .. n - 1 : \E p \in F : p.at <= m /\ m < End(p) /\ End(p) <= n
           Inside(n) == \E p \in F : p.at < n /\ n < End(p)
<1>8. \A n \in R : Filled(n)
  <2> DEFINE G == {n \in Nat : n \in R => Filled(n)}
  <2>1. ASSUME NEW n \in Nat, \A m \in Nat : m < n => m \in G
        PROVE  n \in G
    <3>1. SUFFICES ASSUME n \in R PROVE Filled(n)
      OBVIOUS
    <3>2. CASE n = from
      BY <3>2
    <3>3. CASE n # from
      <4>1. PICK q \in P : q.at >= from /\ End(q) = n /\ q.at \in R
        BY <1>3, <3>1, <3>3
      <4>2. q \in F /\ q.at \in Nat /\ q.at < n
        BY <1>1, <1>4, <4>1
      <4>3. Filled(q.at)
        BY <2>1, <4>1, <4>2
      <4>4. ASSUME NEW m \in from .. n - 1
            PROVE  \E p \in F : p.at <= m /\ m < End(p) /\ End(p) <= n
        <5>1. CASE m < q.at
          <6>1. PICK p \in F : p.at <= m /\ m < End(p) /\ End(p) <= q.at
            BY <4>2, <4>3, <5>1
          <6>2. End(p) \in Nat
            BY <1>1, <1>7
          <6>3. QED
            BY <4>2, <6>1, <6>2
        <5>2. CASE q.at <= m
          BY <4>1, <4>2, <5>2
        <5>3. QED
          BY <4>2, <5>1, <5>2
      <4>5. QED
        BY <4>1, <4>2, <4>4
    <3>4. QED
      BY <3>2, <3>3
  <2> HIDE DEF G
  <2>2. Nat \subseteq G
    BY <2>1, AllNumbers
  <2>3. QED
    BY <1>5, <2>2 DEF G
<1>9. \A n \in R : ~Inside(n)
  <2> DEFINE G == {n \in Nat : n \in R => ~Inside(n)}
  <2>1. ASSUME NEW n \in Nat, \A m \in Nat : m < n => m \in G
        PROVE  n \in G
    <3>1. SUFFICES ASSUME n \in R, NEW p \in F, p.at < n, n < End(p) PROVE FALSE
      OBVIOUS
    <3>2. p \in P /\ p.at \in Nat /\ p.at >= from /\ p.at \in R
      BY <1>1, <1>4
    <3>3. PICK q \in P : q.at >= from /\ End(q) = n /\ q.at \in R
      BY <1>3, <3>1, <3>2
    <3>4. q \in F /\ q.at \in Nat /\ q.at < n
      BY <1>1, <1>4, <3>3
    <3>5. ~Inside(q.at) /\ ~Inside(p.at)
      BY <2>1, <3>1, <3>2, <3>3, <3>4
    <3>6. End(p) \in Nat
      BY <1>1, <3>2
    <3>7. CASE p.at < q.at
      BY <3>1, <3>4, <3>5, <3>6, <3>7
    <3>8. CASE q.at < p.at
      BY <3>1, <3>3, <3>4, <3>5, <3>8
    <3>9. CASE p.at = q.at
      BY <1>6, <3>1, <3>2, <3>3, <3>9
    <3>10. QED
      BY <3>2, <3>4, <3>7, <3>8, <3>9
  <2> HIDE DEF G
  <2>2. Nat \subseteq G
    BY <2>1, AllNumbers
  <2>3. QED
    BY <1>5, <2>2 DEF G
<1>10. Tiles(P, from, F, R)
  BY <1>4, <1>5, <1>7, <1>8, <1>9 DEF Tiles
<1>11. QED
  BY <1>10 DEF P, F

\* A request r that is written with those of F up to one that fails, if one does;
\* the last of them starts behind the others.
Writing(r, P, F, R, bad, written, last) ==
  /\ r \in Requests /\ P \in SUBSET Requests
  /\ r.len > 0 /\ \A p \in P : p.len > 0
  /\ \A p, q \in P : p.at = q.at => p = q
  /\ Tiles(P, End(r), F, R)
  /\ bad \in {{}} \cup {{p} : p \in {r} \cup F}
  /\ written = {p \in {r} \cup F : \A b \in bad : p.at < b.at}
  /\ last \in written
  /\ \A p \in written : p.at <= last.at

\* What is written is it and those of F that start before the end of the last one,
\* and of the parked chunks one at most starts there: the one that failed.
LEMMA WritesUpTo ==
  ASSUME NEW r, NEW P, NEW F, NEW R, NEW bad, NEW written, NEW last,
         Writing(r, P, F, R, bad, written, last)
  PROVE  /\ End(last) \in R
         /\ written = {r} \cup {p \in F : p.at < End(last)}
         /\ \A p \in P : p.at = End(last) => bad = {p}
<1> DEFINE N == End(last)
<1> USE DEF Writing
<1>1. \A p \in {r} \cup P : p.at \in Nat /\ End(p) \in Nat /\ p.at < End(p)
  <2>1. \A p \in {r} \cup P : p.at \in Nat /\ p.len \in Nat /\ p.len > 0 /\ End(p) = p.at + p.len
    BY RequestTyped DEF End
  <2>2. QED
    BY <2>1
<1>2. /\ \A p \in F : p \in P /\ p.at >= End(r) /\ p.at \in R /\ End(p) \in R
      /\ \A p \in P : p.at \in R => p \in F
      /\ End(r) \in R /\ R \subseteq Nat /\ \A n \in R : n >= End(r)
      /\ \A n \in R : \A p \in F : ~ (p.at < n /\ n < End(p))
  BY DEF Tiles
<1>3. N \in R /\ \A p \in written : p.at < N
  <2>1. last \in {r} \cup F /\ written \subseteq {r} \cup F
    OBVIOUS
  <2>2. N \in R
    BY <1>2, <2>1
  <2>3. \A p \in written : p.at < N
    BY <1>1, <1>2, <2>1
  <2>4. QED
    BY <2>2, <2>3
<1>4. CASE bad = {}
  <2>1. written = {r} \cup F
    BY <1>4
  <2>2. written = {r} \cup {p \in F : p.at < N}
    BY <1>3, <2>1
  <2>3. \A p \in P : p.at # N
    <3>1. ASSUME NEW p \in P, p.at = N PROVE FALSE
      <4>1. p \in F
        BY <1>2, <1>3, <3>1
      <4>2. p.at < N /\ p.at \in Nat
        BY <1>1, <1>3, <2>1, <4>1
      <4>3. QED
        BY <3>1, <4>2
    <3>2. QED
      BY <3>1
  <2>4. QED
    BY <1>3, <2>2, <2>3
<1>5. ASSUME NEW b \in {r} \cup F, bad = {b} PROVE
        /\ N \in R
        /\ written = {r} \cup {p \in F : p.at < N}
        /\ \A p \in P : p.at = N => bad = {p}
  <2>1. written = {p \in {r} \cup F : p.at < b.at}
    BY <1>5
  <2>2. b # r /\ b \in F
    BY <1>1, <1>2, <2>1
  <2>3. b.at \in R /\ b.at \in Nat /\ b.at >= End(r) /\ last.at < b.at
    BY <1>1, <1>2, <2>1, <2>2
  <2>4. N = b.at
    <3>1. CASE b.at = End(r)
      <4>1. last = r
        BY <1>1, <1>2, <2>1, <3>1
      <4>2. QED
        BY <3>1, <4>1
    <3>2. CASE b.at # End(r)
      <4>1. b.at - 1 \in End(r) .. b.at - 1
        BY <1>1, <2>3, <3>2
      <4>2. PICK p \in F : p.at <= b.at - 1 /\ b.at - 1 < End(p) /\ End(p) <= b.at
        BY <2>3, <4>1 DEF Tiles
      <4>3. p \in P /\ p.at \in Nat /\ End(p) = b.at /\ p.at < b.at
        BY <1>1, <1>2, <2>3, <4>2
      <4>4. p \in written
        BY <2>1, <4>2, <4>3
      <4>5. last \in F /\ last \in P /\ last.at \in Nat /\ last.at \in R /\ p.at <= last.at
        BY <1>1, <1>2, <4>2, <4>3, <4>4
      <4>6. ~ (p.at < last.at)
        BY <1>2, <2>3, <4>2, <4>3, <4>5
      <4>7. p = last
        BY <4>3, <4>5, <4>6
      <4>8. QED
        BY <4>3, <4>7
    <3>3. QED
      BY <3>1, <3>2
  <2>5. r.at < b.at
    BY <1>1, <2>3
  <2>6. written = {r} \cup {p \in F : p.at < N}
    BY <2>1, <2>4, <2>5
  <2>7. \A p \in P : p.at = N => bad = {p}
    BY <1>2, <1>5, <2>2, <2>4
  <2>8. QED
    BY <1>3, <2>6, <2>7
<1>6. QED
  BY <1>4, <1>5

LEMMA WriteChunkOrder ==
  ASSUME UploadInv, OrderInv, NEW r \in Requests, WriteChunk(r)
  PROVE  OrderInv'
<1> DEFINE u == r.upload
           P == parked[u]
           F == Following(u, End(r))
           at == received[u]
<1>1. /\ u \in Uploads /\ r.op = "chunk" /\ stage[r] = "found" /\ r.at = at /\ at \in Nat
      /\ received \in [Uploads -> Nat] /\ content \in [Uploads -> SUBSET (Nat \X Requests)]
      /\ parked \in [Uploads -> SUBSET Requests]
  BY RequestTyped DEF WriteChunk, Misplaced, Behind, UploadInv, UploadTypeOK, StagesFitRequests
<1>2. /\ P \in SUBSET Requests
      /\ \A p \in P : p.op = "chunk" /\ p.upload = u /\ stage[p] = "parked" /\ p.len > 0 /\ p.at # at
      /\ \A p, q \in P : p.at = q.at => p = q
      /\ r.len > 0
  BY <1>1, RequestAssumption DEF UploadInv, ParkedAreChunks, StagesFitRequests, OrderInv, ParkedApart
<1>3. PICK bad \in {{}} \cup {{p} : p \in {r} \cup F} :
        LET written == {p \in {r} \cup F : \A b \in bad : p.at < b.at} IN
        /\ u \notin opened => bad = {r}
        /\ \/ written = {} /\ UNCHANGED received
           \/ \E last \in written :
                /\ \A p \in written : p.at <= last.at
                /\ received' = [received EXCEPT ![u] = End(last)]
        /\ content' = [content EXCEPT ![u] =
              @ \cup {<<IF p = r THEN received[u] ELSE p.at, p>> : p \in written}]
        /\ parked' = [parked EXCEPT ![u] = @ \ (written \cup bad)]
        /\ stage' = [p \in Requests |->
              IF p \in written THEN "ok" ELSE IF p \in bad THEN "failed" ELSE stage[p]]
  BY DEF WriteChunk
<1> DEFINE done == {p \in {r} \cup F : \A b \in bad : p.at < b.at}
<1>4. PICK written : written = done
  OBVIOUS
<1>5. /\ content' = [content EXCEPT ![u] = @ \cup {<<p.at, p>> : p \in written}]
      /\ parked' = [parked EXCEPT ![u] = @ \ (written \cup bad)]
      /\ stage' = [p \in Requests |->
            IF p \in written THEN "ok" ELSE IF p \in bad THEN "failed" ELSE stage[p]]
  <2>1. {<<IF p = r THEN received[u] ELSE p.at, p>> : p \in written} = {<<p.at, p>> : p \in written}
    BY <1>1
  <2>2. QED
    BY <1>3, <1>4, <2>1
<1>6. \/ written = {} /\ received' = received
      \/ \E last \in written :
           /\ \A p \in written : p.at <= last.at
           /\ received' = [received EXCEPT ![u] = End(last)]
  BY <1>3, <1>4
<1>7. PICK R : Tiles(P, End(r), F, R)
  BY <1>1, <1>2, RequestTyped, FollowingTiles
<1>8. F \subseteq P
  BY <1>7 DEF Tiles
<1>9. /\ written \subseteq {r} \cup F /\ bad \subseteq {r} \cup F
      /\ written = {p \in {r} \cup F : \A b \in bad : p.at < b.at}
      /\ \A p \in written : p \notin bad
  <2>1. \A p \in {r} \cup F : p.at \in Nat
    BY <1>2, <1>8, RequestTyped
  <2>2. QED
    BY <1>3, <1>4, <2>1
<1>10. PICK C : C = {<<p.at, p>> : p \in written}
  OBVIOUS
<1>11. PICK kept : kept = P \ (written \cup bad)
  OBVIOUS
<1> HIDE DEF done, F, P
<1>12. ASSUME NEW v \in Uploads PROVE AnsweredWhenWritten(v)'
  <2>1. \A p \in Requests : p.op = "chunk" /\ p.upload = v /\ stage'[p] = "ok"
          <=> (p.op = "chunk" /\ p.upload = v /\ stage[p] = "ok") \/ (v = u /\ p \in written)
    <3>1. \A p \in written \cup bad : p.op = "chunk" /\ p.upload = u /\ stage[p] \in {"found", "parked"}
      BY <1>1, <1>2, <1>8, <1>9
    <3>2. \A p \in Requests : stage'[p] =
            IF p \in written THEN "ok" ELSE IF p \in bad THEN "failed" ELSE stage[p]
      BY <1>5
    <3> HIDE DEF u
    <3>3. QED
      BY <3>1, <3>2
  <2>2. {c[2] : c \in content'[v]} = {c[2] : c \in content[v]} \cup IF v = u THEN written ELSE {}
    <3>1. content'[v] = content[v] \cup IF v = u THEN C ELSE {}
      BY <1>1, <1>5, <1>10
    <3>2. {c[2] : c \in C} = written
      <4>1. \A p \in written : <<p.at, p>> \in C /\ <<p.at, p>>[2] = p
        BY <1>10
      <4>2. \A c \in C : c[2] \in written
        BY <1>10
      <4>3. QED
        BY <4>1, <4>2
    <3>3. \A X, Y : {c[2] : c \in X \cup Y} = {c[2] : c \in X} \cup {c[2] : c \in Y}
      OBVIOUS
    <3>4. QED
      BY <3>1, <3>2, <3>3
  <2>3. written \subseteq Requests
    BY <1>2, <1>8, <1>9
  <2>4. {c[2] : c \in content[v]} = {p \in Requests : p.op = "chunk" /\ p.upload = v /\ stage[p] = "ok"}
    BY DEF OrderInv, AnsweredWhenWritten
  <2>5. QED
    BY <2>1, <2>2, <2>3, <2>4 DEF AnsweredWhenWritten
<1>13. ASSUME NEW v \in Uploads, v # u PROVE InPlace(v)' /\ WrittenOnce(v)' /\ ParkedApart(v)'
  <2>1. content'[v] = content[v] /\ received'[v] = received[v] /\ parked'[v] = parked[v]
    BY <1>1, <1>5, <1>6, <1>13
  <2>2. InPlace(v) /\ WrittenOnce(v) /\ ParkedApart(v)
    BY DEF OrderInv
  <2>3. QED
    BY <2>1, <2>2 DEF InPlace, WrittenOnce, ParkedApart
<1>14. content'[u] = content[u] \cup C /\ parked'[u] = kept
  BY <1>1, <1>5, <1>10, <1>11 DEF P
<1>15. InPlace(u) /\ WrittenOnce(u)
  BY <1>1 DEF OrderInv
<1>16. InPlace(u)' /\ WrittenOnce(u)' /\ ParkedApart(u)'
  <2>1. CASE written = {} /\ received' = received
    <3>1. C = {}
      BY <1>10, <2>1
    <3>2. content'[u] = content[u] /\ received'[u] = at
      BY <1>14, <2>1, <3>1
    <3>3. InPlace(u)' /\ WrittenOnce(u)'
      BY <1>15, <3>2 DEF InPlace, WrittenOnce
    <3>4. ParkedApart(u)'
      BY <1>2, <1>11, <1>14, <3>2 DEF ParkedApart
    <3>5. QED
      BY <3>3, <3>4
  <2>2. ASSUME NEW last \in written, \A p \in written : p.at <= last.at,
               received' = [received EXCEPT ![u] = End(last)]
        PROVE  InPlace(u)' /\ WrittenOnce(u)' /\ ParkedApart(u)'
    <3> DEFINE N == End(last)
    <3>1. received'[u] = N
      BY <1>1, <2>2
    <3>2. /\ N \in R
          /\ written = {r} \cup {p \in F : p.at < N}
          /\ \A p \in P : p.at = N => bad = {p}
      <4>1. bad \in {{}} \cup {{p} : p \in {r} \cup F}
        BY <1>3 DEF F
      <4>2. QED
        <5>1. /\ r.len > 0 /\ P \in SUBSET Requests /\ Tiles(P, End(r), F, R)
              /\ \A p \in P : p.len > 0
              /\ \A p, q \in P : p.at = q.at => p = q
          BY <1>2, <1>7
        <5>2. written = {p \in {r} \cup F : \A b \in bad : p.at < b.at}
          BY <1>9
        <5>3. Writing(r, P, F, R, bad, written, last)
          BY <2>2, <4>1, <5>1, <5>2 DEF Writing
        <5>4. QED
          BY <5>3, WritesUpTo
    <3>3. ParkedApart(u)'
      <4>1. \A p \in kept : p.at # N
        BY <1>11, <3>2
      <4>2. QED
        BY <1>2, <1>11, <1>14, <3>1, <4>1 DEF ParkedApart
    <3>4. /\ R \subseteq Nat /\ N \in Nat /\ N >= End(r) /\ End(r) \in Nat /\ End(r) = at + r.len
          /\ \A p \in F : p \in P /\ p.at >= End(r) /\ p.at \in R /\ End(p) \in R
          /\ \A n \in R : \A p \in F : ~ (p.at < n /\ n < End(p))
      BY <1>1, <1>7, <3>2, RequestTyped DEF Tiles, End
    <3>5. \A c \in content[u] : c[1] \in Nat /\ c[2] \in Requests /\ c = <<c[1], c[2]>>
      BY <1>1
    <3>6. InPlace(u)'
      <4>1. \A c \in content[u] : c[1] = c[2].at /\ End(c[2]) <= N
        <5>1. \A c \in content[u] : End(c[2]) \in Nat
          BY <3>5, RequestTyped
        <5>2. at <= N /\ at \in Nat
          BY <1>1, <3>4, RequestTyped
        <5>3. QED
          BY <1>15, <3>4, <5>1, <5>2 DEF InPlace
      <4>2. \A p \in written : End(p) <= N
        <5>1. \A p \in F : p.at < N => ~ (N < End(p)) /\ End(p) \in Nat
          BY <3>2, <3>4
        <5>2. QED
          BY <3>2, <3>4, <5>1
      <4>3. \A c \in C : c[1] = c[2].at /\ End(c[2]) <= N
        BY <1>10, <4>2
      <4>4. QED
        BY <1>14, <3>1, <4>1, <4>3 DEF InPlace
    <3>7. WrittenOnce(u)'
      <4>1. \A c \in content[u] : \A n \in Nat : Covers(c, n) => n < at
        <5>1. \A c \in content[u] : c[1] = c[2].at /\ End(c[2]) <= at /\ End(c[2]) = c[2].at + c[2].len
          BY <1>15 DEF InPlace, End
        <5>2. \A c \in content[u] : c[2].at \in Nat /\ c[2].len \in Nat
          BY <3>5, RequestTyped
        <5>3. QED
          BY <1>1, <5>1, <5>2 DEF Covers
      <4>2. \A p \in written : p.at \in Nat /\ End(p) \in Nat /\ p.at >= at
        <5>1. \A p \in written : p \in Requests
          BY <1>2, <3>2, <3>4
        <5>2. \A p \in F : p.at >= End(r) /\ p.at \in Nat
          BY <3>4
        <5>3. r.len \in Nat
          BY RequestTyped
        <5>4. \A p \in written : p.at >= at
          BY <1>1, <3>2, <3>4, <5>2, <5>3
        <5>5. QED
          BY <5>1, <5>4, RequestTyped
      <4>3. \A p \in written : \A n \in Nat : Covers(<<p.at, p>>, n) <=> p.at <= n /\ n < End(p)
        BY DEF Covers, End
      <4>4. ASSUME NEW n \in 0 .. N - 1 PROVE OneCovers(content[u] \cup C, n)
        <5>1. CASE n < at
          <6>1. PICK c \in content[u] : {d \in content[u] : Covers(d, n)} = {c}
            BY <1>1, <1>15, <5>1 DEF WrittenOnce, OneCovers
          <6>2. \A d \in C : ~Covers(d, n)
            BY <1>1, <1>10, <4>2, <4>3, <5>1
          <6>3. {d \in content[u] \cup C : Covers(d, n)} = {c}
            BY <6>1, <6>2
          <6>4. QED
            BY <6>3 DEF OneCovers
        <5>2. CASE ~ (n < at)
          <6>1. \A d \in content[u] : ~Covers(d, n)
            BY <4>1, <5>2
          <6>2. PICK p \in written : p.at <= n /\ n < End(p)
            <7>1. CASE n < End(r)
              BY <1>1, <3>2, <5>2, <7>1
            <7>2. CASE ~ (n < End(r))
              <8>1. n \in End(r) .. N - 1
                BY <3>4, <7>2
              <8>2. PICK p \in F : p.at <= n /\ n < End(p) /\ End(p) <= N
                <9>1. \A k \in R : \A m \in End(r) .. k - 1 :
                        \E p \in F : p.at <= m /\ m < End(p) /\ End(p) <= k
                  BY <1>7 DEF Tiles
                <9>2. QED
                  BY <3>2, <8>1, <9>1
              <8>3. p.at < N
                <9>1. p.at \in R /\ p.at <= n
                  BY <3>4, <8>2
                <9>2. p.at \in Nat /\ N \in Nat
                  BY <3>4, <9>1
                <9>3. QED
                  BY <9>1, <9>2
              <8>4. QED
                BY <3>2, <8>2, <8>3
            <7>3. QED
              BY <7>1, <7>2
          <6>3. ASSUME NEW q \in written, q.at <= n, n < End(q) PROVE q = p
            <7>1. \A x, y \in written : x.at < y.at /\ y.at <= n /\ n < End(x) => FALSE
              <8>1. SUFFICES ASSUME NEW x \in written, NEW y \in written,
                                    x.at < y.at, y.at <= n, n < End(x)
                             PROVE  FALSE
                OBVIOUS
              <8>2. CASE y = r
                <9>1. x.at \in Nat /\ x.at >= r.at /\ r.at \in Nat
                  BY <1>1, <4>2
                <9>2. QED
                  BY <8>1, <8>2, <9>1
              <8>3. CASE y \in F /\ x = r
                <9>1. y.at \in R /\ y.at >= End(r) /\ n < End(r)
                  BY <3>4, <8>1, <8>3
                <9>2. y.at \in Nat /\ End(r) \in Nat
                  BY <3>4, <9>1
                <9>3. QED
                  BY <8>1, <9>1, <9>2
              <8>4. CASE y \in F /\ x \in F
                <9>1. y.at < End(x) /\ y.at \in R
                  BY <3>4, <4>2, <8>1, <8>4
                <9>2. QED
                  BY <3>4, <8>1, <8>4, <9>1
              <8>5. QED
                BY <3>2, <8>2, <8>3, <8>4
            <7>2. q.at = p.at
              <8>1. q.at \in Nat /\ p.at \in Nat
                BY <4>2
              <8>2. ~ (q.at < p.at) /\ ~ (p.at < q.at)
                BY <6>2, <6>3, <7>1
              <8>3. QED
                BY <8>1, <8>2
            <7>3. \A x \in F : x.at # r.at
              BY <1>1, <1>2, <3>4
            <7>4. QED
              BY <1>2, <3>2, <3>4, <7>2, <7>3
          <6>4. <<p.at, p>> \in C /\ Covers(<<p.at, p>>, n)
            BY <1>10, <4>3, <6>2
          <6>5. ASSUME NEW d \in C, Covers(d, n) PROVE d = <<p.at, p>>
            <7>1. PICK q \in written : d = <<q.at, q>>
              BY <1>10
            <7>2. q.at <= n /\ n < End(q)
              BY <4>3, <6>5, <7>1
            <7>3. QED
              BY <6>3, <7>1, <7>2
          <6>6. {d \in content[u] \cup C : Covers(d, n)} = {<<p.at, p>>}
            BY <6>1, <6>4, <6>5
          <6>7. QED
            BY <6>4, <6>6 DEF OneCovers
        <5>3. QED
          BY <5>1, <5>2
      <4>5. QED
        BY <1>14, <3>1, <4>4 DEF WrittenOnce
    <3>8. QED
      BY <3>3, <3>6, <3>7
  <2>3. QED
    BY <1>6, <2>1, <2>2
<1>17. QED
  BY <1>12, <1>13, <1>16 DEF OrderInv

(***************************************************************************)
(* The theorems.                                                           *)
(***************************************************************************)
LEMMA InitInv == Init => UploadInv
<1> SUFFICES ASSUME Init PROVE UploadInv
  OBVIOUS
<1>1. UploadTypeOK
  <2>1. targets \in [Targets -> Uploads \cup {"none", "old"}]
    BY DEF Init
  <2>2. QED
    BY <2>1, UploadAssumption DEF Init, UploadTypeOK
<1>2. \A t \in Targets : targets[t] \notin Uploads
  BY UploadAssumption DEF Init
<1>3. EndsOnce
  BY <1>2 DEF Init, EndsOnce, Ends
<1>4. QED
  BY <1>1, <1>3 DEF Init, UploadInv, StagesFitRequests, QueuedOnce, ParkedAreChunks,
     UploadIsKnown, RegisteredIsUnclaimed, TempFilesOwned

LEMMA StepInv == UploadInv /\ [Next]_vars => UploadInv'
<1> SUFFICES ASSUME UploadInv, [Next]_vars PROVE UploadInv'
  OBVIOUS
<1>1. CASE UNCHANGED vars
  BY <1>1 DEF UploadInv, UploadTypeOK, StagesFitRequests, QueuedOnce, ParkedAreChunks,
     UploadIsKnown, Known, RegisteredIsUnclaimed, Claimed, EndsOnce, TempFilesOwned, Owner,
     vars, managerVars, dataVars, fileVars
<1>2. ASSUME NEW r \in Requests, Submit(r) \/ Handle(r) PROVE UploadInv'
  <2>1. CASE ClaimFinish(r) \/ ClaimCancel(r)
    BY <2>1, ClaimInv DEF ClaimFinish, ClaimCancel
  <2>2. CASE ~(ClaimFinish(r) \/ ClaimCancel(r))
    BY <1>2, <2>2, SubmitInv, CreateInv, ReserveInv, FindInv, RefuseChunkInv, ParkChunkInv,
       WriteChunkInv, VerifyInv, InstallInv, DiscardInv DEF Handle
  <2>3. QED
    BY <2>1, <2>2
<1>3. CASE Take
  BY <1>3, TakeInv
<1>4. CASE EndSession \/ Close \/ \E u \in Uploads : DropUpload(u)
  BY <1>4, SessionInv
<1>5. QED
  BY <1>1, <1>2, <1>3, <1>4 DEF Next

LEMMA AlwaysInv == Spec => []UploadInv
BY InitInv, StepInv, PTL DEF Spec

LEMMA StepOrder == UploadInv /\ OrderInv /\ [Next]_vars => OrderInv'
<1> SUFFICES ASSUME UploadInv, OrderInv, [Next]_vars PROVE OrderInv'
  OBVIOUS
<1> USE DEF dataVars
<1>1. CASE UNCHANGED vars
  BY <1>1, QuietOrder DEF vars
<1>2. stage \in [Requests -> ActionStages]
  BY DEF UploadInv, UploadTypeOK, ActionStages
<1>3. ASSUME NEW r \in Requests, Submit(r) \/ Handle(r) PROVE OrderInv'
  <2>1. CASE Submit(r)
    BY <1>2, <2>1, QuietOrder DEF Submit, Answer
  <2>2. CASE Create(r) \/ Reserve(r)
    <3>1. r.op = "start" /\ UNCHANGED <<received, content, parked>>
      BY <2>2 DEF Create, Reserve
    <3>2. Answer(r, "failed") \/ Answer(r, "created") \/ Answer(r, "ok")
      BY <2>2 DEF Create, Reserve
    <3>3. QED
      BY <1>2, <3>1, <3>2, QuietOrder DEF Answer
  <2>3. CASE Find(r) \/ RefuseChunk(r)
    BY <1>2, <2>3, QuietOrder DEF Find, RefuseChunk, Answer
  <2>4. CASE ParkChunk(r)
    BY <2>4, ParkChunkOrder
  <2>5. CASE WriteChunk(r)
    BY <2>5, WriteChunkOrder
  <2>6. CASE \/ ClaimFinish(r) \/ ClaimCancel(r) \/ Verify(r) \/ Install(r) \/ Discard(r)
    <3>1. r.op \in {"finish", "cancel"} /\ UNCHANGED <<received, content, parked>>
      BY <2>6 DEF ClaimFinish, ClaimCancel, Claim, Verify, Install, Discard, UploadInv,
         StagesFitRequests
    <3>2. \E s : Answer(r, s)
      BY <2>6 DEF ClaimFinish, ClaimCancel, Claim, Verify, Install, Discard
    <3>3. QED
      BY <1>2, <3>1, <3>2, QuietOrder DEF Answer
  <2>7. QED
    BY <1>3, <2>1, <2>2, <2>3, <2>4, <2>5, <2>6 DEF Handle
<1>4. CASE Take
  <2>1. jobs \in Seq(Requests) /\ jobs # <<>> /\ Head(jobs) = jobs[1] /\ Len(jobs) \in Nat \ {0}
    BY <1>4 DEF Take, UploadInv, UploadTypeOK
  <2>2. stage[Head(jobs)] = "queued"
    BY <2>1 DEF UploadInv, QueuedOnce
  <2>3. Answer(Head(jobs), "taken") \/ Answer(Head(jobs), "failed")
    BY <1>4 DEF Take
  <2>4. QED
    BY <1>2, <1>4, <2>2, <2>3, QuietOrder DEF Take, Answer
<1>5. CASE EndSession \/ Close \/ \E u \in Uploads : DropUpload(u)
  BY <1>5, QuietOrder DEF EndSession, Close, DropUpload
<1>6. QED
  BY <1>1, <1>3, <1>4, <1>5 DEF Next

LEMMA InitOrder == Init => OrderInv
<1> SUFFICES ASSUME Init PROVE OrderInv
  OBVIOUS
<1>1. \A u \in Uploads : received[u] = 0 /\ content[u] = {} /\ parked[u] = {}
  BY DEF Init
<1>2. \A r \in Requests : stage[r] # "ok"
  BY DEF Init
<1>3. QED
  BY <1>1, <1>2 DEF OrderInv, InPlace, WrittenOnce, AnsweredWhenWritten, ParkedApart

\* The variables keep their types, and a closed manager registers no upload
\* (startUpload looks at closed under the mutex that close sets it under).
THEOREM UploadTypeCorrect == Spec => []UploadTypeOK
<1>1. UploadInv => UploadTypeOK
  BY DEF UploadInv
<1>2. QED
  BY <1>1, AlwaysInv, PTL

\* Every temporary file on the disk has somebody who will install or remove it:
\* startUpload, finishUpload, cancelUpload and close hand it on without a gap.
THEOREM TempFilesAlwaysOwned == Spec => []TempFilesOwned
<1>1. UploadInv => TempFilesOwned
  BY DEF UploadInv
<1>2. QED
  BY <1>1, AlwaysInv, PTL

\* Of any number of requests to finish and to cancel an upload, on any workers, one
\* at most gets past forgetUploadLocked, and only a finish puts a file in place.
THEOREM UploadEndsOnce == Spec => []EndsOnce
<1>1. UploadInv => EndsOnce
  BY DEF UploadInv
<1>2. QED
  BY <1>1, AlwaysInv, PTL

\* What startUpload counts against the two limits is what is registered:
\* forgetUploadLocked and close give back each reservation once.
THEOREM ReservationsAlwaysMatch == Spec => []ReservationsMatch
<1>1. CountInv => ReservationsMatch
  BY DEF CountInv, ReservationsMatch, Bytes
<1>2. UploadInv /\ CountInv /\ [Next]_vars => UploadInv' /\ CountInv'
  BY StepInv, CountStep
<1>3. QED
  BY <1>1, <1>2, InitInv, CountInit, PTL DEF Spec

\* In whatever order the workers bring the chunks to acceptUploadChunkLocked, each byte
\* counted as received comes from one chunk, at the place its offset says, and a
\* chunk is answered with success when it is written.
THEOREM UploadAlwaysInOrder == Spec => []UploadInOrder
<1>1. OrderInv => UploadInOrder
  <2> SUFFICES ASSUME OrderInv PROVE UploadInOrder
    OBVIOUS
  <2>1. ASSUME NEW u \in Uploads, NEW n \in 0 .. received[u] - 1
        PROVE  Cardinality({c \in content[u] : Covers(c, n)}) = 1
    <3>1. PICK c \in content[u] : {d \in content[u] : Covers(d, n)} = {c}
      BY DEF OrderInv, WrittenOnce, OneCovers
    <3>2. QED
      BY <3>1, FS_Singleton
  <2>2. QED
    BY <2>1 DEF OrderInv, InPlace, AnsweredWhenWritten, ParkedApart, UploadInOrder
<1>2. UploadInv /\ OrderInv /\ [Next]_vars => UploadInv' /\ OrderInv'
  BY StepInv, StepOrder
<1>3. QED
  BY <1>1, <1>2, InitInv, InitOrder, PTL DEF Spec

\* The counters of the manager and the files of its uploads stay in step with the
\* requests that were answered, both at once.
THEOREM UploadsAlwaysInStep == Spec => []UploadInvariant
<1>1. ReservationsMatch /\ UploadInOrder => UploadInvariant
  BY DEF UploadInvariant
<1>2. QED
  BY <1>1, ReservationsAlwaysMatch, UploadAlwaysInOrder, PTL
=============================================================================
