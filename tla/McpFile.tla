------------------------------- MODULE McpFile -------------------------------
(***************************************************************************)
(* The file sessions of MCP leases (terminal/mcp_file.go) with the          *)
(* downloads of a file manager (terminal/file_manager.go), and what renews  *)
(* or ends them: each request of a lease runs in a goroutine of its own,    *)
(* with a context, and finds or makes the session of its lease.  Chunks of  *)
(* uploads share the session's lock, all else has it alone.  A session goes *)
(* when its lease is revoked, when it was not used for a while, or to make  *)
(* room for another; requests that have it in hand go on with it.           *)
(*                                                                          *)
(* A session is named by the request that made it, an open file by the      *)
(* request that opened it.  Of the uploads, which are in FileUpload, only   *)
(* the hold on lock and slot is left; their files live and die as those of  *)
(* the downloads do.  The lease is reduced to what the requests see of it:  *)
(* the revocation, and the cancels that this or a watcher of the lease      *)
(* takes from its hold and then calls.  McpLease has the lease in full.     *)
(***************************************************************************)
EXTENDS Integers, Sequences, SequencesExt

CONSTANTS Workloads,      \* the sets of requests considered
          Leases,
          None,
          MaxSessions,    \* mcpFileSessionMax
          ChunkWindow,    \* mcpFileChunkWindow
          MaxDownloads    \* maxConcurrentDownloads

\* n tells apart requests that are otherwise alike; id is a download's, at an offset.
Request == [op : {"begin", "read", "close", "chunk"}, lease : Leases, id : STRING, at : Nat, n : Nat]

ASSUME McpFileAssumption ==
  /\ \A W \in Workloads : W \subseteq Request
  /\ None \notin Request
  /\ {MaxSessions, ChunkWindow, MaxDownloads} \subseteq Nat \ {0}

VARIABLES
  work,       \* the requests of this behaviour
  stage,      \* how far each is
  ctx,        \* its context: "none", "live" with its cancel in the lease's hold, "taken"
              \* when a watcher took the cancel but has yet to call it, or "done"
  session,    \* the session it has in hand
  locker,     \* whether a goroutine waits for the lock on its behalf
  recent,     \* mcpFileSessions, in the order of their last use
  holders,    \* of each session: the requests that hold its lock
  slots,      \* of each session: the slots taken for chunks
  closing,    \* the sessions whose manager somebody is about to close
  closed,     \* those whose manager is closed
  downloads,  \* of each session: the files in manager.downloads
  open,       \* the files that are open
  handle,     \* the file a request has looked up
  place,      \* where a file is read next
  got,        \* where a read began to read, in the end
  revoked,    \* of each lease: "no", "noted", "expired" or "closed"
  spared      \* history: the requests whose cancel was taken when their lease's session was closed

request == <<work, stage, ctx, session, locker>>
lock == <<holders, slots>>
sessions == <<recent, closing>>
files == <<downloads, open, handle>>
reads == <<place, got>>
revocation == <<revoked, spared>>
vars == <<request, lock, sessions, closed, files, reads, revocation>>

InMap(l) == {s \in Range(recent) : s.lease = l}

Without(s) == RemoveAt(recent, CHOOSE i \in DOMAIN recent : recent[i] = s)

Registered(r) == stage[r] \notin {"new", "ended"}
-----------------------------------------------------------------------------
(* Leases and contexts *)

\* registerMCPRun; a request that is refused there has its context cancelled and ends
\* at the first look at it.
Register(r) ==
  /\ stage[r] = "new"
  /\ IF revoked[r.lease] = "no"
       THEN stage' = [stage EXCEPT ![r] = "checked"] /\ ctx' = [ctx EXCEPT ![r] = "live"]
       ELSE stage' = [stage EXCEPT ![r] = "ended"] /\ ctx' = [ctx EXCEPT ![r] = "done"]
  /\ UNCHANGED <<work, session, locker, lock, sessions, closed, files, reads, revocation>>

Live(r) == ctx[r] \in {"live", "taken"}

\* Its timeout, or its cancel, called by whoever has it.
ContextEnds(r) ==
  /\ Registered(r) /\ Live(r)
  /\ ctx' = [ctx EXCEPT ![r] = "done"]
  /\ UNCHANGED <<work, stage, session, locker, lock, sessions, closed, files, reads, revocation>>

HoldOf(l) == {r \in work : r.lease = l /\ ctx[r] = "live"}

\* expireMCPLease for a watcher at the lease's deadline: the cancels are taken out of
\* the hold, and called when the lock was given back.
WatcherExpires(l) ==
  /\ revoked[l] \in {"no", "noted"} /\ HoldOf(l) # {}
  /\ ctx' = [r \in work |-> IF r \in HoldOf(l) THEN "taken" ELSE ctx[r]]
  /\ UNCHANGED <<work, stage, session, locker, lock, sessions, closed, files, reads, revocation>>

\* revokeMCPLease: the revocation is remembered, then the lease is expired, the
\* cancels that are left in its hold are called, and its file session is closed.
Revoke(l) ==
  /\ revoked[l] = "no" /\ \E r \in work : r.lease = l
  /\ revoked' = [revoked EXCEPT ![l] = "noted"]
  /\ UNCHANGED <<request, lock, sessions, closed, files, reads, spared>>

\* The hold is taken: what is live in it is for the revocation to cancel.
Expire(l) ==
  /\ revoked[l] = "noted"
  /\ revoked' = [revoked EXCEPT ![l] = "expired"]
  /\ UNCHANGED <<request, lock, sessions, closed, files, reads, spared>>

\* All it got it has cancelled.
CloseMCPFileSession(l) ==
  /\ revoked[l] = "expired" /\ HoldOf(l) = {}
  /\ revoked' = [revoked EXCEPT ![l] = "closed"]
  /\ spared' = spared \cup {r \in work : r.lease = l /\ ctx[r] = "taken"}
  /\ \/ InMap(l) = {} /\ UNCHANGED sessions
     \/ \E s \in InMap(l) : recent' = Without(s) /\ closing' = closing \cup {s}
  /\ UNCHANGED <<request, lock, closed, files, reads>>
-----------------------------------------------------------------------------
(* Sessions *)

\* A session that is used is the last of those in the map, if it is there still.
Touched(s) == IF s \in Range(recent) THEN Append(Without(s), s) ELSE recent

\* getMCPFileSession: a new session takes the place of the one not used for longest
\* if there are too many.
GetSession(r) ==
  /\ stage[r] = "checked"
  /\ \/ \E s \in InMap(r.lease) :
          /\ session' = [session EXCEPT ![r] = s]
          /\ recent' = Touched(s)
          /\ UNCHANGED closing
     \/ /\ InMap(r.lease) = {}
        /\ session' = [session EXCEPT ![r] = r]
        /\ IF Len(recent) < MaxSessions
             THEN recent' = Append(recent, r) /\ UNCHANGED closing
             ELSE recent' = Append(Tail(recent), r) /\ closing' = closing \cup {Head(recent)}
  /\ IF r.op = "chunk"
       THEN stage' = [stage EXCEPT ![r] = "slot"] /\ UNCHANGED locker
       ELSE stage' = [stage EXCEPT ![r] = "lock"] /\ locker' = [locker EXCEPT ![r] = TRUE]
  /\ UNCHANGED <<work, ctx, lock, closed, files, reads, revocation>>

\* pruneMCPFileSessions: those that were not used for ten minutes, whatever uses them now.
Prune ==
  /\ \E n \in 1..Len(recent) :
       /\ recent' = SubSeq(recent, n + 1, Len(recent))
       /\ closing' = closing \cup {recent[i] : i \in 1..n}
  /\ UNCHANGED <<request, lock, closed, files, reads, revocation>>

\* manager.close.
Close(s) ==
  /\ s \in closing
  /\ closing' = closing \ {s}
  /\ closed' = closed \cup {s}
  /\ open' = open \ downloads[s]
  /\ downloads' = [downloads EXCEPT ![s] = {}]
  /\ UNCHANGED <<request, lock, recent, handle, reads, revocation>>
-----------------------------------------------------------------------------
(* The lock of a session: lockMCPFile *)

\* A chunk waits for a slot first.
TakeSlot(r) ==
  /\ stage[r] = "slot" /\ slots[session[r]] < ChunkWindow
  /\ slots' = [slots EXCEPT ![session[r]] = @ + 1]
  /\ stage' = [stage EXCEPT ![r] = "lock"]
  /\ locker' = [locker EXCEPT ![r] = TRUE]
  /\ UNCHANGED <<work, ctx, session, holders, sessions, closed, files, reads, revocation>>

\* Fault: all requests share the lock.
NoConflict(r, q) == FALSE

Conflict(r, q) == r.op # "chunk" \/ q.op # "chunk"

\* Fault: the goroutine leaves with the lock.
LeaveLocked(r) == holders' = [holders EXCEPT ![session[r]] = @ \cup {r}]

LeaveUnlocked(r) == UNCHANGED holders

\* A goroutine waits for the lock and hands it to its request, or leaves without it when
\* the request has gone.
Acquire(r) ==
  /\ locker[r]
  /\ \A q \in holders[session[r]] : ~Conflict(r, q)
  /\ locker' = [locker EXCEPT ![r] = FALSE]
  /\ \/ /\ stage[r] = "lock"
        /\ stage' = [stage EXCEPT ![r] = "locked"]
        /\ holders' = [holders EXCEPT ![session[r]] = @ \cup {r}]
     \/ /\ stage[r] = "ended"
        /\ LeaveUnlocked(r)
        /\ UNCHANGED stage
  /\ UNCHANGED <<work, ctx, session, slots, sessions, closed, files, reads, revocation>>

\* A request whose context ends while it waits for the slot or the lock.
GiveUp(r) ==
  /\ stage[r] \in {"slot", "lock"} /\ ctx[r] = "done"
  /\ stage' = [stage EXCEPT ![r] = "ended"]
  /\ slots' = IF stage[r] = "lock" /\ r.op = "chunk"
                THEN [slots EXCEPT ![session[r]] = @ - 1] ELSE slots
  /\ UNCHANGED <<work, ctx, session, locker, holders, sessions, closed, files, reads, revocation>>
-----------------------------------------------------------------------------
(* Requests under the lock *)

\* The request ends: it gives back the lock, cancels its context and is
\* unregistered.
Return(r) ==
  /\ stage' = [stage EXCEPT ![r] = "ended"]
  /\ ctx' = [ctx EXCEPT ![r] = "done"]
  /\ holders' = [holders EXCEPT ![session[r]] = @ \ {r}]

GoOn(r, to) ==
  /\ stage' = [stage EXCEPT ![r] = to]
  /\ UNCHANGED <<ctx, holders>>

\* Fault: the context is not looked at again.
ProceedsAnyway(r) == TRUE

Proceeds(r) == Live(r)

Stopped(r) ==
  /\ stage[r] = "locked" /\ r.op # "chunk" /\ ~Proceeds(r)
  /\ Return(r)
  /\ UNCHANGED <<work, session, locker, slots, sessions, closed, files, reads, revocation>>

\* Under the lock the context is looked at again, the session is used, and the file
\* is opened, if this can be, or looked up by its id.
Start(r) ==
  /\ stage[r] = "locked" /\ r.op # "chunk" /\ Proceeds(r)
  /\ recent' = Touched(session[r])
  /\ LET found == {f \in downloads[session[r]] : f.id = r.id} IN
     \/ /\ r.op = "begin" /\ GoOn(r, "opened")
        /\ open' = open \cup {r}
        /\ UNCHANGED <<downloads, handle>>
     \/ /\ r.op = "begin" \/ found = {}
        /\ Return(r)
        /\ UNCHANGED files
     \/ \E f \in found :
          /\ r.op # "begin" /\ GoOn(r, "found")
          /\ handle' = [handle EXCEPT ![r] = f]
          /\ downloads' = IF r.op = "close" THEN [downloads EXCEPT ![session[r]] = @ \ {f}]
                          ELSE downloads
          /\ UNCHANGED open
  /\ UNCHANGED <<work, session, locker, slots, closing, closed, reads, revocation>>

\* Fault: nobody looks whether the manager was closed meanwhile.
AdmitsWhenClosed(s) == TRUE

Admits(s) == s \notin closed

\* A file that was opened is registered, unless the manager is closed or has too many;
\* it takes the place of another of its id, which is closed.
Admit(r) ==
  LET s == session[r]
      same == {f \in downloads[s] : f.id = r.id}
  IN  /\ stage[r] = "opened"
      /\ IF Admits(s) /\ Cardinality(downloads[s]) < MaxDownloads
           THEN /\ downloads' = [downloads EXCEPT ![s] = (@ \ same) \cup {r}]
                /\ open' = open \ same
                /\ Return(r)
           ELSE /\ open' = open \ {r}
                /\ Return(r)
                /\ UNCHANGED downloads
      /\ UNCHANGED <<work, session, locker, slots, sessions, closed, handle, reads, revocation>>

\* The two halves of a read; both fail if the file was closed.
Seek(r) ==
  /\ stage[r] = "found" /\ r.op = "read"
  /\ IF handle[r] \in open
       THEN GoOn(r, "sought") /\ place' = [place EXCEPT ![handle[r]] = r.at]
       ELSE Return(r) /\ UNCHANGED place
  /\ UNCHANGED <<work, session, locker, slots, sessions, closed, files, got, revocation>>

Read(r) ==
  /\ stage[r] = "sought"
  /\ IF handle[r] \in open
       THEN /\ Return(r)
            /\ got' = [got EXCEPT ![r] = place[handle[r]]]
            /\ place' = [place EXCEPT ![handle[r]] = @ + 1]
       ELSE Return(r) /\ UNCHANGED reads
  /\ UNCHANGED <<work, session, locker, slots, sessions, closed, files, revocation>>

CloseFile(r) ==
  /\ stage[r] = "found" /\ r.op = "close"
  /\ open' = open \ {handle[r]}
  /\ Return(r)
  /\ UNCHANGED <<work, session, locker, slots, sessions, closed, downloads, handle, reads, revocation>>

\* A chunk is taken, and lock and slot are given back; what it then waits for, its answer,
\* it waits for with nothing in hand.
Chunk(r) ==
  /\ stage[r] = "locked" /\ r.op = "chunk"
  /\ recent' = Touched(session[r])
  /\ Return(r)
  /\ slots' = [slots EXCEPT ![session[r]] = @ - 1]
  /\ UNCHANGED <<work, session, locker, closing, closed, files, reads, revocation>>
-----------------------------------------------------------------------------
Init ==
  /\ work \in Workloads
  /\ stage = [r \in work |-> "new"] /\ ctx = [r \in work |-> "none"]
  /\ session = [r \in work |-> None] /\ locker = [r \in work |-> FALSE]
  /\ recent = <<>> /\ closing = {} /\ closed = {}
  /\ holders = [s \in work |-> {}] /\ slots = [s \in work |-> 0]
  /\ downloads = [s \in work |-> {}] /\ open = {}
  /\ handle = [r \in work |-> None]
  /\ place = [f \in work |-> 0] /\ got = [r \in work |-> None]
  /\ revoked = [l \in Leases |-> "no"] /\ spared = {}

Handle(r) ==
  \/ GetSession(r) \/ TakeSlot(r) \/ GiveUp(r)
  \/ Stopped(r) \/ Start(r) \/ Admit(r) \/ Seek(r) \/ Read(r) \/ CloseFile(r)
  \/ Chunk(r)

Closer == \E s \in work : Close(s)

Next ==
  \/ \E r \in work : Register(r) \/ ContextEnds(r) \/ Handle(r) \/ Acquire(r)
  \/ \E l \in Leases :
       WatcherExpires(l) \/ Revoke(l) \/ Expire(l) \/ CloseMCPFileSession(l)
  \/ Closer \/ Prune

Spec == Init /\ [][Next]_vars

\* A request goes on, or gets the lock, or its context ends, for it has a timeout; the
\* pruner looks every minute, and who is to close a manager does it.
Fairness ==
  /\ \A r \in UNION Workloads :
       WF_vars(r \in work /\ (Handle(r) \/ Acquire(r) \/ ContextEnds(r)))
  /\ WF_vars(Closer) /\ WF_vars(Prune)

FairSpec == Spec /\ Fairness
-----------------------------------------------------------------------------
(* Properties *)

Stages ==
  {"new", "checked", "slot", "lock", "locked", "opened", "found", "sought", "ended"}

McpFileTypeOK ==
  /\ work \in Workloads
  /\ stage \in [work -> Stages]
  /\ ctx \in [work -> {"none", "live", "taken", "done"}]
  /\ session \in [work -> work \cup {None}]
  /\ locker \in [work -> BOOLEAN]
  /\ recent \in Seq(work) /\ closing \subseteq work /\ closed \subseteq work
  /\ holders \in [work -> SUBSET work]
  /\ slots \in [work -> Int]
  /\ downloads \in [work -> SUBSET work] /\ open \subseteq work
  /\ handle \in [work -> work \cup {None}]
  /\ place \in [work -> Nat] /\ got \in [work -> Nat \cup {None}]
  /\ revoked \in [Leases -> {"no", "noted", "expired", "closed"}] /\ spared \subseteq work

\* Every open file has somebody who will close it: a session in the map or about to be
\* closed, a close that has taken it over, or the request that opens or closes it; none
\* is left by a request whose session is pruned, dropped or revoked under its hands.
FilesOwned ==
  \A f \in open :
    \/ f \in downloads[session[f]] /\ session[f] \in Range(recent) \cup closing
    \/ stage[f] = "opened"
    \/ \E r \in work : r.op = "close" /\ stage[r] = "found" /\ handle[r] = f

\* Once a lease's revocation is through, the lease's files are open only in sessions
\* that are about to be closed.  A request that passed its checks before may make the
\* lease a session anew, but opens a file there only if its cancel was then still in the
\* hands of a watcher, from whom the revocation does not get it (mcp.go:371).
RevocationCloses ==
  \A f \in open :
    revoked[f.lease] = "closed" => session[f] \in closing \cup closed \/ f \in spared

\* As the comment of ExecuteMCPFileForLease has it: what a lease has open is kept until
\* it is revoked, and no longer (mcp_file.go:84).
RevokedIsClosed ==
  \A f \in open :
    revoked[f.lease] = "closed" => session[f] \in closing \cup closed

\* A read answers with what stands at the offset it asked for, and not where another
\* request has moved the file (file_manager.go:1024, under the session's lock).
ReadIsItsOffset == \A r \in work : got[r] \in {None, r.at}

\* When all requests are through, nothing stays behind: no session, no open file, no
\* lock that a goroutine took for a request that had left, and no slot.
AllIsReleased ==
  <>[](/\ recent = <<>> /\ open = {}
       /\ \A s \in work : holders[s] = {} /\ slots[s] = 0)
=============================================================================
