------------------------------ MODULE TaskLog ------------------------------
(***************************************************************************)
(* The persistent task log of the agent (tasklog/tasklog.go).              *)
(*                                                                         *)
(* The log remembers every remote command the agent accepted, so that a    *)
(* redelivered command is not run again and a command cut short by a crash *)
(* is reported.  Its map lives in memory behind one mutex; each change is  *)
(* written to a temporary file that is renamed over the log file, so the   *)
(* file is always one complete earlier or current version of the map.      *)
(* Every operation holds the mutex to its end and is one action here.      *)
(* An operation takes its outcome as a parameter: the agent's code that    *)
(* calls it composes by conjoining what it does with that outcome.         *)
(*                                                                         *)
(* The definitions marked "Fault:" are wrong variants of the one that      *)
(* follows them.  No specification uses them: they are the mutants by      *)
(* which each property is shown to depend on the code it is about.         *)
(***************************************************************************)
EXTENDS Naturals, FiniteSets, Functions

CONSTANTS TaskIDs,      \* the task ids the server may use
          Results,      \* what a finished task can have as summary and exit code
          Unknown,      \* "execution status unknown", exit code -1
          NoResult,     \* the empty summary of an entry that only started
          Capacity,     \* Log.capacity
          Retain,       \* Log.retain
          MaxNow,       \* bound on the clock, for model checking
          MaxSaveFails  \* bound on the failing writes, for model checking

ASSUME LogAssumption ==
  /\ Capacity \in Nat \ {0}
  /\ Retain \in Nat
  /\ MaxNow \in Nat
  /\ MaxSaveFails \in Nat
  /\ Unknown \notin Results
  /\ NoResult \notin Results \cup {Unknown}

VARIABLES entries,    \* Log.entries: a map from some task ids to entries
          disk,       \* what the log file holds
          up,         \* the process runs and has opened the log
          now,        \* the clock
          saveFails   \* how many writes have failed, counted only to bound them

logVars == <<entries, disk, up, now, saveFails>>

(***************************************************************************)
(* Entries and the maps that hold them.                                    *)
(***************************************************************************)
Entry == [state      : {"started", "finished", "interrupted"},
          startedAt  : Nat,
          finishedAt : Nat,     \* read only once the entry is not "started"
          result     : Results \cup {Unknown, NoResult},
          acked      : BOOLEAN]

IsEntryMap(m) == DOMAIN m \subseteq TaskIDs /\ m \in [DOMAIN m -> Entry]

NoEntries == [id \in {} |-> NoResult]

Put(m, id, e) == [x \in DOMAIN m \cup {id} |-> IF x = id THEN e ELSE m[x]]

Without(m, id) == Restrict(m, DOMAIN m \ {id})

NewEntry(state, res) ==
  [state |-> state, startedAt |-> now, finishedAt |-> now,
   result |-> res, acked |-> FALSE]

Finished(e, res) ==
  [e EXCEPT !.state = "finished", !.finishedAt = now, !.result = res]

Interrupted(e) ==
  [e EXCEPT !.state = "interrupted", !.finishedAt = now, !.result = Unknown]

\* Fault: the acknowledgement is not asked for.
ProtectedWhileStarted(e) == e.state = "started"

\* Fault: what is acknowledged stays protected.
ProtectedForever(e) == e.state \in {"started", "finished", "interrupted"}

Protected(e) == e.state = "started" \/ ~e.acked

\* Fault: a result that was persisted but not uploaded is passed over.
PendingInterrupted(m) == {id \in DOMAIN m : m[id].state = "interrupted" /\ ~m[id].acked}

PendingReports(m) == {id \in DOMAIN m : m[id].state # "started" /\ ~m[id].acked}

(***************************************************************************)
(* Forgetting.  Both loops of the code drop the oldest droppable entry; a  *)
(* tie is broken by Go's map order, so each loop has several results.      *)
(***************************************************************************)
Droppable(m) == {id \in DOMAIN m : ~Protected(m[id])}

OldestFirst(m, gone) ==
  \A v \in gone, d \in Droppable(m) \ gone : m[v].startedAt <= m[d].startedAt

\* The loop deletes only while more than `limit` entries are left, and stops
\* when that is no longer so or nothing droppable is left.
StopsAt(m, gone, limit) ==
  /\ gone # {} => Cardinality(DOMAIN m) - Cardinality(gone) >= limit
  /\ \/ Cardinality(DOMAIN m) - Cardinality(gone) <= limit
     \/ gone = Droppable(m)

Shrunk(m, limit) ==
  {Restrict(m, DOMAIN m \ gone) :
     gone \in {g \in SUBSET Droppable(m) : StopsAt(m, g, limit) /\ OldestFirst(m, g)}}

Expired(e) == ~Protected(e) /\ now - e.finishedAt > Retain

Pruned(m) ==
  Shrunk(Restrict(m, {id \in DOMAIN m : ~Expired(m[id])}), Capacity)

(***************************************************************************)
(* saveLocked.  The map s, pruned, reaches the file; or the write or the   *)
(* rename fails, and the file keeps its content.  What then becomes of the *)
(* map in memory is the business of the operation that saves.              *)
(***************************************************************************)
Save(s, ok) ==
  IF ok THEN disk' = s /\ UNCHANGED saveFails
        ELSE /\ saveFails < MaxSaveFails
             /\ saveFails' = saveFails + 1
             /\ UNCHANGED disk

LogInit ==
  /\ entries = NoEntries
  /\ disk = NoEntries
  /\ up = FALSE
  /\ now = 0
  /\ saveFails = 0

InterruptStarted(m) ==
  [id \in DOMAIN m |-> IF m[id].state = "started" THEN Interrupted(m[id]) ELSE m[id]]

\* Process start: load, prune, turn what was running into "interrupted", and
\* save if anything changed.  When that save fails the agent does not start.
Open(ok) ==
  /\ ~up
  /\ \E m \in Pruned(disk) :
       IF InterruptStarted(m) = disk
       THEN ok /\ entries' = disk /\ UNCHANGED <<disk, saveFails>>
       ELSE \E s \in Pruned(InterruptStarted(m)) :
              /\ Save(s, ok)
              /\ entries' = IF ok THEN s ELSE entries
  /\ up' = ok
  /\ UNCHANGED now

\* The process dies: the map is gone, the file stays.
Crash ==
  /\ up
  /\ up' = FALSE
  /\ entries' = NoEntries
  /\ UNCHANGED <<disk, now, saveFails>>

BeginOutcomes == {"ok", "full", "failed", "finished", "interrupted", "started"}

\* Fault: the entry stays in memory although its save failed.
FailedBeginKeeps(s, id) == s

FailedBegin(s, id) == Without(s, id)

\* Begin: an entry the log has decides the outcome, which is then its state.
\* Otherwise make room, insert and save.  A victim that was evicted to make room
\* stays gone from memory even when the save fails.
Begin(id, outcome) ==
  /\ up
  /\ \E m \in Pruned(entries) :
       \/ /\ id \in DOMAIN m
          /\ outcome = m[id].state
          /\ entries' = m
          /\ UNCHANGED <<disk, saveFails>>
       \/ /\ id \notin DOMAIN m
          /\ \E e \in Shrunk(m, Capacity - 1) :
               \/ /\ Cardinality(DOMAIN e) >= Capacity
                  /\ outcome = "full"
                  /\ entries' = e
                  /\ UNCHANGED <<disk, saveFails>>
               \/ /\ Cardinality(DOMAIN e) < Capacity
                  /\ outcome \in {"ok", "failed"}
                  /\ \E s \in Pruned(Put(e, id, NewEntry("started", NoResult))) :
                       /\ Save(s, outcome = "ok")
                       /\ entries' = IF outcome = "ok" THEN s ELSE FailedBegin(s, id)
  /\ UNCHANGED <<up, now>>

\* Finish: also of a task the log does not have; of one it has it keeps acked.
Finish(id, res, ok) ==
  /\ up
  /\ LET known == id \in DOMAIN entries
         entry == IF known THEN Finished(entries[id], res) ELSE NewEntry("finished", res)
     IN \E s \in Pruned(Put(entries, id, entry)) :
          /\ Save(s, ok)
          /\ entries' = IF ok THEN s
                        ELSE IF known THEN Put(s, id, entries[id])
                        ELSE Without(s, id)
  /\ UNCHANGED <<up, now>>

\* Ack: a failed save leaves the entry unacked, whatever it was before.
Ack(id, ok) ==
  /\ up
  /\ \/ /\ id \notin DOMAIN entries
        /\ ok
        /\ UNCHANGED <<entries, disk, saveFails>>
     \/ /\ id \in DOMAIN entries
        /\ \E s \in Pruned(Put(entries, id, [entries[id] EXCEPT !.acked = TRUE])) :
             /\ Save(s, ok)
             /\ entries' = IF ok THEN s
                           ELSE Put(s, id, [entries[id] EXCEPT !.acked = FALSE])
  /\ UNCHANGED <<up, now>>

Tick ==
  /\ now < MaxNow
  /\ now' = now + 1
  /\ UNCHANGED <<entries, disk, up, saveFails>>

LogNext ==
  \/ \E ok \in BOOLEAN : Open(ok)
  \/ Crash
  \/ \E id \in TaskIDs, outcome \in BeginOutcomes : Begin(id, outcome)
  \/ \E id \in TaskIDs, res \in Results, ok \in BOOLEAN : Finish(id, res, ok)
  \/ \E id \in TaskIDs, ok \in BOOLEAN : Ack(id, ok)
  \/ Tick

LogSpec == LogInit /\ [][LogNext]_logVars
-----------------------------------------------------------------------------
(***************************************************************************)
(* Properties.                                                             *)
(***************************************************************************)

\* The variables hold what their Go types say, and an entry's result is the one
\* its state calls for: none while it runs, "unknown" once it was interrupted.
LogTypeOK ==
  /\ IsEntryMap(entries)
  /\ IsEntryMap(disk)
  /\ up \in BOOLEAN
  /\ now \in Nat
  /\ saveFails \in Nat
  /\ \A id \in DOMAIN disk :
       /\ disk[id].state = "interrupted" <=> disk[id].result = Unknown
       /\ disk[id].state = "started" <=> disk[id].result = NoResult

Unacked(e) == [e EXCEPT !.acked = FALSE]

\* Whatever failed before, the running agent works on what a restart would
\* reload: each entry in memory is on disk with the same state and result, and
\* may differ only by an acknowledgement that memory has lost; and no entry that
\* the disk still protects is missing from memory.
MemoryMatchesDisk ==
  up => /\ \A id \in DOMAIN entries :
             /\ id \in DOMAIN disk
             /\ entries[id] \in {disk[id], Unacked(disk[id])}
        /\ \A id \in DOMAIN disk : Protected(disk[id]) => id \in DOMAIN entries

\* No operation, failed write, crash or restart makes the log file lose a task
\* whose result the server has not taken, short of the acknowledgement itself,
\* nor a task of the living process that still runs, short of its own finish.
ProtectedSurvives ==
  [][\A id \in DOMAIN disk :
       /\ ~disk[id].acked => id \in DOMAIN disk' \/ Ack(id, TRUE)
       /\ up /\ disk[id].state = "started" =>
            id \in DOMAIN disk' \/ \E res \in Results : Finish(id, res, TRUE)]_logVars
=============================================================================
