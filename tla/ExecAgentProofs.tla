-------------------------- MODULE ExecAgentProofs --------------------------
(***************************************************************************)
(* Theorems about TaskLog and about ExecAgent, which is built on it, for   *)
(* any set of tasks, any capacity and retention time, any number of        *)
(* readers, workers and attempts.                                          *)
(*                                                                         *)
(* First the log by itself.  What its theorems rest on is that forgetting  *)
(* (Shrunk, Pruned) yields a part of the map it starts from, with every    *)
(* protected entry still in it.                                            *)
(*                                                                         *)
(* Then the agent over the log: what each operation of the log does to one *)
(* task's entry on disk, an inductive invariant that ties every goroutine  *)
(* to that entry, and, step by step, the promise of TaskService.           *)
(***************************************************************************)
EXTENDS ExecAgent, SequenceTheorems, FiniteSetTheorems, TLAPS

(***************************************************************************)
(* The type invariant, with what makes it inductive: in both maps the      *)
(* result of an entry fits its state.                                      *)
(***************************************************************************)
ResultFits(e) ==
  /\ e.state = "interrupted" <=> e.result = Unknown
  /\ e.state = "started" <=> e.result = NoResult

Sound(m) == IsEntryMap(m) /\ \A id \in DOMAIN m : ResultFits(m[id])

LogInv ==
  /\ Sound(entries)
  /\ Sound(disk)
  /\ up \in BOOLEAN
  /\ now \in Nat
  /\ saveFails \in Nat

\* s is m without some of its entries, none of which is protected.
KeepsProtected(m, s) ==
  /\ DOMAIN s \subseteq DOMAIN m
  /\ s = [id \in DOMAIN s |-> m[id]]
  /\ \A id \in DOMAIN m : Protected(m[id]) => id \in DOMAIN s

(***************************************************************************)
(* Facts about the operators.                                              *)
(***************************************************************************)

\* Eviction only ever takes droppable entries, whatever the limit.
LEMMA ShrunkKeepsProtected ==
  ASSUME NEW m, NEW limit, NEW s \in Shrunk(m, limit)
  PROVE  KeepsProtected(m, s)
<1>1. PICK gone \in SUBSET Droppable(m) : s = Restrict(m, DOMAIN m \ gone)
  BY DEF Shrunk
<1>2. DOMAIN s = DOMAIN m \ gone
  BY <1>1 DEF Restrict
<1>3. s = [id \in DOMAIN s |-> m[id]]
  BY <1>1, <1>2 DEF Restrict
<1>4. \A id \in DOMAIN m : Protected(m[id]) => id \in DOMAIN s
  BY <1>2 DEF Droppable
<1>5. QED
  BY <1>2, <1>3, <1>4 DEF KeepsProtected

\* pruneLocked forgets what has expired and then what is in excess: neither step
\* takes a protected entry.
LEMMA PrunedKeepsProtected ==
  ASSUME NEW m, NEW s \in Pruned(m)
  PROVE  KeepsProtected(m, s)
<1> DEFINE kept == Restrict(m, {id \in DOMAIN m : ~Expired(m[id])})
<1>1. KeepsProtected(m, kept)
  BY DEF KeepsProtected, Restrict, Expired
<1>2. s \in Shrunk(kept, Capacity)
  BY DEF Pruned
<1>3. KeepsProtected(kept, s)
  BY <1>2, ShrunkKeepsProtected
<1>4. DOMAIN s \subseteq DOMAIN kept /\ DOMAIN kept \subseteq DOMAIN m
  BY <1>1, <1>3 DEF KeepsProtected
<1>5. \A id \in DOMAIN s : s[id] = kept[id] /\ kept[id] = m[id]
  BY <1>3, <1>4 DEF KeepsProtected, Restrict
<1>6. s = [id \in DOMAIN s |-> s[id]]
  BY <1>3 DEF KeepsProtected
<1>7. s = [id \in DOMAIN s |-> m[id]]
  BY <1>5, <1>6
<1>8. ASSUME NEW id \in DOMAIN m, Protected(m[id])
      PROVE  id \in DOMAIN s
  <2>1. id \in DOMAIN kept
    BY <1>1, <1>8 DEF KeepsProtected
  <2>2. kept[id] = m[id]
    BY <2>1 DEF Restrict
  <2>3. QED
    BY <2>1, <2>2, <1>3, <1>8 DEF KeepsProtected
<1>9. QED
  BY <1>4, <1>7, <1>8 DEF KeepsProtected

\* A part of a sound map is sound.
LEMMA PartIsSound ==
  ASSUME NEW m, Sound(m), NEW s, KeepsProtected(m, s)
  PROVE  Sound(s)
<1>1. s \in [DOMAIN s -> Entry] /\ DOMAIN s \subseteq TaskIDs
  BY DEF Sound, KeepsProtected, IsEntryMap
<1>2. \A id \in DOMAIN s : s[id] = m[id] /\ id \in DOMAIN m
  BY DEF KeepsProtected
<1>3. QED
  BY <1>1, <1>2 DEF Sound, IsEntryMap

\* Storing a sound entry keeps a map sound.
LEMMA PutIsSound ==
  ASSUME NEW m, Sound(m), NEW id \in TaskIDs, NEW e \in Entry, ResultFits(e)
  PROVE  Sound(Put(m, id, e))
<1>1. DOMAIN Put(m, id, e) = DOMAIN m \cup {id}
  BY DEF Put
<1>2. \A x \in DOMAIN m \cup {id} : Put(m, id, e)[x] = IF x = id THEN e ELSE m[x]
  BY DEF Put
<1>3. \A x \in DOMAIN m : m[x] \in Entry /\ ResultFits(m[x])
  BY DEF Sound, IsEntryMap
<1>4. Put(m, id, e) \in [DOMAIN m \cup {id} -> Entry]
  BY <1>3 DEF Put
<1>5. DOMAIN m \subseteq TaskIDs
  BY DEF Sound, IsEntryMap
<1>6. QED
  BY <1>1, <1>2, <1>3, <1>4, <1>5 DEF Sound, IsEntryMap

\* So is what is left when an entry is taken out.
LEMMA WithoutIsSound ==
  ASSUME NEW m, Sound(m), NEW id
  PROVE  Sound(Without(m, id))
<1>1. DOMAIN Without(m, id) = DOMAIN m \ {id}
  BY DEF Without, Restrict
<1>2. \A x \in DOMAIN m \ {id} : Without(m, id)[x] = m[x]
  BY DEF Without, Restrict
<1>3. Without(m, id) \in [DOMAIN m \ {id} -> Entry] /\ DOMAIN m \subseteq TaskIDs
  BY DEF Sound, IsEntryMap, Without, Restrict
<1>4. QED
  BY <1>1, <1>2, <1>3 DEF Sound, IsEntryMap

(***************************************************************************)
(* The entries that operations make.                                       *)
(***************************************************************************)

\* Begin and Finish store well-formed entries.
LEMMA NewEntrySound ==
  ASSUME now \in Nat
  PROVE  /\ NewEntry("started", NoResult) \in Entry
         /\ ResultFits(NewEntry("started", NoResult))
         /\ \A res \in Results : /\ NewEntry("finished", res) \in Entry
                                 /\ ResultFits(NewEntry("finished", res))
  BY LogAssumption DEF NewEntry, Entry, ResultFits

\* Finish, Open and Ack turn well-formed entries into well-formed entries.
LEMMA ChangedEntrySound ==
  ASSUME now \in Nat, NEW e \in Entry, NEW res \in Results
  PROVE  /\ Finished(e, res) \in Entry /\ ResultFits(Finished(e, res))
         /\ Interrupted(e) \in Entry /\ ResultFits(Interrupted(e))
         /\ \A b \in BOOLEAN : [e EXCEPT !.acked = b] \in Entry
  BY LogAssumption DEF Entry, Finished, Interrupted, ResultFits

\* An interruption leaves the well-formed entries of a map well-formed.
LEMMA InterruptStartedSound ==
  ASSUME now \in Nat, NEW m, Sound(m)
  PROVE  Sound(InterruptStarted(m))
<1>1. DOMAIN InterruptStarted(m) = DOMAIN m
  BY DEF InterruptStarted
<1>2. \A id \in DOMAIN m : m[id] \in Entry /\ ResultFits(m[id])
  BY DEF Sound, IsEntryMap
<1>3. \A id \in DOMAIN m : Interrupted(m[id]) \in Entry /\ ResultFits(Interrupted(m[id]))
  BY <1>2, LogAssumption DEF Entry, Interrupted, ResultFits
<1>4. InterruptStarted(m) \in [DOMAIN m -> Entry]
  BY <1>2, <1>3 DEF InterruptStarted
<1>5. \A id \in DOMAIN m : ResultFits(InterruptStarted(m)[id])
  BY <1>2, <1>3 DEF InterruptStarted
<1>6. DOMAIN m \subseteq TaskIDs
  BY DEF Sound, IsEntryMap
<1>7. QED
  BY <1>1, <1>4, <1>5, <1>6 DEF Sound, IsEntryMap

\* What reaches the file is sound when what was to be saved is.
LEMMA SaveSound ==
  ASSUME LogInv, NEW s, Sound(s), NEW ok \in BOOLEAN, Save(s, ok)
  PROVE  Sound(disk') /\ saveFails' \in Nat
<1>1. CASE ok
  BY <1>1 DEF Save, LogInv
<1>2. CASE ~ok
  BY <1>2 DEF Save, LogInv
<1>3. QED
  BY <1>1, <1>2

(***************************************************************************)
(* Type correctness.                                                       *)
(***************************************************************************)

LEMMA LogInitInv == LogInit => LogInv
<1> SUFFICES ASSUME LogInit PROVE LogInv
  OBVIOUS
<1>1. Sound(NoEntries)
  BY DEF Sound, IsEntryMap, NoEntries
<1>2. Sound(entries) /\ Sound(disk)
  BY <1>1, Zenon DEF LogInit
<1>3. up \in BOOLEAN /\ now \in Nat /\ saveFails \in Nat
  BY DEF LogInit
<1>4. QED
  BY <1>2, <1>3 DEF LogInv

LEMMA OpenInv ==
  ASSUME LogInv, NEW ok \in BOOLEAN, Open(ok)
  PROVE  LogInv'
<1>1. PICK m \in Pruned(disk) :
         IF InterruptStarted(m) = disk
         THEN ok /\ entries' = disk /\ UNCHANGED <<disk, saveFails>>
         ELSE \E s \in Pruned(InterruptStarted(m)) :
                /\ Save(s, ok)
                /\ entries' = IF ok THEN s ELSE entries
  BY DEF Open
<1>2. Sound(InterruptStarted(m))
  BY PrunedKeepsProtected, PartIsSound, InterruptStartedSound DEF LogInv
<1>3. Sound(entries') /\ Sound(disk') /\ saveFails' \in Nat
  <2>1. CASE InterruptStarted(m) = disk
    BY <1>1, <2>1 DEF LogInv
  <2>2. CASE InterruptStarted(m) # disk
    <3>1. PICK s \in Pruned(InterruptStarted(m)) :
            Save(s, ok) /\ entries' = IF ok THEN s ELSE entries
      BY <1>1, <2>2
    <3>2. Sound(s)
      BY <1>2, PrunedKeepsProtected, PartIsSound
    <3>3. QED
      BY <3>1, <3>2, SaveSound DEF LogInv
  <2>3. QED
    BY <2>1, <2>2
<1>4. up' \in BOOLEAN /\ now' = now
  BY DEF Open
<1>5. QED
  BY <1>3, <1>4 DEF LogInv, Sound, IsEntryMap

LEMMA BeginInv ==
  ASSUME LogInv, NEW id \in TaskIDs, NEW outcome, Begin(id, outcome)
  PROVE  LogInv'
<1>1. PICK m \in Pruned(entries) :
         \/ /\ entries' = m
            /\ UNCHANGED <<disk, saveFails>>
         \/ \E e \in Shrunk(m, Capacity - 1) :
              \/ /\ entries' = e
                 /\ UNCHANGED <<disk, saveFails>>
              \/ /\ outcome \in {"ok", "failed"}
                 /\ \E s \in Pruned(Put(e, id, NewEntry("started", NoResult))) :
                      /\ Save(s, outcome = "ok")
                      /\ entries' = IF outcome = "ok" THEN s ELSE FailedBegin(s, id)
  BY DEF Begin
<1>2. Sound(m)
  BY PrunedKeepsProtected, PartIsSound DEF LogInv
<1>3. Sound(entries') /\ Sound(disk') /\ saveFails' \in Nat
  <2>1. CASE entries' = m /\ UNCHANGED <<disk, saveFails>>
    BY <1>2, <2>1 DEF LogInv
  <2>2. ASSUME NEW e \in Shrunk(m, Capacity - 1), entries' = e,
               UNCHANGED <<disk, saveFails>>
        PROVE  Sound(entries') /\ Sound(disk') /\ saveFails' \in Nat
    BY <1>2, <2>2, ShrunkKeepsProtected, PartIsSound DEF LogInv
  <2>3. ASSUME NEW e \in Shrunk(m, Capacity - 1),
               NEW s \in Pruned(Put(e, id, NewEntry("started", NoResult))),
               Save(s, outcome = "ok"),
               entries' = IF outcome = "ok" THEN s ELSE FailedBegin(s, id)
        PROVE  Sound(entries') /\ Sound(disk') /\ saveFails' \in Nat
    <3>1. Sound(e)
      BY <1>2, ShrunkKeepsProtected, PartIsSound
    <3>2. Sound(Put(e, id, NewEntry("started", NoResult)))
      BY <3>1, NewEntrySound, PutIsSound DEF LogInv
    <3>3. Sound(s)
      BY <3>2, PrunedKeepsProtected, PartIsSound
    <3>4. Sound(FailedBegin(s, id))
      BY <3>3, WithoutIsSound DEF FailedBegin
    <3>5. QED
      BY <2>3, <3>3, <3>4, SaveSound
  <2>4. QED
    BY <1>1, <2>1, <2>2, <2>3
<1>4. up' = up /\ now' = now
  BY DEF Begin
<1>5. QED
  BY <1>3, <1>4 DEF LogInv, Sound, IsEntryMap

LEMMA FinishInv ==
  ASSUME LogInv, NEW id \in TaskIDs, NEW res \in Results, NEW ok \in BOOLEAN,
         Finish(id, res, ok)
  PROVE  LogInv'
<1> DEFINE entry == IF id \in DOMAIN entries THEN Finished(entries[id], res)
                    ELSE NewEntry("finished", res)
<1>1. PICK s \in Pruned(Put(entries, id, entry)) :
         /\ Save(s, ok)
         /\ entries' = IF ok THEN s
                       ELSE IF id \in DOMAIN entries THEN Put(s, id, entries[id])
                       ELSE Without(s, id)
  BY DEF Finish
<1>2. id \in DOMAIN entries => entries[id] \in Entry /\ ResultFits(entries[id])
  BY DEF LogInv, Sound, IsEntryMap
<1>3. entry \in Entry /\ ResultFits(entry)
  BY <1>2, NewEntrySound, ChangedEntrySound DEF LogInv
<1>4. Sound(s)
  BY <1>3, PutIsSound, PrunedKeepsProtected, PartIsSound DEF LogInv
<1>5. Sound(Without(s, id))
  BY <1>4, WithoutIsSound
<1>6. id \in DOMAIN entries => Sound(Put(s, id, entries[id]))
  BY <1>2, <1>4, PutIsSound
<1>7. Sound(entries') /\ Sound(disk') /\ saveFails' \in Nat
  BY <1>1, <1>4, <1>5, <1>6, SaveSound
<1>8. up' = up /\ now' = now
  BY DEF Finish
<1>9. QED
  BY <1>7, <1>8 DEF LogInv, Sound, IsEntryMap

LEMMA AckInv ==
  ASSUME LogInv, NEW id \in TaskIDs, NEW ok \in BOOLEAN, Ack(id, ok)
  PROVE  LogInv'
<1>1. up' = up /\ now' = now
  BY DEF Ack
<1>2. CASE id \notin DOMAIN entries
  BY <1>1, <1>2 DEF Ack, LogInv, Sound, IsEntryMap
<1>3. CASE id \in DOMAIN entries
  <2>1. PICK s \in Pruned(Put(entries, id, [entries[id] EXCEPT !.acked = TRUE])) :
           /\ Save(s, ok)
           /\ entries' = IF ok THEN s
                         ELSE Put(s, id, [entries[id] EXCEPT !.acked = FALSE])
    BY <1>3 DEF Ack
  <2>2. ASSUME NEW b \in BOOLEAN
        PROVE  /\ [entries[id] EXCEPT !.acked = b] \in Entry
               /\ ResultFits([entries[id] EXCEPT !.acked = b])
    BY <1>3 DEF LogInv, Sound, IsEntryMap, Entry, ResultFits
  <2>3. Sound(s)
    BY <2>2, PutIsSound, PrunedKeepsProtected, PartIsSound DEF LogInv
  <2>4. Sound(Put(s, id, [entries[id] EXCEPT !.acked = FALSE]))
    BY <2>2, <2>3, PutIsSound
  <2>5. Sound(entries') /\ Sound(disk') /\ saveFails' \in Nat
    BY <2>1, <2>3, <2>4, SaveSound
  <2>6. QED
    BY <1>1, <2>5 DEF LogInv, Sound, IsEntryMap
<1>4. QED
  BY <1>2, <1>3

\* Every operation preserves the invariant.
LEMMA LogStepInv == LogInv /\ [LogNext]_logVars => LogInv'
<1> SUFFICES ASSUME LogInv, [LogNext]_logVars PROVE LogInv'
  OBVIOUS
<1>1. CASE \E ok \in BOOLEAN : Open(ok)
  BY <1>1, OpenInv
<1>2. CASE Crash
  <2>1. Sound(NoEntries)
    BY DEF Sound, IsEntryMap, NoEntries
  <2>2. QED
    BY <1>2, <2>1 DEF Crash, LogInv, Sound, IsEntryMap
<1>3. CASE \E id \in TaskIDs, outcome \in BeginOutcomes : Begin(id, outcome)
  BY <1>3, BeginInv
<1>4. CASE \E id \in TaskIDs, res \in Results, ok \in BOOLEAN : Finish(id, res, ok)
  BY <1>4, FinishInv
<1>5. CASE \E id \in TaskIDs, ok \in BOOLEAN : Ack(id, ok)
  BY <1>5, AckInv
<1>6. CASE Tick
  BY <1>6 DEF Tick, LogInv, Sound, IsEntryMap
<1>7. CASE UNCHANGED logVars
  BY <1>7 DEF logVars, LogInv, Sound, IsEntryMap
<1>8. QED
  BY <1>1, <1>2, <1>3, <1>4, <1>5, <1>6, <1>7 DEF LogNext

\* In every behaviour the variables hold what their Go types say, and an entry's
\* result fits its state.
THEOREM LogTypeCorrect == LogSpec => []LogTypeOK
<1>1. LogInv => LogTypeOK
  BY DEF LogInv, LogTypeOK, Sound, ResultFits
<1>2. QED
  BY LogInitInv, LogStepInv, <1>1, PTL DEF LogSpec

(***************************************************************************)
(* The running agent's memory mirrors the file.                            *)
(***************************************************************************)
Mirrors(m, d) ==
  /\ \A id \in DOMAIN m : id \in DOMAIN d /\ m[id] \in {d[id], Unacked(d[id])}
  /\ \A id \in DOMAIN d : Protected(d[id]) => id \in DOMAIN m

\* An entry that lost its acknowledgement is protected if it was before.
LEMMA UnackedEntry ==
  ASSUME NEW e \in Entry
  PROVE  /\ Unacked(e) \in Entry
         /\ Unacked(e).state = e.state /\ ~Unacked(e).acked
         /\ Unacked(Unacked(e)) = Unacked(e)
         /\ Protected(Unacked(e))
  BY DEF Entry, Unacked, Protected

\* What the file protects is in memory, and protected there.
LEMMA MirroredIsProtected ==
  ASSUME NEW d, Sound(d), NEW m, Mirrors(m, d),
         NEW id \in DOMAIN d, Protected(d[id])
  PROVE  id \in DOMAIN m /\ Protected(m[id])
<1>1. d[id] \in Entry
  BY DEF Sound, IsEntryMap
<1>2. id \in DOMAIN m /\ m[id] \in {d[id], Unacked(d[id])}
  BY DEF Mirrors
<1>3. QED
  BY <1>1, <1>2, UnackedEntry

\* Memory goes on mirroring the file when it forgets what is droppable.
LEMMA MirrorsPart ==
  ASSUME NEW d, Sound(d), NEW m, Mirrors(m, d), NEW s, KeepsProtected(m, s)
  PROVE  Mirrors(s, d)
<1>1. ASSUME NEW id \in DOMAIN s
      PROVE  id \in DOMAIN d /\ s[id] \in {d[id], Unacked(d[id])}
  <2>1. id \in DOMAIN m /\ s[id] = m[id]
    BY DEF KeepsProtected
  <2>2. QED
    BY <2>1 DEF Mirrors
<1>2. ASSUME NEW id \in DOMAIN d, Protected(d[id])
      PROVE  id \in DOMAIN s
  BY <1>2, MirroredIsProtected DEF KeepsProtected
<1>3. QED
  BY <1>1, <1>2 DEF Mirrors

\* What a map with one entry changed or added keeps of the others.
LEMMA OthersKept ==
  ASSUME NEW m, NEW id, NEW e, NEW s, KeepsProtected(Put(m, id, e), s)
  PROVE  /\ \A x \in DOMAIN s \ {id} : x \in DOMAIN m /\ s[x] = m[x]
         /\ \A x \in DOMAIN m \ {id} : Protected(m[x]) => x \in DOMAIN s
         /\ Protected(e) => id \in DOMAIN s
<1>1. DOMAIN Put(m, id, e) = DOMAIN m \cup {id}
  BY DEF Put
<1>2. \A x \in DOMAIN m \cup {id} : Put(m, id, e)[x] = IF x = id THEN e ELSE m[x]
  BY DEF Put
<1>3. \A x \in DOMAIN s : x \in DOMAIN Put(m, id, e) /\ s[x] = Put(m, id, e)[x]
  BY DEF KeepsProtected
<1>4. \A x \in DOMAIN Put(m, id, e) : Protected(Put(m, id, e)[x]) => x \in DOMAIN s
  BY DEF KeepsProtected
<1>5. QED
  BY <1>1, <1>2, <1>3, <1>4

\* A failed insertion that is taken back leaves memory mirroring the file.
LEMMA MirrorsTakenBack ==
  ASSUME NEW d, Sound(d), NEW m, Mirrors(m, d), NEW id, id \notin DOMAIN m, NEW e,
         NEW s, KeepsProtected(Put(m, id, e), s)
  PROVE  Mirrors(Without(s, id), d)
<1>1. /\ DOMAIN Without(s, id) = DOMAIN s \ {id}
      /\ \A x \in DOMAIN s \ {id} : Without(s, id)[x] = s[x]
  BY DEF Without, Restrict
<1>2. ASSUME NEW x \in DOMAIN s \ {id}
      PROVE  x \in DOMAIN d /\ s[x] \in {d[x], Unacked(d[x])}
  BY OthersKept DEF Mirrors
<1>3. ASSUME NEW x \in DOMAIN d, Protected(d[x])
      PROVE  x \in DOMAIN s \ {id}
  <2>1. x \in DOMAIN m /\ Protected(m[x])
    BY <1>3, MirroredIsProtected
  <2>2. QED
    BY <2>1, OthersKept
<1>4. QED
  BY <1>1, <1>2, <1>3 DEF Mirrors

\* So does a failed change that is undone, even if it loses an acknowledgement.
LEMMA MirrorsRestored ==
  ASSUME NEW d, Sound(d), NEW m, Mirrors(m, d), NEW id \in DOMAIN m, NEW e,
         NEW s, KeepsProtected(Put(m, id, e), s),
         NEW v \in {m[id], Unacked(m[id])}
  PROVE  Mirrors(Put(s, id, v), d)
<1>1. /\ DOMAIN Put(s, id, v) = DOMAIN s \cup {id}
      /\ \A x \in DOMAIN s \cup {id} : Put(s, id, v)[x] = IF x = id THEN v ELSE s[x]
  BY DEF Put
<1>2. ASSUME NEW x \in DOMAIN s, x # id
      PROVE  x \in DOMAIN d /\ s[x] \in {d[x], Unacked(d[x])}
  BY <1>2, OthersKept DEF Mirrors
<1>3. id \in DOMAIN d /\ v \in {d[id], Unacked(d[id])}
  <2>1. id \in DOMAIN d /\ m[id] \in {d[id], Unacked(d[id])}
    BY DEF Mirrors
  <2>2. d[id] \in Entry
    BY <2>1 DEF Sound, IsEntryMap
  <2>3. QED
    BY <2>1, <2>2, UnackedEntry
<1>4. ASSUME NEW x \in DOMAIN d, Protected(d[x])
      PROVE  x \in DOMAIN s \cup {id}
  <2>1. x \in DOMAIN m /\ Protected(m[x])
    BY <1>4, MirroredIsProtected
  <2>2. QED
    BY <2>1, OthersKept
<1>5. QED
  BY <1>1, <1>2, <1>3, <1>4 DEF Mirrors

\* Memory that was just saved mirrors the file exactly.
LEMMA MirrorsItself ==
  ASSUME NEW m
  PROVE  Mirrors(m, m)
  BY DEF Mirrors

\* While the agent runs, memory mirrors the file; this needs no strengthening but
\* the type invariant.
MirrorInv == LogInv /\ (up => Mirrors(entries, disk))

LEMMA BeginMirrors ==
  ASSUME MirrorInv, NEW id \in TaskIDs, NEW outcome, Begin(id, outcome)
  PROVE  Mirrors(entries', disk')
<1>1. up /\ Sound(disk) /\ Mirrors(entries, disk)
  BY DEF Begin, MirrorInv, LogInv
<1>2. PICK m \in Pruned(entries) :
         \/ entries' = m /\ disk' = disk
         \/ /\ id \notin DOMAIN m
            /\ \E e \in Shrunk(m, Capacity - 1) :
                 \/ entries' = e /\ disk' = disk
                 \/ \E s \in Pruned(Put(e, id, NewEntry("started", NoResult))) :
                      /\ Save(s, outcome = "ok")
                      /\ entries' = IF outcome = "ok" THEN s ELSE FailedBegin(s, id)
  BY DEF Begin
<1>3. Mirrors(m, disk)
  BY <1>1, PrunedKeepsProtected, MirrorsPart
<1>4. CASE entries' = m /\ disk' = disk
  BY <1>3, <1>4
<1>5. ASSUME id \notin DOMAIN m, NEW e \in Shrunk(m, Capacity - 1),
             entries' = e, disk' = disk
      PROVE  Mirrors(entries', disk')
  BY <1>1, <1>3, <1>5, ShrunkKeepsProtected, MirrorsPart
<1>6. ASSUME id \notin DOMAIN m, NEW e \in Shrunk(m, Capacity - 1),
             NEW s \in Pruned(Put(e, id, NewEntry("started", NoResult))),
             Save(s, outcome = "ok"),
             entries' = IF outcome = "ok" THEN s ELSE FailedBegin(s, id)
      PROVE  Mirrors(entries', disk')
  <2>1. CASE outcome = "ok"
    BY <1>6, <2>1, MirrorsItself DEF Save
  <2>2. CASE outcome # "ok"
    <3>1. KeepsProtected(m, e) /\ Mirrors(e, disk)
      BY <1>1, <1>3, ShrunkKeepsProtected, MirrorsPart
    <3>2. id \notin DOMAIN e
      BY <1>6, <3>1 DEF KeepsProtected
    <3>3. Mirrors(Without(s, id), disk)
      BY <1>1, <3>1, <3>2, PrunedKeepsProtected, MirrorsTakenBack
    <3>4. disk' = disk /\ entries' = Without(s, id)
      BY <1>6, <2>2 DEF Save, FailedBegin
    <3>5. QED
      BY <3>3, <3>4
  <2>3. QED
    BY <2>1, <2>2
<1>7. QED
  BY <1>2, <1>4, <1>5, <1>6

LEMMA FinishMirrors ==
  ASSUME MirrorInv, NEW id \in TaskIDs, NEW res \in Results, NEW ok \in BOOLEAN,
         Finish(id, res, ok)
  PROVE  Mirrors(entries', disk')
<1> DEFINE entry == IF id \in DOMAIN entries THEN Finished(entries[id], res)
                    ELSE NewEntry("finished", res)
<1>1. up /\ Sound(disk) /\ Mirrors(entries, disk)
  BY DEF Finish, MirrorInv, LogInv
<1>2. PICK s \in Pruned(Put(entries, id, entry)) :
         /\ Save(s, ok)
         /\ entries' = IF ok THEN s
                       ELSE IF id \in DOMAIN entries THEN Put(s, id, entries[id])
                       ELSE Without(s, id)
  BY DEF Finish
<1>3. KeepsProtected(Put(entries, id, entry), s)
  BY <1>2, PrunedKeepsProtected
<1>4. CASE ok
  BY <1>2, <1>4, MirrorsItself DEF Save
<1>5. CASE ~ok /\ id \in DOMAIN entries
  BY <1>1, <1>2, <1>3, <1>5, MirrorsRestored DEF Save
<1>6. CASE ~ok /\ id \notin DOMAIN entries
  BY <1>1, <1>2, <1>3, <1>6, MirrorsTakenBack DEF Save
<1>7. QED
  BY <1>4, <1>5, <1>6

LEMMA AckMirrors ==
  ASSUME MirrorInv, NEW id \in TaskIDs, NEW ok \in BOOLEAN, Ack(id, ok)
  PROVE  Mirrors(entries', disk')
<1>1. up /\ Sound(disk) /\ Mirrors(entries, disk)
  BY DEF Ack, MirrorInv, LogInv
<1>2. CASE id \notin DOMAIN entries
  BY <1>1, <1>2 DEF Ack
<1>3. CASE id \in DOMAIN entries
  <2>1. PICK s \in Pruned(Put(entries, id, [entries[id] EXCEPT !.acked = TRUE])) :
           /\ Save(s, ok)
           /\ entries' = IF ok THEN s ELSE Put(s, id, Unacked(entries[id]))
    BY <1>3 DEF Ack, Unacked
  <2>2. CASE ok
    BY <2>1, <2>2, MirrorsItself DEF Save
  <2>3. CASE ~ok
    BY <1>1, <1>3, <2>1, <2>3, PrunedKeepsProtected, MirrorsRestored DEF Save
  <2>4. QED
    BY <2>2, <2>3
<1>4. QED
  BY <1>2, <1>3

LEMMA OpenMirrors ==
  ASSUME NEW ok \in BOOLEAN, Open(ok), up'
  PROVE  Mirrors(entries', disk')
<1>1. ok
  BY DEF Open
<1>2. entries' = disk'
  BY <1>1 DEF Open, Save
<1>3. QED
  BY <1>2, MirrorsItself

LEMMA MirrorStep == MirrorInv /\ [LogNext]_logVars => MirrorInv'
<1> SUFFICES ASSUME MirrorInv, [LogNext]_logVars, up' PROVE Mirrors(entries', disk')
  BY LogStepInv DEF MirrorInv
<1>1. CASE \E ok \in BOOLEAN : Open(ok)
  BY <1>1, OpenMirrors
<1>2. CASE Crash
  BY <1>2 DEF Crash
<1>3. CASE \E id \in TaskIDs, outcome \in BeginOutcomes : Begin(id, outcome)
  BY <1>3, BeginMirrors
<1>4. CASE \E id \in TaskIDs, res \in Results, ok \in BOOLEAN : Finish(id, res, ok)
  BY <1>4, FinishMirrors
<1>5. CASE \E id \in TaskIDs, ok \in BOOLEAN : Ack(id, ok)
  BY <1>5, AckMirrors
<1>6. CASE Tick
  BY <1>6 DEF Tick, MirrorInv
<1>7. CASE UNCHANGED logVars
  BY <1>7 DEF logVars, MirrorInv
<1>8. QED
  BY <1>1, <1>2, <1>3, <1>4, <1>5, <1>6, <1>7 DEF LogNext

LEMMA MirrorInvariant == LogSpec => []MirrorInv
<1>1. LogInit => MirrorInv
  BY LogInitInv DEF LogInit, MirrorInv
<1>2. QED
  BY <1>1, MirrorStep, PTL DEF LogSpec

\* Whatever writes failed, a running agent works on what a restart would reload,
\* short of acknowledgements it has lost and of entries that may be forgotten.
THEOREM MemoryFollowsDisk == LogSpec => []MemoryMatchesDisk
<1>1. MirrorInv => MemoryMatchesDisk
  BY DEF MirrorInv, Mirrors, MemoryMatchesDisk
<1>2. QED
  BY <1>1, MirrorInvariant, PTL

(***************************************************************************)
(* What the file protects survives every step.                             *)
(***************************************************************************)

\* The body of ProtectedSurvives, for one task.
Survives(id) ==
  /\ ~disk[id].acked => id \in DOMAIN disk' \/ Ack(id, TRUE)
  /\ up /\ disk[id].state = "started" =>
       id \in DOMAIN disk' \/ \E res \in Results : Finish(id, res, TRUE)

\* A save keeps on file what is in the map it writes.
LEMMA SaveKeeps ==
  ASSUME NEW s, NEW ok \in BOOLEAN, Save(s, ok), NEW id \in DOMAIN disk,
         ok => id \in DOMAIN s
  PROVE  id \in DOMAIN disk'
  BY DEF Save

LEMMA OpenSurvives ==
  ASSUME MirrorInv, NEW ok \in BOOLEAN, Open(ok), NEW id \in DOMAIN disk
  PROVE  Survives(id)
<1>1. ~up
  BY DEF Open
<1>2. ASSUME ~disk[id].acked
      PROVE  id \in DOMAIN disk'
  <2>1. PICK m \in Pruned(disk) :
           \/ disk' = disk
           \/ \E s \in Pruned(InterruptStarted(m)) : Save(s, ok)
    BY DEF Open
  <2>2. id \in DOMAIN m /\ m[id] = disk[id]
    BY <1>2, PrunedKeepsProtected DEF KeepsProtected, Protected
  <2>3. CASE disk' = disk
    BY <2>3
  <2>4. ASSUME NEW s \in Pruned(InterruptStarted(m)), Save(s, ok)
        PROVE  id \in DOMAIN disk'
    <3>1. disk[id] \in Entry
      BY DEF MirrorInv, LogInv, Sound, IsEntryMap
    <3>2. ~Interrupted(m[id]).acked
      BY <1>2, <2>2, <3>1 DEF Interrupted, Entry
    <3>3. id \in DOMAIN InterruptStarted(m) /\ Protected(InterruptStarted(m)[id])
      BY <1>2, <2>2, <3>2 DEF InterruptStarted, Protected
    <3>4. id \in DOMAIN s
      BY <2>4, <3>3, PrunedKeepsProtected DEF KeepsProtected
    <3>5. QED
      BY <2>4, <3>4, SaveKeeps
  <2>5. QED
    BY <2>1, <2>3, <2>4
<1>3. QED
  BY <1>1, <1>2 DEF Survives

LEMMA BeginSurvives ==
  ASSUME MirrorInv, NEW new \in TaskIDs, NEW outcome, Begin(new, outcome),
         NEW id \in DOMAIN disk
  PROVE  Survives(id)
<1> SUFFICES ASSUME Protected(disk[id]) PROVE id \in DOMAIN disk'
  BY DEF Survives, Protected
<1>1. id \in DOMAIN entries /\ Protected(entries[id])
  BY MirroredIsProtected DEF Begin, MirrorInv, LogInv
<1>2. PICK m \in Pruned(entries) :
         \/ disk' = disk
         \/ \E e \in Shrunk(m, Capacity - 1) :
              \E s \in Pruned(Put(e, new, NewEntry("started", NoResult))) :
                Save(s, outcome = "ok")
  BY DEF Begin
<1>3. id \in DOMAIN m /\ m[id] = entries[id]
  BY <1>1, PrunedKeepsProtected DEF KeepsProtected
<1>4. CASE disk' = disk
  BY <1>4
<1>5. ASSUME NEW e \in Shrunk(m, Capacity - 1),
             NEW s \in Pruned(Put(e, new, NewEntry("started", NoResult))),
             Save(s, outcome = "ok")
      PROVE  id \in DOMAIN disk'
  <2>1. id \in DOMAIN e /\ e[id] = entries[id]
    BY <1>1, <1>3, ShrunkKeepsProtected DEF KeepsProtected
  <2>2. Protected(NewEntry("started", NoResult))
    BY DEF NewEntry, Protected
  <2>3. id \in DOMAIN s
    BY <1>1, <2>1, <2>2, PrunedKeepsProtected, OthersKept
  <2>4. QED
    BY <1>5, <2>3, SaveKeeps
<1>6. QED
  BY <1>2, <1>4, <1>5

LEMMA FinishSurvives ==
  ASSUME MirrorInv, NEW done \in TaskIDs, NEW res \in Results, NEW ok \in BOOLEAN,
         Finish(done, res, ok), NEW id \in DOMAIN disk
  PROVE  Survives(id)
<1> DEFINE entry == IF done \in DOMAIN entries THEN Finished(entries[done], res)
                    ELSE NewEntry("finished", res)
<1>1. /\ Mirrors(entries, disk)
      /\ Sound(disk)
      /\ disk[id] \in Entry
  BY DEF Finish, MirrorInv, LogInv, Sound, IsEntryMap
<1>2. PICK s \in Pruned(Put(entries, done, entry)) : Save(s, ok)
  BY DEF Finish
<1>3. KeepsProtected(Put(entries, done, entry), s)
  BY PrunedKeepsProtected
<1>4. CASE id # done
  <2> SUFFICES ASSUME Protected(disk[id]) PROVE id \in DOMAIN disk'
    BY DEF Survives, Protected
  <2>1. id \in DOMAIN entries /\ Protected(entries[id])
    BY <1>1, MirroredIsProtected
  <2>2. id \in DOMAIN s
    BY <1>3, <1>4, <2>1, OthersKept
  <2>3. QED
    BY <1>2, <2>2, SaveKeeps
<1>5. CASE id = done /\ ~ok
  BY <1>2, <1>5 DEF Save, Survives
<1>6. CASE id = done /\ ok
  <2>1. ASSUME ~disk[id].acked
        PROVE  id \in DOMAIN disk'
    <3>1. id \in DOMAIN entries
      BY <1>1, <2>1, MirroredIsProtected DEF Protected
    <3>2. entries[id] \in {disk[id], Unacked(disk[id])}
      BY <1>1, <3>1 DEF Mirrors
    <3>3. entries[id] \in Entry /\ ~entries[id].acked
      BY <1>1, <2>1, <3>2, UnackedEntry
    <3>4. Protected(Finished(entries[id], res))
      BY <3>3 DEF Protected, Finished, Entry
    <3>5. id \in DOMAIN s
      BY <1>3, <1>6, <3>1, <3>4, OthersKept
    <3>6. QED
      BY <1>2, <3>5, SaveKeeps
  <2>2. \E r \in Results : Finish(id, r, TRUE)
    BY <1>6
  <2>3. QED
    BY <2>1, <2>2 DEF Survives
<1>7. QED
  BY <1>4, <1>5, <1>6

LEMMA AckSurvives ==
  ASSUME MirrorInv, NEW done \in TaskIDs, NEW ok \in BOOLEAN, Ack(done, ok),
         NEW id \in DOMAIN disk
  PROVE  Survives(id)
<1> DEFINE entry == [entries[done] EXCEPT !.acked = TRUE]
<1>1. /\ Mirrors(entries, disk)
      /\ Sound(disk)
      /\ disk[id] \in Entry
  BY DEF Ack, MirrorInv, LogInv, Sound, IsEntryMap
<1>2. CASE done \notin DOMAIN entries
  BY <1>2 DEF Ack, Survives
<1>3. CASE done \in DOMAIN entries
  <2>1. PICK s \in Pruned(Put(entries, done, entry)) : Save(s, ok)
    BY <1>3 DEF Ack
  <2>2. KeepsProtected(Put(entries, done, entry), s)
    BY PrunedKeepsProtected
  <2>3. CASE id # done
    <3> SUFFICES ASSUME Protected(disk[id]) PROVE id \in DOMAIN disk'
      BY DEF Survives, Protected
    <3>1. id \in DOMAIN entries /\ Protected(entries[id])
      BY <1>1, MirroredIsProtected
    <3>2. id \in DOMAIN s
      BY <2>2, <2>3, <3>1, OthersKept
    <3>3. QED
      BY <2>1, <3>2, SaveKeeps
  <2>4. CASE id = done /\ ~ok
    BY <2>1, <2>4 DEF Save, Survives
  <2>5. CASE id = done /\ ok
    <3>1. Ack(id, TRUE)
      BY <2>5
    <3>2. ASSUME disk[id].state = "started"
          PROVE  id \in DOMAIN disk'
      <4>1. entries[id] \in {disk[id], Unacked(disk[id])}
        BY <1>1, <1>3, <2>5 DEF Mirrors
      <4>2. entries[id] \in Entry /\ entries[id].state = "started"
        BY <1>1, <3>2, <4>1, UnackedEntry
      <4>3. Protected(entry)
        BY <2>5, <4>2 DEF Protected, Entry
      <4>4. id \in DOMAIN s
        BY <2>2, <2>5, <4>3, OthersKept
      <4>5. QED
        BY <2>1, <4>4, SaveKeeps
    <3>3. QED
      BY <3>1, <3>2 DEF Survives
  <2>6. QED
    BY <2>3, <2>4, <2>5
<1>4. QED
  BY <1>2, <1>3

\* No operation, failed write, crash or restart makes the log file lose a task
\* whose result the server has not taken, short of the acknowledgement itself, nor
\* one that still runs, short of its own finish.
THEOREM ProtectedTasksSurvive == LogSpec => ProtectedSurvives
<1>1. ASSUME MirrorInv, LogNext, NEW id \in DOMAIN disk
      PROVE  Survives(id)
  <2>1. CASE \E ok \in BOOLEAN : Open(ok)
    BY <1>1, <2>1, OpenSurvives
  <2>2. CASE Crash \/ Tick
    BY <2>2 DEF Crash, Tick, Survives
  <2>3. CASE \E new \in TaskIDs, outcome \in BeginOutcomes : Begin(new, outcome)
    BY <1>1, <2>3, BeginSurvives
  <2>4. CASE \E done \in TaskIDs, res \in Results, ok \in BOOLEAN : Finish(done, res, ok)
    BY <1>1, <2>4, FinishSurvives
  <2>5. CASE \E done \in TaskIDs, ok \in BOOLEAN : Ack(done, ok)
    BY <1>1, <2>5, AckSurvives
  <2>6. QED
    BY <1>1, <2>1, <2>2, <2>3, <2>4, <2>5 DEF LogNext
<1>2. MirrorInv /\ [LogNext]_logVars => [\A id \in DOMAIN disk : Survives(id)]_logVars
  BY <1>1
<1>3. QED
  BY <1>2, MirrorInvariant, PTL DEF LogSpec, ProtectedSurvives, Survives

(***************************************************************************)
(* What one step of the log does to one task's entry on disk.              *)
(***************************************************************************)

\* f is e, or e without its acknowledgement.
SameTask(e, f) == f.state = e.state /\ f.result = e.result /\ (f.acked => e.acked)

\* The entry stays as it is, or is forgotten when nothing protects it.
TaskKept(t) ==
  /\ t \in DOMAIN disk' => t \in DOMAIN disk /\ SameTask(disk[t], disk'[t])
  /\ t \in DOMAIN disk /\ Protected(disk[t]) => t \in DOMAIN disk'

\* Begin writes a new entry, over none or over one it was free to forget.
TaskBegan(t) ==
  /\ t \in DOMAIN disk => ~Protected(disk[t])
  /\ t \in DOMAIN disk' /\ disk'[t].state = "started" /\ ~disk'[t].acked

\* Finish, or the interruption at a restart, ends a running task.
TaskEnded(t) ==
  /\ t \in DOMAIN disk /\ disk[t].state = "started"
  /\ t \in DOMAIN disk' /\ disk'[t].state # "started"
  /\ disk'[t].acked => disk[t].acked

\* Ack changes nothing else, but the entry may be forgotten once it is there.
TaskAcked(t) ==
  /\ t \in DOMAIN disk' =>
       /\ t \in DOMAIN disk
       /\ disk'[t].state = disk[t].state
       /\ disk'[t].result = disk[t].result
  /\ t \in DOMAIN disk /\ disk[t].state = "started" => t \in DOMAIN disk'

\* A file that is not written keeps every task.
LEMMA UnwrittenKeeps ==
  ASSUME disk' = disk, NEW t
  PROVE  TaskKept(t)
  BY DEF TaskKept, SameTask

\* A file that is written keeps every task but the one whose entry was changed.
LEMMA WrittenKeeps ==
  ASSUME Sound(disk), NEW m, Mirrors(m, disk), NEW id, NEW e,
         NEW s, KeepsProtected(Put(m, id, e), s), disk' = s,
         NEW t, t # id
  PROVE  TaskKept(t)
<1>1. ASSUME t \in DOMAIN s
      PROVE  t \in DOMAIN disk /\ SameTask(disk[t], s[t])
  <2>1. t \in DOMAIN m /\ s[t] = m[t]
    BY <1>1, OthersKept
  <2>2. t \in DOMAIN disk /\ m[t] \in {disk[t], Unacked(disk[t])}
    BY <2>1 DEF Mirrors
  <2>3. disk[t] \in Entry
    BY <2>2 DEF Sound, IsEntryMap
  <2>4. SameTask(disk[t], m[t])
    BY <2>2, <2>3 DEF SameTask, Unacked, Entry
  <2>5. QED
    BY <2>1, <2>2, <2>4
<1>2. ASSUME t \in DOMAIN disk, Protected(disk[t])
      PROVE  t \in DOMAIN s
  <2>1. t \in DOMAIN m /\ Protected(m[t])
    BY <1>2, MirroredIsProtected
  <2>2. QED
    BY <2>1, OthersKept
<1>3. QED
  BY <1>1, <1>2 DEF TaskKept

\* Begin either leaves the file alone, and then tells the state the log knows, or
\* starts the task.
LEMMA BeginEffect ==
  ASSUME MirrorInv, NEW id \in TaskIDs, NEW outcome, Begin(id, outcome)
  PROVE  /\ outcome # "ok" => disk' = disk
         /\ outcome = "ok" => TaskBegan(id) /\ \A t \in TaskIDs \ {id} : TaskKept(t)
         /\ outcome \in {"finished", "interrupted", "started"} =>
              id \in DOMAIN entries /\ entries[id].state = outcome
<1>1. up /\ Sound(disk) /\ Sound(entries) /\ Mirrors(entries, disk) /\ now \in Nat
  BY DEF Begin, MirrorInv, LogInv
<1>2. PICK m \in Pruned(entries) :
         \/ /\ id \in DOMAIN m
            /\ outcome = m[id].state
            /\ disk' = disk
         \/ /\ id \notin DOMAIN m
            /\ \E e \in Shrunk(m, Capacity - 1) :
                 \/ outcome = "full" /\ disk' = disk
                 \/ /\ outcome \in {"ok", "failed"}
                    /\ \E s \in Pruned(Put(e, id, NewEntry("started", NoResult))) :
                         Save(s, outcome = "ok")
  BY DEF Begin
<1>3. KeepsProtected(entries, m) /\ Mirrors(m, disk)
  BY <1>1, PrunedKeepsProtected, MirrorsPart
<1>4. CASE id \in DOMAIN m /\ outcome = m[id].state /\ disk' = disk
  <2>1. id \in DOMAIN entries /\ m[id] = entries[id]
    BY <1>3, <1>4 DEF KeepsProtected
  <2>2. entries[id] \in Entry
    BY <1>1, <2>1 DEF Sound, IsEntryMap
  <2>3. QED
    BY <1>4, <2>1, <2>2 DEF Entry
<1>5. ASSUME id \notin DOMAIN m, outcome = "ok", NEW e \in Shrunk(m, Capacity - 1),
             NEW s \in Pruned(Put(e, id, NewEntry("started", NoResult))),
             Save(s, TRUE)
      PROVE  TaskBegan(id) /\ \A t \in TaskIDs \ {id} : TaskKept(t)
  <2>1. Mirrors(e, disk) /\ KeepsProtected(m, e)
    BY <1>1, <1>3, ShrunkKeepsProtected, MirrorsPart
  <2>2. KeepsProtected(Put(e, id, NewEntry("started", NoResult)), s)
    BY PrunedKeepsProtected
  <2>3. disk' = s
    BY <1>5 DEF Save
  <2>4. \A t \in TaskIDs \ {id} : TaskKept(t)
    BY <1>1, <2>1, <2>2, <2>3, WrittenKeeps
  <2>5. /\ NewEntry("started", NoResult).state = "started"
        /\ ~NewEntry("started", NoResult).acked
        /\ Protected(NewEntry("started", NoResult))
    BY DEF NewEntry, Protected
  <2>6. id \in DOMAIN s
    BY <2>2, <2>5, OthersKept
  <2>7. s[id] = NewEntry("started", NoResult)
    BY <2>2, <2>6 DEF KeepsProtected, Put
  <2>8. id \in DOMAIN disk => ~Protected(disk[id])
    BY <1>1, <1>3, <1>5, MirroredIsProtected
  <2>9. QED
    BY <2>3, <2>4, <2>5, <2>6, <2>7, <2>8 DEF TaskBegan
<1>6. QED
  BY <1>2, <1>4, <1>5 DEF Save

(***************************************************************************)
(* The log never holds more than its capacity, in memory or on disk; so a  *)
(* save that adds no entry evicts none.                                    *)
(***************************************************************************)
Bounded(m) == IsFiniteSet(DOMAIN m) /\ Cardinality(DOMAIN m) <= Capacity

LEMMA BoundedPart ==
  ASSUME NEW m, Bounded(m), NEW s, DOMAIN s \subseteq DOMAIN m
  PROVE  Bounded(s)
<1>1. /\ IsFiniteSet(DOMAIN s)
      /\ Cardinality(DOMAIN s) <= Cardinality(DOMAIN m)
      /\ Cardinality(DOMAIN s) \in Nat /\ Cardinality(DOMAIN m) \in Nat
  BY FS_Subset, FS_CardinalityType DEF Bounded
<1>2. QED
  BY <1>1, LogAssumption DEF Bounded

\* Storing an entry under a key the map has adds none.
LEMMA BoundedPut ==
  ASSUME NEW m, Bounded(m), NEW id \in DOMAIN m, NEW e
  PROVE  Bounded(Put(m, id, e)) /\ DOMAIN Put(m, id, e) = DOMAIN m
<1>1. DOMAIN Put(m, id, e) = DOMAIN m
  BY DEF Put
<1>2. QED
  BY <1>1, BoundedPart

\* Storing one more entry keeps a map with room within the capacity.
LEMMA BoundedInsert ==
  ASSUME NEW m, Bounded(m), Cardinality(DOMAIN m) < Capacity, NEW id, NEW e
  PROVE  Bounded(Put(m, id, e))
<1>1. DOMAIN Put(m, id, e) = DOMAIN m \cup {id}
  BY DEF Put
<1>2. /\ IsFiniteSet(DOMAIN m \cup {id})
      /\ \/ Cardinality(DOMAIN m \cup {id}) = Cardinality(DOMAIN m)
         \/ Cardinality(DOMAIN m \cup {id}) = Cardinality(DOMAIN m) + 1
      /\ Cardinality(DOMAIN m) \in Nat
  BY FS_AddElement, FS_CardinalityType DEF Bounded
<1>3. QED
  BY <1>1, <1>2, LogAssumption DEF Bounded

\* The eviction loop is not entered when there is nothing in excess.
LEMMA NothingInExcess ==
  ASSUME NEW m, Bounded(m), NEW s \in Shrunk(m, Capacity)
  PROVE  DOMAIN s = DOMAIN m
<1>1. PICK gone \in SUBSET Droppable(m) :
         StopsAt(m, gone, Capacity) /\ s = Restrict(m, DOMAIN m \ gone)
  BY DEF Shrunk
<1>2. gone \subseteq DOMAIN m
  BY DEF Droppable
<1>3. IsFiniteSet(gone) /\ Cardinality(gone) \in Nat /\ Cardinality(DOMAIN m) \in Nat
  BY <1>2, FS_Subset, FS_CardinalityType DEF Bounded
<1>4. ASSUME gone # {} PROVE FALSE
  <2>1. Cardinality(gone) # 0
    BY <1>3, <1>4, FS_EmptySet
  <2>2. Cardinality(DOMAIN m) - Cardinality(gone) >= Capacity
    BY <1>1, <1>4 DEF StopsAt
  <2>3. QED
    BY <1>3, <2>1, <2>2, LogAssumption DEF Bounded
<1>5. QED
  BY <1>1, <1>4 DEF Restrict

\* What was finished or interrupted just now is not forgotten by the save that
\* writes it, even if it was already acknowledged.
LEMMA FreshIsKept ==
  ASSUME now \in Nat, NEW m, Bounded(m), NEW id \in DOMAIN m, m[id].finishedAt = now,
         NEW s \in Pruned(m)
  PROVE  id \in DOMAIN s /\ s[id] = m[id]
<1> DEFINE kept == Restrict(m, {x \in DOMAIN m : ~Expired(m[x])})
<1>1. ~Expired(m[id])
  BY LogAssumption DEF Expired
<1>2. DOMAIN kept = {x \in DOMAIN m : ~Expired(m[x])}
  BY DEF Restrict
<1>3. Bounded(kept)
  BY <1>2, BoundedPart
<1>4. s \in Shrunk(kept, Capacity)
  BY DEF Pruned
<1>5. DOMAIN s = DOMAIN kept
  BY <1>3, <1>4, NothingInExcess
<1>6. QED
  BY <1>1, <1>2, <1>5, PrunedKeepsProtected DEF KeepsProtected

\* Memory and file stay within the capacity.
LEMMA PrunedBounded ==
  ASSUME NEW m, Bounded(m), NEW s \in Pruned(m)
  PROVE  Bounded(s)
  BY PrunedKeepsProtected, BoundedPart DEF KeepsProtected

BothBounded == Bounded(entries) /\ Bounded(disk)

LEMMA BeginBounded ==
  ASSUME BothBounded, NEW id \in TaskIDs, NEW outcome, Begin(id, outcome)
  PROVE  Bounded(entries') /\ Bounded(disk')
<1>1. PICK m \in Pruned(entries) :
         \/ /\ entries' = m
            /\ UNCHANGED <<disk, saveFails>>
         \/ /\ id \notin DOMAIN m
            /\ \E e \in Shrunk(m, Capacity - 1) :
                 \/ /\ entries' = e
                    /\ UNCHANGED <<disk, saveFails>>
                 \/ /\ Cardinality(DOMAIN e) < Capacity
                    /\ \E s \in Pruned(Put(e, id, NewEntry("started", NoResult))) :
                         /\ Save(s, outcome = "ok")
                         /\ entries' = IF outcome = "ok" THEN s ELSE FailedBegin(s, id)
  BY DEF Begin
<1>2. Bounded(m)
  BY PrunedBounded DEF BothBounded
<1>3. CASE entries' = m /\ UNCHANGED <<disk, saveFails>>
  BY <1>2, <1>3 DEF BothBounded
<1>4. ASSUME NEW e \in Shrunk(m, Capacity - 1), entries' = e, disk' = disk
      PROVE  Bounded(entries') /\ Bounded(disk')
  BY <1>2, <1>4, ShrunkKeepsProtected, BoundedPart DEF BothBounded, KeepsProtected
<1>5. ASSUME NEW e \in Shrunk(m, Capacity - 1), Cardinality(DOMAIN e) < Capacity,
             NEW s \in Pruned(Put(e, id, NewEntry("started", NoResult))),
             Save(s, outcome = "ok"),
             entries' = IF outcome = "ok" THEN s ELSE FailedBegin(s, id)
      PROVE  Bounded(entries') /\ Bounded(disk')
  <2>1. Bounded(e)
    BY <1>2, ShrunkKeepsProtected, BoundedPart DEF KeepsProtected
  <2>2. Bounded(Put(e, id, NewEntry("started", NoResult)))
    BY <1>5, <2>1, BoundedInsert
  <2>3. Bounded(s)
    BY <2>2, PrunedBounded
  <2>4. DOMAIN Without(s, id) \subseteq DOMAIN s
    BY DEF Without, Restrict
  <2>5. Bounded(Without(s, id))
    BY <2>3, <2>4, BoundedPart
  <2>6. QED
    BY <1>5, <2>3, <2>5 DEF Save, FailedBegin, BothBounded
<1>6. QED
  BY <1>1, <1>3, <1>4, <1>5

\* Finishing a task that the log has as started writes its result and keeps all
\* others; when the save fails the file stays as it is.
LEMMA FinishEffect ==
  ASSUME MirrorInv, BothBounded, NEW id \in TaskIDs, NEW res \in Results,
         NEW ok \in BOOLEAN, Finish(id, res, ok),
         id \in DOMAIN disk, disk[id].state = "started"
  PROVE  /\ ~ok => disk' = disk
         /\ ok => /\ TaskEnded(id) /\ disk'[id].result = res
                  /\ \A t \in TaskIDs \ {id} : TaskKept(t)
         /\ Bounded(entries') /\ Bounded(disk')
<1> DEFINE entry == Finished(entries[id], res)
           all == Put(entries, id, entry)
<1>1. up /\ Sound(disk) /\ Sound(entries) /\ Mirrors(entries, disk) /\ now \in Nat
  BY DEF Finish, MirrorInv, LogInv
<1>2. disk[id] \in Entry
  BY <1>1 DEF Sound, IsEntryMap
<1>3. id \in DOMAIN entries /\ entries[id] \in {disk[id], Unacked(disk[id])}
  BY <1>1 DEF Mirrors, Protected
<1>4. PICK s \in Pruned(all) :
         /\ Save(s, ok)
         /\ entries' = IF ok THEN s ELSE Put(s, id, entries[id])
  BY <1>3 DEF Finish
<1>5. /\ entries[id] \in Entry
      /\ entries[id].acked => disk[id].acked
  BY <1>2, <1>3, UnackedEntry DEF Entry
<1>6. /\ entry.state = "finished" /\ entry.result = res /\ entry.finishedAt = now
      /\ entry.acked = entries[id].acked
  BY <1>5 DEF Finished, Entry
<1>7. id \in DOMAIN all /\ all[id] = entry
  BY DEF Put
<1>8. Bounded(all) /\ DOMAIN all = DOMAIN entries
  BY <1>3, BoundedPut DEF BothBounded
<1>9. id \in DOMAIN s /\ s[id] = entry
  BY <1>1, <1>6, <1>7, <1>8, FreshIsKept
<1>10. Bounded(s)
  BY <1>8, PrunedBounded
<1>11. CASE ok
  <2>1. disk' = s /\ entries' = s
    BY <1>4, <1>11 DEF Save
  <2>2. KeepsProtected(all, s)
    BY PrunedKeepsProtected
  <2>3. \A t \in TaskIDs \ {id} : TaskKept(t)
    BY <1>1, <2>1, <2>2, WrittenKeeps
  <2>4. TaskEnded(id)
    BY <1>5, <1>6, <1>9, <2>1 DEF TaskEnded
  <2>5. QED
    BY <1>6, <1>9, <1>10, <1>11, <2>1, <2>3, <2>4
<1>12. CASE ~ok
  <2>1. disk' = disk /\ entries' = Put(s, id, entries[id])
    BY <1>4, <1>12 DEF Save
  <2>2. Bounded(entries')
    BY <1>9, <1>10, <2>1, BoundedPut
  <2>3. QED
    BY <1>12, <2>1, <2>2 DEF BothBounded
<1>13. QED
  BY <1>11, <1>12

\* An acknowledgement keeps the task's state and result, and all other tasks.
LEMMA AckEffect ==
  ASSUME MirrorInv, BothBounded, NEW id \in TaskIDs, NEW ok \in BOOLEAN, Ack(id, ok)
  PROVE  /\ TaskAcked(id)
         /\ \A t \in TaskIDs \ {id} : TaskKept(t)
         /\ Bounded(entries') /\ Bounded(disk')
<1> DEFINE entry == [entries[id] EXCEPT !.acked = TRUE]
           all == Put(entries, id, entry)
<1>1. up /\ Sound(disk) /\ Sound(entries) /\ Mirrors(entries, disk)
  BY DEF Ack, MirrorInv, LogInv
<1>2. ASSUME disk' = disk
      PROVE  TaskAcked(id) /\ \A t \in TaskIDs \ {id} : TaskKept(t)
  BY <1>2, UnwrittenKeeps DEF TaskAcked
<1>3. CASE id \notin DOMAIN entries
  BY <1>2, <1>3 DEF Ack, BothBounded
<1>4. CASE id \in DOMAIN entries
  <2>1. PICK s \in Pruned(all) :
           /\ Save(s, ok)
           /\ entries' = IF ok THEN s ELSE Put(s, id, [entries[id] EXCEPT !.acked = FALSE])
    BY <1>4 DEF Ack
  <2>2. Bounded(all) /\ DOMAIN all = DOMAIN entries /\ all[id] = entry
    BY <1>4, BoundedPut DEF BothBounded, Put
  <2>3. KeepsProtected(all, s) /\ Bounded(s)
    BY <2>2, PrunedKeepsProtected, PrunedBounded
  <2>4. id \in DOMAIN disk /\ entries[id] \in {disk[id], Unacked(disk[id])}
    BY <1>1, <1>4 DEF Mirrors
  <2>5. disk[id] \in Entry /\ entries[id] \in Entry
    BY <1>1, <1>4, <2>4 DEF Sound, IsEntryMap
  <2>6. entry.state = disk[id].state /\ entry.result = disk[id].result
    BY <2>4, <2>5 DEF Entry, Unacked
  <2>7. CASE ok
    <3>1. disk' = s /\ entries' = s
      BY <2>1, <2>7 DEF Save
    <3>2. \A t \in TaskIDs \ {id} : TaskKept(t)
      BY <1>1, <2>3, <3>1, WrittenKeeps
    <3>3. id \in DOMAIN s => s[id] = entry
      BY <2>2, <2>3 DEF KeepsProtected
    <3>4. disk[id].state = "started" => id \in DOMAIN s
      BY <1>4, <2>2, <2>3, <2>6 DEF KeepsProtected, Protected
    <3>5. QED
      BY <2>3, <2>4, <2>6, <3>1, <3>2, <3>3, <3>4 DEF TaskAcked
  <2>8. CASE ~ok
    <3>1. disk' = disk /\ entries' = Put(s, id, [entries[id] EXCEPT !.acked = FALSE])
      BY <2>1, <2>8 DEF Save
    <3>2. DOMAIN entries' \subseteq DOMAIN entries
      BY <1>4, <2>2, <2>3, <3>1 DEF KeepsProtected, Put
    <3>3. Bounded(entries')
      BY <3>2, BoundedPart DEF BothBounded
    <3>4. QED
      BY <1>2, <3>1, <3>3 DEF BothBounded
  <2>9. QED
    BY <2>7, <2>8
<1>5. QED
  BY <1>3, <1>4

\* Opening the log forgets what may be forgotten and interrupts what was running.
LEMMA OpenEffect ==
  ASSUME MirrorInv, BothBounded, NEW ok \in BOOLEAN, Open(ok)
  PROVE  /\ \A t \in TaskIDs : TaskKept(t) \/ TaskEnded(t)
         /\ Bounded(entries') /\ Bounded(disk')
         /\ ~ok => entries' = entries
<1>1. Sound(disk) /\ now \in Nat
  BY DEF MirrorInv, LogInv
<1>2. PICK m \in Pruned(disk) :
         \/ ok /\ entries' = disk /\ UNCHANGED <<disk, saveFails>>
         \/ \E s \in Pruned(InterruptStarted(m)) :
              /\ Save(s, ok)
              /\ entries' = IF ok THEN s ELSE entries
  BY DEF Open
<1>3. CASE ok /\ entries' = disk /\ UNCHANGED <<disk, saveFails>>
  BY <1>3, UnwrittenKeeps DEF BothBounded
<1>4. CASE ~ok
  BY <1>2, <1>4, UnwrittenKeeps DEF Save, BothBounded
<1>5. ASSUME ok, NEW s \in Pruned(InterruptStarted(m)), Save(s, ok), entries' = s
      PROVE  /\ \A t \in TaskIDs : TaskKept(t) \/ TaskEnded(t)
             /\ Bounded(entries') /\ Bounded(disk')
  <2> DEFINE all == InterruptStarted(m)
  <2>1. disk' = s
    BY <1>5 DEF Save
  <2>2. KeepsProtected(disk, m) /\ KeepsProtected(all, s)
    BY PrunedKeepsProtected
  <2>3. DOMAIN all = DOMAIN m
    BY DEF InterruptStarted
  <2>4. Bounded(all) /\ Bounded(s)
    BY <2>2, <2>3, BoundedPart DEF KeepsProtected, BothBounded
  <2>5. ASSUME NEW t \in DOMAIN disk, disk[t].state = "started"
        PROVE  TaskEnded(t)
    <3>1. disk[t] \in Entry
      BY <1>1 DEF Sound, IsEntryMap
    <3>2. t \in DOMAIN m /\ m[t] = disk[t]
      BY <2>2, <2>5 DEF KeepsProtected, Protected
    <3>3. all[t] = Interrupted(disk[t])
      BY <2>5, <3>2 DEF InterruptStarted
    <3>4. /\ all[t].state = "interrupted" /\ all[t].finishedAt = now
          /\ all[t].acked = disk[t].acked
      BY <3>1, <3>3 DEF Interrupted, Entry
    <3>5. t \in DOMAIN s /\ s[t] = all[t]
      BY <1>1, <1>5, <2>3, <2>4, <3>2, <3>4, FreshIsKept
    <3>6. QED
      BY <2>1, <2>5, <3>4, <3>5 DEF TaskEnded
  <2>6. ASSUME NEW t \in TaskIDs, t \in DOMAIN disk => disk[t].state # "started"
        PROVE  TaskKept(t)
    <3>1. t \in DOMAIN m => t \in DOMAIN disk /\ m[t] = disk[t] /\ all[t] = disk[t]
      BY <2>2, <2>6 DEF KeepsProtected, InterruptStarted
    <3>2. t \in DOMAIN s => t \in DOMAIN m /\ s[t] = all[t]
      BY <2>2, <2>3 DEF KeepsProtected
    <3>3. t \in DOMAIN disk /\ Protected(disk[t]) => t \in DOMAIN s
      BY <2>2, <2>3, <3>1 DEF KeepsProtected
    <3>4. QED
      BY <2>1, <3>1, <3>2, <3>3 DEF TaskKept, SameTask
  <2>7. QED
    BY <1>5, <2>1, <2>4, <2>5, <2>6
<1>6. QED
  BY <1>2, <1>3, <1>4, <1>5

(***************************************************************************)
(* The agent's invariant: every goroutine that carries something of a task *)
(* is tied to the task's entry on disk.                                    *)
(***************************************************************************)
ExecShape ==
  /\ readers \in [Readers -> ReaderStates]
  /\ execs \subseteq ExecutorStates
  /\ \A x \in execs : x.stage = "run" => x.tries < FinishAttempts
  /\ rec \in [TaskIDs -> RecoveryStates]
  /\ seen \in Seq(TaskIDs) /\ Len(seen) <= SeenLimit
  /\ runs \in [TaskIDs -> 0..MaxRuns]
  /\ recv \in [TaskIDs -> SUBSET (Results \cup {Unknown})]
  /\ told \subseteq TaskIDs
  /\ crashes \in 0..MaxCrashes

\* A process that is down has nothing in memory.
Quiet ==
  ~up => /\ entries = NoEntries
         /\ execs = {}
         /\ \A r \in Readers : readers[r] = IdleReader
         /\ \A t \in TaskIDs : rec[t] = NoReport

Handles(r, t, stages) == readers[r].stage \in stages /\ readers[r].task = t

\* A task that never ran has left no trace but marked events.
NeverRan(t) ==
  runs[t] = 0 =>
    /\ t \notin DOMAIN disk
    /\ \A r \in Readers : ~Handles(r, t, {"upload", "confirm"})
    /\ rec[t].stage = "none"
    /\ \A x \in execs : x.task # t

\* RunningIsLogged, for one task.
RunningLogged(t) ==
  \A x \in execs : Executing(x) /\ x.task = t =>
    /\ t \in DOMAIN disk /\ disk[t].state = "started"
    /\ \A y \in execs : Executing(y) /\ y.task = t => y = x

HasEnded(t) == disk[t].state # "started"

Reported(t) == HasEnded(t) /\ disk[t].result \in recv[t]

\* Until a task runs a second time, whoever uploads a result of it holds the one on
\* disk, and who acknowledges it does so after the server has received that one.
OwnResult(t) ==
  runs[t] = 1 /\ t \in DOMAIN disk =>
    /\ disk[t].acked => Reported(t)
    /\ \A r \in Readers :
         /\ Handles(r, t, {"upload"}) => HasEnded(t) /\ readers[r].res = disk[t].result
         /\ Handles(r, t, {"confirm"}) => Reported(t)
    /\ rec[t].stage = "queued" => HasEnded(t) /\ rec[t].res = disk[t].result
    /\ rec[t].stage = "ack" => Reported(t)
    /\ \A x \in execs : x.task = t =>
         /\ x.stage = "upload" /\ x.saved => HasEnded(t) /\ disk[t].result = x.run
         /\ x.stage = "ack" => Reported(t)

\* However often a task ran, an acknowledgement, given or on its way, comes after
\* the server has received some result of it.
HasResult(t) ==
  \/ t \in DOMAIN disk /\ disk[t].acked
  \/ \E r \in Readers : Handles(r, t, {"confirm"})
  \/ rec[t].stage = "ack"
  \/ \E x \in execs : x.task = t /\ x.stage = "ack"
  => recv[t] # {}

TaskInv(t) == NeverRan(t) /\ RunningLogged(t) /\ OwnResult(t) /\ HasResult(t)

ExecInv ==
  /\ MirrorInv
  /\ ExecShape
  /\ Quiet
  /\ BothBounded
  /\ \A t \in TaskIDs : TaskInv(t)

\* No goroutine takes up anything of t in this step.
NothingTakenUp(t) ==
  /\ runs'[t] = runs[t]
  /\ recv[t] \subseteq recv'[t]
  /\ \A r \in Readers : readers'[r] = readers[r] \/ ~Handles(r, t, {"upload", "confirm"})'
  /\ rec'[t] \in {rec[t], NoReport}
  /\ \A x \in execs' : x.task = t => x \in execs

\* What a step does not take up, and keeps on disk, stays as it should be.
LEMMA KeptTask ==
  ASSUME ExecInv, NEW t \in TaskIDs, TaskKept(t), NothingTakenUp(t)
  PROVE  TaskInv(t)'
<1>1. TaskInv(t)
  BY DEF ExecInv
<1>2. /\ t \in DOMAIN disk' => t \in DOMAIN disk /\ SameTask(disk[t], disk'[t])
      /\ t \in DOMAIN disk /\ disk[t].state = "started" => t \in DOMAIN disk'
  BY DEF TaskKept, Protected
<1>3. NoReport.stage = "none"
  BY DEF NoReport
<1>4. NeverRan(t)'
  BY <1>1, <1>2, <1>3 DEF TaskInv, NeverRan, NothingTakenUp, Handles
<1>5. RunningLogged(t)'
  BY <1>1, <1>2 DEF TaskInv, RunningLogged, NothingTakenUp, SameTask, Executing
<1>6. OwnResult(t)'
  <2> SUFFICES ASSUME runs'[t] = 1, t \in DOMAIN disk' PROVE OwnResult(t)'
    BY DEF OwnResult
  <2>1. /\ runs[t] = 1 /\ t \in DOMAIN disk
        /\ disk'[t].state = disk[t].state /\ disk'[t].result = disk[t].result
        /\ disk'[t].acked => disk[t].acked
    BY <1>2 DEF NothingTakenUp, SameTask
  <2>2. /\ HasEnded(t) => HasEnded(t)'
        /\ Reported(t) => Reported(t)'
    BY <2>1 DEF HasEnded, Reported, NothingTakenUp
  <2>3. disk'[t].acked => Reported(t)'
    BY <1>1, <2>1, <2>2 DEF TaskInv, OwnResult
  <2>4. ASSUME NEW r \in Readers
        PROVE  /\ Handles(r, t, {"upload"})' => HasEnded(t)' /\ readers'[r].res = disk'[t].result
               /\ Handles(r, t, {"confirm"})' => Reported(t)'
    BY <1>1, <2>1, <2>2 DEF TaskInv, OwnResult, NothingTakenUp, Handles
  <2>5. /\ rec'[t].stage = "queued" => HasEnded(t)' /\ rec'[t].res = disk'[t].result
        /\ rec'[t].stage = "ack" => Reported(t)'
    BY <1>1, <1>3, <2>1, <2>2 DEF TaskInv, OwnResult, NothingTakenUp
  <2>6. ASSUME NEW x \in execs', x.task = t
        PROVE  /\ x.stage = "upload" /\ x.saved => HasEnded(t)' /\ disk'[t].result = x.run
               /\ x.stage = "ack" => Reported(t)'
    BY <1>1, <2>1, <2>2, <2>6 DEF TaskInv, OwnResult, NothingTakenUp
  <2>7. QED
    BY <2>3, <2>4, <2>5, <2>6 DEF OwnResult
<1>7. HasResult(t)'
  BY <1>1, <1>2, <1>3 DEF TaskInv, HasResult, NothingTakenUp, Handles, SameTask
<1>8. QED
  BY <1>4, <1>5, <1>6, <1>7 DEF TaskInv

(***************************************************************************)
(* The invariant holds at first, and each action keeps it.                 *)
(***************************************************************************)
LEMMA ExecInitInv == Init => ExecInv
<1> SUFFICES ASSUME Init PROVE ExecInv
  OBVIOUS
<1>1. MirrorInv
  BY LogInitInv DEF Init, LogInit, MirrorInv
<1>2. ExecShape
  <2>1. IdleReader \in ReaderStates /\ NoReport \in RecoveryStates
    BY DEF IdleReader, ReaderStates, NoReport, RecoveryStates
  <2>2. << >> \in Seq(TaskIDs) /\ Len(<< >>) = 0
    OBVIOUS
  <2>3. QED
    BY <2>1, <2>2, ExecAssumption DEF Init, ExecShape
<1>3. Quiet
  BY DEF Init, LogInit, Quiet
<1>4. BothBounded
  <2>1. DOMAIN NoEntries = {}
    BY DEF NoEntries
  <2>2. QED
    BY <2>1, FS_EmptySet, LogAssumption DEF Init, LogInit, BothBounded, Bounded
<1>5. ASSUME NEW t \in TaskIDs PROVE TaskInv(t)
  BY DEF Init, LogInit, NoEntries, TaskInv, NeverRan, RunningLogged, OwnResult, HasResult,
         Handles, IdleReader, NoReport
<1>6. QED
  BY <1>1, <1>2, <1>3, <1>4, <1>5 DEF ExecInv

\* Every step of the agent is one of the log or leaves it alone.
LEMMA ExecStepsLog ==
  ASSUME ExecInv, [Next]_vars
  PROVE  [LogNext]_logVars /\ MirrorInv'
<1>1. \A x \in execs : x.task \in TaskIDs /\ x.run \in Results
  BY ExecAssumption DEF ExecInv, ExecShape, ExecutorStates
<1>2. \A r \in Readers : readers[r].stage \in {"accept", "confirm"} => readers[r].task \in TaskIDs
  BY DEF ExecInv, ExecShape, ReaderStates
<1>3. [LogNext]_logVars
  <2>1. CASE \E ok \in BOOLEAN : StartAgent(ok)
    BY <2>1 DEF StartAgent, LogNext
  <2>2. CASE Die \/ Time
    BY <2>2 DEF Die, Time, LogNext
  <2>3. CASE \E r \in Readers, t \in TaskIDs : Deliver(r, t)
    BY <2>3 DEF Deliver
  <2>4. ASSUME NEW r \in Readers, ReaderStep(r)
        PROVE  [LogNext]_logVars
    BY <1>2, <2>4 DEF ReaderStep, Accept, Retransmit, ConfirmRetransmitted, LogNext
  <2>5. ASSUME NEW x \in execs, ExecutorStep(x)
        PROVE  [LogNext]_logVars
    BY <1>1, <2>5 DEF ExecutorStep, PersistFinish, UploadResult, AckResult, LogNext
  <2>6. CASE RecoveryStep
    BY <2>6 DEF RecoveryStep, RecoverySnapshot, RecoveryUpload, RecoveryAck, LogNext
  <2>7. CASE UNCHANGED vars
    BY <2>7 DEF vars
  <2>8. QED
    BY <2>1, <2>2, <2>3, <2>4, <2>5, <2>6, <2>7 DEF Next
<1>4. QED
  BY <1>3, MirrorStep DEF ExecInv

\* What the actions are shown to keep besides MirrorInv.
AgentInv == ExecShape /\ Quiet /\ BothBounded /\ \A t \in TaskIDs : TaskInv(t)

LEMMA StartAgentKeeps ==
  ASSUME ExecInv, NEW ok \in BOOLEAN, StartAgent(ok)
  PROVE  AgentInv'
<1>1. Open(ok) /\ UNCHANGED <<readers, execs, rec, seen, runs, recv, told, crashes>>
  BY DEF StartAgent, memVars, srvVars
<1>2. ~up /\ up' = ok
  BY <1>1 DEF Open
<1>3. /\ entries = NoEntries /\ execs = {}
      /\ \A r \in Readers : readers[r] = IdleReader
      /\ \A t \in TaskIDs : rec[t] = NoReport
  BY <1>2 DEF ExecInv, Quiet
<1>4. /\ \A t \in TaskIDs : TaskKept(t) \/ TaskEnded(t)
      /\ Bounded(entries') /\ Bounded(disk')
      /\ ~ok => entries' = entries
  BY <1>1, OpenEffect DEF ExecInv
<1>5. ExecShape'
  BY <1>1 DEF ExecInv, ExecShape
<1>6. Quiet'
  BY <1>1, <1>2, <1>3, <1>4 DEF Quiet
<1>7. ASSUME NEW t \in TaskIDs
      PROVE  TaskInv(t)'
  <2>1. CASE TaskKept(t)
    BY <1>1, <1>3, <2>1, KeptTask DEF NothingTakenUp
  <2>2. CASE TaskEnded(t)
    <3>1. TaskInv(t)
      BY DEF ExecInv
    <3>2. t \in DOMAIN disk /\ disk[t].state = "started" /\ (disk'[t].acked => disk[t].acked)
      BY <2>2 DEF TaskEnded
    <3>3. NeverRan(t)'
      BY <1>1, <1>3, <3>1, <3>2 DEF TaskInv, NeverRan
    <3>4. RunningLogged(t)'
      BY <1>1, <1>3 DEF RunningLogged
    <3>5. runs[t] = 1 => ~disk'[t].acked
      BY <3>1, <3>2 DEF TaskInv, OwnResult, Reported, HasEnded
    <3>6. OwnResult(t)'
      BY <1>1, <1>3, <3>5 DEF OwnResult, Handles, IdleReader, NoReport
    <3>7. HasResult(t)'
      BY <1>1, <1>3, <3>1, <3>2 DEF TaskInv, HasResult, Handles, IdleReader, NoReport
    <3>8. QED
      BY <3>3, <3>4, <3>6, <3>7 DEF TaskInv
  <2>3. QED
    BY <1>4, <2>1, <2>2
<1>8. QED
  BY <1>4, <1>5, <1>6, <1>7 DEF AgentInv, BothBounded

LEMMA DieKeeps ==
  ASSUME ExecInv, Die
  PROVE  AgentInv'
<1>1. /\ up' = FALSE /\ entries' = NoEntries /\ disk' = disk /\ execs' = {}
      /\ readers' = [r \in Readers |-> IdleReader]
      /\ rec' = [t \in TaskIDs |-> NoReport]
      /\ seen' = << >> /\ told' \subseteq told
      /\ crashes' = crashes + 1 /\ crashes < MaxCrashes
      /\ UNCHANGED <<runs, recv>>
  BY DEF Die, Crash
<1>2. ExecShape'
  <2>1. IdleReader \in ReaderStates /\ NoReport \in RecoveryStates
    BY DEF IdleReader, ReaderStates, NoReport, RecoveryStates
  <2>2. << >> \in Seq(TaskIDs) /\ Len(<< >>) = 0
    OBVIOUS
  <2>3. crashes' \in 0..MaxCrashes
    BY <1>1, ExecAssumption DEF ExecInv, ExecShape
  <2>4. QED
    BY <1>1, <2>1, <2>2, <2>3, ExecAssumption DEF ExecInv, ExecShape
<1>3. Quiet'
  BY <1>1 DEF Quiet
<1>4. Bounded(entries')
  <2>1. DOMAIN NoEntries = {}
    BY DEF NoEntries
  <2>2. QED
    BY <1>1, <2>1, FS_EmptySet, LogAssumption DEF Bounded
<1>5. ASSUME NEW t \in TaskIDs
      PROVE  TaskInv(t)'
  <2>1. NothingTakenUp(t)
    BY <1>1 DEF NothingTakenUp, Handles, IdleReader
  <2>2. QED
    BY <1>1, <2>1, UnwrittenKeeps, KeptTask
<1>6. QED
  BY <1>1, <1>2, <1>3, <1>4, <1>5 DEF AgentInv, BothBounded, ExecInv

(***************************************************************************)
(* The marks of events.                                                    *)
(***************************************************************************)
Distinct(q) == \A i, j \in 1..Len(q) : q[i] = q[j] => i = j

LEMMA InRange ==
  ASSUME NEW S, NEW q \in Seq(S), NEW x
  PROVE  x \in Range(q) <=> \E i \in 1..Len(q) : x = q[i]
  BY DEF Range

LEMMA Removal ==
  ASSUME NEW S, NEW q \in Seq(S), NEW i \in 1..Len(q)
  PROVE  /\ RemoveAt(q, i) \in Seq(S) /\ Len(RemoveAt(q, i)) = Len(q) - 1
         /\ \A k \in 1..(Len(q) - 1) : RemoveAt(q, i)[k] = IF k < i THEN q[k] ELSE q[k + 1]
<1> DEFINE a == SubSeq(q, 1, i - 1)
           b == SubSeq(q, i + 1, Len(q))
<1>1. a \in Seq(S) /\ Len(a) = i - 1 /\ \A k \in 1..(i - 1) : a[k] = q[k]
  OBVIOUS
<1>2. b \in Seq(S) /\ Len(b) = Len(q) - i /\ \A k \in 1..(Len(q) - i) : b[k] = q[k + i]
  OBVIOUS
<1>3. RemoveAt(q, i) = a \o b
  BY DEF RemoveAt
<1> HIDE DEF a, b
<1>4. a \o b \in Seq(S) /\ Len(a \o b) = Len(q) - 1
  <2>1. a \o b \in Seq(S) /\ Len(a \o b) = Len(a) + Len(b)
    BY <1>1, <1>2, ConcatProperties
  <2>2. QED
    BY <1>1, <1>2, <2>1
<1>5. ASSUME NEW k \in 1..(Len(q) - 1)
      PROVE  (a \o b)[k] = IF k < i THEN q[k] ELSE q[k + 1]
  <2>1. (a \o b)[k] = IF k <= Len(a) THEN a[k] ELSE b[k - Len(a)]
    BY <1>1, <1>2
  <2>2. CASE k < i
    BY <1>1, <2>1, <2>2
  <2>3. CASE ~(k < i)
    <3>1. k - Len(a) \in 1..(Len(q) - i) /\ k - Len(a) + i = k + 1
      BY <1>1, <2>3
    <3>2. b[k - Len(a)] = q[k + 1]
      BY <1>2, <3>1
    <3>3. QED
      BY <1>1, <2>1, <2>3, <3>2
  <2>4. QED
    BY <2>2, <2>3
<1>6. QED
  BY <1>3, <1>4, <1>5

\* Marking an event keeps the marks within their limit and distinct.
LEMMA MarkSeenFacts ==
  ASSUME seen \in Seq(TaskIDs), Len(seen) <= SeenLimit, NEW t \in TaskIDs
  PROVE  /\ MarkSeen(t) \in Seq(TaskIDs) /\ Len(MarkSeen(t)) <= SeenLimit
         /\ \A s \in Range(MarkSeen(t)) : s \in Range(seen) \/ s = t
         /\ Distinct(seen) /\ t \notin Range(seen) => Distinct(MarkSeen(t))
<1> DEFINE marked == Append(seen, t)
           rest == Tail(marked)
<1>1. /\ marked \in Seq(TaskIDs) /\ Len(marked) = Len(seen) + 1
      /\ \A k \in 1..(Len(seen) + 1) : marked[k] = IF k <= Len(seen) THEN seen[k] ELSE t
  OBVIOUS
<1>2. MarkSeen(t) = IF Len(marked) > SeenLimit THEN rest ELSE marked
  BY DEF MarkSeen
<1> HIDE DEF marked
<1>3. /\ rest \in Seq(TaskIDs) /\ Len(rest) = Len(seen)
      /\ \A k \in 1..Len(seen) : rest[k] = marked[k + 1]
  BY <1>1
<1> HIDE DEF rest
<1>4. \A s \in Range(marked) : s \in Range(seen) \/ s = t
  <2> SUFFICES ASSUME NEW s \in Range(marked) PROVE s \in Range(seen) \/ s = t
    OBVIOUS
  <2>1. PICK k \in 1..(Len(seen) + 1) : s = marked[k]
    BY <1>1, InRange
  <2>2. QED
    BY <1>1, <2>1, InRange
<1>5. \A s \in Range(rest) : s \in Range(marked)
  <2> SUFFICES ASSUME NEW s \in Range(rest) PROVE s \in Range(marked)
    OBVIOUS
  <2>1. PICK k \in 1..Len(seen) : s = marked[k + 1]
    BY <1>3, InRange
  <2>2. QED
    BY <1>1, <2>1, InRange
<1>6. ASSUME Distinct(seen), t \notin Range(seen) PROVE Distinct(marked)
  <2>1. \A k \in 1..Len(seen) : seen[k] # t
    BY <1>6, InRange
  <2>2. QED
    BY <1>1, <1>6, <2>1 DEF Distinct
<1>7. ASSUME Distinct(marked) PROVE Distinct(rest)
  <2> SUFFICES ASSUME NEW i \in 1..Len(rest), NEW j \in 1..Len(rest), rest[i] = rest[j]
               PROVE  i = j
    BY DEF Distinct
  <2>1. /\ i + 1 \in 1..Len(marked) /\ j + 1 \in 1..Len(marked)
        /\ marked[i + 1] = marked[j + 1]
    BY <1>1, <1>3
  <2>2. i + 1 = j + 1
    BY <1>7, <2>1 DEF Distinct
  <2>3. QED
    BY <2>2, <1>3
<1>8. CASE Len(marked) > SeenLimit
  BY <1>2, <1>3, <1>4, <1>5, <1>6, <1>7, <1>8
<1>9. CASE ~(Len(marked) > SeenLimit)
  BY <1>1, <1>2, <1>4, <1>6, <1>9, ExecAssumption
<1>10. QED
  BY <1>8, <1>9

\* Forgetting a mark takes it, and it alone, from distinct marks.
LEMMA ForgottenFacts ==
  ASSUME seen \in Seq(TaskIDs), NEW t
  PROVE  /\ Forgotten(t) \in Seq(TaskIDs) /\ Len(Forgotten(t)) <= Len(seen)
         /\ \A s \in Range(Forgotten(t)) : s \in Range(seen)
         /\ Distinct(seen) => Distinct(Forgotten(t)) /\ t \notin Range(Forgotten(t))
<1>1. CASE t \notin Range(seen)
  BY <1>1 DEF Forgotten
<1>2. CASE t \in Range(seen)
  <2> DEFINE i == CHOOSE k \in DOMAIN seen : seen[k] = t
             q == RemoveAt(seen, i)
  <2>1. i \in 1..Len(seen) /\ seen[i] = t
    BY <1>2 DEF Range
  <2>2. Forgotten(t) = q
    BY <1>2 DEF Forgotten
  <2> HIDE DEF i
  <2>3. /\ q \in Seq(TaskIDs) /\ Len(q) = Len(seen) - 1
        /\ \A k \in 1..(Len(seen) - 1) : q[k] = IF k < i THEN seen[k] ELSE seen[k + 1]
    BY <2>1, Removal
  <2> HIDE DEF q
  <2>4. \A k \in 1..Len(q) : \E j \in 1..Len(seen) : j # i /\ q[k] = seen[j]
    <3> SUFFICES ASSUME NEW k \in 1..Len(q)
                 PROVE  \E j \in 1..Len(seen) : j # i /\ q[k] = seen[j]
      OBVIOUS
    <3>1. CASE k < i
      BY <2>1, <2>3, <3>1
    <3>2. CASE ~(k < i)
      <4>1. k + 1 \in 1..Len(seen) /\ k + 1 # i /\ q[k] = seen[k + 1]
        BY <2>1, <2>3, <3>2
      <4>2. QED
        BY <4>1
    <3>3. QED
      BY <3>1, <3>2
  <2>5. \A s \in Range(q) : s \in Range(seen)
    BY <2>3, <2>4, InRange
  <2>6. ASSUME Distinct(seen) PROVE t \notin Range(q)
    BY <2>1, <2>3, <2>4, <2>6, InRange DEF Distinct
  <2>7. ASSUME Distinct(seen) PROVE Distinct(q)
    BY <2>1, <2>3, <2>7 DEF Distinct
  <2>8. QED
    BY <2>2, <2>3, <2>5, <2>6, <2>7
<1>3. QED
  BY <1>1, <1>2

(***************************************************************************)
(* The actions that leave the log alone.                                   *)
(***************************************************************************)
LEMMA AnswerFacts ==
  ASSUME ExecShape, NEW r \in Readers, NEW t \in TaskIDs, NEW ack, Answer(r, t, ack)
  PROVE  /\ readers' \in [Readers -> ReaderStates]
         /\ readers'[r] = IdleReader
         /\ \A q \in Readers \ {r} : readers'[q] = readers[q]
         /\ seen' \in Seq(TaskIDs) /\ Len(seen') <= SeenLimit
         /\ told' \subseteq TaskIDs
<1>1. readers' = [readers EXCEPT ![r] = IdleReader] /\ readers \in [Readers -> ReaderStates]
  BY DEF Answer, ExecShape
<1>2. IdleReader \in ReaderStates
  BY DEF IdleReader, ReaderStates
<1>3. /\ readers' \in [Readers -> ReaderStates]
      /\ readers'[r] = IdleReader
      /\ \A q \in Readers \ {r} : readers'[q] = readers[q]
  BY <1>1, <1>2
<1>4. /\ seen \in Seq(TaskIDs) /\ Len(seen) <= SeenLimit /\ told \subseteq TaskIDs
  BY DEF ExecShape
<1>5. seen' \in Seq(TaskIDs) /\ Len(seen') <= SeenLimit
  <2>1. CASE ack
    BY <1>4, <2>1 DEF Answer
  <2>2. CASE ~ack
    <3>1. seen' = Forgotten(t)
      BY <2>2 DEF Answer
    <3>2. /\ Forgotten(t) \in Seq(TaskIDs) /\ Len(Forgotten(t)) <= Len(seen)
      BY <1>4, ForgottenFacts
    <3>3. Len(Forgotten(t)) \in Nat /\ Len(seen) \in Nat
      BY <1>4, <3>2, LenProperties
    <3>4. QED
      BY <1>4, <3>1, <3>2, <3>3, ExecAssumption
  <2>3. QED
    BY <2>1, <2>2
<1>6. told' \subseteq TaskIDs
  BY <1>4 DEF Answer
<1>7. QED
  BY <1>3, <1>5, <1>6

\* The server keeps what it has, and has what an upload that succeeded brought.
LEMMA UploadFacts ==
  ASSUME ExecShape, NEW t \in TaskIDs, NEW res \in Results \cup {Unknown}, NEW outcome,
         Upload(t, res, outcome)
  PROVE  /\ recv' \in [TaskIDs -> SUBSET (Results \cup {Unknown})]
         /\ \A s \in TaskIDs : recv[s] \subseteq recv'[s]
         /\ outcome = "ok" => res \in recv'[t]
<1>1. recv \in [TaskIDs -> SUBSET (Results \cup {Unknown})]
  BY DEF ExecShape
<1>2. CASE outcome = "failed"
  BY <1>1, <1>2 DEF Upload
<1>3. CASE outcome # "failed"
  <2>1. recv' = [recv EXCEPT ![t] = @ \cup {res}]
    BY <1>3 DEF Upload
  <2>2. QED
    BY <1>1, <2>1
<1>4. QED
  BY <1>2, <1>3

LEMMA TimeKeeps ==
  ASSUME ExecInv, Time
  PROVE  AgentInv'
<1>1. UNCHANGED <<entries, disk, up, readers, execs, rec, seen, runs, recv, told, crashes>>
  BY DEF Time, Tick, memVars, srvVars
<1>2. ExecShape' /\ Quiet' /\ BothBounded'
  BY <1>1 DEF ExecInv, ExecShape, Quiet, BothBounded, Bounded
<1>3. ASSUME NEW t \in TaskIDs PROVE TaskInv(t)'
  BY <1>1, UnwrittenKeeps, KeptTask DEF NothingTakenUp
<1>4. QED
  BY <1>2, <1>3 DEF AgentInv

LEMMA DeliverKeeps ==
  ASSUME ExecInv, NEW r \in Readers, NEW t \in TaskIDs, Deliver(r, t)
  PROVE  AgentInv'
<1>1. /\ UNCHANGED <<entries, disk, up, execs, rec, runs, recv, crashes>>
      /\ up
  BY DEF Deliver, logVars
<1>2. ExecShape
  BY DEF ExecInv
<1>3. /\ readers' \in [Readers -> ReaderStates]
      /\ \A q \in Readers : readers'[q] = readers[q] \/ readers'[q].stage = "accept"
  <2>1. [stage |-> "accept", task |-> t] \in ReaderStates
    BY DEF ReaderStates
  <2>2. readers' \in {readers, [readers EXCEPT ![r] = [stage |-> "accept", task |-> t]]}
    BY DEF Deliver
  <2>3. readers \in [Readers -> ReaderStates]
    BY <1>2 DEF ExecShape
  <2>4. QED
    BY <2>1, <2>2, <2>3
<1>4. /\ seen' \in Seq(TaskIDs) /\ Len(seen') <= SeenLimit
      /\ told' \subseteq TaskIDs
  <2>1. seen' \in {seen, MarkSeen(t)} /\ told' \in {told, told \cup {t}}
    BY DEF Deliver
  <2>2. QED
    BY <1>2, <2>1, MarkSeenFacts DEF ExecShape
<1>5. ExecShape'
  BY <1>1, <1>2, <1>3, <1>4 DEF ExecShape
<1>6. Quiet' /\ BothBounded'
  BY <1>1 DEF ExecInv, Quiet, BothBounded, Bounded
<1>7. ASSUME NEW s \in TaskIDs PROVE TaskInv(s)'
  <2>1. NothingTakenUp(s)
    BY <1>1, <1>3 DEF NothingTakenUp, Handles
  <2>2. QED
    BY <1>1, <2>1, UnwrittenKeeps, KeptTask
<1>8. QED
  BY <1>5, <1>6, <1>7 DEF AgentInv

LEMMA RetransmitKeeps ==
  ASSUME ExecInv, NEW r \in Readers, Retransmit(r)
  PROVE  AgentInv'
<1>1. /\ UNCHANGED <<entries, disk, up, execs, rec, runs, crashes>>
      /\ readers[r].stage = "upload"
  BY DEF Retransmit, logVars
<1>2. ExecShape /\ up
  BY <1>1 DEF ExecInv, Quiet, IdleReader
<1>3. PICK t \in TaskIDs, res \in Results \cup {Unknown} :
         readers[r].task = t /\ readers[r].res = res
  BY <1>1, <1>2 DEF ExecShape, ReaderStates
<1>4. PICK outcome \in UploadOutcomes :
         /\ Upload(t, res, outcome)
         /\ IF outcome = "ok"
            THEN /\ readers' = [readers EXCEPT ![r] = [stage |-> "confirm", task |-> t]]
                 /\ UNCHANGED <<seen, told>>
            ELSE Answer(r, t, TRUE)
  BY <1>3 DEF Retransmit
<1>5. /\ recv' \in [TaskIDs -> SUBSET (Results \cup {Unknown})]
      /\ \A s \in TaskIDs : recv[s] \subseteq recv'[s]
      /\ outcome = "ok" => res \in recv'[t]
  BY <1>2, <1>3, <1>4, UploadFacts
<1>6. /\ readers' \in [Readers -> ReaderStates]
      /\ \A q \in Readers \ {r} : readers'[q] = readers[q]
      /\ IF outcome = "ok" THEN readers'[r] = [stage |-> "confirm", task |-> t]
                           ELSE readers'[r] = IdleReader
      /\ seen' \in Seq(TaskIDs) /\ Len(seen') <= SeenLimit
      /\ told' \subseteq TaskIDs
  <2>1. CASE outcome = "ok"
    <3>1. [stage |-> "confirm", task |-> t] \in ReaderStates
      BY <1>3 DEF ReaderStates
    <3>2. QED
      BY <1>2, <1>4, <2>1, <3>1 DEF ExecShape
  <2>2. CASE outcome # "ok"
    BY <1>2, <1>3, <1>4, <2>2, AnswerFacts
  <2>3. QED
    BY <2>1, <2>2
<1>7. ExecShape'
  BY <1>1, <1>2, <1>5, <1>6 DEF ExecShape
<1>8. Quiet' /\ BothBounded'
  BY <1>1, <1>2 DEF ExecInv, Quiet, BothBounded, Bounded
<1>9. ASSUME NEW s \in TaskIDs PROVE TaskInv(s)'
  <2>1. CASE s # t \/ outcome # "ok"
    <3>1. NothingTakenUp(s)
      BY <1>1, <1>5, <1>6, <2>1 DEF NothingTakenUp, Handles, IdleReader
    <3>2. QED
      BY <1>1, <3>1, UnwrittenKeeps, KeptTask
  <2>2. CASE s = t /\ outcome = "ok"
    <3>1. TaskInv(t)
      BY <1>3 DEF ExecInv
    <3>2. Handles(r, t, {"upload"}) /\ readers'[r] = [stage |-> "confirm", task |-> t]
      BY <1>1, <1>3, <1>6, <2>2 DEF Handles
    <3>3. runs[t] # 0
      BY <3>1, <3>2 DEF TaskInv, NeverRan, Handles
    <3>4. NeverRan(t)' /\ RunningLogged(t)'
      BY <1>1, <3>1, <3>3 DEF TaskInv, NeverRan, RunningLogged, Executing
    <3>5. OwnResult(t)'
      <4> SUFFICES ASSUME runs[t] = 1, t \in DOMAIN disk PROVE OwnResult(t)'
        BY <1>1 DEF OwnResult
      <4>1. HasEnded(t) /\ res = disk[t].result
        BY <1>3, <3>1, <3>2 DEF TaskInv, OwnResult
      <4>2. Reported(t)'
        BY <1>1, <1>5, <2>2, <4>1 DEF Reported, HasEnded
      <4>3. HasEnded(t)'
        BY <1>1, <4>1 DEF HasEnded
      <4>4. ASSUME NEW q \in Readers
            PROVE  Handles(q, t, {"upload"})' => readers'[q].res = disk'[t].result
        BY <1>1, <1>6, <3>1, <3>2, <4>4 DEF TaskInv, OwnResult, Handles
      <4>5. rec[t].stage = "queued" => rec[t].res = disk[t].result
        BY <3>1 DEF TaskInv, OwnResult
      <4>6. \A x \in execs : x.task = t /\ x.stage = "upload" /\ x.saved =>
              disk[t].result = x.run
        BY <3>1 DEF TaskInv, OwnResult
      <4>7. QED
        BY <1>1, <4>2, <4>3, <4>4, <4>5, <4>6 DEF OwnResult
    <3>6. HasResult(t)'
      BY <1>3, <1>5, <2>2 DEF HasResult
    <3>7. QED
      BY <2>2, <3>4, <3>5, <3>6 DEF TaskInv
  <2>3. QED
    BY <2>1, <2>2
<1>10. QED
  BY <1>7, <1>8, <1>9 DEF AgentInv

LEMMA UploadResultKeeps ==
  ASSUME ExecInv, NEW x \in execs, UploadResult(x)
  PROVE  AgentInv'
<1>1. /\ UNCHANGED <<entries, disk, up, readers, rec, seen, runs, told, crashes>>
      /\ x.stage = "upload"
  BY DEF UploadResult, logVars
<1>2. ExecShape /\ up
  BY DEF ExecInv, Quiet
<1>3. PICK t \in TaskIDs, k \in Results : x.task = t /\ x.run = k
  BY <1>2, ExecAssumption DEF ExecShape, ExecutorStates
<1>4. PICK outcome \in UploadOutcomes :
         /\ Upload(t, k, outcome)
         /\ IF outcome = "ok" /\ x.saved
            THEN execs' = (execs \ {x}) \cup {[x EXCEPT !.stage = "ack"]}
            ELSE execs' = execs \ {x}
  BY <1>3 DEF UploadResult, AckFollows, Becomes
<1>5. /\ recv' \in [TaskIDs -> SUBSET (Results \cup {Unknown})]
      /\ \A s \in TaskIDs : recv[s] \subseteq recv'[s]
      /\ outcome = "ok" => k \in recv'[t]
  BY <1>2, <1>3, <1>4, UploadFacts
<1> DEFINE y == [x EXCEPT !.stage = "ack"]
<1>6. y \in ExecutorStates /\ y.stage = "ack" /\ y.task = t
  BY <1>2, <1>3 DEF ExecShape, ExecutorStates
<1> HIDE DEF y
<1>7. \A z \in execs' : z \in execs \/ (z = y /\ outcome = "ok" /\ x.saved)
  BY <1>4 DEF y
<1>8. ExecShape'
  BY <1>1, <1>2, <1>5, <1>6, <1>7 DEF ExecShape
<1>9. Quiet' /\ BothBounded'
  BY <1>1, <1>2 DEF ExecInv, Quiet, BothBounded, Bounded
<1>10. ASSUME NEW s \in TaskIDs PROVE TaskInv(s)'
  <2>1. CASE s # t \/ ~(outcome = "ok" /\ x.saved)
    <3>1. NothingTakenUp(s)
      BY <1>1, <1>5, <1>6, <1>7, <2>1 DEF NothingTakenUp
    <3>2. QED
      BY <1>1, <3>1, UnwrittenKeeps, KeptTask
  <2>2. CASE s = t /\ outcome = "ok" /\ x.saved
    <3>1. TaskInv(t)
      BY DEF ExecInv
    <3>2. NeverRan(t)' /\ RunningLogged(t)'
      BY <1>1, <1>3, <1>6, <1>7, <3>1 DEF TaskInv, NeverRan, RunningLogged, Executing, Handles
    <3>3. OwnResult(t)'
      <4> SUFFICES ASSUME runs[t] = 1, t \in DOMAIN disk PROVE OwnResult(t)'
        BY <1>1 DEF OwnResult
      <4>1. HasEnded(t) /\ k = disk[t].result
        BY <1>1, <1>3, <2>2, <3>1 DEF TaskInv, OwnResult
      <4>2. Reported(t)' /\ HasEnded(t)'
        BY <1>1, <1>5, <2>2, <4>1 DEF Reported, HasEnded
      <4>3. ASSUME NEW q \in Readers
            PROVE  Handles(q, t, {"upload"})' => readers'[q].res = disk'[t].result
        BY <1>1, <3>1 DEF TaskInv, OwnResult, Handles
      <4>4. rec[t].stage = "queued" => rec[t].res = disk[t].result
        BY <3>1 DEF TaskInv, OwnResult
      <4>5. \A z \in execs' : z.task = t /\ z.stage = "upload" /\ z.saved =>
              disk[t].result = z.run
        BY <1>6, <1>7, <3>1 DEF TaskInv, OwnResult
      <4>6. QED
        BY <1>1, <4>2, <4>3, <4>4, <4>5 DEF OwnResult
    <3>4. HasResult(t)'
      BY <1>5, <2>2 DEF HasResult
    <3>5. QED
      BY <2>2, <3>2, <3>3, <3>4 DEF TaskInv
  <2>3. QED
    BY <2>1, <2>2
<1>11. QED
  BY <1>8, <1>9, <1>10 DEF AgentInv

\* What a round of recovery sets out to report is what is on disk.
LEMMA PendingIsOnDisk ==
  ASSUME ExecInv, up, NEW t \in PendingReports(entries)
  PROVE  /\ t \in DOMAIN disk /\ HasEnded(t) /\ entries[t].result = disk[t].result
         /\ entries[t].result \in Results \cup {Unknown}
<1>1. /\ t \in DOMAIN entries /\ entries[t].state # "started"
      /\ Sound(entries) /\ Sound(disk) /\ Mirrors(entries, disk)
  BY DEF PendingReports, ExecInv, MirrorInv, LogInv
<1>2. t \in DOMAIN disk /\ entries[t] \in {disk[t], Unacked(disk[t])}
  BY <1>1 DEF Mirrors
<1>3. disk[t] \in Entry /\ entries[t] \in Entry /\ ResultFits(entries[t])
  BY <1>1, <1>2 DEF Sound, IsEntryMap
<1>4. entries[t].state = disk[t].state /\ entries[t].result = disk[t].result
  BY <1>2, <1>3 DEF Entry, Unacked
<1>5. QED
  BY <1>1, <1>2, <1>3, <1>4 DEF Entry, ResultFits, HasEnded

LEMMA RecoverySnapshotKeeps ==
  ASSUME ExecInv, RecoverySnapshot
  PROVE  AgentInv'
<1>1. /\ UNCHANGED <<entries, disk, up, readers, execs, seen, runs, recv, told, crashes>>
      /\ up
      /\ rec' = [t \in TaskIDs |-> IF t \in PendingReports(entries)
                                   THEN [stage |-> "queued", res |-> entries[t].result]
                                   ELSE NoReport]
  BY DEF RecoverySnapshot, logVars, srvVars
<1>2. rec' \in [TaskIDs -> RecoveryStates]
  <2>1. NoReport \in RecoveryStates
    BY DEF NoReport, RecoveryStates
  <2>2. \A t \in PendingReports(entries) :
          [stage |-> "queued", res |-> entries[t].result] \in RecoveryStates
    BY <1>1, PendingIsOnDisk DEF RecoveryStates
  <2>3. QED
    BY <1>1, <2>1, <2>2
<1>3. ExecShape'
  BY <1>1, <1>2 DEF ExecInv, ExecShape
<1>4. Quiet' /\ BothBounded'
  BY <1>1 DEF ExecInv, Quiet, BothBounded, Bounded
<1>5. ASSUME NEW t \in TaskIDs PROVE TaskInv(t)'
  <2>1. CASE t \notin PendingReports(entries)
    <3>1. NothingTakenUp(t)
      BY <1>1, <2>1 DEF NothingTakenUp
    <3>2. QED
      BY <1>1, <3>1, UnwrittenKeeps, KeptTask
  <2>2. CASE t \in PendingReports(entries)
    <3>1. TaskInv(t)
      BY DEF ExecInv
    <3>2. t \in DOMAIN disk /\ HasEnded(t) /\ entries[t].result = disk[t].result
      BY <1>1, <2>2, PendingIsOnDisk
    <3>3. rec'[t].stage = "queued" /\ rec'[t].res = entries[t].result
      BY <1>1, <2>2
    <3>4. NeverRan(t)' /\ RunningLogged(t)' /\ HasResult(t)'
      BY <1>1, <3>1, <3>2, <3>3
      DEF TaskInv, NeverRan, RunningLogged, HasResult, Executing, Handles
    <3>5. OwnResult(t)'
      BY <1>1, <3>1, <3>2, <3>3 DEF TaskInv, OwnResult, HasEnded, Reported, Handles
    <3>6. QED
      BY <3>4, <3>5 DEF TaskInv
  <2>3. QED
    BY <2>1, <2>2
<1>6. QED
  BY <1>3, <1>4, <1>5 DEF AgentInv

LEMMA RecoveryUploadKeeps ==
  ASSUME ExecInv, NEW t \in TaskIDs, NEW outcome \in UploadOutcomes, RecoveryUpload(t, outcome)
  PROVE  AgentInv'
<1>1. /\ UNCHANGED <<entries, disk, up, readers, execs, seen, runs, told, crashes>>
      /\ rec[t].stage = "queued"
      /\ Upload(t, rec[t].res, outcome)
      /\ rec' = [rec EXCEPT ![t] = IF outcome = "ok" THEN [stage |-> "ack"] ELSE NoReport]
  BY DEF RecoveryUpload, logVars
<1>2. ExecShape /\ up
  BY <1>1 DEF ExecInv, Quiet, NoReport
<1>3. rec[t].res \in Results \cup {Unknown}
  BY <1>1, <1>2 DEF ExecShape, RecoveryStates
<1>4. /\ recv' \in [TaskIDs -> SUBSET (Results \cup {Unknown})]
      /\ \A s \in TaskIDs : recv[s] \subseteq recv'[s]
      /\ outcome = "ok" => rec[t].res \in recv'[t]
  BY <1>1, <1>2, <1>3, UploadFacts
<1>5. /\ rec' \in [TaskIDs -> RecoveryStates]
      /\ \A s \in TaskIDs \ {t} : rec'[s] = rec[s]
      /\ rec'[t] = IF outcome = "ok" THEN [stage |-> "ack"] ELSE NoReport
  <2>1. NoReport \in RecoveryStates /\ [stage |-> "ack"] \in RecoveryStates
    BY DEF NoReport, RecoveryStates
  <2>2. QED
    BY <1>1, <1>2, <2>1 DEF ExecShape
<1>6. ExecShape'
  BY <1>1, <1>2, <1>4, <1>5 DEF ExecShape
<1>7. Quiet' /\ BothBounded'
  BY <1>1, <1>2 DEF ExecInv, Quiet, BothBounded, Bounded
<1>8. ASSUME NEW s \in TaskIDs PROVE TaskInv(s)'
  <2>1. CASE s # t \/ outcome # "ok"
    <3>1. NothingTakenUp(s)
      BY <1>1, <1>4, <1>5, <2>1 DEF NothingTakenUp
    <3>2. QED
      BY <1>1, <3>1, UnwrittenKeeps, KeptTask
  <2>2. CASE s = t /\ outcome = "ok"
    <3>1. TaskInv(t) /\ rec'[t] = [stage |-> "ack"]
      BY <1>5, <2>2 DEF ExecInv
    <3>2. NeverRan(t)' /\ RunningLogged(t)' /\ HasResult(t)'
      BY <1>1, <1>4, <2>2, <3>1
      DEF TaskInv, NeverRan, RunningLogged, HasResult, Executing, Handles
    <3>3. OwnResult(t)'
      <4> SUFFICES ASSUME runs[t] = 1, t \in DOMAIN disk PROVE OwnResult(t)'
        BY <1>1 DEF OwnResult
      <4>1. HasEnded(t) /\ rec[t].res = disk[t].result
        BY <1>1, <3>1 DEF TaskInv, OwnResult
      <4>2. Reported(t)' /\ HasEnded(t)'
        BY <1>1, <1>4, <2>2, <4>1 DEF Reported, HasEnded
      <4>3. ASSUME NEW q \in Readers
            PROVE  Handles(q, t, {"upload"})' => readers'[q].res = disk'[t].result
        BY <1>1, <3>1 DEF TaskInv, OwnResult, Handles
      <4>4. \A z \in execs' : z.task = t /\ z.stage = "upload" /\ z.saved =>
              disk[t].result = z.run
        BY <1>1, <3>1 DEF TaskInv, OwnResult
      <4>5. QED
        BY <1>1, <3>1, <4>2, <4>3, <4>4 DEF OwnResult
    <3>4. QED
      BY <2>2, <3>2, <3>3 DEF TaskInv
  <2>3. QED
    BY <2>1, <2>2
<1>9. QED
  BY <1>6, <1>7, <1>8 DEF AgentInv

(***************************************************************************)
(* The actions that acknowledge.                                           *)
(***************************************************************************)

\* Whoever acknowledges does so for a result the server has received.
LEMMA AckedTask ==
  ASSUME ExecInv, NEW t \in TaskIDs, TaskAcked(t), NothingTakenUp(t),
         recv[t] # {}, runs[t] = 1 /\ t \in DOMAIN disk => Reported(t)
  PROVE  TaskInv(t)'
<1>1. TaskInv(t)
  BY DEF ExecInv
<1>2. /\ t \in DOMAIN disk' => /\ t \in DOMAIN disk
                               /\ disk'[t].state = disk[t].state
                               /\ disk'[t].result = disk[t].result
      /\ t \in DOMAIN disk /\ disk[t].state = "started" => t \in DOMAIN disk'
  BY DEF TaskAcked
<1>3. NoReport.stage = "none"
  BY DEF NoReport
<1>4. NeverRan(t)'
  BY <1>1, <1>2, <1>3 DEF TaskInv, NeverRan, NothingTakenUp, Handles
<1>5. RunningLogged(t)'
  BY <1>1, <1>2 DEF TaskInv, RunningLogged, NothingTakenUp, Executing
<1>6. OwnResult(t)'
  <2> SUFFICES ASSUME runs'[t] = 1, t \in DOMAIN disk' PROVE OwnResult(t)'
    BY DEF OwnResult
  <2>1. runs[t] = 1 /\ t \in DOMAIN disk
    BY <1>2 DEF NothingTakenUp
  <2>2. HasEnded(t)' /\ Reported(t)' /\ disk'[t].result = disk[t].result
    BY <1>2, <2>1 DEF HasEnded, Reported, NothingTakenUp
  <2>3. ASSUME NEW r \in Readers
        PROVE  Handles(r, t, {"upload"})' => readers'[r].res = disk'[t].result
    BY <1>1, <2>1, <2>2 DEF TaskInv, OwnResult, NothingTakenUp, Handles
  <2>4. rec'[t].stage = "queued" => rec'[t].res = disk'[t].result
    BY <1>1, <1>3, <2>1, <2>2 DEF TaskInv, OwnResult, NothingTakenUp
  <2>5. \A x \in execs' : x.task = t /\ x.stage = "upload" /\ x.saved => disk'[t].result = x.run
    BY <1>1, <2>1, <2>2 DEF TaskInv, OwnResult, NothingTakenUp
  <2>6. QED
    BY <2>2, <2>3, <2>4, <2>5 DEF OwnResult
<1>7. HasResult(t)'
  BY DEF HasResult, NothingTakenUp
<1>8. QED
  BY <1>4, <1>5, <1>6, <1>7 DEF TaskInv

LEMMA ConfirmRetransmittedKeeps ==
  ASSUME ExecInv, NEW r \in Readers, ConfirmRetransmitted(r)
  PROVE  AgentInv'
<1>1. /\ UNCHANGED <<execs, rec, runs, recv, crashes>>
      /\ readers[r].stage = "confirm"
  BY DEF ConfirmRetransmitted
<1>2. ExecShape /\ MirrorInv /\ BothBounded
  BY DEF ExecInv
<1>3. PICK t \in TaskIDs : readers[r].task = t
  BY <1>1, <1>2 DEF ExecShape, ReaderStates
<1>4. PICK ok \in BOOLEAN : Ack(t, ok)
  BY <1>3 DEF ConfirmRetransmitted
<1>5. Answer(r, t, TRUE)
  BY <1>3 DEF ConfirmRetransmitted
<1>6. /\ readers' \in [Readers -> ReaderStates]
      /\ readers'[r] = IdleReader
      /\ \A q \in Readers \ {r} : readers'[q] = readers[q]
      /\ seen' \in Seq(TaskIDs) /\ Len(seen') <= SeenLimit
      /\ told' \subseteq TaskIDs
  BY <1>2, <1>5, AnswerFacts
<1>7. /\ TaskAcked(t)
      /\ \A s \in TaskIDs \ {t} : TaskKept(s)
      /\ Bounded(entries') /\ Bounded(disk')
  BY <1>2, <1>4, AckEffect
<1>8. up' /\ up
  BY <1>4 DEF Ack, ExecInv, MirrorInv, LogInv
<1>9. ExecShape'
  BY <1>1, <1>2, <1>6 DEF ExecShape
<1>10. ASSUME NEW s \in TaskIDs PROVE TaskInv(s)'
  <2>1. NothingTakenUp(s)
    BY <1>1, <1>6 DEF NothingTakenUp, Handles, IdleReader
  <2>2. CASE s # t
    BY <1>7, <2>1, <2>2, KeptTask
  <2>3. CASE s = t
    <3>1. TaskInv(t) /\ Handles(r, t, {"confirm"})
      BY <1>1, <1>3 DEF ExecInv, Handles
    <3>2. recv[t] # {} /\ (runs[t] = 1 /\ t \in DOMAIN disk => Reported(t))
      BY <3>1 DEF TaskInv, HasResult, OwnResult
    <3>3. QED
      BY <1>7, <2>1, <2>3, <3>2, AckedTask
  <2>4. QED
    BY <2>2, <2>3
<1>11. QED
  BY <1>7, <1>8, <1>9, <1>10 DEF AgentInv, Quiet, BothBounded

LEMMA AckResultKeeps ==
  ASSUME ExecInv, NEW x \in execs, AckResult(x)
  PROVE  AgentInv'
<1>1. /\ UNCHANGED <<readers, rec, seen, runs, recv, told, crashes>>
      /\ x.stage = "ack"
      /\ execs' = execs \ {x}
  BY DEF AckResult, srvVars
<1>2. ExecShape /\ MirrorInv /\ BothBounded
  BY DEF ExecInv
<1>3. PICK t \in TaskIDs : x.task = t
  BY <1>2 DEF ExecShape, ExecutorStates
<1>4. PICK ok \in BOOLEAN : Ack(t, ok)
  BY <1>3 DEF AckResult
<1>5. /\ TaskAcked(t)
      /\ \A s \in TaskIDs \ {t} : TaskKept(s)
      /\ Bounded(entries') /\ Bounded(disk')
  BY <1>2, <1>4, AckEffect
<1>6. up' /\ up
  BY <1>4 DEF Ack, ExecInv, MirrorInv, LogInv
<1>7. ExecShape'
  BY <1>1, <1>2 DEF ExecShape
<1>8. ASSUME NEW s \in TaskIDs PROVE TaskInv(s)'
  <2>1. NothingTakenUp(s)
    BY <1>1 DEF NothingTakenUp
  <2>2. CASE s # t
    BY <1>5, <2>1, <2>2, KeptTask
  <2>3. CASE s = t
    <3>1. TaskInv(t)
      BY DEF ExecInv
    <3>2. recv[t] # {} /\ (runs[t] = 1 /\ t \in DOMAIN disk => Reported(t))
      BY <1>1, <1>3, <3>1 DEF TaskInv, HasResult, OwnResult
    <3>3. QED
      BY <1>5, <2>1, <2>3, <3>2, AckedTask
  <2>4. QED
    BY <2>2, <2>3
<1>9. QED
  BY <1>5, <1>6, <1>7, <1>8 DEF AgentInv, Quiet, BothBounded

LEMMA RecoveryAckKeeps ==
  ASSUME ExecInv, NEW t \in TaskIDs, RecoveryAck(t)
  PROVE  AgentInv'
<1>1. /\ UNCHANGED <<readers, execs, seen, runs, recv, told, crashes>>
      /\ rec[t].stage = "ack"
      /\ rec' = [rec EXCEPT ![t] = NoReport]
  BY DEF RecoveryAck, srvVars
<1>2. ExecShape /\ MirrorInv /\ BothBounded
  BY DEF ExecInv
<1>3. PICK ok \in BOOLEAN : Ack(t, ok)
  BY DEF RecoveryAck
<1>4. /\ TaskAcked(t)
      /\ \A s \in TaskIDs \ {t} : TaskKept(s)
      /\ Bounded(entries') /\ Bounded(disk')
  BY <1>2, <1>3, AckEffect
<1>5. up' /\ up
  BY <1>3 DEF Ack, ExecInv, MirrorInv, LogInv
<1>6. /\ rec' \in [TaskIDs -> RecoveryStates]
      /\ \A s \in TaskIDs : rec'[s] \in {rec[s], NoReport}
  <2>1. NoReport \in RecoveryStates
    BY DEF NoReport, RecoveryStates
  <2>2. QED
    BY <1>1, <1>2, <2>1 DEF ExecShape
<1>7. ExecShape'
  BY <1>1, <1>2, <1>6 DEF ExecShape
<1>8. ASSUME NEW s \in TaskIDs PROVE TaskInv(s)'
  <2>1. NothingTakenUp(s)
    BY <1>1, <1>6 DEF NothingTakenUp
  <2>2. CASE s # t
    BY <1>4, <2>1, <2>2, KeptTask
  <2>3. CASE s = t
    <3>1. TaskInv(t)
      BY DEF ExecInv
    <3>2. recv[t] # {} /\ (runs[t] = 1 /\ t \in DOMAIN disk => Reported(t))
      BY <1>1, <3>1 DEF TaskInv, HasResult, OwnResult
    <3>3. QED
      BY <1>4, <2>1, <2>3, <3>2, AckedTask
  <2>4. QED
    BY <2>2, <2>3
<1>9. QED
  BY <1>4, <1>5, <1>7, <1>8 DEF AgentInv, Quiet, BothBounded

(***************************************************************************)
(* The ends of a command's life: it is accepted, and its result persisted. *)
(***************************************************************************)
LEMMA PersistFinishKeeps ==
  ASSUME ExecInv, NEW x \in execs, PersistFinish(x)
  PROVE  AgentInv'
<1>1. /\ UNCHANGED <<readers, rec, seen, runs, recv, told, crashes>>
      /\ x.stage = "run"
  BY DEF PersistFinish, srvVars
<1>2. ExecShape /\ MirrorInv /\ BothBounded
  BY DEF ExecInv
<1>3. PICK t \in TaskIDs, k \in Results : x.task = t /\ x.run = k
  BY <1>2, ExecAssumption DEF ExecShape, ExecutorStates
<1>4. PICK ok \in BOOLEAN :
         /\ Finish(t, k, ok)
         /\ execs' = (execs \ {x}) \cup
                {[x EXCEPT !.saved = ok, !.tries = @ + 1,
                           !.stage = IF ok \/ x.tries + 1 = FinishAttempts
                                     THEN "upload" ELSE "run"]}
  BY <1>3 DEF PersistFinish, Becomes
<1>5. x \in ExecutorStates /\ x.tries < FinishAttempts
  BY <1>1, <1>2 DEF ExecShape
<1> DEFINE After(stage) == [x EXCEPT !.saved = ok, !.tries = @ + 1, !.stage = stage]
<1>6. PICK y :
         /\ execs' = (execs \ {x}) \cup {y}
         /\ y.task = t /\ y.run = k /\ y.saved = ok
         /\ y.stage \in {"run", "upload"} /\ (ok => y.stage = "upload")
         /\ y \in ExecutorStates
         /\ y.stage = "run" => y.tries < FinishAttempts
  <2>1. ASSUME NEW stage \in {"run", "upload"}
        PROVE  /\ After(stage).task = t /\ After(stage).run = k /\ After(stage).saved = ok
               /\ After(stage).stage = stage /\ After(stage).tries = x.tries + 1
               /\ After(stage) \in ExecutorStates
    <3>1. x.tries \in Nat /\ FinishAttempts \in Nat /\ x.tries + 1 \in 0..FinishAttempts
      BY <1>5, ExecAssumption DEF ExecutorStates
    <3>2. /\ After(stage).task = t /\ After(stage).run = k /\ After(stage).saved = ok
          /\ After(stage).stage = stage /\ After(stage).tries = x.tries + 1
      BY <1>3, <1>5 DEF ExecutorStates
    <3>3. After(stage) \in ExecutorStates
      BY <1>5, <3>1 DEF ExecutorStates
    <3>4. QED
      BY <3>2, <3>3
  <2>2. CASE ok \/ x.tries + 1 = FinishAttempts
    <3>1. execs' = (execs \ {x}) \cup {After("upload")}
      BY <1>4, <2>2
    <3> HIDE DEF After
    <3>2. QED
      BY <2>1, <3>1
  <2>3. CASE ~ok /\ x.tries + 1 # FinishAttempts
    <3>1. execs' = (execs \ {x}) \cup {After("run")}
      BY <1>4, <2>3
    <3>2. x.tries + 1 < FinishAttempts
      BY <1>5, <2>3, ExecAssumption DEF ExecutorStates
    <3> HIDE DEF After
    <3>3. QED
      BY <2>1, <2>3, <3>1, <3>2
  <2>4. QED
    BY <2>2, <2>3
<1>7. /\ \A z \in execs' : (z \in execs /\ z # x) \/ z = y
      /\ y \in execs'
  BY <1>6
<1>8. up' /\ up
  BY <1>4 DEF Finish, ExecInv, MirrorInv, LogInv
<1>9. TaskInv(t)
  BY DEF ExecInv
<1>10. /\ t \in DOMAIN disk /\ disk[t].state = "started"
       /\ \A z \in execs : z.stage = "run" /\ z.task = t => z = x
  BY <1>1, <1>3, <1>9 DEF TaskInv, RunningLogged, Executing
<1>11. /\ ~ok => disk' = disk
       /\ ok => /\ TaskEnded(t) /\ disk'[t].result = k
                /\ \A s \in TaskIDs \ {t} : TaskKept(s)
       /\ Bounded(entries') /\ Bounded(disk')
  BY <1>2, <1>4, <1>10, FinishEffect
<1>12. ExecShape'
  BY <1>1, <1>2, <1>6, <1>7 DEF ExecShape
<1>13. ASSUME NEW s \in TaskIDs \ {t} PROVE TaskInv(s)'
  <2>1. NothingTakenUp(s)
    BY <1>1, <1>6, <1>7 DEF NothingTakenUp
  <2>2. QED
    BY <1>11, <2>1, UnwrittenKeeps, KeptTask
<1>14. TaskInv(t)'
  <2>1. t \in DOMAIN disk' /\ runs[t] # 0 /\ (disk'[t].acked => disk[t].acked)
    BY <1>9, <1>10, <1>11 DEF TaskInv, NeverRan, TaskEnded
  <2>2. NeverRan(t)'
    BY <1>1, <2>1 DEF NeverRan
  <2>3. RunningLogged(t)'
    <3>1. \A z \in execs' : Executing(z) /\ z.task = t => z = y
      BY <1>7, <1>10 DEF Executing
    <3>2. Executing(y) => disk' = disk
      BY <1>6, <1>11 DEF Executing
    <3>3. QED
      BY <1>10, <3>1, <3>2 DEF RunningLogged
  <2>4. OwnResult(t)'
    <3> SUFFICES ASSUME runs[t] = 1 PROVE OwnResult(t)'
      BY <1>1 DEF OwnResult
    <3>1. /\ ~disk[t].acked
          /\ \A r \in Readers : ~Handles(r, t, {"upload"}) /\ ~Handles(r, t, {"confirm"})
          /\ rec[t].stage \notin {"queued", "ack"}
          /\ \A z \in execs : z.task = t => ~(z.stage = "upload" /\ z.saved) /\ z.stage # "ack"
      BY <1>9, <1>10 DEF TaskInv, OwnResult, Reported, HasEnded
    <3>2. ok => HasEnded(t)' /\ disk'[t].result = y.run
      BY <1>6, <1>11 DEF TaskEnded, HasEnded
    <3>3. \A z \in execs' : z.task = t =>
            /\ z.stage = "upload" /\ z.saved => HasEnded(t)' /\ disk'[t].result = z.run
            /\ z.stage # "ack"
      BY <1>6, <1>7, <3>1, <3>2
    <3>4. QED
      BY <1>1, <2>1, <3>1, <3>3 DEF OwnResult, Handles
  <2>5. HasResult(t)'
    BY <1>1, <1>6, <1>7, <1>9, <1>10, <2>1 DEF TaskInv, HasResult, Handles
  <2>6. QED
    BY <2>2, <2>3, <2>4, <2>5 DEF TaskInv
<1>15. QED
  BY <1>8, <1>11, <1>12, <1>13, <1>14 DEF AgentInv, Quiet, BothBounded

\* Accept, taken apart: what the log answers, and what the handler then does.
AcceptsAs(r, t, outcome) ==
  /\ Begin(t, outcome)
  /\ IF outcome \in RunOutcomes
     THEN /\ MayRun(t)
          /\ execs' = execs \cup {Executor(t)}
          /\ runs' = [runs EXCEPT ![t] = @ + 1]
     ELSE UNCHANGED <<execs, runs>>
  /\ IF outcome \in {"finished", "interrupted"} /\ ~entries[t].acked
     THEN /\ readers' = [readers EXCEPT ![r] =
               [stage |-> "upload", task |-> t, res |-> entries[t].result]]
          /\ UNCHANGED <<seen, told>>
     ELSE Answer(r, t, outcome \in AckedOutcomes)
  /\ UNCHANGED <<rec, recv, crashes>>

LEMMA AcceptTakenApart ==
  ASSUME ExecInv, NEW r \in Readers, Accept(r)
  PROVE  \E t \in TaskIDs, outcome \in BeginOutcomes :
           Handles(r, t, {"accept"}) /\ AcceptsAs(r, t, outcome)
<1>1. readers[r].stage = "accept" /\ readers[r].task \in TaskIDs
  BY DEF Accept, ExecInv, ExecShape, ReaderStates
<1>2. QED
  BY <1>1 DEF Accept, AcceptsAs, Handles

\* A command is run.
LEMMA AcceptRuns ==
  ASSUME ExecInv, NEW r \in Readers, NEW t \in TaskIDs, AcceptsAs(r, t, "ok")
  PROVE  AgentInv'
<1> DEFINE y == Executor(t)
<1>1. /\ UNCHANGED <<rec, recv, crashes>>
      /\ Begin(t, "ok")
      /\ runs[t] < MaxRuns
      /\ execs' = execs \cup {y}
      /\ runs' = [runs EXCEPT ![t] = @ + 1]
      /\ Answer(r, t, TRUE)
  BY DEF AcceptsAs, RunOutcomes, AckedOutcomes, MayRun
<1>2. ExecShape /\ MirrorInv /\ BothBounded /\ TaskInv(t)
  BY DEF ExecInv
<1>3. /\ readers' \in [Readers -> ReaderStates]
      /\ readers'[r] = IdleReader
      /\ \A q \in Readers \ {r} : readers'[q] = readers[q]
      /\ seen' \in Seq(TaskIDs) /\ Len(seen') <= SeenLimit
      /\ told' \subseteq TaskIDs
  BY <1>1, <1>2, AnswerFacts
<1>4. /\ TaskBegan(t)
      /\ \A s \in TaskIDs \ {t} : TaskKept(s)
      /\ Bounded(entries') /\ Bounded(disk')
  BY <1>1, <1>2, BeginEffect, BeginBounded
<1>5. up' /\ up
  BY <1>1 DEF Begin, ExecInv, MirrorInv, LogInv
<1>6. /\ runs' \in [TaskIDs -> 0..MaxRuns]
      /\ runs'[t] = runs[t] + 1 /\ runs[t] \in 0..MaxRuns
      /\ \A s \in TaskIDs \ {t} : runs'[s] = runs[s]
  BY <1>1, <1>2, ExecAssumption DEF ExecShape
<1>7. y \in ExecutorStates /\ y.task = t /\ y.stage = "run" /\ y.tries < FinishAttempts
  BY <1>1, <1>6, ExecAssumption DEF Executor, ExecutorStates
<1> HIDE DEF y
<1>8. ExecShape'
  BY <1>1, <1>2, <1>3, <1>6, <1>7 DEF ExecShape
<1>9. ASSUME NEW s \in TaskIDs \ {t} PROVE TaskInv(s)'
  <2>1. NothingTakenUp(s)
    BY <1>1, <1>3, <1>6, <1>7 DEF NothingTakenUp, Handles, IdleReader
  <2>2. QED
    BY <1>4, <2>1, KeptTask
<1>10. TaskInv(t)'
  <2>1. NeverRan(t)'
    BY <1>6 DEF NeverRan
  <2>2. RunningLogged(t)'
    <3>1. \A z \in execs : ~(Executing(z) /\ z.task = t)
      BY <1>2, <1>4 DEF TaskInv, RunningLogged, TaskBegan, Protected
    <3>2. QED
      BY <1>1, <1>4, <3>1 DEF RunningLogged, TaskBegan
  <2>3. OwnResult(t)'
    <3> SUFFICES ASSUME runs'[t] = 1 PROVE OwnResult(t)'
      BY DEF OwnResult
    <3>1. /\ \A q \in Readers : ~Handles(q, t, {"upload", "confirm"})
          /\ rec[t].stage = "none"
          /\ \A z \in execs : z.task # t
      BY <1>2, <1>6 DEF TaskInv, NeverRan
    <3>2. \A q \in Readers : ~Handles(q, t, {"upload"})' /\ ~Handles(q, t, {"confirm"})'
      BY <1>3, <3>1 DEF Handles, IdleReader
    <3>3. ~disk'[t].acked
      BY <1>4 DEF TaskBegan
    <3>4. QED
      BY <1>1, <1>7, <3>1, <3>2, <3>3 DEF OwnResult
  <2>4. HasResult(t)'
    <3>1. ~disk'[t].acked
      BY <1>4 DEF TaskBegan
    <3>2. \A q \in Readers : Handles(q, t, {"confirm"})' => Handles(q, t, {"confirm"})
      BY <1>3 DEF Handles, IdleReader
    <3>3. QED
      BY <1>1, <1>2, <1>7, <3>1, <3>2 DEF TaskInv, HasResult
  <2>5. QED
    BY <2>1, <2>2, <2>3, <2>4 DEF TaskInv
<1>11. QED
  BY <1>4, <1>5, <1>8, <1>9, <1>10 DEF AgentInv, Quiet, BothBounded

\* The log knows the task, and its result is to be sent again.
LEMMA AcceptRetransmits ==
  ASSUME ExecInv, NEW r \in Readers, NEW t \in TaskIDs,
         NEW outcome \in {"finished", "interrupted"}, ~entries[t].acked,
         AcceptsAs(r, t, outcome)
  PROVE  AgentInv'
<1> DEFINE up1 == [stage |-> "upload", task |-> t, res |-> entries[t].result]
<1>1. /\ UNCHANGED <<rec, recv, crashes, execs, runs, seen, told>>
      /\ Begin(t, outcome)
      /\ readers' = [readers EXCEPT ![r] = up1]
  BY DEF AcceptsAs, RunOutcomes
<1>2. ExecShape /\ MirrorInv /\ BothBounded /\ TaskInv(t)
  BY DEF ExecInv
<1>3. /\ disk' = disk
      /\ t \in DOMAIN entries /\ entries[t].state = outcome
      /\ Bounded(entries') /\ Bounded(disk')
  BY <1>1, <1>2, BeginEffect, BeginBounded
<1>4. up' /\ up
  BY <1>1 DEF Begin, ExecInv, MirrorInv, LogInv
<1>5. /\ t \in DOMAIN disk /\ HasEnded(t) /\ entries[t].result = disk[t].result
      /\ entries[t].result \in Results \cup {Unknown}
  <2>1. t \in PendingReports(entries)
    BY <1>3 DEF PendingReports
  <2>2. QED
    BY <1>4, <2>1, PendingIsOnDisk
<1>6. /\ readers' \in [Readers -> ReaderStates]
      /\ readers'[r].stage = "upload" /\ readers'[r].task = t
      /\ readers'[r].res = disk[t].result
      /\ \A q \in Readers \ {r} : readers'[q] = readers[q]
  <2>1. up1 \in ReaderStates
    BY <1>5 DEF ReaderStates
  <2>2. QED
    BY <1>1, <1>2, <1>5, <2>1 DEF ExecShape
<1>7. ExecShape'
  BY <1>1, <1>2, <1>6 DEF ExecShape
<1>8. ASSUME NEW s \in TaskIDs \ {t} PROVE TaskInv(s)'
  <2>1. NothingTakenUp(s)
    BY <1>1, <1>6 DEF NothingTakenUp, Handles
  <2>2. QED
    BY <1>3, <2>1, UnwrittenKeeps, KeptTask
<1>9. TaskInv(t)'
  <2>1. NeverRan(t)' /\ RunningLogged(t)'
    BY <1>1, <1>2, <1>3, <1>5 DEF TaskInv, NeverRan, RunningLogged, Executing
  <2>2. ASSUME NEW q \in Readers
        PROVE  Handles(q, t, {"confirm"})' => Handles(q, t, {"confirm"})
    BY <1>6 DEF Handles
  <2>3. HasResult(t)'
    BY <1>1, <1>2, <1>3, <2>2 DEF TaskInv, HasResult
  <2>4. OwnResult(t)'
    <3> SUFFICES ASSUME runs[t] = 1 PROVE OwnResult(t)'
      BY <1>1 DEF OwnResult
    <3>1. HasEnded(t)' /\ (Reported(t) => Reported(t)')
      BY <1>1, <1>3, <1>5 DEF HasEnded, Reported
    <3>2. ASSUME NEW q \in Readers
          PROVE  Handles(q, t, {"upload"})' => readers'[q].res = disk'[t].result
      BY <1>2, <1>3, <1>5, <1>6 DEF TaskInv, OwnResult, Handles
    <3>3. QED
      BY <1>1, <1>2, <1>3, <1>5, <2>2, <3>1, <3>2 DEF TaskInv, OwnResult
  <2>5. QED
    BY <2>1, <2>3, <2>4 DEF TaskInv
<1>10. QED
  BY <1>3, <1>4, <1>7, <1>8, <1>9 DEF AgentInv, Quiet, BothBounded

\* Nothing is left to do, or nothing could be done.
LEMMA AcceptAnswers ==
  ASSUME ExecInv, NEW r \in Readers, NEW t \in TaskIDs,
         NEW outcome \in BeginOutcomes, outcome # "ok",
         outcome \in {"finished", "interrupted"} => entries[t].acked,
         AcceptsAs(r, t, outcome)
  PROVE  AgentInv'
<1>1. /\ UNCHANGED <<rec, recv, crashes, execs, runs>>
      /\ Begin(t, outcome)
      /\ Answer(r, t, outcome \in AckedOutcomes)
  BY DEF AcceptsAs, RunOutcomes
<1>2. ExecShape /\ MirrorInv /\ BothBounded
  BY DEF ExecInv
<1>3. disk' = disk /\ Bounded(entries') /\ Bounded(disk')
  BY <1>1, <1>2, BeginEffect, BeginBounded
<1>4. /\ readers' \in [Readers -> ReaderStates]
      /\ readers'[r] = IdleReader
      /\ \A q \in Readers \ {r} : readers'[q] = readers[q]
      /\ seen' \in Seq(TaskIDs) /\ Len(seen') <= SeenLimit
      /\ told' \subseteq TaskIDs
  BY <1>1, <1>2, AnswerFacts
<1>5. up' /\ up
  BY <1>1 DEF Begin, ExecInv, MirrorInv, LogInv
<1>6. ExecShape'
  BY <1>1, <1>2, <1>4 DEF ExecShape
<1>7. ASSUME NEW s \in TaskIDs PROVE TaskInv(s)'
  <2>1. NothingTakenUp(s)
    BY <1>1, <1>4 DEF NothingTakenUp, Handles, IdleReader
  <2>2. QED
    BY <1>3, <2>1, UnwrittenKeeps, KeptTask
<1>8. QED
  BY <1>3, <1>5, <1>6, <1>7 DEF AgentInv, Quiet, BothBounded

LEMMA AcceptKeeps ==
  ASSUME ExecInv, NEW r \in Readers, Accept(r)
  PROVE  AgentInv'
<1>1. PICK t \in TaskIDs, outcome \in BeginOutcomes :
         Handles(r, t, {"accept"}) /\ AcceptsAs(r, t, outcome)
  BY AcceptTakenApart
<1>2. CASE outcome = "ok"
  BY <1>1, <1>2, AcceptRuns
<1>3. CASE outcome \in {"finished", "interrupted"} /\ ~entries[t].acked
  BY <1>1, <1>3, AcceptRetransmits
<1>4. CASE outcome # "ok" /\ (outcome \in {"finished", "interrupted"} => entries[t].acked)
  BY <1>1, <1>4, AcceptAnswers
<1>5. QED
  BY <1>2, <1>3, <1>4

LEMMA ExecStepInv == ExecInv /\ [Next]_vars => ExecInv'
<1> SUFFICES ASSUME ExecInv, [Next]_vars PROVE AgentInv'
  BY ExecStepsLog DEF ExecInv, AgentInv
<1>1. CASE \E ok \in BOOLEAN : StartAgent(ok)
  BY <1>1, StartAgentKeeps
<1>2. CASE Die
  BY <1>2, DieKeeps
<1>3. CASE Time
  BY <1>3, TimeKeeps
<1>4. CASE \E r \in Readers, t \in TaskIDs : Deliver(r, t)
  BY <1>4, DeliverKeeps
<1>5. CASE \E r \in Readers : ReaderStep(r)
  BY <1>5, AcceptKeeps, RetransmitKeeps, ConfirmRetransmittedKeeps DEF ReaderStep
<1>6. CASE \E x \in execs : ExecutorStep(x)
  BY <1>6, PersistFinishKeeps, UploadResultKeeps, AckResultKeeps DEF ExecutorStep
<1>7. CASE RecoveryStep
  BY <1>7, RecoverySnapshotKeeps, RecoveryUploadKeeps, RecoveryAckKeeps DEF RecoveryStep
<1>8. CASE UNCHANGED vars
  <2>1. UNCHANGED <<entries, disk, up, now, saveFails, readers, execs, rec, seen, runs,
                    recv, told, crashes>>
    BY <1>8 DEF vars, logVars, memVars, srvVars
  <2>2. ExecShape' /\ Quiet' /\ BothBounded'
    BY <2>1 DEF ExecInv, ExecShape, Quiet, BothBounded, Bounded
  <2>3. ASSUME NEW t \in TaskIDs PROVE TaskInv(t)'
    BY <2>1, UnwrittenKeeps, KeptTask DEF NothingTakenUp
  <2>4. QED
    BY <2>2, <2>3 DEF AgentInv
<1>9. QED
  BY <1>1, <1>2, <1>3, <1>4, <1>5, <1>6, <1>7, <1>8 DEF Next

LEMMA ExecInvariantly == Spec => []ExecInv
  BY ExecInitInv, ExecStepInv, PTL DEF Spec

LEMMA ExecInvTypes == ExecInv => ExecTypeOK
<1> SUFFICES ASSUME ExecInv PROVE ExecTypeOK
  OBVIOUS
<1>1. LogTypeOK
  BY DEF ExecInv, MirrorInv, LogInv, LogTypeOK, Sound, ResultFits
<1>2. QED
  BY <1>1 DEF ExecInv, ExecShape, ExecTypeOK

\* In every behaviour of the agent its variables hold what their Go types say.
THEOREM ExecTypeCorrect == Spec => []ExecTypeOK
  BY ExecInvariantly, ExecInvTypes, PTL

\* Whatever is lost, repeated, reordered or crashes: a command that is being
\* executed is on disk as started, no task runs twice at a time, and an entry is
\* acknowledged only after the server has received a result of its task, of a task
\* that ran once the one in the entry.
THEOREM ExecInvariantHolds == Spec => []ExecInvariant
<1>1. ExecInv => RunningIsLogged
  <2> SUFFICES ASSUME ExecInv PROVE RunningIsLogged
    OBVIOUS
  <2>1. ASSUME NEW x \in execs, Executing(x)
        PROVE  /\ x.task \in DOMAIN disk /\ disk[x.task].state = "started"
               /\ \A y \in execs : Executing(y) /\ y.task = x.task => y = x
    <3>1. x.task \in TaskIDs
      BY DEF ExecInv, ExecShape, ExecutorStates
    <3>2. RunningLogged(x.task)
      BY <3>1 DEF ExecInv, TaskInv
    <3>3. QED
      BY <2>1, <3>2 DEF RunningLogged
  <2>2. QED
    BY <2>1 DEF RunningIsLogged
<1>2. ExecInv => AckedMeansReported
  <2> SUFFICES ASSUME ExecInv, NEW t \in DOMAIN disk, disk[t].acked
               PROVE  recv[t] # {} /\ (runs[t] = 1 => disk[t].result \in recv[t])
    BY DEF AckedMeansReported
  <2>1. t \in TaskIDs
    BY DEF ExecInv, MirrorInv, LogInv, Sound, IsEntryMap
  <2>2. QED
    BY <2>1 DEF ExecInv, TaskInv, OwnResult, HasResult, Reported
<1>3. ExecInv => ExecInvariant
  BY <1>1, <1>2, ExecInvTypes DEF ExecInvariant
<1>4. QED
  BY <1>3, ExecInvariantly, PTL

(***************************************************************************)
(* The agent keeps the promise of TaskService: each step moves each task   *)
(* as that specification allows, or not at all.                            *)
(***************************************************************************)
TaskMoves(t) ==
  /\ \/ TaskKept(t)
     \/ TaskBegan(t)
     \/ TaskEnded(t)
     \/ TaskAcked(t) /\ recv[t] # {}
  /\ recv[t] \subseteq recv'[t]

LEMMA ReaderMoves ==
  ASSUME ExecInv, NEW r \in Readers, ReaderStep(r), NEW s \in TaskIDs
  PROVE  TaskMoves(s)
<1>1. MirrorInv /\ BothBounded /\ ExecShape
  BY DEF ExecInv
<1>2. CASE Accept(r)
  <2>1. PICK t \in TaskIDs, outcome \in BeginOutcomes : AcceptsAs(r, t, outcome)
    BY <1>2, AcceptTakenApart
  <2>2. Begin(t, outcome) /\ recv' = recv
    BY <2>1 DEF AcceptsAs
  <2>3. /\ outcome # "ok" => disk' = disk
        /\ outcome = "ok" => TaskBegan(t) /\ \A q \in TaskIDs \ {t} : TaskKept(q)
    BY <1>1, <2>2, BeginEffect
  <2>4. QED
    BY <2>2, <2>3, UnwrittenKeeps DEF TaskMoves
<1>3. CASE Retransmit(r)
  <2>1. disk' = disk
    BY <1>3 DEF Retransmit, logVars
  <2>2. PICK t \in TaskIDs, res \in Results \cup {Unknown} :
           readers[r].task = t /\ readers[r].res = res
    BY <1>1, <1>3 DEF Retransmit, ExecShape, ReaderStates
  <2>3. \E outcome \in UploadOutcomes : Upload(t, res, outcome)
    BY <1>3, <2>2 DEF Retransmit
  <2>4. recv[s] \subseteq recv'[s]
    BY <1>1, <2>3, UploadFacts
  <2>5. QED
    BY <2>1, <2>4, UnwrittenKeeps DEF TaskMoves
<1>4. CASE ConfirmRetransmitted(r)
  <2>1. PICK t \in TaskIDs : readers[r].task = t /\ readers[r].stage = "confirm"
    BY <1>1, <1>4 DEF ConfirmRetransmitted, ExecShape, ReaderStates
  <2>2. PICK ok \in BOOLEAN : Ack(t, ok)
    BY <1>4, <2>1 DEF ConfirmRetransmitted
  <2>3. TaskAcked(t) /\ \A q \in TaskIDs \ {t} : TaskKept(q)
    BY <1>1, <2>2, AckEffect
  <2>4. recv' = recv /\ recv[t] # {}
    BY <1>4, <2>1 DEF ConfirmRetransmitted, ExecInv, TaskInv, HasResult, Handles
  <2>5. QED
    BY <2>3, <2>4 DEF TaskMoves
<1>5. QED
  BY <1>2, <1>3, <1>4 DEF ReaderStep

LEMMA ExecutorMoves ==
  ASSUME ExecInv, NEW x \in execs, ExecutorStep(x), NEW s \in TaskIDs
  PROVE  TaskMoves(s)
<1>1. MirrorInv /\ BothBounded /\ ExecShape
  BY DEF ExecInv
<1>2. PICK t \in TaskIDs, k \in Results : x.task = t /\ x.run = k
  BY <1>1, ExecAssumption DEF ExecShape, ExecutorStates
<1>3. TaskInv(t)
  BY DEF ExecInv
<1>4. CASE PersistFinish(x)
  <2>1. PICK ok \in BOOLEAN : Finish(t, k, ok)
    BY <1>2, <1>4 DEF PersistFinish
  <2>2. t \in DOMAIN disk /\ disk[t].state = "started"
    BY <1>2, <1>3, <1>4 DEF PersistFinish, TaskInv, RunningLogged, Executing
  <2>3. /\ ~ok => disk' = disk
        /\ ok => TaskEnded(t) /\ \A q \in TaskIDs \ {t} : TaskKept(q)
    BY <1>1, <2>1, <2>2, FinishEffect
  <2>4. recv' = recv
    BY <1>4 DEF PersistFinish, srvVars
  <2>5. QED
    BY <2>3, <2>4, UnwrittenKeeps DEF TaskMoves
<1>5. CASE UploadResult(x)
  <2>1. disk' = disk
    BY <1>5 DEF UploadResult, logVars
  <2>2. \E outcome \in UploadOutcomes : Upload(t, k, outcome)
    BY <1>2, <1>5 DEF UploadResult
  <2>3. recv[s] \subseteq recv'[s]
    BY <1>1, <2>2, UploadFacts
  <2>4. QED
    BY <2>1, <2>3, UnwrittenKeeps DEF TaskMoves
<1>6. CASE AckResult(x)
  <2>1. PICK ok \in BOOLEAN : Ack(t, ok)
    BY <1>2, <1>6 DEF AckResult
  <2>2. TaskAcked(t) /\ \A q \in TaskIDs \ {t} : TaskKept(q)
    BY <1>1, <2>1, AckEffect
  <2>3. recv' = recv /\ recv[t] # {}
    BY <1>2, <1>3, <1>6 DEF AckResult, srvVars, TaskInv, HasResult
  <2>4. QED
    BY <2>2, <2>3 DEF TaskMoves
<1>7. QED
  BY <1>4, <1>5, <1>6 DEF ExecutorStep

LEMMA RecoveryMoves ==
  ASSUME ExecInv, RecoveryStep, NEW s \in TaskIDs
  PROVE  TaskMoves(s)
<1>1. MirrorInv /\ BothBounded /\ ExecShape
  BY DEF ExecInv
<1>2. CASE RecoverySnapshot
  BY <1>2, UnwrittenKeeps DEF RecoverySnapshot, logVars, srvVars, TaskMoves
<1>3. ASSUME NEW t \in TaskIDs, NEW outcome \in UploadOutcomes, RecoveryUpload(t, outcome)
      PROVE  TaskMoves(s)
  <2>1. disk' = disk /\ Upload(t, rec[t].res, outcome)
    BY <1>3 DEF RecoveryUpload, logVars
  <2>2. rec[t].res \in Results \cup {Unknown}
    BY <1>1, <1>3 DEF RecoveryUpload, ExecShape, RecoveryStates
  <2>3. recv[s] \subseteq recv'[s]
    BY <1>1, <2>1, <2>2, UploadFacts
  <2>4. QED
    BY <2>1, <2>3, UnwrittenKeeps DEF TaskMoves
<1>4. ASSUME NEW t \in TaskIDs, RecoveryAck(t)
      PROVE  TaskMoves(s)
  <2>1. PICK ok \in BOOLEAN : Ack(t, ok)
    BY <1>4 DEF RecoveryAck
  <2>2. TaskAcked(t) /\ \A q \in TaskIDs \ {t} : TaskKept(q)
    BY <1>1, <2>1, AckEffect
  <2>3. recv' = recv /\ recv[t] # {}
    BY <1>4 DEF RecoveryAck, srvVars, ExecInv, TaskInv, HasResult
  <2>4. QED
    BY <2>2, <2>3 DEF TaskMoves
<1>5. QED
  BY <1>2, <1>3, <1>4 DEF RecoveryStep

LEMMA StepMoves ==
  ASSUME ExecInv, [Next]_vars, NEW s \in TaskIDs
  PROVE  TaskMoves(s)
<1>1. ASSUME NEW ok \in BOOLEAN, StartAgent(ok)
      PROVE  TaskMoves(s)
  BY <1>1, OpenEffect DEF StartAgent, srvVars, ExecInv, TaskMoves
<1>2. CASE Die
  BY <1>2, UnwrittenKeeps DEF Die, Crash, TaskMoves
<1>3. CASE Time
  BY <1>3, UnwrittenKeeps DEF Time, Tick, srvVars, TaskMoves
<1>4. ASSUME NEW r \in Readers, NEW t \in TaskIDs, Deliver(r, t)
      PROVE  TaskMoves(s)
  BY <1>4, UnwrittenKeeps DEF Deliver, logVars, TaskMoves
<1>5. CASE UNCHANGED vars
  BY <1>5, UnwrittenKeeps DEF vars, logVars, srvVars, TaskMoves
<1>6. QED
  BY <1>1, <1>2, <1>3, <1>4, <1>5, ReaderMoves, ExecutorMoves, RecoveryMoves DEF Next

LEMMA StatusFacts ==
  ASSUME NEW t
  PROVE  /\ t \notin DOMAIN disk => StatusOf(t) = "idle"
         /\ t \in DOMAIN disk /\ disk[t].state = "started" => StatusOf(t) = "running"
         /\ t \in DOMAIN disk /\ disk[t].state # "started" => StatusOf(t) = "ended"
         /\ t \notin DOMAIN disk' => StatusOf(t)' = "idle"
         /\ t \in DOMAIN disk' /\ disk'[t].state = "started" => StatusOf(t)' = "running"
         /\ t \in DOMAIN disk' /\ disk'[t].state # "started" => StatusOf(t)' = "ended"
  BY DEF StatusOf

\* An entry that is forgotten or begun anew had ended, and the server has a result.
LEMMA OnlyReportedGo ==
  ASSUME ExecInv, NEW t \in TaskIDs, t \in DOMAIN disk, ~Protected(disk[t])
  PROVE  disk[t].state # "started" /\ recv[t] # {}
<1>1. disk[t] \in Entry
  BY DEF ExecInv, MirrorInv, LogInv, Sound, IsEntryMap
<1>2. disk[t].state # "started" /\ disk[t].acked
  BY <1>1 DEF Protected, Entry
<1>3. QED
  BY <1>2 DEF ExecInv, TaskInv, HasResult

LEMMA MovesAreServed ==
  ASSUME ExecInv, NEW t \in TaskIDs, TaskMoves(t)
  PROVE  /\ \/ StatusOf(t) = "idle" /\ StatusOf(t)' = "running"
            \/ StatusOf(t) = "running" /\ StatusOf(t)' = "ended"
            \/ /\ StatusOf(t) = "ended"
               /\ recv[t] # {}
               /\ StatusOf(t)' \in {"idle", "running"}
            \/ StatusOf(t)' = StatusOf(t)
         /\ recv[t] \subseteq recv'[t]
<1>1. CASE TaskKept(t)
  <2>1. CASE t \in DOMAIN disk'
    BY <1>1, <2>1, StatusFacts DEF TaskMoves, TaskKept, SameTask
  <2>2. CASE t \notin DOMAIN disk' /\ t \in DOMAIN disk
    BY <1>1, <2>2, StatusFacts, OnlyReportedGo DEF TaskMoves, TaskKept
  <2>3. CASE t \notin DOMAIN disk' /\ t \notin DOMAIN disk
    BY <2>3, StatusFacts DEF TaskMoves
  <2>4. QED
    BY <2>1, <2>2, <2>3
<1>2. CASE TaskBegan(t)
  BY <1>2, StatusFacts, OnlyReportedGo DEF TaskMoves, TaskBegan
<1>3. CASE TaskEnded(t)
  BY <1>3, StatusFacts DEF TaskMoves, TaskEnded
<1>4. CASE TaskAcked(t) /\ recv[t] # {}
  BY <1>4, StatusFacts DEF TaskMoves, TaskAcked
<1>5. QED
  BY <1>1, <1>2, <1>3, <1>4 DEF TaskMoves

\* Whatever is lost, repeated, reordered or crashes, a command runs once as long as
\* the agent remembers it, and is forgotten only after the server has a result.
THEOREM ServicePromiseKept == Spec => KeepsServicePromise
<1>1. Init => Service!ServiceInit
  BY StatusFacts DEF Init, LogInit, NoEntries, Service!ServiceInit
<1>2. ExecInv /\ [Next]_vars => [Service!ServiceNext]_Service!serviceVars
  <2> SUFFICES ASSUME ExecInv, [Next]_vars PROVE Service!ServiceNext
    OBVIOUS
  <2>1. \A t \in TaskIDs : TaskMoves(t)
    BY StepMoves
  <2>2. QED
    BY <2>1, MovesAreServed
    DEF Service!ServiceNext, Service!Start, Service!End, Service!Forget, Service!Report
<1>3. QED
  BY <1>1, <1>2, ExecInvariantly, PTL DEF Spec, KeepsServicePromise, Service!ServiceSpec

(***************************************************************************)
(* What the server is told.  The marks of events are what "done" is said   *)
(* by: each is of a task the log knows or knew, or of one that a reader is *)
(* just taking to the log.                                                 *)
(***************************************************************************)
HasGrounds(t) == HasTask(t) \/ BeingAccepted(t)

EventInv ==
  /\ Distinct(seen)
  /\ \A t \in Range(seen) : HasGrounds(t)
  /\ \A r \in Readers, t \in TaskIDs : Handles(r, t, {"upload", "confirm"}) => HasTask(t)

\* What is newly said to be done in a step has its grounds after it.
NewAcksGrounded == \A t \in TaskIDs : t \in told' \ told => HasGrounds(t)'

\* A task is forgotten only once it is reported, and so the agent still has it.
LEMMA TaskStays ==
  ASSUME ExecInv, [Next]_vars, NEW t \in TaskIDs, HasTask(t)
  PROVE  HasTask(t)'
<1>1. TaskMoves(t)
  BY StepMoves
<1>2. CASE recv[t] # {}
  BY <1>1, <1>2 DEF TaskMoves, HasTask
<1>3. CASE t \in DOMAIN disk /\ recv[t] = {}
  <2>1. Protected(disk[t])
    BY <1>3, OnlyReportedGo
  <2>2. QED
    BY <1>1, <1>3, <2>1 DEF TaskMoves, TaskKept, TaskBegan, TaskEnded, HasTask
<1>4. QED
  BY <1>2, <1>3 DEF HasTask

LEMMA MarksAreTasks ==
  ASSUME ExecInv
  PROVE  \A t \in Range(seen) : t \in TaskIDs
<1>1. seen \in Seq(TaskIDs)
  BY DEF ExecInv, ExecShape
<1>2. ASSUME NEW t \in Range(seen) PROVE t \in TaskIDs
  <2>1. PICK i \in 1..Len(seen) : t = seen[i]
    BY <1>1, InRange
  <2>2. QED
    BY <1>1, <2>1
<1>3. QED
  BY <1>2

\* The grounds stay while one reader acts, but for the task that it was accepting.
LEMMA GroundsStay ==
  ASSUME ExecInv, [Next]_vars, NEW r \in Readers,
         \A q \in Readers \ {r} : readers'[q] = readers[q],
         NEW t \in TaskIDs, ~Handles(r, t, {"accept"}), HasGrounds(t)
  PROVE  HasGrounds(t)'
<1>1. CASE HasTask(t)
  BY <1>1, TaskStays DEF HasGrounds
<1>2. CASE BeingAccepted(t)
  <2>1. PICK q \in Readers : readers[q].stage = "accept" /\ readers[q].task = t
    BY <1>2 DEF BeingAccepted
  <2>2. q \in Readers \ {r}
    BY <2>1 DEF Handles
  <2>3. QED
    BY <2>1, <2>2 DEF HasGrounds, BeingAccepted
<1>3. QED
  BY <1>1, <1>2 DEF HasGrounds

\* What is not about events leaves them as they are.
LEMMA EventsLeftAlone ==
  ASSUME ExecInv, EventInv, [Next]_vars, UNCHANGED <<readers, seen, told>>
  PROVE  EventInv' /\ NewAcksGrounded
<1>1. \A t \in TaskIDs : HasTask(t) => HasTask(t)'
  BY TaskStays
<1>2. \A t \in TaskIDs : BeingAccepted(t) => BeingAccepted(t)'
  BY DEF BeingAccepted
<1>3. QED
  BY <1>1, <1>2, MarksAreTasks DEF EventInv, HasGrounds, NewAcksGrounded, Distinct, Handles

LEMMA EventsThroughDeath ==
  ASSUME ExecInv, EventInv, Die
  PROVE  EventInv' /\ NewAcksGrounded
<1>1. /\ \A r \in Readers : readers'[r] = IdleReader
      /\ seen' = << >> /\ told' \subseteq told
  BY DEF Die, Crash
<1>2. Distinct(seen') /\ Range(seen') = {}
  BY <1>1 DEF Distinct, Range
<1>3. QED
  BY <1>1, <1>2 DEF EventInv, NewAcksGrounded, Handles, IdleReader

LEMMA EventsDelivered ==
  ASSUME ExecInv, EventInv, [Next]_vars,
         NEW r \in Readers, NEW t \in TaskIDs, Deliver(r, t)
  PROVE  EventInv' /\ NewAcksGrounded
<1>1. /\ readers[r].stage = "idle"
      /\ readers \in [Readers -> ReaderStates] /\ seen \in Seq(TaskIDs)
      /\ Len(seen) <= SeenLimit
  BY DEF Deliver, ExecInv, ExecShape
<1>2. \A s \in TaskIDs : HasTask(s) => HasTask(s)'
  BY TaskStays
<1>3. CASE t \in Range(seen) /\ told' = told \cup {t} /\ UNCHANGED <<readers, seen>>
  <2>1. \A s \in TaskIDs : HasGrounds(s) => HasGrounds(s)'
    BY <1>2, <1>3 DEF HasGrounds, BeingAccepted
  <2>2. QED
    BY <1>2, <1>3, <2>1, MarksAreTasks DEF EventInv, NewAcksGrounded, Distinct, Handles
<1>4. CASE /\ t \notin Range(seen) /\ seen' = MarkSeen(t) /\ told' = told
           /\ readers' = [readers EXCEPT ![r] = [stage |-> "accept", task |-> t]]
  <2>1. /\ readers'[r].stage = "accept" /\ readers'[r].task = t
        /\ \A q \in Readers \ {r} : readers'[q] = readers[q]
    BY <1>1, <1>4
  <2>2. HasGrounds(t)'
    BY <2>1 DEF HasGrounds, BeingAccepted
  <2>3. \A s \in TaskIDs : HasGrounds(s) => HasGrounds(s)'
    BY <1>1, <2>1, GroundsStay DEF Handles
  <2>4. /\ \A s \in Range(seen') : s \in Range(seen) \/ s = t
        /\ Distinct(seen')
    BY <1>1, <1>4, MarkSeenFacts DEF EventInv
  <2>5. \A s \in Range(seen') : HasGrounds(s)'
    BY <2>2, <2>3, <2>4, MarksAreTasks DEF EventInv
  <2>6. \A q \in Readers, s \in TaskIDs : Handles(q, s, {"upload", "confirm"})'
                                            => HasTask(s)'
    BY <1>2, <2>1 DEF EventInv, Handles
  <2>7. QED
    BY <1>4, <2>4, <2>5, <2>6 DEF EventInv, NewAcksGrounded
<1>5. QED
  BY <1>3, <1>4 DEF Deliver

\* An answer that says "done" is of a task the agent has; any other takes the mark.
LEMMA EventsAnswered ==
  ASSUME ExecInv, EventInv, [Next]_vars,
         NEW r \in Readers, NEW t \in TaskIDs, NEW ack \in BOOLEAN,
         readers[r].task = t, Answer(r, t, ack), ack => HasTask(t)'
  PROVE  EventInv' /\ NewAcksGrounded
<1>1. /\ readers'[r] = IdleReader
      /\ \A q \in Readers \ {r} : readers'[q] = readers[q]
      /\ seen \in Seq(TaskIDs)
  BY AnswerFacts DEF ExecInv, ExecShape
<1>2. \A s \in TaskIDs : HasTask(s) => HasTask(s)'
  BY TaskStays
<1>3. \A s \in Range(seen) : s # t => HasGrounds(s)'
  BY <1>1, GroundsStay, MarksAreTasks DEF EventInv, Handles
<1>4. \A q \in Readers, s \in TaskIDs : Handles(q, s, {"upload", "confirm"})'
                                          => HasTask(s)'
  BY <1>1, <1>2 DEF EventInv, Handles, IdleReader
<1>5. CASE ack
  <2>1. seen' = seen /\ told' = told \cup {t} /\ HasGrounds(t)'
    BY <1>5 DEF Answer, HasGrounds
  <2>2. QED
    BY <1>3, <1>4, <2>1 DEF EventInv, NewAcksGrounded, Distinct
<1>6. CASE ~ack
  <2>1. seen' = Forgotten(t) /\ told' = told
    BY <1>6 DEF Answer
  <2>2. /\ \A s \in Range(seen') : s \in Range(seen)
        /\ Distinct(seen') /\ t \notin Range(seen')
    BY <1>1, <2>1, ForgottenFacts DEF EventInv
  <2>3. QED
    BY <1>3, <1>4, <2>1, <2>2 DEF EventInv, NewAcksGrounded
<1>7. QED
  BY <1>5, <1>6

\* A reader goes on with a task that the agent has, and the marks stay.
LEMMA EventsHandled ==
  ASSUME ExecInv, EventInv, [Next]_vars,
         NEW r \in Readers, NEW t \in TaskIDs, NEW state,
         readers[r].task = t, readers' = [readers EXCEPT ![r] = state],
         state.stage # "accept", state.task = t, UNCHANGED <<seen, told>>, HasTask(t)'
  PROVE  EventInv' /\ NewAcksGrounded
<1>1. /\ readers'[r] = state
      /\ \A q \in Readers \ {r} : readers'[q] = readers[q]
  BY DEF ExecInv, ExecShape
<1>2. \A s \in TaskIDs : HasTask(s) => HasTask(s)'
  BY TaskStays
<1>3. \A s \in Range(seen) : HasGrounds(s)'
  <2>1. \A s \in Range(seen) : s # t => HasGrounds(s)'
    BY <1>1, GroundsStay, MarksAreTasks DEF EventInv, Handles
  <2>2. HasGrounds(t)'
    BY DEF HasGrounds
  <2>3. QED
    BY <2>1, <2>2
<1>4. \A q \in Readers, s \in TaskIDs : Handles(q, s, {"upload", "confirm"})'
                                          => HasTask(s)'
  BY <1>1, <1>2 DEF EventInv, Handles
<1>5. QED
  BY <1>3, <1>4 DEF EventInv, NewAcksGrounded, Distinct

LEMMA EventsRead ==
  ASSUME ExecInv, EventInv, [Next]_vars, NEW r \in Readers, ReaderStep(r)
  PROVE  EventInv' /\ NewAcksGrounded
<1>1. ExecShape /\ MirrorInv
  BY DEF ExecInv
<1>2. \A s \in TaskIDs : HasTask(s) => HasTask(s)'
  BY TaskStays
<1>3. CASE Accept(r)
  <2>1. PICK t \in TaskIDs, outcome \in BeginOutcomes :
           Handles(r, t, {"accept"}) /\ AcceptsAs(r, t, outcome)
    BY <1>3, AcceptTakenApart
  <2>2. Begin(t, outcome) /\ readers[r].task = t
    BY <2>1 DEF AcceptsAs, Handles
  <2>3. outcome \in AckedOutcomes => HasTask(t)'
    <3>1. CASE outcome = "ok"
      BY <1>1, <2>2, <3>1, BeginEffect DEF TaskBegan, HasTask
    <3>2. CASE outcome \in {"finished", "interrupted", "started"}
      <4>1. t \in DOMAIN entries /\ up
        BY <1>1, <2>2, <3>2, BeginEffect DEF Begin
      <4>2. HasTask(t)
        BY <1>1, <4>1 DEF MirrorInv, Mirrors, HasTask
      <4>3. QED
        BY <1>2, <4>2
    <3>3. QED
      BY <3>1, <3>2 DEF AckedOutcomes
  <2>4. CASE outcome \in {"finished", "interrupted"} /\ ~entries[t].acked
    <3> DEFINE state == [stage |-> "upload", task |-> t, res |-> entries[t].result]
    <3>1. UNCHANGED <<seen, told>> /\ readers' = [readers EXCEPT ![r] = state]
      BY <2>1, <2>4 DEF AcceptsAs
    <3>2. HasTask(t)'
      BY <2>3, <2>4 DEF AckedOutcomes
    <3>3. state.stage # "accept" /\ state.task = t
      OBVIOUS
    <3> HIDE DEF state
    <3>4. QED
      BY <2>2, <3>1, <3>2, <3>3, EventsHandled
  <2>5. CASE ~(outcome \in {"finished", "interrupted"} /\ ~entries[t].acked)
    <3>1. Answer(r, t, outcome \in AckedOutcomes)
      BY <2>1, <2>5 DEF AcceptsAs
    <3>2. CASE outcome \in AckedOutcomes
      <4>1. Answer(r, t, TRUE)
        BY <3>1, <3>2
      <4>2. QED
        BY <2>2, <2>3, <3>2, <4>1, EventsAnswered
    <3>3. CASE outcome \notin AckedOutcomes
      <4>1. Answer(r, t, FALSE)
        <5>1. (outcome \in AckedOutcomes) = FALSE
          BY <3>3
        <5>2. QED
          BY <3>1, <5>1
      <4>2. QED
        BY <2>2, <4>1, EventsAnswered
    <3>4. QED
      BY <3>2, <3>3
  <2>6. QED
    BY <2>4, <2>5
<1>4. CASE Retransmit(r)
  <2>1. PICK t \in TaskIDs : readers[r].task = t /\ readers[r].stage = "upload"
    BY <1>1, <1>4 DEF Retransmit, ExecShape, ReaderStates
  <2>2. HasTask(t)'
    BY <1>2, <2>1 DEF EventInv, Handles
  <2>3. CASE Answer(r, t, TRUE)
    BY <2>1, <2>2, <2>3, EventsAnswered
  <2>4. CASE /\ readers' = [readers EXCEPT ![r] = [stage |-> "confirm", task |-> t]]
             /\ UNCHANGED <<seen, told>>
    <3> DEFINE state == [stage |-> "confirm", task |-> t]
    <3>1. state.stage # "accept" /\ state.task = t
      OBVIOUS
    <3>2. readers' = [readers EXCEPT ![r] = state] /\ UNCHANGED <<seen, told>>
      BY <2>4
    <3> HIDE DEF state
    <3>3. QED
      BY <2>1, <2>2, <3>1, <3>2, EventsHandled
  <2>5. QED
    BY <1>4, <2>1, <2>3, <2>4 DEF Retransmit
<1>5. CASE ConfirmRetransmitted(r)
  <2>1. PICK t \in TaskIDs : readers[r].task = t /\ readers[r].stage = "confirm"
    BY <1>1, <1>5 DEF ConfirmRetransmitted, ExecShape, ReaderStates
  <2>2. HasTask(t)'
    BY <1>2, <2>1 DEF EventInv, Handles
  <2>3. Answer(r, t, TRUE)
    BY <1>5, <2>1 DEF ConfirmRetransmitted
  <2>4. QED
    BY <2>1, <2>2, <2>3, EventsAnswered
<1>6. QED
  BY <1>3, <1>4, <1>5 DEF ReaderStep

\* However many goroutines deliver and redeliver events: when the agent says that an
\* event is done, its task is in the log file, or a result of it was delivered, or
\* another goroutine is just about to log it.
THEOREM AcksAlwaysHaveGrounds == Spec => AcksHaveGrounds
<1>1. Init => EventInv
  BY DEF Init, LogInit, NoEntries, EventInv, Distinct, Range, Handles, IdleReader
<1>2. ExecInv /\ EventInv /\ [Next]_vars => EventInv' /\ NewAcksGrounded
  <2> SUFFICES ASSUME ExecInv, EventInv, [Next]_vars PROVE EventInv' /\ NewAcksGrounded
    OBVIOUS
  <2>1. CASE \E ok \in BOOLEAN : StartAgent(ok)
    BY <2>1, EventsLeftAlone DEF StartAgent, memVars, srvVars
  <2>2. CASE Die
    BY <2>2, EventsThroughDeath
  <2>3. CASE Time
    BY <2>3, EventsLeftAlone DEF Time, memVars, srvVars
  <2>4. CASE \E r \in Readers, t \in TaskIDs : Deliver(r, t)
    BY <2>4, EventsDelivered
  <2>5. CASE \E r \in Readers : ReaderStep(r)
    BY <2>5, EventsRead
  <2>6. CASE \E x \in execs : ExecutorStep(x)
    <3>1. UNCHANGED <<readers, seen, told>>
      BY <2>6 DEF ExecutorStep, PersistFinish, UploadResult, AckResult, srvVars
    <3>2. QED
      BY <3>1, EventsLeftAlone
  <2>7. CASE RecoveryStep
    BY <2>7, EventsLeftAlone
    DEF RecoveryStep, RecoverySnapshot, RecoveryUpload, RecoveryAck, srvVars
  <2>8. CASE UNCHANGED vars
    BY <2>8, EventsLeftAlone DEF vars, memVars, srvVars
  <2>9. QED
    BY <2>1, <2>2, <2>3, <2>4, <2>5, <2>6, <2>7, <2>8 DEF Next
<1>3. ExecInv /\ EventInv /\ [Next]_vars =>
        [\A t \in TaskIDs : t \in told' \ told => (HasTask(t) \/ BeingAccepted(t))']_vars
  BY <1>2 DEF NewAcksGrounded, HasGrounds
<1>4. QED
  BY <1>1, <1>2, <1>3, ExecInvariantly, PTL DEF Spec, AcksHaveGrounds
=============================================================================
