----------------------------- MODULE NetStatic -----------------------------
(***************************************************************************)
(* The traffic statistics (monitoring/netstatic/static.go) and their       *)
(* callers.  A sampling goroutine adds to a cache what each interface's    *)
(* counter has moved; a saving goroutine moves the cache into a store,     *)
(* split at the monthly reset, and writes the store to a file.  Starting,  *)
(* stopping and changing the configuration replace the tickers and the     *)
(* stop channel that the goroutines read, without the mutex, at each turn. *)
(*                                                                         *)
(* What runs under the mutex is one action.  Bytes sent and received are   *)
(* one number.  Records are kept as the bytes at each timestamp: their     *)
(* order, and records of one time, are not told apart.  Time is one clock  *)
(* on which one reset falls at Reset; the one before it is before all      *)
(* records.  Of the tickers and stop channels only those now in force      *)
(* differ from all others, which are stopped and closed.                   *)
(***************************************************************************)
EXTENDS Integers, FiniteSetsExt, Functions

CONSTANTS Nics,      \* the interfaces of the machine
          NicLists,  \* the lists of interfaces a configuration may name; {} is all
          Files,     \* what the file may hold when the agent is first started
          NoFile,    \* there is no file
          Corrupt,   \* the file cannot be parsed
          Reset,     \* the instant of the monthly reset
          Preserve,  \* how long a record is kept
          MaxTime,   \* bound on the clock, for model checking
          MaxBytes,  \* bound on what a counter moves, for model checking
          Samplers, Savers, \* the goroutines there may be, for model checking
          MaxFaults  \* bound on failing reads and writes and on counters that go back

Times == 0..MaxTime
Workers == Samplers \cup Savers
Bytes == [Times -> Nat]     \* the records of one interface

File == [records : [Nics -> Bytes], nics : NicLists]

ASSUME NetStaticAssumption ==
  /\ NoFile \notin File /\ Corrupt \notin File
  /\ Files \subseteq File \cup {NoFile, Corrupt}
  /\ {} \in NicLists
  /\ Samplers \cap Savers = {}
  /\ {Preserve, MaxTime, MaxBytes, MaxFaults} \subseteq Nat
  /\ Reset \in 1..MaxTime

VARIABLES now,
          pending,   \* how far an interface's counter is from lastCounters
          seen,      \* the interfaces in lastCounters
          running,
          worker,    \* the goroutines
          nics,      \* config.Nics
          store,     \* store.Interfaces
          cache,     \* staticCache
          clock,     \* the reset clock has a day
          file,
          calls,     \* what startup or an applied configuration calls next
          enabled,   \* month_rotate is not 0
          signalled, \* the process was told to end, and will some time after
          faults,
          \* Kept for the properties only:
          memory,    \* the store against the file: not loaded, saved or not saved
          expected   \* the bytes that were sampled and not lost for a known cause

counterVars == <<pending, seen>>
callVars == <<calls, enabled, signalled>>
dataVars == <<nics, store, cache, clock, file, faults>>
ghostVars == <<memory, expected>>
vars == <<now, counterVars, running, worker, dataVars, callVars, ghostVars>>

\* A goroutine about to read the globals, in its select, or with a tick and waiting
\* for the mutex.  fresh: it has the ticker in force, or can read no other.
Stages == {"none", "loop", "select", "due"}
Worker == [stage : Stages, fresh : BOOLEAN, at : Times]
At(stage, fresh, time) == [stage |-> stage, fresh |-> fresh, at |-> time]
NoWorker == At("none", FALSE, 0)
Looping(fresh) == At("loop", fresh, 0)

NoBytes == [t \in Times |-> 0]
Between(b, from, to) ==
  LET Sum[t \in -1..to] == IF t < from THEN 0 ELSE Sum[t - 1] + b[t] IN Sum[to]
Total(b) == Between(b, 0, MaxTime)
Later(b) == Between(b, Reset, MaxTime)
Plus(b, c) == [t \in Times |-> b[t] + c[t]]
Record(n, t) == [NoBytes EXCEPT ![t] = n]

Monitored(list, n) == list = {} \/ n \in list
Allowed(n) == Monitored(nics, n)
-----------------------------------------------------------------------------
(***************************************************************************)
(* Records                                                                 *)
(***************************************************************************)
Boundary(t) == IF clock /\ t >= Reset THEN Reset ELSE 0

\* Fault: one record, at the time of the flush.
AggregatedAtFlush(b, t, boundary) == Record(Total(b), t)

\* The records of a cache become one, or one on each side of the boundary.
Aggregated(b, t, boundary) ==
  IF boundary = 0 THEN Record(Total(b), t)
  ELSE LET before == Between(b, 0, boundary - 1)
           after  == Between(b, boundary, MaxTime)
       IN Plus(Record(before, IF t >= boundary THEN boundary - 1 ELSE t),
               Record(after, IF t < boundary THEN boundary ELSE t))

Flushed(t) == [n \in Nics |-> Plus(store[n], Aggregated(cache[n], t, Boundary(t)))]

Purged(s) == [n \in Nics |-> [t \in Times |-> IF t >= now - Preserve THEN s[n][t] ELSE 0]]

Expired(s) == [n \in Nics |-> Total(s[n]) - Total(Purged(s)[n])]

\* What one sample finds of an interface: nothing the first time, and nothing of a
\* counter that went back.
SafeDelta(n) == IF n \in seen /\ pending[n] > 0 THEN pending[n] ELSE 0

\* Saving s either writes the file, at once, or fails and leaves it.
Save(s) ==
  \/ /\ file' = [records |-> s, nics |-> nics']
     /\ memory' = "saved"
     /\ UNCHANGED faults
  \/ /\ faults < MaxFaults
     /\ faults' = faults + 1
     /\ memory' = IF memory = "unread" THEN memory ELSE "unsaved"
     /\ UNCHANGED file
-----------------------------------------------------------------------------
(***************************************************************************)
(* Goroutines                                                              *)
(***************************************************************************)
\* The tickers are stopped and the stop channel is closed: a goroutine in its select
\* returns, as a stopped ticker delivers nothing, not even a tick it had before.
Halted == [w \in Workers |-> IF worker[w].stage = "select" THEN NoWorker
                             ELSE [worker[w] EXCEPT !.fresh = FALSE]]

\* Fault: the tickers are replaced and nothing is started.
ReplaceTickers == worker' = Halted

\* They are replaced, and a goroutine of each kind is started.
StartGoroutines ==
  \E a \in Samplers, b \in Savers :
    /\ Halted[a] = NoWorker
    /\ Halted[b] = NoWorker
    /\ worker' = [Halted EXCEPT ![a] = Looping(TRUE), ![b] = Looping(TRUE)]

\* The ticker is read and then the stop channel: both may be replaced before, and
\* the stop channel alone in between.  A closed one ends the goroutine.
EnterSelect(w) ==
  /\ worker[w].stage = "loop"
  /\ \E fresh \in BOOLEAN :
       /\ worker[w].fresh => fresh
       /\ worker' = [worker EXCEPT ![w] =
                       IF running THEN At("select", fresh, 0) ELSE NoWorker]
  /\ UNCHANGED <<now, counterVars, running, dataVars, callVars, ghostVars>>

Fire(w) ==
  /\ worker[w].stage = "select"
  /\ worker[w].fresh
  /\ worker' = [worker EXCEPT ![w] =
                  At("due", FALSE, IF w \in Savers THEN now ELSE 0)]
  /\ UNCHANGED <<now, counterVars, running, dataVars, callVars, ghostVars>>

Sample(w) ==
  /\ worker[w].stage = "due"
  /\ worker' = [worker EXCEPT ![w] = Looping(running)]
  /\ LET found == [n \in Nics |-> IF Allowed(n) THEN SafeDelta(n) ELSE 0]
     IN /\ cache' = [n \in Nics |-> Plus(cache[n], Record(found[n], now))]
        /\ expected' = [n \in Nics |-> expected[n] + found[n]]
  /\ pending' = [n \in Nics |-> IF Allowed(n) THEN 0 ELSE pending[n]]
  /\ seen' = seen \cup {n \in Nics : Allowed(n)}
  /\ UNCHANGED <<now, running, nics, store, clock, file, faults, callVars, memory>>

\* Fault: the cache is not emptied.
FlushAndKeep(t) ==
  /\ store' = Purged(Flushed(t))
  /\ expected' = [n \in Nics |-> expected[n] - Expired(Flushed(t))[n]]
  /\ UNCHANGED <<nics, cache>>
  /\ Save(store')

\* Flush, purge and save, by the ticker and by Stop.
FlushAndSave(t) ==
  /\ store' = Purged(Flushed(t))
  /\ cache' = [n \in Nics |-> NoBytes]
  /\ expected' = [n \in Nics |-> expected[n] - Expired(Flushed(t))[n]]
  /\ UNCHANGED nics
  /\ Save(store')

\* The cache is split by the tick's time, which is read before the mutex is had.
Flush(w) ==
  /\ worker[w].stage = "due"
  /\ worker' = [worker EXCEPT ![w] = Looping(running)]
  /\ FlushAndSave(worker[w].at)
  /\ UNCHANGED <<now, counterVars, running, clock, callVars>>
-----------------------------------------------------------------------------
(***************************************************************************)
(* Start, stop and configuration                                           *)
(***************************************************************************)
FileBytes(n) == IF file \in {NoFile, Corrupt} THEN 0 ELSE Total(file.records[n])

\* What is on record of an interface.
Recorded(n) == Total(cache[n]) + (IF memory = "unread" THEN FileBytes(n) ELSE Total(store[n]))

Load ==
  IF file \in {NoFile, Corrupt}
  THEN /\ file' = NoFile       \* a corrupt file is renamed
       /\ memory' = IF memory = "unread" THEN "saved" ELSE memory
       /\ UNCHANGED <<store, nics, expected>>
  ELSE /\ store' = Purged(file.records)
       /\ nics' = file.nics
       /\ memory' = "saved"
       /\ expected' = [n \in Nics |->
                         CASE memory = "unread"  -> expected[n] - Expired(file.records)[n]
                           [] memory = "saved"   -> expected[n] - Expired(store)[n]
                           [] memory = "unsaved" -> expected[n] - Total(store[n]) + Total(store'[n])]
       /\ UNCHANGED file

StartOrContinue ==
  IF running THEN UNCHANGED <<running, worker, nics, store, file, memory, expected>>
  ELSE /\ Load
       /\ running' = TRUE
       /\ StartGoroutines

LoadFails ==
  /\ ~running
  /\ file # NoFile
  /\ faults < MaxFaults
  /\ faults' = faults + 1
  /\ UNCHANGED <<running, worker, nics, store, file, memory, expected>>

Stop ==
  IF running
  THEN /\ running' = FALSE
       /\ worker' = Halted
       /\ FlushAndSave(now)
  ELSE UNCHANGED <<running, worker, nics, store, cache, file, faults, memory, expected>>

\* The configuration is saved with the store as it is, and the store is purged after.
SetNewConfig(list) ==
  LET dropped == IF running THEN {n \in Nics : ~Monitored(list, n)} ELSE {}
  IN /\ nics' = list
     /\ Save(store)
     /\ IF running THEN StartGoroutines ELSE UNCHANGED worker
     /\ seen' = seen \ dropped
     /\ pending' = [n \in Nics |-> IF n \in dropped THEN 0 ELSE pending[n]]
     /\ cache' = [n \in Nics |-> IF n \in dropped THEN NoBytes ELSE cache[n]]
     /\ store' = Purged(store)
     /\ expected' = [n \in Nics |-> expected[n] - Expired(store)[n]
                       - (IF n \in dropped THEN Total(cache[n]) ELSE 0)
                       - (IF memory = "unread" /\ memory' = "saved" THEN FileBytes(n) ELSE 0)]
-----------------------------------------------------------------------------
(***************************************************************************)
(* Callers                                                                 *)
(***************************************************************************)
\* Startup calls StartOrContinue and then, whether it failed or not, SetNewConfig;
\* a configuration that is applied sets the clock and does so only if it did not.
CallStart ==
  /\ calls \in {"boot", "start"}
  /\ \/ /\ StartOrContinue
        /\ calls' = "configure"
        /\ UNCHANGED faults
     \/ /\ LoadFails
        /\ calls' = IF calls = "boot" THEN "configure" ELSE "idle"
  /\ UNCHANGED <<now, counterVars, cache, clock, enabled, signalled>>

CallSetNewConfig ==
  /\ calls = "configure"
  /\ \E list \in NicLists : SetNewConfig(list)
  /\ calls' = "idle"
  /\ enabled' = TRUE
  /\ UNCHANGED <<now, running, clock, signalled>>

Apply(on) ==
  /\ calls = "idle"
  /\ clock' = on
  /\ calls' = IF on THEN "start" ELSE "stop"
  /\ UNCHANGED <<now, counterVars, running, worker, nics, store, cache, file, faults,
                 enabled, signalled, ghostVars>>

\* A failed save is an error, and the setting stays.
CallStop ==
  /\ calls = "stop"
  /\ Stop
  /\ calls' = "idle"
  /\ enabled' = (enabled /\ faults' # faults)
  /\ UNCHANGED <<now, counterVars, clock, signalled>>

\* A report sets the clock and starts the statistics if they do not run.
Report ==
  /\ enabled
  /\ ~(running /\ clock)   \* else nothing changes
  /\ clock' = TRUE
  /\ \/ StartOrContinue /\ UNCHANGED faults
     \/ LoadFails
  /\ UNCHANGED <<now, counterVars, cache, callVars>>

\* A signal stops the statistics.  The process ends some time after; until then
\* startup, configurations and reports go on, and may start them again.
Signal ==
  /\ ~signalled
  /\ signalled' = TRUE
  /\ Stop
  /\ UNCHANGED <<now, counterVars, clock, calls, enabled>>

\* The process ends, at any moment, and a new one starts, with the statistics on.
Die ==
  /\ running' = FALSE
  /\ worker' = [w \in Workers |-> NoWorker]
  /\ pending' = [n \in Nics |-> 0]
  /\ seen' = {}
  /\ nics' = {}
  /\ store' = [n \in Nics |-> NoBytes]
  /\ cache' = [n \in Nics |-> NoBytes]
  /\ clock' = FALSE
  /\ memory' = "unread"
  /\ expected' = [n \in Nics |-> FileBytes(n)]
  /\ enabled' = TRUE
  /\ calls' = "boot"
  /\ signalled' = FALSE
  /\ UNCHANGED <<now, file, faults>>
-----------------------------------------------------------------------------
Tick ==
  /\ now < MaxTime
  /\ now' = now + 1
  /\ UNCHANGED <<counterVars, running, worker, dataVars, callVars, ghostVars>>

Traffic(n) ==
  /\ n \in seen
  /\ expected[n] + pending[n] < MaxBytes
  /\ pending' = [pending EXCEPT ![n] = @ + 1]
  /\ UNCHANGED <<now, seen, running, worker, dataVars, callVars, ghostVars>>

\* An interface that is made anew, or whose counter wraps, is behind what was read of it.
CounterReset(n) ==
  /\ n \in seen
  /\ faults < MaxFaults
  /\ faults' = faults + 1
  /\ pending' = [pending EXCEPT ![n] = -1]
  /\ UNCHANGED <<now, seen, running, worker, nics, store, cache, clock, file, callVars, ghostVars>>

Init ==
  /\ now = 0
  /\ pending = [n \in Nics |-> 0]
  /\ seen = {}
  /\ running = FALSE
  /\ worker = [w \in Workers |-> NoWorker]
  /\ nics = {}
  /\ store = [n \in Nics |-> NoBytes]
  /\ cache = [n \in Nics |-> NoBytes]
  /\ clock = FALSE
  /\ file \in Files
  /\ enabled = TRUE
  /\ calls = "boot"
  /\ signalled = FALSE
  /\ faults = 0
  /\ memory = "unread"
  /\ expected = [n \in Nics |-> FileBytes(n)]

GoroutineStep ==
  \/ \E w \in Workers : EnterSelect(w) \/ Fire(w)
  \/ \E w \in Samplers : Sample(w)
  \/ \E w \in Savers : Flush(w)

CallerStep ==
  \/ CallStart
  \/ CallSetNewConfig
  \/ \E on \in BOOLEAN : Apply(on)
  \/ CallStop
  \/ Report
  \/ Signal
  \/ Die

Next ==
  \/ GoroutineStep
  \/ CallerStep
  \/ Tick
  \/ \E n \in Nics : Traffic(n) \/ CounterReset(n)

Spec == Init /\ [][Next]_vars
-----------------------------------------------------------------------------
(***************************************************************************)
(* Properties                                                              *)
(***************************************************************************)
\* Every byte that was sampled is on record once, in the cache, the store or a file not
\* yet loaded, unless it expired, its interface was excluded, or a failed save, a
\* failed load or a crash lost it: no flush, restart or goroutine of earlier times
\* loses it or counts it twice.
EveryByteOnce == \A n \in Nics : Recorded(n) = expected[n]

\* What a report gives as the traffic of the cycle after the reset.
CycleTotal(n) == Between(Plus(store[n], cache[n]), Reset, now)

CycleBytes(n) ==
  IF memory # "unread" THEN CycleTotal(n)
  ELSE IF file \in {NoFile, Corrupt} THEN 0 ELSE Later(file.records[n])

Positive(n) == IF n > 0 THEN n ELSE 0

\* A flush by a tick from before the reset, which found the mutex taken until after it.
LateFlush == \E w \in Savers : worker[w].at < Reset /\ Flush(w)

\* The cycle gains what is sampled, and it loses what is lost to all records for one of
\* the causes that EveryByteOnce names or with a process that ends; whichever side of
\* the reset the bytes of a flush are from, and whatever is restarted meanwhile.  Two
\* flushes do otherwise: one without the reset clock, before the first report and after
\* the clock is taken off, may add to the cycle what is from before it, and a late one
\* may take from it what was sampled since the reset.
CycleKept ==
  [][\A n \in Nics :
       LET gained == expected[n]' - expected[n]
           added  == CycleBytes(n)' - CycleBytes(n)
       IN /\ added <= Positive(gained) \/ ~clock
          /\ -added <= Positive(-gained) \/ memory' = "unread" \/ LateFlush]_vars

\* While the statistics run, a goroutine of each kind has the ticker in force or
\* is about to read it.
Attends(w) ==
  \/ worker[w].stage = "due"
  \/ worker[w].stage \in {"loop", "select"} /\ worker[w].fresh

SamplingGoesOn ==
  running => /\ \E w \in Samplers : Attends(w)
             /\ \E w \in Savers : Attends(w)

\* The history in the file is lost by its age only, or when a configuration is saved by
\* a process that could not load it.
FileKept ==
  [][\A n \in Nics :
       \/ file \in {NoFile, Corrupt}
       \/ FileBytes(n)' >= Total(Purged(file.records)[n])
       \/ memory = "unread" /\ calls = "configure"]_vars

\* The history in the file is lost by its age only (the comment at static.go:47).
HistoryIsKept ==
  [][\A n \in Nics :
       file \in {NoFile, Corrupt} \/ FileBytes(n)' >= Total(Purged(file.records)[n])]_vars

\* What is on record changes for the reasons above only, in the sum of the cycle and
\* in the file.
RecordsKept == CycleKept /\ FileKept

\* "Recorded apart, before and after the reset; what is from before is not counted to the
\* new cycle" (readme.md:245), in two parts.  Nothing from before the reset is added to
\* the cycle after it.
NewCycleIsClean ==
  [][\A n \in Nics : CycleBytes(n)' > CycleBytes(n) => expected[n]' > expected[n]]_vars

\* And, while the process lives and the reset clock is on, nothing from after it is taken
\* from the cycle.
NewCycleIsWhole ==
  [][\A n \in Nics :
       clock /\ memory' # "unread" /\ CycleBytes(n)' < CycleBytes(n)
         => expected[n]' < expected[n]]_vars
=============================================================================
