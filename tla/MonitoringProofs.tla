-------------------------- MODULE MonitoringProofs --------------------------
(***************************************************************************)
(* Theorems about what the agent measures over time: the traffic           *)
(* statistics (NetStatic), for any number of goroutines, interfaces and    *)
(* faults, and the return routes (Probe), for any tasks and addresses.     *)
(*                                                                         *)
(* The statistics are sampled and saved as long as they run: the goroutine *)
(* that the last start or change of configuration made keeps the ticker it *)
(* read, or will read it, until both are replaced again.                   *)
(***************************************************************************)
EXTENDS NetStatic, Probe, WellFoundedInduction, TLAPS

WorkersTyped == worker \in [Workers -> Worker]

SamplingInv == WorkersTyped /\ running \in BOOLEAN /\ now \in Times /\ SamplingGoesOn

LEMMA NoWorkerTyped == NoWorker \in Worker
BY NetStaticAssumption DEF NoWorker, At, Worker, Stages, Times

LEMMA NewTyped ==
  ASSUME NEW s \in Stages, NEW f \in BOOLEAN, NEW t \in Times
  PROVE  At(s, f, t) \in Worker /\ At(s, f, t).stage = s /\ At(s, f, t).fresh = f
BY DEF At, Worker

LEMMA Zero == 0 \in Times
BY NetStaticAssumption DEF Times

LEMMA LoopingTyped ==
  ASSUME NEW f \in BOOLEAN
  PROVE  Looping(f) \in Worker /\ Looping(f).stage = "loop" /\ Looping(f).fresh = f
BY NewTyped, Zero DEF Looping, Stages

LEMMA HaltedTyped ==
  ASSUME WorkersTyped
  PROVE  Halted \in [Workers -> Worker]
<1>1. ASSUME NEW w \in Workers
      PROVE  /\ [worker[w] EXCEPT !.fresh = FALSE] \in Worker
             /\ NoWorker \in Worker
  BY NoWorkerTyped DEF WorkersTyped, Worker
<1>2. QED
  BY <1>1 DEF Halted

\* A start leaves a goroutine of each kind that attends to the new tickers.
LEMMA StartAttends ==
  ASSUME WorkersTyped, StartGoroutines
  PROVE  /\ WorkersTyped'
         /\ \E w \in Samplers : Attends(w)'
         /\ \E w \in Savers : Attends(w)'
<1>1. PICK a \in Samplers, b \in Savers :
        worker' = [Halted EXCEPT ![a] = Looping(TRUE), ![b] = Looping(TRUE)]
  BY DEF StartGoroutines
<1>2. /\ Looping(TRUE) \in Worker
      /\ Looping(TRUE).stage = "loop"
      /\ Looping(TRUE).fresh = TRUE
  BY LoopingTyped
<1>3. WorkersTyped'
  BY <1>1, <1>2, HaltedTyped DEF WorkersTyped
<1>4. worker'[a] = Looping(TRUE) /\ worker'[b] = Looping(TRUE)
  BY <1>1, HaltedTyped DEF Workers
<1>5. QED
  BY <1>2, <1>3, <1>4 DEF Attends

\* A step that does not touch the goroutines and the flag keeps the invariant.
LEMMA Untouched ==
  ASSUME SamplingInv, UNCHANGED <<running, worker>>, now' \in Times
  PROVE  SamplingInv'
BY DEF SamplingInv, WorkersTyped, SamplingGoesOn, Attends

\* A goroutine that goes from one attending stage to the next.
LEMMA OneMoves ==
  ASSUME SamplingInv, NEW w \in Workers, NEW next \in Worker,
         worker' = [worker EXCEPT ![w] = next], UNCHANGED <<now, running>>,
         running /\ Attends(w) => \/ next.stage = "due"
                                  \/ next.stage \in {"loop", "select"} /\ next.fresh
  PROVE  SamplingInv'
<1>1. WorkersTyped'
  BY DEF SamplingInv, WorkersTyped
<1>2. \A u \in Workers : running /\ Attends(u) => Attends(u)'
  <2> TAKE u \in Workers
  <2>1. CASE u = w
    BY <2>1 DEF SamplingInv, WorkersTyped, Attends
  <2>2. CASE u # w
    BY <2>2 DEF SamplingInv, WorkersTyped, Attends
  <2> QED
    BY <2>1, <2>2
<1>3. QED
  BY <1>1, <1>2 DEF SamplingInv, SamplingGoesOn, Workers

LEMMA StartOrContinueKeeps ==
  ASSUME SamplingInv, StartOrContinue, now' = now
  PROVE  SamplingInv'
<1>1. CASE running
  BY <1>1, Untouched DEF StartOrContinue, SamplingInv
<1>2. CASE ~running
  <2>1. running' = TRUE /\ StartGoroutines
    BY <1>2 DEF StartOrContinue
  <2>2. QED
    BY <2>1, StartAttends DEF SamplingInv, SamplingGoesOn
<1>3. QED
  BY <1>1, <1>2

LEMMA StopKeeps ==
  ASSUME SamplingInv, Stop, now' = now
  PROVE  SamplingInv'
<1>1. CASE running
  <2>1. running' = FALSE /\ worker' = Halted
    BY <1>1 DEF Stop
  <2>2. QED
    BY <2>1, HaltedTyped DEF SamplingInv, SamplingGoesOn, WorkersTyped
<1>2. CASE ~running
  BY <1>2, Untouched DEF Stop, SamplingInv
<1>3. QED
  BY <1>1, <1>2

LEMMA SetNewConfigKeeps ==
  ASSUME SamplingInv, NEW list \in NicLists, SetNewConfig(list), UNCHANGED <<now, running>>
  PROVE  SamplingInv'
<1>1. CASE running
  <2>1. StartGoroutines
    BY <1>1 DEF SetNewConfig
  <2>2. QED
    BY <2>1, StartAttends DEF SamplingInv, SamplingGoesOn
<1>2. CASE ~running
  <2>1. worker' = worker
    BY <1>2 DEF SetNewConfig
  <2>2. QED
    BY <2>1, Untouched DEF SamplingInv
<1>3. QED
  BY <1>1, <1>2

LEMMA GoroutineKeeps ==
  ASSUME SamplingInv, GoroutineStep
  PROVE  SamplingInv'
<1>1. ASSUME NEW w \in Workers, EnterSelect(w)
      PROVE  SamplingInv'
  <2>1. PICK fresh \in BOOLEAN :
          /\ worker[w].fresh => fresh
          /\ worker' = [worker EXCEPT ![w] =
                         IF running THEN At("select", fresh, 0) ELSE NoWorker]
    BY <1>1 DEF EnterSelect
  <2> DEFINE chosen == At("select", fresh, 0)
  <2>2. chosen \in Worker /\ chosen.stage = "select" /\ chosen.fresh = fresh
    BY NewTyped, Zero DEF Stages
  <2>3. worker[w].stage = "loop" /\ UNCHANGED <<now, running>>
    BY <1>1 DEF EnterSelect
  <2>4. CASE running
    <3>1. worker' = [worker EXCEPT ![w] = chosen]
      BY <2>1, <2>4
    <3>2. Attends(w) => chosen.stage = "select" /\ chosen.fresh
      BY <2>1, <2>2, <2>3 DEF Attends
    <3> HIDE DEF chosen
    <3>3. QED
      BY <3>1, <3>2, <2>2, <2>3, OneMoves
  <2>5. CASE ~running
    <3>1. worker' = [worker EXCEPT ![w] = NoWorker]
      BY <2>1, <2>5
    <3>2. QED
      BY <3>1, <2>3, <2>5, NoWorkerTyped, OneMoves
  <2>6. QED
    BY <2>4, <2>5
<1>2. ASSUME NEW w \in Workers, Fire(w)
      PROVE  SamplingInv'
  <2> DEFINE due == At("due", FALSE, IF w \in Savers THEN now ELSE 0)
  <2>1. due \in Worker /\ due.stage = "due"
    BY NewTyped, Zero DEF Stages, SamplingInv
  <2>2. worker' = [worker EXCEPT ![w] = due] /\ UNCHANGED <<now, running>>
    BY <1>2 DEF Fire
  <2> HIDE DEF due
  <2>3. QED
    BY <2>1, <2>2, OneMoves
<1>3. ASSUME NEW w \in Workers, worker' = [worker EXCEPT ![w] = Looping(running)], UNCHANGED <<now, running>>
      PROVE  SamplingInv'
  BY <1>3, LoopingTyped, OneMoves DEF SamplingInv
<1>4. ASSUME NEW w \in Samplers, Sample(w)
      PROVE  SamplingInv'
  BY <1>3, <1>4 DEF Sample, Workers
<1>5. ASSUME NEW w \in Savers, Flush(w)
      PROVE  SamplingInv'
  BY <1>3, <1>5 DEF Flush, Workers
<1>6. QED
  BY <1>1, <1>2, <1>4, <1>5 DEF GoroutineStep

LEMMA CallerKeeps ==
  ASSUME SamplingInv, CallerStep
  PROVE  SamplingInv'
<1>1. CASE CallStart
  BY <1>1, StartOrContinueKeeps, Untouched DEF CallStart, LoadFails, SamplingInv
<1>2. CASE CallSetNewConfig
  BY <1>2, SetNewConfigKeeps DEF CallSetNewConfig
<1>3. ASSUME NEW on \in BOOLEAN, Apply(on)
      PROVE  SamplingInv'
  BY <1>3, Untouched DEF Apply, SamplingInv
<1>4. CASE CallStop
  BY <1>4, StopKeeps DEF CallStop
<1>5. CASE Report
  BY <1>5, StartOrContinueKeeps, Untouched DEF Report, LoadFails, SamplingInv
<1>6. CASE Signal
  BY <1>6, StopKeeps DEF Signal
<1>7. CASE Die
  <2>1. running' = FALSE /\ worker' = [w \in Workers |-> NoWorker] /\ now' = now
    BY <1>7 DEF Die
  <2>2. QED
    BY <2>1, NoWorkerTyped DEF SamplingInv, SamplingGoesOn, WorkersTyped
<1>8. QED
  BY <1>1, <1>2, <1>3, <1>4, <1>5, <1>6, <1>7 DEF CallerStep

LEMMA SamplingInvIsInductive == SamplingInv /\ [Next]_vars => SamplingInv'
<1> SUFFICES ASSUME SamplingInv, [Next]_vars PROVE SamplingInv'
  OBVIOUS
<1>1. CASE GoroutineStep
  BY <1>1, GoroutineKeeps
<1>2. CASE CallerStep
  BY <1>2, CallerKeeps
<1>3. CASE Tick
  <2>1. now' \in Times
    BY <1>3, NetStaticAssumption DEF Tick, SamplingInv, Times
  <2>2. QED
    BY <1>3, <2>1, Untouched DEF Tick
<1>4. ASSUME NEW n \in Nics, Traffic(n) \/ CounterReset(n)
      PROVE  SamplingInv'
  BY <1>4, Untouched DEF Traffic, CounterReset, SamplingInv
<1>5. CASE UNCHANGED vars
  BY <1>5, Untouched DEF vars, SamplingInv
<1>6. QED
  BY <1>1, <1>2, <1>3, <1>4, <1>5 DEF Next

LEMMA SamplingInit == Init => SamplingInv
<1> SUFFICES ASSUME Init PROVE SamplingInv
  OBVIOUS
<1>1. running = FALSE /\ worker = [w \in Workers |-> NoWorker] /\ now = 0
  BY DEF Init
<1>2. QED
  BY <1>1, Zero, NoWorkerTyped DEF SamplingInv, SamplingGoesOn, WorkersTyped

\* While the statistics run, a sampling and a saving goroutine attend to the ticker and
\* stop channel in force (startGoroutinesLocked, SetNewConfig, Stop).
THEOREM SamplingNeverStops == Spec => []SamplingGoesOn
<1>1. SamplingInv => SamplingGoesOn
  BY DEF SamplingInv
<1>2. QED
  BY <1>1, SamplingInit, SamplingInvIsInductive, PTL DEF Spec
-----------------------------------------------------------------------------
(***************************************************************************)
(* Sums of records.  The sum up to one time is that up to the time before, *)
(* and what is there; the rest is by induction over the times, for which   *)
(* the set of those that have what is claimed stands for the claim.        *)
(***************************************************************************)
LEMMA FirstOf ==
  ASSUME NEW T \in SUBSET Nat, T # {}
  PROVE  \E n \in T : \A m \in T : n <= m
<1>1. \A X : X \subseteq Nat /\ X # {} =>
        \E x \in X : \A y \in X : ~ (<<y, x>> \in OpToRel(<, Nat))
  BY NatLessThanWellFounded, WFMin, Zenon
<1>2. \E x \in T : \A y \in T : ~ (<<y, x>> \in OpToRel(<, Nat))
  BY <1>1, Zenon
<1>3. PICK x \in T : \A y \in T : ~ (<<y, x>> \in OpToRel(<, Nat))
  BY <1>2, Zenon
<1>4. \A y \in T : ~ (y < x)
  BY <1>3 DEF OpToRel
<1>5. QED
  BY <1>4

SumEnds == -1 .. MaxTime

LEMMA TimesTyped == /\ MaxTime \in Nat /\ Times \subseteq Nat /\ Times = SumEnds \ {-1} /\ -1 \in SumEnds
                    /\ \A t \in Times : t - 1 \in SumEnds
BY NetStaticAssumption DEF Times, SumEnds

LEMMA AllTimes ==
  ASSUME NEW G, -1 \in G, \A t \in Times : t - 1 \in G => t \in G
  PROVE  SumEnds \subseteq G
<1> SUFFICES ASSUME NEW e \in SumEnds, e \notin G PROVE FALSE
  OBVIOUS
<1> DEFINE T == {n \in Times : n \notin G}
<1>1. T \in SUBSET Nat /\ T # {}
  <2>1. e \in T
    BY TimesTyped
  <2>2. QED
    BY <2>1, TimesTyped
<1> HIDE DEF T
<1>2. PICK n \in T : \A m \in T : n <= m
  BY <1>1, FirstOf
<1>3. n \in Times /\ n \notin G /\ n \in Nat
  BY <1>2, TimesTyped DEF T
<1>4. n - 1 \in G
  <2>1. CASE n = 0
    BY <2>1
  <2>2. CASE n # 0
    <3>1. n - 1 \in Times
      BY <1>3, <2>2, TimesTyped DEF Times
    <3>2. n - 1 \notin T
      BY <1>2, <1>3
    <3>3. QED
      BY <3>1, <3>2 DEF T
  <2>3. QED
    BY <2>1, <2>2
<1>5. QED
  BY <1>3, <1>4

Sums(g, b, from, to) == g = [t \in -1 .. to |-> IF t < from THEN 0 ELSE g[t - 1] + b[t]]

LEMMA SumsDefined ==
  ASSUME NEW b, NEW from \in Nat, NEW to \in SumEnds
  PROVE  \E g : Sums(g, b, from, to)
<1> DEFINE G == {n \in SumEnds : \E g : Sums(g, b, from, n)}
<1>1. -1 \in G
  <2> DEFINE g == [t \in -1 .. -1 |-> 0]
  <2>1. \A t \in -1 .. -1 : t < from
    OBVIOUS
  <2>2. Sums(g, b, from, -1)
    BY <2>1 DEF Sums
  <2> HIDE DEF g
  <2>3. QED
    BY <2>2, TimesTyped
<1>2. ASSUME NEW n \in Times, n - 1 \in G PROVE n \in G
  <2>1. PICK g : Sums(g, b, from, n - 1)
    BY <1>2
  <2>2. n \in Nat
    BY TimesTyped
  <2> DEFINE h == [t \in -1 .. n |-> IF t < from THEN 0 ELSE g[t - 1] + b[t]]
  <2>3. \A t \in -1 .. n - 1 : h[t] = g[t]
    BY <2>1, <2>2 DEF Sums
  <2>4. \A t \in -1 .. n : ~ (t < from) => t - 1 \in -1 .. n - 1
    BY <2>2
  <2>5. \A t \in -1 .. n : (IF t < from THEN 0 ELSE g[t - 1] + b[t]) = IF t < from THEN 0 ELSE h[t - 1] + b[t]
    BY <2>3, <2>4
  <2>6. Sums(h, b, from, n)
    BY <2>5 DEF Sums
  <2> HIDE DEF h
  <2>7. QED
    BY <2>6, TimesTyped
<1> HIDE DEF G
<1>3. to \in G
  BY <1>1, <1>2, AllTimes
<1>4. QED
  BY <1>3 DEF G

LEMMA BetweenSums ==
  ASSUME NEW b, NEW from \in Nat, NEW to \in SumEnds
  PROVE  \E g : Sums(g, b, from, to) /\ Between(b, from, to) = g[to]
<1>1. Sums(CHOOSE g : Sums(g, b, from, to), b, from, to)
  BY SumsDefined, Zenon
<1>2. Between(b, from, to) = (CHOOSE g : Sums(g, b, from, to))[to]
  BY Zenon DEF Between, Sums
<1>3. QED
  BY <1>1, <1>2

\* Sums up to different times agree.
LEMMA SumsAgree ==
  ASSUME NEW b, NEW from \in Nat, NEW to \in Times, NEW g, NEW h,
         Sums(g, b, from, to), Sums(h, b, from, to - 1)
  PROVE  g[to - 1] = h[to - 1]
<1> DEFINE G == {n \in SumEnds : n <= to - 1 => g[n] = h[n]}
<1>1. /\ \A t \in -1 .. to : g[t] = IF t < from THEN 0 ELSE g[t - 1] + b[t]
      /\ \A t \in -1 .. to - 1 : h[t] = IF t < from THEN 0 ELSE h[t - 1] + b[t]
      /\ to \in Nat
  BY TimesTyped DEF Sums
<1>2. -1 \in G
  BY <1>1, TimesTyped
<1>3. ASSUME NEW n \in Times, n - 1 \in G PROVE n \in G
  <2>1. SUFFICES ASSUME n <= to - 1 PROVE g[n] = h[n]
    BY TimesTyped
  <2>2. n \in -1 .. to /\ n \in -1 .. to - 1 /\ n - 1 <= to - 1
    BY <1>1, <2>1, TimesTyped
  <2>3. g[n - 1] = h[n - 1]
    BY <1>3, <2>2
  <2>4. QED
    BY <1>1, <2>2, <2>3
<1> HIDE DEF G
<1>4. to - 1 \in G
  BY <1>2, <1>3, AllTimes, TimesTyped
<1>5. QED
  BY <1>1, <1>4 DEF G

LEMMA BetweenNone ==
  ASSUME NEW b, NEW from \in Nat
  PROVE  Between(b, from, -1) = 0
<1>1. PICK g : Sums(g, b, from, -1) /\ Between(b, from, -1) = g[-1]
  BY BetweenSums, TimesTyped
<1>2. QED
  BY <1>1 DEF Sums

LEMMA BetweenStep ==
  ASSUME NEW b, NEW from \in Nat, NEW to \in Times
  PROVE  Between(b, from, to) = IF to < from THEN 0 ELSE Between(b, from, to - 1) + b[to]
<1>1. to \in Nat /\ to \in SumEnds /\ to - 1 \in SumEnds
  BY TimesTyped
<1>2. PICK g : Sums(g, b, from, to) /\ Between(b, from, to) = g[to]
  BY <1>1, BetweenSums
<1>3. PICK h : Sums(h, b, from, to - 1) /\ Between(b, from, to - 1) = h[to - 1]
  BY <1>1, BetweenSums
<1>4. g[to] = IF to < from THEN 0 ELSE g[to - 1] + b[to]
  BY <1>1, <1>2 DEF Sums
<1>5. g[to - 1] = h[to - 1]
  BY <1>2, <1>3, SumsAgree
<1>6. QED
  BY <1>2, <1>3, <1>4, <1>5

LEMMA BytesTyped ==
  ASSUME NEW b \in Bytes, NEW t \in Times
  PROVE  b[t] \in Nat
BY DEF Bytes

LEMMA BetweenTyped ==
  ASSUME NEW b \in Bytes, NEW from \in Nat, NEW to \in SumEnds
  PROVE  Between(b, from, to) \in Nat
<1> DEFINE G == {n \in SumEnds : Between(b, from, n) \in Nat}
<1>1. -1 \in G
  BY BetweenNone, TimesTyped
<1>2. ASSUME NEW n \in Times, n - 1 \in G PROVE n \in G
  BY <1>2, BetweenStep, BytesTyped, TimesTyped
<1> HIDE DEF G
<1>3. to \in G
  BY <1>1, <1>2, AllTimes
<1>4. QED
  BY <1>3 DEF G

LEMMA PlusTyped ==
  ASSUME NEW b \in Bytes, NEW c \in Bytes
  PROVE  Plus(b, c) \in Bytes /\ \A t \in Times : Plus(b, c)[t] = b[t] + c[t]
<1>1. \A t \in Times : b[t] \in Nat /\ c[t] \in Nat
  BY BytesTyped
<1>2. QED
  BY <1>1 DEF Plus, Bytes

LEMMA RecordTyped ==
  ASSUME NEW n \in Nat, NEW t \in Times
  PROVE  /\ Record(n, t) \in Bytes /\ NoBytes \in Bytes
         /\ \A s \in Times : Record(n, t)[s] = IF s = t THEN n ELSE 0
BY DEF Record, NoBytes, Bytes

LEMMA BetweenPlus ==
  ASSUME NEW b \in Bytes, NEW c \in Bytes, NEW from \in Nat, NEW to \in SumEnds
  PROVE  Between(Plus(b, c), from, to) = Between(b, from, to) + Between(c, from, to)
<1> DEFINE G == {n \in SumEnds : Between(Plus(b, c), from, n) = Between(b, from, n) + Between(c, from, n)}
<1>1. -1 \in G
  BY BetweenNone, TimesTyped
<1>2. ASSUME NEW n \in Times, n - 1 \in G PROVE n \in G
  <2>1. /\ Between(Plus(b, c), from, n) = IF n < from THEN 0 ELSE Between(Plus(b, c), from, n - 1) + Plus(b, c)[n]
        /\ Between(b, from, n) = IF n < from THEN 0 ELSE Between(b, from, n - 1) + b[n]
        /\ Between(c, from, n) = IF n < from THEN 0 ELSE Between(c, from, n - 1) + c[n]
    BY BetweenStep
  <2>2. Plus(b, c)[n] = b[n] + c[n]
    BY PlusTyped
  <2>3. /\ Between(b, from, n - 1) \in Nat /\ Between(c, from, n - 1) \in Nat
        /\ b[n] \in Nat /\ c[n] \in Nat
    BY BetweenTyped, BytesTyped, TimesTyped
  <2>4. QED
    BY <1>2, <2>1, <2>2, <2>3, TimesTyped
<1> HIDE DEF G
<1>3. to \in G
  BY <1>1, <1>2, AllTimes
<1>4. QED
  BY <1>3 DEF G

\* More at each time between is more in all.
LEMMA BetweenMore ==
  ASSUME NEW b \in Bytes, NEW c \in Bytes, NEW from \in Nat, NEW to \in SumEnds,
         \A t \in Times : t >= from /\ t <= to => b[t] <= c[t]
  PROVE  Between(b, from, to) <= Between(c, from, to)
<1> DEFINE G == {n \in SumEnds : n <= to => Between(b, from, n) <= Between(c, from, n)}
<1>1. -1 \in G
  BY BetweenNone, TimesTyped
<1>2. ASSUME NEW n \in Times, n - 1 \in G PROVE n \in G
  <2>1. SUFFICES ASSUME n <= to PROVE Between(b, from, n) <= Between(c, from, n)
    BY TimesTyped
  <2>2. /\ Between(b, from, n) = IF n < from THEN 0 ELSE Between(b, from, n - 1) + b[n]
        /\ Between(c, from, n) = IF n < from THEN 0 ELSE Between(c, from, n - 1) + c[n]
    BY BetweenStep
  <2>3. /\ Between(b, from, n - 1) \in Nat /\ Between(c, from, n - 1) \in Nat
        /\ b[n] \in Nat /\ c[n] \in Nat /\ n \in Nat /\ to \in Int
    BY BetweenTyped, BytesTyped, TimesTyped DEF SumEnds
  <2>4. Between(b, from, n - 1) <= Between(c, from, n - 1)
    BY <1>2, <2>1, <2>3
  <2>5. n >= from => b[n] <= c[n]
    BY <2>1
  <2>6. QED
    BY <2>2, <2>3, <2>4, <2>5
<1> HIDE DEF G
<1>3. to \in G
  BY <1>1, <1>2, AllTimes
<1>4. QED
  BY <1>3 DEF G, SumEnds

\* The same at each time between is the same in all.
LEMMA BetweenSame ==
  ASSUME NEW b \in Bytes, NEW c \in Bytes, NEW from \in Nat, NEW to \in SumEnds,
         \A t \in Times : t >= from /\ t <= to => b[t] = c[t]
  PROVE  Between(b, from, to) = Between(c, from, to)
<1>1. \A t \in Times : t >= from /\ t <= to => b[t] <= c[t] /\ c[t] <= b[t]
  BY BytesTyped
<1>2. Between(b, from, to) <= Between(c, from, to) /\ Between(c, from, to) <= Between(b, from, to)
  BY <1>1, BetweenMore
<1>3. QED
  BY <1>2, BetweenTyped

LEMMA BetweenRecord ==
  ASSUME NEW n \in Nat, NEW t \in Times, NEW from \in Nat, NEW to \in SumEnds
  PROVE  Between(Record(n, t), from, to) = IF from <= t /\ t <= to THEN n ELSE 0
<1> DEFINE G == {e \in SumEnds : Between(Record(n, t), from, e) = IF from <= t /\ t <= e THEN n ELSE 0}
<1>1. -1 \in G
  BY BetweenNone, TimesTyped
<1>2. ASSUME NEW e \in Times, e - 1 \in G PROVE e \in G
  <2>1. Between(Record(n, t), from, e)
          = IF e < from THEN 0 ELSE Between(Record(n, t), from, e - 1) + Record(n, t)[e]
    BY BetweenStep
  <2>2. Record(n, t)[e] = IF e = t THEN n ELSE 0
    BY RecordTyped
  <2>3. Between(Record(n, t), from, e - 1) = IF from <= t /\ t <= e - 1 THEN n ELSE 0
    BY <1>2
  <2>4. e \in Nat /\ t \in Nat /\ e \in SumEnds
    BY TimesTyped
  <2>5. QED
    BY <2>1, <2>2, <2>3, <2>4
<1> HIDE DEF G
<1>3. to \in G
  BY <1>1, <1>2, AllTimes
<1>4. QED
  BY <1>3 DEF G

LEMMA BetweenNoBytes ==
  ASSUME NEW from \in Nat, NEW to \in SumEnds
  PROVE  Between(NoBytes, from, to) = 0
<1>1. 0 \in Times /\ NoBytes = Record(0, 0)
  BY NetStaticAssumption DEF Times, Record, NoBytes
<1>2. QED
  BY <1>1, BetweenRecord

\* What is before a boundary and what is from there on is all.
LEMMA BetweenSplit ==
  ASSUME NEW b \in Bytes, NEW cut \in 1 .. MaxTime
  PROVE  Between(b, 0, cut - 1) + Between(b, cut, MaxTime) = Total(b)
<1> DEFINE G == {n \in SumEnds : n >= cut - 1 => Between(b, 0, cut - 1) + Between(b, cut, n) = Between(b, 0, n)}
<1>1. cut \in Nat \ {0} /\ cut \in Times /\ cut - 1 \in Times /\ cut - 1 \in SumEnds
  BY TimesTyped DEF Times, SumEnds
<1>2. Between(b, 0, cut - 1) \in Nat
  BY <1>1, BetweenTyped
<1>3. -1 \in G
  BY <1>1, TimesTyped
<1>4. ASSUME NEW n \in Times, n - 1 \in G PROVE n \in G
  <2>1. SUFFICES ASSUME n >= cut - 1 PROVE Between(b, 0, cut - 1) + Between(b, cut, n) = Between(b, 0, n)
    BY TimesTyped
  <2>2. /\ Between(b, 0, n) = IF n < 0 THEN 0 ELSE Between(b, 0, n - 1) + b[n]
        /\ Between(b, cut, n) = IF n < cut THEN 0 ELSE Between(b, cut, n - 1) + b[n]
    BY <1>1, BetweenStep
  <2>3. n \in Nat /\ b[n] \in Nat /\ Between(b, 0, n - 1) \in Nat /\ Between(b, cut, n - 1) \in Nat
    BY <1>1, BetweenTyped, BytesTyped, TimesTyped
  <2>4. CASE n = cut - 1
    BY <1>1, <1>2, <2>2, <2>4
  <2>5. CASE n >= cut
    <3>1. Between(b, 0, cut - 1) + Between(b, cut, n - 1) = Between(b, 0, n - 1)
      BY <1>1, <1>4, <2>3, <2>5
    <3>2. QED
      BY <1>1, <1>2, <2>2, <2>3, <2>5, <3>1
  <2>6. QED
    BY <1>1, <2>1, <2>3, <2>4, <2>5
<1> HIDE DEF G
<1>5. MaxTime \in G
  BY <1>3, <1>4, AllTimes, TimesTyped DEF SumEnds
<1>6. QED
  BY <1>1, <1>5, TimesTyped DEF G, Total

\* What has nothing after a time has all up to it.
LEMMA BetweenUpTo ==
  ASSUME NEW b \in Bytes, NEW from \in Nat, NEW last \in Times,
         \A t \in Times : t > last => b[t] = 0
  PROVE  Between(b, from, last) = Between(b, from, MaxTime)
<1> DEFINE G == {n \in SumEnds : n >= last => Between(b, from, n) = Between(b, from, last)}
<1>1. last \in Nat /\ last \in SumEnds
  BY TimesTyped
<1>2. -1 \in G
  BY <1>1, TimesTyped
<1>3. ASSUME NEW n \in Times, n - 1 \in G PROVE n \in G
  <2>1. n \in Nat /\ n \in SumEnds /\ Between(b, from, n - 1) \in Nat
    BY BetweenTyped, TimesTyped
  <2>2. CASE n > last
    <3>1. Between(b, from, n - 1) = Between(b, from, last)
      BY <1>1, <1>3, <2>1, <2>2
    <3>2. b[n] = 0
      BY <2>2
    <3>3. Between(b, from, n) = IF n < from THEN 0 ELSE Between(b, from, n - 1) + b[n]
      BY BetweenStep
    <3>4. n < from => Between(b, from, n - 1) = 0
      <4>1. CASE n - 1 \in Times
        <5>1. Between(b, from, n - 1) = IF n - 1 < from THEN 0 ELSE Between(b, from, n - 1 - 1) + b[n - 1]
          BY <4>1, BetweenStep
        <5>2. QED
          BY <2>1, <5>1
      <4>2. CASE n - 1 \notin Times
        BY <4>2, BetweenNone, TimesTyped
      <4>3. QED
        BY <3>3, <4>1, <4>2
    <3>5. QED
      BY <2>1, <3>1, <3>2, <3>3, <3>4
  <2>3. CASE ~ (n > last)
    BY <1>1, <2>1, <2>3
  <2>4. QED
    BY <2>2, <2>3
<1> HIDE DEF G
<1>4. MaxTime \in G
  BY <1>2, <1>3, AllTimes, TimesTyped DEF SumEnds
<1>5. QED
  BY <1>1, <1>4, TimesTyped DEF G, Times

(***************************************************************************)
(* What is on record.  Before the file is loaded nothing is in memory and  *)
(* nobody works; after that, what the file holds and has not expired is in *)
(* the store, and nothing else is when the store is saved.                 *)
(***************************************************************************)
NoFileRead == file \in {NoFile, Corrupt}

DataTyped ==
  /\ now \in Times /\ nics \in NicLists
  /\ store \in [Nics -> Bytes] /\ cache \in [Nics -> Bytes]
  /\ file \in File \cup {NoFile, Corrupt}
  /\ memory \in {"unread", "saved", "unsaved"}
  /\ expected \in [Nics -> Int]

LoadedFirst ==
  memory = "unread" => /\ ~running
                       /\ \A w \in Workers : worker[w] = NoWorker
                       /\ \A n \in Nics : store[n] = NoBytes /\ cache[n] = NoBytes

FileInStore ==
  memory # "unread" /\ ~NoFileRead =>
    \A n \in Nics : \A t \in Times :
      t >= now - Preserve => /\ file.records[n][t] <= store[n][t]
                             /\ memory = "saved" => file.records[n][t] = store[n][t]

DataInv == DataTyped /\ LoadedFirst /\ FileInStore /\ EveryByteOnce

RecordInv == SamplingInv /\ DataInv /\ pending \in [Nics -> Int]

\* No record is of a time to come.
OfThePast(b, last) == \A t \in Times : t > last => b[t] = 0

LEMMA TotalIs ==
  ASSUME NEW b \in Bytes
  PROVE  /\ Total(b) \in Nat /\ Later(b) \in Nat
         /\ \A c \in Bytes : Total(Plus(b, c)) = Total(b) + Total(c)
         /\ \A c \in Bytes : Later(Plus(b, c)) = Later(b) + Later(c)
<1>1. MaxTime \in SumEnds /\ Reset \in Nat
  BY NetStaticAssumption, TimesTyped DEF SumEnds
<1>2. QED
  BY <1>1, BetweenTyped, BetweenPlus DEF Total, Later

LEMMA TotalOfRecord ==
  ASSUME NEW n \in Nat, NEW t \in Times
  PROVE  /\ Total(Record(n, t)) = n
         /\ Later(Record(n, t)) = IF t >= Reset THEN n ELSE 0
         /\ Total(NoBytes) = 0 /\ Later(NoBytes) = 0
<1>1. MaxTime \in SumEnds /\ Reset \in Nat /\ t \in Nat /\ t <= MaxTime
  BY NetStaticAssumption, TimesTyped DEF SumEnds, Times
<1>2. Between(Record(n, t), 0, MaxTime) = n
  BY <1>1, BetweenRecord
<1>3. Between(Record(n, t), Reset, MaxTime) = IF t >= Reset THEN n ELSE 0
  BY <1>1, BetweenRecord
<1>4. QED
  BY <1>1, <1>2, <1>3, BetweenNoBytes DEF Total, Later

\* An aggregation gives the bytes of the cache, on each side of the boundary.
LEMMA AggregatedIs ==
  ASSUME NEW b \in Bytes, NEW t \in Times, NEW boundary \in {0, Reset}
  PROVE  /\ Aggregated(b, t, boundary) \in Bytes
         /\ Total(Aggregated(b, t, boundary)) = Total(b)
         /\ boundary = Reset => Later(Aggregated(b, t, boundary)) = Later(b)
         /\ boundary = 0 /\ t < Reset => Later(Aggregated(b, t, boundary)) = 0
         /\ boundary <= t => OfThePast(Aggregated(b, t, boundary), t)
<1>1. /\ Reset \in 1 .. MaxTime /\ Reset \in Nat /\ Reset - 1 \in Times /\ Reset \in Times
      /\ Reset - 1 \in SumEnds /\ MaxTime \in SumEnds /\ t \in Nat
  BY NetStaticAssumption, TimesTyped DEF Times, SumEnds
<1>2. CASE boundary = 0
  <2>1. Aggregated(b, t, boundary) = Record(Total(b), t)
    BY <1>2 DEF Aggregated
  <2>2. Total(b) \in Nat
    BY TotalIs
  <2>3. OfThePast(Record(Total(b), t), t)
    BY <1>1, <2>2, RecordTyped DEF OfThePast
  <2>4. QED
    BY <1>1, <1>2, <2>1, <2>2, <2>3, RecordTyped, TotalOfRecord
<1>3. CASE boundary = Reset
  <2> DEFINE before == Between(b, 0, Reset - 1)
             after == Between(b, Reset, MaxTime)
             early == IF t >= Reset THEN Reset - 1 ELSE t
             late == IF t < Reset THEN Reset ELSE t
  <2>1. before \in Nat /\ after \in Nat /\ before + after = Total(b) /\ after = Later(b)
    BY <1>1, BetweenTyped, BetweenSplit DEF Later
  <2>2. Aggregated(b, t, boundary) = Plus(Record(before, early), Record(after, late))
    BY <1>1, <1>3 DEF Aggregated
  <2>3. early \in Times /\ late \in Times /\ ~ (early >= Reset) /\ late >= Reset
    BY <1>1
  <2> HIDE DEF before, after, early, late
  <2>4. /\ Record(before, early) \in Bytes /\ Record(after, late) \in Bytes
        /\ Total(Record(before, early)) = before /\ Total(Record(after, late)) = after
        /\ Later(Record(before, early)) = 0 /\ Later(Record(after, late)) = after
    BY <2>1, <2>3, RecordTyped, TotalOfRecord
  <2>5. /\ Aggregated(b, t, boundary) \in Bytes
        /\ Total(Aggregated(b, t, boundary)) = Total(b)
        /\ Later(Aggregated(b, t, boundary)) = Later(b)
    BY <2>1, <2>2, <2>4, PlusTyped, TotalIs
  <2>6. Reset <= t => OfThePast(Aggregated(b, t, boundary), t)
    <3>1. SUFFICES ASSUME Reset <= t, NEW s \in Times, s > t PROVE Aggregated(b, t, boundary)[s] = 0
      BY DEF OfThePast
    <3>2. s # early /\ s # late
      BY <1>1, <3>1, TimesTyped DEF early, late
    <3>3. Record(before, early)[s] = 0 /\ Record(after, late)[s] = 0
      BY <2>1, <2>3, <3>2, RecordTyped
    <3>4. QED
      BY <2>2, <2>4, <3>3, PlusTyped
  <2>7. QED
    BY <1>1, <1>3, <2>5, <2>6
<1>4. QED
  BY <1>2, <1>3

LEMMA PurgedIs ==
  ASSUME NEW s \in [Nics -> Bytes]
  PROVE  /\ Purged(s) \in [Nics -> Bytes]
         /\ \A n \in Nics : \A t \in Times :
              Purged(s)[n][t] = IF t >= now - Preserve THEN s[n][t] ELSE 0
         /\ \A n \in Nics : Expired(s)[n] = Total(s[n]) - Total(Purged(s)[n])
         /\ \A n \in Nics : Later(Purged(s)[n]) <= Later(s[n])
<1>1. \A n \in Nics : s[n] \in Bytes /\ \A t \in Times : s[n][t] \in Nat
  BY BytesTyped
<1>2. Purged(s) \in [Nics -> Bytes]
  BY <1>1 DEF Purged, Bytes
<1>3. \A n \in Nics : \A t \in Times : Purged(s)[n][t] = IF t >= now - Preserve THEN s[n][t] ELSE 0
  BY DEF Purged
<1>4. \A n \in Nics : Expired(s)[n] = Total(s[n]) - Total(Purged(s)[n])
  BY DEF Expired
<1>5. ASSUME NEW n \in Nics PROVE Later(Purged(s)[n]) <= Later(s[n])
  <2>1. \A t \in Times : Purged(s)[n][t] <= s[n][t]
    BY <1>1, <1>3
  <2>2. MaxTime \in SumEnds /\ Reset \in Nat
    BY NetStaticAssumption, TimesTyped DEF SumEnds
  <2>3. QED
    BY <1>1, <1>2, <2>1, <2>2, BetweenMore DEF Later
<1>6. QED
  BY <1>2, <1>3, <1>4, <1>5

LEMMA FlushedIs ==
  ASSUME DataTyped, NEW t \in Times
  PROVE  /\ Flushed(t) \in [Nics -> Bytes]
         /\ \A n \in Nics : Total(Flushed(t)[n]) = Total(store[n]) + Total(cache[n])
         /\ \A n \in Nics : \A s \in Times : store[n][s] <= Flushed(t)[n][s]
         /\ clock => \A n \in Nics : Later(Flushed(t)[n]) <= Later(store[n]) + Later(cache[n])
         /\ \A n \in Nics : OfThePast(store[n], now) /\ t <= now => OfThePast(Flushed(t)[n], now)
<1>1. ASSUME NEW n \in Nics
      PROVE  /\ Flushed(t)[n] \in Bytes
             /\ Total(Flushed(t)[n]) = Total(store[n]) + Total(cache[n])
             /\ \A s \in Times : store[n][s] <= Flushed(t)[n][s]
             /\ clock => Later(Flushed(t)[n]) <= Later(store[n]) + Later(cache[n])
             /\ OfThePast(store[n], now) /\ t <= now => OfThePast(Flushed(t)[n], now)
  <2> DEFINE B == Boundary(t)
             A == Aggregated(cache[n], t, B)
  <2>1. /\ store[n] \in Bytes /\ cache[n] \in Bytes /\ now \in Nat /\ t \in Nat
        /\ Reset \in Nat
    BY NetStaticAssumption, TimesTyped DEF DataTyped
  <2>2. /\ B \in {0, Reset} /\ B <= t
        /\ clock => B = Reset \/ (B = 0 /\ t < Reset)
    BY <2>1 DEF Boundary
  <2> HIDE DEF B
  <2>3. /\ A \in Bytes /\ Total(A) = Total(cache[n])
        /\ B = Reset => Later(A) = Later(cache[n])
        /\ B = 0 /\ t < Reset => Later(A) = 0
        /\ OfThePast(A, t)
    BY <2>1, <2>2, AggregatedIs
  <2>4. Flushed(t)[n] = Plus(store[n], A)
    BY DEF Flushed, B
  <2> HIDE DEF A
  <2>5. \A s \in Times : store[n][s] \in Nat /\ A[s] \in Nat /\ Plus(store[n], A)[s] = store[n][s] + A[s]
    BY <2>1, <2>3, BytesTyped, PlusTyped
  <2>6. /\ Total(store[n]) \in Nat /\ Later(store[n]) \in Nat /\ Later(cache[n]) \in Nat
        /\ Total(Plus(store[n], A)) = Total(store[n]) + Total(A)
        /\ Later(Plus(store[n], A)) = Later(store[n]) + Later(A)
    <3>1. Later(cache[n]) \in Nat
      BY <2>1, TotalIs
    <3>2. PICK b \in Bytes : b = store[n]
      BY <2>1
    <3>3. /\ Total(b) \in Nat /\ Later(b) \in Nat
          /\ Total(Plus(b, A)) = Total(b) + Total(A)
          /\ Later(Plus(b, A)) = Later(b) + Later(A)
      BY <2>3, TotalIs
    <3>4. QED
      BY <3>1, <3>2, <3>3
  <2>7. OfThePast(store[n], now) /\ t <= now => OfThePast(Plus(store[n], A), now)
    <3>1. SUFFICES ASSUME OfThePast(store[n], now), t <= now, NEW s \in Times, s > now
                   PROVE  Plus(store[n], A)[s] = 0
      BY DEF OfThePast
    <3>2. s > t
      BY <2>1, <3>1, TimesTyped
    <3>3. store[n][s] = 0 /\ A[s] = 0
      BY <2>3, <3>1, <3>2 DEF OfThePast
    <3>4. QED
      BY <2>5, <3>3
  <2>8. clock => Later(Plus(store[n], A)) <= Later(store[n]) + Later(cache[n])
    BY <2>2, <2>3, <2>6
  <2>9. Plus(store[n], A) \in Bytes
    BY <2>1, <2>3, PlusTyped
  <2>10. \A s \in Times : store[n][s] <= Plus(store[n], A)[s]
    BY <2>5
  <2>11. QED
    BY <2>3, <2>4, <2>6, <2>7, <2>8, <2>9, <2>10
<1>2. Flushed(t) \in [Nics -> Bytes]
  BY <1>1 DEF Flushed
<1>3. QED
  BY <1>1, <1>2

LEMMA FileTyped ==
  ASSUME file \in File \cup {NoFile, Corrupt}, ~NoFileRead
  PROVE  /\ file.records \in [Nics -> Bytes] /\ file.nics \in NicLists
         /\ \A n \in Nics : FileBytes(n) = Total(file.records[n])
BY DEF NoFileRead, File, FileBytes

LEMMA FileBytesTyped ==
  ASSUME file \in File \cup {NoFile, Corrupt}, NEW n \in Nics
  PROVE  FileBytes(n) \in Nat
<1>1. CASE NoFileRead
  BY <1>1 DEF NoFileRead, FileBytes
<1>2. CASE ~NoFileRead
  <2>1. file.records[n] \in Bytes /\ FileBytes(n) = Total(file.records[n])
    BY <1>2, FileTyped
  <2>2. QED
    BY <2>1, TotalIs
<1>3. QED
  BY <1>1, <1>2

\* A save leaves the file as it was, or with what was saved.
LEMMA SaveIs ==
  ASSUME NEW s \in [Nics -> Bytes], nics' \in NicLists, Save(s), DataTyped
  PROVE  /\ file' \in File \cup {NoFile, Corrupt}
         /\ memory' \in {"unread", "saved", "unsaved"}
         /\ \/ memory' = "saved" /\ file' \notin {NoFile, Corrupt} /\ file'.records = s
            \/ file' = file /\ memory' = IF memory = "unread" THEN "unread" ELSE "unsaved"
<1>1. CASE file' = [records |-> s, nics |-> nics'] /\ memory' = "saved"
  BY <1>1, NetStaticAssumption DEF File
<1>2. CASE file' = file /\ memory' = IF memory = "unread" THEN memory ELSE "unsaved"
  BY <1>2 DEF DataTyped
<1>3. QED
  BY <1>1, <1>2 DEF Save

(***************************************************************************)
(* The steps.  Those that touch no record:                                 *)
(***************************************************************************)
LEMMA Expiring ==
  ASSUME NEW earlier \in Nat, NEW later \in Nat, later >= earlier, NEW t \in Nat,
         t >= later - Preserve
  PROVE  t >= earlier - Preserve
<1>1. Preserve \in Nat
  BY NetStaticAssumption
<1>2. QED
  BY <1>1

LEMMA DataUntouched ==
  ASSUME DataInv, UNCHANGED <<nics, store, cache, file, memory, expected>>,
         now' \in Times, now' >= now, LoadedFirst'
  PROVE  DataInv'
<1>1. DataTyped'
  BY DEF DataInv, DataTyped
<1>2. FileInStore'
  <2>1. now \in Nat /\ now' \in Nat /\ Preserve \in Nat
    BY NetStaticAssumption, TimesTyped DEF DataInv, DataTyped
  <2>2. \A t \in Times : t >= now' - Preserve => t >= now - Preserve
    BY <2>1, Expiring, TimesTyped
  <2>3. NoFileRead' = NoFileRead
    BY DEF NoFileRead
  <2>4. QED
    BY <2>2, <2>3 DEF DataInv, FileInStore
<1>3. EveryByteOnce'
  BY DEF DataInv, EveryByteOnce, Recorded, FileBytes
<1>4. QED
  BY <1>1, <1>2, <1>3 DEF DataInv

\* A goroutine works only once the file has been loaded.
LEMMA WorkersHaveData ==
  ASSUME DataInv, NEW w \in Workers, worker[w].stage # "none"
  PROVE  memory # "unread" /\ (memory' = memory => LoadedFirst')
BY DEF DataInv, LoadedFirst, NoWorker, At

LEMMA KnownIs ==
  ASSUME DataInv, NEW n \in Nics
  PROVE  /\ store[n] \in Bytes /\ cache[n] \in Bytes /\ expected[n] \in Int
         /\ Total(store[n]) \in Nat /\ Total(cache[n]) \in Nat
         /\ memory # "unread" => expected[n] = Total(cache[n]) + Total(store[n])
         /\ memory = "unread" => expected[n] = Total(cache[n]) + FileBytes(n)
         /\ memory = "unread" => Total(cache[n]) = 0 /\ Total(store[n]) = 0
<1>1. store[n] \in Bytes /\ cache[n] \in Bytes /\ expected[n] \in Int
  BY DEF DataInv, DataTyped
<1>2. Total(store[n]) \in Nat /\ Total(cache[n]) \in Nat
  BY <1>1, TotalIs
<1>3. memory = "unread" => Total(cache[n]) = 0 /\ Total(store[n]) = 0
  BY TotalOfRecord, Zero DEF DataInv, LoadedFirst
<1>4. Recorded(n) = expected[n]
  BY DEF DataInv, EveryByteOnce
<1>5. QED
  BY <1>1, <1>2, <1>3, <1>4 DEF Recorded

LEMMA SampleKeepsData ==
  ASSUME RecordInv, NEW w \in Samplers, Sample(w)
  PROVE  DataInv'
<1>1. PICK found \in [Nics -> Nat] :
        /\ cache' = [n \in Nics |-> Plus(cache[n], Record(found[n], now))]
        /\ expected' = [n \in Nics |-> expected[n] + found[n]]
  <2> DEFINE f == [n \in Nics |-> IF Allowed(n) THEN SafeDelta(n) ELSE 0]
  <2>1. \A n \in Nics : SafeDelta(n) \in Nat
    BY DEF RecordInv, SafeDelta
  <2>2. f \in [Nics -> Nat]
    BY <2>1
  <2>3. /\ cache' = [n \in Nics |-> Plus(cache[n], Record(f[n], now))]
        /\ expected' = [n \in Nics |-> expected[n] + f[n]]
    BY DEF Sample
  <2> HIDE DEF f
  <2>4. QED
    BY <2>2, <2>3
<1>2. DataInv /\ now \in Times /\ UNCHANGED <<now, nics, store, file, memory>>
  BY DEF Sample, RecordInv, DataInv, DataTyped
<1>3. memory # "unread" /\ LoadedFirst'
  BY <1>2, WorkersHaveData DEF Sample, Workers
<1>4. ASSUME NEW n \in Nics
      PROVE  /\ cache'[n] \in Bytes /\ Total(cache'[n]) = Total(cache[n]) + found[n]
             /\ expected'[n] \in Int /\ expected'[n] = expected[n] + found[n]
  <2>1. /\ found[n] \in Nat /\ cache[n] \in Bytes /\ expected[n] \in Int
        /\ Record(found[n], now) \in Bytes /\ Total(Record(found[n], now)) = found[n]
    BY <1>2, KnownIs, RecordTyped, TotalOfRecord
  <2>2. PICK b \in Bytes, r \in Bytes : b = cache[n] /\ r = Record(found[n], now)
    BY <2>1
  <2>3. Plus(b, r) \in Bytes /\ Total(Plus(b, r)) = Total(b) + Total(r)
    BY TotalIs, PlusTyped
  <2>4. cache'[n] = Plus(b, r)
    BY <1>1, <2>2
  <2>5. QED
    BY <1>1, <2>1, <2>2, <2>3, <2>4
<1>5. DataTyped'
  <2>1. cache' \in [Nics -> Bytes] /\ expected' \in [Nics -> Int]
    BY <1>1, <1>4
  <2>2. QED
    BY <1>2, <2>1 DEF DataInv, DataTyped
<1>6. FileInStore'
  BY <1>2 DEF DataInv, FileInStore, NoFileRead
<1>7. EveryByteOnce'
  <2>1. \A n \in Nics : /\ expected[n] = Total(cache[n]) + Total(store[n])
                        /\ Total(cache[n]) \in Nat /\ Total(store[n]) \in Nat /\ found[n] \in Nat
    BY <1>2, <1>3, KnownIs
  <2>2. \A n \in Nics : Recorded(n)' = Total(cache'[n]) + Total(store[n])
    BY <1>2, <1>3 DEF Recorded
  <2>3. QED
    BY <1>4, <2>1, <2>2 DEF EveryByteOnce
<1>8. QED
  BY <1>3, <1>5, <1>6, <1>7 DEF DataInv

LEMMA FlushKeepsData ==
  ASSUME DataInv, memory # "unread", NEW t \in Times, FlushAndSave(t), now' = now
  PROVE  DataInv'
<1>1. DataTyped /\ nics' \in NicLists /\ now \in Nat
  BY TimesTyped DEF DataInv, DataTyped, FlushAndSave
<1>2. PICK F \in [Nics -> Bytes] :
        /\ F = Flushed(t)
        /\ \A n \in Nics : Total(F[n]) = Total(store[n]) + Total(cache[n])
        /\ \A n \in Nics : \A s \in Times : store[n][s] <= F[n][s]
  BY <1>1, FlushedIs
<1>3. PICK P \in [Nics -> Bytes] :
        /\ P = Purged(F)
        /\ \A n \in Nics : \A s \in Times : P[n][s] = IF s >= now - Preserve THEN F[n][s] ELSE 0
        /\ \A n \in Nics : Expired(F)[n] = Total(F[n]) - Total(P[n])
  BY PurgedIs
<1>4. /\ store' = P /\ cache' = [n \in Nics |-> NoBytes]
      /\ \A n \in Nics : expected'[n] = expected[n] - (Total(F[n]) - Total(P[n]))
      /\ expected' = [n \in Nics |-> expected[n] - Expired(F)[n]]
  BY <1>2, <1>3 DEF FlushAndSave
<1>5. Save(P)
  BY <1>4 DEF FlushAndSave
<1>6. /\ file' \in File \cup {NoFile, Corrupt}
      /\ memory' \in {"unread", "saved", "unsaved"}
      /\ \/ memory' = "saved" /\ file' \notin {NoFile, Corrupt} /\ file'.records = P
         \/ file' = file /\ memory' = "unsaved"
  BY <1>1, <1>5, SaveIs
<1>7. ASSUME NEW n \in Nics
      PROVE  /\ expected'[n] \in Int
             /\ expected'[n] = Total(P[n])
  <2>1. /\ Total(F[n]) \in Nat /\ Total(P[n]) \in Nat
    BY TotalIs
  <2>2. expected[n] = Total(cache[n]) + Total(store[n]) /\ Total(cache[n]) \in Nat /\ Total(store[n]) \in Nat
    BY KnownIs
  <2>3. QED
    BY <1>2, <1>4, <2>1, <2>2
<1>8. DataTyped'
  <2>1. cache' \in [Nics -> Bytes] /\ expected' \in [Nics -> Int]
    BY <1>4, <1>7, RecordTyped, Zero
  <2>2. QED
    BY <1>1, <1>4, <1>6, <2>1 DEF DataTyped
<1>9. EveryByteOnce'
  <2>1. \A n \in Nics : Total(cache'[n]) = 0
    BY <1>4, TotalOfRecord, Zero
  <2>2. \A n \in Nics : Recorded(n)' = Total(cache'[n]) + Total(P[n])
    BY <1>4, <1>6 DEF Recorded
  <2>3. \A n \in Nics : Total(P[n]) \in Nat
    BY TotalIs
  <2>4. QED
    BY <1>7, <2>1, <2>2, <2>3 DEF EveryByteOnce
<1>10. FileInStore'
  <2>1. CASE memory' = "saved" /\ file'.records = P
    BY <2>1, <1>4, BytesTyped DEF FileInStore
  <2>2. CASE file' = file /\ memory' = "unsaved"
    <3>1. SUFFICES ASSUME ~NoFileRead, NEW n \in Nics, NEW s \in Times, s >= now - Preserve
                   PROVE  file.records[n][s] <= P[n][s]
      BY <1>4, <2>2 DEF FileInStore, NoFileRead
    <3>2. file.records[n][s] <= store[n][s]
      BY <3>1 DEF DataInv, FileInStore
    <3>3. file.records[n] \in Bytes /\ store[n] \in Bytes /\ F[n] \in Bytes
      BY <1>1, <3>1, FileTyped DEF DataTyped
    <3>4. file.records[n][s] \in Nat /\ store[n][s] \in Nat /\ F[n][s] \in Nat
      BY <3>3, BytesTyped
    <3>5. QED
      BY <1>2, <1>3, <3>1, <3>2, <3>4
  <2>3. QED
    BY <1>6, <2>1, <2>2
<1>11. LoadedFirst'
  BY <1>6 DEF LoadedFirst
<1>12. QED
  BY <1>8, <1>9, <1>10, <1>11 DEF DataInv

LEMMA LoadKeepsData ==
  ASSUME DataInv, Load, UNCHANGED <<now, cache>>
  PROVE  DataInv'
<1>1. DataTyped /\ now \in Nat
  BY TimesTyped DEF DataInv, DataTyped
<1>2. CASE NoFileRead
  <2>1. /\ file' = NoFile /\ UNCHANGED <<store, nics, expected>>
        /\ memory' = IF memory = "unread" THEN "saved" ELSE memory
    BY <1>2 DEF Load, NoFileRead
  <2>2. DataTyped' /\ LoadedFirst' /\ FileInStore'
    BY <1>1, <2>1 DEF DataTyped, LoadedFirst, FileInStore, NoFileRead
  <2>3. ASSUME NEW n \in Nics PROVE Recorded(n)' = expected'[n]
    <3>1. Recorded(n)' = Total(cache[n]) + Total(store[n])
      BY <1>1, <2>1 DEF Recorded, DataTyped
    <3>2. memory = "unread" => FileBytes(n) = 0
      BY <1>2 DEF FileBytes, NoFileRead
    <3>3. QED
      BY <2>1, <3>1, <3>2, KnownIs
  <2>4. QED
    BY <2>2, <2>3 DEF DataInv, EveryByteOnce
<1>3. CASE ~NoFileRead
  <2>1. PICK R \in [Nics -> Bytes] :
          /\ R = file.records /\ file.nics \in NicLists
          /\ \A n \in Nics : FileBytes(n) = Total(R[n])
    BY <1>1, <1>3, FileTyped DEF DataTyped
  <2>2. PICK P \in [Nics -> Bytes] :
          /\ P = Purged(R)
          /\ \A n \in Nics : \A s \in Times : P[n][s] = IF s >= now - Preserve THEN R[n][s] ELSE 0
          /\ \A n \in Nics : Expired(R)[n] = Total(R[n]) - Total(P[n])
    BY PurgedIs
  <2>3. PICK Q \in [Nics -> Bytes] :
          /\ Q = Purged(store)
          /\ \A n \in Nics : \A s \in Times : Q[n][s] = IF s >= now - Preserve THEN store[n][s] ELSE 0
          /\ \A n \in Nics : Expired(store)[n] = Total(store[n]) - Total(Q[n])
    BY <1>1, PurgedIs DEF DataTyped
  <2>4. /\ store' = P /\ nics' = file.nics /\ memory' = "saved" /\ file' = file
        /\ expected' = [n \in Nics |->
                         CASE memory = "unread"  -> expected[n] - Expired(R)[n]
                           [] memory = "saved"   -> expected[n] - Expired(store)[n]
                           [] memory = "unsaved" -> expected[n] - Total(store[n]) + Total(P[n])]
    BY <1>3, <2>1, <2>2 DEF Load, NoFileRead
  <2>5. ASSUME NEW n \in Nics
        PROVE  expected'[n] = Total(cache[n]) + Total(P[n]) /\ expected'[n] \in Int
    <3>1. /\ store[n] \in Bytes /\ expected[n] \in Int
          /\ Total(store[n]) \in Nat /\ Total(cache[n]) \in Nat
          /\ Total(P[n]) \in Nat /\ Total(Q[n]) \in Nat /\ Total(R[n]) \in Nat
      BY KnownIs, TotalIs
    <3>2. CASE memory = "unread"
      <4>1. expected'[n] = expected[n] - (Total(R[n]) - Total(P[n]))
        BY <2>2, <2>4, <3>2
      <4>2. expected[n] = Total(cache[n]) + Total(R[n])
        BY <2>1, <3>2, KnownIs
      <4>3. QED
        BY <3>1, <4>1, <4>2
    <3>3. CASE memory = "saved"
      <4>1. expected'[n] = expected[n] - (Total(store[n]) - Total(Q[n]))
        BY <2>3, <2>4, <3>3
      <4>2. expected[n] = Total(cache[n]) + Total(store[n])
        BY <3>3, KnownIs
      <4>3. \A s \in Times : s >= now - Preserve => R[n][s] = store[n][s]
        BY <1>3, <2>1, <3>3 DEF DataInv, FileInStore
      <4>4. Q[n] = P[n]
        <5>1. \A s \in Times : Q[n][s] = P[n][s]
          BY <2>2, <2>3, <4>3
        <5>2. Q[n] \in [Times -> Nat] /\ P[n] \in [Times -> Nat]
          BY DEF Bytes
        <5>3. QED
          BY <5>1, <5>2
      <4>5. QED
        BY <3>1, <4>1, <4>2, <4>4
    <3>4. CASE memory = "unsaved"
      <4>1. expected'[n] = expected[n] - Total(store[n]) + Total(P[n])
        BY <2>4, <3>4
      <4>2. expected[n] = Total(cache[n]) + Total(store[n])
        BY <3>4, KnownIs
      <4>3. QED
        BY <3>1, <4>1, <4>2
    <3>5. QED
      BY <1>1, <3>2, <3>3, <3>4 DEF DataTyped
  <2>6. DataTyped'
    <3>1. expected' \in [Nics -> Int]
      BY <2>4, <2>5
    <3>2. QED
      BY <1>1, <2>1, <2>4, <3>1 DEF DataTyped
  <2>7. FileInStore'
    BY <2>1, <2>2, <2>4, BytesTyped DEF FileInStore
  <2>8. EveryByteOnce'
    BY <2>4, <2>5 DEF EveryByteOnce, Recorded
  <2>9. QED
    BY <2>4, <2>6, <2>7, <2>8 DEF DataInv, LoadedFirst
<1>4. QED
  BY <1>2, <1>3

LEMMA StartOrContinueKeepsData ==
  ASSUME DataInv, StartOrContinue, UNCHANGED <<now, cache>>
  PROVE  DataInv'
<1>1. CASE running
  <2>1. LoadedFirst' /\ now' \in Times /\ now' >= now
    BY <1>1, TimesTyped DEF StartOrContinue, DataInv, DataTyped, LoadedFirst
  <2>2. QED
    BY <1>1, <2>1, DataUntouched DEF StartOrContinue
<1>2. CASE ~running
  BY <1>2, LoadKeepsData DEF StartOrContinue
<1>3. QED
  BY <1>1, <1>2

LEMMA LoadFailsKeepsData ==
  ASSUME DataInv, LoadFails, UNCHANGED <<now, cache>>
  PROVE  DataInv'
<1>1. LoadedFirst' /\ now' \in Times /\ now' >= now
  BY TimesTyped DEF LoadFails, DataInv, DataTyped, LoadedFirst
<1>2. QED
  BY <1>1, DataUntouched DEF LoadFails

LEMMA StopKeepsData ==
  ASSUME DataInv, Stop, UNCHANGED now
  PROVE  DataInv'
<1>1. now \in Times /\ now >= now
  BY TimesTyped DEF DataInv, DataTyped
<1>2. CASE running
  <2>1. memory # "unread"
    BY <1>2 DEF DataInv, LoadedFirst
  <2>2. QED
    BY <1>1, <1>2, <2>1, FlushKeepsData DEF Stop
<1>3. CASE ~running
  BY <1>1, <1>3, DataUntouched DEF Stop, DataInv, LoadedFirst
<1>4. QED
  BY <1>2, <1>3

LEMMA DieKeepsData ==
  ASSUME DataInv, Die
  PROVE  DataInv'
<1>1. /\ DataTyped /\ UNCHANGED <<now, file>> /\ nics' = {} /\ memory' = "unread" /\ running' = FALSE
      /\ store' = [n \in Nics |-> NoBytes] /\ cache' = [n \in Nics |-> NoBytes]
      /\ worker' = [w \in Workers |-> NoWorker]
      /\ expected' = [n \in Nics |-> FileBytes(n)]
  BY DEF Die, DataInv
<1>2. ASSUME NEW n \in Nics PROVE FileBytes(n) \in Nat
  BY <1>1, FileBytesTyped DEF DataTyped
<1>3. NoBytes \in Bytes /\ Total(NoBytes) = 0
  BY RecordTyped, TotalOfRecord, Zero
<1>4. DataTyped'
  <2>1. /\ store' \in [Nics -> Bytes] /\ cache' \in [Nics -> Bytes]
        /\ expected' \in [Nics -> Int]
    BY <1>1, <1>2, <1>3
  <2>2. {} \in NicLists
    BY NetStaticAssumption
  <2>3. QED
    BY <1>1, <2>1, <2>2 DEF DataTyped
<1>5. LoadedFirst' /\ FileInStore'
  BY <1>1 DEF LoadedFirst, FileInStore
<1>6. ASSUME NEW n \in Nics PROVE Recorded(n)' = expected'[n]
  <2>1. Recorded(n)' = Total(cache'[n]) + FileBytes(n)
    BY <1>1 DEF Recorded, FileBytes
  <2>2. QED
    BY <1>1, <1>2, <1>3, <2>1
<1>7. QED
  BY <1>4, <1>5, <1>6 DEF DataInv, EveryByteOnce

LEMMA SetNewConfigKeepsData ==
  ASSUME DataInv, NEW list \in NicLists, SetNewConfig(list), UNCHANGED <<now, running>>
  PROVE  DataInv'
<1>1. DataTyped /\ now \in Nat /\ nics' \in NicLists /\ store \in [Nics -> Bytes]
  BY TimesTyped DEF DataInv, DataTyped, SetNewConfig
<1>2. PICK P \in [Nics -> Bytes] :
        /\ P = Purged(store)
        /\ \A n \in Nics : \A s \in Times : P[n][s] = IF s >= now - Preserve THEN store[n][s] ELSE 0
        /\ \A n \in Nics : Expired(store)[n] = Total(store[n]) - Total(P[n])
  BY <1>1, PurgedIs
<1>3. PICK dropped \in SUBSET Nics :
        /\ Save(store) /\ store' = P
        /\ running \/ UNCHANGED worker
        /\ dropped = {} \/ running
        /\ cache' = [n \in Nics |-> IF n \in dropped THEN NoBytes ELSE cache[n]]
        /\ expected' = [n \in Nics |-> expected[n] - Expired(store)[n]
                          - (IF n \in dropped THEN Total(cache[n]) ELSE 0)
                          - (IF memory = "unread" /\ memory' = "saved" THEN FileBytes(n) ELSE 0)]
  <2> DEFINE D == IF running THEN {n \in Nics : ~Monitored(list, n)} ELSE {}
  <2>1. D \in SUBSET Nics /\ (D = {} \/ running)
    OBVIOUS
  <2>2. /\ Save(store) /\ store' = P
        /\ running \/ UNCHANGED worker
        /\ cache' = [n \in Nics |-> IF n \in D THEN NoBytes ELSE cache[n]]
        /\ expected' = [n \in Nics |-> expected[n] - Expired(store)[n]
                          - (IF n \in D THEN Total(cache[n]) ELSE 0)
                          - (IF memory = "unread" /\ memory' = "saved" THEN FileBytes(n) ELSE 0)]
    BY <1>2 DEF SetNewConfig
  <2> HIDE DEF D
  <2>3. QED
    BY <2>1, <2>2
<1>4. /\ file' \in File \cup {NoFile, Corrupt}
      /\ memory' \in {"unread", "saved", "unsaved"}
      /\ \/ memory' = "saved" /\ file' \notin {NoFile, Corrupt} /\ file'.records = store
         \/ file' = file /\ memory' = IF memory = "unread" THEN "unread" ELSE "unsaved"
  BY <1>1, <1>3, SaveIs
<1>5. NoBytes \in Bytes /\ Total(NoBytes) = 0
  BY RecordTyped, TotalOfRecord, Zero
<1>6. ASSUME NEW n \in Nics
      PROVE  /\ cache'[n] \in Bytes /\ expected'[n] \in Int
             /\ Recorded(n)' = expected'[n]
             /\ memory = "unread" => store'[n] = NoBytes /\ cache'[n] = NoBytes
  <2>1. /\ expected[n] \in Int /\ cache[n] \in Bytes /\ store[n] \in Bytes
        /\ Total(store[n]) \in Nat /\ Total(cache[n]) \in Nat /\ Total(P[n]) \in Nat
    BY KnownIs, TotalIs
  <2>2. /\ cache'[n] = IF n \in dropped THEN NoBytes ELSE cache[n]
        /\ Total(cache'[n]) = Total(cache[n]) - (IF n \in dropped THEN Total(cache[n]) ELSE 0)
    BY <1>3, <1>5, <2>1
  <2>3. expected'[n] = expected[n] - (Total(store[n]) - Total(P[n]))
                          - (IF n \in dropped THEN Total(cache[n]) ELSE 0)
                          - (IF memory = "unread" /\ memory' = "saved" THEN FileBytes(n) ELSE 0)
    BY <1>2, <1>3
  <2>4. CASE memory # "unread"
    <3>1. expected[n] = Total(cache[n]) + Total(store[n])
      BY <2>4, KnownIs
    <3>2. Recorded(n)' = Total(cache'[n]) + Total(P[n])
      BY <1>3, <1>4, <2>4 DEF Recorded
    <3>3. expected'[n] = Total(cache'[n]) + Total(P[n])
      BY <2>1, <2>2, <2>3, <2>4, <3>1
    <3>4. cache'[n] \in Bytes /\ Total(cache'[n]) \in Nat
      BY <1>5, <2>1, <2>2
    <3>5. QED
      BY <2>1, <2>4, <3>2, <3>3, <3>4
  <2>5. CASE memory = "unread"
    <3>1. /\ store[n] = NoBytes /\ cache[n] = NoBytes
          /\ expected[n] = FileBytes(n) /\ FileBytes(n) \in Nat
      <4>1. FileBytes(n) \in Nat
        BY <1>1, FileBytesTyped DEF DataTyped
      <4>2. store[n] = NoBytes /\ cache[n] = NoBytes
        BY <2>5 DEF DataInv, LoadedFirst
      <4>3. QED
        BY <2>5, <4>1, <4>2, KnownIs
    <3>2. P[n] = NoBytes
      <4>1. \A s \in Times : P[n][s] = NoBytes[s]
        BY <1>2, <3>1 DEF NoBytes
      <4>2. P[n] \in [Times -> Nat] /\ NoBytes \in [Times -> Nat]
        BY <1>5 DEF Bytes
      <4>3. QED
        BY <4>1, <4>2
    <3>3. cache'[n] = NoBytes /\ store'[n] = NoBytes
      BY <1>3, <2>2, <3>1, <3>2
    <3>4. expected'[n] = IF memory' = "saved" THEN 0 ELSE FileBytes(n)
      BY <1>5, <2>1, <2>3, <2>5, <3>1, <3>2
    <3>5. Recorded(n)' = expected'[n]
      <4>1. CASE memory' = "saved"
        BY <1>5, <3>3, <3>4, <4>1 DEF Recorded
      <4>2. CASE memory' = "unread" /\ file' = file
        <5>1. FileBytes(n)' = FileBytes(n)
          BY <4>2 DEF FileBytes
        <5>2. QED
          BY <1>5, <2>1, <3>1, <3>3, <3>4, <4>2, <5>1 DEF Recorded
      <4>3. QED
        BY <1>4, <2>5, <4>1, <4>2
    <3>6. QED
      BY <1>5, <2>1, <3>1, <3>3, <3>4, <3>5
  <2>6. QED
    BY <2>4, <2>5
<1>7. DataTyped'
  <2>1. cache' \in [Nics -> Bytes] /\ expected' \in [Nics -> Int]
    BY <1>3, <1>6
  <2>2. QED
    BY <1>1, <1>3, <1>4, <2>1 DEF DataTyped
<1>8. LoadedFirst'
  <2>1. memory' = "unread" => memory = "unread"
    BY <1>4
  <2>2. QED
    BY <1>3, <1>6, <2>1 DEF DataInv, LoadedFirst
<1>9. FileInStore'
  <2>1. CASE memory' = "saved" /\ file'.records = store
    <3>1. \A n \in Nics : \A s \in Times : store[n][s] \in Nat
      BY <1>1, BytesTyped
    <3>2. QED
      BY <1>2, <1>3, <2>1, <3>1 DEF FileInStore
  <2>2. CASE file' = file /\ memory' = IF memory = "unread" THEN "unread" ELSE "unsaved"
    BY <1>2, <1>3, <2>2 DEF DataInv, FileInStore, NoFileRead
  <2>3. QED
    BY <1>4, <2>1, <2>2
<1>10. QED
  BY <1>6, <1>7, <1>8, <1>9 DEF DataInv, EveryByteOnce

\* What is far from lastCounters is a number.
LEMMA PendingTyped ==
  ASSUME pending \in [Nics -> Int], [Next]_vars
  PROVE  pending' \in [Nics -> Int]
<1>1. CASE GoroutineStep
  <2>1. ASSUME NEW w \in Samplers, Sample(w)
        PROVE  pending' \in [Nics -> Int]
    BY <2>1 DEF Sample
  <2>2. ASSUME NEW w \in Workers, \/ EnterSelect(w) \/ Fire(w) \/ Flush(w)
        PROVE  pending' \in [Nics -> Int]
    BY <2>2 DEF EnterSelect, Fire, Flush, counterVars
  <2>3. QED
    BY <1>1, <2>1, <2>2 DEF GoroutineStep, Workers
<1>2. CASE CallerStep
  BY <1>2 DEF CallerStep, CallStart, CallSetNewConfig, SetNewConfig, Apply, CallStop, Report,
              Signal, Die, counterVars
<1>3. CASE Tick
  BY <1>3 DEF Tick, counterVars
<1>4. ASSUME NEW n \in Nics, Traffic(n) \/ CounterReset(n)
      PROVE  pending' \in [Nics -> Int]
  BY <1>4 DEF Traffic, CounterReset
<1>5. CASE UNCHANGED vars
  BY <1>5 DEF vars, counterVars
<1>6. QED
  BY <1>1, <1>2, <1>3, <1>4, <1>5 DEF Next

LEMMA GoroutineKeepsData ==
  ASSUME RecordInv, GoroutineStep
  PROVE  DataInv'
<1>1. DataInv /\ now \in Times /\ now >= now
  BY TimesTyped DEF RecordInv, DataInv, DataTyped
<1>2. ASSUME NEW w \in Workers, EnterSelect(w) \/ Fire(w)
      PROVE  DataInv'
  <2>1. worker[w].stage # "none" /\ UNCHANGED <<now, nics, store, cache, file, memory, expected>>
    BY <1>2 DEF EnterSelect, Fire, dataVars, ghostVars
  <2>2. LoadedFirst'
    BY <1>1, <2>1, WorkersHaveData
  <2>3. QED
    BY <1>1, <2>1, <2>2, DataUntouched
<1>3. ASSUME NEW w \in Samplers, Sample(w)
      PROVE  DataInv'
  BY <1>3, SampleKeepsData
<1>4. ASSUME NEW w \in Savers, Flush(w)
      PROVE  DataInv'
  <2>1. w \in Workers /\ worker[w].stage = "due" /\ FlushAndSave(worker[w].at) /\ now' = now
    BY <1>4 DEF Flush, Workers
  <2>2. memory # "unread"
    BY <1>1, <2>1, WorkersHaveData
  <2>3. worker[w].at \in Times
    BY <2>1 DEF RecordInv, SamplingInv, WorkersTyped, Worker
  <2>4. QED
    BY <1>1, <2>1, <2>2, <2>3, FlushKeepsData
<1>5. QED
  BY <1>2, <1>3, <1>4 DEF GoroutineStep

LEMMA CallerKeepsData ==
  ASSUME DataInv, CallerStep
  PROVE  DataInv'
<1>1. now \in Times /\ now >= now
  BY TimesTyped DEF DataInv, DataTyped
<1>2. CASE CallStart
  BY <1>2, StartOrContinueKeepsData, LoadFailsKeepsData DEF CallStart
<1>3. CASE CallSetNewConfig
  BY <1>3, SetNewConfigKeepsData DEF CallSetNewConfig
<1>4. ASSUME NEW on \in BOOLEAN, Apply(on)
      PROVE  DataInv'
  <2>1. UNCHANGED <<now, running, worker, nics, store, cache, file, memory, expected>>
    BY <1>4 DEF Apply, ghostVars
  <2>2. LoadedFirst'
    BY <2>1 DEF DataInv, LoadedFirst
  <2>3. QED
    BY <1>1, <2>1, <2>2, DataUntouched
<1>5. CASE CallStop
  BY <1>5, StopKeepsData DEF CallStop
<1>6. CASE Report
  BY <1>6, StartOrContinueKeepsData, LoadFailsKeepsData DEF Report
<1>7. CASE Signal
  BY <1>7, StopKeepsData DEF Signal
<1>8. CASE Die
  BY <1>8, DieKeepsData
<1>9. QED
  BY <1>2, <1>3, <1>4, <1>5, <1>6, <1>7, <1>8 DEF CallerStep

LEMMA OthersKeepData ==
  ASSUME DataInv, \/ Tick \/ UNCHANGED vars
                  \/ \E n \in Nics : Traffic(n) \/ CounterReset(n)
  PROVE  DataInv'
<1>1. /\ UNCHANGED <<running, worker, nics, store, cache, file, memory, expected>>
      /\ Tick \/ now' = now
  BY DEF Tick, Traffic, CounterReset, vars, dataVars, ghostVars
<1>2. now' \in Times /\ now' >= now
  BY <1>1, NetStaticAssumption DEF Tick, DataInv, DataTyped, Times
<1>3. LoadedFirst'
  BY <1>1 DEF DataInv, LoadedFirst
<1>4. QED
  BY <1>1, <1>2, <1>3, DataUntouched

LEMMA RecordInit == Init => RecordInv
<1> SUFFICES ASSUME Init PROVE RecordInv
  OBVIOUS
<1>1. /\ now = 0 /\ nics = {} /\ running = FALSE /\ memory = "unread"
      /\ worker = [w \in Workers |-> NoWorker] /\ pending = [n \in Nics |-> 0]
      /\ store = [n \in Nics |-> NoBytes] /\ cache = [n \in Nics |-> NoBytes]
      /\ file \in File \cup {NoFile, Corrupt}
      /\ expected = [n \in Nics |-> FileBytes(n)]
  BY NetStaticAssumption DEF Init
<1>2. NoBytes \in Bytes /\ Total(NoBytes) = 0
  BY RecordTyped, TotalOfRecord, Zero
<1>3. ASSUME NEW n \in Nics PROVE FileBytes(n) \in Nat
  BY <1>1, FileBytesTyped
<1>4. DataTyped
  <2>1. /\ store \in [Nics -> Bytes] /\ cache \in [Nics -> Bytes]
        /\ expected \in [Nics -> Int]
    BY <1>1, <1>2, <1>3
  <2>2. {} \in NicLists
    BY NetStaticAssumption
  <2>3. QED
    BY <1>1, <2>1, <2>2, Zero DEF DataTyped
<1>5. LoadedFirst /\ FileInStore
  BY <1>1 DEF LoadedFirst, FileInStore
<1>6. ASSUME NEW n \in Nics PROVE Recorded(n) = expected[n]
  <2>1. Recorded(n) = Total(cache[n]) + FileBytes(n)
    BY <1>1 DEF Recorded
  <2>2. QED
    BY <1>1, <1>2, <1>3, <2>1
<1>7. pending \in [Nics -> Int]
  BY <1>1
<1>8. QED
  BY <1>4, <1>5, <1>6, <1>7, SamplingInit DEF RecordInv, DataInv, EveryByteOnce

LEMMA RecordInvIsInductive == RecordInv /\ [Next]_vars => RecordInv'
<1> SUFFICES ASSUME RecordInv, [Next]_vars PROVE RecordInv'
  OBVIOUS
<1>1. SamplingInv'
  BY SamplingInvIsInductive DEF RecordInv
<1>2. pending' \in [Nics -> Int]
  BY PendingTyped DEF RecordInv
<1>3. DataInv'
  <2>1. CASE GoroutineStep
    BY <2>1, GoroutineKeepsData
  <2>2. CASE CallerStep
    BY <2>2, CallerKeepsData DEF RecordInv
  <2>3. QED
    BY <2>1, <2>2, OthersKeepData DEF RecordInv, Next
<1>4. QED
  BY <1>1, <1>2, <1>3 DEF RecordInv

\* Every byte that was sampled is on record once, or was lost for a known cause
\* (flushAndSaveOnce, loadFromFile, SetNewConfig).
THEOREM EveryByteAlwaysOnce == Spec => []EveryByteOnce
<1>1. RecordInv => EveryByteOnce
  BY DEF RecordInv, DataInv
<1>2. QED
  BY <1>1, RecordInit, RecordInvIsInductive, PTL DEF Spec

(***************************************************************************)
(* The file.                                                               *)
(***************************************************************************)
Unexpired(n) == Total(Purged(file.records)[n])

\* A file that has at least what the old one had and has not expired.
LEMMA NoLessThanUnexpired ==
  ASSUME DataTyped, ~NoFileRead, NEW n \in Nics, NEW later \in Bytes,
         \A t \in Times : t >= now - Preserve => file.records[n][t] <= later[t]
  PROVE  Total(later) >= Unexpired(n)
<1>1. PICK R \in [Nics -> Bytes] : R = file.records
  BY FileTyped DEF DataTyped
<1>2. PICK P \in [Nics -> Bytes] :
        /\ P = Purged(R)
        /\ \A m \in Nics : \A s \in Times : P[m][s] = IF s >= now - Preserve THEN R[m][s] ELSE 0
  BY PurgedIs
<1>3. \A t \in Times : P[n][t] <= later[t]
  BY <1>1, <1>2, BytesTyped
<1>4. Total(P[n]) <= Total(later)
  <2>1. MaxTime \in SumEnds /\ P[n] \in Bytes
    BY TimesTyped, NetStaticAssumption DEF SumEnds
  <2>2. QED
    BY <1>3, <2>1, BetweenMore DEF Total
<1>5. Total(P[n]) \in Nat /\ Total(later) \in Nat
  BY TotalIs
<1>6. QED
  BY <1>1, <1>2, <1>4, <1>5 DEF Unexpired

LEMMA SameFileKept ==
  ASSUME DataTyped, ~NoFileRead, file' = file, NEW n \in Nics
  PROVE  FileBytes(n)' >= Unexpired(n)
<1>1. FileBytes(n)' = Total(file.records[n]) /\ file.records[n] \in Bytes
  BY FileTyped DEF DataTyped, NoFileRead, FileBytes
<1>2. \A t \in Times : file.records[n][t] <= file.records[n][t]
  BY <1>1, BytesTyped
<1>3. QED
  BY <1>1, <1>2, NoLessThanUnexpired

\* A save of a store that has what the file has.
LEMMA SavedFileKept ==
  ASSUME DataTyped, ~NoFileRead, NEW s \in [Nics -> Bytes], nics' \in NicLists, Save(s), NEW n \in Nics,
         \A t \in Times : t >= now - Preserve => file.records[n][t] <= s[n][t]
  PROVE  FileBytes(n)' >= Unexpired(n)
<1>1. CASE file' \notin {NoFile, Corrupt} /\ file'.records = s
  <2>1. FileBytes(n)' = Total(s[n])
    BY <1>1 DEF FileBytes
  <2>2. QED
    BY <2>1, NoLessThanUnexpired
<1>2. CASE file' = file
  BY <1>2, SameFileKept
<1>3. QED
  BY <1>1, <1>2, SaveIs

LEMMA FlushKeepsFile ==
  ASSUME DataInv, memory # "unread", ~NoFileRead, NEW t \in Times, FlushAndSave(t), NEW n \in Nics
  PROVE  FileBytes(n)' >= Unexpired(n)
<1>1. DataTyped /\ nics' \in NicLists
  BY DEF DataInv, DataTyped, FlushAndSave
<1>2. PICK F \in [Nics -> Bytes] :
        F = Flushed(t) /\ \A m \in Nics : \A s \in Times : store[m][s] <= F[m][s]
  BY <1>1, FlushedIs
<1>3. PICK P \in [Nics -> Bytes] :
        /\ P = Purged(F)
        /\ \A m \in Nics : \A s \in Times : P[m][s] = IF s >= now - Preserve THEN F[m][s] ELSE 0
  BY PurgedIs
<1>4. Save(P)
  BY <1>2, <1>3 DEF FlushAndSave
<1>5. ASSUME NEW s \in Times, s >= now - Preserve PROVE file.records[n][s] <= P[n][s]
  <2>1. file.records[n][s] <= store[n][s]
    BY <1>5 DEF DataInv, FileInStore
  <2>2. file.records[n] \in Bytes /\ store[n] \in Bytes /\ F[n] \in Bytes
    BY <1>1, FileTyped DEF DataTyped
  <2>3. file.records[n][s] \in Nat /\ store[n][s] \in Nat /\ F[n][s] \in Nat
    BY <2>2, BytesTyped
  <2>4. QED
    BY <1>2, <1>3, <1>5, <2>1, <2>3
<1>6. QED
  BY <1>1, <1>4, <1>5, SavedFileKept

LEMMA StopKeepsFile ==
  ASSUME DataInv, Stop, ~NoFileRead, NEW n \in Nics
  PROVE  FileBytes(n)' >= Unexpired(n)
<1>1. DataTyped /\ now \in Times
  BY DEF DataInv, DataTyped
<1>2. CASE running
  <2>1. memory # "unread"
    BY <1>2 DEF DataInv, LoadedFirst
  <2>2. QED
    BY <1>1, <1>2, <2>1, FlushKeepsFile DEF Stop
<1>3. CASE ~running
  BY <1>1, <1>3, SameFileKept DEF Stop
<1>4. QED
  BY <1>2, <1>3

LEMMA SetNewConfigKeepsFile ==
  ASSUME DataInv, memory # "unread", ~NoFileRead, NEW list \in NicLists, SetNewConfig(list),
         NEW n \in Nics
  PROVE  FileBytes(n)' >= Unexpired(n)
<1>1. DataTyped /\ nics' \in NicLists /\ Save(store) /\ store \in [Nics -> Bytes]
  BY DEF DataInv, DataTyped, SetNewConfig
<1>2. \A t \in Times : t >= now - Preserve => file.records[n][t] <= store[n][t]
  BY DEF DataInv, FileInStore
<1>3. QED
  BY <1>1, <1>2, SavedFileKept

LEMMA FileKeptByStep ==
  ASSUME RecordInv, [Next]_vars, ~NoFileRead, NEW n \in Nics
  PROVE  FileBytes(n)' >= Unexpired(n) \/ (memory = "unread" /\ calls = "configure")
<1>1. DataInv /\ DataTyped
  BY DEF RecordInv, DataInv
<1>2. CASE GoroutineStep
  <2>1. ASSUME NEW w \in Workers, EnterSelect(w) \/ Fire(w)
        PROVE  file' = file
    BY <2>1 DEF EnterSelect, Fire, dataVars
  <2>2. ASSUME NEW w \in Samplers, Sample(w)
        PROVE  file' = file
    BY <2>2 DEF Sample
  <2>3. ASSUME NEW w \in Savers, Flush(w)
        PROVE  FileBytes(n)' >= Unexpired(n)
    <3>1. w \in Workers /\ worker[w].stage = "due" /\ FlushAndSave(worker[w].at)
      BY <2>3 DEF Flush, Workers
    <3>2. memory # "unread"
      BY <1>1, <3>1, WorkersHaveData
    <3>3. worker[w].at \in Times
      BY <3>1 DEF RecordInv, SamplingInv, WorkersTyped, Worker
    <3>4. QED
      BY <1>1, <3>1, <3>2, <3>3, FlushKeepsFile
  <2>4. QED
    BY <1>1, <1>2, <2>1, <2>2, <2>3, SameFileKept DEF GoroutineStep
<1>3. CASE CallerStep
  <2>1. StartOrContinue \/ LoadFails => file' = file
    BY DEF StartOrContinue, LoadFails, Load, NoFileRead
  <2>2. CASE CallStart \/ Report
    BY <1>1, <2>1, <2>2, SameFileKept DEF CallStart, Report
  <2>3. CASE CallSetNewConfig
    BY <1>1, <2>3, SetNewConfigKeepsFile DEF CallSetNewConfig
  <2>4. ASSUME NEW on \in BOOLEAN, Apply(on)
        PROVE  file' = file
    BY <2>4 DEF Apply
  <2>5. CASE CallStop \/ Signal
    BY <1>1, <2>5, StopKeepsFile DEF CallStop, Signal
  <2>6. CASE Die
    BY <1>1, <2>6, SameFileKept DEF Die
  <2>7. QED
    BY <1>1, <1>3, <2>2, <2>3, <2>4, <2>5, <2>6, SameFileKept DEF CallerStep
<1>4. CASE Tick \/ (\E m \in Nics : Traffic(m) \/ CounterReset(m)) \/ UNCHANGED vars
  <2>1. file' = file
    BY <1>4 DEF Tick, Traffic, CounterReset, vars, dataVars
  <2>2. QED
    BY <1>1, <2>1, SameFileKept
<1>5. QED
  BY <1>2, <1>3, <1>4 DEF Next

\* The history in the file is lost by its age only, or when a configuration is saved by a
\* process that could not load it (saveToFileLocked, loadFromFile).
THEOREM FileAlwaysKept == Spec => FileKept
<1>1. RecordInv /\ [Next]_vars =>
        [\A n \in Nics :
           \/ file \in {NoFile, Corrupt}
           \/ FileBytes(n)' >= Total(Purged(file.records)[n])
           \/ memory = "unread" /\ calls = "configure"]_vars
  BY FileKeptByStep DEF NoFileRead, Unexpired
<1>2. QED
  BY <1>1, RecordInit, RecordInvIsInductive, PTL DEF Spec, FileKept

(***************************************************************************)
(* The past.  Nothing is of a time to come if nothing was at the start.    *)
(***************************************************************************)
FilesOfThePast == \A f \in Files \ {NoFile, Corrupt} : \A n \in Nics : OfThePast(f.records[n], 0)

WorkersPast == \A w \in Workers : worker[w].at <= now

RecordsPast ==
  /\ \A n \in Nics : OfThePast(store[n], now) /\ OfThePast(cache[n], now)
  /\ ~NoFileRead => \A n \in Nics : OfThePast(file.records[n], now)

PastInv == WorkersPast /\ RecordsPast

LEMMA PurgedPast ==
  ASSUME NEW s \in [Nics -> Bytes], \A n \in Nics : OfThePast(s[n], now)
  PROVE  \A n \in Nics : OfThePast(Purged(s)[n], now)
BY PurgedIs DEF OfThePast

LEMMA NothingIsPast == \A t : OfThePast(NoBytes, t)
BY DEF OfThePast, NoBytes

\* What stays, stays past.
LEMMA LaterIsPast ==
  ASSUME RecordInv, PastInv, UNCHANGED <<store, cache, file>>, now' \in Times, now' >= now
  PROVE  RecordsPast'
<1>1. now \in Nat /\ now' \in Nat
  BY TimesTyped DEF RecordInv, DataInv, DataTyped
<1>2. \A t \in Times : t > now' => t > now
  BY <1>1, TimesTyped
<1>3. QED
  BY <1>2 DEF PastInv, RecordsPast, OfThePast, NoFileRead

LEMMA SamplePast ==
  ASSUME RecordInv, PastInv, NEW w \in Samplers, Sample(w)
  PROVE  RecordsPast'
<1>1. PICK found \in [Nics -> Nat] : cache' = [n \in Nics |-> Plus(cache[n], Record(found[n], now))]
  <2> DEFINE f == [n \in Nics |-> IF Allowed(n) THEN SafeDelta(n) ELSE 0]
  <2>1. \A n \in Nics : SafeDelta(n) \in Nat
    BY DEF RecordInv, SafeDelta
  <2>2. f \in [Nics -> Nat]
    BY <2>1
  <2>3. cache' = [n \in Nics |-> Plus(cache[n], Record(f[n], now))]
    BY DEF Sample
  <2> HIDE DEF f
  <2>4. QED
    BY <2>2, <2>3
<1>2. UNCHANGED <<now, store, file>> /\ now \in Times /\ now \in Nat /\ cache \in [Nics -> Bytes]
  BY TimesTyped DEF Sample, RecordInv, DataInv, DataTyped
<1>3. ASSUME NEW n \in Nics, NEW t \in Times, t > now
      PROVE  cache'[n][t] = 0
  <2>1. Record(found[n], now) \in Bytes /\ Record(found[n], now)[t] = 0
    BY <1>2, <1>3, RecordTyped
  <2>2. cache[n] \in Bytes /\ cache[n][t] = 0
    BY <1>2, <1>3 DEF PastInv, RecordsPast, OfThePast
  <2>3. QED
    BY <1>1, <2>1, <2>2, PlusTyped
<1>4. QED
  BY <1>2, <1>3 DEF PastInv, RecordsPast, OfThePast, NoFileRead

LEMMA FlushPast ==
  ASSUME RecordInv, PastInv, NEW t \in Times, t <= now, FlushAndSave(t), now' = now
  PROVE  RecordsPast'
<1>1. DataTyped /\ nics' \in NicLists
  BY DEF RecordInv, DataInv, DataTyped, FlushAndSave
<1>2. PICK F \in [Nics -> Bytes] : F = Flushed(t) /\ \A n \in Nics : OfThePast(F[n], now)
  BY <1>1, FlushedIs DEF PastInv, RecordsPast
<1>3. PICK P \in [Nics -> Bytes] : P = Purged(F) /\ \A n \in Nics : OfThePast(P[n], now)
  BY <1>2, PurgedIs, PurgedPast
<1>4. store' = P /\ cache' = [n \in Nics |-> NoBytes] /\ Save(P)
  BY <1>2, <1>3 DEF FlushAndSave
<1>5. file' = file \/ file'.records = P
  BY <1>1, <1>4, SaveIs
<1>6. QED
  BY <1>3, <1>4, <1>5, NothingIsPast DEF PastInv, RecordsPast, NoFileRead

LEMMA LoadPast ==
  ASSUME RecordInv, PastInv, Load, UNCHANGED <<now, cache>>
  PROVE  RecordsPast'
<1>1. CASE NoFileRead
  BY <1>1 DEF Load, NoFileRead, PastInv, RecordsPast
<1>2. CASE ~NoFileRead
  <2>1. PICK R \in [Nics -> Bytes] : R = file.records /\ \A n \in Nics : OfThePast(R[n], now)
    BY <1>2, FileTyped DEF RecordInv, DataInv, DataTyped, PastInv, RecordsPast
  <2>2. store' = Purged(R) /\ file' = file
    BY <1>2, <2>1 DEF Load, NoFileRead
  <2>3. QED
    BY <1>2, <2>1, <2>2, PurgedPast DEF PastInv, RecordsPast, NoFileRead
<1>3. QED
  BY <1>1, <1>2

LEMMA SetNewConfigPast ==
  ASSUME RecordInv, PastInv, NEW list \in NicLists, SetNewConfig(list), now' = now
  PROVE  RecordsPast'
<1>1. DataTyped /\ nics' \in NicLists /\ Save(store) /\ store \in [Nics -> Bytes]
  BY DEF RecordInv, DataInv, DataTyped, SetNewConfig
<1>2. file' = file \/ file'.records = store
  BY <1>1, SaveIs
<1>3. \A n \in Nics : OfThePast(store'[n], now)
  <2>1. store' = Purged(store)
    BY DEF SetNewConfig
  <2>2. QED
    BY <1>1, <2>1, PurgedPast DEF PastInv, RecordsPast
<1>4. \A n \in Nics : cache'[n] = NoBytes \/ cache'[n] = cache[n]
  BY DEF SetNewConfig
<1>5. QED
  BY <1>2, <1>3, <1>4, NothingIsPast DEF PastInv, RecordsPast, NoFileRead

LEMMA StartPast ==
  ASSUME RecordInv, PastInv, StartOrContinue \/ LoadFails, UNCHANGED <<now, cache>>
  PROVE  RecordsPast'
<1>1. CASE UNCHANGED <<store, file>>
  BY <1>1 DEF PastInv, RecordsPast, NoFileRead
<1>2. CASE Load
  BY <1>2, LoadPast
<1>3. QED
  BY <1>1, <1>2 DEF StartOrContinue, LoadFails

LEMMA StopPast ==
  ASSUME RecordInv, PastInv, Stop, UNCHANGED now
  PROVE  RecordsPast'
<1>1. now \in Times /\ now <= now
  BY TimesTyped DEF RecordInv, DataInv, DataTyped
<1>2. CASE running
  BY <1>1, <1>2, FlushPast DEF Stop
<1>3. CASE ~running
  BY <1>3 DEF Stop, PastInv, RecordsPast, NoFileRead
<1>4. QED
  BY <1>2, <1>3

LEMMA RecordsStayPast ==
  ASSUME RecordInv, PastInv, [Next]_vars
  PROVE  RecordsPast'
<1>1. now \in Times /\ now >= now
  BY TimesTyped DEF RecordInv, DataInv, DataTyped
<1>2. CASE GoroutineStep
  <2>1. ASSUME NEW w \in Workers, EnterSelect(w) \/ Fire(w)
        PROVE  UNCHANGED <<now, store, cache, file>>
    BY <2>1 DEF EnterSelect, Fire, dataVars
  <2>2. ASSUME NEW w \in Savers, Flush(w)
        PROVE  RecordsPast'
    <3>1. w \in Workers /\ FlushAndSave(worker[w].at) /\ now' = now
      BY <2>2 DEF Flush, Workers
    <3>2. worker[w].at \in Times /\ worker[w].at <= now
      BY <3>1 DEF RecordInv, SamplingInv, WorkersTyped, Worker, PastInv, WorkersPast
    <3>3. QED
      BY <3>1, <3>2, FlushPast
  <2>3. QED
    BY <1>1, <1>2, <2>1, <2>2, SamplePast, LaterIsPast DEF GoroutineStep
<1>3. CASE CallerStep
  <2>1. CASE CallStart \/ Report
    BY <2>1, StartPast DEF CallStart, Report
  <2>2. CASE CallSetNewConfig
    BY <2>2, SetNewConfigPast DEF CallSetNewConfig
  <2>3. ASSUME NEW on \in BOOLEAN, Apply(on)
        PROVE  UNCHANGED <<now, store, cache, file>>
    BY <2>3 DEF Apply
  <2>4. CASE CallStop \/ Signal
    BY <2>4, StopPast DEF CallStop, Signal
  <2>5. CASE Die
    BY <2>5, NothingIsPast DEF Die, PastInv, RecordsPast, NoFileRead
  <2>6. QED
    BY <1>1, <1>3, <2>1, <2>2, <2>3, <2>4, <2>5, LaterIsPast DEF CallerStep
<1>4. CASE Tick \/ (\E n \in Nics : Traffic(n) \/ CounterReset(n)) \/ UNCHANGED vars
  <2>1. /\ UNCHANGED <<store, cache, file>>
        /\ Tick \/ now' = now
    BY <1>4 DEF Tick, Traffic, CounterReset, vars, dataVars
  <2>2. now' \in Times /\ now' >= now
    BY <1>1, <2>1, NetStaticAssumption DEF Tick, Times
  <2>3. QED
    BY <2>1, <2>2, LaterIsPast
<1>5. QED
  BY <1>2, <1>3, <1>4 DEF Next

LEMMA HaltedPast ==
  ASSUME WorkersTyped, WorkersPast, now \in Times
  PROVE  \A w \in Workers : Halted[w].at <= now
<1>1. NoWorker.at = 0 /\ now \in Nat
  BY TimesTyped DEF NoWorker, At
<1>2. \A w \in Workers : [worker[w] EXCEPT !.fresh = FALSE].at = worker[w].at
  BY DEF WorkersTyped, Worker
<1>3. QED
  BY <1>1, <1>2 DEF Halted, WorkersPast

LEMMA StartGoroutinesPast ==
  ASSUME WorkersTyped, WorkersPast, now \in Times, StartGoroutines, now' = now
  PROVE  WorkersPast'
<1>1. PICK a \in Samplers, b \in Savers :
        worker' = [Halted EXCEPT ![a] = Looping(TRUE), ![b] = Looping(TRUE)]
  BY DEF StartGoroutines
<1>2. Looping(TRUE).at <= now
  BY TimesTyped DEF Looping, At
<1>3. \A w \in Workers : worker'[w] = Looping(TRUE) \/ worker'[w] = Halted[w]
  BY <1>1 DEF Halted
<1>4. \A w \in Workers : Halted[w].at <= now
  BY HaltedPast
<1>5. \A w \in Workers : worker'[w].at <= now
  BY <1>2, <1>3, <1>4
<1>6. QED
  BY <1>5 DEF WorkersPast

LEMMA WorkersStayPast ==
  ASSUME SamplingInv, WorkersPast, [Next]_vars
  PROVE  WorkersPast'
<1>1. WorkersTyped /\ now \in Times /\ now \in Nat
  BY TimesTyped DEF SamplingInv
<1>2. ASSUME NEW w \in Workers, NEW next, next.at <= now, now' = now,
             worker' = [worker EXCEPT ![w] = next]
      PROVE  WorkersPast'
  BY <1>2 DEF WorkersPast, SamplingInv, WorkersTyped
<1>3. UNCHANGED <<now, worker>> => WorkersPast'
  BY DEF WorkersPast
<1>4. /\ \A fresh : At("select", fresh, 0).at <= now /\ Looping(fresh).at <= now
      /\ NoWorker.at <= now
      /\ \A w : At("due", FALSE, IF w \in Savers THEN now ELSE 0).at <= now
  BY <1>1 DEF At, NoWorker, Looping
<1>5. CASE GoroutineStep
  <2>1. ASSUME NEW w \in Workers, EnterSelect(w) PROVE WorkersPast'
    <3>1. PICK fresh \in BOOLEAN :
            worker' = [worker EXCEPT ![w] = IF running THEN At("select", fresh, 0) ELSE NoWorker]
      BY <2>1 DEF EnterSelect
    <3>2. now' = now
      BY <2>1 DEF EnterSelect
    <3>3. CASE running
      BY <1>2, <1>4, <3>1, <3>2, <3>3
    <3>4. CASE ~running
      BY <1>2, <1>4, <3>1, <3>2, <3>4
    <3>5. QED
      BY <3>3, <3>4
  <2>2. ASSUME NEW w \in Workers, Fire(w) PROVE WorkersPast'
    <3>1. PICK next : next = At("due", FALSE, IF w \in Savers THEN now ELSE 0)
      OBVIOUS
    <3>2. worker' = [worker EXCEPT ![w] = next] /\ now' = now /\ next.at <= now
      BY <1>4, <2>2, <3>1 DEF Fire
    <3>3. QED
      BY <1>2, <3>2
  <2>3. ASSUME NEW w \in Workers, worker' = [worker EXCEPT ![w] = Looping(running)], now' = now
        PROVE  WorkersPast'
    BY <1>2, <1>4, <2>3
  <2>4. QED
    BY <1>5, <2>1, <2>2, <2>3 DEF GoroutineStep, Sample, Flush, Workers
<1>6. CASE CallerStep
  <2>1. CASE CallStart \/ Report
    BY <1>1, <1>3, <2>1, StartGoroutinesPast DEF CallStart, Report, StartOrContinue, LoadFails
  <2>2. CASE CallSetNewConfig
    BY <1>1, <1>3, <2>2, StartGoroutinesPast DEF CallSetNewConfig, SetNewConfig
  <2>3. ASSUME NEW on \in BOOLEAN, Apply(on) PROVE WorkersPast'
    BY <1>3, <2>3 DEF Apply
  <2>4. CASE CallStop \/ Signal
    <3>1. now' = now /\ (worker' = Halted \/ worker' = worker)
      BY <2>4 DEF CallStop, Signal, Stop
    <3>2. QED
      BY <1>1, <1>3, <3>1, HaltedPast DEF WorkersPast
  <2>5. CASE Die
    BY <1>4, <2>5 DEF Die, WorkersPast
  <2>6. QED
    BY <1>6, <2>1, <2>2, <2>3, <2>4, <2>5 DEF CallerStep
<1>7. CASE Tick
  <2>1. worker' = worker /\ now' = now + 1
    BY <1>7 DEF Tick
  <2>2. \A w \in Workers : worker[w].at \in Nat
    BY <1>1, TimesTyped DEF WorkersTyped, Worker
  <2>3. QED
    BY <1>1, <2>1, <2>2 DEF WorkersPast
<1>8. CASE (\E n \in Nics : Traffic(n) \/ CounterReset(n)) \/ UNCHANGED vars
  BY <1>3, <1>8 DEF Traffic, CounterReset, vars
<1>9. QED
  BY <1>5, <1>6, <1>7, <1>8 DEF Next

LEMMA PastInit ==
  ASSUME FilesOfThePast, Init
  PROVE  PastInv
<1>1. NoWorker.at = 0 /\ now = 0 /\ 0 <= 0
  BY DEF Init, NoWorker, At
<1>2. QED
  BY <1>1, NothingIsPast DEF FilesOfThePast, Init, PastInv, WorkersPast, RecordsPast, NoFileRead

LEMMA PastInvIsInductive == RecordInv /\ PastInv /\ [Next]_vars => PastInv'
BY RecordsStayPast, WorkersStayPast DEF PastInv, RecordInv

(***************************************************************************)
(* The cycle.  What the file has and the store has not was purged: then    *)
(* the store has nothing of that time or before, and the cache, emptied by *)
(* every flush, nothing from before the reset once more than that is on    *)
(* record.                                                                 *)
(***************************************************************************)
NoneBefore(cut) ==
  \A n \in Nics : \A t \in Times :
    IF t < cut THEN store[n][t] = 0 ELSE NoFileRead \/ file.records[n][t] <= store[n][t]

CutInv == memory # "unread" => \E cut \in Int : NoneBefore(cut)

NoLater(n) ==
  \A t \in Times : t >= Reset => store[n][t] = 0 /\ (~NoFileRead => file.records[n][t] = 0)

NoEarlier(b) == \A t \in Times : t < Reset => b[t] = 0

HistoryInv == CutInv /\ \A n \in Nics : NoLater(n) \/ NoEarlier(cache[n])

\* A store that was purged has all of the file that has not expired.
LEMMA PurgedHistory ==
  ASSUME DataInv', DataTyped, now' = now, NEW s \in [Nics -> Bytes], store' = Purged(s)
  PROVE  CutInv'
<1>1. \A n \in Nics : \A t \in Times : t < now - Preserve => store'[n][t] = 0
  <2>1. now \in Nat /\ Preserve \in Nat
    BY TimesTyped, NetStaticAssumption DEF DataTyped
  <2>2. \A t \in Times : t < now - Preserve => ~ (t >= now - Preserve)
    BY <2>1, TimesTyped
  <2>3. QED
    BY <2>2, PurgedIs
<1>2. \A n \in Nics : \A t \in Times :
        memory' # "unread" /\ ~ (t < now - Preserve) /\ ~NoFileRead' =>
          file'.records[n][t] <= store'[n][t]
  <2>1. now \in Nat /\ Preserve \in Nat
    BY TimesTyped, NetStaticAssumption DEF DataTyped
  <2>2. \A t \in Times : ~ (t < now - Preserve) => t >= now - Preserve
    BY <2>1, TimesTyped
  <2>3. QED
    BY <2>2 DEF DataInv, FileInStore
<1>3. now - Preserve \in Int
  BY TimesTyped, NetStaticAssumption DEF DataTyped
<1>4. memory' # "unread" => NoneBefore(now - Preserve)'
  BY <1>1, <1>2 DEF NoneBefore
<1>5. QED
  BY <1>3, <1>4 DEF CutInv

LEMMA SameHistory ==
  ASSUME HistoryInv, UNCHANGED <<store, file, memory>>,
         \A n \in Nics : cache'[n] = cache[n] \/ NoEarlier(cache'[n]) \/ NoLater(n)
  PROVE  HistoryInv'
<1>1. CutInv'
  BY DEF HistoryInv, CutInv, NoneBefore, NoFileRead
<1>2. \A n \in Nics : NoLater(n) => NoLater(n)'
  BY DEF NoLater, NoFileRead
<1>3. QED
  BY <1>1, <1>2 DEF HistoryInv, NoEarlier

LEMMA SampleHistory ==
  ASSUME RecordInv, PastInv, HistoryInv, NEW w \in Samplers, Sample(w)
  PROVE  HistoryInv'
<1>1. PICK found \in [Nics -> Nat] : cache' = [n \in Nics |-> Plus(cache[n], Record(found[n], now))]
  <2> DEFINE f == [n \in Nics |-> IF Allowed(n) THEN SafeDelta(n) ELSE 0]
  <2>1. \A n \in Nics : SafeDelta(n) \in Nat
    BY DEF RecordInv, SafeDelta
  <2>2. f \in [Nics -> Nat]
    BY <2>1
  <2>3. cache' = [n \in Nics |-> Plus(cache[n], Record(f[n], now))]
    BY DEF Sample
  <2> HIDE DEF f
  <2>4. QED
    BY <2>2, <2>3
<1>2. UNCHANGED <<store, file, memory>> /\ now \in Times /\ now \in Nat /\ Reset \in Nat
  BY TimesTyped, NetStaticAssumption DEF Sample, RecordInv, DataInv, DataTyped
<1>3. ASSUME NEW n \in Nics PROVE NoEarlier(cache'[n]) \/ NoLater(n)
  <2>1. CASE now < Reset
    <3>1. \A t \in Times : t >= Reset => t > now
      BY <1>2, <2>1, TimesTyped
    <3>2. NoLater(n)
      BY <3>1 DEF PastInv, RecordsPast, OfThePast, NoLater
    <3>3. QED
      BY <3>2
  <2>2. CASE ~ (now < Reset) /\ NoEarlier(cache[n])
    <3>1. ASSUME NEW t \in Times, t < Reset PROVE cache'[n][t] = 0
      <4>1. t # now
        BY <2>2, <3>1
      <4>2. Record(found[n], now) \in Bytes /\ Record(found[n], now)[t] = 0
        BY <1>2, <4>1, RecordTyped
      <4>3. cache[n] \in Bytes /\ cache[n][t] = 0
        BY <2>2, <3>1 DEF NoEarlier, RecordInv, DataInv, DataTyped
      <4>4. QED
        BY <1>1, <4>2, <4>3, PlusTyped
    <3>2. QED
      BY <3>1 DEF NoEarlier
  <2>3. QED
    BY <2>1, <2>2 DEF HistoryInv
<1>4. QED
  BY <1>2, <1>3, SameHistory

LEMMA FlushHistory ==
  ASSUME DataInv, DataInv', NEW t \in Times, FlushAndSave(t), now' = now
  PROVE  HistoryInv'
<1>1. DataTyped
  BY DEF DataInv
<1>2. PICK F \in [Nics -> Bytes] : F = Flushed(t)
  BY <1>1, FlushedIs
<1>3. store' = Purged(F)
  BY <1>2 DEF FlushAndSave
<1>4. \A n \in Nics : NoEarlier(cache'[n])
  BY DEF FlushAndSave, NoEarlier, NoBytes
<1>5. CutInv'
  BY <1>1, <1>3, PurgedHistory
<1>6. QED
  BY <1>4, <1>5 DEF HistoryInv, NoEarlier

LEMMA LoadHistory ==
  ASSUME DataInv, DataInv', HistoryInv, Load, UNCHANGED <<now, cache>>
  PROVE  HistoryInv'
<1>1. DataTyped
  BY DEF DataInv
<1>2. CASE NoFileRead
  <2>1. file' = NoFile /\ store' = store
    BY <1>2 DEF Load, NoFileRead
  <2>2. CutInv'
    <3>1. CASE memory = "unread"
      <4>1. \A n \in Nics : \A t \in Times : store'[n][t] = 0
        BY <2>1, <3>1 DEF DataInv, LoadedFirst, NoBytes
      <4>2. NoneBefore(0)'
        BY <2>1, <4>1 DEF NoneBefore, NoFileRead
      <4>3. QED
        BY <4>2 DEF CutInv
    <3>2. CASE memory # "unread"
      <4>1. PICK cut \in Int : NoneBefore(cut)
        BY <3>2 DEF HistoryInv, CutInv
      <4>2. NoneBefore(cut)'
        BY <2>1, <4>1 DEF NoneBefore, NoFileRead
      <4>3. QED
        BY <4>2 DEF CutInv
    <3>3. QED
      BY <3>1, <3>2
  <2>3. \A n \in Nics : NoLater(n) => NoLater(n)'
    BY <2>1 DEF NoLater, NoFileRead
  <2>4. QED
    BY <2>2, <2>3 DEF HistoryInv, NoEarlier
<1>3. CASE ~NoFileRead
  <2>1. PICK R \in [Nics -> Bytes] : R = file.records
    BY <1>1, <1>3, FileTyped DEF DataTyped
  <2>2. store' = Purged(R) /\ file' = file
    BY <1>3, <2>1 DEF Load, NoFileRead
  <2>3. CutInv'
    BY <1>1, <2>2, PurgedHistory
  <2>4. \A n \in Nics : NoLater(n) => NoLater(n)'
    BY <1>3, <2>1, <2>2, PurgedIs DEF NoLater, NoFileRead
  <2>5. QED
    BY <2>3, <2>4 DEF HistoryInv, NoEarlier
<1>4. QED
  BY <1>2, <1>3

LEMMA SetNewConfigHistory ==
  ASSUME DataInv, DataInv', HistoryInv, NEW list \in NicLists, SetNewConfig(list), now' = now
  PROVE  HistoryInv'
<1>1. DataTyped /\ nics' \in NicLists /\ Save(store) /\ store \in [Nics -> Bytes] /\ store' = Purged(store)
  BY DEF DataInv, DataTyped, SetNewConfig
<1>2. CutInv'
  BY <1>1, PurgedHistory
<1>3. file' = file \/ (file' \notin {NoFile, Corrupt} /\ file'.records = store)
  BY <1>1, SaveIs
<1>4. \A n \in Nics : NoLater(n) => NoLater(n)'
  BY <1>1, <1>3, PurgedIs DEF NoLater, NoFileRead
<1>5. \A n \in Nics : cache'[n] = NoBytes \/ cache'[n] = cache[n]
  BY DEF SetNewConfig
<1>6. NoEarlier(NoBytes)
  BY DEF NoEarlier, NoBytes
<1>7. QED
  BY <1>2, <1>4, <1>5, <1>6 DEF HistoryInv, NoEarlier

LEMMA StartHistory ==
  ASSUME DataInv, DataInv', HistoryInv, StartOrContinue \/ LoadFails, UNCHANGED <<now, cache>>
  PROVE  HistoryInv'
<1>1. CASE UNCHANGED <<store, file, memory>>
  BY <1>1, SameHistory
<1>2. CASE Load
  BY <1>2, LoadHistory
<1>3. QED
  BY <1>1, <1>2 DEF StartOrContinue, LoadFails

LEMMA StopHistory ==
  ASSUME DataInv, DataInv', HistoryInv, Stop, UNCHANGED now
  PROVE  HistoryInv'
<1>1. now \in Times
  BY DEF DataInv, DataTyped
<1>2. CASE running
  BY <1>1, <1>2, FlushHistory DEF Stop
<1>3. CASE ~running
  BY <1>3, SameHistory DEF Stop
<1>4. QED
  BY <1>2, <1>3

LEMMA HistoryInvIsInductive ==
  ASSUME RecordInv, RecordInv', PastInv, HistoryInv, [Next]_vars
  PROVE  HistoryInv'
<1>1. DataInv /\ DataInv'
  BY DEF RecordInv
<1>2. CASE GoroutineStep
  <2>1. ASSUME NEW w \in Workers, EnterSelect(w) \/ Fire(w)
        PROVE  HistoryInv'
    BY <2>1, SameHistory DEF EnterSelect, Fire, dataVars, ghostVars
  <2>2. ASSUME NEW w \in Savers, Flush(w)
        PROVE  HistoryInv'
    <3>1. w \in Workers /\ FlushAndSave(worker[w].at) /\ now' = now
      BY <2>2 DEF Flush, Workers
    <3>2. worker[w].at \in Times
      BY <3>1 DEF RecordInv, SamplingInv, WorkersTyped, Worker
    <3>3. QED
      BY <1>1, <3>1, <3>2, FlushHistory
  <2>3. QED
    BY <1>2, <2>1, <2>2, SampleHistory DEF GoroutineStep
<1>3. CASE CallerStep
  <2>1. CASE CallStart \/ Report
    BY <1>1, <2>1, StartHistory DEF CallStart, Report
  <2>2. CASE CallSetNewConfig
    BY <1>1, <2>2, SetNewConfigHistory DEF CallSetNewConfig
  <2>3. ASSUME NEW on \in BOOLEAN, Apply(on)
        PROVE  HistoryInv'
    BY <2>3, SameHistory DEF Apply, ghostVars
  <2>4. CASE CallStop \/ Signal
    BY <1>1, <2>4, StopHistory DEF CallStop, Signal
  <2>5. CASE Die
    <3>1. memory' = "unread" /\ cache' = [n \in Nics |-> NoBytes]
      BY <2>5 DEF Die
    <3>2. QED
      BY <3>1 DEF HistoryInv, CutInv, NoEarlier, NoBytes
  <2>6. QED
    BY <1>3, <2>1, <2>2, <2>3, <2>4, <2>5 DEF CallerStep
<1>4. CASE Tick \/ (\E n \in Nics : Traffic(n) \/ CounterReset(n)) \/ UNCHANGED vars
  BY <1>4, SameHistory DEF Tick, Traffic, CounterReset, vars, dataVars, ghostVars
<1>5. QED
  BY <1>2, <1>3, <1>4 DEF Next

\* What of the cycle is in memory, and in the file before it is loaded.
InMemory(n) == Later(store[n]) + Later(cache[n])
InFile(n) == IF NoFileRead THEN 0 ELSE Later(file.records[n])

LEMMA LaterTyped ==
  ASSUME DataTyped, NEW n \in Nics
  PROVE  /\ store[n] \in Bytes /\ cache[n] \in Bytes
         /\ Later(store[n]) \in Nat /\ Later(cache[n]) \in Nat
         /\ InMemory(n) \in Nat /\ InFile(n) \in Nat
<1>1. store[n] \in Bytes /\ cache[n] \in Bytes
  BY DEF DataTyped
<1>2. Later(store[n]) \in Nat /\ Later(cache[n]) \in Nat
  BY <1>1, TotalIs
<1>3. InFile(n) \in Nat
  <2>1. CASE NoFileRead
    BY <2>1 DEF InFile
  <2>2. CASE ~NoFileRead
    <3>1. file.records[n] \in Bytes
      BY <2>2, FileTyped DEF DataTyped
    <3>2. QED
      BY <2>2, <3>1, TotalIs DEF InFile
  <2>3. QED
    BY <2>1, <2>2
<1>4. QED
  BY <1>1, <1>2, <1>3 DEF InMemory

LEMMA LaterOrder ==
  ASSUME NEW b \in Bytes, NEW c \in Bytes, \A t \in Times : t >= Reset => b[t] <= c[t]
  PROVE  Later(b) <= Later(c)
<1>1. MaxTime \in SumEnds /\ Reset \in Nat
  BY NetStaticAssumption, TimesTyped DEF SumEnds
<1>2. QED
  BY <1>1, BetweenMore DEF Later

LEMMA LaterOfNothing == NoBytes \in Bytes /\ Later(NoBytes) = 0
BY RecordTyped, TotalOfRecord, Zero

\* A report sums up to now: that is all there is of the cycle.
LEMMA SumToNow ==
  ASSUME NEW s \in Bytes, NEW c \in Bytes, NEW last \in Times, OfThePast(s, last), OfThePast(c, last)
  PROVE  Between(Plus(s, c), Reset, last) = Later(s) + Later(c)
<1>1. Plus(s, c) \in Bytes /\ Reset \in Nat
  BY PlusTyped, NetStaticAssumption
<1>2. \A t \in Times : t > last => Plus(s, c)[t] = 0
  BY PlusTyped DEF OfThePast
<1>3. Between(Plus(s, c), Reset, last) = Later(Plus(s, c))
  BY <1>1, <1>2, BetweenUpTo DEF Later
<1>4. QED
  BY <1>3, TotalIs

LEMMA CycleIs ==
  ASSUME RecordInv, PastInv, NEW n \in Nics
  PROVE  CycleBytes(n) = IF memory # "unread" THEN InMemory(n) ELSE InFile(n)
<1>1. /\ store[n] \in Bytes /\ cache[n] \in Bytes /\ now \in Times
      /\ OfThePast(store[n], now) /\ OfThePast(cache[n], now)
  BY DEF RecordInv, DataInv, DataTyped, PastInv, RecordsPast
<1>2. CycleTotal(n) = InMemory(n)
  BY <1>1, SumToNow DEF CycleTotal, InMemory
<1>3. QED
  BY <1>2 DEF CycleBytes, InFile, NoFileRead

LEMMA EarlyAndLater ==
  ASSUME NEW b \in Bytes
  PROVE  Later(b) <= Total(b) /\ (NoEarlier(b) => Total(b) = Later(b))
<1>1. Reset \in 1 .. MaxTime /\ Reset - 1 \in SumEnds /\ Reset \in Nat
  BY NetStaticAssumption DEF SumEnds
<1>2. Between(b, 0, Reset - 1) + Later(b) = Total(b) /\ Between(b, 0, Reset - 1) \in Nat
  BY <1>1, BetweenSplit, BetweenTyped DEF Later
<1>3. Later(b) \in Nat
  BY TotalIs
<1>4. ASSUME NoEarlier(b) PROVE Between(b, 0, Reset - 1) = 0
  <2>1. \A t \in Times : t >= 0 /\ t <= Reset - 1 => b[t] = NoBytes[t]
    <3>1. \A t \in Times : t <= Reset - 1 => t < Reset
      BY <1>1, TimesTyped
    <3>2. QED
      BY <1>4, <3>1 DEF NoEarlier, NoBytes
  <2>2. NoBytes \in Bytes
    BY LaterOfNothing
  <2>3. Between(b, 0, Reset - 1) = Between(NoBytes, 0, Reset - 1)
    BY <1>1, <2>1, <2>2, BetweenSame
  <2>4. QED
    BY <1>1, <2>3, BetweenNoBytes
<1>5. QED
  BY <1>2, <1>3, <1>4

\* The cycle, and how a step may change it.
Cycle(n) == IF memory # "unread" THEN InMemory(n) ELSE InFile(n)
NoMore(n) == Cycle(n)' - Cycle(n) <= Positive(expected'[n] - expected[n]) \/ ~clock
NoLess(n) ==
  Cycle(n) - Cycle(n)' <= Positive(expected[n] - expected'[n]) \/ memory' = "unread" \/ LateFlush

LEMMA PositiveIs ==
  ASSUME NEW x \in Int, NEW y \in Int, y <= x \/ y <= 0
  PROVE  y <= Positive(x)
BY DEF Positive

LEMMA BothBounds ==
  ASSUME DataTyped, DataTyped', NEW n \in Nics, NEW before \in Int, NEW after \in Int,
         Cycle(n) = before, Cycle(n)' = after,
         after - before <= expected'[n] - expected[n] \/ after <= before \/ ~clock,
         \/ before - after <= expected[n] - expected'[n] \/ before <= after
         \/ memory' = "unread" \/ LateFlush
  PROVE  NoMore(n) /\ NoLess(n)
<1>1. PICK e \in Int, f \in Int : e = expected[n] /\ f = expected'[n]
  BY DEF DataTyped
<1>2. after - before <= Positive(f - e) \/ ~clock
  BY <1>1, PositiveIs
<1>3. before - after <= Positive(e - f) \/ memory' = "unread" \/ LateFlush
  BY <1>1, PositiveIs
<1>4. QED
  BY <1>1, <1>2, <1>3 DEF NoMore, NoLess

\* What is lost of the cycle is lost.
LEMMA LossOrder ==
  ASSUME NEW b \in Bytes, NEW c \in Bytes, \A t \in Times : b[t] <= c[t]
  PROVE  /\ Total(b) <= Total(c) /\ Later(b) <= Later(c)
         /\ Later(c) - Later(b) <= Total(c) - Total(b)
<1>1. Reset \in 1 .. MaxTime /\ Reset - 1 \in SumEnds /\ MaxTime \in SumEnds /\ Reset \in Nat
  BY NetStaticAssumption DEF SumEnds
<1>2. /\ Between(b, 0, Reset - 1) + Later(b) = Total(b) /\ Between(b, 0, Reset - 1) \in Nat
      /\ Between(c, 0, Reset - 1) + Later(c) = Total(c) /\ Between(c, 0, Reset - 1) \in Nat
      /\ Later(b) \in Nat /\ Later(c) \in Nat
  BY <1>1, BetweenSplit, BetweenTyped DEF Later
<1>3. Between(b, 0, Reset - 1) <= Between(c, 0, Reset - 1) /\ Later(b) <= Later(c)
  BY <1>1, BetweenMore DEF Later
<1>4. QED
  BY <1>2, <1>3

\* What is purged of the cycle is counted as expired.
LEMMA PurgedLoss ==
  ASSUME NEW s \in [Nics -> Bytes], NEW n \in Nics
  PROVE  /\ Purged(s)[n] \in Bytes
         /\ Later(Purged(s)[n]) \in Nat /\ Later(s[n]) \in Nat /\ Expired(s)[n] \in Nat
         /\ Total(Purged(s)[n]) \in Nat /\ Total(s[n]) \in Nat
         /\ Expired(s)[n] = Total(s[n]) - Total(Purged(s)[n])
         /\ Later(Purged(s)[n]) <= Later(s[n])
         /\ Later(s[n]) - Later(Purged(s)[n]) <= Expired(s)[n]
<1>1. /\ Purged(s) \in [Nics -> Bytes]
      /\ \A t \in Times : Purged(s)[n][t] = IF t >= now - Preserve THEN s[n][t] ELSE 0
      /\ Expired(s)[n] = Total(s[n]) - Total(Purged(s)[n])
  BY PurgedIs
<1>2. PICK b \in Bytes, c \in Bytes : b = Purged(s)[n] /\ c = s[n]
  BY <1>1
<1>3. \A t \in Times : b[t] <= c[t]
  BY <1>1, <1>2, BytesTyped
<1>4. Total(b) <= Total(c) /\ Later(b) <= Later(c) /\ Later(c) - Later(b) <= Total(c) - Total(b)
  BY <1>3, LossOrder
<1>5. Total(b) \in Nat /\ Later(b) \in Nat /\ Total(c) \in Nat /\ Later(c) \in Nat
  BY TotalIs
<1>6. QED
  BY <1>1, <1>2, <1>4, <1>5

LEMMA SameCycle ==
  ASSUME DataTyped, DataTyped', NEW n \in Nics, UNCHANGED <<store, cache, file, memory>>
  PROVE  NoMore(n) /\ NoLess(n)
<1>1. Cycle(n)' = Cycle(n) /\ Cycle(n) \in Nat
  BY LaterTyped DEF Cycle, InMemory, InFile, NoFileRead
<1>2. QED
  BY <1>1, BothBounds

LEMMA SampleCycle ==
  ASSUME RecordInv, DataTyped', NEW n \in Nics, NEW w \in Samplers, Sample(w)
  PROVE  NoMore(n) /\ NoLess(n)
<1>1. PICK found \in Nat :
        cache'[n] = Plus(cache[n], Record(found, now)) /\ expected'[n] = expected[n] + found
  <2> DEFINE f == IF Allowed(n) THEN SafeDelta(n) ELSE 0
  <2>1. f \in Nat
    BY DEF RecordInv, SafeDelta
  <2>2. cache'[n] = Plus(cache[n], Record(f, now)) /\ expected'[n] = expected[n] + f
    BY DEF Sample
  <2> HIDE DEF f
  <2>3. QED
    BY <2>1, <2>2
<1>2. DataInv /\ DataTyped /\ now \in Times /\ memory' = memory /\ store' = store
  BY DEF Sample, RecordInv, DataInv, DataTyped
<1>3. memory # "unread"
  BY <1>2, WorkersHaveData DEF Sample, Workers
<1>4. PICK b \in Bytes, r \in Bytes :
        /\ b = cache[n] /\ r = Record(found, now) /\ Later(r) \in Nat /\ Later(r) <= found
  BY <1>2, RecordTyped, TotalOfRecord DEF DataTyped
<1>5. Later(Plus(b, r)) = Later(b) + Later(r) /\ Later(b) \in Nat
  BY TotalIs
<1>6. Later(cache'[n]) = Later(cache[n]) + Later(r)
  BY <1>1, <1>4, <1>5
<1>7. Cycle(n)' = Cycle(n) + Later(r) /\ Cycle(n) \in Nat
  BY <1>2, <1>3, <1>4, <1>6, LaterTyped DEF Cycle, InMemory
<1>8. expected[n] \in Int
  BY <1>2 DEF DataTyped
<1>9. Cycle(n)' - Cycle(n) <= expected'[n] - expected[n] /\ Cycle(n) <= Cycle(n)'
  BY <1>1, <1>4, <1>7, <1>8
<1>10. QED
  BY <1>2, <1>4, <1>7, <1>9, BothBounds

\* What a flush leaves of the cycle before it is purged.
LEMMA FlushedKeepsCycle ==
  ASSUME DataTyped, NEW t \in Times, NEW n \in Nics,
         t >= Reset \/ (now < Reset /\ OfThePast(store[n], now) /\ OfThePast(cache[n], now))
  PROVE  Later(Flushed(t)[n]) >= Later(store[n]) + Later(cache[n])
<1> DEFINE B == Boundary(t)
           A == Aggregated(cache[n], t, B)
<1>1. PICK b \in Bytes, c \in Bytes : b = store[n] /\ c = cache[n]
  BY DEF DataTyped
<1>2. Reset \in Nat /\ t \in Nat /\ now \in Nat
  BY NetStaticAssumption, TimesTyped DEF DataTyped
<1>3. B \in {0, Reset}
  BY DEF Boundary
<1> HIDE DEF B
<1>4. A \in Bytes /\ (B = Reset => Later(A) = Later(c))
  BY <1>1, <1>3, AggregatedIs
<1>5. Flushed(t)[n] = Plus(b, A)
  BY <1>1 DEF Flushed, B
<1>6. Later(Plus(b, A)) = Later(b) + Later(A) /\ Later(b) \in Nat /\ Later(A) \in Nat /\ Later(c) \in Nat
  BY <1>4, TotalIs
<1>7. CASE t >= Reset
  <2>1. CASE B = Reset
    BY <1>1, <1>4, <1>5, <1>6, <2>1
  <2>2. CASE B = 0
    <3>1. A = Record(Total(c), t) /\ Total(c) \in Nat
      BY <1>1, <2>2, TotalIs DEF Aggregated
    <3>2. Later(A) = Total(c) /\ Later(c) <= Total(c)
      BY <1>7, <3>1, TotalOfRecord, EarlyAndLater
    <3>3. QED
      BY <1>1, <1>5, <1>6, <3>1, <3>2
  <2>3. QED
    BY <1>3, <2>1, <2>2
<1>8. CASE now < Reset /\ OfThePast(b, now) /\ OfThePast(c, now)
  <2>1. \A s \in Times : s >= Reset => s > now
    BY <1>2, <1>8, TimesTyped
  <2>2. \A s \in Times : s >= Reset => b[s] <= NoBytes[s] /\ c[s] <= NoBytes[s]
    BY <1>8, <2>1 DEF OfThePast, NoBytes
  <2>3. Later(b) <= 0 /\ Later(c) <= 0
    BY <2>2, LaterOrder, LaterOfNothing
  <2>4. QED
    BY <1>1, <1>5, <1>6, <2>3
<1>9. QED
  BY <1>1, <1>7, <1>8

LEMMA FlushCycle ==
  ASSUME RecordInv, DataTyped', memory # "unread", NEW n \in Nics, NEW t \in Times, FlushAndSave(t),
         \/ t >= Reset \/ LateFlush
         \/ now < Reset /\ OfThePast(store[n], now) /\ OfThePast(cache[n], now)
  PROVE  NoMore(n) /\ NoLess(n)
<1>1. DataTyped /\ nics' \in NicLists
  BY DEF RecordInv, DataInv, DataTyped, FlushAndSave
<1>2. PICK F \in [Nics -> Bytes] :
        F = Flushed(t) /\ (clock => \A m \in Nics : Later(F[m]) <= Later(store[m]) + Later(cache[m]))
  BY <1>1, FlushedIs
<1>3. /\ Later(Purged(F)[n]) \in Nat /\ Later(F[n]) \in Nat /\ Expired(F)[n] \in Nat
      /\ Later(Purged(F)[n]) <= Later(F[n])
      /\ Later(F[n]) - Later(Purged(F)[n]) <= Expired(F)[n]
  BY PurgedLoss
<1>4. PICK P \in [Nics -> Bytes] : P = Purged(F)
  BY PurgedIs
<1>5. store' = P /\ cache' = [m \in Nics |-> NoBytes] /\ Save(P)
      /\ expected'[n] = expected[n] - Expired(F)[n]
  BY <1>2, <1>4 DEF FlushAndSave
<1>6. memory' # "unread"
  BY <1>1, <1>5, SaveIs
<1>7. Cycle(n)' = Later(P[n]) + 0 /\ Cycle(n) = Later(store[n]) + Later(cache[n])
  BY <1>5, <1>6, LaterOfNothing DEF Cycle, InMemory
<1>8. Later(store[n]) \in Nat /\ Later(cache[n]) \in Nat /\ expected[n] \in Int
  BY <1>1, LaterTyped DEF DataTyped
<1>9. Cycle(n)' \in Int /\ Cycle(n) \in Int /\ Cycle(n)' = Later(P[n])
  BY <1>3, <1>4, <1>7, <1>8
<1>10. Cycle(n)' <= Cycle(n) \/ ~clock
  BY <1>2, <1>3, <1>4, <1>7, <1>8
<1>11. Cycle(n) - Cycle(n)' <= expected[n] - expected'[n] \/ LateFlush
  <2>1. Later(F[n]) >= Later(store[n]) + Later(cache[n]) \/ LateFlush
    BY <1>1, <1>2, FlushedKeepsCycle
  <2>2. QED
    BY <1>3, <1>4, <1>5, <1>7, <1>8, <2>1
<1>12. QED
  BY <1>1, <1>9, <1>10, <1>11, BothBounds

LEMMA LoadCycle ==
  ASSUME DataInv, DataTyped', Load, cache' = cache, NEW n \in Nics
  PROVE  NoMore(n) /\ NoLess(n)
<1>1. DataTyped
  BY DEF DataInv
<1>2. /\ Later(store[n]) \in Nat /\ Later(cache[n]) \in Nat /\ expected[n] \in Int
      /\ memory = "unread" => Later(store[n]) = 0 /\ Later(cache[n]) = 0
  BY <1>1, LaterTyped, LaterOfNothing DEF DataInv, LoadedFirst, DataTyped
<1>3. CASE NoFileRead
  <2>1. store' = store /\ memory' # "unread"
    BY <1>1, <1>3 DEF Load, NoFileRead, DataTyped
  <2>2. Cycle(n)' = InMemory(n)
    BY <2>1 DEF Cycle, InMemory
  <2>3. Cycle(n) = InMemory(n)
    BY <1>2, <1>3 DEF Cycle, InMemory, InFile
  <2>4. QED
    BY <1>1, <2>2, <2>3, LaterTyped, BothBounds
<1>4. CASE ~NoFileRead
  <2>1. PICK R \in [Nics -> Bytes] : R = file.records
    BY <1>1, <1>4, FileTyped DEF DataTyped
  <2>2. PICK P \in [Nics -> Bytes] :
          /\ P = Purged(R)
          /\ \A m \in Nics : \A s \in Times : P[m][s] = IF s >= now - Preserve THEN R[m][s] ELSE 0
    BY PurgedIs
  <2>3. store' = P /\ memory' = "saved"
    BY <1>4, <2>1, <2>2 DEF Load, NoFileRead
  <2>4. Cycle(n)' = Later(P[n]) + Later(cache[n])
    BY <2>3 DEF Cycle, InMemory
  <2>5. /\ Later(P[n]) \in Nat /\ Later(R[n]) \in Nat /\ Later(P[n]) <= Later(R[n])
        /\ Total(P[n]) \in Nat /\ Total(R[n]) \in Nat /\ InFile(n) = Later(R[n])
        /\ Later(R[n]) - Later(P[n]) <= Expired(R)[n] /\ Expired(R)[n] \in Nat
    BY <1>4, <2>1, <2>2, PurgedLoss DEF InFile
  <2>6. CASE memory = "unread"
    <3>1. expected'[n] = expected[n] - Expired(R)[n]
      BY <1>4, <2>1, <2>6 DEF Load, NoFileRead
    <3>2. Cycle(n)' = Later(P[n]) /\ Cycle(n) = Later(R[n])
      BY <1>2, <2>4, <2>5, <2>6 DEF Cycle
    <3>3. Cycle(n) - Cycle(n)' <= expected[n] - expected'[n]
      BY <1>2, <2>5, <3>1, <3>2
    <3>4. QED
      BY <1>1, <2>5, <3>2, <3>3, BothBounds
  <2>7. CASE memory # "unread"
    <3>1. PICK b \in Bytes : b = store[n]
      BY <1>1 DEF DataTyped
    <3>2. \A s \in Times : b[s] \in Nat /\ P[n][s] <= b[s]
      <4>1. \A s \in Times : b[s] \in Nat
        BY BytesTyped
      <4>2. QED
        BY <1>4, <2>1, <2>2, <2>7, <3>1, <4>1 DEF DataInv, FileInStore
    <3>3. /\ Later(P[n]) <= Later(b) /\ Later(b) - Later(P[n]) <= Total(b) - Total(P[n])
          /\ Later(b) \in Nat /\ Total(b) \in Nat
      BY <3>2, LossOrder, TotalIs
    <3>4. Cycle(n) = Later(b) + Later(cache[n])
      BY <2>7, <3>1 DEF Cycle, InMemory
    <3>5. expected'[n] = expected[n] - Total(b) + Total(P[n])
      <4>1. CASE memory = "saved"
        <5>1. PICK S \in [Nics -> Bytes] : S = store
          BY <1>1 DEF DataTyped
        <5>2. PICK Q \in [Nics -> Bytes] :
                /\ Q = Purged(S) /\ Expired(S)[n] = Total(S[n]) - Total(Q[n])
                /\ \A s \in Times : Q[n][s] = IF s >= now - Preserve THEN S[n][s] ELSE 0
          BY PurgedIs
        <5>3. \A s \in Times : Q[n][s] = P[n][s]
          BY <1>4, <2>1, <2>2, <2>7, <4>1, <5>1, <5>2 DEF DataInv, FileInStore
        <5>4. Q[n] \in Bytes /\ P[n] \in Bytes
          OBVIOUS
        <5>5. Q[n] = P[n]
          BY <5>3, <5>4 DEF Bytes
        <5>6. expected'[n] = expected[n] - Expired(S)[n]
          BY <1>4, <4>1, <5>1 DEF Load, NoFileRead
        <5>7. QED
          BY <1>2, <2>5, <3>1, <3>3, <5>1, <5>2, <5>5, <5>6
      <4>2. CASE memory = "unsaved"
        BY <1>4, <2>1, <2>2, <3>1, <4>2 DEF Load, NoFileRead
      <4>3. QED
        BY <1>1, <2>7, <4>1, <4>2 DEF DataTyped
    <3>6. Cycle(n) - Cycle(n)' <= expected[n] - expected'[n] /\ Cycle(n)' <= Cycle(n)
      BY <1>2, <2>4, <2>5, <3>3, <3>4, <3>5
    <3>7. Cycle(n) \in Int /\ Cycle(n)' \in Int
      BY <1>2, <2>4, <2>5, <3>3, <3>4
    <3>8. QED
      BY <1>1, <3>6, <3>7, BothBounds
  <2>8. QED
    BY <2>6, <2>7
<1>5. QED
  BY <1>3, <1>4

LEMMA StartCycle ==
  ASSUME DataInv, DataTyped', StartOrContinue \/ LoadFails, cache' = cache, NEW n \in Nics
  PROVE  NoMore(n) /\ NoLess(n)
<1>1. DataTyped
  BY DEF DataInv
<1>2. CASE UNCHANGED <<store, file, memory>>
  BY <1>1, <1>2, SameCycle
<1>3. CASE Load
  BY <1>3, LoadCycle
<1>4. QED
  BY <1>2, <1>3 DEF StartOrContinue, LoadFails

LEMMA StopCycle ==
  ASSUME RecordInv, PastInv, DataTyped', Stop, NEW n \in Nics
  PROVE  NoMore(n) /\ NoLess(n)
<1>1. DataTyped /\ now \in Times /\ now \in Nat /\ Reset \in Nat
  BY TimesTyped, NetStaticAssumption DEF RecordInv, DataInv, DataTyped
<1>2. CASE running
  <2>1. memory # "unread"
    BY <1>2 DEF RecordInv, DataInv, LoadedFirst
  <2>2. now >= Reset \/ (now < Reset /\ OfThePast(store[n], now) /\ OfThePast(cache[n], now))
    BY <1>1 DEF PastInv, RecordsPast
  <2>3. QED
    BY <1>1, <1>2, <2>1, <2>2, FlushCycle DEF Stop
<1>3. CASE ~running
  BY <1>1, <1>3, SameCycle DEF Stop
<1>4. QED
  BY <1>2, <1>3

LEMMA SetNewConfigCycle ==
  ASSUME DataInv, DataTyped', NEW list \in NicLists, SetNewConfig(list), NEW n \in Nics
  PROVE  NoMore(n) /\ NoLess(n)
<1>1. /\ DataTyped /\ nics' \in NicLists /\ Save(store) /\ expected[n] \in Int
      /\ store[n] \in Bytes /\ cache[n] \in Bytes
  BY DEF DataInv, DataTyped, SetNewConfig
<1>2. PICK S \in [Nics -> Bytes] : S = store
  BY DEF DataInv, DataTyped
<1>3. PICK P \in [Nics -> Bytes] : P = Purged(S)
  BY PurgedIs
<1>4. /\ Later(P[n]) \in Nat /\ Later(S[n]) \in Nat /\ Expired(S)[n] \in Nat
      /\ Later(P[n]) <= Later(S[n]) /\ Later(S[n]) - Later(P[n]) <= Expired(S)[n]
  BY <1>3, PurgedLoss
<1>5. PICK lost \in {0, Total(cache[n])} :
        /\ cache'[n] = IF lost = 0 THEN cache'[n] ELSE NoBytes
        /\ lost = 0 => Later(cache'[n]) = Later(cache[n])
        /\ expected'[n] = expected[n] - Expired(S)[n] - lost
                            - (IF memory = "unread" /\ memory' = "saved" THEN FileBytes(n) ELSE 0)
  <2> DEFINE dropped == IF running THEN {m \in Nics : ~Monitored(list, m)} ELSE {}
  <2>1. /\ cache'[n] = IF n \in dropped THEN NoBytes ELSE cache[n]
        /\ expected'[n] = expected[n] - Expired(S)[n] - (IF n \in dropped THEN Total(cache[n]) ELSE 0)
                            - (IF memory = "unread" /\ memory' = "saved" THEN FileBytes(n) ELSE 0)
    BY <1>2 DEF SetNewConfig
  <2> HIDE DEF dropped
  <2>2. CASE n \notin dropped
    BY <2>1, <2>2
  <2>3. CASE n \in dropped
    <3>1. Later(cache[n]) <= Total(cache[n]) /\ Later(cache[n]) \in Nat
      BY <1>1, EarlyAndLater, TotalIs
    <3>2. Total(cache[n]) = 0 => Later(cache'[n]) = Later(cache[n])
      BY <2>1, <2>3, <3>1, LaterOfNothing
    <3>3. QED
      BY <2>1, <2>3, <3>2
  <2>4. QED
    BY <2>2, <2>3
<1>6. store' = P
  BY <1>2, <1>3 DEF SetNewConfig
<1>7. /\ Later(cache[n]) \in Nat /\ Total(cache[n]) \in Nat /\ lost \in Nat
      /\ Later(cache[n]) <= Total(cache[n])
      /\ Later(cache'[n]) \in Nat /\ Later(cache'[n]) <= Later(cache[n])
      /\ Later(cache[n]) - Later(cache'[n]) <= lost
      /\ InFile(n) \in Nat /\ FileBytes(n) \in Nat
  <2>1. /\ Later(cache[n]) \in Nat /\ Total(cache[n]) \in Nat /\ Later(cache[n]) <= Total(cache[n])
        /\ InFile(n) \in Nat
    BY <1>1, LaterTyped, TotalIs, EarlyAndLater
  <2>2. FileBytes(n) \in Nat
    BY <1>1, FileBytesTyped DEF DataTyped
  <2>3. CASE lost = 0
    BY <1>5, <2>1, <2>2, <2>3
  <2>4. CASE lost # 0
    BY <1>5, <2>1, <2>2, <2>4, LaterOfNothing
  <2>5. QED
    BY <2>3, <2>4
<1>8. CASE memory # "unread"
  <2>1. memory' # "unread"
    BY <1>1, <1>2, <1>8, SaveIs
  <2>2. /\ Cycle(n)' = Later(P[n]) + Later(cache'[n])
        /\ Cycle(n) = Later(S[n]) + Later(cache[n])
    BY <1>2, <1>6, <1>8, <2>1 DEF Cycle, InMemory
  <2>3. expected'[n] = expected[n] - Expired(S)[n] - lost
    BY <1>1, <1>4, <1>5, <1>7, <1>8
  <2>4. Cycle(n)' <= Cycle(n) /\ Cycle(n) - Cycle(n)' <= expected[n] - expected'[n]
    BY <1>1, <1>4, <1>7, <2>2, <2>3
  <2>5. Cycle(n) \in Int /\ Cycle(n)' \in Int
    BY <1>4, <1>7, <2>2
  <2>6. QED
    BY <1>1, <2>4, <2>5, BothBounds
<1>9. CASE memory = "unread"
  <2>1. Later(S[n]) = 0 /\ Later(cache[n]) = 0
    BY <1>2, <1>9, LaterOfNothing DEF DataInv, LoadedFirst
  <2>2. Cycle(n) = InFile(n)
    BY <1>9 DEF Cycle
  <2>3. CASE memory' = "unread" /\ file' = file
    <3>1. Cycle(n)' = InFile(n)
      BY <2>3 DEF Cycle, InFile, NoFileRead
    <3>2. QED
      BY <1>1, <1>7, <2>2, <3>1, BothBounds
  <2>4. CASE memory' = "saved"
    <3>1. Cycle(n)' = Later(P[n]) + Later(cache'[n])
      BY <1>6, <2>4 DEF Cycle, InMemory
    <3>2. Later(P[n]) = 0 /\ Later(cache'[n]) = 0
      BY <1>4, <1>7, <2>1
    <3>3. expected'[n] = expected[n] - Expired(S)[n] - lost - FileBytes(n)
      BY <1>5, <1>9, <2>4
    <3>4. InFile(n) <= FileBytes(n)
      <4>1. CASE NoFileRead
        BY <1>7, <4>1 DEF InFile
      <4>2. CASE ~NoFileRead
        <5>1. PICK b \in Bytes : b = file.records[n]
          BY <1>1, <4>2, FileTyped DEF DataTyped
        <5>2. InFile(n) = Later(b) /\ FileBytes(n) = Total(b)
          BY <1>1, <4>2, <5>1, FileTyped DEF InFile, DataTyped
        <5>3. QED
          BY <5>2, EarlyAndLater
      <4>3. QED
        BY <4>1, <4>2
    <3>5. Cycle(n)' = 0 /\ Cycle(n) - Cycle(n)' <= expected[n] - expected'[n]
      BY <1>1, <1>4, <1>7, <2>2, <3>1, <3>2, <3>3, <3>4
    <3>6. QED
      BY <1>1, <1>7, <2>2, <3>5, BothBounds
  <2>5. QED
    BY <1>1, <1>2, <1>9, <2>3, <2>4, SaveIs
<1>10. QED
  BY <1>8, <1>9

\* A crash brings back what was purged and not yet saved: all that it brings back is more
\* than what it loses.
LEMMA DieCycle ==
  ASSUME DataInv, DataTyped', HistoryInv, Die, NEW n \in Nics
  PROVE  NoMore(n) /\ NoLess(n)
<1>1. DataTyped /\ file' = file /\ memory' = "unread"
  BY DEF DataInv, Die
<1>2. Cycle(n)' = InFile(n)
  BY <1>1 DEF Cycle, InFile, NoFileRead
<1>3. /\ InFile(n) \in Nat /\ Later(store[n]) \in Nat /\ Later(cache[n]) \in Nat
      /\ store[n] \in Bytes /\ cache[n] \in Bytes
  BY <1>1, LaterTyped
<1>4. CASE memory = "unread"
  BY <1>1, <1>2, <1>3, <1>4, BothBounds DEF Cycle
<1>5. ASSUME memory # "unread", InFile(n) <= Later(store[n]) PROVE NoMore(n) /\ NoLess(n)
  <2>1. Cycle(n) = Later(store[n]) + Later(cache[n])
    BY <1>5 DEF Cycle, InMemory
  <2>2. QED
    BY <1>1, <1>2, <1>3, <1>5, <2>1, BothBounds
<1>6. CASE memory # "unread" /\ NoFileRead
  BY <1>3, <1>5, <1>6 DEF InFile
<1>7. CASE memory # "unread" /\ ~NoFileRead
  <2>1. PICK R \in [Nics -> Bytes] : R = file.records
    BY <1>1, <1>7, FileTyped DEF DataTyped
  <2>2. InFile(n) = Later(R[n]) /\ R[n] \in Bytes
    BY <1>7, <2>1 DEF InFile
  <2>3. CASE NoLater(n)
    <3>1. \A t \in Times : t >= Reset => R[n][t] <= NoBytes[t]
      BY <1>7, <2>1, <2>3 DEF NoLater, NoBytes
    <3>2. Later(R[n]) <= Later(NoBytes) /\ Later(NoBytes) = 0
      BY <2>2, <3>1, LaterOrder, LaterOfNothing
    <3>3. QED
      BY <1>3, <1>5, <1>7, <2>2, <3>2
  <2>4. CASE NoEarlier(cache[n])
    <3>1. PICK cut \in Int : NoneBefore(cut)
      BY <1>7 DEF HistoryInv, CutInv
    <3>2. Reset \in Nat
      BY NetStaticAssumption
    <3>3. CASE cut <= Reset
      <4>1. \A t \in Times : t >= Reset => ~ (t < cut)
        BY <3>2, <3>3, TimesTyped
      <4>2. \A t \in Times : t >= Reset => R[n][t] <= store[n][t]
        BY <1>7, <2>1, <3>1, <4>1 DEF NoneBefore
      <4>3. Later(R[n]) <= Later(store[n])
        BY <1>3, <2>2, <4>2, LaterOrder
      <4>4. QED
        BY <1>5, <1>7, <2>2, <4>3
    <3>4. CASE ~ (cut <= Reset)
      <4>1. \A t \in Times : t < Reset => t < cut
        BY <3>2, <3>4, TimesTyped
      <4>2. NoEarlier(store[n])
        BY <3>1, <4>1 DEF NoneBefore, NoEarlier
      <4>3. Total(store[n]) = Later(store[n]) /\ Total(cache[n]) = Later(cache[n])
        BY <1>3, <2>4, <4>2, EarlyAndLater
      <4>4. Later(R[n]) <= Total(R[n]) /\ Total(R[n]) \in Nat
        BY <2>2, EarlyAndLater, TotalIs
      <4>5. expected'[n] = Total(R[n])
        BY <1>1, <1>7, <2>1, FileTyped DEF Die, DataTyped
      <4>6. expected[n] = Total(cache[n]) + Total(store[n])
        BY <1>7, KnownIs
      <4>7. Cycle(n) = Later(store[n]) + Later(cache[n])
        BY <1>7 DEF Cycle, InMemory
      <4>8. Cycle(n)' - Cycle(n) <= expected'[n] - expected[n] /\ Cycle(n) \in Int /\ Cycle(n)' \in Int
        BY <1>2, <1>3, <2>2, <4>3, <4>4, <4>5, <4>6, <4>7
      <4>9. QED
        BY <1>1, <4>8, BothBounds
    <3>5. QED
      BY <3>2, <3>3, <3>4
  <2>5. QED
    BY <2>3, <2>4 DEF HistoryInv
<1>8. QED
  BY <1>4, <1>6, <1>7

LEMMA CycleByStep ==
  ASSUME RecordInv, RecordInv', PastInv, HistoryInv, [Next]_vars, NEW n \in Nics
  PROVE  NoMore(n) /\ NoLess(n)
<1>1. DataInv /\ DataTyped /\ DataTyped'
  BY DEF RecordInv, DataInv
<1>2. CASE GoroutineStep
  <2>1. ASSUME NEW w \in Workers, EnterSelect(w) \/ Fire(w)
        PROVE  NoMore(n) /\ NoLess(n)
    BY <1>1, <2>1, SameCycle DEF EnterSelect, Fire, dataVars, ghostVars
  <2>2. ASSUME NEW w \in Savers, Flush(w)
        PROVE  NoMore(n) /\ NoLess(n)
    <3>1. w \in Workers /\ worker[w].stage = "due" /\ FlushAndSave(worker[w].at)
      BY <2>2 DEF Flush, Workers
    <3>2. memory # "unread"
      BY <1>1, <3>1, WorkersHaveData
    <3>3. worker[w].at \in Times
      BY <3>1 DEF RecordInv, SamplingInv, WorkersTyped, Worker
    <3>4. worker[w].at >= Reset \/ LateFlush
      <4>1. \A t \in Times : t >= Reset \/ t < Reset
        BY TimesTyped, NetStaticAssumption
      <4>2. worker[w].at < Reset => LateFlush
        BY <2>2, Zenon DEF LateFlush
      <4>3. QED
        BY <3>3, <4>1, <4>2
    <3>5. QED
      BY <1>1, <3>1, <3>2, <3>3, <3>4, FlushCycle
  <2>3. QED
    BY <1>1, <1>2, <2>1, <2>2, SampleCycle DEF GoroutineStep
<1>3. CASE CallerStep
  <2>1. CASE CallStart \/ Report
    BY <1>1, <2>1, StartCycle DEF CallStart, Report
  <2>2. CASE CallSetNewConfig
    BY <1>1, <2>2, SetNewConfigCycle DEF CallSetNewConfig
  <2>3. ASSUME NEW on \in BOOLEAN, Apply(on)
        PROVE  NoMore(n) /\ NoLess(n)
    BY <1>1, <2>3, SameCycle DEF Apply, ghostVars
  <2>4. CASE CallStop \/ Signal
    BY <1>1, <2>4, StopCycle DEF CallStop, Signal
  <2>5. CASE Die
    BY <1>1, <2>5, DieCycle
  <2>6. QED
    BY <1>3, <2>1, <2>2, <2>3, <2>4, <2>5 DEF CallerStep
<1>4. CASE Tick \/ (\E m \in Nics : Traffic(m) \/ CounterReset(m)) \/ UNCHANGED vars
  BY <1>1, <1>4, SameCycle DEF Tick, Traffic, CounterReset, vars, dataVars, ghostVars
<1>5. QED
  BY <1>2, <1>3, <1>4 DEF Next

LEMMA CyclesAgree == RecordInv /\ PastInv => \A n \in Nics : CycleBytes(n) = Cycle(n) /\ Cycle(n) \in Nat
BY CycleIs, LaterTyped DEF Cycle, RecordInv, DataInv

LEMMA CyclesAgreeNext ==
  (RecordInv /\ PastInv)' => (\A n \in Nics : CycleBytes(n) = Cycle(n) /\ Cycle(n) \in Nat)'
BY CyclesAgree, PTL

\* If no file has records of a time to come, the sum of the cycle that a report gives gains
\* no more than is sampled and loses no more than expires, is excluded or is lost by a
\* failed save or load, but for a flush without the reset clock, a flush by a tick from
\* before the reset, and the end of the process; and the history in the file is lost by
\* its age only, or when a process that could not load it saves a configuration over it
\* (GetTotalTrafficBetween, flushCacheLocked, purgeExpiredLocked, saveToFileLocked).
THEOREM RecordsAlwaysKept ==
  ASSUME FilesOfThePast
  PROVE  Spec => RecordsKept
<1> DEFINE Inv == RecordInv /\ PastInv
           Stronger == Inv /\ HistoryInv
<1>1. Init => Stronger
  <2> SUFFICES ASSUME Init PROVE Stronger
    OBVIOUS
  <2>1. Inv
    BY RecordInit, PastInit
  <2>2. memory = "unread" /\ \A n \in Nics : NoEarlier(cache[n])
    BY DEF Init, NoEarlier, NoBytes
  <2>3. QED
    BY <2>1, <2>2 DEF HistoryInv, CutInv
<1>2. Stronger /\ [Next]_vars => Stronger'
  <2> SUFFICES ASSUME Stronger, [Next]_vars PROVE Stronger'
    OBVIOUS
  <2>1. RecordInv' /\ PastInv'
    BY RecordInvIsInductive, PastInvIsInductive
  <2>2. QED
    BY <2>1, HistoryInvIsInductive
<1>3. Stronger /\ Inv' /\ [Next]_vars =>
        [\A n \in Nics :
           LET gained == expected[n]' - expected[n]
               added  == CycleBytes(n)' - CycleBytes(n)
           IN /\ added <= Positive(gained) \/ ~clock
              /\ -added <= Positive(-gained) \/ memory' = "unread" \/ LateFlush]_vars
  <2> SUFFICES ASSUME Stronger, Inv', [Next]_vars, NEW n \in Nics
               PROVE  LET gained == expected[n]' - expected[n]
                          added  == CycleBytes(n)' - CycleBytes(n)
                      IN /\ added <= Positive(gained) \/ ~clock
                         /\ -added <= Positive(-gained) \/ memory' = "unread" \/ LateFlush
    OBVIOUS
  <2>1. CycleBytes(n) = Cycle(n) /\ Cycle(n) \in Nat
    BY CyclesAgree
  <2>2. (\A m \in Nics : CycleBytes(m) = Cycle(m) /\ Cycle(m) \in Nat)'
    BY CyclesAgreeNext
  <2>3. CycleBytes(n)' = Cycle(n)' /\ Cycle(n)' \in Nat
    BY <2>2
  <2>4. NoMore(n) /\ NoLess(n)
    BY CycleByStep
  <2>5. PICK e \in Int, f \in Int, c \in Int, d \in Int :
          e = expected[n] /\ f = expected'[n] /\ c = Cycle(n) /\ d = Cycle(n)'
    BY <2>1, <2>3 DEF RecordInv, DataInv, DataTyped
  <2>6. (d - c <= Positive(f - e) \/ ~clock)
          /\ (c - d <= Positive(e - f) \/ memory' = "unread" \/ LateFlush)
    BY <2>4, <2>5 DEF NoMore, NoLess
  <2>7. e - f = -(f - e) /\ c - d = -(d - c)
    OBVIOUS
  <2>8. (d - c <= Positive(f - e) \/ ~clock)
          /\ (-(d - c) <= Positive(-(f - e)) \/ memory' = "unread" \/ LateFlush)
    BY <2>6, <2>7
  <2>9. QED
    BY <2>1, <2>3, <2>5, <2>8
<1>4. Stronger => Inv
  OBVIOUS
<1> HIDE DEF Inv, Stronger
<1>5. QED
  BY <1>1, <1>2, <1>3, <1>4, FileAlwaysKept, PTL DEF Spec, CycleKept, RecordsKept
-----------------------------------------------------------------------------
(***************************************************************************)
(* Return routes, for any tasks, addresses and messages: the hops of a     *)
(* trace.  A task that sends and waits has the mutex, so no two do; what   *)
(* may arrive from an echo request is the answer of the router at its TTL  *)
(* or of one before it for which the destination is unreachable;           *)
(* and a trace goes on as long as its address has not answered.            *)
(***************************************************************************)
Tracing(t) == stage[t] \in {"send", "wait"}

RouteStages == {"asked", "send", "wait", "probed", "report", "reported"}

\* What can stand in a trace.
Places == {None} \cup {RouterAt(a, n) : a \in DOMAIN PathTo, n \in Nat \ {0}}

Said == [kind : {"echo", "exceeded", "unreachable"}, by : Tasks] \cup {None}

\* A router that an answer to a request of this TTL can come from.
Stands(router, kind, a, ttl) ==
  \/ router = RouterAt(a, ttl)
  \/ kind = "unreachable" /\ \E j \in 1 .. ttl - 1 : router = RouterAt(a, j)

RoutesTyped ==
  /\ stage \in [Tasks -> RouteStages]
  /\ dest \in [Tasks -> DOMAIN PathTo \cup {None}]
  /\ hops \in [Tasks -> Seq(Places)]
  /\ heard \in [Tasks -> Seq(Said)]
  /\ reached \in [Tasks -> BOOLEAN]

OneProbes == \A t \in Tasks : stage[t] \in {"send", "wait", "probed"} => routeProbeMu = t

\* An answer that may still arrive is that of a router its request came to.
Answering(m) ==
  /\ m.by \in Tasks /\ stage[m.by] # "asked"
  /\ m.to \in DOMAIN PathTo
  /\ m.seq \in Nat \ {0}
  /\ m.kind \in {"echo", "exceeded", "unreachable"}
  /\ Stands(m.from, m.kind, m.to, m.seq)
  /\ m.kind = "echo" => m.from = m.to

FlightAnswers == \A m \in flight : m.id = "agent" => Answering(m)

\* A hop that is not a timeout was told by a task that has begun.
HeardFrom(t) ==
  /\ Len(heard[t]) = Len(hops[t])
  /\ \A i \in 1 .. Len(hops[t]) : hops[t][i] # None =>
       /\ Stands(hops[t][i], heard[t][i].kind, dest[t], i)
       /\ heard[t][i].by \in Tasks
       /\ stage[heard[t][i].by] # "asked"
       /\ heard[t][i].by # t => ~Tracing(heard[t][i].by)

\* A task with an address stops at it; one without it has no hops.
GoesOn(t) ==
  /\ Tracing(t) => dest[t] # None /\ \A i \in 1 .. Len(hops[t]) : hops[t][i] # dest[t]
  /\ \A i \in 1 .. Len(hops[t]) - 1 : hops[t][i] # dest[t]
  /\ dest[t] = None => hops[t] = <<>>
  /\ stage[t] = "asked" => hops[t] = <<>> /\ dest[t] = None

\* What a task reports of an address that its target keeps.
Reported(t) ==
  stage[t] = "reported" /\ Answers[t] = {dest[t]}
    => (reached[t] <=> Reaches(t, dest[t]))

RouteInv ==
  /\ RoutesTyped
  /\ OneProbes
  /\ FlightAnswers
  /\ \A t \in Tasks : HeardFrom(t) /\ GoesOn(t) /\ Reported(t)

\* A step takes one task further; what it does to that one is left to show.
LEMMA OthersKept ==
  ASSUME RouteInv, NEW t \in Tasks, NEW next \in RouteStages \ {"asked"},
         stage' = [stage EXCEPT ![t] = next],
         next \in {"send", "wait"} => stage[t] \in {"asked", "send", "wait"},
         \A s \in Tasks \ {t} : /\ dest'[s] = dest[s] /\ hops'[s] = hops[s]
                                /\ heard'[s] = heard[s] /\ reached'[s] = reached[s],
         \A m \in flight' : m \in flight \/ (m.id = "agent" => Answering(m)),
         next \in {"send", "wait", "probed"} => routeProbeMu' = t,
         \A s \in Tasks \ {t} : stage[s] \in {"send", "wait", "probed"} => routeProbeMu' = s
  PROVE  /\ \A s \in Tasks : stage[s] # "asked" => stage'[s] # "asked" /\ (Tracing(s)' => Tracing(s))
         /\ stage' \in [Tasks -> RouteStages]
         /\ \A s \in Tasks \ {t} : HeardFrom(s)' /\ GoesOn(s)' /\ Reported(s)'
         /\ OneProbes' /\ FlightAnswers'
<1>1. /\ stage \in [Tasks -> RouteStages] /\ stage' \in [Tasks -> RouteStages]
      /\ stage'[t] = next /\ \A s \in Tasks \ {t} : stage'[s] = stage[s]
  BY DEF RouteInv, RoutesTyped
<1>2. \A s \in Tasks : stage[s] # "asked" => stage'[s] # "asked" /\ (Tracing(s)' => Tracing(s))
  BY <1>1 DEF Tracing
<1>3. ASSUME NEW s \in Tasks \ {t} PROVE HeardFrom(s)' /\ GoesOn(s)' /\ Reported(s)'
  <2>1. HeardFrom(s) /\ GoesOn(s) /\ Reported(s)
    BY DEF RouteInv
  <2>2. dest'[s] = dest[s] /\ hops'[s] = hops[s] /\ heard'[s] = heard[s] /\ reached'[s] = reached[s]
    OBVIOUS
  <2>3. HeardFrom(s)'
    BY <1>2, <2>1, <2>2 DEF HeardFrom
  <2>4. GoesOn(s)'
    BY <1>1, <2>1, <2>2 DEF GoesOn, Tracing
  <2>5. Reported(s)'
    BY <1>1, <2>1, <2>2 DEF Reported, Reaches
  <2>6. QED
    BY <2>3, <2>4, <2>5
<1>4. OneProbes'
  BY <1>1 DEF OneProbes
<1>5. FlightAnswers'
  <2>1. \A m \in flight' : m.id = "agent" => Answering(m)
    BY DEF RouteInv, FlightAnswers
  <2>2. \A m : Answering(m) => Answering(m)'
    BY <1>1 DEF Answering
  <2>3. QED
    BY <2>1, <2>2 DEF FlightAnswers
<1>6. QED
  BY <1>1, <1>2, <1>3, <1>4, <1>5

LEMMA BeginInv ==
  ASSUME RouteInv, NEW t \in Tasks, Begin(t)
  PROVE  RouteInv'
<1>1. PICK a \in Answers[t] :
        IF a = None
          THEN Fail(t) /\ UNCHANGED dest
          ELSE /\ dest' = [dest EXCEPT ![t] = a]
               /\ stage' = [stage EXCEPT ![t] = "send"]
               /\ UNCHANGED failed
  BY DEF Begin
<1>2. /\ stage[t] = "asked" /\ routeProbeMu = None /\ routeProbeMu' = t
      /\ UNCHANGED <<hops, flight, heard, reached>>
      /\ HeardFrom(t) /\ GoesOn(t)
      /\ dest \in [Tasks -> DOMAIN PathTo \cup {None}]
      /\ a \in DOMAIN PathTo \cup {None}
  BY ProbeAssumption DEF Begin, RouteInv, RoutesTyped
<1>3. hops[t] = <<>> /\ dest[t] = None /\ Len(heard[t]) = 0
  BY <1>2 DEF GoesOn, HeardFrom
<1>4. PICK next \in {"send", "probed"} :
        /\ stage' = [stage EXCEPT ![t] = next]
        /\ dest' = [dest EXCEPT ![t] = a] \/ dest' = dest
        /\ next = "send" => dest'[t] # None
  BY <1>1, <1>2 DEF Fail
<1>5. \A s \in Tasks : stage[s] \notin {"send", "wait", "probed"}
  BY <1>2, ProbeAssumption DEF RouteInv, OneProbes
<1>6. /\ stage' \in [Tasks -> RouteStages] /\ OneProbes' /\ FlightAnswers'
      /\ \A s \in Tasks \ {t} : HeardFrom(s)' /\ GoesOn(s)' /\ Reported(s)'
  BY <1>2, <1>4, <1>5, OthersKept DEF RouteStages
<1>7. stage'[t] = next
  BY <1>4 DEF RouteInv, RoutesTyped
<1>8. HeardFrom(t)' /\ GoesOn(t)' /\ Reported(t)'
  <2>1. hops'[t] = <<>> /\ Len(hops'[t]) = 0 /\ Len(heard'[t]) = 0
    BY <1>2, <1>3
  <2>2. HeardFrom(t)'
    BY <2>1 DEF HeardFrom
  <2>3. GoesOn(t)'
    BY <1>4, <1>7, <2>1 DEF GoesOn, Tracing
  <2>4. Reported(t)'
    BY <1>7 DEF Reported
  <2>5. QED
    BY <2>2, <2>3, <2>4
<1>9. RoutesTyped'
  BY <1>2, <1>4, <1>6 DEF RouteInv, RoutesTyped
<1>10. QED
  BY <1>6, <1>8, <1>9 DEF RouteInv

LEMMA SendInv ==
  ASSUME RouteInv, NEW t \in Tasks, Send(t)
  PROVE  RouteInv'
<1>1. /\ stage[t] = "send" /\ stage' = [stage EXCEPT ![t] = "wait"]
      /\ UNCHANGED <<routeProbeMu, dest, hops, failed, heard, reached>>
      /\ HeardFrom(t) /\ GoesOn(t)
      /\ stage \in [Tasks -> RouteStages]
  BY DEF Send, RouteInv, RoutesTyped
<1>2. PICK m \in Message(t, dest[t], Ttl(t)) : flight' = flight \cup {m}
  BY DEF Send
<1>3. dest[t] \in DOMAIN PathTo /\ Ttl(t) \in Nat \ {0}
  <2>1. Len(hops[t]) \in Nat
    BY DEF RouteInv, RoutesTyped
  <2>2. QED
    BY <1>1, <2>1 DEF GoesOn, Tracing, RouteInv, RoutesTyped, Ttl
<1>4. Answering(m)
  <2>1. /\ m.by = t /\ m.to = dest[t] /\ m.seq = Ttl(t)
        /\ m.kind \in {"echo", "exceeded", "unreachable"}
        /\ Stands(m.from, m.kind, dest[t], Ttl(t))
        /\ m.kind = "echo" => m.from = m.to
    <3>1. CASE m.kind = "unreachable" /\ \E j \in 1 .. Ttl(t) : m.from = RouterAt(dest[t], j)
      <4>1. Stands(m.from, m.kind, dest[t], Ttl(t))
        BY <1>3, <3>1 DEF Stands
      <4>2. QED
        BY <3>1, <4>1 DEF Message
    <3>2. CASE m.kind \in {"echo", "exceeded"} /\ m.from = RouterAt(dest[t], Ttl(t))
      BY <3>2 DEF Message, Stands
    <3>3. QED
      BY <3>1, <3>2 DEF Message
  <2>2. QED
    BY <1>1, <1>3, <2>1 DEF Answering
<1>5. routeProbeMu = t /\ \A s \in Tasks : stage[s] \in {"send", "wait", "probed"} => routeProbeMu = s
  BY <1>1 DEF RouteInv, OneProbes
<1>6. /\ stage' \in [Tasks -> RouteStages] /\ OneProbes' /\ FlightAnswers'
      /\ \A s \in Tasks : stage[s] # "asked" => stage'[s] # "asked" /\ (Tracing(s)' => Tracing(s))
      /\ \A s \in Tasks \ {t} : HeardFrom(s)' /\ GoesOn(s)' /\ Reported(s)'
  BY <1>1, <1>2, <1>4, <1>5, OthersKept DEF RouteStages
<1>7. HeardFrom(t)' /\ GoesOn(t)' /\ Reported(t)'
  <2>1. HeardFrom(t)'
    BY <1>1, <1>6 DEF HeardFrom
  <2>2. GoesOn(t)' /\ Reported(t)'
    BY <1>1 DEF GoesOn, Tracing, Reported
  <2>3. QED
    BY <2>1, <2>2
<1>8. RoutesTyped'
  BY <1>1, <1>6 DEF RouteInv, RoutesTyped
<1>9. QED
  BY <1>6, <1>7, <1>8 DEF RouteInv

\* The next hop of a trace: a timeout, or an answer of a router its request came to.
LEMMA HopInv ==
  ASSUME RouteInv, NEW t \in Tasks, NEW hop, NEW said \in Said, stage[t] = "wait", Hop(t, hop, said),
         flight' \subseteq flight,
         \/ hop = None
         \/ /\ Stands(hop, said.kind, dest[t], Ttl(t))
            /\ said.by \in Tasks /\ stage[said.by] # "asked"
  PROVE  RouteInv'
<1> DEFINE n == Len(hops[t])
<1>1. /\ HeardFrom(t) /\ GoesOn(t)
      /\ hops \in [Tasks -> Seq(Places)] /\ heard \in [Tasks -> Seq(Said)]
      /\ stage \in [Tasks -> RouteStages]
      /\ n \in Nat /\ Len(heard[t]) = n
  BY DEF RouteInv, RoutesTyped, HeardFrom
<1>2. dest[t] \in DOMAIN PathTo /\ dest[t] # None /\ Ttl(t) = n + 1
  BY <1>1 DEF GoesOn, Tracing, RouteInv, RoutesTyped, Ttl
<1>3. hop \in Places
  BY <1>1, <1>2 DEF Places, Stands
<1>4. /\ hops' = [hops EXCEPT ![t] = Append(@, hop)]
      /\ heard' = [heard EXCEPT ![t] = Append(@, said)]
      /\ stage' = [stage EXCEPT ![t] = IF Ends(t, hop) THEN "probed" ELSE "send"]
      /\ UNCHANGED <<routeProbeMu, dest, failed, reached>>
  BY DEF Hop
<1>5. PICK next \in {"probed", "send"} :
        /\ stage' = [stage EXCEPT ![t] = next]
        /\ next = "send" => hop # dest[t]
  BY <1>4 DEF Ends
<1>6. /\ hops'[t] = Append(hops[t], hop) /\ heard'[t] = Append(heard[t], said)
      /\ Append(hops[t], hop) \in Seq(Places) /\ Append(heard[t], said) \in Seq(Said)
  BY <1>1, <1>3, <1>4
<1>7. /\ Len(hops'[t]) = n + 1 /\ Len(heard'[t]) = n + 1
      /\ hops'[t][n + 1] = hop /\ heard'[t][n + 1] = said
      /\ \A i \in 1 .. n : hops'[t][i] = hops[t][i] /\ heard'[t][i] = heard[t][i]
  BY <1>1, <1>3, <1>6
<1>8. routeProbeMu = t /\ \A s \in Tasks : stage[s] \in {"send", "wait", "probed"} => routeProbeMu = s
  BY DEF RouteInv, OneProbes
<1>9. /\ stage' \in [Tasks -> RouteStages] /\ OneProbes' /\ FlightAnswers'
      /\ \A s \in Tasks : stage[s] # "asked" => stage'[s] # "asked" /\ (Tracing(s)' => Tracing(s))
      /\ \A s \in Tasks \ {t} : HeardFrom(s)' /\ GoesOn(s)' /\ Reported(s)'
  BY <1>1, <1>4, <1>5, <1>8, OthersKept DEF RouteStages
<1>10. stage'[t] = next /\ dest'[t] = dest[t]
  BY <1>1, <1>4, <1>5
<1>11. HeardFrom(t)'
  <2>1. \A s \in Tasks : s # t => ~Tracing(s)
    BY <1>8 DEF Tracing
  <2>2. ASSUME NEW i \in 1 .. n + 1, hops'[t][i] # None
        PROVE  /\ Stands(hops'[t][i], heard'[t][i].kind, dest[t], i)
               /\ heard'[t][i].by \in Tasks
               /\ stage'[heard'[t][i].by] # "asked"
               /\ heard'[t][i].by # t => stage'[heard'[t][i].by] \notin {"send", "wait"}
    <3>1. CASE i = n + 1
      <4>1. Stands(hop, said.kind, dest[t], i) /\ said.by \in Tasks /\ stage[said.by] # "asked"
        BY <1>2, <1>7, <2>2, <3>1
      <4>2. hops'[t][i] = hop /\ heard'[t][i] = said
        BY <1>7, <3>1
      <4>3. stage'[said.by] # "asked" /\ (Tracing(said.by)' => Tracing(said.by))
        BY <1>9, <4>1
      <4>4. said.by # t => ~Tracing(said.by)'
        BY <2>1, <4>1, <4>3
      <4>5. QED
        BY <4>1, <4>2, <4>3, <4>4 DEF Tracing
    <3>2. CASE i \in 1 .. n
      <4>1. hops'[t][i] = hops[t][i] /\ heard'[t][i] = heard[t][i]
        BY <1>7, <3>2
      <4>2. PICK q \in Tasks : /\ q = heard[t][i].by /\ stage[q] # "asked" /\ (q # t => ~Tracing(q))
                             /\ Stands(hops[t][i], heard[t][i].kind, dest[t], i)
        BY <1>1, <2>2, <3>2, <4>1 DEF HeardFrom
      <4>3. stage'[q] # "asked" /\ (Tracing(q)' => Tracing(q))
        BY <1>9, <4>2
      <4>4. QED
        BY <4>1, <4>2, <4>3 DEF Tracing
    <3>3. QED
      BY <1>1, <3>1, <3>2
  <2>3. QED
    BY <1>7, <1>10, <2>2 DEF HeardFrom, Tracing, Stands
<1>12. GoesOn(t)'
  <2>1. \A i \in 1 .. n : hops'[t][i] # dest[t]
    BY <1>1, <1>7 DEF GoesOn, Tracing
  <2>2. n + 1 - 1 = n /\ \A i \in 1 .. n + 1 : i \in 1 .. n \/ i = n + 1
    BY <1>1
  <2>3. next = "send" => \A i \in 1 .. n + 1 : hops'[t][i] # dest[t]
    BY <1>5, <1>7, <2>1, <2>2
  <2>4. QED
    BY <1>2, <1>5, <1>7, <1>10, <2>1, <2>2, <2>3 DEF GoesOn, Tracing
<1>13. Reported(t)'
  BY <1>10 DEF Reported
<1>14. RoutesTyped'
  BY <1>1, <1>4, <1>6, <1>9 DEF RouteInv, RoutesTyped
<1>15. QED
  BY <1>9, <1>11, <1>12, <1>13, <1>14 DEF RouteInv

LEMMA HearInv ==
  ASSUME RouteInv, NEW t \in Tasks, Hear(t)
  PROVE  RouteInv'
<1>1. PICK m \in flight :
        /\ Matches(m, dest[t], Ttl(t))
        /\ flight' \in {flight, flight \ {m}}
        /\ Hop(t, m.from, [kind |-> m.kind, by |-> m.by])
  BY DEF Hear
<1>2. m.id = "agent" /\ m.seq = Ttl(t) /\ Answering(m)
  BY <1>1 DEF Matches, RouteInv, FlightAnswers
<1>3. /\ Stands(m.from, m.kind, dest[t], Ttl(t)) /\ m.by \in Tasks /\ stage[m.by] # "asked"
      /\ [kind |-> m.kind, by |-> m.by] \in Said
  <2>1. m.kind = "echo" => m.from = m.to /\ m.from = dest[t]
    BY <1>1, <1>2 DEF Matches, Answering
  <2>2. m.to = dest[t]
    BY <1>1, <2>1 DEF Matches
  <2>3. QED
    BY <1>2, <2>2 DEF Answering, Said
<1>4. stage[t] = "wait" /\ flight' \subseteq flight
  BY <1>1 DEF Hear
<1>5. QED
  BY <1>1, <1>3, <1>4, HopInv

LEMMA TimeoutInv ==
  ASSUME RouteInv, NEW t \in Tasks, Timeout(t)
  PROVE  RouteInv'
BY HopInv DEF Timeout, Said

\* A trace is broken off, and keeps its hops or loses them all.
LEMMA FailInv ==
  ASSUME RouteInv, NEW t \in Tasks, Broken(t) \/ Panic(t)
  PROVE  RouteInv'
<1>1. /\ Tracing(t) /\ stage' = [stage EXCEPT ![t] = "probed"]
      /\ UNCHANGED <<routeProbeMu, dest, flight, reached>>
      /\ HeardFrom(t) /\ GoesOn(t)
      /\ stage \in [Tasks -> RouteStages]
      /\ hops \in [Tasks -> Seq(Places)] /\ heard \in [Tasks -> Seq(Said)]
  BY DEF Broken, Panic, Fail, Tracing, RouteInv, RoutesTyped
<1>2. \/ UNCHANGED <<hops, heard>>
      \/ hops' = [hops EXCEPT ![t] = <<>>] /\ heard' = [heard EXCEPT ![t] = <<>>]
  BY DEF Broken, Panic
<1>3. routeProbeMu = t /\ \A s \in Tasks : stage[s] \in {"send", "wait", "probed"} => routeProbeMu = s
  BY <1>1 DEF RouteInv, OneProbes, Tracing
<1>4. /\ stage' \in [Tasks -> RouteStages] /\ OneProbes' /\ FlightAnswers'
      /\ \A s \in Tasks : stage[s] # "asked" => stage'[s] # "asked" /\ (Tracing(s)' => Tracing(s))
      /\ \A s \in Tasks \ {t} : HeardFrom(s)' /\ GoesOn(s)' /\ Reported(s)'
  BY <1>1, <1>2, <1>3, OthersKept DEF RouteStages
<1>5. stage'[t] = "probed" /\ dest'[t] = dest[t]
  BY <1>1
<1>6. \/ hops'[t] = hops[t] /\ heard'[t] = heard[t]
      \/ hops'[t] = <<>> /\ heard'[t] = <<>>
  BY <1>2 DEF RouteInv, RoutesTyped
<1>7. HeardFrom(t)' /\ GoesOn(t)' /\ Reported(t)'
  <2>1. HeardFrom(t)'
    BY <1>1, <1>4, <1>5, <1>6 DEF HeardFrom
  <2>2. ~Tracing(t)' /\ Reported(t)'
    BY <1>5 DEF Tracing, Reported
  <2>3. CASE hops'[t] = hops[t]
    BY <1>1, <1>5, <2>1, <2>2, <2>3 DEF GoesOn
  <2>4. CASE hops'[t] = <<>>
    BY <1>5, <2>1, <2>2, <2>4 DEF GoesOn
  <2>5. QED
    BY <1>6, <2>3, <2>4
<1>8. RoutesTyped'
  <2>1. <<>> \in Seq(Places) /\ <<>> \in Seq(Said)
    OBVIOUS
  <2>2. QED
    BY <1>1, <1>2, <1>4, <2>1 DEF RouteInv, RoutesTyped
<1>9. QED
  BY <1>4, <1>7, <1>8 DEF RouteInv

\* The mutex is unlocked, and the trace reported.
LEMMA ReportInv ==
  ASSUME RouteInv, NEW t \in Tasks, Release(t) \/ ReportRoute(t)
  PROVE  RouteInv'
<1>1. PICK next \in {"report", "reported"} :
        /\ stage' = [stage EXCEPT ![t] = next]
        /\ stage[t] = IF next = "report" THEN "probed" ELSE "report"
  BY DEF Release, ReportRoute
<1>2. /\ UNCHANGED <<dest, hops, flight, heard>>
      /\ HeardFrom(t) /\ GoesOn(t)
      /\ stage \in [Tasks -> RouteStages]
      /\ reached \in [Tasks -> BOOLEAN]
  BY DEF Release, ReportRoute, RouteInv, RoutesTyped
<1>3. \/ next = "report" /\ reached' = reached
      \/ next = "reported" /\ \E a \in Answers[t] : reached' = [reached EXCEPT ![t] = Reaches(t, a)]
  BY <1>1, <1>2 DEF Release, ReportRoute
<1>4. \A s \in Tasks \ {t} : stage[s] \in {"send", "wait", "probed"} => routeProbeMu' = s
  <2>1. CASE Release(t)
    BY <2>1 DEF Release, RouteInv, OneProbes
  <2>2. CASE ReportRoute(t)
    BY <2>2 DEF ReportRoute, RouteInv, OneProbes
  <2>3. QED
    BY <2>1, <2>2
<1>5. /\ stage' \in [Tasks -> RouteStages] /\ OneProbes' /\ FlightAnswers'
      /\ \A s \in Tasks : stage[s] # "asked" => stage'[s] # "asked" /\ (Tracing(s)' => Tracing(s))
      /\ \A s \in Tasks \ {t} : HeardFrom(s)' /\ GoesOn(s)' /\ Reported(s)'
  BY <1>1, <1>2, <1>3, <1>4, OthersKept DEF RouteStages
<1>6. stage'[t] = next
  BY <1>1, <1>2
<1>7. HeardFrom(t)' /\ GoesOn(t)'
  <2>1. HeardFrom(t)'
    BY <1>2, <1>5 DEF HeardFrom
  <2>2. GoesOn(t)'
    BY <1>2, <1>6 DEF GoesOn, Tracing
  <2>3. QED
    BY <2>1, <2>2
<1>8. Reported(t)'
  <2>1. SUFFICES ASSUME next = "reported", Answers[t] = {dest[t]}
                 PROVE  reached'[t] <=> Reaches(t, dest[t])
    BY <1>2, <1>6 DEF Reported, Reaches
  <2>2. reached' = [reached EXCEPT ![t] = Reaches(t, dest[t])]
    BY <1>3, <2>1
  <2>3. QED
    BY <1>2, <2>2
<1>9. RoutesTyped'
  <2>1. reached' \in [Tasks -> BOOLEAN]
    BY <1>2, <1>3 DEF Reaches
  <2>2. QED
    BY <1>2, <1>5, <2>1 DEF RouteInv, RoutesTyped
<1>10. QED
  BY <1>5, <1>7, <1>8, <1>9 DEF RouteInv

LEMMA RouteInit == ProbeInit => RouteInv
<1> SUFFICES ASSUME ProbeInit PROVE RouteInv
  OBVIOUS
<1>1. RoutesTyped
  BY DEF ProbeInit, RoutesTyped, RouteStages
<1>2. \A t \in Tasks : /\ stage[t] = "asked" /\ dest[t] = None
                       /\ hops[t] = <<>> /\ Len(hops[t]) = 0 /\ Len(heard[t]) = 0
  BY DEF ProbeInit
<1>3. OneProbes /\ \A t \in Tasks : HeardFrom(t) /\ GoesOn(t) /\ Reported(t)
  BY <1>2 DEF OneProbes, HeardFrom, GoesOn, Reported, Tracing
<1>4. FlightAnswers
  BY ProbeAssumption DEF ProbeInit, FlightAnswers
<1>5. QED
  BY <1>1, <1>3, <1>4 DEF RouteInv

LEMMA RouteStep == RouteInv /\ [ProbeNext]_probeVars => RouteInv'
<1> SUFFICES ASSUME RouteInv, [ProbeNext]_probeVars PROVE RouteInv'
  OBVIOUS
<1>1. ASSUME UNCHANGED <<route, reached>> PROVE RouteInv'
  <2>1. UNCHANGED <<routeProbeMu, stage, dest, hops, flight, heard, reached>>
    BY <1>1 DEF route
  <2>2. RoutesTyped' /\ OneProbes' /\ FlightAnswers'
    BY <2>1 DEF RouteInv, RoutesTyped, OneProbes, FlightAnswers, Answering
  <2>3. \A t \in Tasks : HeardFrom(t)' /\ GoesOn(t)' /\ Reported(t)'
    BY <2>1 DEF RouteInv, HeardFrom, GoesOn, Reported, Reaches, Tracing
  <2>4. QED
    BY <2>2, <2>3 DEF RouteInv
<1>2. ASSUME NEW t \in Tasks, RouteTask(t) PROVE RouteInv'
  BY <1>2, BeginInv, SendInv, HearInv, TimeoutInv, FailInv, ReportInv DEF RouteTask, Trace
<1>3. ASSUME NEW p \in Pings, PingTask(p) PROVE RouteInv'
  BY <1>1, <1>3 DEF PingTask, Measure, ReportPing
<1>4. QED
  BY <1>1, <1>2, <1>3 DEF ProbeNext, probeVars

\* For any tasks that wait for routeProbeMu, any answers to their requests and any messages
\* to other programs, each hop that is not a timeout is the router at its place, or one
\* before it that said the destination was unreachable; and it answered this task's request
\* or that of a task that has stopped listening (waitICMPRouteReply, matchIPv4RouteReply).
THEOREM HopsAlwaysTheirs == ProbeSpec => []HopsAreTheirs
<1>1. RouteInv => HopsAreTheirs
  <2> SUFFICES ASSUME RouteInv, NEW t \in Tasks, NEW i \in Heard(t)
               PROVE  /\ Stands(hops[t][i], heard[t][i].kind, dest[t], i)
                      /\ heard[t][i].by # t => stage[heard[t][i].by] \notin {"send", "wait"}
    BY DEF HopsAreTheirs, Stands
  <2>1. i \in 1 .. Len(hops[t]) /\ hops[t][i] # None /\ HeardFrom(t)
    BY DEF Heard, RouteInv, RoutesTyped
  <2>2. QED
    BY <2>1 DEF HeardFrom, Tracing
<1>2. QED
  BY <1>1, RouteInit, RouteStep, PTL DEF ProbeSpec

\* A trace ends at its destination and nowhere else has it, and routeTargetReached says
\* of a target that keeps its address whether the trace came there.
THEOREM ArrivalAlwaysEnds == ProbeSpec => []ArrivalIsTheEnd
<1>1. RouteInv => ArrivalIsTheEnd
  <2> SUFFICES ASSUME RouteInv, NEW t \in Tasks
               PROVE  LET n == Len(hops[t]) IN
                      /\ \A i \in 1 .. n - 1 : hops[t][i] # dest[t]
                      /\ stage[t] = "reported" /\ Answers[t] = {dest[t]}
                           => (reached[t] <=> n > 0 /\ hops[t][n] = dest[t])
    BY DEF ArrivalIsTheEnd
  <2> DEFINE n == Len(hops[t])
  <2>1. /\ GoesOn(t) /\ Reported(t) /\ n \in Nat /\ DOMAIN hops[t] = 1 .. n
    BY DEF RouteInv, RoutesTyped
  <2>2. Reaches(t, dest[t]) <=> n > 0 /\ hops[t][n] = dest[t]
    <3>1. CASE dest[t] = None
      <4>1. n = 0
        BY <2>1, <3>1 DEF GoesOn
      <4>2. QED
        BY <3>1, <4>1 DEF Reaches
    <3>2. CASE dest[t] # None
      <4>1. \A i \in 1 .. n : i \in 1 .. n - 1 \/ i = n
        BY <2>1
      <4>2. n > 0 => n \in 1 .. n
        BY <2>1
      <4>3. (\E i \in 1 .. n : hops[t][i] = dest[t]) <=> n > 0 /\ hops[t][n] = dest[t]
        BY <2>1, <4>1, <4>2 DEF GoesOn
      <4>4. QED
        BY <2>1, <3>2, <4>3 DEF Reaches
    <3>3. QED
      BY <3>1, <3>2
  <2>3. QED
    BY <2>1, <2>2 DEF GoesOn, Reported
<1>2. QED
  BY <1>1, RouteInit, RouteStep, PTL DEF ProbeSpec
=============================================================================
