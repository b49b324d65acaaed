---------------------------- MODULE LinkProofs ----------------------------
(***************************************************************************)
(* Theorems about Link, for any events, connections, pull loops and limit  *)
(* of the list of seen events: an event takes effect once, and once more   *)
(* at most for each time it is pushed off that list; and no                *)
(* acknowledgement is lost.                                                *)
(***************************************************************************)
EXTENDS Link, FiniteSetTheorems, SequenceTheorems, TLAPS

(***************************************************************************)
(* The inductive invariant: TakenOnce, on a list without duplicates.       *)
(***************************************************************************)
EventsTyped ==
  /\ work \subseteq Events /\ seen \in Seq(Events)
  /\ hands \in [Goroutines -> SUBSET Events]
  /\ busy \in [Goroutines -> Events \cup {None}]
  /\ handled \in [Events -> Nat] /\ pushed \in [Events -> Nat]

Distinct(q) == \A i, j \in 1..Len(q) : q[i] = q[j] => i = j

Credit(e) == pushed[e] + (IF Marked(e) THEN 1 ELSE 0)

LinkInv ==
  /\ EventsTyped
  /\ Distinct(seen)
  /\ \A e \in Events : Takings(e) <= Credit(e)
  /\ \A e \in work : Marked(e) => Takings(e) > 0

(***************************************************************************)
(* The list of seen events.                                                *)
(***************************************************************************)
LEMMA InRange ==
  ASSUME NEW S, NEW q \in Seq(S), NEW x
  PROVE  x \in Range(q) <=> \E i \in 1..Len(q) : x = q[i]
  BY DEF Range

LEMMA Appended ==
  ASSUME NEW S, NEW q \in Seq(S), NEW e \in S, e \notin Range(q), Distinct(q)
  PROVE  /\ Append(q, e) \in Seq(S) /\ Distinct(Append(q, e))
         /\ \A d : d \in Range(Append(q, e)) <=> d \in Range(q) \/ d = e
<1> DEFINE r == Append(q, e)
           n == Len(q)
<1>1. /\ r \in Seq(S) /\ Len(r) = n + 1 /\ r[n + 1] = e /\ n \in Nat
      /\ \A k \in 1..n : r[k] = q[k]
  OBVIOUS
<1>2. \A k \in 1..n : q[k] # e
  BY InRange
<1>3. \A i, j \in 1..n : q[i] = q[j] => i = j
  BY DEF Distinct
<1> HIDE DEF r, n
<1>4. ASSUME NEW i \in 1..(n + 1), NEW j \in 1..(n + 1), r[i] = r[j]
      PROVE  i = j
  <2>1. (i \in 1..n \/ i = n + 1) /\ (j \in 1..n \/ j = n + 1)
    BY <1>1
  <2>2. CASE i \in 1..n /\ j \in 1..n
    BY <1>1, <1>3, <1>4, <2>2
  <2>3. CASE i = n + 1 /\ j \in 1..n
    BY <1>1, <1>2, <1>4, <2>3
  <2>4. CASE j = n + 1 /\ i \in 1..n
    BY <1>1, <1>2, <1>4, <2>4
  <2> QED
    BY <2>1, <2>2, <2>3, <2>4
<1>5. Distinct(r)
  BY <1>1, <1>4 DEF Distinct
<1>6. ASSUME NEW d PROVE d \in Range(r) <=> d \in Range(q) \/ d = e
  <2>1. d \in Range(r) <=> \E k \in 1..(n + 1) : d = r[k]
    BY <1>1, InRange
  <2>2. d \in Range(q) <=> \E k \in 1..n : d = q[k]
    BY InRange DEF n
  <2>3. (\E k \in 1..(n + 1) : d = r[k]) <=> (\E k \in 1..n : d = r[k]) \/ d = r[n + 1]
    BY <1>1
  <2> QED
    BY <1>1, <2>1, <2>2, <2>3
<1> QED
  BY <1>1, <1>5, <1>6 DEF r

\* A list without its i-th element.
LEMMA Without ==
  ASSUME NEW S, NEW q \in Seq(S), Distinct(q), NEW i \in 1..Len(q),
         NEW r \in Seq(S), Len(r) = Len(q) - 1,
         \A k \in 1..(Len(q) - 1) : r[k] = IF k < i THEN q[k] ELSE q[k + 1]
  PROVE  /\ Distinct(r)
         /\ \A d : d \in Range(r) <=> d \in Range(q) /\ d # q[i]
<1> DEFINE n == Len(q)
           at(k) == IF k < i THEN k ELSE k + 1
<1>1. n \in Nat /\ i \in 1..n /\ Len(r) = n - 1
  OBVIOUS
<1>2. \A j, k \in 1..n : q[j] = q[k] => j = k
  BY DEF Distinct
<1>3. \A k \in 1..(n - 1) : at(k) \in 1..n /\ at(k) # i /\ r[k] = q[at(k)]
  OBVIOUS
<1>4. \A j, k \in 1..(n - 1) : at(j) = at(k) => j = k
  OBVIOUS
<1>5. \A j \in 1..n : j # i => \E k \in 1..(n - 1) : at(k) = j
  <2> SUFFICES ASSUME NEW j \in 1..n, j # i PROVE \E k \in 1..(n - 1) : at(k) = j
    OBVIOUS
  <2>1. CASE j < i
    <3>1. j \in 1..(n - 1) /\ at(j) = j
      BY <1>1, <2>1
    <3> QED
      BY <3>1
  <2>2. CASE i < j
    <3>1. j - 1 \in 1..(n - 1) /\ at(j - 1) = j
      BY <1>1, <2>2
    <3> QED
      BY <3>1
  <2> QED
    BY <1>1, <2>1, <2>2
<1> HIDE DEF n, at
<1>6. Distinct(r)
  BY <1>1, <1>2, <1>3, <1>4 DEF Distinct
<1>7. ASSUME NEW d PROVE d \in Range(r) <=> d \in Range(q) /\ d # q[i]
  <2>1. d \in Range(r) <=> \E k \in 1..(n - 1) : d = r[k]
    BY <1>1, InRange
  <2>2. d \in Range(q) <=> \E k \in 1..n : d = q[k]
    BY InRange DEF n
  <2>3. ASSUME NEW k \in 1..(n - 1), d = r[k] PROVE d \in Range(q) /\ d # q[i]
    BY <1>1, <1>2, <1>3, <2>2, <2>3
  <2>4. ASSUME NEW j \in 1..n, d = q[j], d # q[i] PROVE d \in Range(r)
    <3>1. PICK k \in 1..(n - 1) : at(k) = j
      BY <1>5, <2>4
    <3> QED
      BY <1>3, <2>1, <2>4, <3>1
  <2> QED
    BY <2>1, <2>2, <2>3, <2>4
<1> QED
  BY <1>6, <1>7

LEMMA Tailed ==
  ASSUME NEW S, NEW q \in Seq(S), q # <<>>, Distinct(q)
  PROVE  /\ Tail(q) \in Seq(S) /\ Distinct(Tail(q)) /\ Head(q) \in S
         /\ Head(q) \in Range(q)
         /\ \A d : d \in Range(Tail(q)) <=> d \in Range(q) /\ d # Head(q)
<1>1. /\ Tail(q) \in Seq(S) /\ Len(Tail(q)) = Len(q) - 1 /\ 1 \in 1..Len(q)
      /\ Head(q) = q[1] /\ Head(q) \in S
      /\ \A k \in 1..(Len(q) - 1) : Tail(q)[k] = q[k + 1]
  OBVIOUS
<1>2. \A k \in 1..(Len(q) - 1) : Tail(q)[k] = IF k < 1 THEN q[k] ELSE q[k + 1]
  BY <1>1
<1>3. Head(q) \in Range(q)
  BY <1>1, InRange
<1>4. /\ Distinct(Tail(q))
      /\ \A d : d \in Range(Tail(q)) <=> d \in Range(q) /\ d # q[1]
  <2> DEFINE r == Tail(q)
  <2>1. r \in Seq(S) /\ Len(r) = Len(q) - 1
    BY <1>1
  <2>2. \A k \in 1..(Len(q) - 1) : r[k] = IF k < 1 THEN q[k] ELSE q[k + 1]
    BY <1>2
  <2>3. 1 \in 1..Len(q)
    BY <1>1
  <2> HIDE DEF r
  <2>4. Distinct(r) /\ \A d : d \in Range(r) <=> d \in Range(q) /\ d # q[1]
    BY <2>1, <2>2, <2>3, Without
  <2> QED
    BY <2>4 DEF r
<1> QED
  BY <1>1, <1>3, <1>4

LEMMA Removed ==
  ASSUME NEW S, NEW q \in Seq(S), Distinct(q), NEW i \in 1..Len(q)
  PROVE  /\ RemoveAt(q, i) \in Seq(S) /\ Distinct(RemoveAt(q, i))
         /\ \A d : d \in Range(RemoveAt(q, i)) <=> d \in Range(q) /\ d # q[i]
<1> DEFINE a == SubSeq(q, 1, i - 1)
           b == SubSeq(q, i + 1, Len(q))
<1>1. a \in Seq(S) /\ Len(a) = i - 1 /\ \A k \in 1..(i - 1) : a[k] = q[k]
  OBVIOUS
<1>2. b \in Seq(S) /\ Len(b) = Len(q) - i /\ \A k \in 1..(Len(q) - i) : b[k] = q[k + i]
  OBVIOUS
<1>3. RemoveAt(q, i) = a \o b
  BY DEF RemoveAt
<1> HIDE DEF a, b
<1>4. a \o b \in Seq(S) /\ Len(a \o b) = Len(q) - 1
  <2>1. a \o b \in Seq(S) /\ Len(a \o b) = Len(a) + Len(b)
    BY <1>1, <1>2, ConcatProperties
  <2> QED
    BY <1>1, <1>2, <2>1
<1>5. ASSUME NEW k \in 1..(Len(q) - 1)
      PROVE  (a \o b)[k] = IF k < i THEN q[k] ELSE q[k + 1]
  <2>1. (a \o b)[k] = IF k <= Len(a) THEN a[k] ELSE b[k - Len(a)]
    BY <1>1, <1>2
  <2>2. CASE k < i
    BY <1>1, <2>1, <2>2
  <2>3. CASE ~(k < i)
    <3>1. k - Len(a) \in 1..(Len(q) - i) /\ k - Len(a) + i = k + 1
      BY <1>1, <2>3
    <3>2. b[k - Len(a)] = q[k + 1]
      BY <1>2, <3>1
    <3> QED
      BY <1>1, <2>1, <2>3, <3>2
  <2> QED
    BY <2>2, <2>3
<1>6. /\ Distinct(a \o b)
      /\ \A d : d \in Range(a \o b) <=> d \in Range(q) /\ d # q[i]
  BY <1>4, <1>5, Without
<1> QED
  BY <1>3, <1>4, <1>6

\* A mark on the list pushes off at most one other, which is counted.
LEMMA MarkFacts ==
  ASSUME EventsTyped, Distinct(seen), NEW e \in Events, ~Marked(e), Mark(e)
  PROVE  /\ seen' \in Seq(Events) /\ Distinct(seen)' /\ pushed' \in [Events -> Nat]
         /\ Marked(e)' /\ pushed'[e] = pushed[e]
         /\ \A d \in Events \ {e} :
              \/ (Marked(d)' <=> Marked(d)) /\ pushed'[d] = pushed[d]
              \/ Marked(d) /\ ~Marked(d)' /\ pushed'[d] = pushed[d] + 1
<1>1. seen \in Seq(Events) /\ pushed \in [Events -> Nat] /\ e \notin Range(seen)
  BY DEF EventsTyped, Marked
<1>2. CASE Len(seen) < SeenLimit
  <2>1. seen' = Append(seen, e) /\ pushed' = pushed
    BY <1>2 DEF Mark
  <2>2. /\ seen' \in Seq(Events) /\ Distinct(seen')
        /\ \A d : d \in Range(seen') <=> d \in Range(seen) \/ d = e
    BY <1>1, <2>1, Appended
  <2> QED
    BY <1>1, <2>1, <2>2 DEF Marked
<1>3. CASE ~(Len(seen) < SeenLimit)
  <2> DEFINE o == Head(seen)
  <2>1. seen # <<>>
    BY <1>1, <1>3, LinkAssumption
  <2>2. seen' = Append(Tail(seen), e) /\ pushed' = [pushed EXCEPT ![o] = @ + 1]
    BY <1>3 DEF Mark
  <2>3. /\ Tail(seen) \in Seq(Events) /\ Distinct(Tail(seen)) /\ o \in Events
        /\ o \in Range(seen)
        /\ \A d : d \in Range(Tail(seen)) <=> d \in Range(seen) /\ d # o
    BY <1>1, <2>1, Tailed
  <2> HIDE DEF o
  <2>4. /\ seen' \in Seq(Events) /\ Distinct(seen')
        /\ \A d : d \in Range(seen') <=> d \in Range(Tail(seen)) \/ d = e
    <3> DEFINE q == Tail(seen)
    <3>1. q \in Seq(Events) /\ Distinct(q) /\ e \notin Range(q) /\ seen' = Append(q, e)
      BY <1>1, <2>2, <2>3
    <3> HIDE DEF q
    <3>2. /\ seen' \in Seq(Events) /\ Distinct(seen')
          /\ \A d : d \in Range(seen') <=> d \in Range(q) \/ d = e
      BY <3>1, Appended
    <3> QED
      BY <3>2 DEF q
  <2>5. /\ pushed' \in [Events -> Nat] /\ pushed'[o] = pushed[o] + 1
        /\ \A d \in Events \ {o} : pushed'[d] = pushed[d]
    BY <1>1, <2>2, <2>3
  <2> QED
    BY <1>1, <2>3, <2>4, <2>5 DEF Marked
<1> QED
  BY <1>2, <1>3

\* Forgetting an event takes its mark, and no other.
LEMMA ForgottenFacts ==
  ASSUME EventsTyped, Distinct(seen), NEW e \in Events, seen' = Forgotten(e)
  PROVE  /\ seen' \in Seq(Events) /\ Distinct(seen)' /\ ~Marked(e)'
         /\ \A d \in Events \ {e} : Marked(d)' <=> Marked(d)
<1>1. seen \in Seq(Events)
  BY DEF EventsTyped
<1>2. CASE ~Marked(e)
  <2>1. seen' = seen
    BY <1>2 DEF Forgotten
  <2> QED
    BY <1>1, <1>2, <2>1 DEF Marked
<1>3. CASE Marked(e)
  <2> DEFINE i == CHOOSE k \in DOMAIN seen : seen[k] = e
  <2>1. i \in 1..Len(seen) /\ seen[i] = e
    BY <1>1, <1>3 DEF Marked, Range
  <2>2. seen' = RemoveAt(seen, i)
    BY <1>3 DEF Forgotten
  <2> HIDE DEF i
  <2>3. /\ seen' \in Seq(Events) /\ Distinct(seen')
        /\ \A d : d \in Range(seen') <=> d \in Range(seen) /\ d # e
    BY <1>1, <2>1, <2>2, Removed
  <2> QED
    BY <2>3 DEF Marked
<1> QED
  BY <1>2, <1>3

(***************************************************************************)
(* The goroutines that handle an event.                                    *)
(***************************************************************************)
LEMMA TakingsFinite ==
  ASSUME EventsTyped, NEW e \in Events
  PROVE  IsFiniteSet(Handlers(e)) /\ Takings(e) \in Nat
<1>1. IsFiniteSet(Goroutines)
  BY LinkAssumption, FS_Singleton, FS_Union DEF Goroutines, Posters
<1>2. IsFiniteSet(Handlers(e))
  BY <1>1, FS_Subset DEF Handlers
<1> QED
  BY <1>2, FS_CardinalityType DEF EventsTyped, Takings

\* A goroutine takes an event to handle.
LEMMA TakesUp ==
  ASSUME EventsTyped, NEW g \in Goroutines, busy[g] = None, NEW e \in Events,
         busy' = [busy EXCEPT ![g] = e], handled' = handled
  PROVE  /\ Takings(e)' = Takings(e) + 1
         /\ \A d \in Events \ {e} : Takings(d)' = Takings(d)
<1>1. Handlers(e)' = Handlers(e) \cup {g} /\ g \notin Handlers(e)
  BY LinkAssumption DEF EventsTyped, Handlers
<1>2. IsFiniteSet(Handlers(e)) /\ Cardinality(Handlers(e)) \in Nat
  BY TakingsFinite, FS_CardinalityType
<1>3. Cardinality(Handlers(e)') = Cardinality(Handlers(e)) + 1
  BY <1>1, <1>2, FS_AddElement
<1>4. \A d \in Events \ {e} : Handlers(d)' = Handlers(d)
  BY LinkAssumption DEF EventsTyped, Handlers
<1>5. handled[e] \in Nat /\ handled'[e] = handled[e]
  BY DEF EventsTyped
<1>6. Takings(e)' = Takings(e) + 1
  BY <1>2, <1>3, <1>5 DEF Takings
<1>7. \A d \in Events \ {e} : Takings(d)' = Takings(d)
  BY <1>4 DEF Takings
<1> QED
  BY <1>6, <1>7

\* A goroutine is through with its event.
LEMMA Through ==
  ASSUME EventsTyped, NEW g \in Goroutines, NEW e \in Events, busy[g] = e,
         busy' = [busy EXCEPT ![g] = None]
  PROVE  /\ Cardinality(Handlers(e)') = Cardinality(Handlers(e)) - 1
         /\ Cardinality(Handlers(e)) \in Nat
         /\ \A d \in Events \ {e} : Handlers(d)' = Handlers(d)
<1>1. Handlers(e)' = Handlers(e) \ {g} /\ g \in Handlers(e)
  BY LinkAssumption DEF EventsTyped, Handlers
<1>2. IsFiniteSet(Handlers(e)) /\ Cardinality(Handlers(e)) \in Nat
  BY TakingsFinite, FS_CardinalityType
<1>3. Cardinality(Handlers(e)') = Cardinality(Handlers(e)) - 1
  BY <1>1, <1>2, FS_RemoveElement
<1>4. \A d \in Events \ {e} : Handlers(d)' = Handlers(d)
  BY LinkAssumption DEF EventsTyped, Handlers
<1> QED
  BY <1>2, <1>3, <1>4

(***************************************************************************)
(* What steps do to the events.                                            *)
(***************************************************************************)

\* A step that leaves the events that are marked, handled and done.
LEMMA QuietStep ==
  ASSUME LinkInv, UNCHANGED <<work, busy, seen, handled, pushed>>,
         hands' \in [Goroutines -> SUBSET Events]
  PROVE  LinkInv'
<1>1. \A e : /\ Takings(e)' = Takings(e) /\ (Marked(e)' <=> Marked(e))
             /\ Credit(e)' = Credit(e)
  BY DEF Takings, Handlers, Marked, Credit
<1>2. EventsTyped' /\ Distinct(seen)'
  BY DEF LinkInv, EventsTyped
<1> QED
  BY <1>1, <1>2 DEF LinkInv

LEMMA TakeKeeps ==
  ASSUME LinkInv, NEW g \in Goroutines, busy[g] = None, NEW e \in Events, Take(g, e),
         UNCHANGED <<work, handled>>, hands' \in [Goroutines -> SUBSET Events]
  PROVE  LinkInv'
<1> USE DEF LinkInv
<1>1. CASE Marked(e)
  BY <1>1, QuietStep DEF Take
<1>2. CASE ~Marked(e)
  <2>1. Mark(e) /\ busy' = [busy EXCEPT ![g] = e]
    BY <1>2 DEF Take
  <2>2. /\ seen' \in Seq(Events) /\ Distinct(seen)' /\ pushed' \in [Events -> Nat]
        /\ Marked(e)' /\ pushed'[e] = pushed[e]
        /\ \A d \in Events \ {e} :
             \/ (Marked(d)' <=> Marked(d)) /\ pushed'[d] = pushed[d]
             \/ Marked(d) /\ ~Marked(d)' /\ pushed'[d] = pushed[d] + 1
    BY <1>2, <2>1, MarkFacts
  <2>3. /\ Takings(e)' = Takings(e) + 1
        /\ \A d \in Events \ {e} : Takings(d)' = Takings(d)
    BY <2>1, TakesUp
  <2>4. EventsTyped'
    BY <2>1, <2>2 DEF EventsTyped
  <2>5. \A d \in Events : Takings(d) \in Nat /\ pushed[d] \in Nat
    BY TakingsFinite DEF EventsTyped
  <2>6. Takings(e)' <= Credit(e)' /\ Takings(e)' > 0
    BY <1>2, <2>2, <2>3, <2>5 DEF Credit
  <2>7. ASSUME NEW d \in Events \ {e}
        PROVE  Takings(d)' <= Credit(d)' /\ (Marked(d)' => Marked(d))
    BY <2>2, <2>3, <2>5 DEF Credit
  <2>8. \A d \in Events : Takings(d)' <= Credit(d)'
    BY <2>6, <2>7
  <2>9. \A d \in work : Marked(d)' => Takings(d)' > 0
    BY <2>3, <2>6, <2>7 DEF EventsTyped
  <2> QED
    BY <2>2, <2>4, <2>8, <2>9
<1> QED
  BY <1>1, <1>2

LEMMA SucceedKeeps ==
  ASSUME LinkInv, NEW g \in Goroutines, Succeed(g)
  PROVE  LinkInv'
<1> USE DEF LinkInv
<1>0. PICK e \in Events : e = busy[g]
  BY DEF Succeed, EventsTyped
<1>1. /\ busy' = [busy EXCEPT ![g] = None]
      /\ handled' = [handled EXCEPT ![e] = @ + 1] /\ UNCHANGED <<work, hands, seen, pushed>>
  BY <1>0 DEF Succeed, given
<1>2. /\ Cardinality(Handlers(e)') = Cardinality(Handlers(e)) - 1
      /\ Cardinality(Handlers(e)) \in Nat
      /\ \A d \in Events \ {e} : Handlers(d)' = Handlers(d)
  BY <1>0, <1>1, Through
<1>3. EventsTyped'
  BY <1>1 DEF EventsTyped
<1>4. Takings(e)' = Takings(e)
  BY <1>1, <1>2 DEF Takings, EventsTyped
<1>5. \A d \in Events : Takings(d)' = Takings(d)
  BY <1>1, <1>2, <1>4 DEF Takings, EventsTyped
<1>6. \A d \in Events : (Marked(d)' <=> Marked(d)) /\ Credit(d)' = Credit(d)
  BY <1>1 DEF Marked, Credit
<1> QED
  BY <1>1, <1>3, <1>5, <1>6 DEF EventsTyped

LEMMA RefuseKeeps ==
  ASSUME LinkInv, NEW g \in Goroutines, Refuse(g)
  PROVE  LinkInv'
<1> USE DEF LinkInv
<1>0. PICK e \in Events : e = busy[g]
  BY DEF Refuse, EventsTyped
<1>1. /\ busy' = [busy EXCEPT ![g] = None]
      /\ seen' = IF e \in work THEN Forgotten(e) ELSE seen
      /\ UNCHANGED <<work, hands, handled, pushed>>
  BY <1>0 DEF Refuse, given, ghosts
<1>2. /\ Cardinality(Handlers(e)') = Cardinality(Handlers(e)) - 1
      /\ Cardinality(Handlers(e)) \in Nat
      /\ \A d \in Events \ {e} : Handlers(d)' = Handlers(d)
  BY <1>0, <1>1, Through
<1>3. /\ seen' \in Seq(Events) /\ Distinct(seen)'
      /\ (e \in work => ~Marked(e)') /\ (e \notin work => (Marked(e)' <=> Marked(e)))
      /\ \A d \in Events \ {e} : Marked(d)' <=> Marked(d)
  <2>1. CASE e \in work
    BY <1>1, <2>1, ForgottenFacts
  <2>2. CASE e \notin work
    BY <1>1, <2>2 DEF Marked, EventsTyped
  <2> QED
    BY <2>1, <2>2
<1>4. EventsTyped'
  BY <1>1, <1>3 DEF EventsTyped
<1>5. Takings(e)' = Takings(e) - 1 /\ \A d \in Events \ {e} : Takings(d)' = Takings(d)
  BY <1>1, <1>2 DEF Takings, EventsTyped
<1>6. \A d \in Events : Takings(d) \in Nat /\ pushed[d] \in Nat
  BY TakingsFinite DEF EventsTyped
<1>7. Takings(e)' <= Credit(e)'
  BY <1>1, <1>3, <1>5, <1>6 DEF Credit
<1>8. \A d \in Events : Takings(d)' <= Credit(d)'
  BY <1>1, <1>3, <1>5, <1>6, <1>7 DEF Credit
<1>9. \A d \in work : Marked(d)' => Takings(d)' > 0
  BY <1>3, <1>5 DEF EventsTyped
<1> QED
  BY <1>1, <1>3, <1>4, <1>8, <1>9

(***************************************************************************)
(* The invariant.                                                          *)
(***************************************************************************)
LEMMA InitInv ==
  ASSUME Init
  PROVE  LinkInv
<1>1. EventsTyped /\ Distinct(seen)
  BY DEF Init, EventsTyped, Distinct
<1>2. \A e \in Events : ~Marked(e)
  BY DEF Init, Marked, Range
<1>3. \A e \in Events : Handlers(e) = {} /\ handled[e] = 0 /\ pushed[e] = 0
  BY LinkAssumption DEF Init, Handlers
<1>4. \A e \in Events : Takings(e) = 0 /\ Credit(e) = 0
  BY <1>2, <1>3, FS_EmptySet DEF Takings, Credit
<1> QED
  BY <1>1, <1>2, <1>4 DEF LinkInv, EventsTyped

LEMMA StepInv ==
  ASSUME LinkInv, [Next]_vars
  PROVE  LinkInv'
<1> USE DEF given, session, requests, events, ghosts
<1>0. hands \in [Goroutines -> SUBSET Events] /\ Posters \subseteq Goroutines
      /\ Conns \subseteq Goroutines
  BY DEF LinkInv, EventsTyped, Goroutines, Posters
<1>1. CASE Session \/ WriteFails
  BY <1>0, <1>1, QuietStep
     DEF Session, Connect, DialFails, PostReport, ReaderIsDone, WriteFails, Disconnect
<1>2. ASSUME NEW c \in Conns, Reader(c) \/ Break(c) PROVE LinkInv'
  BY <1>0, <1>2, QuietStep DEF Reader, Greet, GreetFails, ReadEnds, Break
<1>3. ASSUME NEW c \in Conns, Receive(c) PROVE LinkInv'
  <2>1. PICK e \in Events : Take(c, e)
    BY <1>3 DEF Receive
  <2> QED
    BY <1>0, <1>3, <2>1, TakeKeeps DEF Receive, Idle
<1>4. ASSUME NEW p \in Pulls, Pulling(p) PROVE LinkInv'
  BY <1>0, <1>4, QuietStep DEF Pulling, PullAgain, PullEnds
<1>5. ASSUME NEW g \in Posters, Posting(g) PROVE LinkInv'
  <2>1. CASE Rejected(g) \/ Unanswered(g)
    BY <1>0, <2>1, QuietStep DEF Rejected, Unanswered
  <2>2. CASE Answered(g)
    <3>1. PICK E \in SUBSET Events : hands' = [hands EXCEPT ![g] = E]
      BY <2>2 DEF Answered
    <3>2. hands' \in [Goroutines -> SUBSET Events]
      BY <1>0, <3>1
    <3> QED
      BY <2>2, <3>2, QuietStep DEF Answered
  <2> QED
    BY <1>5, <2>1, <2>2 DEF Posting
<1>6. ASSUME NEW g \in Goroutines, Look(g) PROVE LinkInv'
  <2>1. PICK e \in hands[g] : Take(g, e) /\ hands' = [hands EXCEPT ![g] = @ \ {e}]
    BY <1>6 DEF Look
  <2>2. e \in Events /\ hands[g] \ {e} \in SUBSET Events
    BY <1>0
  <2>3. hands' \in [Goroutines -> SUBSET Events]
    BY <1>0, <2>1, <2>2
  <2> QED
    BY <1>6, <2>1, <2>2, <2>3, TakeKeeps DEF Look
<1>7. CASE UNCHANGED vars
  BY <1>0, <1>7, QuietStep DEF vars
<1> QED
  BY <1>1, <1>2, <1>3, <1>4, <1>5, <1>6, <1>7, SucceedKeeps, RefuseKeeps DEF Next, Handle

(***************************************************************************)
(* The theorems.                                                           *)
(***************************************************************************)

\* Of all goroutines that get an event one handles it, and it takes effect once, or once
\* more for each time it is pushed off the list of seen events (websocket.go:324, 334).
THEOREM EventsTakenOnce == Spec => []TakenOnce
<1>1. LinkInv => TakenOnce
  BY DEF LinkInv, TakenOnce, Credit
<1>2. Spec => []LinkInv
  BY InitInv, StepInv, PTL DEF Spec
<1> QED
  BY <1>1, <1>2, PTL

LEMMA StepKeepsAcks ==
  ASSUME [Next]_vars
  PROVE  [\A e \in acks \ acks' : e \in told']_vars
<1> USE DEF given, session, requests, events, ghosts
<1>1. CASE Session \/ WriteFails
  BY <1>1 DEF Session, Connect, DialFails, PostReport, ReaderIsDone, WriteFails, Disconnect
<1>2. ASSUME NEW c \in Conns, Reader(c) \/ Receive(c) \/ Break(c)
      PROVE  acks \subseteq acks'
  BY <1>2 DEF Reader, Greet, GreetFails, ReadEnds, Receive, Take, Break
<1>3. ASSUME NEW p \in Pulls, Pulling(p) PROVE acks \subseteq acks'
  BY <1>3 DEF Pulling, PullAgain, PullEnds
<1>4. ASSUME NEW g \in Posters, Posting(g) PROVE \A e \in acks \ acks' : e \in told'
  BY <1>4 DEF Posting, Rejected, Answered, Unanswered, Cleared
<1>5. ASSUME NEW g \in Goroutines, Handle(g) PROVE acks \subseteq acks'
  BY <1>5 DEF Handle, Look, Take, Succeed, Refuse
<1>6. CASE UNCHANGED vars
  BY <1>6 DEF vars
<1> QED
  BY <1>1, <1>2, <1>3, <1>4, <1>5, <1>6 DEF Next

\* An answer clears from the list of acknowledgements what it carried and nothing that
\* another goroutine has added since (websocket.go:295).
THEOREM AcksAlwaysKept == Spec => AcksKept
BY StepKeepsAcks, PTL DEF Spec, AcksKept
=============================================================================
