--------------------------- MODULE McpFileProofs ---------------------------
(***************************************************************************)
(* Theorems about McpFile, for any requests, leases and limits: no file    *)
(* stays open without an owner, none but those a watcher spares outlives   *)
(* the revocation of its lease, and a read is not moved by another.        *)
(***************************************************************************)
EXTENDS McpFile, SequenceTheorems, TLAPS

(***************************************************************************)
(* The inductive invariant.                                                *)
(***************************************************************************)
InHand == {"locked", "opened", "found", "sought"}

\* A request has a session of its lease in hand, and this is in the map, or somebody is
\* about to close it, or it is closed.
SessionsAreKept ==
  \A r \in work :
    /\ stage[r] \in {"new", "checked"} => session[r] = None
    /\ stage[r] \in {"slot", "lock"} \cup InHand => session[r] # None
    /\ locker[r] => session[r] # None
    /\ session[r] # None =>
         /\ session[r].lease = r.lease
         /\ session[r] \in Range(recent) \cup closing \cup closed

\* The map has one session for a lease.
Apart(q) == \A i, j \in 1 .. Len(q) : q[i].lease = q[j].lease => i = j

OnePerLease == Apart(recent)

\* What is live is registered, and where its lease was revoked a watcher had taken its
\* cancel before the session was closed.
RevokedIsCancelled ==
  \A r \in work :
    Live(r) => Registered(r) /\ (revoked[r.lease] = "closed" => r \in spared)

\* Those in hand of a session's lock hold it; of two that do, both are chunks.
LockIsHeld ==
  /\ \A r \in work : stage[r] \in InHand => r \in holders[session[r]]
  /\ \A s \in work : \A r \in holders[s] : stage[r] \in InHand /\ session[r] = s
  /\ \A s \in work : \A q, r \in holders[s] : q = r \/ ~Conflict(q, r)

\* Files are opened, and are in the downloads of the session they were opened in.
FilesAreOfSessions ==
  /\ \A f \in open : session[f] # None
  /\ \A s \in work : \A f \in downloads[s] : session[f] = s

\* A request that has looked up a file is one to read or to close it.
HandlesAreOfSessions ==
  \A r \in work :
    /\ stage[r] \in {"found", "sought"} =>
         /\ handle[r] \in work
         /\ session[handle[r]] = session[r]
         /\ r.op # "chunk"
    /\ stage[r] = "sought" => r.op = "read" /\ place[handle[r]] = r.at

McpFileInv ==
  /\ McpFileTypeOK
  /\ SessionsAreKept
  /\ OnePerLease
  /\ RevokedIsCancelled
  /\ LockIsHeld
  /\ FilesAreOfSessions
  /\ HandlesAreOfSessions
  /\ FilesOwned
  /\ RevocationCloses
  /\ ReadIsItsOffset

(***************************************************************************)
(* Sequences of sessions.                                                  *)
(***************************************************************************)
LEMMA InRange ==
  ASSUME NEW S, NEW q \in Seq(S), NEW x
  PROVE  x \in Range(q) <=> \E i \in 1 .. Len(q) : x = q[i]
BY DEF Range

LEMMA Removal ==
  ASSUME NEW S, NEW q \in Seq(S), NEW i \in 1 .. Len(q)
  PROVE  /\ RemoveAt(q, i) \in Seq(S) /\ Len(RemoveAt(q, i)) = Len(q) - 1
         /\ \A k \in 1 .. (Len(q) - 1) :
              RemoveAt(q, i)[k] = IF k < i THEN q[k] ELSE q[k + 1]
<1> DEFINE a == SubSeq(q, 1, i - 1)
           b == SubSeq(q, i + 1, Len(q))
<1>1. a \in Seq(S) /\ Len(a) = i - 1 /\ \A k \in 1 .. (i - 1) : a[k] = q[k]
  OBVIOUS
<1>2. b \in Seq(S) /\ Len(b) = Len(q) - i /\ \A k \in 1 .. (Len(q) - i) : b[k] = q[k + i]
  OBVIOUS
<1>3. RemoveAt(q, i) = a \o b
  BY DEF RemoveAt
<1> HIDE DEF a, b
<1>4. /\ a \o b \in Seq(S) /\ Len(a \o b) = Len(q) - 1
      /\ \A k \in 1 .. (Len(q) - 1) :
           (a \o b)[k] = IF k < i THEN q[k] ELSE q[k + 1]
  <2>1. a \o b \in Seq(S) /\ Len(a \o b) = Len(q) - 1
    <3>1. a \o b \in Seq(S) /\ Len(a \o b) = Len(a) + Len(b)
      BY <1>1, <1>2, ConcatProperties
    <3> QED
      BY <3>1, <1>1, <1>2
  <2>2. ASSUME NEW k \in 1 .. (Len(q) - 1)
        PROVE  (a \o b)[k] = IF k < i THEN q[k] ELSE q[k + 1]
    <3>1. (a \o b)[k] = IF k <= Len(a) THEN a[k] ELSE b[k - Len(a)]
      BY <1>1, <1>2
    <3>2. CASE k < i
      BY <3>1, <3>2, <1>1
    <3>3. CASE ~(k < i)
      <4>1. k - Len(a) \in 1 .. (Len(q) - i) /\ k - Len(a) + i = k + 1
        BY <3>3, <1>1
      <4>2. b[k - Len(a)] = q[k + 1]
        BY <4>1, <1>2
      <4> QED
        BY <3>1, <3>3, <4>2, <1>1
    <3> QED
      BY <3>2, <3>3
  <2> QED
    BY <2>1, <2>2
<1> QED
  BY <1>3, <1>4

\* The map without one of its sessions.
LEMMA WithoutOne ==
  ASSUME NEW S, recent \in Seq(S), NEW s \in Range(recent)
  PROVE  /\ Without(s) \in Seq(S) /\ Range(recent) = Range(Without(s)) \cup {s}
         /\ Apart(recent) => /\ Apart(Without(s))
                             /\ \A x \in Range(Without(s)) : x.lease # s.lease
<1> DEFINE i == CHOOSE i \in DOMAIN recent : recent[i] = s
           t == RemoveAt(recent, i)
<1>1. i \in 1 .. Len(recent) /\ recent[i] = s
  BY DEF Range
<1>2. t = Without(s)
  BY DEF Without
<1> HIDE DEF i
<1>3. /\ t \in Seq(S) /\ Len(t) = Len(recent) - 1
      /\ \A k \in 1 .. (Len(recent) - 1) :
           t[k] = IF k < i THEN recent[k] ELSE recent[k + 1]
  BY <1>1, Removal
<1> HIDE DEF t
<1>4. ASSUME NEW x \in Range(recent), x # s PROVE x \in Range(t)
  <2>1. PICK k \in 1 .. Len(recent) : x = recent[k]
    BY <1>4, InRange
  <2>2. CASE k < i
    <3>1. k \in 1 .. Len(t) /\ t[k] = x
      BY <2>1, <2>2, <1>1, <1>3
    <3> QED BY <3>1, <1>3, InRange
  <2>3. CASE k > i
    <3>1. k - 1 \in 1 .. Len(t) /\ t[k - 1] = x
      BY <2>1, <2>3, <1>1, <1>3
    <3> QED BY <3>1, <1>3, InRange
  <2> QED
    BY <2>1, <2>2, <2>3, <1>1, <1>4
<1>5. ASSUME NEW x \in Range(t)
      PROVE \E k \in 1 .. Len(recent) : k # i /\ x = recent[k]
  <2>1. PICK k \in 1 .. Len(t) : x = t[k]
    BY <1>3, <1>5, InRange
  <2>2. x = recent[IF k < i THEN k ELSE k + 1]
    BY <2>1, <1>3
  <2> QED
    BY <2>1, <2>2, <1>3, <1>1
<1>6. Range(recent) = Range(t) \cup {s}
  BY <1>4, <1>5, InRange
<1>7. ASSUME Apart(recent) PROVE Apart(t) /\ \A x \in Range(t) : x.lease # s.lease
  <2>1. \A x \in Range(t) : x.lease # s.lease
    BY <1>1, <1>5, <1>7 DEF Apart
  <2>2. Apart(t)
    BY <1>1, <1>3, <1>7 DEF Apart
  <2> QED
    BY <2>1, <2>2
<1> QED
  BY <1>2, <1>3, <1>6, <1>7

\* A session that is not in the map comes last.
LEMMA AddLast ==
  ASSUME NEW S, NEW q \in Seq(S), NEW s \in S
  PROVE  /\ Append(q, s) \in Seq(S) /\ Range(Append(q, s)) = Range(q) \cup {s}
         /\ Apart(q) /\ (\A x \in Range(q) : x.lease # s.lease) => Apart(Append(q, s))
<1> DEFINE t == Append(q, s)
<1>1. /\ t \in Seq(S) /\ Len(t) = Len(q) + 1
      /\ \A k \in 1 .. (Len(q) + 1) : t[k] = IF k <= Len(q) THEN q[k] ELSE s
  OBVIOUS
<1> HIDE DEF t
<1>2. Range(t) = Range(q) \cup {s}
  <2>1. ASSUME NEW x \in Range(q) PROVE x \in Range(t)
    <3>1. PICK k \in 1 .. Len(q) : x = q[k]
      BY <2>1, InRange
    <3>2. k \in 1 .. Len(t) /\ t[k] = x
      BY <1>1, <3>1
    <3> QED
      BY <1>1, <3>2, InRange
  <2>2. ASSUME NEW x \in Range(t) PROVE x \in Range(q) \cup {s}
    <3>1. PICK k \in 1 .. Len(t) : x = t[k]
      BY <1>1, <2>2, InRange
    <3>2. x = s \/ (k \in 1 .. Len(q) /\ x = q[k])
      BY <1>1, <3>1
    <3> QED
      BY <3>2, InRange
  <2>3. s \in Range(t)
    <3>1. Len(q) + 1 \in 1 .. Len(t) /\ t[Len(q) + 1] = s
      BY <1>1
    <3> QED BY <3>1, <1>1, InRange
  <2> QED
    BY <2>1, <2>2, <2>3
<1>3. ASSUME Apart(q), \A x \in Range(q) : x.lease # s.lease PROVE Apart(t)
  <2>1. \A k \in 1 .. Len(q) : q[k].lease # s.lease
    BY <1>3, InRange
  <2> QED
    BY <1>1, <1>3, <2>1 DEF Apart
<1> QED
  BY <1>1, <1>2, <1>3 DEF t

\* Using a session moves it only.
LEMMA TouchedKeeps ==
  ASSUME recent \in Seq(work), Apart(recent), NEW s
  PROVE  Touched(s) \in Seq(work) /\ Range(Touched(s)) = Range(recent) /\ Apart(Touched(s))
<1>1. CASE s \in Range(recent)
  <2>1. /\ Without(s) \in Seq(work) /\ Range(recent) = Range(Without(s)) \cup {s}
        /\ Apart(Without(s)) /\ \A x \in Range(Without(s)) : x.lease # s.lease
    BY <1>1, WithoutOne
  <2>2. s \in work
    BY <1>1, InRange
  <2> QED
    BY <1>1, <2>1, <2>2, AddLast DEF Touched
<1>2. CASE s \notin Range(recent)
  BY <1>2 DEF Touched
<1> QED
  BY <1>1, <1>2

\* What is left after the first n are taken away.
LEMMA Suffix ==
  ASSUME NEW S, NEW q \in Seq(S), NEW n \in 1 .. Len(q)
  PROVE  LET t == SubSeq(q, n + 1, Len(q)) IN
         /\ t \in Seq(S) /\ Range(q) = Range(t) \cup {q[i] : i \in 1 .. n}
         /\ Apart(q) => Apart(t)
<1> DEFINE t == SubSeq(q, n + 1, Len(q))
<1>1. t \in Seq(S) /\ Len(t) = Len(q) - n /\ \A k \in 1 .. (Len(q) - n) : t[k] = q[k + n]
  OBVIOUS
<1> HIDE DEF t
<1>2. ASSUME NEW x \in Range(q), x \notin {q[i] : i \in 1 .. n} PROVE x \in Range(t)
  <2>1. PICK k \in 1 .. Len(q) : x = q[k]
    BY <1>2, InRange
  <2>2. k - n \in 1 .. Len(t) /\ t[k - n] = x
    BY <1>1, <1>2, <2>1
  <2> QED
    BY <2>2, <1>1, InRange
<1>3. ASSUME NEW x \in Range(t) PROVE x \in Range(q)
  <2>1. PICK k \in 1 .. Len(t) : x = t[k]
    BY <1>1, <1>3, InRange
  <2>2. k + n \in 1 .. Len(q) /\ q[k + n] = x
    BY <1>1, <2>1
  <2> QED
    BY <2>2, InRange
<1>4. \A i \in 1 .. n : q[i] \in Range(q)
  BY InRange
<1>5. Apart(q) => Apart(t)
  <2> SUFFICES ASSUME Apart(q), NEW j \in 1 .. Len(t), NEW k \in 1 .. Len(t), t[j].lease = t[k].lease
               PROVE  j = k
    BY DEF Apart
  <2>1. j + n \in 1 .. Len(q) /\ k + n \in 1 .. Len(q) /\ t[j] = q[j + n] /\ t[k] = q[k + n]
    BY <1>1
  <2>2. j + n = k + n
    BY <2>1 DEF Apart
  <2> QED
    BY <2>2, <1>1
<1> QED
  BY <1>1, <1>2, <1>3, <1>4, <1>5 DEF t

LEMMA WithoutFirst ==
  ASSUME NEW S, NEW q \in Seq(S), q # << >>
  PROVE  /\ Tail(q) \in Seq(S) /\ Head(q) \in S /\ Range(q) = Range(Tail(q)) \cup {Head(q)}
         /\ Apart(q) => Apart(Tail(q))
<1>1. 1 \in 1 .. Len(q) /\ Head(q) = q[1] /\ Head(q) \in S
  OBVIOUS
<1> DEFINE t == SubSeq(q, 1 + 1, Len(q))
<1>2. /\ t \in Seq(S) /\ Range(q) = Range(t) \cup {q[i] : i \in 1 .. 1}
      /\ Apart(q) => Apart(t)
  BY <1>1, Suffix
<1>3. Tail(q) = t
  BY TailIsSubSeq
<1>4. {q[i] : i \in 1 .. 1} = {Head(q)}
  BY <1>1
<1> QED
  BY <1>1, <1>2, <1>3, <1>4

(***************************************************************************)
(* Each action keeps the invariant.                                        *)
(***************************************************************************)
LEMMA RequestsAreTyped ==
  ASSUME McpFileTypeOK
  PROVE  work \subseteq Request /\ None \notin work
BY McpFileAssumption DEF McpFileTypeOK

LEMMA MapIsOfRequests ==
  ASSUME McpFileTypeOK
  PROVE  Range(recent) \subseteq work
<1>1. recent \in Seq(work)
  BY DEF McpFileTypeOK
<1>2. ASSUME NEW x \in Range(recent) PROVE x \in work
  <2>1. PICK i \in 1 .. Len(recent) : x = recent[i]
    BY <1>1, <1>2, InRange
  <2> QED
    BY <1>1, <2>1
<1> QED
  BY <1>2

\* The sessions in the map are moved there, or handed to who closes them.
Flows ==
  /\ recent' \in Seq(work) /\ Apart(recent')
  /\ closing' \subseteq work /\ closing \subseteq closing' /\ closed' = closed
  /\ Range(recent) \cup closing \subseteq Range(recent') \cup closing'

LEMMA SameLease ==
  ASSUME McpFileInv, NEW x \in Range(recent), NEW y \in Range(recent), x.lease = y.lease
  PROVE  x = y
<1>1. PICK i, j \in 1 .. Len(recent) : x = recent[i] /\ y = recent[j]
  BY InRange DEF McpFileInv, McpFileTypeOK
<1> QED
  BY <1>1 DEF McpFileInv, OnePerLease, Apart

\* Who has a session's lock and is not a chunk is alone in it.
LEMMA Alone ==
  ASSUME McpFileInv, NEW q \in work, NEW r \in work,
         stage[q] \in InHand, stage[r] \in InHand, session[q] = session[r], r.op # "chunk"
  PROVE  q = r
<1>1. session[r] \in work
  BY DEF McpFileInv, McpFileTypeOK, SessionsAreKept, InHand
<1> QED
  BY <1>1 DEF McpFileInv, LockIsHeld, Conflict

\* The session of a request under its lock, which it holds.
LEMMA HasSession ==
  ASSUME McpFileInv, NEW r \in work, stage[r] \in {"slot", "lock"} \cup InHand \/ locker[r]
  PROVE  session[r] \in work
BY DEF McpFileInv, McpFileTypeOK, SessionsAreKept

LEMMA ReturnKeepsLock ==
  ASSUME McpFileInv, NEW r \in work, stage[r] \in InHand, Return(r), UNCHANGED <<work, session>>
  PROVE  LockIsHeld'
<1> USE DEF McpFileInv, McpFileTypeOK
<1>1. session[r] \in work
  BY HasSession
<1>2. /\ holders' = [holders EXCEPT ![session[r]] = @ \ {r}]
      /\ stage'[r] = "ended" /\ \A q \in work \ {r} : stage'[q] = stage[q]
  BY DEF Return
<1>3. \A s \in work : holders'[s] = holders[s] \ {r}
  BY <1>1, <1>2 DEF LockIsHeld
<1>4. stage'[r] \notin InHand
  BY <1>2 DEF InHand
<1> QED
  BY <1>1, <1>2, <1>3, <1>4 DEF LockIsHeld, Conflict

LEMMA GoOnKeepsLock ==
  ASSUME McpFileInv, NEW r \in work, NEW to \in InHand, stage[r] \in InHand, GoOn(r, to),
         UNCHANGED <<work, session>>
  PROVE  LockIsHeld'
BY DEF McpFileInv, McpFileTypeOK, GoOn, LockIsHeld, Conflict

LEMMA ReturnIsTyped ==
  ASSUME McpFileInv, NEW r \in work, session[r] \in work, Return(r), UNCHANGED <<work, session>>
  PROVE  /\ stage' \in [work -> Stages] /\ ctx' \in [work -> {"none", "live", "taken", "done"}]
         /\ holders' \in [work -> SUBSET work]
<1>1. stage' \in [work -> Stages] /\ ctx' \in [work -> {"none", "live", "taken", "done"}]
  BY DEF McpFileInv, McpFileTypeOK, Return, Stages
<1>2. holders' \in [work -> SUBSET work]
  <2>1. holders[session[r]] \ {r} \in SUBSET work
    BY DEF McpFileInv, McpFileTypeOK
  <2> QED
    BY <2>1 DEF McpFileInv, McpFileTypeOK, Return
<1> QED
  BY <1>1, <1>2

\* Files keep their owners when these go on with them.
LEMMA OwnersStay ==
  ASSUME McpFileInv, Flows, work' = work, open' \subseteq open, downloads' = downloads,
         \A f \in open : session'[f] = session[f],
         \A q \in work :
           /\ stage[q] = "opened" => stage'[q] = "opened"
           /\ stage[q] = "found" /\ q.op = "close" => stage'[q] = "found" /\ handle'[q] = handle[q]
  PROVE  FilesOwned'
<1> SUFFICES ASSUME NEW f \in open'
             PROVE  \/ f \in downloads'[session'[f]] /\ session'[f] \in Range(recent') \cup closing'
                    \/ stage'[f] = "opened"
                    \/ \E r \in work : r.op = "close" /\ stage'[r] = "found" /\ handle'[r] = f
  BY DEF FilesOwned
<1>1. f \in work /\ f \in open
  BY DEF McpFileInv, McpFileTypeOK
<1>2. CASE f \in downloads[session[f]] /\ session[f] \in Range(recent) \cup closing
  BY <1>1, <1>2 DEF Flows
<1>3. CASE stage[f] = "opened"
  BY <1>1, <1>3
<1>4. CASE \E r \in work : r.op = "close" /\ stage[r] = "found" /\ handle[r] = f
  BY <1>4
<1> QED
  BY <1>1, <1>2, <1>3, <1>4 DEF McpFileInv, FilesOwned

LEMMA RegisterKeeps ==
  ASSUME McpFileInv, NEW r \in work, Register(r)
  PROVE  McpFileInv'
<1> USE RequestsAreTyped DEF McpFileInv, McpFileTypeOK, revocation
<1>a. /\ stage[r] = "new" /\ stage[r] \notin InHand /\ stage'[r] \notin InHand
      /\ \A q \in work \ {r} : stage'[q] = stage[q]
      /\ UNCHANGED <<work, session, holders, open, downloads, handle, sessions, closed>>
  BY DEF Register, InHand, lock, files
<1>b. Flows
  BY <1>a DEF Flows, sessions, OnePerLease
<1>1. McpFileTypeOK'
  <2>1. \E x \in {"checked", "ended"}, y \in {"live", "done"} :
          stage' = [stage EXCEPT ![r] = x] /\ ctx' = [ctx EXCEPT ![r] = y]
    BY DEF Register
  <2>2. stage' \in [work -> Stages] /\ ctx' \in [work -> {"none", "live", "taken", "done"}]
    BY <2>1 DEF Stages
  <2> QED
    BY <2>2 DEF Register, lock, sessions, files, reads
<1>2. SessionsAreKept'
  BY DEF SessionsAreKept, InHand, Register, lock, sessions, files, reads
<1>3. OnePerLease'
  BY DEF OnePerLease, Register, lock, sessions, files, reads
<1>4. RevokedIsCancelled'
  BY DEF RevokedIsCancelled, Registered, Live, Register, lock, sessions, files, reads
<1>5. LockIsHeld'
  BY <1>a DEF LockIsHeld, Conflict
<1>6. FilesAreOfSessions'
  BY DEF FilesAreOfSessions, Register, lock, sessions, files, reads
<1>7. HandlesAreOfSessions'
  BY DEF HandlesAreOfSessions, Register, lock, sessions, files, reads
<1>8. FilesOwned'
  BY <1>a, <1>b, OwnersStay
<1>9. RevocationCloses'
  BY DEF RevocationCloses, Register, lock, sessions, files, reads
<1>10. ReadIsItsOffset'
  BY DEF ReadIsItsOffset, Register, lock, sessions, files, reads
<1> QED
  BY <1>1, <1>2, <1>3, <1>4, <1>5, <1>6, <1>7, <1>8, <1>9, <1>10

LEMMA ContextEndsKeeps ==
  ASSUME McpFileInv, NEW r \in work, ContextEnds(r)
  PROVE  McpFileInv'
<1> USE RequestsAreTyped DEF McpFileInv, McpFileTypeOK, revocation
<1>1. McpFileTypeOK'
  BY DEF Stages, ContextEnds, lock, sessions, files, reads
<1>2. SessionsAreKept'
  BY DEF SessionsAreKept, InHand, ContextEnds, lock, sessions, files, reads
<1>3. OnePerLease'
  BY DEF OnePerLease, ContextEnds, lock, sessions, files, reads
<1>4. RevokedIsCancelled'
  BY DEF RevokedIsCancelled, Registered, Live, ContextEnds, lock, sessions, files, reads
<1>5. LockIsHeld'
  BY DEF LockIsHeld, InHand, Conflict, ContextEnds, lock, sessions, files, reads
<1>6. FilesAreOfSessions'
  BY DEF FilesAreOfSessions, ContextEnds, lock, sessions, files, reads
<1>7. HandlesAreOfSessions'
  BY DEF HandlesAreOfSessions, ContextEnds, lock, sessions, files, reads
<1>8. FilesOwned'
  BY DEF FilesOwned, ContextEnds, lock, sessions, files, reads
<1>9. RevocationCloses'
  BY DEF RevocationCloses, ContextEnds, lock, sessions, files, reads
<1>10. ReadIsItsOffset'
  BY DEF ReadIsItsOffset, ContextEnds, lock, sessions, files, reads
<1> QED
  BY <1>1, <1>2, <1>3, <1>4, <1>5, <1>6, <1>7, <1>8, <1>9, <1>10

LEMMA RevokeKeeps ==
  ASSUME McpFileInv, NEW l \in Leases, Revoke(l)
  PROVE  McpFileInv'
<1> USE RequestsAreTyped DEF McpFileInv, McpFileTypeOK, revocation
<1>1. McpFileTypeOK'
  BY DEF Stages, Revoke, request, lock, sessions, files, reads
<1>2. SessionsAreKept'
  BY DEF SessionsAreKept, InHand, Revoke, request, lock, sessions, files, reads
<1>3. OnePerLease'
  BY DEF OnePerLease, Revoke, request, lock, sessions, files, reads
<1>4. RevokedIsCancelled'
  BY DEF RevokedIsCancelled, Registered, Live, Revoke, request, lock, sessions, files, reads
<1>5. LockIsHeld'
  BY DEF LockIsHeld, InHand, Conflict, Revoke, request, lock, sessions, files, reads
<1>6. FilesAreOfSessions'
  BY DEF FilesAreOfSessions, Revoke, request, lock, sessions, files, reads
<1>7. HandlesAreOfSessions'
  BY DEF HandlesAreOfSessions, Revoke, request, lock, sessions, files, reads
<1>8. FilesOwned'
  BY DEF FilesOwned, Revoke, request, lock, sessions, files, reads
<1>9. RevocationCloses'
  BY DEF RevocationCloses, Revoke, request, lock, sessions, files, reads
<1>10. ReadIsItsOffset'
  BY DEF ReadIsItsOffset, Revoke, request, lock, sessions, files, reads
<1> QED
  BY <1>1, <1>2, <1>3, <1>4, <1>5, <1>6, <1>7, <1>8, <1>9, <1>10

LEMMA ExpireKeeps ==
  ASSUME McpFileInv, NEW l \in Leases, Expire(l)
  PROVE  McpFileInv'
<1> USE RequestsAreTyped DEF McpFileInv, McpFileTypeOK, revocation
<1>1. McpFileTypeOK'
  BY DEF Stages, Expire, request, lock, sessions, files, reads
<1>2. SessionsAreKept'
  BY DEF SessionsAreKept, InHand, Expire, request, lock, sessions, files, reads
<1>3. OnePerLease'
  BY DEF OnePerLease, Expire, request, lock, sessions, files, reads
<1>4. RevokedIsCancelled'
  BY DEF RevokedIsCancelled, Registered, Live, Expire, request, lock, sessions, files, reads
<1>5. LockIsHeld'
  BY DEF LockIsHeld, InHand, Conflict, Expire, request, lock, sessions, files, reads
<1>6. FilesAreOfSessions'
  BY DEF FilesAreOfSessions, Expire, request, lock, sessions, files, reads
<1>7. HandlesAreOfSessions'
  BY DEF HandlesAreOfSessions, Expire, request, lock, sessions, files, reads
<1>8. FilesOwned'
  BY DEF FilesOwned, Expire, request, lock, sessions, files, reads
<1>9. RevocationCloses'
  BY DEF RevocationCloses, Expire, request, lock, sessions, files, reads
<1>10. ReadIsItsOffset'
  BY DEF ReadIsItsOffset, Expire, request, lock, sessions, files, reads
<1> QED
  BY <1>1, <1>2, <1>3, <1>4, <1>5, <1>6, <1>7, <1>8, <1>9, <1>10

LEMMA WatcherExpiresKeeps ==
  ASSUME McpFileInv, NEW l \in Leases, WatcherExpires(l)
  PROVE  McpFileInv'
<1> USE RequestsAreTyped DEF McpFileInv, McpFileTypeOK, revocation
<1>a. /\ UNCHANGED <<work, stage, session, locker, lock, sessions, closed, files, reads, revocation>>
      /\ ctx' = [q \in work |-> IF q \in HoldOf(l) THEN "taken" ELSE ctx[q]]
  BY DEF WatcherExpires
<1>1. McpFileTypeOK'
  BY <1>a DEF Stages, lock, sessions, files, reads
<1>2. SessionsAreKept'
  BY <1>a DEF SessionsAreKept, InHand, sessions
<1>3. OnePerLease'
  BY <1>a DEF OnePerLease, sessions
<1>4. RevokedIsCancelled'
  <2>1. \A q \in work : ctx'[q] \in {"live", "taken"} <=> ctx[q] \in {"live", "taken"}
    BY <1>a DEF HoldOf
  <2> QED
    BY <1>a, <2>1 DEF RevokedIsCancelled, Registered, Live
<1>5. LockIsHeld'
  BY <1>a DEF LockIsHeld, InHand, Conflict, lock
<1>6. FilesAreOfSessions'
  BY <1>a DEF FilesAreOfSessions, files
<1>7. HandlesAreOfSessions'
  BY <1>a DEF HandlesAreOfSessions, files, reads
<1>8. FilesOwned'
  BY <1>a DEF FilesOwned, files, sessions
<1>9. RevocationCloses'
  BY <1>a DEF RevocationCloses, files, sessions
<1>10. ReadIsItsOffset'
  BY <1>a DEF ReadIsItsOffset, reads
<1> QED
  BY <1>1, <1>2, <1>3, <1>4, <1>5, <1>6, <1>7, <1>8, <1>9, <1>10

LEMMA CloseSessionKeeps ==
  ASSUME McpFileInv, NEW l \in Leases, CloseMCPFileSession(l)
  PROVE  McpFileInv'
<1> USE RequestsAreTyped DEF McpFileInv, McpFileTypeOK, revocation
<1>a. /\ UNCHANGED <<request, lock, closed, files, reads>>
      /\ revoked' = [revoked EXCEPT ![l] = "closed"] /\ revoked[l] = "expired"
      /\ spared' = spared \cup {q \in work : q.lease = l /\ ctx[q] = "taken"}
      /\ \A q \in work : q.lease = l => ctx[q] # "live"
  BY DEF CloseMCPFileSession, HoldOf
<1>b. Flows /\ InMap(l) \subseteq closing'
  <2>1. CASE InMap(l) = {} /\ UNCHANGED sessions
    BY <1>a, <2>1 DEF Flows, sessions, OnePerLease
  <2>2. ASSUME NEW s \in InMap(l), recent' = Without(s), closing' = closing \cup {s}
        PROVE  Flows /\ InMap(l) \subseteq closing'
    <3>1. s \in Range(recent) /\ s \in work /\ InMap(l) = {s}
      BY SameLease, MapIsOfRequests DEF InMap
    <3>2. /\ Without(s) \in Seq(work) /\ Range(recent) = Range(Without(s)) \cup {s}
          /\ Apart(Without(s))
      BY <3>1, WithoutOne DEF OnePerLease
    <3> QED
      BY <1>a, <2>2, <3>1, <3>2 DEF Flows
  <2> QED
    BY <2>1, <2>2 DEF CloseMCPFileSession
<1>c. ASSUME NEW f \in open, f.lease = l PROVE session[f] \in closing' \cup closed'
  <2>1. /\ f \in work /\ session[f].lease = l
        /\ session[f] \in Range(recent) \cup closing \cup closed
    BY <1>c DEF FilesAreOfSessions, SessionsAreKept
  <2> QED
    BY <2>1, <1>b DEF InMap, Flows
<1>1. McpFileTypeOK'
  BY <1>a, <1>b DEF Flows, request, lock, files, reads
<1>2. SessionsAreKept'
  BY <1>a, <1>b DEF SessionsAreKept, Flows, request, InHand
<1>3. OnePerLease'
  BY <1>b DEF OnePerLease, Flows
<1>4. RevokedIsCancelled'
  <2>1. \A q \in work : Live(q) => q.lease # l \/ q \in spared'
    BY <1>a DEF Live
  <2> QED
    BY <1>a, <2>1 DEF RevokedIsCancelled, Registered, Live, request, Request
<1>5. LockIsHeld'
  BY DEF LockIsHeld, InHand, Conflict, CloseMCPFileSession, InMap, request, lock, sessions, files, reads
<1>6. FilesAreOfSessions'
  BY DEF FilesAreOfSessions, CloseMCPFileSession, InMap, request, lock, sessions, files, reads
<1>7. HandlesAreOfSessions'
  BY DEF HandlesAreOfSessions, CloseMCPFileSession, InMap, request, lock, sessions, files, reads
<1>8. FilesOwned'
  BY <1>a, <1>b, OwnersStay DEF request, files
<1>9. RevocationCloses'
  BY <1>a, <1>b, <1>c DEF RevocationCloses, Flows, request, files, Request
<1>10. ReadIsItsOffset'
  BY DEF ReadIsItsOffset, CloseMCPFileSession, InMap, request, lock, sessions, files, reads
<1> QED
  BY <1>1, <1>2, <1>3, <1>4, <1>5, <1>6, <1>7, <1>8, <1>9, <1>10

LEMMA GetSessionKeeps ==
  ASSUME McpFileInv, NEW r \in work, GetSession(r)
  PROVE  McpFileInv'
<1> USE RequestsAreTyped DEF McpFileInv, McpFileTypeOK, revocation
<1>a. /\ stage[r] = "checked" /\ session[r] = None /\ stage'[r] \in {"slot", "lock"}
      /\ stage[r] \notin InHand /\ stage'[r] \notin InHand
      /\ UNCHANGED <<work, ctx, holders, slots, closed, downloads, open, handle, place, got, revocation>>
      /\ \A q \in work \ {r} :
           stage'[q] = stage[q] /\ session'[q] = session[q] /\ locker'[q] = locker[q]
      /\ stage' \in [work -> Stages] /\ locker' \in [work -> BOOLEAN]
  <2>1. stage[r] = "checked" /\ session[r] = None
    BY DEF GetSession, SessionsAreKept
  <2>2. \E x \in {"slot", "lock"} :
          /\ stage' = [stage EXCEPT ![r] = x]
          /\ locker' = IF x = "lock" THEN [locker EXCEPT ![r] = TRUE] ELSE locker
    BY DEF GetSession
  <2>3. /\ stage' \in [work -> Stages] /\ stage'[r] \in {"slot", "lock"}
        /\ \A q \in work \ {r} : stage'[q] = stage[q]
    BY <2>2 DEF Stages
  <2>4. locker' \in [work -> BOOLEAN] /\ \A q \in work \ {r} : locker'[q] = locker[q]
    BY <2>2
  <2>5. \A q \in work \ {r} : session'[q] = session[q]
    BY DEF GetSession
  <2> QED
    BY <2>1, <2>3, <2>4, <2>5 DEF GetSession, lock, files, reads, InHand
<1> DEFINE Found == /\ Flows /\ session' \in [work -> work \cup {None}] /\ session'[r] \in work
                    /\ session'[r].lease = r.lease /\ session'[r] \in Range(recent')
<1>b. Found
  <2>1. ASSUME NEW s \in InMap(r.lease), session' = [session EXCEPT ![r] = s],
               recent' = Touched(s), UNCHANGED closing
        PROVE  Found
    <3>1. s \in Range(recent) /\ s.lease = r.lease /\ s \in work
      BY MapIsOfRequests DEF InMap
    <3> QED
      BY <1>a, <2>1, <3>1, TouchedKeeps DEF OnePerLease, Flows
  <2>2. ASSUME InMap(r.lease) = {}, session' = [session EXCEPT ![r] = r],
               recent' = Append(recent, r), UNCHANGED closing
        PROVE  Found
    <3>1. \A x \in Range(recent) : x.lease # r.lease
      BY <2>2 DEF InMap
    <3> QED
      BY <1>a, <2>2, <3>1, AddLast DEF OnePerLease, Flows
  <2>3. ASSUME InMap(r.lease) = {}, session' = [session EXCEPT ![r] = r], ~(Len(recent) < MaxSessions),
               recent' = Append(Tail(recent), r), closing' = closing \cup {Head(recent)}
        PROVE  Found
    <3>1. recent # << >>
      BY <2>3, McpFileAssumption
    <3>2. /\ Tail(recent) \in Seq(work) /\ Apart(Tail(recent)) /\ Head(recent) \in work
          /\ Range(recent) = Range(Tail(recent)) \cup {Head(recent)}
      BY <3>1, WithoutFirst DEF OnePerLease
    <3>3. \A x \in Range(Tail(recent)) : x.lease # r.lease
      BY <2>3, <3>2 DEF InMap
    <3> DEFINE t == Tail(recent)
    <3> HIDE DEF t
    <3>5. t \in Seq(work) /\ Apart(t) /\ \A x \in Range(t) : x.lease # r.lease
      BY <3>2, <3>3 DEF t
    <3>4. /\ Append(t, r) \in Seq(work) /\ Apart(Append(t, r))
          /\ Range(Append(t, r)) = Range(t) \cup {r}
      BY <3>5, AddLast
    <3> QED
      BY <1>a, <2>3, <3>2, <3>4 DEF Flows, t
  <2> QED
    BY <2>1, <2>2, <2>3 DEF GetSession
<1>c. r \notin open
  BY <1>a DEF FilesAreOfSessions
<1>1. McpFileTypeOK'
  BY <1>a, <1>b DEF Flows
<1>2. SessionsAreKept'
  <2>1. /\ locker'[r] => session'[r] # None
        /\ session'[r].lease = r.lease /\ session'[r] \in Range(recent')
        /\ session'[r] # None /\ stage'[r] \notin {"new", "checked"}
    BY <1>a, <1>b
  <2>2. ASSUME NEW q \in work, q # r, session[q] \in Range(recent) \cup closing \cup closed
        PROVE  session'[q] \in Range(recent') \cup closing' \cup closed'
    BY <1>a, <1>b, <2>2 DEF Flows
  <2>3. ASSUME NEW q \in work, q # r
        PROVE  /\ stage'[q] \in {"new", "checked"} => session'[q] = None
               /\ stage'[q] \in {"slot", "lock"} \cup InHand => session'[q] # None
               /\ locker'[q] => session'[q] # None
               /\ session'[q] # None =>
                    /\ session'[q].lease = q.lease
                    /\ session'[q] \in Range(recent') \cup closing' \cup closed'
    <3>1. stage'[q] = stage[q] /\ session'[q] = session[q] /\ locker'[q] = locker[q]
      BY <1>a, <2>3
    <3> QED
      BY <2>2, <2>3, <3>1 DEF SessionsAreKept
  <2>4. stage'[r] \in {"slot", "lock"} /\ work' = work
    BY <1>a
  <2> QED
    BY <2>1, <2>3, <2>4 DEF SessionsAreKept
<1>3. OnePerLease'
  BY <1>b DEF OnePerLease, Flows
<1>4. RevokedIsCancelled'
  BY DEF RevokedIsCancelled, Registered, Live, GetSession, InMap, lock, files, reads
<1>5. LockIsHeld'
  <2>1. \A s \in work : r \notin holders[s]
    BY <1>a DEF LockIsHeld
  <2>2. \A q \in work : stage'[q] \in InHand =>
          q # r /\ stage[q] \in InHand /\ session'[q] = session[q]
    BY <1>a
  <2>3. \A q \in work : stage'[q] \in InHand => q \in holders[session'[q]]
    BY <2>2 DEF LockIsHeld
  <2>4. \A s \in work : \A q \in holders[s] : stage'[q] \in InHand /\ session'[q] = s
    BY <1>a, <2>1 DEF LockIsHeld
  <2> QED
    BY <1>a, <2>3, <2>4 DEF LockIsHeld, Conflict
<1>6. FilesAreOfSessions'
  BY <1>a, <1>b, <1>c DEF FilesAreOfSessions
<1>7. HandlesAreOfSessions'
  <2>1. \A q \in work : stage'[q] \in {"found", "sought"} =>
          q # r /\ stage[q] = stage'[q] /\ session[q] # None
    BY <1>a DEF SessionsAreKept, InHand
  <2>2. \A q \in work : stage[q] \in {"found", "sought"} /\ q # r => handle[q] # r
    BY <1>a, <2>1 DEF HandlesAreOfSessions
  <2> QED
    BY <1>a, <2>1, <2>2 DEF HandlesAreOfSessions
<1>8. FilesOwned'
  BY <1>a, <1>b, <1>c, OwnersStay
<1>9. RevocationCloses'
  BY <1>a, <1>b, <1>c DEF RevocationCloses, Flows
<1>10. ReadIsItsOffset'
  BY DEF ReadIsItsOffset, GetSession, InMap, lock, files, reads
<1> QED
  BY <1>1, <1>2, <1>3, <1>4, <1>5, <1>6, <1>7, <1>8, <1>9, <1>10

LEMMA PruneKeeps ==
  ASSUME McpFileInv, Prune
  PROVE  McpFileInv'
<1> USE RequestsAreTyped DEF McpFileInv, McpFileTypeOK, revocation
<1>a. UNCHANGED <<request, lock, closed, files, reads, revocation>>
  BY DEF Prune
<1>b. Flows
  <2>1. PICK n \in 1 .. Len(recent) :
          /\ recent' = SubSeq(recent, n + 1, Len(recent))
          /\ closing' = closing \cup {recent[i] : i \in 1 .. n}
    BY DEF Prune
  <2>2. /\ recent' \in Seq(work) /\ Range(recent) = Range(recent') \cup {recent[i] : i \in 1 .. n}
        /\ Apart(recent')
    BY <2>1, Suffix DEF OnePerLease
  <2>3. \A i \in 1 .. n : recent[i] \in work
    OBVIOUS
  <2> QED
    BY <1>a, <2>1, <2>2, <2>3 DEF Flows
<1>1. McpFileTypeOK'
  BY <1>a, <1>b DEF Flows, request, lock, files, reads
<1>2. SessionsAreKept'
  BY <1>a, <1>b DEF SessionsAreKept, Flows, request, InHand
<1>3. OnePerLease'
  BY <1>b DEF OnePerLease, Flows
<1>4. RevokedIsCancelled'
  BY DEF RevokedIsCancelled, Registered, Live, Prune, request, lock, sessions, files, reads
<1>5. LockIsHeld'
  BY DEF LockIsHeld, InHand, Conflict, Prune, request, lock, sessions, files, reads
<1>6. FilesAreOfSessions'
  BY DEF FilesAreOfSessions, Prune, request, lock, sessions, files, reads
<1>7. HandlesAreOfSessions'
  BY DEF HandlesAreOfSessions, Prune, request, lock, sessions, files, reads
<1>8. FilesOwned'
  BY <1>a, <1>b, OwnersStay DEF request, files
<1>9. RevocationCloses'
  BY <1>a, <1>b DEF RevocationCloses, Flows, request, files
<1>10. ReadIsItsOffset'
  BY DEF ReadIsItsOffset, Prune, request, lock, sessions, files, reads
<1> QED
  BY <1>1, <1>2, <1>3, <1>4, <1>5, <1>6, <1>7, <1>8, <1>9, <1>10

LEMMA CloseKeeps ==
  ASSUME McpFileInv, NEW s \in work, Close(s)
  PROVE  McpFileInv'
<1> USE RequestsAreTyped DEF McpFileInv, McpFileTypeOK, revocation
<1>1. McpFileTypeOK'
  BY DEF Stages, Close, request, lock, reads
<1>2. SessionsAreKept'
  BY DEF SessionsAreKept, InHand, Close, request, lock, reads
<1>3. OnePerLease'
  BY DEF OnePerLease, Close, request, lock, reads
<1>4. RevokedIsCancelled'
  BY DEF RevokedIsCancelled, Registered, Live, Close, request, lock, reads
<1>5. LockIsHeld'
  BY DEF LockIsHeld, InHand, Conflict, Close, request, lock, reads
<1>6. FilesAreOfSessions'
  BY DEF FilesAreOfSessions, Close, request, lock, reads
<1>7. HandlesAreOfSessions'
  BY DEF HandlesAreOfSessions, Close, request, lock, reads
<1>8. FilesOwned'
  BY DEF FilesOwned, Close, request, lock, reads
<1>9. RevocationCloses'
  BY DEF RevocationCloses, Close, request, lock, reads
<1>10. ReadIsItsOffset'
  BY DEF ReadIsItsOffset, Close, request, lock, reads
<1> QED
  BY <1>1, <1>2, <1>3, <1>4, <1>5, <1>6, <1>7, <1>8, <1>9, <1>10

LEMMA TakeSlotKeeps ==
  ASSUME McpFileInv, NEW r \in work, TakeSlot(r)
  PROVE  McpFileInv'
<1> USE RequestsAreTyped DEF McpFileInv, McpFileTypeOK, revocation
<1>a. session[r] \in work
  BY HasSession DEF TakeSlot
<1>1. McpFileTypeOK'
  BY <1>a DEF TakeSlot, sessions, files, reads, Stages
<1>2. SessionsAreKept'
  BY DEF SessionsAreKept, InHand, TakeSlot, sessions, files, reads
<1>3. OnePerLease'
  BY DEF OnePerLease, TakeSlot, sessions, files, reads
<1>4. RevokedIsCancelled'
  BY DEF RevokedIsCancelled, Registered, Live, TakeSlot, sessions, files, reads
<1>5. LockIsHeld'
  BY DEF LockIsHeld, InHand, Conflict, TakeSlot, sessions, files, reads
<1>6. FilesAreOfSessions'
  BY DEF FilesAreOfSessions, TakeSlot, sessions, files, reads
<1>7. HandlesAreOfSessions'
  BY DEF HandlesAreOfSessions, TakeSlot, sessions, files, reads
<1>8. FilesOwned'
  BY DEF FilesOwned, TakeSlot, sessions, files, reads
<1>9. RevocationCloses'
  BY DEF RevocationCloses, TakeSlot, sessions, files, reads
<1>10. ReadIsItsOffset'
  BY DEF ReadIsItsOffset, TakeSlot, sessions, files, reads
<1> QED
  BY <1>1, <1>2, <1>3, <1>4, <1>5, <1>6, <1>7, <1>8, <1>9, <1>10

LEMMA AcquireKeeps ==
  ASSUME McpFileInv, NEW r \in work, Acquire(r)
  PROVE  McpFileInv'
<1> USE RequestsAreTyped DEF McpFileInv, McpFileTypeOK, revocation
<1>a. session[r] \in work
  BY HasSession DEF Acquire
<1>b. stage[r] \notin InHand
  BY DEF Acquire, InHand
<1>c. ASSUME stage[r] = "lock" /\ stage' = [stage EXCEPT ![r] = "locked"]
           /\ holders' = [holders EXCEPT ![session[r]] = @ \cup {r}] /\ UNCHANGED <<work, session>>
      PROVE LockIsHeld'
  <2>1. stage'[r] \in InHand /\ \A q \in work \ {r} : stage'[q] = stage[q]
    BY <1>c DEF InHand
  <2>2. holders'[session[r]] = holders[session[r]] \cup {r}
        /\ \A s \in work \ {session[r]} : holders'[s] = holders[s]
    BY <1>a, <1>c
  <2>3. \A q \in holders[session[r]] : ~Conflict(r, q) /\ ~Conflict(q, r)
    BY DEF Acquire, Conflict
  <2>4. \A q \in work : stage'[q] \in InHand => q \in holders'[session[q]]
    BY <1>a, <1>c, <2>1, <2>2 DEF LockIsHeld
  <2>5. \A s \in work : \A q \in holders'[s] : stage'[q] \in InHand /\ session[q] = s
    BY <1>a, <1>c, <2>1, <2>2 DEF LockIsHeld
  <2>6. \A s \in work : \A p, q \in holders'[s] : p = q \/ ~Conflict(p, q)
    <3>1. \A p, q \in holders[session[r]] \cup {r} : p = q \/ ~Conflict(p, q)
      BY <1>a, <2>3 DEF LockIsHeld
    <3> QED
      BY <2>2, <3>1 DEF LockIsHeld
  <2> QED
    BY <1>c, <2>4, <2>5, <2>6 DEF LockIsHeld, Conflict
<1>1. McpFileTypeOK'
  <2>1. holders[session[r]] \cup {r} \in SUBSET work
    BY <1>a
  <2>2. \/ /\ stage' = [stage EXCEPT ![r] = "locked"]
           /\ holders' = [holders EXCEPT ![session[r]] = @ \cup {r}]
        \/ stage' = stage /\ holders' = holders
    BY DEF Acquire, LeaveUnlocked
  <2>3. locker' = [locker EXCEPT ![r] = FALSE]
    BY DEF Acquire
  <2>4. holders' \in [work -> SUBSET work] /\ stage' \in [work -> Stages]
    <3>1. CASE stage' = stage /\ holders' = holders
      BY <3>1
    <3>2. CASE /\ stage' = [stage EXCEPT ![r] = "locked"]
               /\ holders' = [holders EXCEPT ![session[r]] = @ \cup {r}]
      <4>1. stage' \in [work -> Stages]
        BY <3>2 DEF Stages
      <4>2. holders' \in [work -> SUBSET work]
        BY <1>a, <2>1, <3>2
      <4> QED
        BY <4>1, <4>2
    <3> QED
      BY <2>2, <3>1, <3>2
  <2>5. locker' \in [work -> BOOLEAN]
    BY <2>3
  <2> QED
    BY <2>4, <2>5 DEF Acquire, sessions, files, reads
<1>2. SessionsAreKept'
  BY DEF SessionsAreKept, InHand, Acquire, LeaveUnlocked, sessions, files, reads
<1>3. OnePerLease'
  BY DEF OnePerLease, Acquire, LeaveUnlocked, sessions, files, reads
<1>4. RevokedIsCancelled'
  BY DEF RevokedIsCancelled, Registered, Live, Acquire, LeaveUnlocked, sessions, files, reads
<1>5. LockIsHeld'
  BY <1>c DEF LockIsHeld, Acquire, LeaveUnlocked, Conflict
<1>6. FilesAreOfSessions'
  BY DEF FilesAreOfSessions, Acquire, LeaveUnlocked, sessions, files, reads
<1>7. HandlesAreOfSessions'
  BY DEF HandlesAreOfSessions, Acquire, LeaveUnlocked, sessions, files, reads
<1>8. FilesOwned'
  BY DEF FilesOwned, Acquire, LeaveUnlocked, sessions, files, reads
<1>9. RevocationCloses'
  BY DEF RevocationCloses, Acquire, LeaveUnlocked, sessions, files, reads
<1>10. ReadIsItsOffset'
  BY DEF ReadIsItsOffset, Acquire, LeaveUnlocked, sessions, files, reads
<1> QED
  BY <1>1, <1>2, <1>3, <1>4, <1>5, <1>6, <1>7, <1>8, <1>9, <1>10

LEMMA GiveUpKeeps ==
  ASSUME McpFileInv, NEW r \in work, GiveUp(r)
  PROVE  McpFileInv'
<1> USE RequestsAreTyped DEF McpFileInv, McpFileTypeOK, revocation
<1>a. session[r] \in work
  BY HasSession DEF GiveUp
<1>1. McpFileTypeOK'
  BY <1>a DEF GiveUp, sessions, files, reads, Stages
<1>2. SessionsAreKept'
  BY DEF SessionsAreKept, InHand, GiveUp, sessions, files, reads
<1>3. OnePerLease'
  BY DEF OnePerLease, GiveUp, sessions, files, reads
<1>4. RevokedIsCancelled'
  BY DEF RevokedIsCancelled, Registered, Live, GiveUp, sessions, files, reads
<1>5. LockIsHeld'
  BY DEF LockIsHeld, InHand, Conflict, GiveUp, sessions, files, reads
<1>6. FilesAreOfSessions'
  BY DEF FilesAreOfSessions, GiveUp, sessions, files, reads
<1>7. HandlesAreOfSessions'
  BY DEF HandlesAreOfSessions, GiveUp, sessions, files, reads
<1>8. FilesOwned'
  BY DEF FilesOwned, GiveUp, sessions, files, reads
<1>9. RevocationCloses'
  BY DEF RevocationCloses, GiveUp, sessions, files, reads
<1>10. ReadIsItsOffset'
  BY DEF ReadIsItsOffset, GiveUp, sessions, files, reads
<1> QED
  BY <1>1, <1>2, <1>3, <1>4, <1>5, <1>6, <1>7, <1>8, <1>9, <1>10

LEMMA StoppedKeeps ==
  ASSUME McpFileInv, NEW r \in work, Stopped(r)
  PROVE  McpFileInv'
<1> USE RequestsAreTyped DEF McpFileInv, McpFileTypeOK, revocation
<1>1. McpFileTypeOK'
  BY DEF Stages, Stopped, Return, sessions, files, reads
<1>2. SessionsAreKept'
  BY DEF SessionsAreKept, InHand, Stopped, Return, sessions, files, reads
<1>3. OnePerLease'
  BY DEF OnePerLease, Stopped, Return, sessions, files, reads
<1>4. RevokedIsCancelled'
  BY DEF RevokedIsCancelled, Registered, Live, Stopped, Return, sessions, files, reads
<1>5. LockIsHeld'
  BY DEF LockIsHeld, InHand, Conflict, Stopped, Return, sessions, files, reads
<1>6. FilesAreOfSessions'
  BY DEF FilesAreOfSessions, Stopped, Return, sessions, files, reads
<1>7. HandlesAreOfSessions'
  BY DEF HandlesAreOfSessions, Stopped, Return, sessions, files, reads
<1>8. FilesOwned'
  BY DEF FilesOwned, Stopped, Return, sessions, files, reads
<1>9. RevocationCloses'
  BY DEF RevocationCloses, Stopped, Return, sessions, files, reads
<1>10. ReadIsItsOffset'
  BY DEF ReadIsItsOffset, Stopped, Return, sessions, files, reads
<1> QED
  BY <1>1, <1>2, <1>3, <1>4, <1>5, <1>6, <1>7, <1>8, <1>9, <1>10

LEMMA StartKeeps ==
  ASSUME McpFileInv, NEW r \in work, Start(r)
  PROVE  McpFileInv'
<1> USE RequestsAreTyped DEF McpFileInv, McpFileTypeOK, revocation
<1>a. stage[r] \in InHand /\ session[r] \in work
  BY HasSession DEF Start, InHand
<1>b. Flows /\ Range(recent') = Range(recent)
  BY TouchedKeeps DEF Start, OnePerLease, Flows
<1>c. /\ stage[r] = "locked" /\ Live(r) /\ recent' = Touched(session[r])
      /\ UNCHANGED <<work, session, locker, slots, closing, closed, reads, revocation>>
  BY DEF Start, Proceeds
<1>d. \/ /\ r.op = "begin" /\ GoOn(r, "opened") /\ open' = open \cup {r}
         /\ UNCHANGED <<downloads, handle>>
      \/ Return(r) /\ UNCHANGED files
      \/ \E f \in downloads[session[r]] :
           /\ r.op \notin {"begin", "chunk"} /\ GoOn(r, "found")
           /\ handle' = [handle EXCEPT ![r] = f]
           /\ downloads' = IF r.op = "close" THEN [downloads EXCEPT ![session[r]] = @ \ {f}]
                           ELSE downloads
           /\ UNCHANGED open
  BY DEF Start
<1>i. \A s \in work : downloads'[s] \subseteq downloads[s] /\ downloads'[s] \in SUBSET work
  <2>1. CASE downloads' = downloads
    BY <2>1
  <2>2. ASSUME NEW f, downloads' = [downloads EXCEPT ![session[r]] = @ \ {f}]
        PROVE  \A s \in work : downloads'[s] \subseteq downloads[s] /\ downloads'[s] \in SUBSET work
    BY <1>a, <2>2
  <2> QED
    BY <1>d, <2>1, <2>2 DEF files
<1>j. DOMAIN downloads' = work /\ downloads' = [s \in DOMAIN downloads' |-> downloads'[s]]
  BY <1>d DEF files
<1>e. ASSUME Return(r), UNCHANGED files PROVE FilesOwned'
  <2>1. \A q \in work : stage'[q] = stage[q] \/ stage[q] = "locked"
    BY <1>c, <1>e DEF Return
  <2> QED
    BY <1>b, <1>c, <1>e, <2>1, OwnersStay DEF files
<1>f. ASSUME r.op = "begin", GoOn(r, "opened"), open' = open \cup {r}, UNCHANGED <<downloads, handle>>
      PROVE  FilesOwned'
  <2>1. stage'[r] = "opened" /\ \A q \in work \ {r} : stage'[q] = stage[q]
    BY <1>c, <1>f DEF GoOn
  <2> QED
    <3>1. r \in open' /\ \A f \in open' : f = r \/ f \in open
      BY <1>f
    <3> SUFFICES ASSUME NEW f \in open
                 PROVE  \/ f \in downloads[session[f]] /\ session[f] \in Range(recent') \cup closing'
                        \/ stage'[f] = "opened"
                        \/ \E q \in work : q.op = "close" /\ stage'[q] = "found" /\ handle[q] = f
      BY <1>c, <1>f, <2>1, <3>1 DEF FilesOwned
    <3>2. CASE f \in downloads[session[f]] /\ session[f] \in Range(recent) \cup closing
      BY <1>b, <3>2 DEF Flows
    <3>3. CASE stage[f] = "opened"
      BY <1>c, <2>1, <3>3
    <3>4. CASE \E q \in work : q.op = "close" /\ stage[q] = "found" /\ handle[q] = f
      BY <1>c, <2>1, <3>4
    <3> QED
      BY <3>2, <3>3, <3>4 DEF FilesOwned
<1>g. ASSUME NEW f \in downloads[session[r]], GoOn(r, "found"), handle' = [handle EXCEPT ![r] = f],
             UNCHANGED open, r.op \notin {"begin", "chunk"},
             downloads' = IF r.op = "close" THEN [downloads EXCEPT ![session[r]] = @ \ {f}]
                          ELSE downloads
      PROVE  FilesOwned'
  <2>1. /\ stage'[r] = "found" /\ handle'[r] = f
        /\ \A q \in work \ {r} : stage'[q] = stage[q] /\ handle'[q] = handle[q]
    BY <1>c, <1>g DEF GoOn
  <2>2. \A s \in work : \A h \in downloads[s] : h \in downloads'[s] \/ (h = f /\ r.op = "close")
    <3>1. CASE r.op = "close"
      <4>1. /\ downloads'[session[r]] = downloads[session[r]] \ {f}
            /\ \A s \in work \ {session[r]} : downloads'[s] = downloads[s]
        BY <1>a, <1>g, <3>1
      <4> QED
        BY <3>1, <4>1
    <3>2. CASE r.op # "close"
      <4>1. downloads' = downloads
        BY <1>g, <3>2
      <4> QED
        BY <4>1
    <3> QED
      BY <3>1, <3>2
  <2>3. UNCHANGED <<work, session, closing>>
    BY <1>c
  <2> SUFFICES ASSUME NEW h \in open
               PROVE  \/ h \in downloads'[session[h]] /\ session[h] \in Range(recent) \cup closing
                      \/ stage'[h] = "opened"
                      \/ \E q \in work : q.op = "close" /\ stage'[q] = "found" /\ handle'[q] = h
    BY <1>b, <1>g, <2>3 DEF FilesOwned
  <2>4. CASE h \in downloads[session[h]] /\ session[h] \in Range(recent) \cup closing
    BY <2>1, <2>2, <2>4 DEF FilesAreOfSessions
  <2>5. CASE stage[h] = "opened"
    BY <1>c, <2>1, <2>5
  <2>6. CASE \E q \in work : q.op = "close" /\ stage[q] = "found" /\ handle[q] = h
    BY <1>c, <2>1, <2>6
  <2> QED
    BY <2>4, <2>5, <2>6 DEF FilesOwned
<1>h. revoked[r.lease] = "closed" => r \in spared
  BY <1>c DEF RevokedIsCancelled
<1>1. McpFileTypeOK'
  <2>1. stage' \in [work -> Stages] /\ ctx' \in [work -> {"none", "live", "taken", "done"}]
        /\ holders' \in [work -> SUBSET work]
    <3>1. CASE Return(r)
      BY <1>a, <1>c, <3>1, ReturnIsTyped
    <3>2. ASSUME NEW to \in {"opened", "found"}, GoOn(r, to)
          PROVE  /\ stage' \in [work -> Stages] /\ ctx' \in [work -> {"none", "live", "taken", "done"}]
                 /\ holders' \in [work -> SUBSET work]
      BY <3>2 DEF GoOn, Stages
    <3> QED
      BY <1>d, <3>1, <3>2
  <2>2. open' \subseteq work /\ handle' \in [work -> work \cup {None}]
        /\ downloads' \in [work -> SUBSET work]
    <3>1. open' \subseteq work
      BY <1>d DEF files
    <3>2. handle' = handle \/ \E f \in work : handle' = [handle EXCEPT ![r] = f]
      BY <1>a, <1>d DEF files
    <3>3. handle' \in [work -> work \cup {None}]
      BY <3>2
    <3>4. downloads' \in [work -> SUBSET work]
      BY <1>i, <1>j
    <3> QED
      BY <3>1, <3>3, <3>4
  <2> QED
    BY <1>b, <1>c, <2>1, <2>2 DEF Flows, reads
<1>2. SessionsAreKept'
  BY <1>a, <1>b, <1>c, <1>d DEF Return, GoOn, SessionsAreKept, Flows, InHand
<1>3. OnePerLease'
  BY <1>b DEF OnePerLease, Flows
<1>4. RevokedIsCancelled'
  BY DEF RevokedIsCancelled, Registered, Live, Start, Return, GoOn, Proceeds, files, reads
<1>5. LockIsHeld'
  BY <1>a, <1>c, <1>d, ReturnKeepsLock, GoOnKeepsLock DEF InHand
<1>6. FilesAreOfSessions'
  <2>1. \A s \in work : downloads'[s] \subseteq downloads[s]
    BY <1>i
  <2>2. \A f \in open' : f \in open \/ f = r
    BY <1>d DEF files
  <2> QED
    BY <1>a, <1>c, <2>1, <2>2 DEF FilesAreOfSessions
<1>7. HandlesAreOfSessions'
  <2>1. UNCHANGED <<work, session, place>> /\ \A q \in work \ {r} : stage'[q] = stage[q] /\ handle'[q] = handle[q]
    BY <1>c, <1>d DEF Return, GoOn, files, reads
  <2>2. stage'[r] \in {"opened", "ended"} \/
          (stage'[r] = "found" /\ handle'[r] \in downloads[session[r]] /\ r.op # "chunk")
    BY <1>d DEF Return, GoOn
  <2>3. stage'[r] = "found" =>
          handle'[r] \in work /\ session[handle'[r]] = session[r] /\ r.op # "chunk"
    BY <1>a, <2>2 DEF FilesAreOfSessions
  <2> QED
    BY <2>1, <2>2, <2>3 DEF HandlesAreOfSessions
<1>8. FilesOwned'
  BY <1>d, <1>e, <1>f, <1>g
<1>9. RevocationCloses'
  BY <1>a, <1>c, <1>d, <1>h DEF RevocationCloses, files
<1>10. ReadIsItsOffset'
  BY DEF ReadIsItsOffset, Start, Return, GoOn, Proceeds, files, reads
<1> QED
  BY <1>1, <1>2, <1>3, <1>4, <1>5, <1>6, <1>7, <1>8, <1>9, <1>10

LEMMA AdmitKeeps ==
  ASSUME McpFileInv, NEW r \in work, Admit(r)
  PROVE  McpFileInv'
<1> USE RequestsAreTyped DEF McpFileInv, McpFileTypeOK, revocation
<1>a. stage[r] \in InHand /\ session[r] \in work
  BY HasSession DEF Admit, InHand
<1> DEFINE same == {f \in downloads[session[r]] : f.id = r.id}
<1>b. /\ stage[r] = "opened" /\ Return(r)
      /\ UNCHANGED <<work, session, locker, slots, sessions, closed, handle, reads, revocation>>
      /\ stage'[r] = "ended" /\ \A q \in work \ {r} : stage'[q] = stage[q]
  BY DEF Admit, Return
<1>c. ASSUME session[r] \notin closed,
             downloads' = [downloads EXCEPT ![session[r]] = (@ \ same) \cup {r}],
             open' = open \ same
      PROVE FilesOwned'
  <2>1. session[r] \in Range(recent) \cup closing
    BY <1>a, <1>c DEF SessionsAreKept
  <2>2. r \in downloads'[session[r]]
    BY <1>a, <1>c
  <2>3. \A s \in work : \A h \in downloads[s] : h \in downloads'[s] \/ h \in same
    BY <1>a, <1>c
  <2>4. ASSUME NEW h \in open, h \notin same
        PROVE  \/ h \in downloads'[session[h]] /\ session[h] \in Range(recent) \cup closing
               \/ stage'[h] = "opened"
               \/ \E q \in work : q.op = "close" /\ stage'[q] = "found" /\ handle'[q] = h
    <3>1. CASE h \in downloads[session[h]] /\ session[h] \in Range(recent) \cup closing
      BY <2>3, <2>4, <3>1 DEF FilesAreOfSessions
    <3>2. CASE stage[h] = "opened"
      BY <1>b, <2>1, <2>2, <3>2
    <3>3. CASE \E q \in work : q.op = "close" /\ stage[q] = "found" /\ handle[q] = h
      BY <1>b, <3>3
    <3> QED
      BY <3>1, <3>2, <3>3 DEF FilesOwned
  <2> QED
    BY <1>b, <1>c, <2>4 DEF FilesOwned, sessions
<1>d. ASSUME open' = open \ {r}, downloads' = downloads PROVE FilesOwned'
  <2>1. \A h \in open' : h # r /\ stage'[h] = stage[h]
    BY <1>b, <1>d
  <2> QED
    <3> SUFFICES ASSUME NEW h \in open, h # r
                 PROVE  \/ h \in downloads[session[h]] /\ session[h] \in Range(recent) \cup closing
                        \/ stage'[h] = "opened"
                        \/ \E q \in work : q.op = "close" /\ stage'[q] = "found" /\ handle[q] = h
      BY <1>b, <1>d DEF FilesOwned, sessions
    <3>1. CASE stage[h] = "opened"
      BY <1>b, <3>1
    <3>2. CASE \E q \in work : q.op = "close" /\ stage[q] = "found" /\ handle[q] = h
      BY <1>b, <3>2
    <3> QED
      BY <3>1, <3>2 DEF FilesOwned
<1>1. McpFileTypeOK'
  <2>1. (downloads[session[r]] \ same) \cup {r} \in SUBSET work
    BY <1>a
  <2>3. \/ downloads' = [downloads EXCEPT ![session[r]] = (@ \ same) \cup {r}] /\ open' = open \ same
        \/ downloads' = downloads /\ open' = open \ {r}
    BY DEF Admit
  <2>2. downloads' \in [work -> SUBSET work] /\ open' \subseteq work
    <3>1. CASE downloads' = downloads /\ open' = open \ {r}
      BY <3>1
    <3>2. CASE /\ downloads' = [downloads EXCEPT ![session[r]] = (@ \ same) \cup {r}]
               /\ open' = open \ same
      <4>1. downloads' = [downloads EXCEPT ![session[r]] = (downloads[session[r]] \ same) \cup {r}]
        BY <3>2
      <4> HIDE DEF same
      <4> QED
        BY <1>a, <2>1, <3>2, <4>1
    <3> QED
      BY <2>3, <3>1, <3>2
  <2> QED
    BY <1>a, <1>b, <2>2, ReturnIsTyped DEF sessions, reads
<1>2. SessionsAreKept'
  BY DEF SessionsAreKept, InHand, Admit, Admits, Return, sessions, reads
<1>3. OnePerLease'
  BY DEF OnePerLease, Admit, Admits, Return, sessions, reads
<1>4. RevokedIsCancelled'
  BY DEF RevokedIsCancelled, Registered, Live, Admit, Admits, Return, sessions, reads
<1>5. LockIsHeld'
  BY <1>a, <1>b, ReturnKeepsLock
<1>6. FilesAreOfSessions'
  <2>1. work' = work /\ session' = session /\ open' \subseteq open
    BY DEF Admit
  <2>2. \A s \in work : \A f \in downloads'[s] : f \in downloads[s] \/ (f = r /\ s = session[r])
    BY <1>a DEF Admit
  <2> QED
    BY <2>1, <2>2 DEF FilesAreOfSessions
<1>7. HandlesAreOfSessions'
  BY DEF HandlesAreOfSessions, Admit, Admits, Return, sessions, reads
<1>8. FilesOwned'
  BY <1>c, <1>d DEF Admit, Admits
<1>9. RevocationCloses'
  BY DEF RevocationCloses, Admit, Admits, Return, sessions, reads
<1>10. ReadIsItsOffset'
  BY DEF ReadIsItsOffset, Admit, Admits, Return, sessions, reads
<1> QED
  BY <1>1, <1>2, <1>3, <1>4, <1>5, <1>6, <1>7, <1>8, <1>9, <1>10

LEMMA SeekKeeps ==
  ASSUME McpFileInv, NEW r \in work, Seek(r)
  PROVE  McpFileInv'
<1> USE RequestsAreTyped DEF McpFileInv, McpFileTypeOK, revocation
<1>a. stage[r] \in InHand /\ session[r] \in work
  BY HasSession DEF Seek, InHand
<1>b. /\ UNCHANGED <<work, session, locker, slots, sessions, closed, files, got, revocation>>
      /\ stage[r] = "found" /\ r.op = "read"
      /\ \A q \in work \ {r} : stage'[q] = stage[q]
      /\ \/ GoOn(r, "sought") /\ place' = [place EXCEPT ![handle[r]] = r.at]
         \/ Return(r) /\ UNCHANGED place
  BY DEF Seek, GoOn, Return
<1>c. handle[r] \in work /\ session[handle[r]] = session[r]
  BY <1>b DEF HandlesAreOfSessions
<1>d. \A q \in work : stage[q] = "sought" => handle[q] # handle[r]
  BY <1>a, <1>b, <1>c, Alone DEF HandlesAreOfSessions, InHand
<1>e. Flows
  BY <1>b DEF Flows, sessions, OnePerLease
<1>1. McpFileTypeOK'
  <2>1. stage' \in [work -> Stages] /\ ctx' \in [work -> {"none", "live", "taken", "done"}]
        /\ holders' \in [work -> SUBSET work]
    <3>1. CASE Return(r)
      BY <1>a, <1>b, <3>1, ReturnIsTyped
    <3>2. CASE GoOn(r, "sought")
      BY <3>2 DEF GoOn, Stages
    <3> QED
      BY <1>b, <3>1, <3>2
  <2>2. place' \in [work -> Nat]
    BY <1>b, <1>c DEF Request
  <2> QED
    BY <1>b, <2>1, <2>2 DEF sessions, files
<1>2. SessionsAreKept'
  BY DEF SessionsAreKept, InHand, Seek, Return, GoOn, sessions, files
<1>3. OnePerLease'
  BY DEF OnePerLease, Seek, Return, GoOn, sessions, files
<1>4. RevokedIsCancelled'
  BY DEF RevokedIsCancelled, Registered, Live, Seek, Return, GoOn, sessions, files
<1>5. LockIsHeld'
  BY <1>a, <1>b, ReturnKeepsLock, GoOnKeepsLock DEF InHand
<1>6. FilesAreOfSessions'
  BY DEF FilesAreOfSessions, Seek, Return, GoOn, sessions, files
<1>7. HandlesAreOfSessions'
  BY <1>b, <1>c, <1>d DEF HandlesAreOfSessions, GoOn, Return, files
<1>8. FilesOwned'
  BY <1>b, <1>e, OwnersStay DEF files
<1>9. RevocationCloses'
  BY DEF RevocationCloses, Seek, Return, GoOn, sessions, files
<1>10. ReadIsItsOffset'
  BY DEF ReadIsItsOffset, Seek, Return, GoOn, sessions, files
<1> QED
  BY <1>1, <1>2, <1>3, <1>4, <1>5, <1>6, <1>7, <1>8, <1>9, <1>10

LEMMA ReadKeeps ==
  ASSUME McpFileInv, NEW r \in work, Read(r)
  PROVE  McpFileInv'
<1> USE RequestsAreTyped DEF McpFileInv, McpFileTypeOK, revocation
<1>a. stage[r] \in InHand /\ session[r] \in work
  BY HasSession DEF Read, InHand
<1>b. /\ UNCHANGED <<work, session, locker, slots, sessions, closed, files, revocation>>
      /\ stage[r] = "sought" /\ r.op = "read" /\ Return(r)
      /\ stage'[r] = "ended" /\ \A q \in work \ {r} : stage'[q] = stage[q]
      /\ handle[r] \in work /\ session[handle[r]] = session[r] /\ place[handle[r]] = r.at
      /\ \/ /\ got' = [got EXCEPT ![r] = place[handle[r]]]
            /\ place' = [place EXCEPT ![handle[r]] = @ + 1]
         \/ UNCHANGED reads
  BY DEF Read, Return, HandlesAreOfSessions
<1>c. \A q \in work \ {r} : stage[q] = "sought" => handle[q] # handle[r]
  BY <1>a, <1>b, Alone DEF HandlesAreOfSessions, InHand
<1>d. Flows
  BY <1>b DEF Flows, sessions, OnePerLease
<1>1. McpFileTypeOK'
  <2>1. place' \in [work -> Nat] /\ got' \in [work -> Nat \cup {None}]
    <3>1. place[handle[r]] \in Nat /\ place[handle[r]] + 1 \in Nat
      BY <1>b
    <3>2. CASE UNCHANGED reads
      BY <3>2 DEF reads
    <3>3. CASE got' = [got EXCEPT ![r] = place[handle[r]]] /\ place' = [place EXCEPT ![handle[r]] = @ + 1]
      BY <1>b, <3>1, <3>3
    <3> QED
      BY <1>b, <3>2, <3>3
  <2> QED
    BY <1>a, <1>b, <2>1, ReturnIsTyped DEF sessions, files
<1>2. SessionsAreKept'
  BY DEF SessionsAreKept, InHand, Read, Return, sessions, files, reads
<1>3. OnePerLease'
  BY DEF OnePerLease, Read, Return, sessions, files, reads
<1>4. RevokedIsCancelled'
  <2>1. UNCHANGED <<work, revoked, spared>> /\ \A q \in work \ {r} : ctx'[q] = ctx[q] /\ stage'[q] = stage[q]
    BY <1>b DEF Return
  <2>2. ctx'[r] = "done"
    BY <1>b DEF Return
  <2> QED
    BY <2>1, <2>2 DEF RevokedIsCancelled, Registered, Live
<1>5. LockIsHeld'
  BY <1>a, <1>b, ReturnKeepsLock
<1>6. FilesAreOfSessions'
  BY DEF FilesAreOfSessions, Read, Return, sessions, files, reads
<1>7. HandlesAreOfSessions'
  BY <1>b, <1>c DEF HandlesAreOfSessions, files, reads
<1>8. FilesOwned'
  BY <1>b, <1>d, OwnersStay DEF files
<1>9. RevocationCloses'
  BY DEF RevocationCloses, Read, Return, sessions, files, reads
<1>10. ReadIsItsOffset'
  BY <1>b DEF ReadIsItsOffset, reads
<1> QED
  BY <1>1, <1>2, <1>3, <1>4, <1>5, <1>6, <1>7, <1>8, <1>9, <1>10

LEMMA CloseFileKeeps ==
  ASSUME McpFileInv, NEW r \in work, CloseFile(r)
  PROVE  McpFileInv'
<1> USE RequestsAreTyped DEF McpFileInv, McpFileTypeOK, revocation
<1>1. McpFileTypeOK'
  BY DEF Stages, CloseFile, Return, sessions, reads
<1>2. SessionsAreKept'
  BY DEF SessionsAreKept, InHand, CloseFile, Return, sessions, reads
<1>3. OnePerLease'
  BY DEF OnePerLease, CloseFile, Return, sessions, reads
<1>4. RevokedIsCancelled'
  BY DEF RevokedIsCancelled, Registered, Live, CloseFile, Return, sessions, reads
<1>5. LockIsHeld'
  BY DEF LockIsHeld, InHand, Conflict, CloseFile, Return, sessions, reads
<1>6. FilesAreOfSessions'
  BY DEF FilesAreOfSessions, CloseFile, Return, sessions, reads
<1>7. HandlesAreOfSessions'
  BY DEF HandlesAreOfSessions, CloseFile, Return, sessions, reads
<1>8. FilesOwned'
  BY DEF FilesOwned, CloseFile, Return, sessions, reads
<1>9. RevocationCloses'
  BY DEF RevocationCloses, CloseFile, Return, sessions, reads
<1>10. ReadIsItsOffset'
  BY DEF ReadIsItsOffset, CloseFile, Return, sessions, reads
<1> QED
  BY <1>1, <1>2, <1>3, <1>4, <1>5, <1>6, <1>7, <1>8, <1>9, <1>10

LEMMA ChunkKeeps ==
  ASSUME McpFileInv, NEW r \in work, Chunk(r)
  PROVE  McpFileInv'
<1> USE RequestsAreTyped DEF McpFileInv, McpFileTypeOK, revocation
<1>a. stage[r] \in InHand /\ session[r] \in work
  BY HasSession DEF Chunk, InHand
<1>b. Flows
  BY TouchedKeeps DEF Chunk, OnePerLease, Flows
<1>1. McpFileTypeOK'
  BY <1>a, <1>b DEF Chunk, Return, files, reads, Stages, Flows
<1>2. SessionsAreKept'
  BY <1>a, <1>b DEF Chunk, Return, SessionsAreKept, Flows, InHand
<1>3. OnePerLease'
  BY <1>b DEF OnePerLease, Flows
<1>4. RevokedIsCancelled'
  BY DEF RevokedIsCancelled, Registered, Live, Chunk, Return, files, reads
<1>5. LockIsHeld'
  BY <1>a, ReturnKeepsLock DEF Chunk
<1>6. FilesAreOfSessions'
  BY DEF FilesAreOfSessions, Chunk, Return, files, reads
<1>7. HandlesAreOfSessions'
  BY DEF HandlesAreOfSessions, Chunk, Return, files, reads
<1>8. FilesOwned'
  BY <1>a, <1>b, OwnersStay DEF Chunk, Return, files
<1>9. RevocationCloses'
  BY DEF RevocationCloses, Chunk, Return, files, reads
<1>10. ReadIsItsOffset'
  BY DEF ReadIsItsOffset, Chunk, Return, files, reads
<1> QED
  BY <1>1, <1>2, <1>3, <1>4, <1>5, <1>6, <1>7, <1>8, <1>9, <1>10

(***************************************************************************)
(* The theorems.                                                           *)
(***************************************************************************)
LEMMA InitInv ==
  ASSUME Init
  PROVE  McpFileInv
<1> USE DEF Init
<1>1. work \subseteq Request
  BY McpFileAssumption
<1>2. McpFileTypeOK
  BY DEF McpFileTypeOK, Stages
<1>3. Range(recent) = {} /\ Len(recent) = 0
  BY DEF Range
<1>4. OnePerLease
  BY <1>3 DEF OnePerLease, Apart
<1>5. SessionsAreKept /\ RevokedIsCancelled /\ LockIsHeld
  BY <1>1 DEF SessionsAreKept, RevokedIsCancelled, Live, LockIsHeld, InHand
<1>6. FilesAreOfSessions /\ HandlesAreOfSessions
  BY DEF FilesAreOfSessions, HandlesAreOfSessions
<1>7. FilesOwned /\ RevocationCloses /\ ReadIsItsOffset
  BY DEF FilesOwned, RevocationCloses, ReadIsItsOffset
<1> QED
  BY <1>2, <1>4, <1>5, <1>6, <1>7 DEF McpFileInv

LEMMA StutterKeeps ==
  ASSUME McpFileInv, UNCHANGED vars
  PROVE  McpFileInv'
<1> USE DEF vars, request, lock, sessions, files, reads, revocation
<1>1. McpFileTypeOK' /\ SessionsAreKept' /\ OnePerLease' /\ RevokedIsCancelled'
  BY DEF McpFileInv, McpFileTypeOK, SessionsAreKept, OnePerLease, RevokedIsCancelled, Registered, Live
<1>2. LockIsHeld' /\ FilesAreOfSessions' /\ HandlesAreOfSessions'
  BY DEF McpFileInv, LockIsHeld, FilesAreOfSessions, HandlesAreOfSessions, Conflict
<1>3. FilesOwned' /\ RevocationCloses' /\ ReadIsItsOffset'
  BY DEF McpFileInv, FilesOwned, RevocationCloses, ReadIsItsOffset
<1> QED
  BY <1>1, <1>2, <1>3 DEF McpFileInv

LEMMA StepInv ==
  ASSUME McpFileInv, [Next]_vars
  PROVE  McpFileInv'
<1>1. ASSUME NEW r \in work, Register(r) \/ ContextEnds(r) \/ Acquire(r) PROVE McpFileInv'
  BY <1>1, RegisterKeeps, ContextEndsKeeps, AcquireKeeps
<1>2. ASSUME NEW r \in work, Handle(r) PROVE McpFileInv'
  <2>1. CASE GetSession(r) \/ TakeSlot(r) \/ GiveUp(r) \/ Stopped(r)
    BY <2>1, GetSessionKeeps, TakeSlotKeeps, GiveUpKeeps, StoppedKeeps
  <2>2. CASE Start(r) \/ Admit(r) \/ Seek(r) \/ Read(r)
    BY <2>2, StartKeeps, AdmitKeeps, SeekKeeps, ReadKeeps
  <2>3. CASE CloseFile(r) \/ Chunk(r)
    BY <2>3, CloseFileKeeps, ChunkKeeps
  <2> QED
    BY <1>2, <2>1, <2>2, <2>3 DEF Handle
<1>3. ASSUME NEW l \in Leases,
             WatcherExpires(l) \/ Revoke(l) \/ Expire(l) \/ CloseMCPFileSession(l)
      PROVE  McpFileInv'
  BY <1>3, WatcherExpiresKeeps, RevokeKeeps, ExpireKeeps, CloseSessionKeeps
<1>4. CASE Closer
  BY <1>4, CloseKeeps DEF Closer
<1>5. CASE Prune
  BY <1>5, PruneKeeps
<1>6. CASE UNCHANGED vars
  BY <1>6, StutterKeeps
<1> QED
  BY <1>1, <1>2, <1>3, <1>4, <1>5, <1>6 DEF Next

LEMMA InvHolds == Spec => []McpFileInv
BY InitInv, StepInv, PTL DEF Spec

\* The variables have their types, which says that a session, a lock and a slot are always
\* those of a request (mcp_file.go:66).
THEOREM McpFileTypeCorrect == Spec => []McpFileTypeOK
<1>1. McpFileInv => McpFileTypeOK
  BY DEF McpFileInv
<1> QED
  BY <1>1, InvHolds, PTL

\* A download that is open has somebody who will close it, whoever prunes, drops or closes
\* its session meanwhile (file_manager.go:982).
THEOREM FilesAlwaysOwned == Spec => []FilesOwned
<1>1. McpFileInv => FilesOwned
  BY DEF McpFileInv
<1> QED
  BY <1>1, InvHolds, PTL

\* No file of a lease stays open, or is opened, after its revocation, but by requests
\* whose cancel a watcher had taken out of the hold when the revocation came for it and
\* had not called when the session was closed (mcp.go:265, mcp_file.go:160).
THEOREM RevocationAlwaysCloses == Spec => []RevocationCloses
<1>1. McpFileInv => RevocationCloses
  BY DEF McpFileInv
<1> QED
  BY <1>1, InvHolds, PTL

\* The two halves of a read are not torn apart (file_manager.go:1024).
THEOREM ReadsAreNotMoved == Spec => []ReadIsItsOffset
<1>1. McpFileInv => ReadIsItsOffset
  BY DEF McpFileInv
<1> QED
  BY <1>1, InvHolds, PTL
=============================================================================
