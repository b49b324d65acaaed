-------------------------------- MODULE Link --------------------------------
(***************************************************************************)
(* The agent's link to the server (server/websocket.go, with the requests  *)
(* of server/v2_http.go).  One goroutine keeps a WebSocket up: it dials,   *)
(* reports at each tick, redials when a write fails or the reader of the   *)
(* connection is done, and after too many failures reports by POST beside  *)
(* a second goroutine that pulls, until a WebSocket can be had again.      *)
(* Nothing waits for the reader of a dropped connection, nor for a pull    *)
(* loop that was told to stop, so several goroutines handle events and     *)
(* move the lists of seen events and of acknowledgements at one time.      *)
(*                                                                         *)
(* The server delivers events at least once, on any connection and in any  *)
(* reply.  An event is work, which may be refused and is then forgotten,   *)
(* or one that stays marked when it fails: a configuration without         *)
(* revision, or a probe whose parameters cannot be read.  The list of seen *)
(* events drops its oldest at its limit, also one that is being handled.   *)
(* The report interval, which only paces the ticks, is left out.           *)
(***************************************************************************)
EXTENDS Integers, FiniteSets, SequencesExt

CONSTANTS Events, None,
          gateway,         \* whether the network rejects compressed requests
          Conns,           \* the connections that may have a reader at one time
          Pulls,           \* the pull loops there may be at one time
          MaxRetries,      \* flags.MaxRetries
          SeenLimit,       \* v2SeenEventLimit
          MaxPushed        \* bound on how often an event is pushed off the list

ASSUME LinkAssumption ==
  /\ None \notin Events
  /\ gateway \in BOOLEAN
  /\ MaxRetries \in Nat /\ MaxPushed \in Nat
  /\ SeenLimit \in Nat \ {0}
  /\ IsFiniteSet(Conns) /\ IsFiniteSet(Pulls)
  /\ 0 \notin Conns \cup Pulls /\ Conns \cap Pulls = {}

Main == 0                             \* the goroutine of the session
Posters == {Main} \cup Pulls
Goroutines == Posters \cup Conns

VARIABLES
  work,       \* the events that are work
  upgrades,   \* the network lets a WebSocket through
  main,       \* "dial", "select" or "fallback"
  tries,      \* attempts to dial that failed
  conn,       \* session.conn, 0 for nil
  link,       \* of each connection: "open", "broken" or "closed"
  reader,     \* of each connection: "none", "hello", "read" or "done"
  pull,       \* of each pull loop: "none", "live" or "cancelled"
  post,       \* the request a goroutine waits for: [sent, zip]
  hands,      \* the events a goroutine has received and not looked at
  busy,       \* the event it is handling
  plain,      \* httpJSONRPCGzipBlocked, or compression is off
  seen,       \* v2SeenEventIDs, oldest first, the keys of v2SeenEvents
  acks,       \* v2AckEventIDs
  \* Kept for the properties only:
  told,       \* the acknowledgements that reached the server
  handled,    \* how often an event took effect
  pushed      \* how often it was pushed off the list of seen events

given == <<work, upgrades>>
session == <<main, tries, conn, link, reader, pull>>
requests == <<post, plain>>
events == <<hands, busy, seen, acks>>
ghosts == <<told, handled, pushed>>
vars == <<given, session, requests, events, ghosts>>

Idle(g) == hands[g] = {} /\ busy[g] = None

-----------------------------------------------------------------------------
(* Events *)

\* Fault: all acknowledgements are dropped, those added since as well.
ClearedAll(sent) == {}

Cleared(sent) == acks \ sent

Marked(e) == e \in Range(seen)

Forgotten(e) ==
  IF Marked(e) THEN RemoveAt(seen, CHOOSE i \in DOMAIN seen : seen[i] = e) ELSE seen

\* An event joins the list, whose oldest is pushed off at the limit.
Mark(e) ==
  IF Len(seen) < SeenLimit
    THEN seen' = Append(seen, e) /\ UNCHANGED pushed
    ELSE /\ pushed[Head(seen)] < MaxPushed
         /\ seen' = Append(Tail(seen), e)
         /\ pushed' = [pushed EXCEPT ![Head(seen)] = @ + 1]

\* Fault: an event that another goroutine handles is not recognised.
TakeAny(g, e) ==
  /\ IF Marked(e) THEN UNCHANGED <<seen, pushed>> ELSE Mark(e)
  /\ busy' = [busy EXCEPT ![g] = e]
  /\ UNCHANGED acks

\* processV2Event: an event that is marked is acknowledged, any other is marked
\* and handled.
Take(g, e) ==
  \/ /\ Marked(e)
     /\ acks' = acks \cup {e}
     /\ UNCHANGED <<seen, pushed, busy>>
  \/ /\ ~Marked(e)
     /\ Mark(e)
     /\ busy' = [busy EXCEPT ![g] = e]
     /\ UNCHANGED acks

Look(g) ==
  /\ busy[g] = None
  /\ \E e \in hands[g] : Take(g, e) /\ hands' = [hands EXCEPT ![g] = @ \ {e}]
  /\ UNCHANGED <<given, session, requests, told, handled>>

\* The event takes effect and is acknowledged.
Succeed(g) ==
  /\ busy[g] # None
  /\ handled' = [handled EXCEPT ![busy[g]] = @ + 1]
  /\ acks' = acks \cup {busy[g]}
  /\ busy' = [busy EXCEPT ![g] = None]
  /\ UNCHANGED <<given, session, requests, hands, seen, told, pushed>>

\* Work that cannot be taken is forgotten, so that it can be delivered again.
Refuse(g) ==
  /\ busy[g] # None
  /\ busy' = [busy EXCEPT ![g] = None]
  /\ seen' = IF busy[g] \in work THEN Forgotten(busy[g]) ELSE seen
  /\ UNCHANGED <<given, session, requests, hands, acks, ghosts>>

-----------------------------------------------------------------------------
(* Requests by POST *)

Request == [sent |-> acks, zip |-> ~plain]

\* What a page of the gateway to a compressed request leads to: the request is
\* sent again uncompressed, and so are all later ones.
GiveUpGzip(g) == post' = [post EXCEPT ![g].zip = FALSE] /\ plain' = TRUE

Rejected(g) ==
  /\ post[g] # None /\ post[g].zip /\ gateway
  /\ GiveUpGzip(g)
  /\ UNCHANGED <<given, session, events, ghosts>>

\* The reply comes: what was sent is cleared, and the events in it are in hand.
Answered(g) ==
  /\ post[g] # None /\ ~(post[g].zip /\ gateway)
  /\ told' = told \cup post[g].sent
  /\ acks' = Cleared(post[g].sent)
  /\ \E E \in SUBSET Events : hands' = [hands EXCEPT ![g] = E]
  /\ post' = [post EXCEPT ![g] = None]
  /\ UNCHANGED <<given, session, plain, busy, seen, handled, pushed>>

\* It fails, or its reply is lost; a request whose context is cancelled does too.
Unanswered(g) ==
  /\ post[g] # None /\ ~(post[g].zip /\ gateway)
  /\ told' \in {told, told \cup post[g].sent}
  /\ post' = [post EXCEPT ![g] = None]
  /\ UNCHANGED <<given, session, plain, events, handled, pushed>>

PullAgain(p) ==
  /\ pull[p] = "live" /\ post[p] = None /\ Idle(p)
  /\ post' = [post EXCEPT ![p] = Request]
  /\ UNCHANGED <<given, session, plain, events, ghosts>>

\* The loop looks at its context before each request.
PullEnds(p) ==
  /\ pull[p] = "cancelled" /\ post[p] = None /\ Idle(p)
  /\ pull' = [pull EXCEPT ![p] = "none"]
  /\ UNCHANGED <<given, main, tries, conn, link, reader, requests, events, ghosts>>

-----------------------------------------------------------------------------
(* The readers of connections *)

\* Fault: the advertisement does not carry the acknowledgements.
AdvertisedNothing == {}

Advertised == acks

\* The ping and the advertisement reach the server, and with it all acknowledgements,
\* which stay on the list.
Greet(c) ==
  /\ reader[c] = "hello" /\ link[c] = "open"
  /\ told' = told \cup Advertised
  /\ reader' = [reader EXCEPT ![c] = "read"]
  /\ UNCHANGED <<given, main, tries, conn, link, pull, requests, events, handled, pushed>>

\* They do not; a write that still seems to succeed is followed by a read that ends.
GreetFails(c) ==
  /\ reader[c] = "hello" /\ link[c] # "open"
  /\ reader' = [reader EXCEPT ![c] = "done"]
  /\ UNCHANGED <<given, main, tries, conn, link, pull, requests, events, ghosts>>

Receive(c) ==
  /\ reader[c] = "read" /\ link[c] = "open" /\ Idle(c)
  /\ \E e \in Events : Take(c, e)
  /\ UNCHANGED <<given, session, requests, hands, told, handled>>

\* Fault: without a deadline only a connection that is closed ends a read.
ClosedOnly(c) == link[c] = "closed"

\* A read ends when the connection is closed or reset, or when no pong comes
\* in time.
Unreadable(c) == link[c] # "open"

ReadEnds(c) ==
  /\ reader[c] = "read" /\ Idle(c) /\ Unreadable(c)
  /\ reader' = [reader EXCEPT ![c] = "done"]
  /\ UNCHANGED <<given, main, tries, conn, link, pull, requests, events, ghosts>>

-----------------------------------------------------------------------------
(* The session *)

\* session.attach, in a place whose last reader is gone.
Attach(c) ==
  /\ c # conn /\ reader[c] \in {"none", "done"}
  /\ conn' = c
  /\ link' = [link EXCEPT ![c] = "open"]
  /\ reader' = [reader EXCEPT ![c] = "hello"]

\* A connection is made, when dialling or at a tick of the fallback, whose pull
\* loop is cancelled as it returns.
Connect ==
  /\ upgrades
  /\ main \in {"dial", "fallback"} /\ conn = 0 /\ post[Main] = None /\ Idle(Main)
  /\ \E c \in Conns : Attach(c)
  /\ pull' = [p \in Pulls |-> IF pull[p] = "live" THEN "cancelled" ELSE pull[p]]
  /\ main' = "select" /\ tries' = 0
  /\ UNCHANGED <<given, requests, events, ghosts>>

\* After the last attempt to dial the fallback begins.
DialFails ==
  /\ main = "dial" /\ conn = 0
  /\ IF tries < MaxRetries
       THEN tries' = tries + 1 /\ UNCHANGED <<main, pull>>
       ELSE /\ \E p \in Pulls : pull[p] = "none" /\ pull' = [pull EXCEPT ![p] = "live"]
            /\ main' = "fallback" /\ tries' = 0
  /\ UNCHANGED <<given, conn, link, reader, requests, events, ghosts>>

PostReport ==
  /\ main = "fallback" /\ post[Main] = None /\ Idle(Main)
  /\ post' = [post EXCEPT ![Main] = Request]
  /\ UNCHANGED <<given, session, plain, events, ghosts>>

Drop ==
  /\ link' = [link EXCEPT ![conn] = "closed"]
  /\ conn' = 0

\* The connection is dropped and dialled again.
Disconnect ==
  /\ Drop
  /\ main' = "dial"
  /\ UNCHANGED <<given, tries, reader, pull, requests, events, ghosts>>

\* A report or a heartbeat cannot be written.  One to a peer that is gone may well be.
WriteFails == main = "select" /\ conn # 0 /\ link[conn] = "broken" /\ Disconnect

ReaderIsDone == main = "select" /\ conn # 0 /\ reader[conn] = "done" /\ Disconnect

\* The network loses a connection, or the server ends it.
Break(c) ==
  /\ link[c] = "open"
  /\ link' = [link EXCEPT ![c] = "broken"]
  /\ UNCHANGED <<given, main, tries, conn, reader, pull, requests, events, ghosts>>

-----------------------------------------------------------------------------
Init ==
  /\ work \in SUBSET Events /\ upgrades \in BOOLEAN /\ plain \in BOOLEAN
  /\ main = "dial" /\ tries = 0 /\ conn = 0
  /\ link = [c \in Conns |-> "closed"] /\ reader = [c \in Conns |-> "none"]
  /\ pull = [p \in Pulls |-> "none"]
  /\ post = [g \in Posters |-> None]
  /\ hands = [g \in Goroutines |-> {}] /\ busy = [g \in Goroutines |-> None]
  /\ seen = <<>> /\ acks = {}
  /\ told = {} /\ handled = [e \in Events |-> 0] /\ pushed = [e \in Events |-> 0]

Session == Connect \/ DialFails \/ PostReport \/ ReaderIsDone
Reader(c) == Greet(c) \/ GreetFails(c) \/ ReadEnds(c)
Pulling(p) == PullAgain(p) \/ PullEnds(p)
Posting(g) == Rejected(g) \/ Answered(g) \/ Unanswered(g)
Handle(g) == Look(g) \/ Succeed(g) \/ Refuse(g)

Next ==
  \/ Session \/ WriteFails
  \/ \E c \in Conns : Reader(c) \/ Receive(c) \/ Break(c)
  \/ \E p \in Pulls : Pulling(p)
  \/ \E g \in Posters : Posting(g)
  \/ \E g \in Goroutines : Handle(g)

Spec == Init /\ [][Next]_vars

\* Goroutines, tickers and deadlines go on.  A connection tried for ever comes about
\* if the network lets any through, one of those made for ever lives to say its
\* greeting, and requests sent for ever are answered at last.
Fairness ==
  /\ WF_vars(Session) /\ SF_vars(Connect)
  /\ \A c \in Conns : WF_vars(Reader(c))
  /\ SF_vars(\E c \in Conns : Greet(c))
  /\ \A p \in Pulls : WF_vars(Pulling(p))
  /\ \A g \in Posters : WF_vars(Posting(g))
  /\ SF_vars(\E g \in Posters : Answered(g))
  /\ \A g \in Goroutines : WF_vars(Handle(g))

FairSpec == Spec /\ Fairness

-----------------------------------------------------------------------------
(* Properties *)

\* The goroutines that have marked an event and handle it.
Handlers(e) == {g \in Goroutines : busy[g] = e}

\* How often an event has taken effect, or may yet.
Takings(e) == handled[e] + Cardinality(Handlers(e))

\* However many goroutines get an event, one handles it at a time and it takes effect
\* once, and once more at most for each time it is pushed off the list, also while it is
\* being handled or is refused after another has marked it anew.  And work that is marked
\* is in hand or done, so that it is never refused for ever (markV2EventSeen,
\* forgetV2Event).
TakenOnce ==
  \A e \in Events :
    /\ Takings(e) <= pushed[e] + (IF Marked(e) THEN 1 ELSE 0)
    /\ e \in work /\ Marked(e) => Takings(e) > 0

\* An acknowledgement leaves the list only when the server has it, whatever the pull loop,
\* the report loop and the readers do at the same time (clearV2AckEventIDs).
AcksKept == [][\A e \in acks \ acks' : e \in told']_vars

Connected == main = "select" /\ conn # 0 /\ link[conn] = "open" /\ reader[conn] = "read"

\* Where the network lets a WebSocket through, the agent comes back from every loss
\* of its connection, also from one that it learns of by silence only, and from the
\* fallback.  Where it does not, it comes to send requests that the gateway accepts.
LinkRecovers ==
  []<>(IF upgrades THEN Connected ELSE main = "fallback" /\ (plain \/ ~gateway))

\* An acknowledgement that is not sent when a connection is lost reaches the server, by
\* the next connection or by POST, also through a gateway that rejects compression.
AcksArrive ==
  \A e \in Events : (e \in acks /\ ~Connected) ~> (e \in told)

=============================================================================
