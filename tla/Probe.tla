------------------------------- MODULE Probe -------------------------------
(***************************************************************************)
(* The probes the server orders: return routes (server/route.go) and pings *)
(* (server/task.go).  Each runs in a goroutine of its own and is reported  *)
(* once, on the connection that brought it.                                *)
(*                                                                         *)
(* A return route is a trace by echo requests of growing TTL over a raw    *)
(* socket, which hears every ICMP message that reaches the machine: late   *)
(* answers, answers to other probes, and those to other programs.  The     *)
(* sequence number of a request is its TTL and its identity that of the    *)
(* process, so that two probes of one address send the same requests; a    *)
(* mutex lets one probe run at a time.  A message that does not match is   *)
(* read and dropped, which is the same as one that never arrives.          *)
(*                                                                         *)
(* The network's routes are assumed to stay, and no other program to use   *)
(* the identity of the agent.  Tasks without id or target, which are       *)
(* ignored, are left out, and hop limits are within their bounds.          *)
(***************************************************************************)
EXTENDS Integers, Sequences

CONSTANTS Tasks,           \* the return routes ordered
          Answers,         \* what resolving a task's target may give, None for a failure
          MaxHops,         \* a task's hop limit
          PathTo,          \* of an address: the routers to it, and itself
          Strays,          \* messages to other programs that may arrive
          Pings, PingType, \* the pings ordered, "icmp", "tcp" or "http"
          Latencies,       \* what a ping may measure, in milliseconds
          None

ASSUME ProbeAssumption ==
  /\ None \notin Tasks
  /\ MaxHops \in [Tasks -> 1 .. 64]
  /\ \A t \in Tasks : Answers[t] # {} /\ Answers[t] \subseteq DOMAIN PathTo \cup {None}
  /\ \A a \in DOMAIN PathTo : PathTo[a] # <<>> /\ PathTo[a][Len(PathTo[a])] = a
  /\ \A m \in Strays : m.id = "other"
  /\ Latencies \subseteq Nat

VARIABLES
  routeProbeMu,  \* the task that holds it, or None
  stage,         \* of a task: "asked", "send", "wait", "probed", "report" or "reported"
  dest,          \* the address a task probes
  hops,          \* the hops it has: an address, or None for a timeout
  failed,        \* whether its probe ended with an error
  flight,        \* the messages that may still arrive
  reached,       \* whether a task was reported as reached
  measured,      \* the measurements of a ping
  told,          \* whether a ping was reported
  \* Kept for the properties only:
  heard          \* of each hop, what was heard: an answer's kind and whose request it is to

route == <<routeProbeMu, stage, dest, hops, failed, flight, heard>>
pinging == <<measured, told>>
probeVars == <<route, reached, pinging>>

-----------------------------------------------------------------------------
(* Return routes *)

Ttl(t) == Len(hops[t]) + 1

\* The router that a request of this TTL gets to.
RouterAt(a, ttl) ==
  LET path == PathTo[a] IN IF ttl < Len(path) THEN path[ttl] ELSE a

\* The target answers with an echo reply, which does not name the address that was probed,
\* a router at which the TTL ends with time exceeded, and any on the way may say that the
\* destination is unreachable; both errors carry the request.
Message(t, a, ttl) ==
  LET at == RouterAt(a, ttl)
      From(kinds, routers) ==
        [kind : kinds, from : routers, id : {"agent"}, seq : {ttl}, to : {a}, by : {t}]
  IN  From(IF at = a THEN {"echo"} ELSE {"exceeded"}, {at})
        \cup From({"unreachable"}, {RouterAt(a, i) : i \in 1 .. ttl})

\* Fault: the sequence number is not compared.
MatchesAnyTtl(m, a, ttl) ==
  /\ m.id = "agent"
  /\ IF m.kind = "echo" THEN m.from = a ELSE m.to = a

\* matchIPv4RouteReply, matchIPv6RouteReply
Matches(m, a, ttl) ==
  /\ m.id = "agent" /\ m.seq = ttl
  /\ IF m.kind = "echo" THEN m.from = a ELSE m.to = a

\* Fault: the probe does not stop at its destination.
EndsAtLimit(t, hop) == Ttl(t) = MaxHops[t]

Ends(t, hop) == hop = dest[t] \/ Ttl(t) = MaxHops[t]

Hop(t, hop, answer) ==
  /\ hops' = [hops EXCEPT ![t] = Append(@, hop)]
  /\ heard' = [heard EXCEPT ![t] = Append(@, answer)]
  /\ stage' = [stage EXCEPT ![t] = IF Ends(t, hop) THEN "probed" ELSE "send"]
  /\ UNCHANGED <<routeProbeMu, dest, failed, reached, pinging>>

Fail(t) ==
  /\ stage' = [stage EXCEPT ![t] = "probed"]
  /\ failed' = [failed EXCEPT ![t] = TRUE]

\* The mutex is taken and the target resolved.
Begin(t) ==
  /\ stage[t] = "asked" /\ routeProbeMu = None
  /\ routeProbeMu' = t
  /\ \E a \in Answers[t] :
       IF a = None
         THEN Fail(t) /\ UNCHANGED dest
         ELSE /\ dest' = [dest EXCEPT ![t] = a]
              /\ stage' = [stage EXCEPT ![t] = "send"]
              /\ UNCHANGED failed
  /\ UNCHANGED <<hops, flight, heard, reached, pinging>>

\* The request is sent and answered, by a message that may take any time.
Send(t) ==
  /\ stage[t] = "send"
  /\ \E m \in Message(t, dest[t], Ttl(t)) : flight' = flight \cup {m}
  /\ stage' = [stage EXCEPT ![t] = "wait"]
  /\ UNCHANGED <<routeProbeMu, dest, hops, failed, heard, reached, pinging>>

\* A message may arrive again.
Hear(t) ==
  /\ stage[t] = "wait"
  /\ \E m \in flight :
       /\ Matches(m, dest[t], Ttl(t))
       /\ flight' \in {flight, flight \ {m}}
       /\ Hop(t, m.from, [kind |-> m.kind, by |-> m.by])

Timeout(t) == stage[t] = "wait" /\ Hop(t, None, None) /\ UNCHANGED flight

\* The socket cannot be opened, written to or read from.
Broken(t) ==
  /\ stage[t] \in {"send", "wait"}
  /\ Fail(t)
  /\ UNCHANGED <<routeProbeMu, dest, hops, flight, heard, reached, pinging>>

Trace(t) == Send(t) \/ Hear(t) \/ Timeout(t) \/ Broken(t)

\* A panic is recovered and leaves an error without hops.
Panic(t) ==
  /\ stage[t] \in {"send", "wait"}
  /\ Fail(t)
  /\ hops' = [hops EXCEPT ![t] = <<>>]
  /\ heard' = [heard EXCEPT ![t] = <<>>]
  /\ UNCHANGED <<routeProbeMu, dest, flight, reached, pinging>>

\* Fault: a probe that failed returns with the mutex locked.
UnlockedOnSuccess(t) == IF failed[t] THEN routeProbeMu ELSE None

Unlocked(t) == None

Release(t) ==
  /\ stage[t] = "probed"
  /\ routeProbeMu' = Unlocked(t)
  /\ stage' = [stage EXCEPT ![t] = "report"]
  /\ UNCHANGED <<dest, hops, failed, flight, heard, reached, pinging>>

\* routeTargetReached; None equals no hop's address.
Reaches(t, a) == a # None /\ \E i \in DOMAIN hops[t] : hops[t][i] = a

\* The target is resolved again, once to be named and once to be compared with the hops.
\* The report is tried once.
ReportRoute(t) ==
  /\ stage[t] = "report"
  /\ \E a \in Answers[t] : reached' = [reached EXCEPT ![t] = Reaches(t, a)]
  /\ stage' = [stage EXCEPT ![t] = "reported"]
  /\ UNCHANGED <<routeProbeMu, dest, hops, failed, flight, heard, pinging>>

-----------------------------------------------------------------------------
(* Pings *)

Failed == -1
PingHighLatencyRetries == 3
highLatencyThreshold == 1000
retryDropThresholdTcping == 800

\* The value reported after these measurements, None to measure again: a high latency
\* is measured anew, and one that then drops too far was that of a retransmission.
Conclusion(p, s) ==
  LET last == s[Len(s)] IN
  IF last > highLatencyThreshold
    THEN IF Len(s) > PingHighLatencyRetries THEN Failed ELSE None
    ELSE IF PingType[p] = "tcp" /\ s[1] - last > retryDropThresholdTcping
           THEN Failed ELSE last

Concluded(p) == measured[p] # <<>> /\ Conclusion(p, measured[p]) # None

\* icmpPing, tcpPing, httpPing: a latency or a failure.
Measure(p) ==
  /\ ~Concluded(p)
  /\ \E l \in Latencies \cup {Failed} :
       measured' = [measured EXCEPT ![p] = Append(@, l)]
  /\ UNCHANGED <<route, reached, told>>

ReportPing(p) ==
  /\ ~told[p] /\ Concluded(p)
  /\ told' = [told EXCEPT ![p] = TRUE]
  /\ UNCHANGED <<route, reached, measured>>

-----------------------------------------------------------------------------
ProbeInit ==
  /\ routeProbeMu = None
  /\ stage = [t \in Tasks |-> "asked"] /\ dest = [t \in Tasks |-> None]
  /\ hops = [t \in Tasks |-> <<>>] /\ heard = [t \in Tasks |-> <<>>]
  /\ failed = [t \in Tasks |-> FALSE]
  /\ flight = Strays
  /\ reached = [t \in Tasks |-> FALSE]
  /\ measured = [p \in Pings |-> <<>>] /\ told = [p \in Pings |-> FALSE]

RouteTask(t) == Begin(t) \/ Trace(t) \/ Panic(t) \/ Release(t) \/ ReportRoute(t)
PingTask(p) == Measure(p) \/ ReportPing(p)

ProbeNext == (\E t \in Tasks : RouteTask(t)) \/ (\E p \in Pings : PingTask(p))

ProbeSpec == ProbeInit /\ [][ProbeNext]_probeVars

\* Goroutines run, and each wait has a deadline.
ProbeFairness ==
  /\ \A t \in Tasks : WF_probeVars(RouteTask(t))
  /\ \A p \in Pings : WF_probeVars(PingTask(p))

ProbeFairSpec == ProbeSpec /\ ProbeFairness

-----------------------------------------------------------------------------
(* Properties *)

Heard(t) == {i \in DOMAIN hops[t] : hops[t][i] # None}

\* A hop is the router at its place on the way to the task's address, or one before it
\* that said the destination was unreachable, whatever arrives late, twice or for another
\* program; and it answered a request of this task or of one that had stopped listening,
\* never one another probe was waiting for.
HopsAreTheirs ==
  \A t \in Tasks : \A i \in Heard(t) :
    /\ \/ hops[t][i] = RouterAt(dest[t], i)
       \/ /\ heard[t][i].kind = "unreachable"
          /\ \E j \in 1 .. i - 1 : hops[t][i] = RouterAt(dest[t], j)
    /\ heard[t][i].by # t => stage[heard[t][i].by] \notin {"send", "wait"}

\* The destination stands at the end of the hops and nowhere else, and a task whose
\* target keeps its address is reported as reached just when it stands there.
ArrivalIsTheEnd ==
  \A t \in Tasks :
    LET n == Len(hops[t]) IN
    /\ \A i \in 1 .. n - 1 : hops[t][i] # dest[t]
    /\ stage[t] = "reported" /\ Answers[t] = {dest[t]}
         => (reached[t] <=> n > 0 /\ hops[t][n] = dest[t])

\* Every probe comes to its report, whatever is lost, fails or panics, and however many
\* others wait for the mutex.
ProbesEnd ==
  /\ \A t \in Tasks : <>(stage[t] = "reported")
  /\ \A p \in Pings : <>told[p]

\* A hop answers a request of its own task, as the readme says of 2.3.0.2 (readme.md:237).
AnswersAreOwn == \A t \in Tasks : \A i \in Heard(t) : heard[t][i].by = t

=============================================================================
