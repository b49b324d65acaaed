---------------------------- MODULE MCMcpLease ----------------------------
(***************************************************************************)
(* Instances of McpLease for TLC: two operations that may share a lease.   *)
(***************************************************************************)
EXTENDS McpLease, TLC

CONSTANTS t1, t2, l1

Req(lease, leaseEnd, end, file) ==
  [lease |-> lease, leaseEnd |-> leaseEnd, end |-> end, file |-> file]

\* A file request whose lease and own deadline both end at 2, and a command that
\* names no deadline and so outlasts it under the same lease.
MCRequests == {t1 :> Req(l1, 2, 2, TRUE) @@ t2 :> Req(l1, 0, 0, FALSE)}

\* Two commands under one lease, the second sent with a later end of the lease.
MCLeased == {t1 :> Req(l1, 2, 0, FALSE) @@ t2 :> Req(l1, 3, 0, FALSE)}

\* The first life of the agent, and one that follows an operation cut short.
MCLogs == {t1 :> "none" @@ t2 :> "none", t1 :> "unknown" @@ t2 :> "none"}
=============================================================================
