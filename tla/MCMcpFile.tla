----------------------------- MODULE MCMcpFile -----------------------------
(***************************************************************************)
(* Small workloads for McpFile.                                            *)
(***************************************************************************)
EXTENDS McpFile

CONSTANTS l1, l2

Req(op, l, at, n) == [op |-> op, lease |-> l, id |-> "d", at |-> at, n |-> n]

\* Two reads of one file, and pairs that wait for one slot, for one lock, for the room of
\* a session, or of which one closes the other's file.
MCWorkloads ==
  {{Req("begin", l1, 0, 1), Req("read", l1, 1, 1), Req("read", l1, 3, 1)},
   {Req("chunk", l1, 0, 1), Req("chunk", l1, 0, 2)}, {Req("chunk", l1, 0, 1), Req("begin", l1, 0, 1)},
   {Req("begin", l1, 0, 1), Req("begin", l2, 0, 1)}, {Req("begin", l1, 0, 1), Req("begin", l1, 0, 2)},
   {Req("begin", l1, 0, 1), Req("close", l1, 0, 1)}}
=============================================================================
