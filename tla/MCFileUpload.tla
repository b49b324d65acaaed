--------------------------- MODULE MCFileUpload ---------------------------
(***************************************************************************)
(* An instance of FileUpload for TLC: an upload of three bytes, and an     *)
(* empty one to the same path that must not replace a file.                *)
(***************************************************************************)
EXTENDS FileUpload

CONSTANTS big, empty, path

MCDeclared ==
  [u \in {big, empty} |->
     IF u = big THEN [target |-> path, size |-> 3, overwrite |-> TRUE]
                ELSE [target |-> path, size |-> 0, overwrite |-> FALSE]]

Req(op, u, at, len) == [op |-> op, upload |-> u, at |-> at, len |-> len]

\* The last two chunks can be parked, one at a time; the second overlaps the first.
Chunks == {Req("chunk", big, 0, 2), Req("chunk", big, 1, 1), Req("chunk", big, 2, 1)}

MCRequests ==
  Chunks \cup {Req(op, big, 0, 0) : op \in {"start", "finish", "cancel"}}
         \cup {Req(op, empty, 0, 0) : op \in {"start", "finish"}}

\* One upload, whose first bytes are sent again after their first write failed.
MCRetries ==
  {Req("start", big, 0, 0), Req("finish", big, 0, 0), Req("chunk", big, 0, 1), Req("chunk", big, 0, 3)}
=============================================================================
