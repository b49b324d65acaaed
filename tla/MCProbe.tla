------------------------------ MODULE MCProbe ------------------------------
(* Two return routes, one to an address behind a router, one to a name that   *)
(* gives this address, one next to the agent, or none, beside a ping.  A ping *)
(* and a trace of another program go to the first address.                    *)
EXTENDS Probe, TLC

CONSTANTS literal, name, near, far, router, tcp

MCAnswers == (literal :> {far}) @@ (name :> {far, near, None})
MCMaxHops == (literal :> 1) @@ (name :> 2)
MCPathTo == (far :> <<router, far>>) @@ (near :> <<near>>)
MCStrays ==
  {[kind |-> "echo", from |-> far, id |-> "other", seq |-> 1, to |-> far, by |-> None],
   [kind |-> "unreachable", from |-> far, id |-> "other", seq |-> 1, to |-> far, by |-> None]}
MCPingType == (tcp :> "tcp")
=============================================================================
