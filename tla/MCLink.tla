------------------------------- MODULE MCLink -------------------------------
(* MCLink.cfg: one event, which is work or not; two connections and two pull *)
(* loops at a time, on a network that lets a WebSocket through or not and    *)
(* rejects compressed requests.  MCLinkLimit.cfg: two events and a list that *)
(* holds one of them, between a connection, a pull loop and the session.     *)
EXTENDS Link

CONSTANTS event, late
=============================================================================
