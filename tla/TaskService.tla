---------------------------- MODULE TaskService ----------------------------
(***************************************************************************)
(* What the agent promises the Lite server about remote commands, whatever *)
(* is lost, repeated or crashes in between: a command is run once as long  *)
(* as the agent remembers it, and it is forgotten only after the server    *)
(* has been given a result for it.                                         *)
(*                                                                         *)
(* One step may move several tasks: a restart interrupts all that ran, and *)
(* accepting a task may forget others.                                     *)
(***************************************************************************)
CONSTANT TaskIDs

VARIABLES status,   \* of each task: "idle" (unknown to the agent), "running", "ended"
          recv      \* the results of each task that the server has

serviceVars == <<status, recv>>

ServiceInit ==
  /\ status = [t \in TaskIDs |-> "idle"]
  /\ recv = [t \in TaskIDs |-> {}]

Start(t) == status[t] = "idle" /\ status'[t] = "running"

End(t) == status[t] = "running" /\ status'[t] = "ended"

\* The only way back: forgotten, and perhaps started again in the same step.
Forget(t) ==
  /\ status[t] = "ended"
  /\ recv[t] # {}
  /\ status'[t] \in {"idle", "running"}

\* Results arrive in any order, some more than once, and none is taken back.
Report(t) == recv[t] \subseteq recv'[t]

ServiceNext ==
  \A t \in TaskIDs :
    /\ Start(t) \/ End(t) \/ Forget(t) \/ status'[t] = status[t]
    /\ Report(t)

ServiceSpec == ServiceInit /\ [][ServiceNext]_serviceVars
=============================================================================
