-------------------------- MODULE MCRuntimeConfig --------------------------
(***************************************************************************)
(* The instances of RuntimeConfig that TLC checks.                         *)
(***************************************************************************)
EXTENDS RuntimeConfig

\* Statistics run at first; a configuration may turn them off or on again with
\* another clock, change the other field, or be invalid.
MCStart == [net |-> 1, rest |-> "a"]

MCConfigs ==
  {[net |-> 0, rest |-> Absent, valid |-> TRUE],
   [net |-> 2, rest |-> Absent, valid |-> TRUE],
   [net |-> Absent, rest |-> "b", valid |-> TRUE],
   [net |-> 2, rest |-> "b", valid |-> FALSE]}

\* For liveness: a configuration that turns the statistics off, or fails to.
MCSwitchOff == {[net |-> 0, rest |-> Absent, valid |-> TRUE]}
=============================================================================
