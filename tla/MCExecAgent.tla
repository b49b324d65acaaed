---------------------------- MODULE MCExecAgent ----------------------------
(***************************************************************************)
(* The instances of ExecAgent that TLC checks for safety.                  *)
(***************************************************************************)
EXTENDS ExecAgent, TLC

Symmetry == Permutations(TaskIDs) \cup Permutations(Readers)
=============================================================================
