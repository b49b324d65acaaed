----------------------------- MODULE MCTaskLog -----------------------------
(***************************************************************************)
(* The instance of TaskLog that TLC checks.                                *)
(***************************************************************************)
EXTENDS TaskLog, TLC

TaskSymmetry == Permutations(TaskIDs)
=============================================================================
