---------------------------- MODULE MCExecLive ----------------------------
(***************************************************************************)
(* The instance of ExecAgent that TLC checks for liveness: one reader, and *)
(* no symmetry, which would make temporal checking unsound.                *)
(***************************************************************************)
EXTENDS ExecAgent, TLC
=============================================================================
