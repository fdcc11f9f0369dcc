---------------------------- MODULE MCPipeline ----------------------------
(* Small instances of Pipeline for TLC.  Symmetry would be sound for the   *)
(* invariants but not for the liveness the same run checks: it is not used.*)
EXTENDS Pipeline, TLC
=============================================================================
