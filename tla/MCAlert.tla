------------------------------ MODULE MCAlert ------------------------------
(* Small instances of AlertEngine for TLC: a rule, a trace and a client. *)
EXTENDS AlertEngine

CONSTANTS r1, k1, c1
=============================================================================
