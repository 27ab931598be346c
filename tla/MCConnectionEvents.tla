-------------------------- MODULE MCConnectionEvents --------------------------
(* The two values a property takes. *)
EXTENDS ConnectionEvents, TLC

CONSTANTS v1, v2
=============================================================================
