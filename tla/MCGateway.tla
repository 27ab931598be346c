------------------------------- MODULE MCGateway -------------------------------
(* One connection whose property has one value, one hook. *)
EXTENDS Gateway, TLC

CONSTANTS v1
=============================================================================
