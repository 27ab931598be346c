------------------------------ MODULE MCWebhooks ------------------------------
(* The hooks share nothing but the numbering of the events. *)
EXTENDS Webhooks, TLC
=============================================================================
