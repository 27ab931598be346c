-------------------------- MODULE MCRealmConnection --------------------------
(* RealmConnection with every fault of a run leading to a fresh client. *)
EXTENDS RealmConnection

\* A lost client costs at least one fault, so this many are never exceeded.
ASSUME EnoughClients == MaxClients > MaxFaults
=============================================================================
