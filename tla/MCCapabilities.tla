---------------------------- MODULE MCCapabilities ----------------------------
(* A profile with a property of the provider; a second version adds one and  *)
(* gives the first to the consumer.  Nothing tells the callers apart, nor    *)
(* the connections.                                                          *)
EXTENDS Capabilities, TLC

CONSTANTS p, q

MCRevisions == <<<<p :> TRUE>>, <<p :> TRUE, p :> FALSE @@ q :> TRUE>>>>

Symmetry == Permutations(Callers) \cup Permutations(Conns)
=============================================================================
