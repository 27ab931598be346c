--------------------------- MODULE MCDeclarations ---------------------------
(* One node with one context, and the declarations the .cfg gives it. *)
EXTENDS Declarations, TLC

CONSTANTS n, c

MCNodes == {n}
MCContexts == {c}
MCParent == [p \in {c} \cup Decls |-> IF p = c THEN n ELSE c]

HandlerSymmetry == Permutations(Handlers)
=============================================================================
