---------------------------- MODULE MCKeyRotation ----------------------------
(* The bootstrap window; the other keys of a model are created in it.        *)
EXTENDS KeyRotation

CONSTANTS k1, k2, k3

MCBootstrap ==
  [a \in Alias |-> CASE a = "previous" -> k1 [] a = "current" -> k2 [] a = "next" -> k3]
==============================================================================
