---------------------------- MODULE MCKeyPipeline ----------------------------
(* KMS keys as the public keys they are, one digit each.                     *)
EXTENDS KeyPipeline

CONSTANT KeyCount

KeyOf(d) == [n |-> <<d>>, e |-> <<3>>]

MCKey == {KeyOf(d) : d \in 1 .. KeyCount}

MCBootstrap ==
  [a \in Alias |-> CASE a = "previous" -> KeyOf(1) [] a = "current" -> KeyOf(2) [] a = "next" -> KeyOf(3)]
==============================================================================
