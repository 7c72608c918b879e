--------------------------- MODULE MCAttestation ---------------------------
(* Values for model checking Attestation.                                  *)
EXTENDS Attestation

KeyA == [n |-> <<1>>, e |-> <<3>>]

MCKeyLists == {<<KeyA>>}
=============================================================================
