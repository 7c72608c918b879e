------------------------ MODULE MCAttestationRounds ------------------------
(* Values for model checking AttestationRounds.                            *)
EXTENDS AttestationRounds

KeyA == [n |-> <<1>>, e |-> <<3>>]
KeyB == [n |-> <<2>>, e |-> <<3>>]

KeyBad == [n |-> <<2>>, e |-> << >>]

\* The same keys in two orders, and two lists that are refused.
MCKeyLists == {<<KeyA, KeyB>>, <<KeyB, KeyA>>, <<KeyA, KeyBad>>, << >>}

=============================================================================
