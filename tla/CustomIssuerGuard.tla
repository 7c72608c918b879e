-------------------------- MODULE CustomIssuerGuard --------------------------
(***************************************************************************)
(* How the custom issuer guard                                             *)
(* (contracts/jwt-guards/custom-issuer-guard/src/lib.rs) gets its keys:    *)
(* anyone calls set_public_keys, the attestation contract of the moment is *)
(* asked for its list, and a callback installs the answer. Receipts of     *)
(* several fetches, new lists and a new source interleave.                 *)
(***************************************************************************)
EXTENDS Naturals, Sequences, SequencesExt

CONSTANTS
  Contract,     \* accounts that the guard may be pointed at
  KeyLists,     \* the lists they may come to publish (bound)
  ValidKeys,    \* the keys assert_valid_public_key accepts: 2048-bit, odd, e = 65537
  FetchId,      \* bound: fetches under way at once
  Account, Daos,
  MaxChanges,   \* bound: lists published and changes of source
  None, Failed

ASSUME GuardBounds == None \notin Contract /\ {None, Failed} \cap KeyLists = {} /\ None # Failed /\ MaxChanges \in Nat

VARIABLES
  publicKeys,   \* public_keys
  source,       \* attestation_contract
  fetches,      \* the promise of each set_public_keys call
  attested,     \* what each contract's get_public_keys returns (external)
  changes       \* counts against MaxChanges

vars == <<publicKeys, source, fetches, attested, changes>>

Valid(keys) == ToSet(keys) \subseteq ValidKeys

Init ==
  /\ publicKeys \in {keys \in KeyLists : Valid(keys)}
  /\ source \in Contract
  /\ fetches = [f \in FetchId |-> None]
  /\ attested \in [Contract -> KeyLists]
  /\ changes = 0

SetPublicKeys(f) ==
  /\ fetches[f] = None
  /\ fetches' = [fetches EXCEPT ![f] = [from |-> source, answer |-> None]]
  /\ UNCHANGED <<publicKeys, source>>

\* The attestation contract's receipt: its list of this moment, or a failure
\* (an account without the contract, too little gas).
AttestationAnswers(f, answer) ==
  /\ fetches[f] # None /\ fetches[f].answer = None
  /\ fetches' = [fetches EXCEPT ![f].answer = answer]
  /\ UNCHANGED <<publicKeys, source>>

\* Mutant: a list is only ever installed once.
FirstAnswer(answer) == answer # Failed /\ Valid(answer) /\ publicKeys = <<>>

Installable(answer) == answer # Failed /\ Valid(answer)

\* A failed answer or an invalid key panics: the list stays.
OnSetPublicKeysCallback(f) ==
  /\ fetches[f] # None /\ fetches[f].answer # None
  /\ publicKeys' = IF Installable(fetches[f].answer) THEN fetches[f].answer ELSE publicKeys
  /\ fetches' = [fetches EXCEPT ![f] = None]
  /\ UNCHANGED source

SetAttestationContract(caller, contract) ==
  /\ caller \in Daos
  /\ source' = contract
  /\ UNCHANGED <<publicKeys, fetches>>

------------------------------------------------------------------------------
(* The guard with contracts that publish any list at any time.              *)

Publish(contract, keys) == attested' = [attested EXCEPT ![contract] = keys] /\ UNCHANGED <<publicKeys, source, fetches>>

Change ==
  /\ changes < MaxChanges
  /\ changes' = changes + 1
  /\ \/ \E contract \in Contract, keys \in KeyLists : Publish(contract, keys)
     \/ \E caller \in Account, contract \in Contract :
          SetAttestationContract(caller, contract) /\ UNCHANGED attested

Ask(f) == SetPublicKeys(f) /\ UNCHANGED <<attested, changes>>

Answered(f) == AttestationAnswers(f, attested[fetches[f].from]) /\ UNCHANGED <<attested, changes>>

NotAnswered(f) == AttestationAnswers(f, Failed) /\ UNCHANGED <<attested, changes>>

Callback(f) == OnSetPublicKeysCallback(f) /\ UNCHANGED <<attested, changes>>

Next ==
  \/ Change
  \/ \E f \in FetchId : Ask(f) \/ Answered(f) \/ NotAnswered(f) \/ Callback(f)

Spec == Init /\ [][Next]_vars

\* set_public_keys is called again and again (the attester syncs on every run
\* whose lists differ), its receipts are executed, and not every fetch fails.
FairSpec ==
  Spec /\ \A f \in FetchId : WF_vars(Ask(f)) /\ SF_vars(Answered(f)) /\ WF_vars(Callback(f))

------------------------------------------------------------------------------

\* No invalid list is ever installed, whatever the source publishes or fails to
\* answer (docs/protocol/advanced/custom-issuer-guard.mdx:100), and the promises
\* have the shape that their receipts give them.
TypeOK ==
  /\ publicKeys \in KeyLists /\ Valid(publicKeys)
  /\ source \in Contract
  /\ fetches \in [FetchId -> {None} \cup [from : Contract, answer : KeyLists \cup {None, Failed}]]

\* Once the source and its list stay the same, the guard ends up with that list
\* for good, if it can install it: late answers of fetches from before, of
\* another contract or of an older list, do not stay.
MirrorsItsSource == <>[](Valid(attested[source]) => publicKeys = attested[source])
==============================================================================
