------------------------------ MODULE Attester ------------------------------
(***************************************************************************)
(* One run of the attester (apps/attester/src), for each of the attesters: *)
(* read the keys of the KMS aliases, compare them with the attestation     *)
(* contract's list, attest them when they differ, and then compare the     *)
(* list that was read BEFORE attesting with the guard's and sync the guard *)
(* when those differ. Every await is a step: what was read may be out of   *)
(* date when it is used.                                                   *)
(***************************************************************************)
EXTENDS Naturals, Sequences

CONSTANTS AttesterId, NoKeys

VARIABLES
  at,            \* what each run does next; one that starts reads the keys
  apiKeys,       \* apiPublicKeys
  contractKeys   \* contractPublicKeys

attesterVars == <<at, apiKeys, contractKeys>>

Init ==
  /\ at = [a \in AttesterId |-> "readKeys"]
  /\ apiKeys = [a \in AttesterId |-> NoKeys]
  /\ contractKeys = [a \in AttesterId |-> NoKeys]

\* The orders that the three keys of a window can be put in.
Orders == {<<1, 2, 3>>, <<1, 3, 2>>, <<2, 1, 3>>, <<2, 3, 1>>, <<3, 1, 2>>, <<3, 2, 1>>}

Arranged(keys, order) == <<keys[order[1]], keys[order[2]], keys[order[3]]>>

\* By the modulus, of which the first byte tells the keys of a model apart.
Ascending(keys) == keys[1].n[1] <= keys[2].n[1] /\ keys[2].n[1] <= keys[3].n[1]

\* sortPublicKeys, for the three keys of a window.
SortPublicKeys(keys) ==
  IF Ascending(keys) THEN keys
  ELSE Arranged(keys, CHOOSE order \in Orders : Ascending(Arranged(keys, order)))

\* Mutant: only the lengths of the lists are compared.
LengthsMatch(a, b) == Len(a) = Len(b)

\* publicKeysMatch: both lists sorted, then compared key by key.
PublicKeysMatch(a, b) == SortPublicKeys(a) = SortPublicKeys(b)

Goto(a, s) == at' = [at EXCEPT ![a] = s]

\* keyProvider.getCurrentPublicKeys resolved.
KeysRead(a, keys) ==
  /\ at[a] = "readKeys"
  /\ apiKeys' = [apiKeys EXCEPT ![a] = SortPublicKeys(keys)]
  /\ Goto(a, "readContract")
  /\ UNCHANGED contractKeys

\* Mutant: a run whose keys are up to date ends there.
NothingToDo(match) == IF match THEN "readKeys" ELSE "attest"

\* main: an up-to-date list goes on to sync. (The query for the attester's own
\* attestation changes nothing: both of its outcomes attest.)
ShouldAttest(match) == IF match THEN "readGuard" ELSE "attest"

ContractRead(a, keys) ==
  /\ at[a] = "readContract"
  /\ contractKeys' = [contractKeys EXCEPT ![a] = SortPublicKeys(keys)]
  /\ Goto(a, ShouldAttest(PublicKeysMatch(apiKeys[a], SortPublicKeys(keys))))
  /\ UNCHANGED apiKeys

\* attest_public_keys was executed without a failure.
Attested(a) == at[a] = "attest" /\ Goto(a, "readGuard") /\ UNCHANGED <<apiKeys, contractKeys>>

End(a) ==
  /\ Goto(a, "readKeys")
  /\ apiKeys' = [apiKeys EXCEPT ![a] = NoKeys]
  /\ contractKeys' = [contractKeys EXCEPT ![a] = NoKeys]

GuardRead(a, keys) ==
  /\ at[a] = "readGuard"
  /\ IF PublicKeysMatch(keys, contractKeys[a]) THEN End(a)
     ELSE Goto(a, "sync") /\ UNCHANGED <<apiKeys, contractKeys>>

\* set_public_keys of the guard is on its way; the run waits for its outcome.
Synced(a) == at[a] = "sync" /\ Goto(a, "syncing") /\ UNCHANGED <<apiKeys, contractKeys>>

SyncEnded(a) == at[a] = "syncing" /\ End(a)

\* A rejected promise, a failed transaction or the platform ends the run.
Fails(a) == End(a)
==============================================================================
