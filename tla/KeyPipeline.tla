----------------------------- MODULE KeyPipeline -----------------------------
(***************************************************************************)
(* The way of a signing key from KMS to the guard:                         *)
(*                                                                         *)
(*   rotation Lambda -> KMS aliases -> attesters -> attestation contract   *)
(*                                       \-> custom issuer guard           *)
(*                                                                         *)
(* The issuer signs with the key behind "current"; the guard accepts the   *)
(* keys in its list. A KMS key stands for its public key.                  *)
(***************************************************************************)
EXTENDS KeyRotation, Sequences, SequencesExt

CONSTANTS
  AttesterId,     \* the attesters' accounts
  Quorum,         \* the contract's quorum
  Unreliable,     \* attesters that fail, and whose KMS reads a rotation may fall between
  AttestationAccount, \* the attestation contract's account
  NoKeys, Failed

ASSUME AttestersAssumption ==
  IsFiniteSet(AttesterId) /\ Unreliable \subseteq AttesterId /\ Quorum \in Nat \ {0}

\* Every key is made with the same spec (RSA_2048, lambda.py:32), so the moduli
\* have one length and the exponents another.
ASSUME KeysAssumption ==
  /\ Key \subseteq [n : Seq(Nat), e : Seq(Nat)]
  /\ \A k \in Key : k.n # << >>
  /\ \A k, l \in Key : Len(k.n) = Len(l.n) /\ Len(k.e) = Len(l.e)

VARIABLES
  attestations, quorum, publicKeys, grantees, paused,  \* attestation contract
  guardKeys, source, fetches,                           \* custom issuer guard
  at, apiKeys, contractKeys, kmsRead                    \* attesters

contractVars == <<attestations, quorum, publicKeys, grantees, paused>>
guardVars == <<guardKeys, source, fetches>>
runVars == <<at, apiKeys, contractKeys>>
pipelineVars == <<vars, contractVars, guardVars, runVars, kmsRead>>

Att == INSTANCE Attestation WITH
  Account <- AttesterId, SuperAdmins <- {}, KeyLists <- {}, Grantable <- {},
  Pausable <- {}, NoAttestation <- NoKeys

Guard == INSTANCE CustomIssuerGuard WITH
  Contract <- {AttestationAccount}, KeyLists <- {}, ValidKeys <- Key, FetchId <- AttesterId,
  Account <- {}, Daos <- {}, MaxChanges <- 0, None <- NoKeys, publicKeys <- guardKeys,
  attested <- [c \in {AttestationAccount} |-> publicKeys], changes <- 0

Run == INSTANCE Attester

Window == <<alias["previous"], alias["current"], alias["next"]>>

NothingRead == [a \in Alias |-> NoKey]

\* The bootstrap: the first window is attested and synced before the issuer
\* starts (apps/custom-issuer-rotation/README.md:75).
PipelineInit ==
  /\ Init
  /\ Run!Init
  /\ attestations = Att!NoAttestations
  /\ quorum = Quorum
  /\ publicKeys = Run!SortPublicKeys(Window)
  /\ grantees = [r \in Att!Role |-> IF r = "Attester" THEN AttesterId ELSE {}]
  /\ paused = {}
  /\ guardKeys = publicKeys
  /\ source = AttestationAccount
  /\ fetches = [f \in AttesterId |-> NoKeys]
  /\ kmsRead = [a \in AttesterId |-> NothingRead]

CaughtUp == Run!PublicKeysMatch(guardKeys, Window)

\* Thirty days lie between two rotations: the runs and receipts of the last one
\* are over and the guard has caught up. An interrupted rotation, which has
\* begun to retire "previous" or to move the aliases, may be retried at any time.
Settled ==
  /\ \A a \in AttesterId : at[a] = "readKeys" /\ kmsRead[a] = NothingRead /\ fetches[a] = NoKeys
  /\ CaughtUp
  /\ Run!PublicKeysMatch(publicKeys, Window)

Interrupted == ~Clean \/ keyState[alias["previous"]] # "enabled"

Rotate(i) ==
  /\ \/ Invoke(i) /\ (Interrupted \/ Settled)
     \/ Advance(i)
     \/ Crash(i)
  /\ UNCHANGED <<contractVars, guardVars, runVars, kmsRead>>

------------------------------------------------------------------------------
(* The attesters.                                                           *)

\* kms:GetPublicKey answers for enabled keys only.
CanRead(b) == keyState[alias[b]] = "enabled"

\* One of the three reads that getCurrentPublicKeys makes at the same time.
ReadOneKey(a) ==
  /\ a \in Unreliable
  /\ at[a] = "readKeys"
  /\ \E b \in Alias :
       /\ kmsRead[a][b] = NoKey
       /\ CanRead(b)
       /\ kmsRead' = [kmsRead EXCEPT ![a][b] = alias[b]]
  /\ UNCHANGED <<vars, contractVars, guardVars, runVars>>

ReadKeys(a) ==
  /\ \/ /\ a \in Unreliable
        /\ \A b \in Alias : kmsRead[a][b] # NoKey
        /\ Run!KeysRead(a, <<kmsRead[a]["previous"], kmsRead[a]["current"], kmsRead[a]["next"]>>)
     \/ /\ a \notin Unreliable
        /\ \A b \in Alias : CanRead(b)
        /\ Run!KeysRead(a, Window)
  /\ kmsRead' = [kmsRead EXCEPT ![a] = NothingRead]
  /\ UNCHANGED <<vars, contractVars, guardVars>>

\* A key that is disabled or about to be deleted rejects the read, and the run.
ReadFails(a) ==
  /\ at[a] = "readKeys"
  /\ \E b \in Alias : ~CanRead(b) /\ kmsRead[a][b] = NoKey
  /\ Run!Fails(a)
  /\ kmsRead' = [kmsRead EXCEPT ![a] = NothingRead]
  /\ UNCHANGED <<vars, contractVars, guardVars>>

ReadContract(a) ==
  /\ Run!ContractRead(a, publicKeys)
  /\ UNCHANGED <<vars, contractVars, guardVars, kmsRead>>

Attest(a) ==
  /\ Run!Attested(a)
  /\ Att!AttestPublicKeys(a, apiKeys[a])
  /\ UNCHANGED <<vars, guardVars, kmsRead>>

ReadGuard(a) ==
  /\ Run!GuardRead(a, guardKeys)
  /\ UNCHANGED <<vars, contractVars, guardVars, kmsRead>>

Sync(a) ==
  /\ Run!Synced(a)
  /\ Guard!SetPublicKeys(a)
  /\ UNCHANGED <<vars, contractVars, kmsRead>>

\* The broadcast returns when every receipt is final.
SyncDone(a) ==
  /\ fetches[a] = NoKeys
  /\ Run!SyncEnded(a)
  /\ UNCHANGED <<vars, contractVars, guardVars, kmsRead>>

Fail(a) ==
  /\ a \in Unreliable
  /\ at[a] # "readKeys"
  /\ Run!Fails(a)
  /\ kmsRead' = [kmsRead EXCEPT ![a] = NothingRead]
  /\ UNCHANGED <<vars, contractVars, guardVars>>

------------------------------------------------------------------------------
(* The receipts of a sync.                                                  *)

ContractAnswers(a) ==
  /\ Guard!AttestationAnswers(a, publicKeys)
  /\ UNCHANGED <<vars, contractVars, runVars, kmsRead>>

GuardCallback(a) ==
  /\ Guard!OnSetPublicKeysCallback(a)
  /\ UNCHANGED <<vars, contractVars, runVars, kmsRead>>

------------------------------------------------------------------------------

AttesterStep(a) ==
  ReadOneKey(a) \/ ReadKeys(a) \/ ReadFails(a) \/ ReadContract(a) \/ Attest(a)
    \/ ReadGuard(a) \/ Sync(a) \/ SyncDone(a)

SyncReceipt(a) == ContractAnswers(a) \/ GuardCallback(a)

PipelineNext ==
  \/ \E i \in Invocation : Rotate(i)
  \/ \E a \in AttesterId : AttesterStep(a) \/ SyncReceipt(a) \/ Fail(a)

PipelineSpec == PipelineInit /\ [][PipelineNext]_pipelineVars

\* The Lambdas are scheduled and run to their end unless they are killed, the
\* chain executes every receipt, and at some time the attesters stop failing.
PipelineFairSpec ==
  /\ PipelineSpec
  /\ \A i \in Invocation : WF_pipelineVars(Rotate(i) /\ crashes' = crashes)
  /\ \A a \in AttesterId : WF_pipelineVars(AttesterStep(a)) /\ WF_pipelineVars(SyncReceipt(a))
  /\ <>[][\A a \in AttesterId : ~Fail(a)]_pipelineVars

------------------------------------------------------------------------------

\* "Key rotation never invalidates in-flight JWTs" (README.md:32 of the
\* rotation): the key that signs and the key that signed until the last
\* rotation are in the guard's list at every moment.
InFlightVerifiable ==
  {alias["previous"], alias["current"]} \subseteq ToSet(guardKeys)

\* The other way round: besides the window the guard accepts at most one key,
\* the one that the last rotation dropped. Votes, answers and runs from before,
\* and rotations that crashed halfway, bring no older key back ("to be deleted",
\* README.md:13 of the rotation).
DroppedKeysAreRefused ==
  \A k, l \in ToSet(guardKeys) \ ToSet(Window) : k = l

\* The window of every rotation reaches the guard.
GuardCatchesUp == []<>CaughtUp
==============================================================================
