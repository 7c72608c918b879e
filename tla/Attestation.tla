---------------------------- MODULE Attestation ----------------------------
(***************************************************************************)
(* The attestation contract (contracts/attestation/src/lib.rs): accounts   *)
(* holding the Attester or the DAO role propose a list of RSA public keys, *)
(* and a list proposed by a quorum of accounts becomes the list that the   *)
(* guards read.                                                            *)
(*                                                                         *)
(* Each action is one successful call.  A call that panics leaves no trace *)
(* on the chain, so a require!, a missing role or a paused feature is a    *)
(* conjunct of the action's guard.                                         *)
(***************************************************************************)
EXTENDS Naturals, FiniteSets, Sequences, SequencesExt

CONSTANTS
  Account,        \* the accounts that may call the contract
  SuperAdmins,    \* the super admins given to new(); admins of every role
  KeyLists,       \* the key lists a call may carry (bound)
  Grantable,      \* the roles the acl_* methods move in a run (bound)
  Pausable,       \* the features pa_pause_feature is called with (bound)
  NoAttestation   \* what get_attestation returns for an account without one

Role == {"DAO", "Attester", "PauseManager", "UnpauseManager"}

\* The pausable methods, and the feature that pauses every one of them.
Feature == {"ALL", "attest_public_keys", "set_quorum",
            "grant_attester", "revoke_attester"}

\* A public key is its modulus and exponent, each a string of bytes.
PublicKey == [n : Seq(Nat), e : Seq(Nat)]

ASSUME AccountsAssumption ==
  /\ IsFiniteSet(Account)
  /\ SuperAdmins \subseteq Account
  /\ SuperAdmins # {}                  \* "Must have at least one super admin"

ASSUME BoundsAssumption ==
  /\ KeyLists \subseteq Seq(PublicKey)
  /\ NoAttestation \notin KeyLists
  /\ Grantable \subseteq Role
  /\ Pausable \subseteq Feature

VARIABLES
  attestations,   \* the pending attestation of each account
  quorum,         \* matching attestations needed to replace publicKeys
  publicKeys,     \* the active key list
  grantees,       \* near-plugins access control: the holders of each role
  paused          \* near-plugins pausable: the paused features

vars == <<attestations, quorum, publicKeys, grantees, paused>>

Attesters == grantees["Attester"]

NoAttestations == [a \in Account |-> NoAttestation]

(***************************************************************************)
(* new(): the quorum is positive and no larger than the list of attesters; *)
(* a duplicate in the list fails the grant, so the list is a set.  Every   *)
(* super admin gets the DAO role.                                          *)
(***************************************************************************)
Init ==
  \E attesters \in SUBSET Account :
    /\ quorum \in 1 .. Cardinality(attesters)
    /\ attestations = NoAttestations
    /\ publicKeys = << >>
    /\ paused = {}
    /\ grantees = [r \in Role |-> IF r = "DAO" THEN SuperAdmins
                                ELSE IF r = "Attester" THEN attesters ELSE {}]

-----------------------------------------------------------------------------
(* near-plugins, as the contract uses it.                                  *)

\* #[pause]: a method runs unless it, or every feature, is paused.
NotPaused(feature) == paused \cap {"ALL", feature} = {}

\* #[access_control_any(roles(...))] on the caller.
HasAnyRole(caller, roles) == \E r \in roles : caller \in grantees[r]

\* acl_grant_role and acl_revoke_role answer None, without panicking, to a
\* caller that is not an admin of the role.
GrantRole(caller, role, account) ==
  grantees' = IF caller \in SuperAdmins
              THEN [grantees EXCEPT ![role] = @ \cup {account}]
              ELSE grantees

RevokeRole(caller, role, account) ==
  grantees' = IF caller \in SuperAdmins
              THEN [grantees EXCEPT ![role] = @ \ {account}]
              ELSE grantees

AclGrantRole(caller, role, account) ==
  /\ GrantRole(caller, role, account)
  /\ UNCHANGED <<attestations, quorum, publicKeys, paused>>

AclRevokeRole(caller, role, account) ==
  /\ RevokeRole(caller, role, account)
  /\ UNCHANGED <<attestations, quorum, publicKeys, paused>>

PauseFeature(caller, feature) ==
  /\ HasAnyRole(caller, {"PauseManager", "DAO"})
  /\ paused' = paused \cup {feature}
  /\ UNCHANGED <<attestations, quorum, publicKeys, grantees>>

UnpauseFeature(caller, feature) ==
  /\ HasAnyRole(caller, {"UnpauseManager", "DAO"})
  /\ paused' = paused \ {feature}
  /\ UNCHANGED <<attestations, quorum, publicKeys, grantees>>

-----------------------------------------------------------------------------
(* The contract's methods.                                                 *)

\* The bytes that are hashed: n and e of every key, one after the other.
\* SHA-256 is taken to be injective, so the digest is the bytes themselves.
ComputePublicKeysHash(keys) ==
  FlattenSeq([i \in DOMAIN keys |-> keys[i].n \o keys[i].e])

WellFormed(keys) ==
  /\ keys # << >>
  /\ \A i \in DOMAIN keys : keys[i].n # << >> /\ keys[i].e # << >>

\* The accounts whose attestation in the map att has the hash of keys.
MatchingAny(att, keys) ==  \* mutant: the hash is not compared
  {a \in Account : att[a] # NoAttestation}

Matching(att, keys) ==
  {a \in Account : /\ att[a] # NoAttestation
                   /\ ComputePublicKeysHash(att[a])
                        = ComputePublicKeysHash(keys)}

FirstAttestationStays(caller, keys) ==  \* mutant: insert does not overwrite
  IF attestations[caller] = NoAttestation
  THEN [attestations EXCEPT ![caller] = keys] ELSE attestations

\* The map with the caller's attestation inserted, replacing an earlier one.
WithAttestation(caller, keys) == [attestations EXCEPT ![caller] = keys]

AboveQuorum(att, keys) == Cardinality(Matching(att, keys)) > quorum  \* mutant

ReachesQuorum(att, keys) == Cardinality(Matching(att, keys)) >= quorum

AppendKeys(keys) ==  \* mutant: public_keys is not cleared first
  publicKeys' = publicKeys \o keys /\ attestations' = NoAttestations

InstallKeys(keys) == publicKeys' = keys /\ attestations' = NoAttestations

AttestPublicKeys(caller, keys) ==
  /\ NotPaused("attest_public_keys")
  /\ HasAnyRole(caller, {"Attester", "DAO"})
  /\ WellFormed(keys)
  /\ LET updated == WithAttestation(caller, keys)
     IN  IF ReachesQuorum(updated, keys)
         THEN InstallKeys(keys)
         ELSE attestations' = updated /\ UNCHANGED publicKeys
  /\ UNCHANGED <<quorum, grantees, paused>>

SetQuorum(caller, q) ==
  /\ NotPaused("set_quorum")
  /\ HasAnyRole(caller, {"DAO"})
  /\ q > 0
  /\ q <= Cardinality(Attesters)
  /\ quorum' = q
  /\ UNCHANGED <<attestations, publicKeys, grantees, paused>>

GrantAttester(caller, account) ==
  /\ NotPaused("grant_attester")
  /\ HasAnyRole(caller, {"DAO"})
  /\ GrantRole(caller, "Attester", account)
  /\ UNCHANGED <<attestations, quorum, publicKeys, paused>>

CanSpareNone == quorum <= Cardinality(Attesters)  \* mutant

\* Strictly more attesters than the quorum, whoever is being revoked.
CanSpareAttester == quorum < Cardinality(Attesters)

\* The account's pending attestation stays in the map.
RevokeAttester(caller, account) ==
  /\ NotPaused("revoke_attester")
  /\ HasAnyRole(caller, {"DAO"})
  /\ CanSpareAttester
  /\ RevokeRole(caller, "Attester", account)
  /\ UNCHANGED <<attestations, quorum, publicKeys, paused>>

-----------------------------------------------------------------------------
\* A step of one of the contract's own methods, or of the pausable plugin.
ContractNext ==
  \E caller \in Account :
    \/ \E keys \in KeyLists : AttestPublicKeys(caller, keys)
    \/ \E q \in 1 .. Cardinality(Account) : SetQuorum(caller, q)
    \/ \E account \in Account : GrantAttester(caller, account)
    \/ \E account \in Account : RevokeAttester(caller, account)
    \/ \E feature \in Pausable : PauseFeature(caller, feature)
    \/ \E feature \in Pausable : UnpauseFeature(caller, feature)

\* A step of the role methods that near-plugins adds to the contract.
AclNext ==
  \E caller, account \in Account : \E role \in Grantable :
    \/ AclGrantRole(caller, role, account)
    \/ AclRevokeRole(caller, role, account)

Next == ContractNext \/ AclNext

\* The contract administered through its own methods only, where roles
\* other than Attester may still be handed out.
ManagedNext ==
  \/ ContractNext
  \/ \E caller, account \in Account : \E role \in Grantable \ {"Attester"} :
       \/ AclGrantRole(caller, role, account)
       \/ AclRevokeRole(caller, role, account)

Spec == Init /\ [][Next]_vars

ManagedSpec == Init /\ [][ManagedNext]_vars

-----------------------------------------------------------------------------
\* Every variable holds a value of the contract's type for it; the active
\* list is empty or a list that some call carried.
TypeOK ==
  /\ attestations \in [Account -> KeyLists \cup {NoAttestation}]
  /\ quorum \in Nat \ {0}
  /\ publicKeys \in KeyLists \cup {<< >>}
  /\ grantees \in [Role -> SUBSET Account]
  /\ paused \subseteq Feature

\* Some key list can still reach the quorum: the attesters are never fewer
\* than the quorum, whatever the order of set_quorum, grant_attester and
\* revoke_attester calls (docs/protocol/advanced/attestation.mdx, "Recoverable
\* by construction").
QuorumReachable == quorum <= Cardinality(Attesters)

=============================================================================
