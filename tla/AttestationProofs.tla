------------------------- MODULE AttestationProofs --------------------------
(***************************************************************************)
(* Proofs about the attestation contract for any finite set of accounts,   *)
(* any key lists and any number of rounds.  The hash is never unfolded:    *)
(* the results hold for every function of the key list.                    *)
(***************************************************************************)
EXTENDS AttestationRounds, FiniteSetTheorems, TLAPS

-----------------------------------------------------------------------------
(* Type correctness.                                                       *)

\* What the plugin's role methods do to the holders of a role.
LEMMA RolesType ==
  ASSUME TypeOK, NEW caller \in Account, NEW role \in Role,
         NEW account \in Account,
         GrantRole(caller, role, account) \/ RevokeRole(caller, role, account)
  PROVE  grantees' \in [Role -> SUBSET Account]
  BY DEF TypeOK, GrantRole, RevokeRole

LEMMA InitTypeOK == Init => TypeOK
<1> SUFFICES ASSUME Init PROVE TypeOK
  OBVIOUS
<1>1. PICK attesters \in SUBSET Account :
        /\ quorum \in 1 .. Cardinality(attesters)
        /\ grantees = [r \in Role |-> IF r = "DAO" THEN SuperAdmins
                                ELSE IF r = "Attester" THEN attesters ELSE {}]
  BY DEF Init
<1>2. Cardinality(attesters) \in Nat
  BY FS_Subset, FS_CardinalityType, AccountsAssumption
<1>3. quorum \in Nat \ {0}
  BY <1>1, <1>2
<1>4. grantees \in [Role -> SUBSET Account]
  BY <1>1, AccountsAssumption
<1> QED
  BY <1>3, <1>4 DEF Init, TypeOK, NoAttestations

\* Every method keeps the types, the role methods of the plugin included.
LEMMA NextTypeOK == TypeOK /\ [Next]_vars => TypeOK'
<1> SUFFICES ASSUME TypeOK, [Next]_vars PROVE TypeOK'
  OBVIOUS
<1> USE BoundsAssumption
<1>1. ASSUME NEW caller \in Account, NEW keys \in KeyLists,
             AttestPublicKeys(caller, keys)
      PROVE  TypeOK'
  BY <1>1 DEF TypeOK, AttestPublicKeys, WithAttestation,
     InstallKeys, NoAttestations
<1>2. ASSUME NEW caller \in Account, NEW q \in 1 .. Cardinality(Account),
             SetQuorum(caller, q)
      PROVE  TypeOK'
  <2>1. Cardinality(Account) \in Nat
    BY FS_CardinalityType, AccountsAssumption
  <2> QED
    BY <1>2, <2>1 DEF TypeOK, SetQuorum
<1>3. ASSUME NEW caller \in Account, NEW account \in Account,
             \/ GrantAttester(caller, account)
             \/ RevokeAttester(caller, account)
      PROVE  TypeOK'
  <2>1. grantees' \in [Role -> SUBSET Account]
    BY <1>3, RolesType DEF GrantAttester, RevokeAttester, Role
  <2> QED
    BY <1>3, <2>1 DEF TypeOK, GrantAttester, RevokeAttester
<1>4. ASSUME NEW caller \in Account, NEW feature \in Pausable,
             \/ PauseFeature(caller, feature)
             \/ UnpauseFeature(caller, feature)
      PROVE  TypeOK'
  BY <1>4 DEF TypeOK, PauseFeature, UnpauseFeature
<1>5. ASSUME NEW caller \in Account, NEW account \in Account,
             NEW role \in Grantable,
             \/ AclGrantRole(caller, role, account)
             \/ AclRevokeRole(caller, role, account)
      PROVE  TypeOK'
  <2>1. grantees' \in [Role -> SUBSET Account]
    BY <1>5, RolesType DEF AclGrantRole, AclRevokeRole
  <2> QED
    BY <1>5, <2>1 DEF TypeOK, AclGrantRole, AclRevokeRole
<1>6. CASE UNCHANGED vars
  BY <1>6 DEF TypeOK, vars
<1> QED
  BY <1>1, <1>2, <1>3, <1>4, <1>5, <1>6 DEF Next, ContractNext, AclNext

\* The managed contract takes no step that the whole contract could not.
LEMMA ManagedSteps == [ManagedNext]_vars => [Next]_vars
  BY DEF ManagedNext, Next, AclNext

\* The state of the contract keeps its type whoever calls what, in any order,
\* the role methods of near-plugins included.
THEOREM TypeCorrect == Spec => []TypeOK
<1>1. Init => TypeOK
  BY InitTypeOK
<1>2. TypeOK /\ [Next]_vars => TypeOK'
  BY NextTypeOK
<1> QED
  BY <1>1, <1>2, PTL DEF Spec

-----------------------------------------------------------------------------
(* The quorum stays within reach.                                          *)

\* The number of attesters is a natural number, and granting or revoking one
\* role of one account moves it by at most one.
LEMMA AttestersFinite ==
  ASSUME TypeOK
  PROVE  IsFiniteSet(Attesters) /\ Cardinality(Attesters) \in Nat
<1>1. Attesters \in SUBSET Account
  BY DEF TypeOK, Attesters, Role
<1> QED
  BY <1>1, FS_Subset, FS_CardinalityType, AccountsAssumption

LEMMA GrantKeepsQuorum ==
  ASSUME TypeOK, QuorumReachable, NEW caller \in Account,
         NEW account \in Account,
         GrantRole(caller, "Attester", account), quorum' = quorum
  PROVE  QuorumReachable'
<1>1. Attesters' = Attesters \/ Attesters' = Attesters \cup {account}
  BY DEF TypeOK, GrantRole, Attesters, Role
<1>2. Cardinality(Attesters \cup {account})
        = IF account \in Attesters THEN Cardinality(Attesters)
                                   ELSE Cardinality(Attesters) + 1
  BY AttestersFinite, FS_AddElement
<1>3. /\ Cardinality(Attesters') \in Nat
      /\ Cardinality(Attesters') >= Cardinality(Attesters)
  BY <1>1, <1>2, AttestersFinite
<1> QED
  BY <1>3, AttestersFinite DEF QuorumReachable, TypeOK

LEMMA RevokeKeepsQuorum ==
  ASSUME TypeOK, NEW caller \in Account, NEW account \in Account,
         quorum < Cardinality(Attesters),
         RevokeRole(caller, "Attester", account), quorum' = quorum
  PROVE  QuorumReachable'
<1>1. Attesters' = Attesters \/ Attesters' = Attesters \ {account}
  BY DEF TypeOK, RevokeRole, Attesters, Role
<1>2. Cardinality(Attesters') >= Cardinality(Attesters) - 1
  BY <1>1, AttestersFinite, FS_RemoveElement
<1>3. IsFiniteSet(Attesters')
  BY <1>1, AttestersFinite, FS_RemoveElement
<1>4. Cardinality(Attesters') \in Nat
  BY <1>3, FS_CardinalityType
<1> QED
  BY <1>2, <1>4, AttestersFinite DEF QuorumReachable, TypeOK

\* Used through its own methods, the contract never has fewer attesters than
\* its quorum asks for: set_quorum and revoke_attester check against the
\* attesters of the moment, and no other method moves either side down.  The
\* type invariant is all the strengthening this needs.
THEOREM QuorumStaysReachable == ManagedSpec => []QuorumReachable
<1>1. Init => TypeOK /\ QuorumReachable
  <2>1. ASSUME Init PROVE QuorumReachable
    <3>1. PICK attesters \in SUBSET Account :
            /\ quorum \in 1 .. Cardinality(attesters)
            /\ grantees = [r \in Role |-> IF r = "DAO" THEN SuperAdmins
                            ELSE IF r = "Attester" THEN attesters ELSE {}]
      BY <2>1 DEF Init
    <3>2. Attesters = attesters
      BY <3>1 DEF Attesters, Role
    <3> QED
      BY <3>1, <3>2, <2>1, InitTypeOK, AttestersFinite DEF QuorumReachable
  <2> QED
    BY <2>1, InitTypeOK
<1>2. TypeOK /\ QuorumReachable /\ [ManagedNext]_vars
        => TypeOK' /\ QuorumReachable'
  <2> SUFFICES ASSUME TypeOK, QuorumReachable, [ManagedNext]_vars
               PROVE  QuorumReachable'
    BY ManagedSteps, NextTypeOK
  <2>1. ASSUME UNCHANGED <<quorum, grantees>> PROVE QuorumReachable'
    BY <2>1 DEF QuorumReachable, Attesters
  <2>2. ASSUME NEW caller \in Account, NEW q \in 1 .. Cardinality(Account),
               SetQuorum(caller, q)
        PROVE  QuorumReachable'
    BY <2>2 DEF SetQuorum, QuorumReachable, Attesters
  <2>3. ASSUME NEW caller \in Account, NEW account \in Account,
               GrantAttester(caller, account)
        PROVE  QuorumReachable'
    BY <2>3, GrantKeepsQuorum DEF GrantAttester
  <2>4. ASSUME NEW caller \in Account, NEW account \in Account,
               RevokeAttester(caller, account)
        PROVE  QuorumReachable'
    BY <2>4, RevokeKeepsQuorum DEF RevokeAttester, CanSpareAttester
  <2>5. ASSUME NEW caller \in Account, NEW account \in Account,
               NEW role \in Grantable \ {"Attester"},
               \/ AclGrantRole(caller, role, account)
               \/ AclRevokeRole(caller, role, account)
        PROVE  QuorumReachable'
    <3>1. grantees'["Attester"] = grantees["Attester"] /\ quorum' = quorum
      BY <2>5, BoundsAssumption
      DEF TypeOK, AclGrantRole, AclRevokeRole, GrantRole, RevokeRole, Role
    <3> QED
      BY <3>1 DEF QuorumReachable, Attesters
  <2>6. ASSUME NEW caller \in Account, NEW keys \in KeyLists,
               AttestPublicKeys(caller, keys)
        PROVE  QuorumReachable'
    BY <2>6, <2>1 DEF AttestPublicKeys
  <2>7. ASSUME NEW caller \in Account, NEW feature \in Pausable,
               \/ PauseFeature(caller, feature)
               \/ UnpauseFeature(caller, feature)
        PROVE  QuorumReachable'
    BY <2>7, <2>1 DEF PauseFeature, UnpauseFeature
  <2>8. CASE UNCHANGED vars
    BY <2>8, <2>1 DEF vars
  <2> QED
    BY <2>2, <2>3, <2>4, <2>5, <2>6, <2>7, <2>8 DEF ManagedNext, ContractNext
<1> QED
  BY <1>1, <1>2, PTL DEF ManagedSpec

-----------------------------------------------------------------------------
(* Rounds: the contract decides by them, misses no decision and implements *)
(* QuorumRegister.                                                         *)
(*                                                                         *)
(* RoundInv is the inductive invariant: the types of the history, no       *)
(* ballot from a round that has not begun, and the map of attestations     *)
(* equal to the ballots of the round in progress.  The last conjunct is    *)
(* what makes the contract's count and the register's count the same set.  *)

BallotType == [choice : KeyLists \cup {NoAttestation}, round : Nat]

HistoryTypeOK ==
  /\ round \in Nat \ {0}
  /\ ballot \in [Account -> BallotType]
  /\ lowered \in BOOLEAN

\* A ballot of a round that has begun carries a key list.
BallotsCast ==
  \A a \in Account : /\ ballot[a].round <= round
                     /\ ballot[a].round # 0 => ballot[a].choice \in KeyLists

RoundInv == TypeOK /\ HistoryTypeOK /\ BallotsCast /\ PendingAreThisRound

-----------------------------------------------------------------------------
\* The steps other than an attestation leave votes and rounds alone.
LEMMA OtherSteps ==
  ASSUME [RNext]_allVars,
         ~ \E caller \in Account, keys \in KeyLists : RAttest(caller, keys)
  PROVE  /\ UNCHANGED <<attestations, publicKeys, round, ballot>>
         /\ \/ UNCHANGED <<quorum, lowered>>
            \/ \E caller \in Account, q \in 1 .. Cardinality(Account) :
                 RSetQuorum(caller, q)
<1>1. CASE RAdmin
  BY <1>1 DEF RAdmin, history, GrantAttester, RevokeAttester, PauseFeature,
              UnpauseFeature, AclGrantRole, AclRevokeRole
<1>2. CASE UNCHANGED allVars
  BY <1>2 DEF allVars
<1>3. ASSUME NEW caller \in Account, NEW q \in 1 .. Cardinality(Account),
             RSetQuorum(caller, q)
      PROVE  /\ UNCHANGED <<attestations, publicKeys, round, ballot>>
             /\ \E c \in Account, p \in 1 .. Cardinality(Account) :
                  RSetQuorum(c, p)
  BY <1>3 DEF RSetQuorum, SetQuorum
<1> QED
  BY <1>1, <1>2, <1>3 DEF RNext

\* Every step of the specification with history is a step of the contract.
LEMMA RoundSteps == [RNext]_allVars => [Next]_vars
<1> SUFFICES ASSUME [RNext]_allVars PROVE [Next]_vars
  OBVIOUS
<1>1. CASE RAdmin
  BY <1>1 DEF RAdmin, Next, ContractNext, AclNext
<1>2. ASSUME NEW caller \in Account, NEW keys \in KeyLists,
             RAttest(caller, keys)
      PROVE  Next
  BY <1>2 DEF RAttest, Next, ContractNext
<1>3. ASSUME NEW caller \in Account, NEW q \in 1 .. Cardinality(Account),
             RSetQuorum(caller, q)
      PROVE  Next
  BY <1>3 DEF RSetQuorum, Next, ContractNext
<1>4. CASE UNCHANGED allVars
  BY <1>4 DEF allVars, vars
<1> QED
  BY <1>1, <1>2, <1>3, <1>4 DEF RNext

-----------------------------------------------------------------------------
\* What one attestation does, in terms of the votes it counts.
LEMMA AttestEffect ==
  ASSUME RoundInv, NEW caller \in Account, NEW keys \in KeyLists,
         RAttest(caller, keys)
  PROVE  LET updated == [attestations EXCEPT ![caller] = keys]
             support == Matching(updated, keys)
         IN /\ ballot' = [ballot EXCEPT ![caller] =
                            [choice |-> keys, round |-> round]]
            /\ quorum' = quorum
            /\ support = Register!Support(ballot', keys)
            /\ \/ /\ Cardinality(support) >= quorum
                  /\ publicKeys' = keys
                  /\ attestations' = NoAttestations
                  /\ round' = round + 1
                  /\ lowered' = FALSE
               \/ /\ ~ (Cardinality(support) >= quorum)
                  /\ publicKeys' = publicKeys
                  /\ attestations' = updated
                  /\ round' = round
                  /\ lowered' = lowered
<1> DEFINE updated == [attestations EXCEPT ![caller] = keys]
           support == Matching(updated, keys)
<1> USE BoundsAssumption DEF RoundInv, TypeOK, HistoryTypeOK
<1>1. /\ ballot' = [ballot EXCEPT ![caller] = [choice |-> keys, round |-> round]]
      /\ quorum' = quorum
  BY DEF RAttest, AttestPublicKeys
<1>2. support = Register!Support(ballot', keys)
  <2>1. ASSUME NEW a \in Account
        PROVE  /\ ballot'[a].round = round <=> updated[a] # NoAttestation
               /\ ballot'[a].round = round => ballot'[a].choice = updated[a]
    <3>1. CASE a = caller
      BY <1>1, <3>1
    <3>2. CASE a # caller
      <4>1. ballot'[a] = ballot[a] /\ updated[a] = attestations[a]
        BY <1>1, <3>2
      <4>2. attestations[a] =
              IF ballot[a].round = round THEN ballot[a].choice ELSE NoAttestation
        BY DEF PendingAreThisRound
      <4>3. ballot[a].round = round => ballot[a].choice \in KeyLists
        BY DEF BallotsCast
      <4> QED
        BY <4>1, <4>2, <4>3
    <3> QED
      BY <3>1, <3>2
  <2> QED
    BY <2>1 DEF Matching, Register!Support, Agree
<1>3. CASE Cardinality(support) >= quorum
  <2>1. publicKeys' = keys /\ attestations' = NoAttestations
    BY <1>3 DEF RAttest, AttestPublicKeys, WithAttestation, ReachesQuorum,
              InstallKeys
  <2> QED
    BY <1>1, <1>2, <1>3, <2>1 DEF RAttest, Decides
<1>4. CASE ~ (Cardinality(support) >= quorum)
  <2>1. publicKeys' = publicKeys /\ attestations' = updated
    BY <1>4 DEF RAttest, AttestPublicKeys, WithAttestation, ReachesQuorum,
              InstallKeys
  <2>2. updated[caller] = keys /\ NoAttestations[caller] = NoAttestation
    BY DEF NoAttestations
  <2>3. ~ Decides
    BY <2>1, <2>2 DEF Decides
  <2> QED
    BY <1>1, <1>2, <1>4, <2>1, <2>3 DEF RAttest
<1> QED
  BY <1>1, <1>2, <1>3, <1>4

-----------------------------------------------------------------------------
(* The inductive invariant.                                                *)

LEMMA RoundInvInit == RInit => RoundInv
<1> SUFFICES ASSUME RInit PROVE RoundInv
  OBVIOUS
<1>1. TypeOK
  BY InitTypeOK DEF RInit
<1>2. attestations = NoAttestations
  BY DEF RInit, Init
<1>3. HistoryTypeOK /\ BallotsCast
  <2>1. NoBallot \in BallotType
    BY DEF NoBallot, BallotType
  <2>2. round = 1 /\ ballot = [a \in Account |-> NoBallot] /\ lowered = FALSE
    BY DEF RInit
  <2>3. HistoryTypeOK
    <3>1. lowered \in BOOLEAN
      BY <2>2
    <3>2. round \in Nat \ {0} /\ ballot \in [Account -> BallotType]
      BY <2>1, <2>2
    <3> QED
      BY <3>1, <3>2 DEF HistoryTypeOK
  <2>4. BallotsCast
    BY <2>2 DEF BallotsCast, NoBallot
  <2> QED
    BY <2>3, <2>4
<1>4. PendingAreThisRound
  BY <1>2 DEF RInit, PendingAreThisRound, NoBallot, NoAttestations
<1> QED
  BY <1>1, <1>3, <1>4 DEF RoundInv

LEMMA RoundInvStep == RoundInv /\ [RNext]_allVars => RoundInv'
<1> SUFFICES ASSUME RoundInv, [RNext]_allVars PROVE RoundInv'
  OBVIOUS
<1>1. TypeOK'
  BY RoundSteps, NextTypeOK DEF RoundInv
<1>2. ASSUME NEW caller \in Account, NEW keys \in KeyLists,
             RAttest(caller, keys)
      PROVE  HistoryTypeOK' /\ BallotsCast' /\ PendingAreThisRound'
  <2>1. ballot' = [ballot EXCEPT ![caller] = [choice |-> keys, round |-> round]]
    BY <1>2, AttestEffect
  <2>2. \/ /\ round' = round + 1
           /\ attestations' = NoAttestations
           /\ lowered' = FALSE
        \/ /\ round' = round
           /\ attestations' = [attestations EXCEPT ![caller] = keys]
           /\ lowered' = lowered
    BY <1>2, AttestEffect
  <2> USE BoundsAssumption DEF RoundInv, TypeOK, HistoryTypeOK, BallotType
  <2>3. HistoryTypeOK'
    <3>1. ballot' \in [Account -> BallotType]
      BY <2>1
    <3>2. round' \in Nat \ {0}
      BY <2>2
    <3>3. lowered' \in BOOLEAN
      BY <2>2
    <3> QED
      BY <3>1, <3>2, <3>3
  <2>4. BallotsCast'
    BY <2>1, <2>2 DEF BallotsCast
  <2>5. ASSUME round' = round + 1, attestations' = NoAttestations
        PROVE  PendingAreThisRound'
    <3>1. \A a \in Account : ballot'[a].round # round'
      BY <2>1, <2>5 DEF BallotsCast
    <3> QED
      BY <2>5, <3>1 DEF PendingAreThisRound, NoAttestations
  <2>6. ASSUME round' = round,
               attestations' = [attestations EXCEPT ![caller] = keys]
        PROVE  PendingAreThisRound'
    BY <2>1, <2>6 DEF PendingAreThisRound
  <2> QED
    BY <2>2, <2>3, <2>4, <2>5, <2>6
<1>3. CASE ~ \E caller \in Account, keys \in KeyLists : RAttest(caller, keys)
  <2>1. UNCHANGED <<attestations, round, ballot>>
    BY <1>3, OtherSteps
  <2>2. lowered' \in BOOLEAN
    <3>1. ASSUME NEW caller \in Account,
                 NEW q \in 1 .. Cardinality(Account), RSetQuorum(caller, q)
          PROVE  lowered' \in BOOLEAN
      BY <3>1 DEF RSetQuorum, RoundInv, HistoryTypeOK
    <3>2. ASSUME UNCHANGED lowered PROVE lowered' \in BOOLEAN
      BY <3>2 DEF RoundInv, HistoryTypeOK
    <3> QED
      BY <1>3, <3>1, <3>2, OtherSteps
  <2>3. HistoryTypeOK' /\ BallotsCast' /\ PendingAreThisRound'
    BY <2>1, <2>2
    DEF RoundInv, HistoryTypeOK, BallotsCast, PendingAreThisRound
  <2> QED
    BY <1>1, <2>3 DEF RoundInv
<1> QED
  BY <1>1, <1>2, <1>3 DEF RoundInv

\* The map of attestations holds exactly the votes of the round in progress:
\* none survives the clear() that follows a quorum, none is lost before it.
THEOREM MapIsCurrentRound == RSpec => []PendingAreThisRound
<1>1. RoundInv => PendingAreThisRound
  BY DEF RoundInv
<1> QED
  BY <1>1, RoundInvInit, RoundInvStep, PTL DEF RSpec

-----------------------------------------------------------------------------
(* No decision is missed.                                                  *)

LEMMA MatchingFinite ==
  ASSUME NEW att, NEW keys
  PROVE  /\ IsFiniteSet(Matching(att, keys))
         /\ Cardinality(Matching(att, keys)) \in Nat
<1>1. Matching(att, keys) \in SUBSET Account
  BY DEF Matching
<1> QED
  BY <1>1, FS_Subset, FS_CardinalityType, AccountsAssumption

\* An attestation that does not decide leaves every pending list short of the
\* quorum: its own class was just counted, the others can only lose a vote.
LEMMA AttestMissesNothing ==
  ASSUME RoundInv, NoMissedDecision, NEW caller \in Account,
         NEW keys \in KeyLists, RAttest(caller, keys)
  PROVE  NoMissedDecision'
<1> DEFINE updated == [attestations EXCEPT ![caller] = keys]
<1>1. CASE attestations' = NoAttestations
  BY <1>1 DEF NoMissedDecision, NoAttestations
<1>2. CASE /\ ~ (Cardinality(Matching(updated, keys)) >= quorum)
           /\ attestations' = updated
           /\ lowered' = lowered
           /\ quorum' = quorum
  <2> SUFFICES ASSUME NEW a \in Account, ~ lowered,
                      updated[a] # NoAttestation
               PROVE  Cardinality(Matching(updated, updated[a])) < quorum
    BY <1>2 DEF NoMissedDecision
  <2>1. quorum \in Nat
    BY DEF RoundInv, TypeOK
  <2>2. CASE Agree(updated[a], keys)
    <3>1. Matching(updated, updated[a]) = Matching(updated, keys)
      BY <2>2 DEF Matching, Agree
    <3> QED
      BY <1>2, <2>1, <3>1, MatchingFinite
  <2>3. CASE ~ Agree(updated[a], keys)
    <3>1. a # caller /\ updated[a] = attestations[a]
      BY <2>3 DEF Agree, RoundInv, TypeOK
    <3>2. Matching(updated, updated[a])
            \in SUBSET Matching(attestations, attestations[a])
      BY <2>3, <3>1 DEF Matching, Agree, RoundInv, TypeOK
    <3>3. Cardinality(Matching(attestations, attestations[a])) < quorum
      BY <3>1 DEF NoMissedDecision
    <3>4. Cardinality(Matching(updated, updated[a]))
            <= Cardinality(Matching(attestations, attestations[a]))
      BY <3>2, MatchingFinite, FS_Subset
    <3> QED
      BY <2>1, <3>3, <3>4, MatchingFinite
  <2> QED
    BY <2>2, <2>3
<1> QED
  BY <1>1, <1>2, AttestEffect

\* Unless the quorum was lowered during the round, no list is ever left pending
\* with a quorum behind it: the keys change in the very call that completes it.
THEOREM DecisionsAreNotMissed == RSpec => []NoMissedDecision
<1>1. RInit => NoMissedDecision
  BY DEF RInit, Init, NoMissedDecision, NoAttestations
<1>2. RoundInv /\ NoMissedDecision /\ [RNext]_allVars => NoMissedDecision'
  <2> SUFFICES ASSUME RoundInv, NoMissedDecision, [RNext]_allVars
               PROVE  NoMissedDecision'
    OBVIOUS
  <2>1. ASSUME NEW caller \in Account, NEW keys \in KeyLists,
               RAttest(caller, keys)
        PROVE  NoMissedDecision'
    BY <2>1, AttestMissesNothing
  <2>2. ASSUME UNCHANGED attestations,
               ~ lowered' => ~ lowered /\ quorum <= quorum',
               quorum' \in Nat
        PROVE  NoMissedDecision'
    <3> SUFFICES ASSUME NEW a \in Account, ~ lowered',
                        attestations[a] # NoAttestation
                 PROVE  Cardinality(Matching(attestations, attestations[a]))
                          < quorum'
      BY <2>2 DEF NoMissedDecision, Matching
    <3>1. Cardinality(Matching(attestations, attestations[a])) < quorum
      BY <2>2 DEF NoMissedDecision
    <3> QED
      BY <2>2, <3>1, MatchingFinite DEF RoundInv, TypeOK
  <2>3. ASSUME NEW caller \in Account, NEW q \in 1 .. Cardinality(Account),
               RSetQuorum(caller, q)
        PROVE  ~ lowered' => ~ lowered /\ quorum <= quorum'
    <3>1. Cardinality(Account) \in Nat
      BY FS_CardinalityType, AccountsAssumption
    <3>2. lowered' = (IF q < quorum THEN TRUE ELSE lowered) /\ quorum' = q
      BY <2>3 DEF RSetQuorum, SetQuorum
    <3>3. lowered \in BOOLEAN /\ quorum \in Nat /\ q \in Nat
      BY <3>1 DEF RoundInv, HistoryTypeOK, TypeOK
    <3> QED
      BY <3>2, <3>3
  <2>4. CASE ~ \E caller \in Account, keys \in KeyLists :
                 RAttest(caller, keys)
    <3>1. RoundInv'
      BY RoundInvStep
    <3>2. quorum \in Nat /\ quorum' \in Nat
      BY <3>1 DEF RoundInv, TypeOK
    <3>3. ~ lowered' => ~ lowered /\ quorum <= quorum'
      BY <2>3, <2>4, <3>2, OtherSteps
    <3> QED
      BY <2>2, <2>4, <3>2, <3>3, OtherSteps
  <2> QED
    BY <2>1, <2>4
<1> QED
  BY <1>1, <1>2, RoundInvInit, RoundInvStep, PTL DEF RSpec

-----------------------------------------------------------------------------
(* The contract implements the register.                                   *)

\* The cardinality operator of the instance is the one of this module.
LEMMA SameCardinality == \A S : Register!Cardinality(S) = Cardinality(S)
  BY DEF Register!Cardinality, Cardinality

\* With any number of accounts, key lists and rounds, the contract behaves like
\* a register that only the agreement of a quorum, within one round, changes.
\* An attestation is a vote, set_quorum a change of threshold, and every other
\* method a stuttering step of the register.
THEOREM ContractImplementsRegister == RSpec => ImplementsRegister
<1>1. RInit => Register!Init
  <2> SUFFICES ASSUME RInit PROVE Register!Init
    OBVIOUS
  <2>1. TypeOK
    BY InitTypeOK DEF RInit
  <2> QED
    BY <2>1 DEF RInit, Init, Register!Init, TypeOK, NoBallot
<1>2. RoundInv /\ [RNext]_allVars => [Register!Next]_(Register!vars)
  <2> SUFFICES ASSUME RoundInv, [RNext]_allVars
               PROVE  [Register!Next]_(Register!vars)
    OBVIOUS
  <2>1. ASSUME NEW caller \in Account, NEW keys \in KeyLists,
               RAttest(caller, keys)
        PROVE  Register!Vote(caller, keys)
    BY <2>1, AttestEffect, SameCardinality DEF Register!Vote
  <2>2. ASSUME NEW caller \in Account, NEW q \in 1 .. Cardinality(Account),
               RSetQuorum(caller, q)
        PROVE  Register!SetThreshold
    <3>1. quorum' \in Nat \ {0}
      BY RoundInvStep DEF RoundInv, TypeOK
    <3> QED
      BY <2>2, <3>1 DEF RSetQuorum, SetQuorum, Register!SetThreshold
  <2>3. CASE ~ \E caller \in Account, keys \in KeyLists :
                 RAttest(caller, keys)
    BY <2>2, <2>3, OtherSteps DEF Register!Next, Register!vars
  <2> QED
    BY <2>1, <2>3 DEF Register!Next
<1> QED
  BY <1>1, <1>2, RoundInvInit, RoundInvStep, PTL
  DEF RSpec, ImplementsRegister, Register!Spec
=============================================================================
