------------------------ MODULE AttestationRounds --------------------------
(***************************************************************************)
(* The attestation contract with a record of what happened, against which  *)
(* its decisions are judged.  The contract clears its map of attestations  *)
(* when a quorum is reached and never looks at who holds a role when it    *)
(* counts; the history below numbers the rounds instead of clearing.       *)
(* History variables only observe: the steps are those of Attestation.     *)
(***************************************************************************)
EXTENDS Attestation

CONSTANT MaxRound      \* bound on the number of rounds begun

VARIABLES
  round,      \* 1 + the number of quorums reached
  ballot,     \* each account's latest attestation and the round it fell in
  lowered     \* the quorum was lowered since the last round began

history == <<round, ballot, lowered>>

allVars == <<attestations, quorum, publicKeys, grantees, paused,
             round, ballot, lowered>>

NoBallot == [choice |-> NoAttestation, round |-> 0]

RInit ==
  /\ Init
  /\ round = 1
  /\ ballot = [a \in Account |-> NoBallot]
  /\ lowered = FALSE

\* The accounts that have attested in the current round, in the ballots b, a
\* list that hashes like keys.
Counted(b, keys) ==
  {a \in Account : /\ b[a].round = round
                   /\ ComputePublicKeysHash(b[a].choice)
                        = ComputePublicKeysHash(keys)}

\* A call that reached the quorum empties the map.
Decides == attestations' = NoAttestations

RAttest(caller, keys) ==
  /\ AttestPublicKeys(caller, keys)
  /\ ballot' = [ballot EXCEPT ![caller] = [choice |-> keys, round |-> round]]
  /\ IF Decides
     THEN /\ round < MaxRound
          /\ round' = round + 1
          /\ lowered' = FALSE
     ELSE UNCHANGED <<round, lowered>>

RSetQuorum(caller, q) ==
  /\ SetQuorum(caller, q)
  /\ lowered' = IF q < quorum THEN TRUE ELSE lowered
  /\ UNCHANGED <<round, ballot>>

\* The steps of the managed contract that move no vote and no threshold.
RAdmin ==
  /\ \E caller \in Account :
       \/ \E account \in Account : GrantAttester(caller, account)
       \/ \E account \in Account : RevokeAttester(caller, account)
       \/ \E feature \in Pausable : PauseFeature(caller, feature)
       \/ \E feature \in Pausable : UnpauseFeature(caller, feature)
       \/ \E account \in Account, role \in Grantable \ {"Attester"} :
            \/ AclGrantRole(caller, role, account)
            \/ AclRevokeRole(caller, role, account)
  /\ UNCHANGED history

RNext ==
  \/ \E caller \in Account, keys \in KeyLists : RAttest(caller, keys)
  \/ \E caller \in Account, q \in 1 .. Cardinality(Account) :
       RSetQuorum(caller, q)
  \/ RAdmin

RSpec == RInit /\ [][RNext]_allVars

-----------------------------------------------------------------------------
\* Two lists are the same vote when their hashes agree.
Agree(k1, k2) == ComputePublicKeysHash(k1) = ComputePublicKeysHash(k2)

Register == INSTANCE QuorumRegister WITH
  Voter     <- Account,
  Choice    <- KeyLists,
  Empty     <- << >>,
  register  <- publicKeys,
  threshold <- quorum

\* The contract implements the voting register: emptying the map on a quorum
\* has the effect of starting a round in which no earlier vote counts, an
\* account's second attestation replaces its first, and nothing but a quorum of
\* matching attestations of one round changes the keys (lib.rs 148-185).
ImplementsRegister == Register!Spec

\* The map holds exactly the votes of the round in progress: an attestation
\* cast before the keys were last replaced is never counted again, and a vote
\* cast since then is never lost, revoked attester or not.
PendingAreThisRound ==
  \A a \in Account :
    attestations[a] =
      IF ballot[a].round = round THEN ballot[a].choice ELSE NoAttestation

\* No decision is missed: as long as the quorum was not lowered in this round,
\* no list is pending with as many supporters as the quorum asks for.
\* set_quorum does not recount, so the condition is needed.
NoMissedDecision ==
  \A a \in Account :
    (~lowered /\ attestations[a] # NoAttestation)
      => Cardinality(Matching(attestations, attestations[a])) < quorum

=============================================================================
