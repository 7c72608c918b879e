SPECIFICATION Spec
CONSTANTS
  Account = {a1, a2, a3}
  SuperAdmins = {a1}
  KeyLists <- MCKeyLists
  Grantable = {"Attester"}
  Pausable = {}
  NoAttestation = NoAttestation
INVARIANT QuorumReachable
