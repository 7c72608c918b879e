SPECIFICATION RSpec
CONSTANTS
  Account = {a1, a2, a3}
  SuperAdmins = {a1}
  KeyLists <- MCKeyLists
  Grantable = {"DAO"}
  Pausable = {"ALL"}
  NoAttestation = NoAttestation
  MaxRound = 3
INVARIANTS TypeOK QuorumReachable PendingAreThisRound NoMissedDecision
PROPERTY ImplementsRegister
