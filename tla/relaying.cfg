SPECIFICATION MCSpec
CONSTANTS
  Request = {r1, r2}
  PoolSize = 1
  HashTimeout = 1
  TimeoutIsText = FALSE
  Bodies <- MCBodies
  HashValidity = 3
  Latency = 1
  Slot = {s1, s2}
  ProviderType <- MCProviderTypes
  SignResults = {"Failure", "point"}
  MaxRequests = 1
INVARIANTS
  HashIsRecent
  RefusedForAWinner
  DelegatesWereSigned
  LockedWhileRunning
  SettledOnTheChoice
CHECK_DEADLOCK FALSE
