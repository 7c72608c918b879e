SPECIFICATION MCSpec
CONSTANTS
  keyA = keyA
  keyB = keyB
  keyShort = keyShort
  Contract = {attestation, other}
  KeyLists <- MCKeyLists
  ValidKeys = {keyA, keyB}
  FetchId = {g1, g2}
  Account = {dao, user}
  Daos = {dao}
  MaxChanges = 2
  None = None
  Failed = Failed
  Caller = {c1, c2}
  PoolLength = 3
  Retries = 1
  Wait = 1
  Backoff = 1
  Fetch = {f1, f2}
  RefreshInterval = 1
  MaxPublished = 2
  MaxClock = 2
  IgnoreExpiration = FALSE
  Shapes <- MCShapes
  InputTokens <- MCTokens
  Families <- MCFamilies
  PageSize = 2
  MaxCalls = 5
  MaxFailures = 1
  NoAnswer = NoAnswer
  DashboardAnswers <- MCAnswers
INVARIANTS
  GivesUpAfterAll
  ExchangesLiveTokens
  DeliversTheMerge
  OldNumbersComeDown
  EveryRowIsOnAPage
PROPERTIES
  MirrorsItsSource
  EveryRpcCallEnds
  KeysConverge
  NumbersComeBack
CHECK_DEADLOCK FALSE
