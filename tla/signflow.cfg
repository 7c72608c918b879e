SPECIFICATION FlowSpec
CONSTANTS
  CallId = {c1}
  Account = {alice}
  Address = {fa, router}
  Self = fa
  RouterAddress = router
  GuardAccount = {"g1", "g2"}
  KindOf <- MCKindOf
  GuardNames <- MCGuardNames
  Jwt = "jwt"
  KeyLists <- MCKeyLists
  MaxTime = 2
  Admins = {}
  Segment <- MCSegment
  EmptySegment = ""
  LongSegment = {}
  Prefixes <- MCPrefixes
  GuardIds <- MCGuardIds
  Users <- MCUsers
  Tokens <- MCTokens
  Payloads = {"tx", "other"}
  Algorithms = {"ecdsa"}
  Deposits = {1}
  Fees = {0}
  Reserve = 0
  KeyVersions = {0}
  DomainIds = {1}
  None = None
INVARIANTS SignsWhatTheTokenSays OnlyLiveTokens OnlyItsAudience
