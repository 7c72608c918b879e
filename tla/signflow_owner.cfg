SPECIFICATION FlowSpec
CONSTANTS
  CallId = {c1}
  Account = {alice, bob}
  Address = {fa, router, signer}
  Self = fa
  RouterAddress = router
  GuardAccount = {"g1"}
  KindOf <- MCKindOf
  GuardNames <- OneGuardName
  Jwt = "jwt"
  KeyLists <- MCKeyLists
  MaxTime = 0
  Admins = {alice, bob}
  Segment <- MCSegment
  EmptySegment = ""
  LongSegment = {}
  Prefixes <- MCPrefixes
  GuardIds <- OneGuardId
  Users <- MCUsers
  Tokens <- OneToken
  Payloads = {"tx"}
  Algorithms = {"ecdsa"}
  Deposits = {1}
  Fees = {1}
  Reserve = 1
  KeyVersions = {0, 1}
  DomainIds = {1}
  None = None
INVARIANT SettledUnlessPanicked
PROPERTIES FrozenWhilePaused
