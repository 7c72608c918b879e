SPECIFICATION FlowSpec
CONSTANTS
  CallId = {c1}
  Account = {alice}
  Address = {fa, router, signer}
  Self = fa
  RouterAddress = router
  GuardAccount = {"g1"}
  KindOf <- MCKindOf
  GuardNames <- OneGuardName
  Jwt = "jwt"
  KeyLists <- MCKeyLists
  MaxTime = 1
  Admins = {}
  Segment <- MCSegment
  EmptySegment = ""
  LongSegment = {}
  Prefixes <- MCPrefixes
  GuardIds <- OneGuardId
  Users <- MCUsers
  Tokens <- OneToken
  Payloads = {"tx"}
  Algorithms = {"ecdsa"}
  Deposits = {1}
  Fees = {1}
  Reserve = 1
  KeyVersions = {0}
  DomainIds = {1}
  None = None
INVARIANTS VerifyResolves
