SPECIFICATION Spec
CONSTANTS
  CallId = {c1, c2}
  Account = {alice}
  Address = {fa, mpc}
  Self = fa
  Segment <- MCSegment
  EmptySegment = ""
  LongSegment = {"long"}
  Prefixes <- MCPrefixes
  GuardIds <- MCGuardIds
  Users <- MCUsers
  Tokens = {token}
  Payloads = {tx}
  Algorithms = {"ecdsa", "rsa"}
  Deposits = {2}
  Fees = {1}
  Reserve = 2
  KeyVersions = {0}
  DomainIds = {1}
  None = None
SYMMETRY Symmetry
INVARIANTS PathIdentifiesUser NeverShort
