SPECIFICATION MCSpec
CONSTANTS
  CallId = {c1}
  AppOp <- MCApp
  Op <- MCOp
  Earlier = Earlier
  Provider = {"firebase", "javascript", "react native"}
  Adapted = {"react native"}
  User = {u1, u2}
  IssuerReadsText = TRUE
  NoUser = NoUser
  NoRequest = NoRequest
  Fetching = {f1, f2, f3}
  MaxVersions = 2
  AutoFetch = TRUE
  Amounts = {1, 999, 1000, 1001, 2500}
  Payloads <- MCPayloads
  Absence = Absence
INVARIANTS
  NotAcrossLogins
  HandedOnce
  RelaysItsOwn
  ShowsTheCurrentClient
  SignedAsShown
PROPERTIES
  CallsEnd
  HooksComeToRest
CHECK_DEADLOCK FALSE
