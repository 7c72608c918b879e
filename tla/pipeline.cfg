SPECIFICATION PipelineFairSpec
CONSTANTS
  Invocation = {i1}
  KeyCount = 4
  Key <- MCKey
  NoKey = NoKey
  Bootstrap <- MCBootstrap
  MaxCrashes = 0
  AttesterId = {a1, a2}
  Quorum = 2
  Unreliable = {a1}
  AttestationAccount = attestation
  NoKeys = NoKeys
  Failed = Failed
INVARIANT
  InFlightVerifiable
PROPERTY
  GuardCatchesUp
