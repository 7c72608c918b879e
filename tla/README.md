# FastAuth in TLA+

FastAuth lets a web application sign NEAR transactions for a user who only has a
login (Auth0, Firebase). A contract (`FastAuth`) asks a *guard* contract whether
a JWT approves a payload and, if so, asks the MPC contract to sign it for the
path `guard_id#user`. Around it stand the services that issue those JWTs, rotate
the keys they are signed with and bring the public keys to the guard, the relayer
that pays for calls, and the SDKs, providers and pages a user meets.

This directory holds TLA+ models of that system, the TLC runs that check them and
TLAPS proofs about them. Everything is translated from the code; the table `map`
of `PROJECT.json` gives the lines each definition stands for.

```
tlc  -workers 2 -config rotation.cfg MCKeyRotation     # check a run
tlapm RelayerProofs.tla                                # check the proofs
```

## 1. The system

### Components

| Component | State | Operations | Modelled by |
|---|---|---|---|
| FastAuth contract (`contracts/fa`) | owner, pauser, paused, guards, MPC settings, balance | sign, verify, three callbacks, owner and pauser methods | `FastAuth` |
| JWT guard router (`contracts/jwt-guard-router`) | owner, name → guard account | add, remove, change owner, verify, callback | `JwtGuardRouter` |
| JWT guards (`contracts/jwt-guards`) | public keys | verify, set keys | `JwtGuard`, `SignFlow` |
| Custom issuer guard's key list | public keys, attestation contract | set_public_keys and callback, set_attestation_contract | `CustomIssuerGuard` |
| Attestation contract (`contracts/attestation`) | attestations, quorum, keys, roles, pause | attest, set_quorum, grant/revoke, near-plugins methods | `Attestation`, `AttestationRounds` |
| Key rotation Lambda (`apps/custom-issuer-rotation`) | three KMS aliases, KMS keys | one execution: read, create, retire, move aliases | `KeyRotation` |
| Attester (`apps/attester`) | none between runs | one run: read KMS, compare, attest, sync | `Attester`, `KeyPipeline` |
| Relayer (`apps/relayer`) | signer iterator, block hash cache | sign, delegate, create account | `Relayer` |
| NEAR RPC manager (`packages/shared/near`) | current node, last switch | every decorated call: retry, switch, wait | `NearRPC` |
| Pagination merger (`packages/shared/utils`) | undelivered items, next pages | getPage | `PaginationMerger` |
| Custom issuer, NestJS (`apps/custom-issuer`) | validation keys, time of the last refresh | issue, refresh, readyz | `Issuer` |
| Custom issuer, Go (`apps/custom-issuer-go`) | the same and KMS signing keys | the same | not modelled |
| Providers (`packages/providers`) | session, one signature request | login, logout, request, get, isLoggedIn, getPath | `Providers` |
| React SDK client, signer, relayer client (`packages/sdks/react`) | the signer's path | getSigner, createAccount, sign and send | `Sdk` |
| React SDK provider component and hooks | client, hook states | effects, fetches, refetches | `Hooks` |
| Browser SDK and example page (`packages/sdks/browser`, `examples/spa`) | the page's workflow | choose, log in, request, sign, broadcast | `Spa` |
| Auth0 action and form (`packages/auth0`) | the login, the form | decode, prompt, decide, put the claim | `AuthorizeApp` |
| Landing page: metrics and status (`apps/landing`) | the served page, the open page | fetch, check, render, page, tab | `StatusPage` |
| Retry helpers, configuration, marketing pages, documentation, infrastructure | none that changes | – | left out (section 6) |

### How they interact

* A **sign** call is a chain of receipts over up to four contracts:
  `sign → router.verify → guard.verify → router.on_verify_callback →
  on_verify_sign_callback → MPC sign → on_sign_callback`. NEAR runs each receipt
  on its own; other calls, owner methods and new blocks come between any two.
  A method that panics is rolled back; a callback that panics is too, but what
  earlier receipts of the call moved stays moved.
* A **signing key** travels `rotation Lambda → KMS aliases → attesters →
  attestation contract → custom issuer guard`. No two of these share a lock or a
  transaction: each reads what the one before it wrote, some time later.
* The **client** obtains a token from Auth0 or a custom issuer and hands it to
  FastAuth, itself or through the relayer, which pays and chooses a nonce. What the
  provider stored between "approve" and "hand over" is the only link between a user's
  consent and the request that is relayed.

### What is hard, and what must hold

* *Interleaved receipts*: configuration read in a callback, names moved to other
  guards, keys replaced while a token is being verified. The MPC contract must
  only be asked to sign what a live token says, for its own subject
  (`SignFlow`).
* *Money*: one balance holds everybody's deposits. Nobody is paid twice or out of
  another's deposit, and a call gives its deposit back (`FastAuth`).
* *Votes*: attestations outlive roles, quorums and rounds. No vote may cross a
  decision, be lost, or be counted short (`AttestationRounds`).
* *Crashes*: the Lambda can die between any two KMS calls and the next execution
  must tell from the aliases alone what is left (`KeyRotation`).
* *Stale reads*: attesters read KMS while it changes, sync with a list read before
  they attested, and fetches of the guard overlap (`KeyPipeline`,
  `CustomIssuerGuard`); the issuer's refreshes end in any order (`Issuer`).
* *Nonces and block hashes* are read, kept and used awaits later, by requests that
  share a signer (`Relayer`).
* *Overlapping operations of one user*: two approvals, a logout during a login, a
  page that redirects, hooks whose client changes under their fetch (`Providers`,
  `Sdk`, `Hooks`, `Spa`).
* *Consent*: what the form shows is decoded from one encoding of the payload and
  what is signed is another (`AuthorizeApp`).

`PROJECT.json` lists each hazard at its line with the properties that cover it.

## 2. Modules

`MC…` modules only give constants values; `…Proofs` modules hold the proofs. A
module models the whole handler of an operation in one action, or, where the code
awaits, in one action per stretch between two awaits: JavaScript runs nothing else
in between.

### Attestation

`Attestation` is the contract of `contracts/attestation/src/lib.rs`. Each action is
one successful call: `require!`, a missing role and a paused feature are
conjuncts. Roles and the pause switch are those the near-plugins macros generate.
`AttestPublicKeys` is the whole method: overwrite the caller's attestation, count
the attestations with the same hash, and on a quorum install the list and empty
the map. The hash is modelled by what it is taken over, the bytes of all keys one
after the other, so two lists collide exactly where they do in the code.

`AttestationRounds` adds history only: the round, each account's latest ballot and
whether the quorum was lowered. `QuorumRegister` is the abstract specification, a
register that changes when the agreeing votes of one round reach the threshold;
`ImplementsRegister` says the contract implements it (its `register` is
`public_keys`, its `threshold` is `quorum`, equal choices are equal hashes).

### FastAuth, router, guards

`FastAuth` has one action per receipt (`Sign`, `Verify`, `GuardReply`,
`OnVerifyCallback`, `OnVerifySignCallback`, `MpcReply`, `OnSignCallback`) and one
per owner or pauser method. `stage` says which receipt a call waits for, `balance`
is the contract's and `paid` what a call has been transferred. A string is the
sequence of its `#`-separated parts, so that the path `guard_id#user` is a
concatenation and collisions would show. The guard and the MPC contract answer
anything: a failure, what the callback expects, or something it cannot read (a tuple of
the wrong length, what is no `SignResponseAny`), on which the callback panics and moves
nothing (`Unreadable` for the MPC contract's answer).

`JwtGuard` is what a guard answers, a function of its keys, its account and the
time; RS256 is taken to be sound, so "signed with key k" is a fact about a token.
`JwtGuardRouter` is the registry with its forwarding. `SignFlow` composes the
three: the guard's answer comes from the router and a real guard, and time, key
lists and names change between receipts.

### Keys

`KeyRotation` is `lambda.py`, with a step for every KMS call. `Crash` may happen at
any of them and leaves what KMS did. `retire_key` may fail at either of its calls,
which the code swallows. KMS refuses to move an alias to a key pending deletion.

`CustomIssuerGuard` is the guard's fetch and callback with several fetches under way.
`Attester` is one run of `main`, one step per await (it sorts lists of three keys, the
window that KMS always gives it); `KeyPipeline` composes the
Lambda, the attesters, `Attestation` and `CustomIssuerGuard` (with their own
`AttestPublicKeys`, `SetPublicKeys`, `OnSetPublicKeysCallback`), and the three KMS
reads of an attester are steps of their own for the attesters in `Unreliable`, whose
runs may also fail at any await.

`Issuer` is the NestJS issuer: `loadKeys` is asked, answered and ended in three
steps, any number of refreshes at once; a token is exchanged in one turn of the event
loop. Published keys are versions, of which two neighbours share a key as a rotation
does; a response is its status, its content type and what is in it.

### Relayer and RPC

`Relayer` serves requests over a chain that has a last executed and a last final
nonce per access key. `Receive` validates and decodes, `NodeViews`, `SendTransaction`,
`Execute` or `Refuse`, and `ResultArrives` are the awaits of one leg; a delegate
action has two. Ages count time in ticks: `hashAge` of the cached block hash,
`cacheAge` since the cache was filled, `waited` of a call. `TimeoutIsText` is the
configured timeout being a string, with which `+` concatenates.

`NearRPC` is one connection manager with its node pool and the decorator
`NearRPCRateLimit`: a first failure of any kind switches and retries at once, further
rate limits wait at random. (The relayer's uses of the decorator are commented out,
so the two modules do not meet.)

### Clients

`Providers` models the three implementations of `IFastAuthProvider` behind one
interface; `provider` says which is in use. Each operation is an `Op` with a stage
between awaits. After a redirect of the JavaScript provider the promise resolves and
the page lives on: operations go on, new ones start, and `leaving` is what the page will
come back with. `PageUnloads` then ends them all. Identity services are external: they
log in any user and may refuse, a token may be refused to a user who is there, and the
session they restore, like the request in the browser's store, may be an earlier page's.

`Sdk` extends it with the calls of the client and the signer, whose parts are
operations of the provider; other operations of the app (`AppOp`) come in between.
`Hooks` is the context and the three hooks, whose values are the version of the
client they stem from and the fetch that made them: a signer fetched again is another
object, and the effect of `usePublicKey` runs again. `Spa` is the example page over the browser SDK: tasks, the
flags that lock buttons, and effects to run after a render.

`AuthorizeApp` is both triggers of the Auth0 action, the form's rendering of every
kind of action and its two buttons. A payload is what it decodes to and whether its
numbers are bytes already; amounts are in units of 10^13 yoctoNEAR, where the form's
warnings and roundings change.

### Others

`PaginationMerger` is `getPage` with pages arriving in any order, its shallow copies
kept as one object per source. A source may reject: the call's items and page parameters
are lost, `rest` stays as the call has changed it, its other fetches still end (`LatePage`)
and the caller may ask again from its last result. `DeliversTheMerge` says that what the calls deliver is a
prefix of the sorted merge of the sources without building that merge: it is in order,
no item comes more often than the sources have it, and one that is smaller than an item
delivered comes as often as they have it. It says so until a call that rejected has
changed the `rest` of an earlier result (`Spoiled`). Counting needs no recursion, so it can be
proved about as well. `StatusPage` is what the landing and status pages fetch, how little of
it they check, what each component needs, Next.js's regeneration as an external, and
the paging of the tables in the browser.

## 3. Runs

| Run | Question | States | Result |
|---|---|---|---|
| `attestation_rounds` | In any order of calls, role changes and pauses: can the quorum become unreachable, does every decision rest on votes of its own round, is none missed, is `QuorumRegister` implemented? | 229 632 | holds |
| `attestation_acl` | The same quorum invariant with `acl_revoke_role` in reach | – | violated (finding) |
| `fastauth_calls` | Two calls interleaved: path collisions, payments, one call paid from another's deposit | 385 572 (symmetry) | holds |
| `signflow` | The whole chain: what the token says, for whom, with which key, when | 1 028 628 | holds |
| `signflow_owner` | The whole chain with every owner and pauser method of FastAuth between its receipts: frozen while paused, settled when a call is over | 327 168 | holds |
| `signflow_refund` | Is the deposit always returned? | – | violated (finding) |
| `signflow_verify` | Does `verify` through the router resolve to a pair? | – | violated (finding) |
| `rotation` | Rotations with three crashes: signing keys enabled, window in order, no leaked key, recovery ends | 20 333 | holds |
| `pipeline` | A rotation, one of two attesters reading in the middle of it and failing anywhere: are all keys in use in the guard's list, and does the guard catch up? | 411 096 | holds |
| `services` | Side by side: the guard's key list mirrors its source; RPC calls end and a lone one tries every node; the issuer exchanges live tokens and its keys catch up; merged pages are the reference merge, with sources that reject; the status pages drop old numbers and show new ones, every row is on a page | 78 293 | holds |
| `clients` | The React SDK over each provider, its hooks, the Auth0 action with its form: requests handed out once and within a login, a call relays its own request, or an older one if the redirect it asked with has not unloaded the page yet, and ends, hooks show the current client and come to rest, a token is for what was shown | 91 456 | holds |
| `relaying` | The relayer with two requests of every kind on one signer; the example page with its provider chosen anew at any time | 1 541 213 | holds |

Every property of a passing run has a mutant of the code in `PROJECT.json`
(operators marked "Mutant" in the modules) on which TLC finds it violated.

`services`, `clients` and `relaying` each check components that share no state: a
variable `focus` says which one a behaviour is about while the others rest, so that
the state space is the sum of theirs and not the product. A property about one
component says nothing wrong of the others' initial states.

### Bounds

* *Attestation*: three accounts give quorums of 1 to 3 and a majority that is not
  everybody; two lists that agree, disagree or collide are enough for every
  comparison of two votes; `MaxRound = 3` lets a vote of one round meet the next
  and a second decision replace the keys of the first. A list with an empty
  component and the empty list are among those sent. Roles in motion: DAO in
  `attestation_rounds`, Attester in `attestation_acl`.
* *FastAuth*: two calls show every pairwise interference on balance and paths; the
  guard ids and users include two ways of cutting the same path, an empty prefix
  and a user over 256 bytes. A deposit of 2, a fee of 1 and a reserve of 2 make
  the balance run short exactly when a refund is wrong.
* *SignFlow*: tokens of two issuers that share a key, not valid yet, expired, for
  another audience, with a `#` in the subject, too long, or with a signature too
  long; time 0 to 2 crosses each `nbf` and `exp`.
* *KeyRotation*: eight keys allow two rotations with three crashes between them, so
  a crash can hit a recovery and the recovery's recovery. `KeysLeft` spends keys on
  new rotations only while enough are left for recoveries.
* *KeyPipeline*: one rotation, two attesters and a quorum of two; one attester's
  reads straddle the rotation and its runs fail any number of times, the other's do
  not, so that a quorum always holds one whole view. A new rotation starts when the
  last one has settled (30 days pass between two); an interrupted one may be retried
  at any time. The Lambda is not killed in this run: `rotation` has its crashes
  (without the liveness property, `MaxCrashes = 1` and `KeyCount = 5` give 3 373 812
  states, on which `InFlightVerifiable` holds too).
* *CustomIssuerGuard*: two fetches are what it takes to be out of order; a list with
  a key the guard refuses is among those published.
* *NearRPC*: three nodes, any set of which is limited; one retry gives four attempts,
  more than nodes; two callers switch under each other's feet.
* *Issuer*: three versions and two refreshes, so that an answer of an older version
  can end after one of a newer; tokens signed before, with and after the stored
  version, with and without `exp` and `nbf`, and a clock that crosses both.
* *PaginationMerger*: families of two sources whose items interleave, repeat and end
  at different pages, with empty pages anywhere; pages of two items put the end of a
  page before, at and after the end of a source. One call after the first may reject
  (`MaxFailures`; a first call that rejects changed only a `rest` of its own and may do so
  any number of times), at any of its fetches and after any of the others has ended.
* *StatusPage*: answers that lack any one part, errors and text that is not JSON;
  0, 8 and 21 rows are none, one full page of the first table and the last page of
  three of both, whose pages hold 8 and 10. Where a page asks is fixed by its URL;
  each kind of URL is tried on one of the two routes.
* *Providers, Sdk*: two users, one call with its five operations and one operation of
  the app's own, which may be any at any time; the login, logout or approval that
  interferes is that one.
* *Hooks*: three fetches and two versions of the client let a fetch from the first
  end after one from the second.
* *AuthorizeApp*: every kind of action, alone and before a grave one, with amounts on
  both sides of each threshold and rounding of the form.
* *Relayer*: two requests and one signer, the worst case for nonces; a latency and a
  timeout of one tick and a validity of three are the tightest that `RelayerAssumption`
  allows. The theorems cover the other values.
* *Spa*: two tasks at once and a provider chosen twice.

### Fairness

* `FastAuth` and `SignFlow` state safety only and assume none.
* Rotation: weak fairness on invoking (the rule fires every 30 days) and on going
  on; never on crashing, whose number is bounded. `rotation` sets
  `CHECK_DEADLOCK FALSE` because the keys of the model run out; `services`, `clients`
  and `relaying` because their requests, calls and fetches are used up.
* Guard fetches: weak fairness on asking and on callbacks, since NEAR executes every
  receipt, strong fairness on an
  answer that is not a failure: a fetch may fail again and again but not always.
* Attesters: weak fairness on the steps of a run, which is scheduled again and
  again; at some time their runs stop failing for causes of their own (`Fail`). A
  read that KMS refuses (`ReadFails`) is a step of the run and may always happen.
* RPC calls: weak fairness on time and on each call's steps (a node answers or the
  attempt fails); which of the two is never assumed.
* Issuer: weak fairness on time, on readiness probes (the deployment sends them) and
  on answers, strong fairness on a usable answer.
* SDK calls: weak fairness on the call's own steps and on the provider's answers,
  of which a rejection is one. Hooks: weak fairness on effects, which React runs after
  every render, and on the end of fetches, well or badly.
* Status page: weak fairness on the end of the window, on visitors and on a rendering.

## 4. Proofs

TLAPS proves, for every value of the constants:

| Module | Theorem | Says |
|---|---|---|
| `AttestationProofs` | `TypeCorrect` | the type invariant under all calls, near-plugins included |
| | `QuorumStaysReachable` | the quorum never exceeds the attesters, administered by the contract's own methods |
| | `MapIsCurrentRound` | the map is exactly the votes of the round in progress |
| | `DecisionsAreNotMissed` | no list with a quorum behind it is left pending, unless the quorum was lowered |
| | `ContractImplementsRegister` | the contract refines `QuorumRegister` |
| `FastAuthProofs` | `TypeCorrect` | types, and at most one payment of an attached deposit per call |
| | `PathsIdentifyUsers` | one path, one guard id and user |
| | `PausedIsFrozen` | a paused contract keeps its settings and takes no new call |
| | `CallsAreSettled` | a sign call that is over has its deposit back, unless a callback panicked on the guard's answer or on an answer of the MPC contract it cannot read, or the balance was short |
| | `DepositsAreCovered` | with a reserve of one fee for each call there may be, no transfer finds the balance short |
| `SignFlowProofs` | `ChainImplementsFastAuth` | the chain of receipts refines `FastAuth` with a guard that answers anything |
| | `ChainIsSettled`, `ChainIsCovered`, `ChainFrozenWhilePaused` | so what is proved of deposits, of the balance and of the pause holds of the chain |
| | `TokensAreObeyed` | the MPC contract is asked for the token's claim, for the token's subject |
| | `DeadTokensSignNothing` | nothing is signed for a token expired at the call, not valid yet, or of a key its guard has not held since the call |
| | `AudienceIsTheGuard` | an Auth0 guard approves only tokens made for it |
| | `KeysAreOneUsers` | one path, and so one key of the MPC contract, is one subject of one issuer |
| `KeyRotationProofs` | `TypeCorrect` | types, and the new key exists before an alias moves |
| | `CanAlwaysSign` | the keys behind "current" and "next" stay enabled |
| | `WindowSlides` | the window slides key by key, in order |
| | `NoKeyLeaks` | a key that left the window is pending deletion, unless `retire_key` failed on it |
| | `RotationsNeverStick` | no alias update that a rotation still has to make is refused, also after a crash |
| | `InFlightTokensVerify` | the guard always has the key that signs and the one that signed before |
| | `DroppedTokensAreRefused` | and, but for the window, one key at most: the one dropped last |
| | `PipelineImplementsRotation`, `PipelineRotatesSafely` | the pipeline refines the rotation, so what is proved of the Lambda holds in it |
| `RelayerProofs` | `RelayerTypeCorrect` | types; the next signer is one of the pool |
| | `HashesAreRecent` | no transaction is sent with an expired block hash |
| | `RefusedForWinners` | a refused transaction lost its nonce to another one that landed |
| | `DelegatesAreSigned` | the second transaction lands only after the first succeeded, none twice |
| `ProvidersProofs` | `HandsOutOnce` | Firebase and React Native hand a request out once |
| | `NeverAcrossLogins` | Firebase hands out no request stored before a login |
| | `SdkKeepsToProviders` | the React SDK over a provider refines `Providers` with any callers |
| | `RelaysWhatItHadApproved` | a call that nothing overlaps relays the request it had approved itself, and another exactly if it asked with a redirect and its page is not gone yet |
| `ServicesProofs` | `OnlyValidKeys` | no list with a key the guard refuses is ever installed |
| | `IssuerTypeCorrect` | types |
| | `ExchangesAreLive` | exchanged tokens were published, live, and keep their lifetime |
| | `EveryNodeIsTried` | a lone RPC call gives up on rate limits only after every node refused |
| | `OldNumbersStayOnlyBroken` | old numbers stay on a page only when a component threw on an answer that passed the checks |
| | `EveryRowIsReached` | the buttons of a table reach every row and its label names the rows shown |
| | `MergesEverything` | what `getPage` delivers is the beginning of the sorted merge, and all of it once a page says so, until a call that rejects has changed an earlier result |
| `ClientsProofs` | `OneTaskPerLock` | one task of each kind with a button runs, and its button is locked meanwhile |
| | `SignerOfTheClient` | at rest, the page's signer is of the client made last, unless an initialisation or login failed or overlapped |
| | `HooksShowTheClient` | at rest, a hook shows what stems from the current client, unless fetches overlapped |
| | `TheUserSawIt` | a claim that signs was approved by a user who saw every action of that payload |

`ServicesProofs` and `ClientsProofs` each hold the proofs of components that share no
state.

They rest on the named assumptions of the modules, all of which TLC evaluates in the
runs. What a theorem needs beyond them is in its statement:

* `OneAtATime` (rotation): executions of the Lambda do not overlap. Two that do take
  each other's half-done work for a crash, and `SlidesInOrder` fails.
* `FewUnreliable` (`InFlightTokensVerify`): fewer attesters than the quorum read KMS
  while a rotation moves the aliases. With a quorum of them the property is false.
* `FeesAreCovered` (`DepositsAreCovered`): the reserve pays the highest fee of the MPC
  contract for as many calls as there are. Without a reserve a fee is taken out of
  somebody's deposit.
* `~TimeoutIsText` (`HashesAreRecent`, `RefusedForWinners`): the configured timeout is a
  number.
* `Mergeable` (`MergesEverything`): every source's items are in order over its pages, and
  none is falsy. The merger asks for the first; it stops for good at a falsy item.
* `KeysAssumption` (module `KeyPipeline`): the keys of KMS are of one size, as
  `RSA_2048` makes them. Lists of keys of several sizes can share a hash.

### Arguments

* *Attestation*. `QuorumReachable` is inductive with `TypeOK`, using that a grant
  never shrinks the set of attesters and that a revocation removes one at most,
  after `CanSpareAttester` saw one to spare. The rounds need `RoundInv`, which ties
  the map to the ballots; `AttestEffect` then says what one attestation does to
  both, and the refinement is read off it.
* *FastAuth*. `Inv` adds to `TypeOK` that a call past a stage has its arguments, its
  guard's answer and its request, and that the request's path is the guard id
  followed by a user accepted by `verify_sub`. A user without `#` is one part, so
  cutting the last part off a path gives back guard id and user
  (`GuardIdInjective`, `UserInjective`). `CallsAreSettled` is inductive with it: a call
  that is not over was paid nothing, so a refund makes it whole. For
  `DepositsAreCovered`, `BalanceInv` says that the balance is at least the reserve and
  the deposits in flight less the fees. A sum over calls would be a recursion that the
  prover cannot follow; it is the size of a set instead, with one element for each unit
  of an amount and its call (`Held`, `Spent`), and one call's change is a disjoint
  union.
* *SignFlow*. Each step of the chain is a step of `FastAuth` once it is known that what
  the router returns is an answer a guard may give: `HopInv` says what a call's receipts
  at the router and the guard hold and that they are the call's own, `ChainInv` adds
  what is left of that after they have returned. `TokenHolds`, what the guard checked,
  then stays true: a call's arguments never change, time only passes, and `since`
  only collects keys.
* *KeyRotation*. The invariant says what an execution saw against what the aliases
  are at each of its steps, and which of the three shapes (whole, previous =
  current, current = next) the window then has. For `NoKeyLeaks`, `DroppedInv`
  adds that the key "previous" is about to lose has been through `retire_key`.
* *The pipeline*. What makes a list safe to install changes while it travels, so
  `InFlightVerifiable` needs to be said of every list on its way (`ListInv`): those of the
  guard, of the contract, in the answers and in the hands of reliable attesters have
  "previous" and "current", and "next" as soon as a rotation is under way
  (`Covers`, `Committed`). Of unreliable attesters it is only known that their list has
  a key as fresh as the window (`Recent`); of the votes of reliable ones, which may be
  rotations old, that whoever knows a key of the window knows the older ones
  (`InOrder`). A quorum holds a reliable vote, the same list was attested by both, and
  the two facts together are `Covers` (`QuorumCovers`). That equal hashes mean equal
  lists is `HashIsFaithful`, from the sizes of the keys. `SlideKeeps` shows that none of
  the three ways in which the window slides takes any of this from a list; `KmsInv` adds
  to the rotation's invariant that a new key has not been in the window, and so is in no
  old list.
  `DroppedTokensAreRefused` needs neither the quorum nor reliable attesters, since a list
  is only decided by the vote of a run that has just read its keys. `Carried` is every key
  that may yet reach the guard. While the window may begin to slide all of them are in
  it (`DroppedKeysInv`): a rotation starts when everything before it is over, or resumes
  one that has not moved an alias. So "previous", as it leaves, is the only one outside,
  and no other leaves before all is over again. The runs have one rotation, after which
  no second key could be wrong; with a fifth key (`KeyCount = 5`) TLC finds
  `DroppedKeysAreRefused` to hold in 1 701 372 states, and in 500 187 with
  `MaxCrashes = 1` and `Unreliable = {}`, where `ResumeAtNext` in place of
  `DetectRotationStart` breaks it.
* *Relayer*. `RelayerInv` has three parts. `HashInv`: a cached hash was at most
  `Latency` old when the cache's clock started, what a call brings is as old as the
  call at most, so a transaction leaves with a hash of at most
  `HashTimeout + Latency - 1` and waits at most `Latency`; `RelayerAssumption` leaves
  room for both. `LegInv`: what a request's leg and stage say of its transactions that
  landed. `NonceInv`: every nonce that a key has used landed with a transaction, and a
  request works with the next one at most, so a nonce that is refused was used, and
  by `LegInv` not by the refused transaction itself.
* *Providers*. `Kept`: what is stored was approved by an operation that has ended, was
  not handed out, and, with Firebase, was stored since the last login. The JavaScript
  provider keeps nothing of its own (it reads Auth0's cache), so `Kept` is about the
  other two, and `NotJavascript` shows that its steps are not theirs.
* *Sdk*. `SdkInv` says of a call that nothing has overlapped (`AloneInv`) that no
  operation is under way but the one it awaits, that the store and its hands hold no
  request but its own, and, with Firebase, that the user it got its path for is still
  the session's. A call that asked with a redirect is different: its own request comes with
  the next page only, and what it is handed is older. `AskedInv` says that nothing the page
  knows (`Known`: the store, the tokens of operations, what the page left or will come
  back with) is of an operation that still asks for an approval. Overlapping is recorded when it happens, so a step of anybody else
  either concerns no such call or ends its being alone.
* *Issuer*. `NothingNewer`: no keys stored or under way are newer than the published
  ones; the rest follows from what one exchange checks.
* *NearRPC*. While a call is alone it finds the manager where it left it, so its attempts
  go round the pool in turn (`AloneInTurn`): after n of them nodes 0 to n - 1 were
  tried. That a wait always ends in a switch (`sinceSwitch + timer >= Wait`) keeps the
  turn over retries.
* *PaginationMerger*. `MergeInv` says what is left to deliver (`Left`): the pages not
  fetched and, of each source, the end of its last page (`RestIsTail`). Nothing left is
  smaller than anything delivered, and for each item those delivered and those left are
  as many as the sources have. A pick moves one place from `Left` to `Delivered`
  (`PickMoves`), and takes the smallest item left (`PickIsSmallest`), because every source
  that has anything left has fetched it. The numbers are sizes of sets of places. A call
  that rejects untouched leaves all of it as it was, and fetches still under way of such a
  call end its being untouched when a page arrives.
* *StatusPage*. `PageInv` keeps the served page and the open one answers of the dashboard,
  and the table's page below their number; the rows are a fact about division.
* *Spa, Hooks*. Both hold up to a race, and the invariants (`SignerInv`, `HookInv`) say what
  holds until then: one login or fetch at most, from what is there now, and if there is
  none and none is due, the right value is shown.
* *AuthorizeApp*. `ConsentInv` follows a payload from the prompt to the token: the form was
  filled from it, shown in full (`ViewIsRight`) and approved before a claim is put.

Every safety property of the passing runs is stated by a theorem. Only model-checked is
liveness (`RotationsAreFinished`, `GuardCatchesUp`, `MirrorsItsSource`, `KeysConverge` and the other properties under fairness), which is out of this prover's
reach with ENABLED.

## 5. Findings

1. `attestation_acl` — `acl_revoke_role` is public and does not look at the quorum,
   against "can never be configured into a state where no key set could ever reach
   quorum".
2. `signflow_refund` — a subject with `#` makes the callback panic after the deposit
   was taken.
3. `signflow_verify` — the router answers a triple, `on_verify_callback` expects a
   pair.

Observations with no run of their own, by component:

* *Attestation.* `revoke_attester` leaves the revoked account's pending attestation in
  the map, where `attest_public_keys` still counts it (`lib.rs:167`). `set_quorum` does not
  recount: a list that has a lowered quorum behind it waits for one more vote
  (`lib.rs:216`). The hash joins
  the bytes of `n` and `e` without lengths (`attestation.mdx:69`): the one-key lists
  `n = <1,2>, e = <3>` and `n = <1>, e = <2,3>` share a hash.
* *Rotation.* Nothing in the deployment limits its concurrency; two overlapping
  executions move the signing key out of "current" without it ever being "previous".
  The answer of an execution is made from what it read at its start: one that resumes
  with only "next" left answers a "previous" that is no longer behind the alias
  (README.md:81). The README asks for manual correction where the Lambda resumes by itself.
* *Attester.* The three KMS reads can straddle a rotation
  (`aws-kms-key-provider.ts:24`). One attester reading so is harmless, as `pipeline`
  shows; with both attesters in `Unreliable`, `InFlightVerifiable` fails, because a
  quorum that reads alike installs a list without the signing key.
* *FastAuth and router.* `pause` and `unpause` are the pauser's while their comments
  say the owner's (`fa/src/lib.rs:95`). An answer of the MPC contract that is no
  `SignResponseAny` makes `on_sign_callback` panic (line 598) and the deposit, which is
  back by then, stays with the contract. The router's `remove_guard` comment promises a
  storage refund that the code does not make.
* *Relayer.* The MPC's signature of a delegate action is read with the default of
  `recover`, `ed25519`, whatever algorithm was asked for. A `recentBlockHashTimeout` given as
  text makes `+` concatenate, and the cache is then never out of date
  (`TimeoutIsText`).
* *NearRPC.* Two calls that fail together switch twice, and with two nodes end on the
  one that failed.
* *PaginationMerger.* "Copy the rest and page params to avoid modifying the original
  ones" (`pagination-merger.ts:52`) holds of the arrays, not of the objects in `rest`: a
  call that rejects at one source after another one's page arrived, or after it picked an
  item, has changed the result it was made from, and made again from there it repeats or
  loses items. So does resuming from a position that was resumed before.
* *Issuer.* A JSON answer of the keys' address that is not declared as JSON is kept
  whole, as one key nobody signs with. The Firebase provider's request to the issuer
  does not say that its body is JSON (`IssuerReadsText`: whether it is read as such).
* *Providers and React SDK.* The three providers hand the relayer client requests of
  different shapes; a wrapped one or a `Uint8Array` is sent on unread and refused. A
  signing call that asks with a redirect goes on while the page is still there, and relays
  the signing token of an earlier approval if one is cached (`signer.ts:131-136`). With
  Firebase and React Native, of two overlapping requests the later answer stays, also one
  that overlapped another user's login or a logout. A
  hook's `isLoading` is false while an overlapped fetch is still under way, and of
  overlapping fetches the last answer stays, from whichever client.
* *Auth0.* A comment (`index.js:215-216`) says 0.00000000001 NEAR where the code's
  10^16 yoctoNEAR are 0.00000001; `decodeDelegateAction` does not look at the prefix it
  reads; `onContinuePostLogin` goes on when the form sent no decision.
* *Example page.* Of initialisations and logins that overlap the last to end sets the
  signer, also for a provider chosen before. An old signature stays on the page beside a new request; the Auth0
  provider never sets the page's request.
* *Landing page.* "Returns null on failure" (`metrics.ts:1-4`) holds of some failures:
  an answer without one of the parts that is not checked makes a component throw, and
  the page served before stays. The status badges always say "ok" and "Updated … ago" is
  fixed when the page is made. A tab whose breakdown the answer lacks breaks the open
  page.

## 6. Not modelled

* RSA arithmetic and the parsing of tokens and transactions: who signed a token and
  what a payload decodes to are facts about it. Cryptographic soundness is assumed.
* Code upgrades of the contracts (they change no modelled state), views and events.
  FastAuth's `execute`: the owner's raw promise to another contract, without a deposit,
  which changes nothing of FastAuth and has no callback.
* The attester's Google key provider: one request brings all keys, so there is nothing
  to straddle.
* The Go issuer. It is the service that `Issuer` models in another language, with
  these differences: it signs with KMS keys it looks up by itself, refreshes by timer,
  one at a time and not by request, and after a failed refresh keeps the old keys and shortens the
  interval (`keys.go:98`).
* `with-retries`, `cascade` and `timeout-promise`: loops without state that no modelled
  component calls.
* Configuration, `core` and build packages, health endpoints, metrics and exception
  filters: no state a property is about.
* The marketing sections of the landing page, the documentation, the Auth0 playground,
  the MPC test contract and the Terraform modules.

External parts, modelled by how the code uses them: NEAR's receipts, access keys and
nodes, KMS, Auth0 and Firebase, React's effects, and Next.js. Of Next.js the
`StatusPage` assumes that a page is made anew 60 seconds after the last at the next
visit, one rendering at a time; that the old page stays when rendering throws; and that
fetches are only cached when their status was 200.
