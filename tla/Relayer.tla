------------------------------ MODULE Relayer ------------------------------
(***************************************************************************)
(* The relayer (apps/relayer): requests are validated, given a signer of   *)
(* the pool in turn, and sent as transactions of that signer's access key. *)
(* The nonce is read from the chain's final state and used one await       *)
(* later; the block hash comes from a cache that every access key query    *)
(* may refresh. A delegate action takes two transactions, the second one   *)
(* made with the signature that the first one's result carries.            *)
(* JavaScript runs one callback at a time: a step of a request is what     *)
(* happens between two awaits of the network.                              *)
(***************************************************************************)
EXTENDS Integers

CONSTANTS
  Request,        \* incoming requests
  PoolSize,       \* how many signers there are; a signer is 0 .. PoolSize - 1
  HashTimeout,    \* near.recentBlockHashTimeout
  TimeoutIsText,  \* it comes from the production secrets, whose values are strings
  Bodies,         \* the request bodies that arrive
  HashValidity,   \* how old a transaction's block may be for the chain
  Latency         \* bound on the time an RPC call takes before it fails

\* What a request is for: its legs are the transactions it takes.
Kinds == {"sign", "delegate", "create"}
LegsOf(kind) == IF kind = "delegate" THEN 2 ELSE 1
RequestAlgorithms == {"eddsa", "ecdsa", "secp256k1"}

\* What validate and the deserialisation of a delegate action look at. A
\* delegate action is decoded as it is or without a prefix of four bytes.
RequestBodies == [kind : Kinds, algorithm : RequestAlgorithms \cup {"other"}, guard : BOOLEAN,
                  issuer : BOOLEAN, payload : BOOLEAN, action : {"plain", "prefixed", "broken"}]

ASSUME RelayerAssumption ==
  /\ PoolSize \in Nat \ {0} /\ HashTimeout \in Nat \ {0} /\ Latency \in Nat
  /\ TimeoutIsText \in BOOLEAN /\ Bodies \subseteq RequestBodies
  /\ HashValidity \in Nat /\ HashTimeout + 2 * Latency <= HashValidity

VARIABLES
  signerIterator, \* NearSignerService.signerIterator
  hashAge,        \* age of recentBlockHash; it starts undefined, as too old
  cacheAge,       \* time since lastRecentBlockHashTime
  relay,          \* the requests being served
  accessNonce,    \* on chain: the nonce of each signer's access key
  finalNonce,     \* the same in the last final block
  landed,         \* on chain: the transactions that were executed
  refused         \* nonces with which a transaction was refused

relayerVars == <<signerIterator, hashAge, cacheAge, relay, accessNonce, finalNonce, landed, refused>>

Signers == 0 .. PoolSize - 1
TooOld == HashValidity + 1
Older(age) == IF age = TooOld THEN TooOld ELSE age + 1

Unserved == [stage |-> "new", kind |-> "sign", algorithm |-> "eddsa", leg |-> 0, signer |-> 0,
             nonce |-> 0, age |-> 0, waited |-> 0, data |-> "none"]

RelayerInit ==
  /\ signerIterator = 0
  /\ hashAge = TooOld /\ cacheAge = TooOld
  /\ relay = [r \in Request |-> Unserved]
  /\ accessNonce = [s \in Signers |-> 0] /\ finalNonce = accessNonce
  /\ landed = {} /\ refused = {}

chain == <<accessNonce, finalNonce, landed, refused>>
client == <<signerIterator, hashAge, cacheAge>>

Become(r, call) == relay' = [relay EXCEPT ![r] = call]

\* Round robin: a signer is given away however many requests it serves.
RequestSigner == signerIterator % PoolSize

\* requestSigner, and the query for its access key on its way.
StartLeg(r, call, leg) ==
  /\ signerIterator' = signerIterator + 1
  /\ Become(r, [call EXCEPT !.stage = "nonce", !.leg = leg, !.waited = 0, !.age = 0,
                            !.signer = RequestSigner])

Answer(r, stage) == Become(r, [relay[r] EXCEPT !.stage = stage, !.waited = 0])

\* validate.
Validated(body) == body.guard /\ body.algorithm \in RequestAlgorithms /\ body.issuer /\ body.payload

\* The first transaction is a call of FastAuth's sign.
SignFastAuthRequest(r, body) ==
  StartLeg(r, [Unserved EXCEPT !.kind = body.kind, !.algorithm = body.algorithm], 1)

\* Without its prefix, or with it: one of the two has to decode.
Decodable(body) == body.action # "broken"

\* The account's contract is called with whatever came.
CreateAccount(r, body) == StartLeg(r, [Unserved EXCEPT !.kind = "create"], 1)

\* RelayerController: requests to create an account are not looked at.
Accepted(body) ==
  \/ body.kind = "create"
  \/ body.kind = "sign" /\ Validated(body)
  \/ body.kind = "delegate" /\ Validated(body) /\ Decodable(body)

Receive(r, body) ==
  /\ relay[r].stage = "new"
  /\ IF ~Accepted(body) THEN Answer(r, "rejected") /\ UNCHANGED signerIterator
     ELSE IF body.kind = "create" THEN CreateAccount(r, body)
     ELSE SignFastAuthRequest(r, body)
  /\ UNCHANGED <<hashAge, cacheAge, chain>>

\* The node answers view_access_key from its last final block.
NodeViews(r) ==
  /\ relay[r].stage = "nonce"
  /\ Become(r, [relay[r] EXCEPT !.stage = "viewed", !.age = 0, !.nonce = finalNonce[relay[r].signer]])
  /\ UNCHANGED <<client, chain>>

\* With a timeout that is text, + joins it to the time of the last refresh: the
\* sum is never in the past again.
Outdated == hashAge = TooOld \/ (~TimeoutIsText /\ cacheAge >= HashTimeout)

\* Mutant: the cached hash never expires once there is one.
NeverRefreshed(age) == hashAge' = IF hashAge = TooOld THEN age ELSE hashAge

\* The block hash that came with the answer replaces an outdated one.
RefreshHash(age) == hashAge' = IF Outdated THEN age ELSE hashAge

\* Mutant: the access key's own nonce.
CurrentNonce(n) == n

SignerNonce(n) == n + 1

\* A signature of the MPC contract is an array of bytes or an affine point with
\* a scalar and a recovery id, by the algorithm asked for.
Payload(algorithm) == IF algorithm = "eddsa" THEN "bytes" ELSE "point"

\* The bytes as they are; a point gives r and s.
RecoverEd25519(payload) == "rs"

\* r, s and the recovery id, of a point only.
RecoverSecp256k1(payload) == IF payload = "point" THEN "rsv" ELSE "none"

Recover(payload, curve) ==
  IF curve = "ed25519" THEN RecoverEd25519(payload) ELSE RecoverSecp256k1(payload)

\* The key type of the delegate action's signature, and what it holds.
CurveOf(algorithm) == IF algorithm = "eddsa" THEN "ed25519" ELSE "secp256k1"
HeldBy(curve) == IF curve = "ed25519" THEN "rs" ELSE "rsv"

\* The encoder wants as many bytes as the key type has.
Encodable(r) == relay[r].data = HeldBy(CurveOf(relay[r].algorithm))

\* query: the answer may refresh the cache.
QueryArrives(age) == RefreshHash(age) /\ cacheAge' = IF Outdated THEN 0 ELSE cacheAge

\* getRecentBlockHash finds the cache just refreshed.
RecentBlockHash == hashAge'

SignTransaction(call, nonce, age) ==
  [call EXCEPT !.stage = "sent", !.nonce = nonce, !.age = age, !.waited = 0]

\* The answer arrives: getSignerNonce, then getRecentBlockHash, and the signed
\* transaction is on its way.
SendTransaction(r) ==
  /\ relay[r].stage = "viewed"
  /\ QueryArrives(relay[r].age)
  /\ IF relay[r].leg = 2 /\ ~Encodable(r) THEN Answer(r, "error")
     ELSE Become(r, SignTransaction(relay[r], SignerNonce(relay[r].nonce), RecentBlockHash))
  /\ UNCHANGED <<signerIterator, chain>>

\* The chain executes a transaction whose block is recent and whose nonce is
\* new; what it calls may succeed or fail.
Execute(r, succeeds) ==
  /\ relay[r].stage = "sent" /\ relay[r].age <= HashValidity
  /\ relay[r].nonce > accessNonce[relay[r].signer]
  /\ accessNonce' = [accessNonce EXCEPT ![relay[r].signer] = relay[r].nonce]
  /\ landed' = landed \cup {[request |-> r, leg |-> relay[r].leg, signer |-> relay[r].signer,
                             nonce |-> relay[r].nonce, ok |-> succeeds]}
  /\ Become(r, [relay[r] EXCEPT !.stage = "landed",
                   !.data = IF succeeds THEN Payload(relay[r].algorithm) ELSE "none"])
  /\ UNCHANGED <<client, finalNonce, refused>>

\* InvalidNonce or Expired: the promise rejects, and so does the request.
Refuse(r) ==
  /\ relay[r].stage = "sent"
  /\ \/ relay[r].nonce <= accessNonce[relay[r].signer]
     \/ relay[r].age > HashValidity
  /\ refused' = refused \cup {[request |-> r, leg |-> relay[r].leg, signer |-> relay[r].signer, nonce |-> relay[r].nonce]}
  /\ Answer(r, "error")
  /\ UNCHANGED <<client, accessNonce, finalNonce, landed>>

\* Mutant: a result without a signature is taken for one.
AnyResult(r) == TRUE

\* FastAuthSignature.fromBase64 of a result that has no SuccessValue throws.
HasSignature(r) == relay[r].data # "none"

\* The result of a leg arrives. A delegate's first leg continues with the
\* second, its signature recovered for recover's default algorithm; any other
\* result is answered as it is, a failed execution included.
ResultArrives(r) ==
  /\ relay[r].stage = "landed"
  /\ IF relay[r].leg < LegsOf(relay[r].kind)
     THEN IF HasSignature(r) THEN StartLeg(r, [relay[r] EXCEPT !.data = Recover(@, "ed25519")], 2)
          ELSE Answer(r, "error") /\ UNCHANGED signerIterator
     ELSE Answer(r, "answered") /\ UNCHANGED signerIterator
  /\ UNCHANGED <<hashAge, cacheAge, chain>>

\* A call to the node fails or its answer is lost: the transaction of a "landed"
\* leg was executed all the same.
RpcFails(r) ==
  /\ relay[r].stage \in {"nonce", "viewed", "sent", "landed"}
  /\ Answer(r, "error")
  /\ UNCHANGED <<client, chain>>

Finalize(s) ==
  /\ finalNonce[s] # accessNonce[s]
  /\ finalNonce' = [finalNonce EXCEPT ![s] = accessNonce[s]]
  /\ UNCHANGED <<client, relay, accessNonce, landed, refused>>

OnTheWire(r) == relay[r].stage \in {"nonce", "viewed", "sent"}

\* Time passes; no call to the node takes longer than Latency.
RelayerTick ==
  /\ \A r \in Request : OnTheWire(r) => relay[r].waited < Latency
  /\ hashAge' = Older(hashAge) /\ cacheAge' = Older(cacheAge)
  /\ relay' = [r \in Request |-> IF OnTheWire(r)
                 THEN [relay[r] EXCEPT !.age = Older(@), !.waited = @ + 1] ELSE relay[r]]
  /\ UNCHANGED <<signerIterator, chain>>

Serve(r) == NodeViews(r) \/ SendTransaction(r) \/ Execute(r, TRUE) \/ Execute(r, FALSE)
              \/ Refuse(r) \/ ResultArrives(r) \/ RpcFails(r)

RelayerNext ==
  \/ \E r \in Request :
       \/ \E body \in Bodies : Receive(r, body)
       \/ Serve(r)
  \/ \E s \in Signers : Finalize(s)
  \/ RelayerTick

RelayerSpec == RelayerInit /\ [][RelayerNext]_relayerVars

------------------------------------------------------------------------------
RelayCalls == [stage : {"new", "rejected", "nonce", "viewed", "sent", "landed", "answered", "error"},
          kind : Kinds, algorithm : RequestAlgorithms, leg : 0 .. 2, signer : Signers,
          nonce : Nat, age : 0 .. TooOld, waited : 0 .. Latency,
          data : {"none", "bytes", "point", "rs", "rsv"}]

\* The fields of a request that is served have their ranges.
RelayerTypeOK ==
  /\ signerIterator \in Nat
  /\ hashAge \in 0 .. TooOld /\ cacheAge \in 0 .. TooOld
  /\ relay \in [Request -> RelayCalls]
  /\ accessNonce \in [Signers -> Nat] /\ finalNonce \in [Signers -> Nat]

\* No transaction is sent with a block hash that the chain finds expired,
\* however long the answer that filled the cache took
\* (near-client.service.ts:35-62).
HashIsRecent == \A r \in Request : relay[r].stage = "sent" => relay[r].age <= HashValidity

\* A transaction refused for its nonce lost it to another one of the same signer,
\* of another request or of the same delegate action: the second leg reads the
\* nonce of the last final block, which may be older than its first leg
\* (relayer.service.ts:42-45).
RefusedForAWinner ==
  \A t \in refused : \E w \in landed :
    w.signer = t.signer /\ w.nonce = t.nonce /\ <<w.request, w.leg>> # <<t.request, t.leg>>

\* The second transaction of a delegate action lands only after the first
\* landed and succeeded, and neither lands twice (relayer.service.ts:73-105).
DelegatesWereSigned ==
  \A w \in landed :
    /\ w.leg = 2 => \E v \in landed : v.request = w.request /\ v.leg = 1 /\ v.ok
    /\ \A v \in landed : v.request = w.request /\ v.leg = w.leg => v = w

=============================================================================
