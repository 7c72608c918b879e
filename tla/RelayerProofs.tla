----------------------------- MODULE RelayerProofs -----------------------------
(***************************************************************************)
(* Proofs about the relayer for any number of requests and signers and any *)
(* timeout, latency and validity that go together.                         *)
(***************************************************************************)
EXTENDS Relayer, TLAPS

-----------------------------------------------------------------------------
(* Type correctness.                                                       *)

\* The signer that is next is one of the pool.
LEMMA SignerOfThePool == RelayerTypeOK => RequestSigner \in Signers
  BY RelayerAssumption DEF RelayerTypeOK, RequestSigner, Signers

LEMMA OlderType == ASSUME NEW age \in 0 .. TooOld PROVE Older(age) \in 0 .. TooOld
  BY RelayerAssumption DEF Older, TooOld

LEMMA UnservedType == Unserved \in RelayCalls
  BY RelayerAssumption DEF Unserved, RelayCalls, Kinds, RequestAlgorithms, Signers, TooOld

\* A call that ends or goes on to its next stage.
LEMMA AnswerType ==
  ASSUME RelayerTypeOK, NEW r \in Request,
         NEW stage \in {"new", "rejected", "nonce", "viewed", "sent", "landed", "answered", "error"},
         Answer(r, stage)
  PROVE  relay' \in [Request -> RelayCalls]
<1>1. relay[r] \in RelayCalls /\ 0 \in 0 .. Latency
  BY RelayerAssumption DEF RelayerTypeOK
<1>2. [relay[r] EXCEPT !.stage = stage, !.waited = 0] \in RelayCalls
  BY <1>1 DEF RelayCalls
<1> QED
  BY <1>2 DEF RelayerTypeOK, Answer, Become

LEMMA AnswerFields ==
  ASSUME RelayerTypeOK, NEW r \in Request, NEW stage, Answer(r, stage)
  PROVE  /\ relay'[r].stage = stage /\ relay'[r].leg = relay[r].leg
         /\ relay'[r].kind = relay[r].kind /\ relay'[r].data = relay[r].data
         /\ \A q \in Request : q # r => relay'[q] = relay[q]
<1>1. relay[r] \in RelayCalls
  BY DEF RelayerTypeOK
<1>2. relay' = [relay EXCEPT ![r] = [relay[r] EXCEPT !.stage = stage, !.waited = 0]]
  BY DEF Answer, Become
<1>3. relay'[r] = [relay[r] EXCEPT !.stage = stage, !.waited = 0]
  BY <1>2 DEF RelayerTypeOK
<1> QED
  BY <1>1, <1>2, <1>3 DEF RelayerTypeOK, RelayCalls

LEMMA StartLegType ==
  ASSUME RelayerTypeOK, NEW r \in Request, NEW call \in RelayCalls, NEW leg \in 0 .. 2,
         StartLeg(r, call, leg)
  PROVE  relay' \in [Request -> RelayCalls] /\ signerIterator' \in Nat
<1>0. 0 \in 0 .. TooOld /\ 0 \in 0 .. Latency
  BY RelayerAssumption DEF TooOld
<1>1. [call EXCEPT !.stage = "nonce", !.leg = leg, !.waited = 0, !.age = 0,
                   !.signer = RequestSigner] \in RelayCalls
  BY <1>0, SignerOfThePool DEF RelayCalls
<1> QED
  BY <1>1 DEF RelayerTypeOK, StartLeg, Become

LEMMA InitTypeOK == RelayerInit => RelayerTypeOK
  BY UnservedType, RelayerAssumption DEF RelayerInit, RelayerTypeOK, TooOld

LEMMA ReceiveType ==
  ASSUME RelayerTypeOK, NEW r \in Request, NEW body \in Bodies, Receive(r, body)
  PROVE  RelayerTypeOK'
<1>1. CASE ~Accepted(body)
  BY <1>1, AnswerType DEF Receive, RelayerTypeOK, chain
<1>2. CASE Accepted(body) /\ body.kind = "create"
  <2>1. [Unserved EXCEPT !.kind = "create"] \in RelayCalls
    BY UnservedType DEF RelayCalls, Kinds
  <2> QED
    BY <1>2, <2>1, StartLegType DEF Receive, CreateAccount, RelayerTypeOK, chain
<1>3. CASE Accepted(body) /\ body.kind # "create"
  <2>1. body.kind \in Kinds /\ body.algorithm \in RequestAlgorithms
    BY <1>3, RelayerAssumption DEF Accepted, Validated, Kinds
  <2>2. [Unserved EXCEPT !.kind = body.kind, !.algorithm = body.algorithm] \in RelayCalls
    BY <2>1, UnservedType DEF RelayCalls
  <2> QED
    BY <1>3, <2>2, StartLegType DEF Receive, SignFastAuthRequest, RelayerTypeOK, chain
<1> QED
  BY <1>1, <1>2, <1>3

LEMMA NodeViewsType ==
  ASSUME RelayerTypeOK, NEW r \in Request, NodeViews(r) PROVE RelayerTypeOK'
<1>1. finalNonce[relay[r].signer] \in Nat
  BY DEF RelayerTypeOK, RelayCalls
<1>0. relay[r] \in RelayCalls /\ 0 \in 0 .. TooOld
  BY RelayerAssumption DEF RelayerTypeOK, TooOld
<1>2. [relay[r] EXCEPT !.stage = "viewed", !.age = 0, !.nonce = finalNonce[relay[r].signer]] \in RelayCalls
  BY <1>0, <1>1 DEF RelayCalls
<1>3. relay' \in [Request -> RelayCalls]
  BY <1>2 DEF NodeViews, RelayerTypeOK, Become
<1> QED
  BY <1>3 DEF NodeViews, RelayerTypeOK, client, chain

LEMMA SendType ==
  ASSUME RelayerTypeOK, NEW r \in Request, SendTransaction(r) PROVE RelayerTypeOK'
<1>1. relay[r] \in RelayCalls
  BY DEF RelayerTypeOK
<1>2. hashAge' \in 0 .. TooOld /\ cacheAge' \in 0 .. TooOld
  BY <1>1, RelayerAssumption
  DEF SendTransaction, QueryArrives, RefreshHash, RelayerTypeOK, RelayCalls, TooOld
<1>3. relay' \in [Request -> RelayCalls]
  <2>0. 0 \in 0 .. Latency /\ SignerNonce(relay[r].nonce) \in Nat
    BY <1>1, RelayerAssumption DEF SignerNonce, RelayCalls
  <2>1. SignTransaction(relay[r], SignerNonce(relay[r].nonce), RecentBlockHash) \in RelayCalls
    BY <1>1, <1>2, <2>0 DEF SignTransaction, RecentBlockHash, RelayCalls
  <2> QED
    BY <2>1, AnswerType DEF SendTransaction, Become, RelayerTypeOK
<1> QED
  BY <1>2, <1>3 DEF SendTransaction, RelayerTypeOK, chain

LEMMA ExecuteType ==
  ASSUME RelayerTypeOK, NEW r \in Request, NEW ok \in BOOLEAN, Execute(r, ok) PROVE RelayerTypeOK'
<1>1. relay[r] \in RelayCalls
  BY DEF RelayerTypeOK
<1>2. Payload(relay[r].algorithm) \in {"none", "bytes", "point", "rs", "rsv"}
  BY DEF Payload
<1>3. relay' \in [Request -> RelayCalls]
  BY <1>1, <1>2 DEF Execute, Become, RelayerTypeOK, RelayCalls
<1>4. accessNonce' \in [Signers -> Nat]
  BY <1>1 DEF Execute, RelayerTypeOK, RelayCalls
<1> QED
  BY <1>3, <1>4 DEF Execute, RelayerTypeOK, client

LEMMA RefuseType ==
  ASSUME RelayerTypeOK, NEW r \in Request, Refuse(r) \/ RpcFails(r) PROVE RelayerTypeOK'
  BY AnswerType DEF Refuse, RpcFails, RelayerTypeOK, client, chain

LEMMA ResultType ==
  ASSUME RelayerTypeOK, NEW r \in Request, ResultArrives(r) PROVE RelayerTypeOK'
<1>1. relay[r] \in RelayCalls
  BY DEF RelayerTypeOK
<1>2. [relay[r] EXCEPT !.data = Recover(@, "ed25519")] \in RelayCalls
  BY <1>1 DEF Recover, RecoverEd25519, RecoverSecp256k1, RelayCalls
<1>3. relay' \in [Request -> RelayCalls] /\ signerIterator' \in Nat
  BY <1>2, StartLegType, AnswerType DEF ResultArrives, RelayerTypeOK
<1> QED
  BY <1>3 DEF ResultArrives, RelayerTypeOK, chain

LEMMA FinalizeType ==
  ASSUME RelayerTypeOK, NEW s \in Signers, Finalize(s) PROVE RelayerTypeOK'
  BY DEF Finalize, RelayerTypeOK, client

LEMMA TickType == RelayerTypeOK /\ RelayerTick => RelayerTypeOK'
<1> SUFFICES ASSUME RelayerTypeOK, RelayerTick PROVE RelayerTypeOK'
  OBVIOUS
<1>1. hashAge' \in 0 .. TooOld /\ cacheAge' \in 0 .. TooOld
  BY OlderType DEF RelayerTick, RelayerTypeOK
<1>2. ASSUME NEW r \in Request, OnTheWire(r)
      PROVE  [relay[r] EXCEPT !.age = Older(@), !.waited = @ + 1] \in RelayCalls
  <2>1. relay[r] \in RelayCalls
    BY DEF RelayerTypeOK
  <2>2. Older(relay[r].age) \in 0 .. TooOld
    BY <2>1, OlderType DEF RelayCalls
  <2>3. relay[r].waited + 1 \in 0 .. Latency
    <3>1. relay[r].waited < Latency
      BY <1>2 DEF RelayerTick
    <3>2. relay[r].waited \in 0 .. Latency
      BY <2>1 DEF RelayCalls
    <3> QED
      BY <3>1, <3>2, RelayerAssumption
  <2> QED
    BY <2>1, <2>2, <2>3 DEF RelayCalls
<1>3. relay' \in [Request -> RelayCalls]
  BY <1>2 DEF RelayerTick, RelayerTypeOK
<1> QED
  BY <1>1, <1>3 DEF RelayerTick, RelayerTypeOK, chain

LEMMA NextTypeOK == RelayerTypeOK /\ [RelayerNext]_relayerVars => RelayerTypeOK'
<1> SUFFICES ASSUME RelayerTypeOK, [RelayerNext]_relayerVars PROVE RelayerTypeOK'
  OBVIOUS
<1>1. ASSUME NEW r \in Request, Serve(r) PROVE RelayerTypeOK'
  BY <1>1, NodeViewsType, SendType, ExecuteType, RefuseType, ResultType DEF Serve
<1>2. CASE UNCHANGED relayerVars
  BY <1>2 DEF relayerVars, RelayerTypeOK
<1> QED
  BY <1>1, <1>2, ReceiveType, FinalizeType, TickType DEF RelayerNext

-----------------------------------------------------------------------------
(* The age of block hashes, with a timeout that is a number.               *)

\* The oldest hash that is taken from the cache: not outdated, or just come.
OldestCached == HashTimeout + Latency - 1

\* A cached hash was Latency old at most when the clock of the cache started;
\* what a call brings is as old as the call at most, and what a transaction
\* took from the cache has aged since then.
HashInv ==
  /\ hashAge = TooOld \/ hashAge <= cacheAge + Latency
  /\ \A r \in Request :
       /\ relay[r].stage = "viewed" => relay[r].age <= relay[r].waited
       /\ relay[r].stage = "sent" => relay[r].age <= OldestCached + relay[r].waited

AgeInv == RelayerTypeOK /\ HashInv

LEMMA InitAge == RelayerInit => HashInv
  BY DEF RelayerInit, HashInv, Unserved

\* A request that starts, starts again, or ends has no hash under way.
LEMMA OtherStages ==
  ASSUME AgeInv, NEW r \in Request, NEW call \in RelayCalls, call.stage \notin {"viewed", "sent"},
         Become(r, call), UNCHANGED <<hashAge, cacheAge>>
  PROVE  HashInv'
  BY DEF AgeInv, RelayerTypeOK, HashInv, Become, OldestCached

LEMMA AnswerAge ==
  ASSUME AgeInv, NEW r \in Request, NEW stage \in {"rejected", "landed", "answered", "error"},
         Answer(r, stage), UNCHANGED <<hashAge, cacheAge>>
  PROVE  HashInv'
<1>1. relay[r] \in RelayCalls /\ 0 \in 0 .. Latency
  BY RelayerAssumption DEF AgeInv, RelayerTypeOK
<1>2. [relay[r] EXCEPT !.stage = stage, !.waited = 0] \in RelayCalls
  BY <1>1 DEF RelayCalls
<1>3. [relay[r] EXCEPT !.stage = stage, !.waited = 0].stage = stage
  BY <1>1 DEF RelayCalls
<1> QED
  BY <1>2, <1>3, OtherStages DEF Answer

LEMMA StartLegAge ==
  ASSUME AgeInv, NEW r \in Request, NEW call \in RelayCalls, NEW leg \in 0 .. 2,
         StartLeg(r, call, leg), UNCHANGED <<hashAge, cacheAge>>
  PROVE  HashInv'
<1> DEFINE started == [call EXCEPT !.stage = "nonce", !.leg = leg, !.waited = 0, !.age = 0,
                                   !.signer = RequestSigner]
<1>1. 0 \in 0 .. TooOld /\ 0 \in 0 .. Latency /\ RequestSigner \in Signers
  BY SignerOfThePool, RelayerAssumption DEF AgeInv, TooOld
<1>2. started \in RelayCalls /\ started.stage = "nonce"
  BY <1>1 DEF RelayCalls
<1>3. Become(r, started)
  BY DEF StartLeg
<1> QED
  BY <1>2, <1>3, OtherStages

LEMMA SentFields ==
  ASSUME NEW call \in RelayCalls, NEW nonce, NEW age
  PROVE  /\ SignTransaction(call, nonce, age).stage = "sent"
         /\ SignTransaction(call, nonce, age).nonce = nonce
         /\ SignTransaction(call, nonce, age).age = age
         /\ SignTransaction(call, nonce, age).waited = 0
         /\ SignTransaction(call, nonce, age).leg = call.leg
         /\ SignTransaction(call, nonce, age).signer = call.signer
         /\ SignTransaction(call, nonce, age).data = call.data
  BY DEF SignTransaction, RelayCalls

\* A transaction is sent with an answer that just came, or with what the cache
\* holds for less than the timeout.
LEMMA SendAge ==
  ASSUME AgeInv, ~TimeoutIsText, NEW r \in Request, SendTransaction(r)
  PROVE  HashInv'
<1>1. relay[r] \in RelayCalls /\ relay[r].age <= relay[r].waited /\ relay[r].age \in Nat
      /\ relay[r].waited \in 0 .. Latency /\ hashAge \in Nat /\ cacheAge \in Nat
  BY DEF AgeInv, RelayerTypeOK, HashInv, SendTransaction, RelayCalls
<1>2. relay[r].age <= Latency
  BY <1>1, RelayerAssumption
<1>3. hashAge' = TooOld \/ hashAge' <= cacheAge' + Latency
  BY <1>1, <1>2, RelayerAssumption
  DEF SendTransaction, QueryArrives, RefreshHash, AgeInv, HashInv
<1>4. hashAge' <= OldestCached
  <2>1. CASE Outdated
    BY <2>1, <1>1, <1>2, RelayerAssumption DEF SendTransaction, QueryArrives, RefreshHash, OldestCached
  <2>2. CASE ~Outdated
    <3>1. hashAge' = hashAge /\ hashAge <= cacheAge + Latency /\ cacheAge < HashTimeout
      BY <2>2, <1>1, RelayerAssumption
      DEF SendTransaction, QueryArrives, RefreshHash, Outdated, AgeInv, HashInv
    <3> QED
      BY <3>1, <1>1, RelayerAssumption DEF OldestCached
  <2> QED
    BY <2>1, <2>2
<1>5. relay'[r].stage \in {"error", "sent"}
      /\ (relay'[r].stage = "sent" => relay'[r].age = hashAge' /\ relay'[r].waited = 0)
  <2>1. CASE relay[r].leg = 2 /\ ~Encodable(r)
    BY <2>1, AnswerFields DEF SendTransaction, AgeInv
  <2>2. CASE ~(relay[r].leg = 2 /\ ~Encodable(r))
    <3>1. Become(r, SignTransaction(relay[r], SignerNonce(relay[r].nonce), RecentBlockHash))
      BY <2>2 DEF SendTransaction
    <3>2. relay'[r] = SignTransaction(relay[r], SignerNonce(relay[r].nonce), RecentBlockHash)
      BY <3>1 DEF Become, AgeInv, RelayerTypeOK
    <3> QED
      BY <3>2, <1>1, SentFields DEF RecentBlockHash
  <2> QED
    BY <2>1, <2>2
<1>6. \A q \in Request : q # r => relay'[q] = relay[q]
  BY DEF SendTransaction, Answer, Become, AgeInv, RelayerTypeOK
<1>7. hashAge' \in Nat
  BY <1>1 DEF SendTransaction, QueryArrives, RefreshHash
<1> QED
  BY <1>3, <1>4, <1>5, <1>6, <1>7, RelayerAssumption DEF AgeInv, HashInv, OldestCached

LEMMA TickAge ==
  ASSUME AgeInv, RelayerTick
  PROVE  HashInv'
<1>1. hashAge' = TooOld \/ hashAge' <= cacheAge' + Latency
  <2>1. hashAge \in 0 .. TooOld /\ cacheAge \in 0 .. TooOld
        /\ (hashAge = TooOld \/ hashAge <= cacheAge + Latency)
    BY DEF AgeInv, HashInv, RelayerTypeOK
  <2>2. hashAge' = Older(hashAge) /\ cacheAge' = Older(cacheAge)
    BY DEF RelayerTick
  <2> QED
    BY <2>1, <2>2, RelayerAssumption DEF Older, TooOld
<1>2. ASSUME NEW r \in Request, OnTheWire(r)
      PROVE  /\ relay'[r].stage = relay[r].stage
             /\ relay'[r].age = Older(relay[r].age) /\ relay'[r].waited = relay[r].waited + 1
             /\ relay[r].age \in 0 .. TooOld /\ relay[r].waited \in Nat /\ relay[r].waited < Latency
  <2>1. relay[r] \in RelayCalls
    BY DEF AgeInv, RelayerTypeOK
  <2>2. relay'[r] = [relay[r] EXCEPT !.age = Older(@), !.waited = @ + 1]
    BY <1>2 DEF RelayerTick
  <2>3. relay[r].waited < Latency
    BY <1>2 DEF RelayerTick
  <2> QED
    BY <2>1, <2>2, <2>3 DEF RelayCalls
<1>3. ASSUME NEW r \in Request, ~OnTheWire(r) PROVE relay'[r] = relay[r]
  BY <1>3 DEF RelayerTick
<1>4. ASSUME NEW r \in Request, relay'[r].stage = "viewed"
      PROVE  relay'[r].age <= relay'[r].waited
  <2>1. OnTheWire(r) /\ relay[r].age <= relay[r].waited
    BY <1>2, <1>3, <1>4 DEF OnTheWire, AgeInv, HashInv
  <2> QED
    BY <2>1, <1>2, RelayerAssumption DEF Older, TooOld
<1>5. ASSUME NEW r \in Request, relay'[r].stage = "sent"
      PROVE  relay'[r].age <= OldestCached + relay'[r].waited
  <2>1. OnTheWire(r) /\ relay[r].age <= OldestCached + relay[r].waited
    BY <1>2, <1>3, <1>5 DEF OnTheWire, AgeInv, HashInv
  <2> QED
    BY <2>1, <1>2, RelayerAssumption DEF Older, TooOld, OldestCached
<1> QED
  BY <1>1, <1>4, <1>5 DEF HashInv, OldestCached

LEMMA ReceiveAge ==
  ASSUME AgeInv, NEW r \in Request, NEW body \in Bodies, Receive(r, body)
  PROVE  HashInv'
<1>1. CASE ~Accepted(body)
  BY <1>1, AnswerAge DEF Receive
<1>2. CASE Accepted(body) /\ body.kind = "create"
  <2>1. [Unserved EXCEPT !.kind = "create"] \in RelayCalls
    BY UnservedType DEF RelayCalls, Kinds
  <2> QED
    BY <1>2, <2>1, StartLegAge DEF Receive, CreateAccount
<1>3. CASE Accepted(body) /\ body.kind # "create"
  <2>1. body.kind \in Kinds /\ body.algorithm \in RequestAlgorithms
    BY <1>3, RelayerAssumption DEF Accepted, Validated, Kinds
  <2>2. [Unserved EXCEPT !.kind = body.kind, !.algorithm = body.algorithm] \in RelayCalls
    BY <2>1, UnservedType DEF RelayCalls
  <2> QED
    BY <1>3, <2>2, StartLegAge DEF Receive, SignFastAuthRequest
<1> QED
  BY <1>1, <1>2, <1>3

\* The steps of a request that leave the cache alone.
LEMMA ServeAge ==
  ASSUME AgeInv, NEW r \in Request,
         NodeViews(r) \/ Execute(r, TRUE) \/ Execute(r, FALSE) \/ Refuse(r) \/ ResultArrives(r) \/ RpcFails(r)
  PROVE  HashInv'
<1>0. relay[r] \in RelayCalls
  BY DEF AgeInv, RelayerTypeOK
<1>1. CASE NodeViews(r)
  <2>1. relay'[r].stage = "viewed" /\ relay'[r].age = 0 /\ relay'[r].waited = relay[r].waited
    BY <1>0, <1>1 DEF NodeViews, Become, AgeInv, RelayerTypeOK, RelayCalls
  <2>2. relay[r].waited \in Nat
    BY <1>0 DEF RelayCalls
  <2>3. \A q \in Request : q # r => relay'[q] = relay[q]
    BY <1>1 DEF NodeViews, Become, AgeInv, RelayerTypeOK
  <2> QED
    BY <1>1, <2>1, <2>2, <2>3 DEF NodeViews, client, AgeInv, HashInv, OldestCached
<1>2. ASSUME NEW ok \in BOOLEAN, Execute(r, ok) PROVE HashInv'
  <2>1. relay'[r].stage = "landed"
    BY <1>0, <1>2 DEF Execute, Become, AgeInv, RelayerTypeOK, RelayCalls
  <2>2. \A q \in Request : q # r => relay'[q] = relay[q]
    BY <1>2 DEF Execute, Become, AgeInv, RelayerTypeOK
  <2> QED
    BY <1>2, <2>1, <2>2 DEF Execute, client, AgeInv, HashInv, OldestCached
<1>3. CASE Refuse(r) \/ RpcFails(r)
  BY <1>3, AnswerAge DEF Refuse, RpcFails, client
<1>4. CASE ResultArrives(r)
  <2>1. [relay[r] EXCEPT !.data = Recover(@, "ed25519")] \in RelayCalls
    BY <1>0 DEF Recover, RecoverEd25519, RecoverSecp256k1, RelayCalls
  <2> QED
    BY <1>4, <2>1, StartLegAge, AnswerAge DEF ResultArrives
<1> QED
  BY <1>1, <1>2, <1>3, <1>4

LEMMA NextAge == ~TimeoutIsText /\ AgeInv /\ [RelayerNext]_relayerVars => HashInv'
<1> SUFFICES ASSUME ~TimeoutIsText, AgeInv, [RelayerNext]_relayerVars PROVE HashInv'
  OBVIOUS
<1>1. ASSUME NEW r \in Request, Serve(r) PROVE HashInv'
  BY <1>1, SendAge, ServeAge DEF Serve
<1>2. ASSUME NEW s \in Signers, Finalize(s) PROVE HashInv'
  BY <1>2 DEF Finalize, client, AgeInv, HashInv, OldestCached
<1>3. CASE UNCHANGED relayerVars
  BY <1>3 DEF relayerVars, AgeInv, HashInv, OldestCached
<1> QED
  BY <1>1, <1>2, <1>3, ReceiveAge, TickAge DEF RelayerNext

LEMMA AgeIsEnough == AgeInv => HashIsRecent
<1> SUFFICES ASSUME AgeInv, NEW r \in Request, relay[r].stage = "sent"
             PROVE  relay[r].age <= HashValidity
  BY DEF HashIsRecent
<1>1. relay[r] \in RelayCalls
  BY DEF AgeInv, RelayerTypeOK
<1>2. relay[r].age \in Nat /\ relay[r].waited \in 0 .. Latency
  BY <1>1 DEF RelayCalls
<1> QED
  BY <1>2, RelayerAssumption DEF AgeInv, HashInv, OldestCached

-----------------------------------------------------------------------------
(* The two transactions of a delegate action.                              *)

Landings == [request : Request, leg : {1, 2}, signer : Signers, nonce : Nat, ok : BOOLEAN]
Ended == {"rejected", "landed", "answered", "error"}
FirstLegSucceeded(r) == \E v \in landed : v.request = r /\ v.leg = 1 /\ v.ok

\* What a request's leg and stage say of its transactions that landed.
LegInv ==
  /\ landed \subseteq Landings
  /\ \A r \in Request :
       /\ relay[r].stage = "new" <=> relay[r].leg = 0 /\ relay[r].stage # "rejected"
       /\ relay[r].leg = 2 => FirstLegSucceeded(r)
       /\ relay[r].data # "none" /\ relay[r].leg # 0 => FirstLegSucceeded(r)
       /\ \A w \in landed :
            w.request = r => /\ w.leg <= relay[r].leg
                             /\ w.leg = relay[r].leg => relay[r].stage \in Ended
  /\ DelegatesWereSigned

LegsInv == RelayerTypeOK /\ LegInv

LEMMA InitLegs == RelayerInit => LegInv
  BY DEF RelayerInit, LegInv, Unserved, DelegatesWereSigned

\* A request that goes on with its leg, or ends.
LEMMA SameLeg ==
  ASSUME LegsInv, NEW r \in Request, UNCHANGED landed,
         relay'[r].leg = relay[r].leg, relay'[r].data = relay[r].data,
         relay'[r].stage # "new",
         relay[r].leg = 0 <=> relay'[r].stage = "rejected",
         relay[r].stage \in Ended => relay'[r].stage \in Ended,
         \A q \in Request : q # r => relay'[q] = relay[q]
  PROVE  LegInv'
  BY DEF LegsInv, LegInv, FirstLegSucceeded, DelegatesWereSigned, RelayerTypeOK

LEMMA StartLegFields ==
  ASSUME RelayerTypeOK, NEW r \in Request, NEW call \in RelayCalls, NEW leg, StartLeg(r, call, leg)
  PROVE  /\ relay'[r].stage = "nonce" /\ relay'[r].leg = leg /\ relay'[r].data = call.data
         /\ \A q \in Request : q # r => relay'[q] = relay[q]
<1> DEFINE started == [call EXCEPT !.stage = "nonce", !.leg = leg, !.waited = 0, !.age = 0,
                                   !.signer = RequestSigner]
<1>1. started.stage = "nonce" /\ started.leg = leg /\ started.data = call.data
  BY DEF RelayCalls
<1>2. relay' = [relay EXCEPT ![r] = started]
  BY DEF StartLeg, Become
<1> HIDE DEF started
<1> QED
  BY <1>1, <1>2 DEF RelayerTypeOK

\* A request takes its next transaction: the second needs the first's success.
LEMMA NextLeg ==
  ASSUME LegsInv, NEW r \in Request, NEW call \in RelayCalls, NEW leg \in {1, 2},
         StartLeg(r, call, leg), UNCHANGED landed,
         leg = relay[r].leg + 1,
         leg = 2 => FirstLegSucceeded(r),
         call.data # "none" => FirstLegSucceeded(r)
  PROVE  LegInv'
<1>1. /\ relay'[r].stage = "nonce" /\ relay'[r].leg = leg /\ relay'[r].data = call.data
      /\ \A q \in Request : q # r => relay'[q] = relay[q]
  BY StartLegFields DEF LegsInv
<1>2. relay[r].leg \in 0 .. 2
  BY DEF LegsInv, RelayerTypeOK, RelayCalls
<1>3. \A w \in landed : w.leg \in {1, 2}
  BY DEF LegsInv, LegInv, Landings
<1>4. \A w \in landed : w.request = r => w.leg < leg
  BY <1>2, <1>3 DEF LegsInv, LegInv
<1>5. ASSUME NEW q \in Request
      PROVE  /\ relay'[q].stage = "new" <=> relay'[q].leg = 0 /\ relay'[q].stage # "rejected"
             /\ relay'[q].leg = 2 => FirstLegSucceeded(q)
             /\ relay'[q].data # "none" /\ relay'[q].leg # 0 => FirstLegSucceeded(q)
             /\ \A w \in landed :
                  w.request = q => /\ w.leg <= relay'[q].leg
                                   /\ w.leg = relay'[q].leg => relay'[q].stage \in Ended
  <2>1. CASE q = r
    BY <2>1, <1>1, <1>3, <1>4
  <2>2. CASE q # r
    BY <2>2, <1>1 DEF LegsInv, LegInv
  <2> QED
    BY <2>1, <2>2
<1> QED
  BY <1>5 DEF LegsInv, LegInv, FirstLegSucceeded, DelegatesWereSigned

LEMMA ReceiveLegs ==
  ASSUME LegsInv, NEW r \in Request, NEW body \in Bodies, Receive(r, body)
  PROVE  LegInv'
<1>0. relay[r].stage = "new" /\ relay[r].leg = 0 /\ UNCHANGED landed
  BY DEF Receive, chain, LegsInv, LegInv
<1>1. CASE ~Accepted(body)
  <2>1. Answer(r, "rejected")
    BY <1>1 DEF Receive
  <2> QED
    BY <2>1, <1>0, AnswerFields, SameLeg DEF LegsInv, Ended
<1>2. CASE Accepted(body) /\ body.kind = "create"
  <2> DEFINE call == [Unserved EXCEPT !.kind = "create"]
  <2>1. call \in RelayCalls /\ call.data = "none"
    BY UnservedType DEF RelayCalls, Kinds, Unserved
  <2>2. StartLeg(r, call, 1)
    BY <1>2 DEF Receive, CreateAccount
  <2> HIDE DEF call
  <2> QED
    BY <1>0, <2>1, <2>2, NextLeg
<1>3. CASE Accepted(body) /\ body.kind # "create"
  <2> DEFINE call == [Unserved EXCEPT !.kind = body.kind, !.algorithm = body.algorithm]
  <2>1. body.kind \in Kinds /\ body.algorithm \in RequestAlgorithms
    BY <1>3, RelayerAssumption DEF Accepted, Validated, Kinds
  <2>2. call \in RelayCalls
    BY <2>1, UnservedType DEF RelayCalls
  <2>3. call.data = "none"
    BY DEF Unserved
  <2>4. StartLeg(r, call, 1)
    BY <1>3 DEF Receive, SignFastAuthRequest
  <2> HIDE DEF call
  <2> QED
    BY <1>0, <2>2, <2>3, <2>4, NextLeg
<1> QED
  BY <1>1, <1>2, <1>3

\* A view or a transaction on its way changes neither the leg nor its result.
LEMMA OnItsWayLegs ==
  ASSUME LegsInv, NEW r \in Request, NodeViews(r) \/ SendTransaction(r)
  PROVE  LegInv'
<1>0. relay[r] \in RelayCalls
  BY DEF LegsInv, RelayerTypeOK
<1>1. relay[r].leg # 0 /\ relay[r].stage \notin Ended /\ UNCHANGED landed
  BY DEF NodeViews, SendTransaction, chain, LegsInv, LegInv, Ended
<1>2. CASE NodeViews(r)
  <2>1. /\ relay'[r] = [relay[r] EXCEPT !.stage = "viewed", !.age = 0, !.nonce = finalNonce[relay[r].signer]]
        /\ \A q \in Request : q # r => relay'[q] = relay[q]
    BY <1>2 DEF NodeViews, Become, LegsInv, RelayerTypeOK
  <2>2. relay'[r].stage = "viewed" /\ relay'[r].leg = relay[r].leg /\ relay'[r].data = relay[r].data
    BY <1>0, <2>1 DEF RelayCalls
  <2> QED
    BY <1>1, <2>1, <2>2, SameLeg
<1>3. CASE SendTransaction(r)
  <2>1. CASE relay[r].leg = 2 /\ ~Encodable(r)
    <3>1. Answer(r, "error")
      BY <1>3, <2>1 DEF SendTransaction
    <3> QED
      BY <1>1, <3>1, AnswerFields, SameLeg DEF LegsInv, Ended
  <2>2. CASE ~(relay[r].leg = 2 /\ ~Encodable(r))
    <3>1. /\ relay'[r] = SignTransaction(relay[r], SignerNonce(relay[r].nonce), RecentBlockHash)
          /\ \A q \in Request : q # r => relay'[q] = relay[q]
      BY <1>3, <2>2 DEF SendTransaction, Become, LegsInv, RelayerTypeOK
    <3>2. relay'[r].stage = "sent" /\ relay'[r].leg = relay[r].leg /\ relay'[r].data = relay[r].data
      BY <1>0, <3>1, SentFields
    <3> QED
      BY <1>1, <3>1, <3>2, SameLeg
  <2> QED
    BY <2>1, <2>2
<1> QED
  BY <1>2, <1>3

\* A leg lands once: before, none of this leg or a later one had.
LEMMA ExecuteLegs ==
  ASSUME LegsInv, NEW r \in Request, NEW ok \in BOOLEAN, Execute(r, ok)
  PROVE  LegInv'
<1> DEFINE new == [request |-> r, leg |-> relay[r].leg, signer |-> relay[r].signer,
                   nonce |-> relay[r].nonce, ok |-> ok]
<1>0. relay[r] \in RelayCalls
  BY DEF LegsInv, RelayerTypeOK
<1>1. relay[r].leg \in {1, 2} /\ relay[r].stage = "sent"
  BY <1>0 DEF Execute, LegsInv, LegInv, RelayCalls
<1>2. landed' = landed \cup {new} /\ new \in Landings
  BY <1>0, <1>1 DEF Execute, Landings, RelayCalls
<1>3. \A w \in landed : w.request = r => w.leg # relay[r].leg
  BY <1>1 DEF LegsInv, LegInv, Ended
<1>4. /\ relay'[r] = [relay[r] EXCEPT !.stage = "landed", !.data = IF ok THEN Payload(relay[r].algorithm) ELSE "none"]
      /\ \A q \in Request : q # r => relay'[q] = relay[q]
  BY DEF Execute, Become, LegsInv, RelayerTypeOK
<1>5. relay'[r].stage = "landed" /\ relay'[r].leg = relay[r].leg /\ (relay'[r].data # "none" => ok)
  BY <1>0, <1>4 DEF RelayCalls
<1>6. \A q \in Request : FirstLegSucceeded(q) => FirstLegSucceeded(q)'
  BY <1>2 DEF FirstLegSucceeded
<1>7. relay'[r].data # "none" => FirstLegSucceeded(r)'
  <2>1. CASE relay[r].leg = 1
    BY <1>2, <1>5, <2>1 DEF FirstLegSucceeded
  <2>2. CASE relay[r].leg = 2
    BY <1>6, <2>2 DEF LegsInv, LegInv
  <2> QED
    BY <1>1, <2>1, <2>2
<1>8. ASSUME NEW q \in Request
      PROVE  /\ relay'[q].stage = "new" <=> relay'[q].leg = 0 /\ relay'[q].stage # "rejected"
             /\ relay'[q].leg = 2 => FirstLegSucceeded(q)'
             /\ relay'[q].data # "none" /\ relay'[q].leg # 0 => FirstLegSucceeded(q)'
             /\ \A w \in landed' :
                  w.request = q => /\ w.leg <= relay'[q].leg
                                   /\ w.leg = relay'[q].leg => relay'[q].stage \in Ended
  <2>1. CASE q = r
    BY <2>1, <1>1, <1>2, <1>5, <1>6, <1>7 DEF LegsInv, LegInv, Ended
  <2>2. CASE q # r
    BY <2>2, <1>2, <1>4, <1>6 DEF LegsInv, LegInv
  <2> QED
    BY <2>1, <2>2
<1>9. DelegatesWereSigned'
  <2>1. ASSUME NEW w \in landed', w.leg = 2
        PROVE  \E v \in landed' : v.request = w.request /\ v.leg = 1 /\ v.ok
    <3>1. CASE w = new
      BY <3>1, <2>1, <1>2 DEF LegsInv, LegInv, FirstLegSucceeded
    <3>2. CASE w \in landed
      BY <3>2, <2>1, <1>2 DEF LegsInv, LegInv, DelegatesWereSigned
    <3> QED
      BY <3>1, <3>2, <1>2
  <2>2. ASSUME NEW w \in landed', NEW v \in landed', v.request = w.request, v.leg = w.leg
        PROVE  v = w
    BY <2>2, <1>2, <1>3 DEF LegsInv, LegInv, DelegatesWereSigned
  <2> QED
    BY <2>1, <2>2 DEF DelegatesWereSigned
<1>10. landed' \subseteq Landings
  BY <1>2 DEF LegsInv, LegInv
<1> HIDE DEF new
<1> QED
  BY <1>8, <1>9, <1>10 DEF LegInv

LEMMA EndLegs ==
  ASSUME LegsInv, NEW r \in Request, Refuse(r) \/ RpcFails(r)
  PROVE  LegInv'
<1>1. Answer(r, "error") /\ UNCHANGED landed /\ relay[r].leg # 0
  BY DEF Refuse, RpcFails, chain, LegsInv, LegInv
<1> QED
  BY <1>1, AnswerFields, SameLeg DEF LegsInv, Ended

LEMMA ResultLegs ==
  ASSUME LegsInv, NEW r \in Request, ResultArrives(r)
  PROVE  LegInv'
<1>0. relay[r] \in RelayCalls /\ UNCHANGED landed
  BY DEF ResultArrives, chain, LegsInv, RelayerTypeOK
<1>1. relay[r].leg \in {1, 2}
  BY <1>0 DEF ResultArrives, LegsInv, LegInv, RelayCalls
<1>2. CASE relay[r].leg < LegsOf(relay[r].kind) /\ HasSignature(r)
  <2> DEFINE call == [relay[r] EXCEPT !.data = Recover(@, "ed25519")]
  <2>1. call \in RelayCalls
    BY <1>0 DEF Recover, RecoverEd25519, RecoverSecp256k1, RelayCalls
  <2>2. StartLeg(r, call, 2)
    BY <1>2 DEF ResultArrives
  <2>3. relay[r].leg = 1
    BY <1>1, <1>2 DEF LegsOf
  <2>4. FirstLegSucceeded(r)
    BY <1>1, <1>2 DEF HasSignature, LegsInv, LegInv
  <2> HIDE DEF call
  <2> QED
    BY <1>0, <2>1, <2>2, <2>3, <2>4, NextLeg
<1>3. CASE ~(relay[r].leg < LegsOf(relay[r].kind) /\ HasSignature(r))
  <2>1. Answer(r, "error") \/ Answer(r, "answered")
    BY <1>3 DEF ResultArrives
  <2> QED
    BY <1>0, <1>1, <2>1, AnswerFields, SameLeg DEF LegsInv, Ended
<1> QED
  BY <1>2, <1>3

LEMMA TickLegs ==
  ASSUME LegsInv, RelayerTick
  PROVE  LegInv'
<1>1. ASSUME NEW r \in Request
      PROVE  relay'[r].stage = relay[r].stage /\ relay'[r].leg = relay[r].leg /\ relay'[r].data = relay[r].data
  <2>1. relay[r] \in RelayCalls
    BY DEF LegsInv, RelayerTypeOK
  <2>2. relay'[r] = [relay[r] EXCEPT !.age = Older(@), !.waited = @ + 1] \/ relay'[r] = relay[r]
    BY DEF RelayerTick
  <2> QED
    BY <2>1, <2>2 DEF RelayCalls
<1>2. UNCHANGED landed
  BY DEF RelayerTick, chain
<1>3. DelegatesWereSigned' /\ \A r \in Request : FirstLegSucceeded(r) => FirstLegSucceeded(r)'
  BY <1>2 DEF LegsInv, LegInv, DelegatesWereSigned, FirstLegSucceeded
<1> QED
  BY <1>1, <1>2, <1>3 DEF LegsInv, LegInv

LEMMA NextLegs == LegsInv /\ [RelayerNext]_relayerVars => LegInv'
<1> SUFFICES ASSUME LegsInv, [RelayerNext]_relayerVars PROVE LegInv'
  OBVIOUS
<1>1. ASSUME NEW r \in Request, Serve(r) PROVE LegInv'
  BY <1>1, OnItsWayLegs, ExecuteLegs, EndLegs, ResultLegs DEF Serve
<1>2. ASSUME NEW s \in Signers, Finalize(s) PROVE LegInv'
  BY <1>2 DEF Finalize, LegsInv, LegInv, FirstLegSucceeded, DelegatesWereSigned
<1>3. CASE UNCHANGED relayerVars
  BY <1>3 DEF relayerVars, LegsInv, LegInv, FirstLegSucceeded, DelegatesWereSigned
<1> QED
  BY <1>1, <1>2, <1>3, ReceiveLegs, TickLegs DEF RelayerNext

-----------------------------------------------------------------------------
(* Nonces: every nonce that a signer's key has used landed with a          *)
(* transaction, and a request works with the next one at most.             *)

Used(s, n) == \E w \in landed : w.signer = s /\ w.nonce = n

NonceInv ==
  /\ \A s \in Signers :
       /\ finalNonce[s] <= accessNonce[s]
       /\ \A n \in 1 .. accessNonce[s] : Used(s, n)
  /\ \A r \in Request :
       /\ relay[r].stage = "viewed" => relay[r].nonce <= accessNonce[relay[r].signer]
       /\ relay[r].stage = "sent" => relay[r].nonce \in 1 .. accessNonce[relay[r].signer] + 1
  /\ RefusedForAWinner

\* The whole inductive invariant, for a timeout that is a number.
RelayerInv == RelayerTypeOK /\ HashInv /\ LegInv /\ NonceInv

LEMMA InitNonces == RelayerInit => NonceInv
  BY DEF RelayerInit, NonceInv, Used, Unserved, RefusedForAWinner

\* A step that sends nothing and lands nothing.
LEMMA NothingOnItsWay ==
  ASSUME RelayerInv, NEW r \in Request, relay'[r].stage \notin {"viewed", "sent"},
         \A q \in Request : q # r => relay'[q] = relay[q],
         UNCHANGED <<accessNonce, finalNonce, landed, refused>>
  PROVE  NonceInv'
<1>1. RefusedForAWinner' /\ \A s \in Signers : \A n \in Nat : Used(s, n) => Used(s, n)'
  BY DEF RelayerInv, NonceInv, RefusedForAWinner, Used
<1> QED
  BY <1>1 DEF RelayerInv, NonceInv

LEMMA NodeViewsNonces ==
  ASSUME RelayerInv, NEW r \in Request, NodeViews(r)
  PROVE  NonceInv'
<1>0. relay[r] \in RelayCalls /\ relay[r].signer \in Signers
  BY DEF RelayerInv, RelayerTypeOK, RelayCalls
<1>1. /\ relay'[r] = [relay[r] EXCEPT !.stage = "viewed", !.age = 0, !.nonce = finalNonce[relay[r].signer]]
      /\ \A q \in Request : q # r => relay'[q] = relay[q]
  BY DEF NodeViews, Become, RelayerInv, RelayerTypeOK
<1>2. /\ relay'[r].stage = "viewed" /\ relay'[r].signer = relay[r].signer
      /\ relay'[r].nonce = finalNonce[relay[r].signer]
  BY <1>0, <1>1 DEF RelayCalls
<1>3. UNCHANGED <<accessNonce, finalNonce, landed, refused>>
  BY DEF NodeViews, chain
<1>4. RefusedForAWinner' /\ \A s \in Signers : \A n \in Nat : Used(s, n) => Used(s, n)'
  BY <1>3 DEF RelayerInv, NonceInv, RefusedForAWinner, Used
<1>5. relay'[r].nonce <= accessNonce'[relay'[r].signer]
  BY <1>0, <1>2, <1>3 DEF RelayerInv, NonceInv
<1>6. ASSUME NEW q \in Request
      PROVE  /\ relay'[q].stage = "viewed" => relay'[q].nonce <= accessNonce'[relay'[q].signer]
             /\ relay'[q].stage = "sent" => relay'[q].nonce \in 1 .. accessNonce'[relay'[q].signer] + 1
  <2>1. CASE q = r
    BY <2>1, <1>2, <1>5
  <2>2. CASE q # r
    BY <2>2, <1>1, <1>3 DEF RelayerInv, NonceInv
  <2> QED
    BY <2>1, <2>2
<1>7. \A s \in Signers : finalNonce'[s] <= accessNonce'[s] /\ \A n \in 1 .. accessNonce'[s] : Used(s, n)'
  BY <1>3, <1>4 DEF RelayerInv, NonceInv
<1> QED
  BY <1>4, <1>6, <1>7 DEF NonceInv

LEMMA SendNonces ==
  ASSUME RelayerInv, NEW r \in Request, SendTransaction(r)
  PROVE  NonceInv'
<1>0. relay[r] \in RelayCalls /\ relay[r].signer \in Signers /\ relay[r].nonce \in Nat
  BY DEF RelayerInv, RelayerTypeOK, RelayCalls
<1>1. UNCHANGED <<accessNonce, finalNonce, landed, refused>>
  BY DEF SendTransaction, chain
<1>2. CASE relay[r].leg = 2 /\ ~Encodable(r)
  <2>1. Answer(r, "error")
    BY <1>2 DEF SendTransaction
  <2> QED
    BY <1>1, <2>1, AnswerFields, NothingOnItsWay DEF RelayerInv
<1>3. CASE ~(relay[r].leg = 2 /\ ~Encodable(r))
  <2>1. /\ relay'[r] = SignTransaction(relay[r], SignerNonce(relay[r].nonce), RecentBlockHash)
        /\ \A q \in Request : q # r => relay'[q] = relay[q]
    BY <1>3 DEF SendTransaction, Become, RelayerInv, RelayerTypeOK
  <2>2. relay'[r].stage = "sent" /\ relay'[r].signer = relay[r].signer /\ relay'[r].nonce = relay[r].nonce + 1
    BY <1>0, <2>1, SentFields DEF SignerNonce
  <2>3. relay[r].nonce <= accessNonce[relay[r].signer] /\ accessNonce[relay[r].signer] \in Nat
    BY <1>0 DEF SendTransaction, RelayerInv, NonceInv, RelayerTypeOK
  <2>4. relay'[r].nonce \in 1 .. accessNonce'[relay'[r].signer] + 1
    BY <1>0, <1>1, <2>2, <2>3
  <2>5. RefusedForAWinner' /\ \A s \in Signers : \A n \in Nat : Used(s, n) => Used(s, n)'
    BY <1>1 DEF RelayerInv, NonceInv, RefusedForAWinner, Used
  <2> QED
    BY <1>1, <2>1, <2>2, <2>4, <2>5 DEF RelayerInv, NonceInv
<1> QED
  BY <1>2, <1>3

\* A transaction that lands uses the very next nonce.
LEMMA ExecuteNonces ==
  ASSUME RelayerInv, NEW r \in Request, NEW ok \in BOOLEAN, Execute(r, ok)
  PROVE  NonceInv'
<1> DEFINE signer == relay[r].signer
<1> DEFINE new == [request |-> r, leg |-> relay[r].leg, signer |-> signer, nonce |-> relay[r].nonce, ok |-> ok]
<1>0. relay[r] \in RelayCalls /\ signer \in Signers /\ relay[r].nonce \in Nat /\ accessNonce[signer] \in Nat
  BY DEF RelayerInv, RelayerTypeOK, RelayCalls
<1>1. relay[r].nonce = accessNonce[signer] + 1
  BY <1>0 DEF Execute, RelayerInv, NonceInv
<1>2. /\ accessNonce' = [accessNonce EXCEPT ![signer] = accessNonce[signer] + 1]
      /\ landed' = landed \cup {new} /\ UNCHANGED <<finalNonce, refused>>
  BY <1>1 DEF Execute
<1>3. /\ relay'[r] = [relay[r] EXCEPT !.stage = "landed", !.data = IF ok THEN Payload(relay[r].algorithm) ELSE "none"]
      /\ \A q \in Request : q # r => relay'[q] = relay[q]
  BY DEF Execute, Become, RelayerInv, RelayerTypeOK
<1>4. relay'[r].stage = "landed"
  BY <1>0, <1>3 DEF RelayCalls
<1>5. \A s \in Signers : accessNonce[s] \in Nat /\ accessNonce'[s] \in Nat /\ accessNonce[s] <= accessNonce'[s]
                         /\ (s # signer => accessNonce'[s] = accessNonce[s])
  BY <1>0, <1>2 DEF RelayerInv, RelayerTypeOK
<1>6. \A s \in Signers : finalNonce[s] \in Nat /\ finalNonce'[s] <= accessNonce'[s]
  BY <1>2, <1>5 DEF RelayerInv, NonceInv, RelayerTypeOK
<1>7. ASSUME NEW s \in Signers, NEW n \in 1 .. accessNonce'[s] PROVE Used(s, n)'
  <2>1. CASE s = signer /\ n = accessNonce[s] + 1
    <3>1. new \in landed' /\ new.signer = s /\ new.nonce = n
      BY <2>1, <1>1, <1>2
    <3> QED
      BY <3>1 DEF Used
  <2>2. CASE ~(s = signer /\ n = accessNonce[s] + 1)
    <3>1. n \in 1 .. accessNonce[s]
      BY <2>2, <1>0, <1>2, <1>5 DEF RelayerInv, RelayerTypeOK
    <3>2. Used(s, n)
      BY <3>1 DEF RelayerInv, NonceInv
    <3> QED
      BY <3>2, <1>2 DEF Used
  <2> QED
    BY <2>1, <2>2
<1>8. ASSUME NEW q \in Request
      PROVE  /\ relay'[q].stage = "viewed" => relay'[q].nonce <= accessNonce'[relay'[q].signer]
             /\ relay'[q].stage = "sent" => relay'[q].nonce \in 1 .. accessNonce'[relay'[q].signer] + 1
  <2>1. CASE q = r
    BY <2>1, <1>4
  <2>2. CASE q # r
    <3>1. relay'[q] = relay[q] /\ relay[q].signer \in Signers /\ relay[q].nonce \in Nat
      BY <2>2, <1>3 DEF RelayerInv, RelayerTypeOK, RelayCalls
    <3>2. accessNonce[relay[q].signer] <= accessNonce'[relay[q].signer]
          /\ accessNonce[relay[q].signer] \in Nat /\ accessNonce'[relay[q].signer] \in Nat
      BY <3>1, <1>5
    <3> QED
      BY <3>1, <3>2 DEF RelayerInv, NonceInv
  <2> QED
    BY <2>1, <2>2
<1>9. RefusedForAWinner'
  BY <1>2 DEF RelayerInv, NonceInv, RefusedForAWinner
<1> QED
  BY <1>6, <1>7, <1>8, <1>9 DEF NonceInv

\* With a recent block only the nonce can be refused: it was used, and not by
\* this very transaction, which has not landed.
LEMMA RefuseNonces ==
  ASSUME RelayerInv, NEW r \in Request, Refuse(r)
  PROVE  NonceInv'
<1> DEFINE signer == relay[r].signer
<1> DEFINE lost == [request |-> r, leg |-> relay[r].leg, signer |-> signer, nonce |-> relay[r].nonce]
<1>0. relay[r] \in RelayCalls /\ signer \in Signers /\ relay[r].nonce \in Nat /\ accessNonce[signer] \in Nat
  BY DEF RelayerInv, RelayerTypeOK, RelayCalls
<1>1. relay[r].stage = "sent" /\ relay[r].age <= HashValidity /\ relay[r].age \in Nat
  BY <1>0, AgeIsEnough DEF Refuse, RelayerInv, AgeInv, HashIsRecent, RelayCalls
<1>2. relay[r].nonce \in 1 .. accessNonce[signer]
  BY <1>0, <1>1, RelayerAssumption DEF Refuse, RelayerInv, NonceInv
<1>3. PICK w \in landed : w.signer = signer /\ w.nonce = relay[r].nonce
  BY <1>0, <1>2 DEF RelayerInv, NonceInv, Used
<1>4. <<w.request, w.leg>> # <<r, relay[r].leg>>
  BY <1>1 DEF RelayerInv, LegInv, Ended
<1>5. refused' = refused \cup {lost} /\ UNCHANGED <<accessNonce, finalNonce, landed>>
  BY DEF Refuse
<1>6. RefusedForAWinner'
  BY <1>3, <1>4, <1>5 DEF RelayerInv, NonceInv, RefusedForAWinner
<1>7. relay'[r].stage = "error" /\ \A q \in Request : q # r => relay'[q] = relay[q]
  BY AnswerFields DEF Refuse, RelayerInv
<1>8. \A s \in Signers : \A n \in Nat : Used(s, n) => Used(s, n)'
  BY <1>5 DEF Used
<1> QED
  BY <1>5, <1>6, <1>7, <1>8 DEF RelayerInv, NonceInv

\* The steps that change one request and nothing on chain.
LEMMA OffChainNonces ==
  ASSUME RelayerInv, NEW r \in Request,
         ResultArrives(r) \/ RpcFails(r) \/ (\E body \in Bodies : Receive(r, body))
  PROVE  NonceInv'
<1>1. UNCHANGED <<accessNonce, finalNonce, landed, refused>>
  BY DEF ResultArrives, RpcFails, Receive, chain
<1>2. CASE \E stage \in {"rejected", "answered", "error"} : Answer(r, stage)
  BY <1>1, <1>2, AnswerFields, NothingOnItsWay DEF RelayerInv
<1>3. CASE \E call \in RelayCalls, leg \in {1, 2} : StartLeg(r, call, leg)
  BY <1>1, <1>3, StartLegFields, NothingOnItsWay DEF RelayerInv
<1>4. CASE ResultArrives(r)
  <2>1. [relay[r] EXCEPT !.data = Recover(@, "ed25519")] \in RelayCalls
    BY DEF RelayerInv, RelayerTypeOK, Recover, RecoverEd25519, RecoverSecp256k1, RelayCalls
  <2> QED
    BY <1>2, <1>3, <1>4, <2>1 DEF ResultArrives
<1>5. CASE RpcFails(r)
  BY <1>2, <1>5 DEF RpcFails
<1>6. ASSUME NEW body \in Bodies, Receive(r, body) PROVE NonceInv'
  <2>1. [Unserved EXCEPT !.kind = "create"] \in RelayCalls
    BY UnservedType DEF RelayCalls, Kinds
  <2>2. ASSUME Accepted(body), body.kind # "create"
        PROVE  [Unserved EXCEPT !.kind = body.kind, !.algorithm = body.algorithm] \in RelayCalls
    <3>1. body.kind \in Kinds /\ body.algorithm \in RequestAlgorithms
      BY <2>2, RelayerAssumption DEF Accepted, Validated, Kinds
    <3> QED
      BY <3>1, UnservedType DEF RelayCalls
  <2> QED
    BY <1>2, <1>3, <1>6, <2>1, <2>2 DEF Receive, CreateAccount, SignFastAuthRequest
<1> QED
  BY <1>4, <1>5, <1>6

LEMMA FinalizeNonces ==
  ASSUME RelayerInv, NEW s \in Signers, Finalize(s)
  PROVE  NonceInv'
<1>1. \A t \in Signers : finalNonce'[t] <= accessNonce'[t]
  BY DEF Finalize, RelayerInv, NonceInv, RelayerTypeOK
<1>2. UNCHANGED <<relay, accessNonce, landed, refused>>
  BY DEF Finalize
<1>3. RefusedForAWinner' /\ \A t \in Signers : \A n \in Nat : Used(t, n) => Used(t, n)'
  BY <1>2 DEF RelayerInv, NonceInv, RefusedForAWinner, Used
<1> QED
  BY <1>1, <1>2, <1>3 DEF RelayerInv, NonceInv

LEMMA TickNonces ==
  ASSUME RelayerInv, RelayerTick
  PROVE  NonceInv'
<1>1. UNCHANGED <<accessNonce, finalNonce, landed, refused>>
  BY DEF RelayerTick, chain
<1>2. ASSUME NEW r \in Request
      PROVE  relay'[r].stage = relay[r].stage /\ relay'[r].nonce = relay[r].nonce /\ relay'[r].signer = relay[r].signer
  <2>1. relay[r] \in RelayCalls
    BY DEF RelayerInv, RelayerTypeOK
  <2>2. relay'[r] = [relay[r] EXCEPT !.age = Older(@), !.waited = @ + 1] \/ relay'[r] = relay[r]
    BY DEF RelayerTick
  <2> QED
    BY <2>1, <2>2 DEF RelayCalls
<1>3. RefusedForAWinner' /\ \A t \in Signers : \A n \in Nat : Used(t, n) => Used(t, n)'
  BY <1>1 DEF RelayerInv, NonceInv, RefusedForAWinner, Used
<1> QED
  BY <1>1, <1>2, <1>3 DEF RelayerInv, NonceInv

LEMMA NextNonces == RelayerInv /\ [RelayerNext]_relayerVars => NonceInv'
<1> SUFFICES ASSUME RelayerInv, [RelayerNext]_relayerVars PROVE NonceInv'
  OBVIOUS
<1>1. ASSUME NEW r \in Request, Serve(r) PROVE NonceInv'
  BY <1>1, NodeViewsNonces, SendNonces, ExecuteNonces, RefuseNonces, OffChainNonces DEF Serve
<1>2. CASE UNCHANGED relayerVars
  <2>1. RefusedForAWinner' /\ \A t \in Signers : \A n \in Nat : Used(t, n) => Used(t, n)'
    BY <1>2 DEF relayerVars, RelayerInv, NonceInv, RefusedForAWinner, Used
  <2> QED
    BY <1>2, <2>1 DEF relayerVars, RelayerInv, NonceInv
<1> QED
  BY <1>1, <1>2, OffChainNonces, FinalizeNonces, TickNonces DEF RelayerNext

-----------------------------------------------------------------------------
(* The theorems.                                                           *)

\* The relayer's state keeps its types (relayer.service.ts, near-client.service.ts).
THEOREM RelayerTypeCorrect == RelayerSpec => []RelayerTypeOK
  BY InitTypeOK, NextTypeOK, PTL DEF RelayerSpec

\* With any pool, any number of requests and any timeout that leaves room for
\* two calls, no transaction is sent with an expired block hash
\* (near-client.service.ts:35-62).
THEOREM HashesAreRecent == ~TimeoutIsText /\ RelayerSpec => []HashIsRecent
<1> SUFFICES ASSUME ~TimeoutIsText PROVE RelayerSpec => []HashIsRecent
  OBVIOUS
<1>1. RelayerInit => AgeInv
  BY InitTypeOK, InitAge DEF AgeInv
<1>2. AgeInv /\ [RelayerNext]_relayerVars => AgeInv'
  BY NextTypeOK, NextAge DEF AgeInv
<1> QED
  BY <1>1, <1>2, AgeIsEnough, PTL DEF RelayerSpec

\* The second transaction of a delegate action only ever lands after the first
\* succeeded, and none lands twice (relayer.service.ts:73-105).
THEOREM DelegatesAreSigned == RelayerSpec => []DelegatesWereSigned
<1>1. RelayerInit => LegsInv
  BY InitTypeOK, InitLegs DEF LegsInv
<1>2. LegsInv /\ [RelayerNext]_relayerVars => LegsInv'
  BY NextTypeOK, NextLegs DEF LegsInv
<1>3. LegsInv => DelegatesWereSigned
  BY DEF LegsInv, LegInv
<1> QED
  BY <1>1, <1>2, <1>3, PTL DEF RelayerSpec

\* However many requests share a signer, a transaction is only refused when
\* another one used its nonce (relayer.service.ts:42-45, 139-152).
THEOREM RefusedForWinners == ~TimeoutIsText /\ RelayerSpec => []RefusedForAWinner
<1> SUFFICES ASSUME ~TimeoutIsText PROVE RelayerSpec => []RefusedForAWinner
  OBVIOUS
<1>1. RelayerInit => RelayerInv
  BY InitTypeOK, InitAge, InitLegs, InitNonces DEF RelayerInv
<1>2. RelayerInv /\ [RelayerNext]_relayerVars => RelayerInv'
  BY NextTypeOK, NextAge, NextLegs, NextNonces DEF RelayerInv, AgeInv, LegsInv
<1>3. RelayerInv => RefusedForAWinner
  BY DEF RelayerInv, NonceInv
<1> QED
  BY <1>1, <1>2, <1>3, PTL DEF RelayerSpec
================================================================================
