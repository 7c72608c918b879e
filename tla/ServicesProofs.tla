----------------------------- MODULE ServicesProofs -----------------------------
(***************************************************************************)
(* Proofs about components that share nothing: the keys that the custom    *)
(* issuer guard holds, the custom issuer, the connection manager of the    *)
(* NEAR RPC, the pages of the metrics and the pagination merger, each for  *)
(* any number of fetches, refreshes, calls, nodes, answers, rows, sources  *)
(* and pages.                                                              *)
(***************************************************************************)
EXTENDS CustomIssuerGuard, NearRPC, Issuer, StatusPage, PaginationMerger, FiniteSetTheorems, TLAPS

-----------------------------------------------------------------------------
(* The custom issuer guard.                                                *)

\* The promises and the published lists keep their shape as well.
GuardInv == TypeOK /\ attested \in [Contract -> KeyLists]

LEMMA GuardInitial == Init => GuardInv
  BY DEF Init, GuardInv, TypeOK, Valid

\* A list or a source that changes leaves the promises as they are.
LEMMA GuardChanges == GuardInv /\ Change => GuardInv'
<1> SUFFICES ASSUME GuardInv, Change PROVE GuardInv'
  OBVIOUS
<1>1. ASSUME NEW contract \in Contract, NEW keys \in KeyLists, Publish(contract, keys)
      PROVE  GuardInv'
  BY <1>1 DEF Publish, GuardInv, TypeOK, Valid
<1>2. ASSUME NEW caller \in Account, NEW contract \in Contract,
             SetAttestationContract(caller, contract), UNCHANGED attested
      PROVE  GuardInv'
  BY <1>2 DEF SetAttestationContract, GuardInv, TypeOK, Valid
<1> QED
  BY <1>1, <1>2 DEF Change

\* What a receipt answers is a list of its contract, or a failure.
LEMMA GuardAnswered ==
  ASSUME NEW f \in FetchId, GuardInv, NEW answer \in KeyLists \cup {Failed},
         AttestationAnswers(f, answer), UNCHANGED attested
  PROVE  GuardInv'
<1>1. fetches[f] \in [from : Contract, answer : KeyLists \cup {None, Failed}]
  BY DEF AttestationAnswers, GuardInv, TypeOK
<1>2. [fetches[f] EXCEPT !.answer = answer] \in [from : Contract, answer : KeyLists \cup {None, Failed}]
  BY <1>1
<1>3. fetches' \in [FetchId -> {None} \cup [from : Contract, answer : KeyLists \cup {None, Failed}]]
  BY <1>2 DEF AttestationAnswers, GuardInv, TypeOK
<1> QED
  BY <1>3 DEF AttestationAnswers, GuardInv, TypeOK, Valid

\* A fetch is asked of the source of that moment; its callback installs a list
\* only when it is valid.
LEMMA GuardFetches ==
  ASSUME NEW f \in FetchId, GuardInv, Ask(f) \/ Answered(f) \/ NotAnswered(f) \/ Callback(f)
  PROVE  GuardInv'
<1>1. CASE Ask(f)
  <2>1. [from |-> source, answer |-> None] \in [from : Contract, answer : KeyLists \cup {None, Failed}]
    BY DEF GuardInv, TypeOK
  <2> QED
    BY <1>1, <2>1 DEF Ask, SetPublicKeys, GuardInv, TypeOK, Valid
<1>2. CASE Answered(f)
  <2>1. fetches[f] \in [from : Contract, answer : KeyLists \cup {None, Failed}]
    BY <1>2 DEF Answered, AttestationAnswers, GuardInv, TypeOK
  <2>2. attested[fetches[f].from] \in KeyLists
    BY <2>1 DEF GuardInv
  <2> QED
    BY <1>2, <2>2, GuardAnswered DEF Answered
<1>3. CASE NotAnswered(f)
  BY <1>3, GuardAnswered DEF NotAnswered
<1>4. CASE Callback(f)
  <2>1. fetches[f] \in [from : Contract, answer : KeyLists \cup {None, Failed}] /\ fetches[f].answer # None
    BY <1>4 DEF Callback, OnSetPublicKeysCallback, GuardInv, TypeOK
  <2>2. publicKeys' \in KeyLists /\ Valid(publicKeys)'
    BY <1>4, <2>1 DEF Callback, OnSetPublicKeysCallback, Installable, Valid, GuardInv, TypeOK
  <2>3. fetches' \in [FetchId -> {None} \cup [from : Contract, answer : KeyLists \cup {None, Failed}]]
    BY <1>4 DEF Callback, OnSetPublicKeysCallback, GuardInv, TypeOK
  <2> QED
    BY <1>4, <2>2, <2>3 DEF Callback, OnSetPublicKeysCallback, GuardInv, TypeOK
<1> QED
  BY <1>1, <1>2, <1>3, <1>4

LEMMA GuardNextInv == GuardInv /\ [Next]_vars => GuardInv'
<1> SUFFICES ASSUME GuardInv, [Next]_vars PROVE GuardInv'
  OBVIOUS
<1>1. CASE Change
  BY <1>1, GuardChanges
<1>2. ASSUME NEW f \in FetchId, Ask(f) \/ Answered(f) \/ NotAnswered(f) \/ Callback(f)
      PROVE  GuardInv'
  BY <1>2, GuardFetches
<1>3. CASE UNCHANGED vars
  BY <1>3 DEF vars, GuardInv, TypeOK, Valid
<1> QED
  BY <1>1, <1>2, <1>3 DEF Next

\* For any contracts, lists and number of fetches under way, the guard never
\* holds a list with a key that assert_valid_public_key refuses
\* (custom-issuer-guard/src/lib.rs).
THEOREM OnlyValidKeys == Spec => []TypeOK
<1>1. GuardInv => TypeOK
  BY DEF GuardInv
<1> QED
  BY <1>1, GuardInitial, GuardNextInv, PTL DEF Spec

-----------------------------------------------------------------------------
(* The custom issuer.                                                      *)

\* No keys, stored or on their way, are newer than what is published.
NothingNewer ==
  /\ stored <= published
  /\ \A f \in Fetch : refresh[f].version <= published

IssuerInv == IssuerTypeOK /\ NothingNewer /\ ExchangesLiveTokens

Versions == {NoKeys, Junk} \cup (0 .. MaxPublished)
Refreshes == [stage : {"none", "asked", "answered"}, version : Versions]

LEMMA RefreshTypes == IssuerTypeOK <=>
  /\ published \in 0 .. MaxPublished /\ stored \in Versions
  /\ sinceUpdate \in 0 .. RefreshInterval + 1 /\ clock \in 0 .. MaxClock
  /\ refresh \in [Fetch -> Refreshes]
  /\ lastIssued = NothingIssued \/ lastIssued.token \in InputTokens
  BY DEF IssuerTypeOK, Versions, Refreshes

LEMMA IssuerInitial == IssuerInit => IssuerInv
<1> SUFFICES ASSUME IssuerInit PROVE IssuerInv
  OBVIOUS
<1>1. [NotRefreshing EXCEPT !.stage = "asked"] \in Refreshes /\ NotRefreshing \in Refreshes
  BY DEF NotRefreshing, Refreshes, Versions
<1>2. /\ NotRefreshing.version = NoKeys
      /\ [NotRefreshing EXCEPT !.stage = "asked"].version = NoKeys
  BY DEF NotRefreshing
<1>3. refresh \in [Fetch -> Refreshes] /\ \A f \in Fetch : refresh[f].version = NoKeys
  <2>1. PICK g \in Fetch :
          refresh = [f \in Fetch |-> IF f = g THEN [NotRefreshing EXCEPT !.stage = "asked"] ELSE NotRefreshing]
    BY DEF IssuerInit
  <2> QED
    BY <2>1, <1>1, <1>2
<1>4. IssuerTypeOK
  BY <1>3, RefreshTypes, IssuerAssumption DEF IssuerInit, Versions
<1>5. NothingNewer
  BY <1>3 DEF IssuerInit, NothingNewer, NoKeys
<1> QED
  BY <1>4, <1>5 DEF IssuerInit, IssuerInv, ExchangesLiveTokens

\* What a response yields is a version that was published, or no keys at all.
LEMMA LoadedWasPublished ==
  ASSUME NEW shape, NEW version \in 0 .. MaxPublished
  PROVE  LoadPublicKeys(shape, version) \in Versions /\ LoadPublicKeys(shape, version) <= version
<1>1. NoKeys \in Versions /\ NoKeys <= version /\ Junk \in Versions /\ Junk <= version
      /\ version \in Versions /\ version <= version
  BY DEF NoKeys, Junk, Versions
<1> QED
  BY <1>1 DEF LoadPublicKeys, ParseFirebase

LEMMA UrlAnswersInv ==
  ASSUME IssuerInv, NEW f \in Fetch, NEW shape \in Shapes, UrlAnswers(f, shape)
  PROVE  IssuerInv'
<1> DEFINE answered == [stage |-> "answered", version |-> LoadPublicKeys(shape, published)]
<1>1. answered \in Refreshes /\ answered.version <= published
  BY LoadedWasPublished DEF IssuerInv, IssuerTypeOK, Refreshes
<1>2. refresh' = [refresh EXCEPT ![f] = answered] /\ UNCHANGED <<published, stored, sinceUpdate, clock, lastIssued>>
  BY DEF UrlAnswers
<1> HIDE DEF answered
<1>3. IssuerTypeOK'
  BY <1>1, <1>2 DEF IssuerInv, IssuerTypeOK, Refreshes, Versions
<1>4. NothingNewer'
  BY <1>1, <1>2 DEF IssuerInv, IssuerTypeOK, NothingNewer
<1> QED
  BY <1>2, <1>3, <1>4 DEF IssuerInv, ExchangesLiveTokens

LEMMA RefreshEndsInv ==
  ASSUME IssuerInv, NEW f \in Fetch, RefreshEnds(f)
  PROVE  IssuerInv'
<1> DEFINE next == IF stored' = NoKeys THEN [NotRefreshing EXCEPT !.stage = "asked"] ELSE NotRefreshing
<1>1. next \in Refreshes /\ next.version = NoKeys
  BY DEF NotRefreshing, Refreshes, Versions
<1>2. refresh' = [refresh EXCEPT ![f] = next] /\ UNCHANGED <<published, clock, lastIssued>>
  BY DEF RefreshEnds
<1> HIDE DEF next
<1>3. refresh[f].version \in Versions /\ refresh[f].version <= published
  BY DEF IssuerInv, IssuerTypeOK, NothingNewer, Versions
<1>4. stored' \in Versions /\ stored' <= published
  BY <1>3 DEF RefreshEnds, Installed, IssuerInv, IssuerTypeOK, NothingNewer, Versions
<1>5. sinceUpdate' \in 0 .. RefreshInterval + 1
  BY IssuerAssumption DEF RefreshEnds, IssuerInv, IssuerTypeOK
<1>6. IssuerTypeOK'
  BY <1>1, <1>2, <1>4, <1>5 DEF IssuerInv, IssuerTypeOK, Refreshes, Versions
<1>7. NothingNewer'
  BY <1>1, <1>2, <1>4 DEF IssuerInv, IssuerTypeOK, NothingNewer, NoKeys
<1> QED
  BY <1>2, <1>6, <1>7 DEF IssuerInv, ExchangesLiveTokens

\* Whoever needs the keys may start a refresh.
LEMMA KeysNeeded ==
  ASSUME IssuerInv, GetValidationPublicKeys, UNCHANGED <<published, stored, sinceUpdate, clock>>
  PROVE  /\ refresh' \in [Fetch -> Refreshes]
         /\ NothingNewer'
<1>1. CASE UNCHANGED refresh
  BY <1>1 DEF IssuerInv, IssuerTypeOK, NothingNewer, Refreshes, Versions
<1>2. CASE \E f \in Fetch : refresh' = [refresh EXCEPT ![f].stage = "asked"]
  <2>1. PICK f \in Fetch : refresh' = [refresh EXCEPT ![f].stage = "asked"]
    BY <1>2
  <2>2. [refresh[f] EXCEPT !.stage = "asked"] \in Refreshes
        /\ [refresh[f] EXCEPT !.stage = "asked"].version = refresh[f].version
    BY DEF IssuerInv, IssuerTypeOK, Refreshes, Versions
  <2>3. refresh' = [refresh EXCEPT ![f] = [refresh[f] EXCEPT !.stage = "asked"]]
    BY <2>1
  <2> QED
    BY <2>2, <2>3 DEF IssuerInv, IssuerTypeOK, NothingNewer, Refreshes, Versions
<1> QED
  BY <1>1, <1>2 DEF GetValidationPublicKeys

\* An acceptable token was signed with published keys and is live.
LEMMA AcceptableIsLive ==
  ASSUME IssuerInv, NEW token \in InputTokens, Acceptable(token)
  PROVE  /\ token.key <= published + 1
         /\ token.nbf <= clock
         /\ ~IgnoreExpiration /\ token.exp >= 0 => token.exp > clock
<1>1. /\ token.exp \in Int /\ token.nbf \in Int /\ clock \in Nat
      /\ stored \in Int /\ stored <= published /\ published \in Nat
  BY IssuerAssumption
  DEF JwtTokens, TokenTimes, Absent, Odd, IssuerInv, IssuerTypeOK, NothingNewer, NoKeys, Junk
<1>2. token.key \in {stored, stored + 1}
  BY DEF Acceptable, VerifyAndDecode, KeysOf
<1>3. token.nbf = Absent \/ token.nbf <= clock
  BY DEF Acceptable, VerifyAndDecode, NotBeforeClaim
<1>4. ~IgnoreExpiration => token.exp = Absent \/ token.exp > clock
  BY DEF Acceptable, VerifyAndDecode, ExpirationClaim
<1> QED
  BY <1>1, <1>2, <1>3, <1>4 DEF Absent

LEMMA IssueTokenInv ==
  ASSUME IssuerInv, NEW token \in InputTokens, IssueToken(token)
  PROVE  IssuerInv'
<1>1. refresh' \in [Fetch -> Refreshes] /\ NothingNewer' /\ UNCHANGED <<published, stored, sinceUpdate, clock>>
  BY KeysNeeded DEF IssueToken
<1>2. CASE lastIssued' = lastIssued
  BY <1>1, <1>2, RefreshTypes DEF IssuerInv, IssuerTypeOK, ExchangesLiveTokens, Versions, Refreshes
<1>3. CASE Acceptable(token) /\ lastIssued' = BuildTokenPayload(token)
  <2>1. /\ lastIssued'.token = token /\ lastIssued'.exp = token.exp /\ lastIssued'.nbf = token.nbf
        /\ lastIssued'.at = clock
    BY <1>3 DEF BuildTokenPayload
  <2>2. IssuerTypeOK'
    BY <1>1, <2>1 DEF IssuerInv, IssuerTypeOK, Refreshes, Versions
  <2>3. ExchangesLiveTokens'
    BY <1>1, <1>3, <2>1, AcceptableIsLive DEF ExchangesLiveTokens
  <2> QED
    BY <1>1, <2>2, <2>3 DEF IssuerInv
<1> QED
  BY <1>2, <1>3 DEF IssueToken

LEMMA PublishInv == IssuerInv /\ PublishKeys => IssuerInv'
<1> SUFFICES ASSUME IssuerInv, PublishKeys PROVE IssuerInv'
  OBVIOUS
<1>1. /\ published' = published + 1 /\ published' \in 0 .. MaxPublished
      /\ UNCHANGED <<stored, sinceUpdate, refresh, clock, lastIssued>>
  BY IssuerAssumption DEF PublishKeys, IssuerInv, IssuerTypeOK
<1>2. IssuerTypeOK'
  BY <1>1 DEF IssuerInv, IssuerTypeOK
<1>3. NothingNewer'
  BY <1>1 DEF IssuerInv, IssuerTypeOK, NothingNewer, NoKeys, Junk
<1>4. ExchangesLiveTokens'
  <2>1. lastIssued = NothingIssued \/ lastIssued.token.key \in Nat
    BY IssuerAssumption DEF IssuerInv, IssuerTypeOK, JwtTokens
  <2> QED
    BY <1>1, <2>1 DEF IssuerInv, IssuerTypeOK, ExchangesLiveTokens
<1> QED
  BY <1>2, <1>3, <1>4 DEF IssuerInv

LEMMA IssuerNextInv == IssuerInv /\ [IssuerNext]_issuerVars => IssuerInv'
<1> SUFFICES ASSUME IssuerInv, [IssuerNext]_issuerVars PROVE IssuerInv'
  OBVIOUS
<1>1. CASE Readyz
  <2>1. UNCHANGED <<published, stored, sinceUpdate, clock, lastIssued>> /\ GetValidationPublicKeys
    BY <1>1 DEF Readyz
  <2> QED
    BY <2>1, KeysNeeded DEF IssuerInv, IssuerTypeOK, ExchangesLiveTokens, Versions, Refreshes
<1>2. CASE IssuerTick
  BY <1>2, IssuerAssumption DEF IssuerTick, IssuerInv, IssuerTypeOK, NothingNewer, ExchangesLiveTokens
<1>3. CASE UNCHANGED issuerVars
  BY <1>3 DEF issuerVars, IssuerInv, IssuerTypeOK, NothingNewer, ExchangesLiveTokens
<1> QED
  BY <1>1, <1>2, <1>3, PublishInv, IssueTokenInv, RefreshEndsInv, UrlAnswersInv DEF IssuerNext

\* The issuer's state keeps its types (key.service.ts).
THEOREM IssuerTypeCorrect == IssuerSpec => []IssuerTypeOK
<1>1. IssuerInv => IssuerTypeOK
  BY DEF IssuerInv
<1> QED
  BY <1>1, IssuerInitial, IssuerNextInv, PTL DEF IssuerSpec

\* For any refreshes under way, responses and tokens: what is exchanged was
\* signed with published keys, was live, and its answer lives exactly as long
\* (issuer.service.ts:59-73, 75-143, 162-178).
THEOREM ExchangesAreLive == IssuerSpec => []ExchangesLiveTokens
<1>1. IssuerInv => ExchangesLiveTokens
  BY DEF IssuerInv
<1> QED
  BY <1>1, IssuerInitial, IssuerNextInv, PTL DEF IssuerSpec

-----------------------------------------------------------------------------
(* The connection manager.                                                 *)

RpcCalls == [stage : {"idle", "first", "switched", "again", "waiting", "done", "failed", "limited"},
             node : Nodes, retry : Nat, timer : Nat, tried : SUBSET Nodes]

Alone(c) == \A d \in Caller \ {c} : rpcCall[d].stage = "idle"

\* The attempts that a call has made.
Attempts(call) == IF call.stage \in {"first", "switched"} THEN 2 * call.retry + 1 ELSE 2 * call.retry + 2

\* The n attempts went from the first node to the next and so on, round the pool
\* if they were as many.
InTurn(call, n) == call.tried = Nodes \/ (n <= PoolLength /\ call.node = n - 1 /\ call.tried = 0 .. n - 1)

\* While a call has the manager for itself it finds it where it left it, and its
\* waits are long enough to move it.
AloneInTurn(c) ==
  LET call == rpcCall[c] IN
  /\ call.stage = "idle" => currentRpc = 0 /\ sinceSwitch = Wait /\ call.tried = {} /\ call.retry = 0
  /\ call.stage \in {"first", "switched", "again", "waiting", "limited"} => InTurn(call, Attempts(call))
  /\ call.stage \in {"first", "again", "waiting"} => currentRpc = call.node
  /\ call.stage = "switched" => currentRpc = NextNode(call.node)
  /\ call.stage = "waiting" => sinceSwitch + call.timer >= Wait
  /\ call.stage = "limited" => call.retry = Retries

RpcInv ==
  /\ limited \in SUBSET Nodes /\ currentRpc \in Nodes /\ sinceSwitch \in 0 .. Wait
  /\ rpcCall \in [Caller -> RpcCalls]
  /\ \A c \in Caller : Alone(c) => AloneInTurn(c)

LEMMA NextNodeIs ==
  ASSUME NEW n \in Nodes
  PROVE  NextNode(n) = IF n = PoolLength - 1 THEN 0 ELSE n + 1
<1>1. PoolLength \in Nat \ {0}
  BY NearRPCAssumption
<1>2. CASE n = PoolLength - 1
  BY <1>1, <1>2 DEF NextNode
<1>3. CASE n # PoolLength - 1
  BY <1>1, <1>3 DEF NextNode, Nodes
<1> QED
  BY <1>2, <1>3

LEMMA NextIsANode == ASSUME NEW n \in Nodes PROVE NextNode(n) \in Nodes
  BY NextNodeIs, NearRPCAssumption DEF Nodes

\* One attempt more, on the next node.
LEMMA TurnGoesOn ==
  ASSUME NEW call, NEW next, NEW n \in Nat \ {0}, InTurn(call, n), call.node \in Nodes, call.tried \subseteq Nodes,
         next.node = NextNode(call.node), next.tried = call.tried \cup {NextNode(call.node)}
  PROVE  InTurn(next, n + 1)
<1>1. NextNode(call.node) \in Nodes
  BY NextIsANode
<1>2. CASE call.tried = Nodes
  BY <1>1, <1>2 DEF InTurn
<1>3. CASE n = PoolLength /\ call.tried = 0 .. n - 1
  BY <1>1, <1>3 DEF InTurn, Nodes
<1>4. CASE n < PoolLength /\ call.node = n - 1 /\ call.tried = 0 .. n - 1
  <2>1. NextNode(call.node) = n
    BY <1>4, NextNodeIs, NearRPCAssumption
  <2>2. next.tried = 0 .. n
    BY <1>4, <2>1
  <2> QED
    BY <1>4, <2>1, <2>2, NearRPCAssumption DEF InTurn
<1> QED
  BY <1>2, <1>3, <1>4, NearRPCAssumption DEF InTurn

LEMMA RpcInitial == NearRPCInit => RpcInv
<1> SUFFICES ASSUME NearRPCInit PROVE RpcInv
  OBVIOUS
<1>1. IdleCall \in RpcCalls
  BY NearRPCAssumption DEF IdleCall, RpcCalls, Nodes
<1>2. \A c \in Caller : rpcCall[c] = IdleCall
  BY DEF NearRPCInit
<1>3. \A c \in Caller : AloneInTurn(c)
  BY <1>2 DEF AloneInTurn, IdleCall, NearRPCInit
<1> QED
  BY <1>1, <1>3, NearRPCAssumption DEF RpcInv, NearRPCInit, Nodes

\* A step of a call: what it has to show of that call.
LEMMA OneCallMoves ==
  ASSUME RpcInv, NEW c \in Caller, NEW call \in RpcCalls, rpcCall' = [rpcCall EXCEPT ![c] = call],
         call.stage # "idle", limited' \in SUBSET Nodes, currentRpc' \in Nodes, sinceSwitch' \in 0 .. Wait,
         Alone(c) => AloneInTurn(c)'
  PROVE  RpcInv'
<1>1. rpcCall' \in [Caller -> RpcCalls] /\ rpcCall'[c] = call /\ \A d \in Caller \ {c} : rpcCall'[d] = rpcCall[d]
  BY DEF RpcInv
<1>2. Alone(c)' => Alone(c)
  BY <1>1 DEF Alone
<1>3. \A d \in Caller \ {c} : ~Alone(d)'
  BY <1>1 DEF Alone
<1> QED
  BY <1>1, <1>2, <1>3 DEF RpcInv

\* What a call is after an attempt.
LEMMA AttemptIs ==
  ASSUME NEW call \in RpcCalls, NEW stage \in {"first", "again"}, NEW node \in Nodes
  PROVE  [call EXCEPT !.stage = stage, !.node = node, !.tried = @ \cup {node}, !.timer = 0] =
         [stage |-> stage, node |-> node, retry |-> call.retry, timer |-> 0, tried |-> call.tried \cup {node}]
<1> DEFINE next == [call EXCEPT !.stage = stage, !.node = node, !.tried = @ \cup {node}, !.timer = 0]
<1>1. /\ next \in RpcCalls /\ next.stage = stage /\ next.node = node /\ next.retry = call.retry
      /\ next.timer = 0 /\ next.tried = call.tried \cup {node}
  BY DEF RpcCalls
<1> HIDE DEF next
<1>2. next = [stage |-> stage, node |-> node, retry |-> call.retry, timer |-> 0, tried |-> call.tried \cup {node}]
  BY <1>1 DEF RpcCalls
<1> QED
  BY <1>2 DEF next

LEMMA CallBegins == ASSUME RpcInv, NEW c \in Caller, Call(c) PROVE RpcInv'
<1> DEFINE call == [rpcCall[c] EXCEPT !.stage = "first", !.node = currentRpc,
                                      !.tried = @ \cup {currentRpc}, !.timer = 0]
<1>1. /\ rpcCall' = [rpcCall EXCEPT ![c] = call] /\ UNCHANGED <<limited, currentRpc, sinceSwitch>>
      /\ rpcCall[c].stage = "idle" /\ rpcCall[c] \in RpcCalls /\ currentRpc \in Nodes
  BY DEF Call, Attempt, RpcInv
<1>2. /\ call \in RpcCalls /\ call.stage = "first" /\ call.node = currentRpc
      /\ call.tried = rpcCall[c].tried \cup {currentRpc} /\ call.retry = rpcCall[c].retry
  BY <1>1 DEF RpcCalls
<1> HIDE DEF call
<1>3. ASSUME Alone(c) PROVE AloneInTurn(c)'
  <2>1. rpcCall'[c] = call
    BY <1>1 DEF RpcInv
  <2>2. currentRpc = 0 /\ rpcCall[c].tried = {} /\ rpcCall[c].retry = 0
    BY <1>1, <1>3 DEF RpcInv, AloneInTurn
  <2>3. InTurn(call, 1)
    BY <1>2, <2>2, NearRPCAssumption DEF InTurn
  <2>4. Attempts(call) = 1
    BY <1>2, <2>2 DEF Attempts
  <2> QED
    BY <1>1, <1>2, <2>1, <2>3, <2>4 DEF AloneInTurn
<1> QED
  BY <1>1, <1>2, <1>3, OneCallMoves DEF RpcInv

\* A call that only goes to another stage.
LEMMA CallSettles ==
  ASSUME RpcInv, NEW c \in Caller, NEW stage \in {"done", "failed", "limited"}, Settle(c, stage),
         stage = "limited" => rpcCall[c].stage = "again" /\ rpcCall[c].retry = Retries
  PROVE  RpcInv'
<1> DEFINE call == [rpcCall[c] EXCEPT !.stage = stage]
<1>1. /\ rpcCall' = [rpcCall EXCEPT ![c] = call] /\ UNCHANGED <<limited, currentRpc, sinceSwitch>>
      /\ rpcCall[c] \in RpcCalls
  BY DEF Settle, RpcInv
<1>2. /\ call \in RpcCalls /\ call.stage = stage /\ call.node = rpcCall[c].node
      /\ call.tried = rpcCall[c].tried /\ call.retry = rpcCall[c].retry
  BY <1>1 DEF RpcCalls
<1> HIDE DEF call
<1>3. ASSUME Alone(c) PROVE AloneInTurn(c)'
  <2>1. rpcCall'[c] = call
    BY <1>1 DEF RpcInv
  <2>2. CASE stage = "limited"
    <3>1. InTurn(rpcCall[c], Attempts(rpcCall[c]))
      BY <1>3, <2>2 DEF RpcInv, AloneInTurn
    <3>2. InTurn(call, Attempts(call))
      BY <1>2, <2>2, <3>1 DEF InTurn, Attempts
    <3> QED
      BY <1>2, <2>1, <2>2, <3>2 DEF AloneInTurn
  <2>3. CASE stage # "limited"
    BY <1>2, <2>1, <2>3 DEF AloneInTurn
  <2> QED
    BY <2>2, <2>3
<1> QED
  BY <1>1, <1>2, <1>3, OneCallMoves DEF RpcInv

LEMMA CallSwitches == ASSUME RpcInv, NEW c \in Caller, FirstFails(c) PROVE RpcInv'
<1> DEFINE call == [rpcCall[c] EXCEPT !.stage = "switched"]
<1>1. /\ rpcCall' = [rpcCall EXCEPT ![c] = call] /\ UNCHANGED <<limited, sinceSwitch>>
      /\ currentRpc' = NextNode(currentRpc)
      /\ rpcCall[c] \in RpcCalls /\ rpcCall[c].stage = "first"
  BY DEF FirstFails, SwitchToNextRPC, RpcInv
<1>2. /\ call \in RpcCalls /\ call.stage = "switched" /\ call.node = rpcCall[c].node
      /\ call.tried = rpcCall[c].tried /\ call.retry = rpcCall[c].retry
  BY <1>1 DEF RpcCalls
<1> HIDE DEF call
<1>3. ASSUME Alone(c) PROVE AloneInTurn(c)'
  <2>1. rpcCall'[c] = call
    BY <1>1 DEF RpcInv
  <2>2. InTurn(rpcCall[c], Attempts(rpcCall[c])) /\ currentRpc = rpcCall[c].node
    BY <1>1, <1>3 DEF RpcInv, AloneInTurn
  <2>3. InTurn(call, Attempts(call))
    BY <1>1, <1>2, <2>2 DEF InTurn, Attempts
  <2> QED
    BY <1>1, <1>2, <2>1, <2>2, <2>3 DEF AloneInTurn
<1>4. currentRpc' \in Nodes
  BY <1>1, NextIsANode DEF RpcInv
<1> QED
  BY <1>1, <1>2, <1>3, <1>4, OneCallMoves DEF RpcInv

LEMMA CallRetriesAtOnce == ASSUME RpcInv, NEW c \in Caller, RetryAtOnce(c) PROVE RpcInv'
<1> DEFINE call == [rpcCall[c] EXCEPT !.stage = "again", !.node = currentRpc,
                                      !.tried = @ \cup {currentRpc}, !.timer = 0]
<1>1. /\ rpcCall' = [rpcCall EXCEPT ![c] = call] /\ UNCHANGED <<limited, currentRpc, sinceSwitch>>
      /\ rpcCall[c] \in RpcCalls /\ rpcCall[c].stage = "switched" /\ currentRpc \in Nodes
  BY DEF RetryAtOnce, Attempt, RpcInv
<1>2. /\ call \in RpcCalls /\ call.stage = "again" /\ call.node = currentRpc
      /\ call.tried = rpcCall[c].tried \cup {currentRpc} /\ call.retry = rpcCall[c].retry
  BY <1>1 DEF RpcCalls
<1> HIDE DEF call
<1>3. ASSUME Alone(c) PROVE AloneInTurn(c)'
  <2>1. rpcCall'[c] = call
    BY <1>1 DEF RpcInv
  <2>2. InTurn(rpcCall[c], Attempts(rpcCall[c])) /\ currentRpc = NextNode(rpcCall[c].node)
    BY <1>1, <1>3 DEF RpcInv, AloneInTurn
  <2>3. /\ Attempts(rpcCall[c]) \in Nat \ {0} /\ Attempts(call) = Attempts(rpcCall[c]) + 1
        /\ rpcCall[c].node \in Nodes /\ rpcCall[c].tried \subseteq Nodes
    BY <1>1, <1>2 DEF Attempts, RpcCalls
  <2>4. InTurn(call, Attempts(call))
    BY <1>2, <2>2, <2>3, TurnGoesOn
  <2> QED
    BY <1>1, <1>2, <2>1, <2>4 DEF AloneInTurn
<1> QED
  BY <1>1, <1>2, <1>3, OneCallMoves DEF RpcInv

LEMMA WaitsAreLong == ASSUME NEW retry \in Nat PROVE BaseTime(retry) \in Nat /\ BaseTime(retry) >= Wait
<1> DEFINE times == (retry + 1) * Backoff
<1>1. Wait \in Nat \ {0} /\ Backoff \in Nat \ {0}
  BY NearRPCAssumption
<1>2. \A a, b \in Nat \ {0} : a * b \in Nat \ {0} /\ a * b >= a
  OBVIOUS
<1>3. Wait * (retry + 1) \in Nat \ {0} /\ Wait * (retry + 1) >= Wait
  BY <1>1, <1>2
<1>4. BaseTime(retry) \in Nat \ {0} /\ BaseTime(retry) >= Wait * (retry + 1)
  BY <1>1, <1>2, <1>3 DEF BaseTime
<1> QED
  BY <1>1, <1>3, <1>4

LEMMA CallWaits ==
  ASSUME RpcInv, NEW c \in Caller, NEW extra \in 0 .. Wait, rpcCall[c].stage = "again",
         rpcCall' = [rpcCall EXCEPT ![c].stage = "waiting", ![c].timer = BaseTime(rpcCall[c].retry) + extra],
         UNCHANGED <<limited, currentRpc, sinceSwitch>>
  PROVE  RpcInv'
<1> DEFINE timer == BaseTime(rpcCall[c].retry) + extra
           call  == [rpcCall[c] EXCEPT !.stage = "waiting", !.timer = timer]
<1>1. rpcCall[c] \in RpcCalls /\ rpcCall' = [rpcCall EXCEPT ![c] = call]
  BY DEF RpcInv
<1>2. timer \in Nat /\ timer >= Wait
  BY <1>1, WaitsAreLong, NearRPCAssumption DEF RpcCalls
<1> HIDE DEF timer
<1>3. /\ call \in RpcCalls /\ call.stage = "waiting" /\ call.node = rpcCall[c].node
      /\ call.tried = rpcCall[c].tried /\ call.retry = rpcCall[c].retry /\ call.timer = timer
  BY <1>1, <1>2 DEF RpcCalls
<1> HIDE DEF call
<1>4. ASSUME Alone(c) PROVE AloneInTurn(c)'
  <2>1. rpcCall'[c] = call
    BY <1>1 DEF RpcInv
  <2>2. InTurn(rpcCall[c], Attempts(rpcCall[c])) /\ currentRpc = rpcCall[c].node
    BY <1>4 DEF RpcInv, AloneInTurn
  <2>3. InTurn(call, Attempts(call))
    BY <1>3, <2>2 DEF InTurn, Attempts
  <2>4. sinceSwitch + call.timer >= Wait
    BY <1>2, <1>3, NearRPCAssumption DEF RpcInv
  <2> QED
    BY <1>3, <2>1, <2>2, <2>3, <2>4 DEF AloneInTurn
<1> QED
  BY <1>1, <1>3, <1>4, OneCallMoves DEF RpcInv

LEMMA AgainFailsKeeps ==
  ASSUME RpcInv, NEW c \in Caller, NEW error, NEW extra, AgainFails(c, error, extra) PROVE RpcInv'
<1>1. CASE ~IsRateLimitError(error)
  BY <1>1, CallSettles DEF AgainFails
<1>2. CASE IsRateLimitError(error) /\ NoMoreRetries(c)
  BY <1>2, CallSettles DEF AgainFails, NoMoreRetries
<1>3. CASE IsRateLimitError(error) /\ ~NoMoreRetries(c)
  <2>1. /\ rpcCall[c].stage = "again" /\ extra \in 0 .. Wait
        /\ rpcCall' = [rpcCall EXCEPT ![c].stage = "waiting", ![c].timer = BaseTime(rpcCall[c].retry) + extra]
        /\ UNCHANGED <<limited, currentRpc, sinceSwitch>>
    BY <1>3 DEF AgainFails
  <2> QED
    BY <2>1, CallWaits
<1> QED
  BY <1>1, <1>2, <1>3

LEMMA CallTriesAgain == ASSUME RpcInv, NEW c \in Caller, WaitEnds(c) PROVE RpcInv'
<1> DEFINE call == [stage |-> "first", node |-> currentRpc', retry |-> rpcCall[c].retry + 1, timer |-> 0,
                    tried |-> rpcCall[c].tried \cup {currentRpc'}]
<1>1. /\ rpcCall[c] \in RpcCalls /\ rpcCall[c].stage = "waiting" /\ rpcCall[c].timer = 0
      /\ UNCHANGED limited
      /\ IF ShouldSwitchRpc THEN currentRpc' = NextNode(currentRpc) /\ sinceSwitch' = 0
                            ELSE UNCHANGED <<currentRpc, sinceSwitch>>
  BY DEF WaitEnds, SwitchToNextRPC, RememberSwitch, RpcInv
<1>2. currentRpc' \in Nodes /\ sinceSwitch' \in 0 .. Wait
  BY <1>1, NextIsANode, NearRPCAssumption DEF RpcInv
<1>3. rpcCall' = [rpcCall EXCEPT ![c] = call]
  <2> DEFINE later == [rpcCall[c] EXCEPT !.retry = NextRetry(@)]
  <2>1. rpcCall' = [rpcCall EXCEPT ![c] = [later EXCEPT !.stage = "first", !.node = currentRpc',
                                                       !.tried = @ \cup {currentRpc'}, !.timer = 0]]
    BY DEF WaitEnds, Attempt
  <2>2. later \in RpcCalls /\ later.retry = rpcCall[c].retry + 1 /\ later.tried = rpcCall[c].tried
    BY <1>1 DEF NextRetry, RpcCalls
  <2> HIDE DEF later
  <2>3. [later EXCEPT !.stage = "first", !.node = currentRpc', !.tried = @ \cup {currentRpc'}, !.timer = 0] =
          [stage |-> "first", node |-> currentRpc', retry |-> later.retry, timer |-> 0,
           tried |-> later.tried \cup {currentRpc'}]
    <3>1. currentRpc' \in Nodes /\ later \in RpcCalls
      BY <1>2, <2>2
    <3> QED
      BY <3>1, AttemptIs, Zenon
  <2> QED
    BY <2>1, <2>2, <2>3
<1>4. /\ call \in RpcCalls /\ call.stage = "first" /\ call.node = currentRpc'
      /\ call.tried = rpcCall[c].tried \cup {currentRpc'} /\ call.retry = rpcCall[c].retry + 1
  BY <1>1, <1>2 DEF RpcCalls
<1> HIDE DEF call
<1>5. ASSUME Alone(c) PROVE AloneInTurn(c)'
  <2>1. rpcCall'[c] = call
    BY <1>3 DEF RpcInv
  <2>2. /\ InTurn(rpcCall[c], Attempts(rpcCall[c])) /\ currentRpc = rpcCall[c].node
        /\ sinceSwitch + rpcCall[c].timer >= Wait
    BY <1>1, <1>5 DEF RpcInv, AloneInTurn
  <2>3. ShouldSwitchRpc
    BY <1>1, <2>2, NearRPCAssumption DEF ShouldSwitchRpc, RpcInv
  <2>4. currentRpc' = NextNode(rpcCall[c].node)
    BY <1>1, <2>2, <2>3
  <2>5. /\ Attempts(rpcCall[c]) \in Nat \ {0} /\ Attempts(call) = Attempts(rpcCall[c]) + 1
        /\ rpcCall[c].node \in Nodes /\ rpcCall[c].tried \subseteq Nodes
    BY <1>1, <1>4 DEF Attempts, RpcCalls
  <2>6. InTurn(call, Attempts(call))
    BY <1>4, <2>2, <2>4, <2>5, TurnGoesOn
  <2> QED
    BY <1>4, <2>1, <2>6 DEF AloneInTurn
<1> QED
  BY <1>1, <1>2, <1>3, <1>4, <1>5, OneCallMoves DEF RpcInv

LEMMA TimePasses == ASSUME RpcInv, RpcTick PROVE RpcInv'
<1>1. UNCHANGED <<limited, currentRpc>> /\ sinceSwitch' = IF sinceSwitch < Wait THEN sinceSwitch + 1 ELSE Wait
  BY DEF RpcTick
<1>2. sinceSwitch' \in 0 .. Wait /\ sinceSwitch' >= sinceSwitch
      /\ (sinceSwitch' = Wait \/ sinceSwitch' = sinceSwitch + 1)
  BY <1>1, NearRPCAssumption DEF RpcInv
<1>3. ASSUME NEW c \in Caller
      PROVE  /\ rpcCall[c] \in RpcCalls /\ rpcCall'[c] \in RpcCalls
             /\ rpcCall'[c].stage = rpcCall[c].stage /\ rpcCall'[c].node = rpcCall[c].node
             /\ rpcCall'[c].retry = rpcCall[c].retry /\ rpcCall'[c].tried = rpcCall[c].tried
             /\ rpcCall'[c].timer = IF rpcCall[c].timer > 0 THEN rpcCall[c].timer - 1 ELSE 0
  <2>1. rpcCall[c] \in RpcCalls
    BY DEF RpcInv
  <2>2. rpcCall'[c] = [rpcCall[c] EXCEPT !.timer = IF @ > 0 THEN @ - 1 ELSE 0]
    BY DEF RpcTick
  <2>3. (IF rpcCall[c].timer > 0 THEN rpcCall[c].timer - 1 ELSE 0) \in Nat
    BY <2>1 DEF RpcCalls
  <2> QED
    BY <2>1, <2>2, <2>3 DEF RpcCalls
<1>4. rpcCall' \in [Caller -> RpcCalls]
  BY <1>3 DEF RpcTick
<1>5. ASSUME NEW c \in Caller, Alone(c)' PROVE AloneInTurn(c)'
  <2>1. Alone(c)
    BY <1>3, <1>5 DEF Alone
  <2>2. AloneInTurn(c)
    BY <2>1 DEF RpcInv
  <2>3. rpcCall[c].stage # "idle"
    <3>1. PICK d \in Caller : rpcCall[d].stage = "waiting"
      BY DEF RpcTick
    <3> QED
      BY <2>1, <3>1 DEF Alone
  <2>4. rpcCall[c].stage = "waiting" => sinceSwitch' + rpcCall'[c].timer >= Wait
    <3>1. rpcCall[c].timer \in Nat /\ sinceSwitch \in 0 .. Wait
      BY <1>3 DEF RpcCalls, RpcInv
    <3>2. rpcCall[c].stage = "waiting" => sinceSwitch + rpcCall[c].timer >= Wait
      BY <2>2 DEF AloneInTurn
    <3> QED
      BY <1>2, <1>3, <3>1, <3>2, NearRPCAssumption
  <2>5. Attempts(rpcCall'[c]) = Attempts(rpcCall[c])
        /\ \A n : InTurn(rpcCall[c], n) => InTurn(rpcCall'[c], n)
    BY <1>3 DEF Attempts, InTurn
  <2> QED
    BY <1>1, <1>3, <2>2, <2>3, <2>4, <2>5 DEF AloneInTurn
<1> QED
  BY <1>1, <1>2, <1>4, <1>5 DEF RpcInv

LEMMA RpcNextInv == RpcInv /\ [NearRPCNext]_rpcVars => RpcInv'
<1> SUFFICES ASSUME RpcInv, [NearRPCNext]_rpcVars PROVE RpcInv'
  OBVIOUS
<1>1. ASSUME NEW c \in Caller, CallStep(c)
      PROVE  RpcInv'
  <2>1. CASE Succeeds(c)
    BY <2>1, CallSettles DEF Succeeds
  <2>2. ASSUME NEW e \in RateLimitErrors \cup OtherErrors, NEW x \in 0 .. Wait, AgainFails(c, e, x)
        PROVE  RpcInv'
    BY <2>2, AgainFailsKeeps
  <2> QED
    BY <1>1, <2>1, <2>2, CallSwitches, CallRetriesAtOnce, CallTriesAgain DEF CallStep
<1>2. CASE UNCHANGED rpcVars
  BY <1>2 DEF rpcVars, RpcInv, Alone, AloneInTurn
<1> QED
  BY <1>1, <1>2, TimePasses, CallBegins DEF NearRPCNext

\* For any pool, waits and number of retries that are enough for the pool: a call
\* that has the manager for itself gives up on rate limits only once every node
\* has refused it (near-rpc-rate-limit.ts:20-44).
THEOREM EveryNodeIsTried == NearRPCSpec => []GivesUpAfterAll
<1>1. RpcInv => GivesUpAfterAll
  <2> SUFFICES ASSUME RpcInv, NEW c \in Caller, rpcCall[c].stage = "limited", 2 * (Retries + 1) >= PoolLength,
                      Alone(c)
               PROVE  rpcCall[c].tried = Nodes
    BY DEF GivesUpAfterAll, Alone
  <2>1. InTurn(rpcCall[c], 2 * Retries + 2)
    BY DEF RpcInv, AloneInTurn, Attempts
  <2> QED
    BY <2>1, NearRPCAssumption DEF InTurn, Nodes
<1> QED
  BY <1>1, RpcInitial, RpcNextInv, PTL DEF NearRPCSpec

-----------------------------------------------------------------------------
(* The pages of the metrics.                                               *)

Given == DashboardAnswers[route] \cup {NoAnswer}

\* The numbers that are served, and those of a page that is open, are of an answer
\* of the dashboard; the table's page is one of its pages.
PageInv ==
  /\ route \in {"landing", "status"}
  /\ dashboard \in Given /\ served \in Given
  /\ OldNumbersComeDown
  /\ view # NoAnswer =>
       /\ DOMAIN view = {"data", "tab", "broken", "page"} /\ view.data.rows \in Nat
       /\ view.page \in [Tables -> Nat]
       /\ \A table \in Tables : view.page[table] < PageCount(table, view.data.rows)

LEMMA DataOfAnAnswer == ASSUME NEW answer PROVE FetchData(answer) \in {answer, NoAnswer}
  BY DEF FetchData, FetchStatusData, FetchLiveMetrics

\* What a page reads is none of the parts that it may do without.
LEMMA PageReads ==
  ASSUME route \in {"landing", "status"}
  PROVE  Reads \subseteq PageParts \ {"fastAuthHealth", "mpcHealth", "realActivity.breakdowns", "fetchedAt"}
<1>1. CASE route = "landing"
  <2>1. Components = {Stats} /\ PageParts = LiveMetrics
    BY <1>1 DEF Components, PageParts
  <2>2. Reads = Stats.reads
    BY <2>1 DEF Reads
  <2> QED
    BY <2>1, <2>2 DEF Stats, LiveMetrics
<1>2. CASE route = "status"
  <2>1. /\ Components = {StatusBanner, ServiceHealth, Overview, Activity, TopAccounts, Failures, Contracts, Indexer}
        /\ PageParts = StatusData
    BY <1>2 DEF Components, PageParts
  <2>2. ASSUME NEW c \in Components
        PROVE  c.reads \subseteq StatusData \ {"fastAuthHealth", "mpcHealth", "realActivity.breakdowns", "fetchedAt"}
    BY <2>1, <2>2 DEF StatusBanner, ServiceHealth, Overview, Activity, TopAccounts, Failures, Contracts,
                      Indexer, StatusData
  <2> QED
    BY <2>1, <2>2 DEF Reads
<1> QED
  BY <1>1, <1>2

LEMMA PageInitial == StatusPageInit => PageInv
<1> SUFFICES ASSUME StatusPageInit PROVE PageInv
  OBVIOUS
<1>1. lastAnswer \in Given /\ served \in {lastAnswer, NoAnswer}
  BY DataOfAnAnswer DEF StatusPageInit, Given
<1> QED
  BY <1>1 DEF StatusPageInit, PageInv, OldNumbersComeDown, Given

LEMMA PageRendered == ASSUME PageInv, StatusPage PROVE PageInv'
<1> DEFINE answer == IF Reachable THEN dashboard ELSE NoAnswer
           data   == FetchData(answer)
<1>1. /\ lastAnswer' = answer /\ served' = (IF Renders(data) THEN data ELSE served)
      /\ UNCHANGED <<route, url, dashboard, view>>
  BY DEF StatusPage
<1>2. answer \in Given /\ data \in {answer, NoAnswer}
  BY DataOfAnAnswer DEF PageInv, Given
<1>3. served' \in Given' /\ dashboard' \in Given' /\ Given' = Given
  BY <1>1, <1>2 DEF PageInv, Given
<1>4. ASSUME served' # NoAnswer, served' # lastAnswer'
      PROVE  OldNumbersComeDown'
  <2>1. ~Renders(data)
    BY <1>1, <1>2, <1>4
  <2>2. data # NoAnswer /\ data = answer /\ ~(Reads \subseteq answer.has)
    BY <1>2, <2>1 DEF Renders
  <2>3. /\ answer.ok /\ answer.json
        /\ (IF route = "status" THEN {"summary", "accounts"} ELSE {"accounts"}) \subseteq answer.has
    BY <2>2 DEF FetchData, FetchStatusData, FetchLiveMetrics
  <2>4. ~(PageParts \ {"fastAuthHealth", "mpcHealth", "realActivity.breakdowns", "fetchedAt"} \subseteq answer.has)
    BY <2>2, PageReads DEF PageInv
  <2>5. PageParts' = PageParts
    BY <1>1 DEF PageParts
  <2> HIDE DEF answer, data
  <2> QED
    BY <1>1, <2>2, <2>3, <2>4, <2>5 DEF OldNumbersComeDown
<1>5. OldNumbersComeDown'
  BY <1>4 DEF OldNumbersComeDown
<1> QED
  BY <1>1, <1>3, <1>5 DEF PageInv

LEMMA PageOfATable ==
  ASSUME NEW table \in Tables, NEW total \in Nat
  PROVE  /\ RowsPerPage(table) \in {8, 10} /\ PageCount(table, total) \in Nat \ {0}
         /\ total > 0 => /\ total <= PageCount(table, total) * RowsPerPage(table)
                         /\ PageCount(table, total) * RowsPerPage(table) < total + RowsPerPage(table)
         /\ total = 0 => PageCount(table, total) = 1
<1>1. RowsPerPage(table) \in {8, 10}
  BY DEF RowsPerPage
<1>2. CASE RowsPerPage(table) = 8
  BY <1>2 DEF PageCount
<1>3. CASE RowsPerPage(table) = 10
  BY <1>3 DEF PageCount
<1> QED
  BY <1>1, <1>2, <1>3

LEMMA ButtonsStayInside ==
  ASSUME NEW table \in Tables, NEW total \in Nat, NEW page \in Nat, page < PageCount(table, total),
         NEW q \in Buttons(table, total, page)
  PROVE  q \in Nat /\ q < PageCount(table, total)
<1> DEFINE pages == PageCount(table, total)
<1>1. pages \in Nat \ {0}
  BY PageOfATable
<1>2. pages > 1 /\ (q \in 0 .. pages - 1 \/ (q = page - 1 /\ page # 0) \/ (q = page + 1 /\ page # pages - 1))
  <2> HIDE DEF pages
  <2>1. q \in IF pages <= 1 THEN {}
              ELSE (0 .. pages - 1) \cup {r \in {page - 1} : page # 0} \cup {r \in {page + 1} : page # pages - 1}
    BY DEF Buttons, pages
  <2> QED
    BY <1>1, <2>1
<1> HIDE DEF pages
<1>3. page < pages
  BY DEF pages
<1>4. q \in Nat /\ q < pages
  BY <1>1, <1>2, <1>3
<1> QED
  BY <1>4 DEF pages

LEMMA PageBrowsed == ASSUME PageInv, Browse PROVE PageInv'
<1>1. /\ UNCHANGED <<route, dashboard, served, lastAnswer>>
      /\ OldNumbersComeDown' = OldNumbersComeDown /\ Given' = Given
  <2>1. UNCHANGED <<route, dashboard, served, lastAnswer>>
    BY DEF Browse, Mount, Leave, Turn, SetTab, serverVars
  <2> QED
    BY <2>1 DEF OldNumbersComeDown, PageParts, Given
<1>2. CASE Mount
  <2> DEFINE mounted == [data |-> served, tab |-> "overall", broken |-> FALSE, page |-> [table \in Tables |-> 0]]
  <2>1. served.rows \in Nat
    BY <1>2, StatusPageAssumption DEF Mount, PageInv, Given
  <2>2. view' = mounted
    BY <1>2 DEF Mount
  <2>3. \A table \in Tables : 0 < PageCount(table, served.rows)
    BY <2>1, PageOfATable
  <2>4. /\ DOMAIN view' = {"data", "tab", "broken", "page"} /\ view'.data = served
        /\ view'.page = [table \in Tables |-> 0]
    BY <2>2
  <2> QED
    BY <1>1, <2>1, <2>3, <2>4 DEF PageInv
<1>3. CASE Leave
  BY <1>1, <1>3 DEF Leave, PageInv
<1>4. ASSUME NEW table \in Tables, Turn(table)
      PROVE  PageInv'
  <2>1. PICK page \in Buttons(table, view.data.rows, view.page[table]) : view' = [view EXCEPT !.page[table] = page]
    BY <1>4 DEF Turn
  <2>2. view # NoAnswer
    BY <1>4 DEF Turn
  <2>3. page \in Nat /\ page < PageCount(table, view.data.rows)
    BY <2>1, <2>2, ButtonsStayInside DEF PageInv
  <2>4. /\ DOMAIN view' = {"data", "tab", "broken", "page"} /\ view'.data = view.data
        /\ view'.page = [view.page EXCEPT ![table] = page]
    BY <2>1, <2>2 DEF PageInv
  <2> QED
    BY <1>1, <2>2, <2>3, <2>4 DEF PageInv
<1>5. ASSUME NEW tab, SetTab(tab)
      PROVE  PageInv'
  <2>1. /\ view # NoAnswer
        /\ DOMAIN view' = DOMAIN view /\ view'.data = view.data /\ view'.page = view.page
    BY <1>5 DEF SetTab, PageInv
  <2> QED
    BY <1>1, <2>1 DEF PageInv
<1> QED
  BY <1>2, <1>3, <1>4, <1>5 DEF Browse

LEMMA PageNextInv == PageInv /\ [StatusPageNext]_statusVars => PageInv'
<1> SUFFICES ASSUME PageInv, [StatusPageNext]_statusVars PROVE PageInv'
  OBVIOUS
<1>1. CASE DashboardChanges
  BY <1>1 DEF DashboardChanges, PageInv, OldNumbersComeDown, PageParts, Given
<1>2. CASE WindowEnds \/ Request
  BY <1>2 DEF WindowEnds, Request, PageInv, OldNumbersComeDown, PageParts, Given
<1>3. CASE UNCHANGED statusVars
  BY <1>3 DEF statusVars, serverVars, PageInv, OldNumbersComeDown, PageParts, Given
<1> QED
  BY <1>1, <1>2, <1>3, PageRendered, PageBrowsed DEF StatusPageNext, Serve

\* For any answers: numbers of an older answer stay only when a component threw on
\* the last one (lib/status.ts:218, lib/metrics.ts:70-76).
THEOREM OldNumbersStayOnlyBroken == StatusPageSpec => []OldNumbersComeDown
<1>1. PageInv => OldNumbersComeDown
  BY DEF PageInv
<1> QED
  BY <1>1, PageInitial, PageNextInv, PTL DEF StatusPageSpec

\* A row r is on page (r - 1) \div size.
LEMMA PageOfARow ==
  ASSUME NEW table \in Tables, NEW total \in Nat, NEW row \in 1 .. total
  PROVE  \E q \in 0 .. PageCount(table, total) - 1 : row \in RowsOn(table, total, q)
<1> DEFINE size == RowsPerPage(table)
           q    == (row - 1) \div size
<1>1. q \in Nat /\ q * size <= row - 1 /\ row - 1 < q * size + size
  <2>1. CASE size = 8
    BY <2>1
  <2>2. CASE size = 10
    BY <2>2
  <2> QED
    BY <2>1, <2>2, PageOfATable
<1>2. q < PageCount(table, total)
  <2> DEFINE pages == PageCount(table, total)
  <2> HIDE DEF q
  <2>1. pages \in Nat /\ total <= pages * size
    BY PageOfATable
  <2> HIDE DEF pages
  <2>2. q < pages
    <3>1. CASE size = 8
      <4>1. q \in Nat /\ q * 8 <= row - 1 /\ total <= pages * 8
        BY <1>1, <2>1, <3>1
      <4> QED
        BY <2>1, <4>1
    <3>2. CASE size = 10
      <4>1. q \in Nat /\ q * 10 <= row - 1 /\ total <= pages * 10
        BY <1>1, <2>1, <3>2
      <4> QED
        BY <2>1, <4>1
    <3> QED
      BY <3>1, <3>2, PageOfATable
  <2> QED
    BY <2>2 DEF pages
<1>3. row \in RowsOn(table, total, q)
  <2> HIDE DEF q
  <2>1. size \in Nat
    BY PageOfATable
  <2>2. CASE size = 8
    BY <1>1, <2>2 DEF RowsOn
  <2>3. CASE size = 10
    BY <1>1, <2>3 DEF RowsOn
  <2> QED
    BY <2>2, <2>3, PageOfATable
<1>4. q \in 0 .. PageCount(table, total) - 1
  <2> HIDE DEF q
  <2> QED
    BY <1>1, <1>2, PageOfATable
<1> QED
  BY <1>3, <1>4

LEMMA RowsAreRows ==
  ASSUME NEW table \in Tables, NEW total \in Nat, NEW q \in Nat
  PROVE  RowsOn(table, total, q) \subseteq 1 .. total
<1>1. CASE RowsPerPage(table) = 8
  BY <1>1 DEF RowsOn
<1>2. CASE RowsPerPage(table) = 10
  BY <1>2 DEF RowsOn
<1> QED
  BY <1>1, <1>2, PageOfATable

\* From any page of a table of any length, the buttons lead to all the other rows
\* and the label names the rows that are there (Failures.tsx:33-36,
\* TopAccounts.tsx:15-18, Pagination.tsx:13-55).
THEOREM EveryRowIsReached == StatusPageSpec => []EveryRowIsOnAPage
<1>1. PageInv => EveryRowIsOnAPage
  <2> SUFFICES ASSUME PageInv, view # NoAnswer, NEW table \in Tables
               PROVE  LET total == view.data.rows
                          page  == view.page[table]
                          label == FirstTo(table, total, page)
                      IN /\ RowsOn(table, total, page) = label.first .. label.last
                         /\ total > 0 => RowsOn(table, total, page) # {}
                         /\ UNION {RowsOn(table, total, q) : q \in {page} \cup Buttons(table, total, page)} = 1 .. total
    BY DEF EveryRowIsOnAPage
  <2> DEFINE total == view.data.rows
             page  == view.page[table]
             size  == RowsPerPage(table)
             pages == PageCount(table, total)
  <2>1. total \in Nat /\ page \in Nat /\ page < pages
    BY DEF PageInv
  <2>2. size \in {8, 10} /\ pages \in Nat \ {0}
    BY <2>1, PageOfATable
  <2>3. RowsOn(table, total, page) = FirstTo(table, total, page).first .. FirstTo(table, total, page).last
    <3>1. CASE size = 8
      BY <2>1, <3>1 DEF RowsOn, FirstTo
    <3>2. CASE size = 10
      BY <2>1, <3>2 DEF RowsOn, FirstTo
    <3> QED
      BY <2>2, <3>1, <3>2
  <2>4. ASSUME total > 0
        PROVE  page * size + 1 \in RowsOn(table, total, page)
    <3>1. pages * size < total + size
      BY <2>1, <2>4, PageOfATable
    <3> HIDE DEF pages, page, total
    <3>2. CASE size = 8
      BY <2>1, <2>2, <3>1, <3>2 DEF RowsOn
    <3>3. CASE size = 10
      BY <2>1, <2>2, <3>1, <3>3 DEF RowsOn
    <3> QED
      BY <2>2, <3>2, <3>3
  <2>5. 0 .. pages - 1 \subseteq {page} \cup Buttons(table, total, page)
    <3>1. CASE pages = 1
      BY <2>1, <3>1
    <3>2. CASE pages > 1
      <4>1. Buttons(table, total, page) =
              IF pages <= 1 THEN {}
              ELSE (0 .. pages - 1) \cup {r \in {page - 1} : page # 0} \cup {r \in {page + 1} : page # pages - 1}
        BY DEF Buttons
      <4> HIDE DEF pages, page, total
      <4> QED
        BY <2>2, <3>2, <4>1
    <3> QED
      BY <2>2, <3>1, <3>2
  <2>6. \A row \in 1 .. total : \E q \in {page} \cup Buttons(table, total, page) : row \in RowsOn(table, total, q)
    BY <2>1, <2>5, PageOfARow
  <2>7. \A q \in {page} \cup Buttons(table, total, page) : RowsOn(table, total, q) \subseteq 1 .. total
    BY <2>1, RowsAreRows, ButtonsStayInside
  <2>8. UNION {RowsOn(table, total, q) : q \in {page} \cup Buttons(table, total, page)} = 1 .. total
    BY <2>6, <2>7
  <2> QED
    BY <2>3, <2>4, <2>8
<1> QED
  BY <1>1, PageInitial, PageNextInv, PTL DEF StatusPageSpec

-----------------------------------------------------------------------------
(* The pagination merger.                                                  *)

Params == IF getPage.stage = "idle" THEN ParamsOf(Len(results)) ELSE getPage.params

MergerRest == [items : Seq(Int), hasNextPage : BOOLEAN]
MergerParams == [SourceIds -> Nat \ {0}]
MergerResult == [items : Seq(Int), params : MergerParams, isLastPage : BOOLEAN]
MergerCall == [stage : {"idle", "slot", "fetching"}, params : MergerParams,
               items : Seq(Int), slot : 0 .. PageSize, pending : SUBSET SourceIds,
               touched : BOOLEAN]

MergerTypeOK ==
  /\ sources \in Families
  /\ rest \in [SourceIds -> MergerRest]
  /\ results \in Seq(MergerResult)
  /\ getPage \in MergerCall /\ failed \in Seq(MergerCall)
  /\ getPage.stage = "idle" => getPage = NoCall
  /\ getPage.stage = "fetching" => getPage.slot < PageSize

\* "rest" is the end of the page that was fetched last.
Fetched(j) == sources[j][Params[j] - 1]
RestIsTail(j) ==
  /\ Params[j] \in 1 .. Len(sources[j]) + 1
  /\ rest[j].hasNextPage <=> Params[j] <= Len(sources[j])
  /\ rest[j].items # << >> =>
       /\ Params[j] > 1 /\ Len(rest[j].items) <= Len(Fetched(j))
       /\ \A i \in 1 .. Len(rest[j].items) :
            rest[j].items[i] = Fetched(j)[Len(Fetched(j)) - Len(rest[j].items) + i]

\* What is still to be delivered: the pages not fetched, and "rest".
Unfetched(id) == id[2] >= Params[id[1]]
InRest(id) == id[2] = Params[id[1]] - 1 /\ id[3] > Len(sources[id[1]][id[2]]) - Len(rest[id[1]].items)
Left == {id \in Sourced : Unfetched(id) \/ InRest(id)}

\* The fetches of a slot: who waits has nothing, who does not wait has an item
\* or will never have one.
FetchesAreDue ==
  getPage.stage = "fetching" =>
    \A j \in SourceIds : j \in getPage.pending <=> MustFetch(j)

DeliveredInOrder ==
  /\ \A a, b \in Delivered : Before(a, b) => DeliveredItem(a) <= DeliveredItem(b)
  /\ \A a \in Delivered, id \in Left : DeliveredItem(a) <= SourcedItem(id)

DeliveredOnce ==
  \A item \in Int : TimesDelivered(item) = Cardinality({id \in Sourced \ Left : SourcedItem(id) = item})

ShortOnlyAtTheEnd ==
  /\ SaysComplete => Left = {}
  /\ Len(getPage.items) <= getPage.slot
  /\ Len(getPage.items) < getPage.slot => Left = {}

\* A call that changed nothing can be given up.
UntouchedInv == ~getPage.touched => getPage.items = << >> /\ Params = ParamsOf(Len(results))

MergeInv ==
  /\ MergerTypeOK /\ FetchesAreDue /\ DeliveredInOrder /\ DeliveredOnce /\ ShortOnlyAtTheEnd
  /\ UntouchedInv
  /\ \A j \in SourceIds : RestIsTail(j)

\* What the merger is for: sources whose items are in order, from page to page
\* too, and truthy.
Mergeable(f) ==
  \A j \in 1 .. Len(f) : \A p, q \in 1 .. Len(f[j]) :
    \A i \in 1 .. Len(f[j][p]), k \in 1 .. Len(f[j][q]) :
      /\ f[j][p][i] # 0
      /\ p < q \/ (p = q /\ i <= k) => f[j][p][i] <= f[j][q][k]

\* The items of the sources are triples.
LEMMA SourcedIs ==
  /\ \A j \in SourceIds : \A p \in 1 .. Len(sources[j]) : \A i \in 1 .. Len(sources[j][p]) :
       <<j, p, i>> \in Sourced
  /\ \A id \in Sourced : \E j \in SourceIds : \E p \in 1 .. Len(sources[j]) :
       \E i \in 1 .. Len(sources[j][p]) : id = <<j, p, i>>
<1> DEFINE pagesOf(j) == {<<j, p>> : p \in 1 .. Len(sources[j])}
<1>1. ASSUME NEW j \in SourceIds, NEW p \in 1 .. Len(sources[j]), NEW i \in 1 .. Len(sources[j][p])
      PROVE  <<j, p, i>> \in Sourced
  <2>1. <<j, p>> \in Pages
    BY DEF Pages
  <2>2. <<j, p, i>> \in ItemsOfPage(<<j, p>>[1], <<j, p>>[2])
    BY DEF ItemsOfPage
  <2> QED
    BY <2>1, <2>2 DEF Sourced
<1>2. ASSUME NEW id \in Sourced
      PROVE  \E j \in SourceIds : \E p \in 1 .. Len(sources[j]) :
               \E i \in 1 .. Len(sources[j][p]) : id = <<j, p, i>>
  <2>1. PICK page \in Pages : id \in ItemsOfPage(page[1], page[2])
    BY DEF Sourced
  <2>2. PICK j \in SourceIds : \E p \in 1 .. Len(sources[j]) : page = <<j, p>>
    BY <2>1 DEF Pages
  <2>3. PICK p \in 1 .. Len(sources[j]) : page = <<j, p>>
    BY <2>2
  <2> QED
    BY <2>1, <2>3 DEF ItemsOfPage
<1> QED
  BY <1>1, <1>2

\* The types of a family's parts.
LEMMA PartsTyped ==
  ASSUME MergerTypeOK, NEW j \in SourceIds
  PROVE  /\ Len(sources) \in Nat /\ sources[j] \in Seq(Seq(Int)) /\ Len(sources[j]) \in Nat \ {0}
         /\ \A p \in 1 .. Len(sources[j]) :
              sources[j][p] \in Seq(Int) /\ Len(sources[j][p]) \in Nat
<1>1. sources \in Seq(Seq(Seq(Int)))
  BY MergerAssumption DEF MergerTypeOK
<1>2. sources[j] \in Seq(Seq(Int))
  BY <1>1 DEF SourceIds
<1> QED
  BY <1>1, <1>2, MergerAssumption DEF MergerTypeOK, SourceIds

\* What a function makes of a finite set is finite.
LEMMA ImageFinite ==
  ASSUME NEW S, IsFiniteSet(S), NEW f, DOMAIN f = S, f = [x \in S |-> f[x]]
  PROVE  IsFiniteSet({f[x] : x \in S})
<1> DEFINE T == {f[x] : x \in S}
<1>1. f \in Surjection(S, T)
  BY DEF Surjection
<1> QED
  BY <1>1, FS_Surjection

\* The pages of one source are finitely many items.
LEMMA SourcedFinite == MergerTypeOK => IsFiniteSet(Sourced)
<1> SUFFICES ASSUME MergerTypeOK PROVE IsFiniteSet(Sourced)
  OBVIOUS
<1>1. IsFiniteSet(SourceIds)
  <2>1. sources \in Seq(Seq(Seq(Int)))
    BY MergerAssumption DEF MergerTypeOK
  <2> QED
    BY <2>1, FS_Interval DEF SourceIds
<1>2. ASSUME NEW j \in SourceIds PROVE IsFiniteSet({<<j, p>> : p \in 1 .. Len(sources[j])})
  <2> DEFINE f == [p \in 1 .. Len(sources[j]) |-> <<j, p>>]
  <2>1. IsFiniteSet(1 .. Len(sources[j]))
    BY PartsTyped, FS_Interval
  <2>2. IsFiniteSet({f[p] : p \in 1 .. Len(sources[j])})
    BY <2>1, ImageFinite
  <2> QED
    BY <2>2
<1>3. IsFiniteSet(Pages)
  <2> DEFINE f == [j \in SourceIds |-> {<<j, p>> : p \in 1 .. Len(sources[j])}]
  <2>1. IsFiniteSet({f[j] : j \in SourceIds})
    BY <1>1, ImageFinite
  <2>2. \A s \in {f[j] : j \in SourceIds} : IsFiniteSet(s)
    BY <1>2
  <2>3. Pages = UNION {f[j] : j \in SourceIds}
    BY DEF Pages
  <2> QED
    BY <2>1, <2>2, <2>3, FS_UNION
<1>4. ASSUME NEW page \in Pages PROVE IsFiniteSet(ItemsOfPage(page[1], page[2]))
  <2>1. PICK j \in SourceIds : \E p \in 1 .. Len(sources[j]) : page = <<j, p>>
    BY DEF Pages
  <2>2. PICK p \in 1 .. Len(sources[j]) : page = <<j, p>>
    BY <2>1
  <2> DEFINE f == [i \in 1 .. Len(sources[j][p]) |-> <<j, p, i>>]
  <2>3. Len(sources[j][p]) \in Int
    BY PartsTyped
  <2>4. IsFiniteSet(1 .. Len(sources[j][p]))
    BY <2>3, FS_Interval
  <2>5. IsFiniteSet({f[i] : i \in 1 .. Len(sources[j][p])})
    BY <2>4, ImageFinite
  <2> QED
    BY <2>2, <2>5 DEF ItemsOfPage
<1>5. IsFiniteSet({ItemsOfPage(page[1], page[2]) : page \in Pages})
  <2> DEFINE f == [page \in Pages |-> ItemsOfPage(page[1], page[2])]
  <2>1. IsFiniteSet({f[page] : page \in Pages})
    BY <1>3, ImageFinite
  <2> QED
    BY <2>1
<1> QED
  BY <1>4, <1>5, FS_UNION DEF Sourced

\* Those delivered are pairs.
LEMMA DeliveredArePairs ==
  ASSUME NEW id \in Delivered
  PROVE  /\ id = <<id[1], id[2]>> /\ id[1] \in 1 .. Len(results) + 1
         /\ id[2] \in 1 .. Len(PageItems(id[1]))
<1>1. PICK k \in 1 .. Len(results) + 1 : id \in {<<k, i>> : i \in 1 .. Len(PageItems(k))}
  BY DEF Delivered
<1> QED
  BY <1>1

LEMMA PageTyped ==
  ASSUME MergerTypeOK, NEW k \in 1 .. Len(results) + 1
  PROVE  PageItems(k) \in Seq(Int) /\ Len(PageItems(k)) \in Nat
<1>1. Len(results) \in Nat /\ getPage.items \in Seq(Int)
  BY DEF MergerTypeOK, MergerCall
<1>2. ASSUME k <= Len(results) PROVE results[k].items \in Seq(Int)
  <2>1. results[k] \in MergerResult
    BY <1>1, <1>2 DEF MergerTypeOK
  <2> QED
    BY <2>1 DEF MergerResult
<1> QED
  BY <1>1, <1>2 DEF PageItems

LEMMA DeliveredFinite == MergerTypeOK => IsFiniteSet(Delivered)
<1> SUFFICES ASSUME MergerTypeOK PROVE IsFiniteSet(Delivered)
  OBVIOUS
<1>1. Len(results) + 1 \in Nat
  BY DEF MergerTypeOK
<1>2. IsFiniteSet(1 .. Len(results) + 1)
  BY <1>1, FS_Interval
<1>3. ASSUME NEW k \in 1 .. Len(results) + 1 PROVE IsFiniteSet({<<k, i>> : i \in 1 .. Len(PageItems(k))})
  <2> DEFINE f == [i \in 1 .. Len(PageItems(k)) |-> <<k, i>>]
  <2>1. Len(PageItems(k)) \in Int
    BY PageTyped
  <2>2. IsFiniteSet(1 .. Len(PageItems(k)))
    BY <2>1, FS_Interval
  <2>3. IsFiniteSet({f[i] : i \in 1 .. Len(PageItems(k))})
    BY <2>2, ImageFinite
  <2> QED
    BY <2>3
<1> DEFINE pages == {{<<k, i>> : i \in 1 .. Len(PageItems(k))} : k \in 1 .. Len(results) + 1}
<1>4. IsFiniteSet(pages)
  <2> DEFINE f == [k \in 1 .. Len(results) + 1 |-> {<<k, i>> : i \in 1 .. Len(PageItems(k))}]
  <2>1. IsFiniteSet({f[k] : k \in 1 .. Len(results) + 1})
    BY <1>2, ImageFinite
  <2> QED
    BY <2>1
<1>5. \A s \in pages : IsFiniteSet(s)
  BY <1>3
<1>6. Delivered = UNION pages
  BY DEF Delivered
<1> QED
  BY <1>4, <1>5, <1>6, FS_UNION

\* The first call has parameters, and so has every later one.
LEMMA ParamsTyped ==
  ASSUME MergerTypeOK
  PROVE  NoCall \in MergerCall /\ ParamsOf(Len(results)) \in MergerParams /\ Params \in MergerParams
<1>1. FirstParams \in MergerParams
  BY DEF FirstParams, MergerParams
<1>2. NoCall \in MergerCall
  BY <1>1, MergerAssumption DEF NoCall, MergerCall
<1>3. ParamsOf(Len(results)) \in MergerParams
  <2>1. CASE Len(results) = 0
    BY <1>1, <2>1 DEF ParamsOf
  <2>2. CASE Len(results) # 0
    <3>1. results[Len(results)] \in MergerResult
      BY <2>2 DEF MergerTypeOK
    <3> QED
      BY <2>2, <3>1 DEF ParamsOf, MergerResult
  <2> QED
    BY <2>1, <2>2
<1> QED
  BY <1>2, <1>3 DEF Params, MergerTypeOK, MergerCall

\* The steps keep the types.
LEMMA GetPageTyped ==
  ASSUME MergerTypeOK, GetPage PROVE MergerTypeOK'
<1>1. getPage' = [NoCall EXCEPT !.stage = "slot", !.params = ParamsOf(Len(results))]
  BY DEF GetPage
<1>2. getPage' \in MergerCall
  BY <1>1, ParamsTyped DEF MergerCall
<1> QED
  BY <1>1, <1>2, ParamsTyped DEF GetPage, MergerTypeOK, SourceIds, MergerCall, MergerParams, MergerResult

LEMMA FinishTyped ==
  ASSUME MergerTypeOK, NEW last \in BOOLEAN, Finish(getPage, last), UNCHANGED <<sources, rest, failed>>
  PROVE  MergerTypeOK'
<1> DEFINE result == [items |-> getPage.items, params |-> getPage.params, isLastPage |-> last]
<1>1. result \in MergerResult
  BY DEF MergerTypeOK, MergerCall, MergerResult
<1>2. results' \in Seq(MergerResult)
  BY <1>1 DEF Finish, MergerTypeOK
<1> QED
  BY <1>2, ParamsTyped
  DEF Finish, MergerTypeOK, SourceIds, MergerCall, MergerParams, MergerResult, NoCall, FirstParams

LEMMA NextSlotTyped ==
  ASSUME MergerTypeOK, NextSlot PROVE MergerTypeOK'
<1>1. CASE \E last \in BOOLEAN : Finish(getPage, last)
  BY <1>1, FinishTyped DEF NextSlot
<1>2. CASE /\ getPage' = [getPage EXCEPT !.stage = "fetching", !.pending = {j \in SourceIds : MustFetch(j)}]
           /\ getPage.slot # PageSize /\ UNCHANGED results
  <2>1. getPage' \in MergerCall /\ getPage'.stage = "fetching" /\ getPage'.slot = getPage.slot
    BY <1>2 DEF MergerTypeOK, MergerCall
  <2>2. getPage.slot \in 0 .. PageSize /\ getPage.slot # PageSize
    BY <1>2 DEF MergerTypeOK, MergerCall
  <2>3. getPage'.slot < PageSize
    BY <2>1, <2>2, MergerAssumption
  <2> QED
    BY <1>2, <2>1, <2>3 DEF NextSlot, MergerTypeOK, SourceIds, MergerCall, MergerParams, MergerResult
<1> QED
  BY <1>1, <1>2 DEF NextSlot

\* What a source gives is a page, past its end too.
LEMMA PageOfTyped ==
  ASSUME MergerTypeOK, NEW j \in SourceIds, NEW page \in Nat \ {0}
  PROVE  PageOf(j, page) \in Seq(Int) /\ HasNext(j, page) \in BOOLEAN
<1>1. Len(sources[j]) \in Nat /\ \A q \in 1 .. Len(sources[j]) : sources[j][q] \in Seq(Int)
  BY PartsTyped
<1>2. page <= Len(sources[j]) => page \in 1 .. Len(sources[j])
  BY <1>1
<1> QED
  BY <1>1, <1>2 DEF PageOf, HasNext

LEMMA WithPageTyped ==
  ASSUME MergerTypeOK, NEW j \in SourceIds, NEW page \in Nat \ {0}
  PROVE  WithPage(j, page) \in [SourceIds -> MergerRest]
<1>1. rest \in [SourceIds -> MergerRest] /\ rest[j].items \in Seq(Int)
  BY DEF MergerTypeOK, MergerRest
<1>2. [items |-> rest[j].items \o PageOf(j, page), hasNextPage |-> HasNext(j, page)] \in MergerRest
  BY <1>1, PageOfTyped DEF MergerRest
<1> QED
  BY <1>1, <1>2 DEF WithPage

LEMMA AfterPageTyped ==
  ASSUME NEW call \in MergerCall, NEW j \in SourceIds
  PROVE  /\ AfterPage(call, j) \in MergerCall /\ AfterPage(call, j).touched
         /\ AfterPage(call, j).stage = call.stage /\ AfterPage(call, j).slot = call.slot
         /\ GivenUp(call, j) \in MergerCall /\ GivenUp(call, j).touched = call.touched
<1>1. call.params[j] + 1 \in Nat \ {0} /\ call.params \in MergerParams
  BY DEF MergerCall, MergerParams
<1>2. [call.params EXCEPT ![j] = call.params[j] + 1] \in MergerParams
  BY <1>1 DEF MergerParams
<1> QED
  BY <1>2 DEF AfterPage, GivenUp, MergerCall

LEMMA PageArrivesTyped ==
  ASSUME MergerTypeOK, NEW j \in SourceIds, PageArrives(j)
  PROVE  MergerTypeOK'
<1>1. getPage \in MergerCall /\ getPage.params[j] \in Nat \ {0}
  BY DEF MergerTypeOK, MergerCall, MergerParams
<1>2. rest' \in [SourceIds -> MergerRest]
  BY <1>1, WithPageTyped DEF PageArrives
<1>3. getPage' \in MergerCall /\ getPage'.stage = "fetching" /\ getPage'.slot = getPage.slot
  BY <1>1, AfterPageTyped DEF PageArrives
<1> QED
  BY <1>2, <1>3 DEF PageArrives, MergerTypeOK, SourceIds, MergerCall, MergerParams, MergerResult

\* The types of the merger without those of the call under way.
LEMMA IdleTyped ==
  ASSUME MergerTypeOK, getPage' = NoCall, sources' = sources, results' = results,
         rest' \in [SourceIds -> MergerRest], failed' \in Seq(MergerCall)
  PROVE  MergerTypeOK'
<1>1. NoCall \in MergerCall /\ NoCall' = NoCall /\ NoCall.stage = "idle"
  BY ParamsTyped DEF NoCall, FirstParams, SourceIds
<1> QED
  BY <1>1 DEF MergerTypeOK, SourceIds, MergerCall, MergerParams, MergerResult

LEMMA PageRejectsTyped ==
  ASSUME MergerTypeOK, NEW j \in SourceIds, PageRejects(j)
  PROVE  MergerTypeOK'
<1>1. FreshRest \in [SourceIds -> MergerRest]
  BY DEF FreshRest, MergerRest
<1>2. failed \in Seq(MergerCall) /\ GivenUp(getPage, j) \in MergerCall
  BY AfterPageTyped DEF MergerTypeOK
<1>3. Append(failed, GivenUp(getPage, j)) \in Seq(MergerCall)
  <2> HIDE DEF MergerCall, GivenUp
  <2> QED
    BY <1>2
<1>4. rest' \in [SourceIds -> MergerRest] /\ failed' \in Seq(MergerCall)
  BY <1>1, <1>2, <1>3 DEF PageRejects, MergerTypeOK
<1> QED
  BY <1>4, IdleTyped DEF PageRejects

LEMMA LatePageTyped ==
  ASSUME MergerTypeOK, NEW k \in 1 .. Len(failed), NEW j \in SourceIds, LatePage(k, j)
  PROVE  MergerTypeOK' /\ (Spoiled => Spoiled') /\ (~Spoiled' => UNCHANGED rest)
<1>1. failed[k] \in MergerCall /\ failed[k].params[j] \in Nat \ {0} /\ failed \in Seq(MergerCall)
  <2>1. failed \in Seq(MergerCall) /\ failed[k] \in MergerCall
    BY DEF MergerTypeOK
  <2> QED
    BY <2>1 DEF MergerCall, MergerParams
<1>2. CASE rest' = WithPage(j, failed[k].params[j]) /\ failed' = [failed EXCEPT ![k] = AfterPage(@, j)]
  <2> DEFINE after == AfterPage(failed[k], j)
  <2>1. after \in MergerCall /\ after.touched /\ rest' \in [SourceIds -> MergerRest]
    BY <1>1, <1>2, AfterPageTyped, WithPageTyped
  <2>2. failed' = [failed EXCEPT ![k] = after]
    BY <1>2
  <2> HIDE DEF after
  <2>3. failed' \in Seq(MergerCall) /\ Len(failed') = Len(failed) /\ failed'[k] = after
    BY <1>1, <2>1, <2>2
  <2>4. Spoiled'
    BY <2>1, <2>3 DEF Spoiled
  <2> QED
    BY <2>1, <2>3, <2>4
    DEF LatePage, MergerTypeOK, SourceIds, MergerCall, MergerParams, MergerResult, NoCall, FirstParams
<1>3. CASE failed' = [failed EXCEPT ![k] = GivenUp(@, j)] /\ UNCHANGED rest
  <2> DEFINE after == GivenUp(failed[k], j)
  <2>1. after \in MergerCall /\ after.touched = failed[k].touched
    BY <1>1, AfterPageTyped
  <2>2. failed' = [failed EXCEPT ![k] = after]
    BY <1>3
  <2> HIDE DEF after
  <2>3. /\ failed' \in Seq(MergerCall) /\ Len(failed') = Len(failed)
        /\ \A l \in 1 .. Len(failed) : failed'[l] = IF l = k THEN after ELSE failed[l]
    BY <1>1, <2>1, <2>2
  <2>4. \A l \in 1 .. Len(failed) : failed'[l].touched = failed[l].touched
    BY <2>1, <2>3
  <2>5. Spoiled => Spoiled'
    BY <2>3, <2>4 DEF Spoiled
  <2> QED
    BY <1>3, <2>3, <2>5
    DEF LatePage, MergerTypeOK, SourceIds, MergerCall, MergerParams, MergerResult, NoCall, FirstParams
<1> QED
  BY <1>2, <1>3 DEF LatePage

LEMMA PickItemTyped ==
  ASSUME MergerTypeOK, PickItem PROVE MergerTypeOK'
<1>1. getPage.slot + 1 \in 0 .. PageSize
  <2>1. getPage.slot < PageSize /\ getPage.slot \in 0 .. PageSize
    BY DEF PickItem, MergerTypeOK, MergerCall
  <2> QED
    BY <2>1, MergerAssumption
<1>2. CASE Offers = {}
  <2>1. getPage' \in MergerCall
    BY <1>1, <1>2 DEF PickItem, MergerTypeOK, MergerCall
  <2> QED
    BY <1>2, <2>1 DEF PickItem, MergerTypeOK, SourceIds, MergerCall, MergerParams, MergerResult
<1>3. CASE Offers # {}
  <2>1. PICK j \in Offers :
          /\ getPage' = [getPage EXCEPT !.stage = "slot", !.slot = @ + 1, !.touched = TRUE,
                                         !.items = Append(@, Head(rest[j].items))]
          /\ rest' = [rest EXCEPT ![j].items = Tail(@)]
    BY <1>3 DEF PickItem
  <2>2. j \in SourceIds /\ rest[j].items \in Seq(Int) /\ rest[j].items # << >>
    BY DEF Offers, MergerTypeOK, MergerRest
  <2>3. Head(rest[j].items) \in Int /\ Tail(rest[j].items) \in Seq(Int)
    BY <2>2
  <2> DEFINE items == Append(getPage.items, Head(rest[j].items))
  <2>4. items \in Seq(Int)
    BY <2>3 DEF MergerTypeOK, MergerCall
  <2>5. getPage' = [getPage EXCEPT !.stage = "slot", !.slot = @ + 1, !.touched = TRUE, !.items = items]
    BY <2>1
  <2> HIDE DEF items
  <2>6. getPage' \in MergerCall
    BY <1>1, <2>4, <2>5 DEF MergerTypeOK, MergerCall
  <2>7. rest' \in [SourceIds -> MergerRest]
    BY <2>1, <2>2, <2>3 DEF MergerTypeOK, MergerRest
  <2> QED
    BY <2>1, <2>6, <2>7 DEF PickItem, MergerTypeOK, SourceIds, MergerCall, MergerParams, MergerResult
<1> QED
  BY <1>2, <1>3

\* A step that changes neither what was delivered nor what is left keeps what
\* relates the two.
LEMMA MergeKeeps ==
  ASSUME DeliveredInOrder, DeliveredOnce, sources' = sources, Delivered' = Delivered, Left' = Left,
         \A id \in Delivered : DeliveredItem(id)' = DeliveredItem(id)
  PROVE  DeliveredInOrder' /\ DeliveredOnce'
<1>1. Sourced' = Sourced /\ \A id : SourcedItem(id)' = SourcedItem(id)
  BY DEF Sourced, Pages, ItemsOfPage, SourceIds, SourcedItem
<1>2. ASSUME NEW item
      PROVE  {id \in Delivered : DeliveredItem(id) = item}' = {id \in Delivered : DeliveredItem(id) = item}
  OBVIOUS
<1>3. \A item : TimesDelivered(item)' = TimesDelivered(item)
  BY <1>2 DEF TimesDelivered
<1>4. DeliveredOnce'
  BY <1>1, <1>3 DEF DeliveredOnce
<1>5. DeliveredInOrder'
  BY <1>1 DEF DeliveredInOrder
<1> QED
  BY <1>4, <1>5

\* A page that is finished or begun moves nothing: what was delivered last is
\* at the same place.
LEMMA PagesStay ==
  ASSUME MergerTypeOK, results' = results, getPage'.items = getPage.items
  PROVE  Delivered' = Delivered /\ \A id \in Delivered : DeliveredItem(id)' = DeliveredItem(id)
<1>1. \A k : PageItems(k)' = PageItems(k)
  BY DEF PageItems
<1> QED
  BY <1>1 DEF Delivered, DeliveredItem

LEMMA FinishKeepsPages ==
  ASSUME MergerTypeOK, NEW last \in BOOLEAN, Finish(getPage, last)
  PROVE  Delivered' = Delivered /\ \A id \in Delivered : DeliveredItem(id)' = DeliveredItem(id)
<1> DEFINE n == Len(results)
<1>1. n \in Nat /\ Len(results') = n + 1
  BY DEF Finish, MergerTypeOK
<1>2. ASSUME NEW k \in 1 .. n + 1 PROVE PageItems(k)' = PageItems(k)
  <2>1. CASE k = n + 1
    BY <1>1, <2>1 DEF Finish, PageItems, MergerTypeOK
  <2>2. CASE k \in 1 .. n
    BY <1>1, <2>2 DEF Finish, PageItems, MergerTypeOK
  <2> QED
    BY <1>1, <2>1, <2>2
<1>3. PageItems(n + 2)' = << >>
  BY <1>1 DEF Finish, PageItems, NoCall
<1>4. ASSUME NEW id \in Delivered PROVE id \in Delivered' /\ DeliveredItem(id)' = DeliveredItem(id)
  <2>1. id = <<id[1], id[2]>> /\ id[1] \in 1 .. n + 1 /\ id[2] \in 1 .. Len(PageItems(id[1]))
    BY DeliveredArePairs
  <2>2. id[1] \in 1 .. Len(results') + 1 /\ id[2] \in 1 .. Len(PageItems(id[1])')
    BY <1>1, <1>2, <2>1
  <2>3. <<id[1], id[2]>> \in Delivered'
    BY <2>2 DEF Delivered
  <2> QED
    BY <1>2, <2>1, <2>3 DEF DeliveredItem
<1>5. ASSUME NEW id \in Delivered' PROVE id \in Delivered
  <2>1. PICK k \in 1 .. Len(results') + 1 : id \in {<<k, i>> : i \in 1 .. Len(PageItems(k)')}
    BY DEF Delivered
  <2>2. PICK i \in 1 .. Len(PageItems(k)') : id = <<k, i>>
    BY <2>1
  <2>3. k # n + 2
    <3> SUFFICES ASSUME k = n + 2 PROVE FALSE
      OBVIOUS
    <3>1. PageItems(k)' = << >>
      BY <1>1 DEF Finish, PageItems, NoCall
    <3> QED
      BY <2>2, <3>1
  <2>4. k \in 1 .. n + 1
    BY <1>1, <2>3
  <2>5. i \in 1 .. Len(PageItems(k))
    BY <1>2, <2>2, <2>4
  <2> QED
    BY <2>2, <2>4, <2>5 DEF Delivered
<1> QED
  BY <1>4, <1>5

\* What is left follows from the parameters and "rest".
LEMMA LeftStays ==
  ASSUME sources' = sources, rest' = rest, Params' = Params
  PROVE  Left' = Left /\ \A j \in SourceIds : RestIsTail(j) => RestIsTail(j)'
<1>1. Sourced' = Sourced
  BY DEF Sourced, Pages, ItemsOfPage, SourceIds
<1> QED
  BY <1>1 DEF Left, Unfetched, InRest, RestIsTail, Fetched

\* A call begins where the last result ended.
LEMMA GetPageMerges ==
  ASSUME MergeInv, GetPage PROVE MergeInv'
<1>1. getPage = NoCall /\ MergerTypeOK /\ MergerTypeOK'
  BY GetPageTyped DEF MergeInv, GetPage, MergerTypeOK
<1>2. /\ getPage'.items = << >> /\ getPage.items = << >> /\ getPage'.slot = 0
      /\ getPage'.stage = "slot" /\ getPage'.params = ParamsOf(Len(results))
  BY <1>1 DEF GetPage, NoCall
<1>3. Params' = Params
  BY <1>2 DEF Params, GetPage
<1>4. Left' = Left /\ \A j \in SourceIds : RestIsTail(j) => RestIsTail(j)'
  BY <1>3, LeftStays DEF GetPage
<1>5. Delivered' = Delivered /\ \A id \in Delivered : DeliveredItem(id)' = DeliveredItem(id)
  BY <1>1, <1>2, PagesStay DEF GetPage
<1>6. DeliveredInOrder' /\ DeliveredOnce'
  BY <1>4, <1>5, MergeKeeps DEF GetPage, MergeInv
<1>7. ShortOnlyAtTheEnd'
  BY <1>2, <1>4 DEF ShortOnlyAtTheEnd, MergeInv, GetPage, SaysComplete
<1>8. UntouchedInv'
  BY <1>2, <1>3 DEF UntouchedInv, Params, ParamsOf, FirstParams, SourceIds, GetPage
<1> QED
  BY <1>1, <1>2, <1>4, <1>6, <1>7, <1>8 DEF MergeInv, FetchesAreDue, GetPage, SourceIds

\* What is left of a source is in "rest" or on a page to come.
LEMMA ExhaustedHasNothing ==
  ASSUME MergeInv, NEW id \in Left PROVE id[1] \in SourceIds /\ ~Exhausted(id[1])
<1>1. PICK j \in SourceIds : \E p \in 1 .. Len(sources[j]) : \E i \in 1 .. Len(sources[j][p]) : id = <<j, p, i>>
  BY SourcedIs DEF Left
<1>2. PICK p \in 1 .. Len(sources[j]) : \E i \in 1 .. Len(sources[j][p]) : id = <<j, p, i>>
  BY <1>1
<1>3. PICK i \in 1 .. Len(sources[j][p]) : id = <<j, p, i>>
  BY <1>2
<1>4. id[1] = j /\ id[2] = p /\ id[3] = i
  BY <1>3
<1>5. Len(sources[j]) \in Nat /\ Len(sources[j][p]) \in Nat /\ RestIsTail(j)
  BY PartsTyped DEF MergeInv
<1>6. ASSUME Exhausted(j) PROVE FALSE
  <2>1. Params[j] = Len(sources[j]) + 1 /\ Len(rest[j].items) = 0
    BY <1>5, <1>6 DEF RestIsTail, Exhausted
  <2>2. ~(p >= Params[j]) /\ ~(i > Len(sources[j][p]) - Len(rest[j].items))
    BY <1>5, <2>1
  <2> QED
    BY <1>4, <2>2 DEF Left, Unfetched, InRest
<1> QED
  BY <1>4, <1>6

\* A page that ends short leaves nothing.
LEMMA FinishMerges ==
  ASSUME MergeInv, getPage.stage = "slot", NEW last \in BOOLEAN, Finish(getPage, last),
         UNCHANGED <<sources, rest, failed>>, last => Left = {}, ~last => getPage.slot = PageSize
  PROVE  MergeInv'
<1> DEFINE n == Len(results)
<1>1. MergerTypeOK /\ MergerTypeOK'
  BY FinishTyped DEF MergeInv
<1>2. /\ n \in Nat /\ Len(results') = n + 1
      /\ results'[n + 1] = [items |-> getPage.items, params |-> getPage.params, isLastPage |-> last]
      /\ \A k \in 1 .. n : results'[k] = results[k]
  BY <1>1 DEF Finish, MergerTypeOK
<1>3. getPage'.stage = "idle" /\ getPage'.items = << >> /\ getPage'.slot = 0
  BY DEF Finish, NoCall
<1>4. Params' = Params
  BY <1>2, <1>3 DEF Params, ParamsOf
<1>5. Left' = Left /\ \A j \in SourceIds : RestIsTail(j) => RestIsTail(j)'
  BY <1>4, LeftStays
<1>6. DeliveredInOrder' /\ DeliveredOnce'
  BY <1>1, <1>5, FinishKeepsPages, MergeKeeps DEF MergeInv
<1>7. ShortOnlyAtTheEnd'
  <2>1. ASSUME SaysComplete' PROVE Left = {}
    <3>1. PICK k \in 1 .. n + 1 : results'[k].isLastPage \/ Len(results'[k].items) < PageSize
      BY <1>2, <2>1 DEF SaysComplete
    <3>2. CASE k = n + 1
      BY <1>2, <3>1, <3>2 DEF MergeInv, ShortOnlyAtTheEnd
    <3>3. CASE k \in 1 .. n
      BY <1>2, <3>1, <3>3 DEF MergeInv, ShortOnlyAtTheEnd, SaysComplete
    <3> QED
      BY <1>2, <3>2, <3>3
  <2> QED
    BY <1>3, <1>5, <2>1 DEF ShortOnlyAtTheEnd
<1>8. UntouchedInv'
  BY <1>3 DEF UntouchedInv, Params, ParamsOf, FirstParams, SourceIds
<1> QED
  BY <1>1, <1>3, <1>5, <1>6, <1>7, <1>8 DEF MergeInv, FetchesAreDue, SourceIds

LEMMA NextSlotMerges ==
  ASSUME MergeInv, NextSlot PROVE MergeInv'
<1>1. CASE getPage.slot = PageSize /\ Finish(getPage, FALSE)
  BY <1>1, FinishMerges DEF NextSlot
<1>2. CASE (\A j \in SourceIds : Exhausted(j)) /\ Finish(getPage, TRUE)
  BY <1>2, ExhaustedHasNothing, FinishMerges DEF NextSlot
<1>3. CASE /\ getPage.slot # PageSize
           /\ getPage' = [getPage EXCEPT !.stage = "fetching", !.pending = {j \in SourceIds : MustFetch(j)}]
           /\ UNCHANGED results
  <2>1. MergerTypeOK /\ MergerTypeOK' /\ getPage.slot \in 0 .. PageSize
    BY NextSlotTyped DEF MergeInv, MergerTypeOK, MergerCall
  <2>2. /\ getPage'.stage = "fetching" /\ getPage'.pending = {j \in SourceIds : MustFetch(j)}
        /\ getPage'.items = getPage.items /\ getPage'.slot = getPage.slot /\ getPage'.params = getPage.params
        /\ getPage'.touched = getPage.touched
    BY <1>3, <2>1 DEF MergerTypeOK, MergerCall
  <2>3. Params' = Params
    BY <2>2 DEF Params, NextSlot
  <2>4. Left' = Left /\ \A j \in SourceIds : RestIsTail(j) => RestIsTail(j)'
    BY <2>3, LeftStays DEF NextSlot
  <2>5. Delivered' = Delivered /\ \A id \in Delivered : DeliveredItem(id)' = DeliveredItem(id)
    BY <1>3, <2>1, <2>2, PagesStay
  <2>6. DeliveredInOrder' /\ DeliveredOnce'
    BY <2>4, <2>5, MergeKeeps DEF NextSlot, MergeInv
  <2>7. ShortOnlyAtTheEnd'
    BY <1>3, <2>2, <2>4 DEF ShortOnlyAtTheEnd, MergeInv, SaysComplete
  <2>8. FetchesAreDue'
    BY <2>2 DEF FetchesAreDue, NextSlot, MustFetch, SourceIds
  <2>9. UntouchedInv'
    BY <1>3, <2>2, <2>3 DEF UntouchedInv, MergeInv, ParamsOf, FirstParams, SourceIds, NextSlot
  <2> QED
    BY <2>1, <2>4, <2>6, <2>7, <2>8, <2>9 DEF MergeInv, NextSlot, SourceIds
<1> QED
  BY <1>1, <1>2, <1>3 DEF NextSlot

\* A page that arrives moves from the pages to come into "rest", which was empty.
LEMMA PageArrivesMerges ==
  ASSUME MergeInv, NEW j \in SourceIds, PageArrives(j) PROVE MergeInv'
<1> DEFINE page == getPage.params[j]
<1>1. /\ MergerTypeOK /\ getPage.stage = "fetching" /\ getPage.slot < PageSize
      /\ j \in getPage.pending /\ Params = getPage.params /\ RestIsTail(j)
  BY DEF MergeInv, PageArrives, Params, FetchesAreDue, MergerTypeOK
<1>2. rest[j].items = << >> /\ rest[j].hasNextPage
  BY <1>1 DEF MergeInv, FetchesAreDue, MustFetch
<1>3. page \in 1 .. Len(sources[j])
  BY <1>1, <1>2 DEF RestIsTail
<1>4. MergerTypeOK'
  BY <1>1, PageArrivesTyped
<1>5. /\ sources[j][page] \in Seq(Int) /\ Len(sources[j][page]) \in Nat /\ Len(sources[j]) \in Nat
      /\ PageOf(j, page) = sources[j][page]
  BY <1>1, <1>3, PartsTyped DEF PageOf
<1>6. /\ rest'[j].items = sources[j][page] /\ rest'[j].hasNextPage = HasNext(j, page)
      /\ \A k \in SourceIds : k # j => rest'[k] = rest[k]
  BY <1>1, <1>2, <1>5 DEF PageArrives, WithPage, MergerTypeOK, MergerRest
<1>7. /\ Params' = [Params EXCEPT ![j] = page + 1] /\ Params \in MergerParams
      /\ getPage'.stage = "fetching" /\ getPage'.slot = getPage.slot /\ getPage'.items = getPage.items
      /\ getPage'.pending = IF sources[j][page] = << >> /\ HasNext(j, page) THEN getPage.pending ELSE getPage.pending \ {j}
      /\ getPage'.touched
  BY <1>1, <1>5 DEF PageArrives, AfterPage, Params, MergerTypeOK, MergerCall
<1>8. Params'[j] = page + 1 /\ \A k \in SourceIds : k # j => Params'[k] = Params[k]
  BY <1>7 DEF MergerParams
<1>9. sources' = sources /\ SourceIds' = SourceIds /\ results' = results /\ Sourced' = Sourced
  BY DEF PageArrives, SourceIds, Sourced, Pages, ItemsOfPage
<1>10. ASSUME NEW k \in SourceIds PROVE RestIsTail(k)'
  <2>1. RestIsTail(k)
    BY DEF MergeInv
  <2>2. CASE k # j
    BY <1>6, <1>8, <1>9, <2>1, <2>2 DEF RestIsTail, Fetched
  <2>3. CASE k = j
    <3>1. HasNext(j, page) <=> page + 1 <= Len(sources[j])
      BY <1>3, <1>5 DEF HasNext
    <3>2. rest'[j].hasNextPage <=> page + 1 <= Len(sources[j])
      BY <1>6, <3>1
    <3>3. Fetched(j)' = sources[j][page]
      BY <1>3, <1>5, <1>8, <1>9 DEF Fetched
    <3>4. page + 1 \in 1 .. Len(sources[j]) + 1 /\ page + 1 > 1
      BY <1>3, <1>5
    <3>5. \A i \in 1 .. Len(sources[j][page]) : Len(sources[j][page]) - Len(sources[j][page]) + i = i
      BY <1>5
    <3>6. Params'[j] \in 1 .. Len(sources[j]) + 1 /\ Params'[j] > 1
      BY <1>8, <3>4
    <3>7. rest'[j].hasNextPage <=> Params'[j] <= Len(sources[j])
      BY <1>8, <3>2
    <3>8. Len(rest'[j].items) <= Len(sources[j][page])
      BY <1>5, <1>6
    <3>9. \A i \in 1 .. Len(rest'[j].items) :
            rest'[j].items[i] = sources[j][page][Len(sources[j][page]) - Len(rest'[j].items) + i]
      BY <1>6, <3>5
    <3>10. RestIsTail(j)'
      BY <1>9, <3>3, <3>6, <3>7, <3>8, <3>9 DEF RestIsTail
    <3> QED
      BY <2>3, <3>10
  <2> QED
    BY <2>2, <2>3
<1>11. Left' = Left
  <2>1. ASSUME NEW id \in Sourced PROVE (Unfetched(id) \/ InRest(id))' <=> Unfetched(id) \/ InRest(id)
    <3>1. PICK k \in SourceIds : \E p \in 1 .. Len(sources[k]) : \E i \in 1 .. Len(sources[k][p]) : id = <<k, p, i>>
      BY SourcedIs
    <3>2. PICK p \in 1 .. Len(sources[k]) : \E i \in 1 .. Len(sources[k][p]) : id = <<k, p, i>>
      BY <3>1
    <3>3. PICK i \in 1 .. Len(sources[k][p]) : id = <<k, p, i>>
      BY <3>2
    <3>4. id[1] = k /\ id[2] = p /\ id[3] = i
      BY <3>3
    <3>5. Len(sources[k]) \in Nat /\ Len(sources[k][p]) \in Nat
      BY <1>1, PartsTyped
    <3>6. CASE k # j
      BY <1>6, <1>8, <1>9, <3>4, <3>6 DEF Unfetched, InRest
    <3>7. CASE k = j
      <4>1. Unfetched(id) \/ InRest(id) <=> p >= page
        <5>1. Len(rest[j].items) = 0
          BY <1>2
        <5>2. ~(i > Len(sources[k][p]) - 0)
          BY <3>5
        <5> QED
          BY <1>1, <3>4, <3>7, <5>1, <5>2 DEF Unfetched, InRest
      <4>2. Unfetched(id)' <=> p >= page + 1
        BY <1>8, <3>4, <3>7 DEF Unfetched
      <4>3. p = page => Len(sources[k][p]) - Len(rest'[j].items) = 0
        BY <1>5, <1>6, <3>7
      <4>4. InRest(id)' <=> p = page
        <5>1. InRest(id)' <=> p = Params'[j] - 1 /\ i > Len(sources[k][p]) - Len(rest'[j].items)
          BY <1>9, <3>4, <3>7 DEF InRest
        <5>2. p = Params'[j] - 1 <=> p = page
          BY <1>3, <1>5, <1>8
        <5>3. i > 0
          BY <3>5
        <5> QED
          BY <4>3, <5>1, <5>2, <5>3
      <4> QED
        BY <1>3, <1>5, <3>5, <4>1, <4>2, <4>4
    <3> QED
      BY <3>6, <3>7
  <2> QED
    BY <1>9, <2>1 DEF Left
<1>12. Delivered' = Delivered /\ \A id \in Delivered : DeliveredItem(id)' = DeliveredItem(id)
  BY <1>1, <1>7, <1>9, PagesStay
<1>13. DeliveredInOrder' /\ DeliveredOnce'
  BY <1>9, <1>11, <1>12, MergeKeeps DEF MergeInv
<1>14. ShortOnlyAtTheEnd'
  BY <1>7, <1>9, <1>11 DEF ShortOnlyAtTheEnd, MergeInv, SaysComplete
<1>15. FetchesAreDue'
  <2>1. ASSUME NEW k \in SourceIds PROVE k \in getPage'.pending <=> MustFetch(k)'
    <3>1. k \in getPage.pending <=> MustFetch(k)
      BY <1>1 DEF MergeInv, FetchesAreDue
    <3>2. CASE k # j
      BY <1>6, <1>7, <3>1, <3>2 DEF MustFetch
    <3>3. CASE k = j
      BY <1>1, <1>6, <1>7, <3>3 DEF MustFetch
    <3> QED
      BY <3>2, <3>3
  <2> QED
    BY <1>1, <1>7, <1>9, <2>1 DEF FetchesAreDue
<1>16. UntouchedInv'
  BY <1>7 DEF UntouchedInv
<1> QED
  BY <1>4, <1>9, <1>10, <1>13, <1>14, <1>15, <1>16 DEF MergeInv

\* The items of one source are numbers, in order.
LEMMA SourceInOrder ==
  ASSUME MergerTypeOK, \A f \in Families : Mergeable(f), NEW a \in Sourced
  PROVE  /\ SourcedItem(a) \in Int /\ SourcedItem(a) # 0
         /\ \A b \in Sourced :
              a[1] = b[1] /\ (a[2] < b[2] \/ (a[2] = b[2] /\ a[3] <= b[3])) => SourcedItem(a) <= SourcedItem(b)
<1>1. Mergeable(sources)
  BY DEF MergerTypeOK
<1>2. PICK j \in SourceIds : \E p \in 1 .. Len(sources[j]) : \E i \in 1 .. Len(sources[j][p]) : a = <<j, p, i>>
  BY SourcedIs
<1>3. PICK p \in 1 .. Len(sources[j]) : \E i \in 1 .. Len(sources[j][p]) : a = <<j, p, i>>
  BY <1>2
<1>4. PICK i \in 1 .. Len(sources[j][p]) : a = <<j, p, i>>
  BY <1>3
<1>5. a[1] = j /\ a[2] = p /\ a[3] = i
  BY <1>4
<1>6. sources[j][p] \in Seq(Int)
  BY PartsTyped
<1>7. SourcedItem(a) = sources[j][p][i] /\ SourcedItem(a) \in Int
  BY <1>5, <1>6 DEF SourcedItem
<1>8. SourcedItem(a) # 0
  BY <1>1, <1>7 DEF Mergeable, SourceIds
<1>9. ASSUME NEW b \in Sourced, a[1] = b[1], a[2] < b[2] \/ (a[2] = b[2] /\ a[3] <= b[3])
      PROVE  SourcedItem(a) <= SourcedItem(b)
  <2>1. PICK l \in SourceIds : \E q \in 1 .. Len(sources[l]) : \E k \in 1 .. Len(sources[l][q]) : b = <<l, q, k>>
    BY SourcedIs
  <2>2. PICK q \in 1 .. Len(sources[l]) : \E k \in 1 .. Len(sources[l][q]) : b = <<l, q, k>>
    BY <2>1
  <2>3. PICK k \in 1 .. Len(sources[l][q]) : b = <<l, q, k>>
    BY <2>2
  <2>4. l = j /\ b[2] = q /\ b[3] = k
    BY <1>5, <1>9, <2>3
  <2>5. SourcedItem(b) = sources[j][q][k]
    BY <2>3, <2>4 DEF SourcedItem
  <2>6. p < q \/ (p = q /\ i <= k)
    BY <1>5, <1>9, <2>4
  <2>7. sources[j][p][i] <= sources[j][q][k]
    BY <1>1, <2>4, <2>6 DEF Mergeable, SourceIds
  <2> QED
    BY <1>7, <2>5, <2>7
<1> QED
  BY <1>7, <1>8, <1>9

\* The head of "rest" is the smallest that is left of its source.
HeadId(j) == <<j, Params[j] - 1, Len(Fetched(j)) - Len(rest[j].items) + 1>>

LEMMA HeadIsLeft ==
  ASSUME MergeInv, \A f \in Families : Mergeable(f), NEW j \in SourceIds, rest[j].items # << >>
  PROVE  /\ HeadId(j) \in Left
         /\ Head(rest[j].items) = SourcedItem(HeadId(j)) /\ Head(rest[j].items) \in Int
         /\ \A id \in Left : id[1] = j => Head(rest[j].items) <= SourcedItem(id)
<1> DEFINE page == Params[j] - 1
<1> DEFINE n == Len(Fetched(j))
<1> DEFINE m == Len(rest[j].items)
<1>1. MergerTypeOK /\ RestIsTail(j) /\ Params \in MergerParams
  BY ParamsTyped DEF MergeInv
<1>2. rest[j].items \in Seq(Int) /\ m \in Nat /\ m > 0 /\ Head(rest[j].items) = rest[j].items[1]
      /\ Head(rest[j].items) \in Int
  BY <1>1 DEF MergerTypeOK, MergerRest
<1>3. Params[j] \in Nat /\ Len(sources[j]) \in Nat /\ page \in 1 .. Len(sources[j])
  BY <1>1, PartsTyped DEF RestIsTail, MergerParams
<1>4. n \in Nat /\ Fetched(j) = sources[j][page] /\ m <= n
  BY <1>1, <1>3, PartsTyped DEF RestIsTail, Fetched
<1>5. page = Params[j] - 1 /\ n = Len(Fetched(j)) /\ m = Len(rest[j].items)
  OBVIOUS
<1> HIDE DEF page, n, m
<1>6. n - m + 1 \in 1 .. n
  BY <1>2, <1>4
<1>7. HeadId(j) = <<j, page, n - m + 1>> /\ HeadId(j) \in Sourced
  BY <1>3, <1>4, <1>5, <1>6, SourcedIs DEF HeadId
<1>8. HeadId(j)[1] = j /\ HeadId(j)[2] = page /\ HeadId(j)[3] = n - m + 1
  BY <1>7
<1>9. HeadId(j) \in Left
  <2>1. n - m + 1 > n - m
    BY <1>2, <1>4
  <2>2. InRest(HeadId(j))
    BY <1>4, <1>5, <1>8, <2>1 DEF InRest
  <2> QED
    BY <1>7, <2>2 DEF Left
<1>10. rest[j].items[1] = Fetched(j)[n - m + 1]
  <2>1. 1 \in 1 .. m
    BY <1>2
  <2> QED
    BY <1>1, <1>2, <1>5, <2>1 DEF RestIsTail
<1>11. Head(rest[j].items) = SourcedItem(HeadId(j))
  BY <1>2, <1>4, <1>8, <1>10 DEF SourcedItem
<1>12. ASSUME NEW id \in Left, id[1] = j PROVE SourcedItem(HeadId(j)) <= SourcedItem(id)
  <2>1. PICK l \in SourceIds : \E p \in 1 .. Len(sources[l]) : \E i \in 1 .. Len(sources[l][p]) : id = <<l, p, i>>
    BY SourcedIs DEF Left
  <2>2. PICK p \in 1 .. Len(sources[l]) : \E i \in 1 .. Len(sources[l][p]) : id = <<l, p, i>>
    BY <2>1
  <2>3. PICK i \in 1 .. Len(sources[l][p]) : id = <<l, p, i>>
    BY <2>2
  <2>4. l = j /\ id[2] = p /\ id[3] = i /\ id \in Sourced
    BY <1>12, <2>3 DEF Left
  <2>5. p >= Params[j] \/ (p = page /\ i > n - m)
    <3>1. Unfetched(id) => p >= Params[j]
      BY <1>12, <2>4 DEF Unfetched
    <3>2. InRest(id) => p = page /\ i > n - m
      BY <1>4, <1>5, <1>12, <2>4 DEF InRest
    <3> QED
      BY <3>1, <3>2 DEF Left
  <2>6. p \in Nat /\ i \in Nat
    BY <2>4, PartsTyped, <1>1
  <2>7. page < p \/ (page = p /\ n - m + 1 <= i)
    <3>1. page \in Int /\ Params[j] \in Int /\ page < Params[j] /\ n - m \in Int
      BY <1>2, <1>3, <1>4, <1>5
    <3>2. CASE p >= Params[j]
      BY <2>6, <3>1, <3>2
    <3>3. CASE p = page /\ i > n - m
      BY <2>6, <3>1, <3>3
    <3> QED
      BY <2>5, <3>2, <3>3
  <2> QED
    BY <1>1, <1>7, <1>8, <1>12, <2>4, <2>7, SourceInOrder
<1> QED
  BY <1>2, <1>9, <1>11, <1>12

\* Once the fetches are over, every source with something left offers it, and
\* what is picked is the smallest of all.
LEMMA PickIsSmallest ==
  ASSUME MergeInv, \A f \in Families : Mergeable(f),
         getPage.stage = "fetching", getPage.pending = {}, NEW id \in Left
  PROVE  /\ id[1] \in Offers
         /\ \A j \in Offers : IsPick(j) => Head(rest[j].items) <= SourcedItem(id)
<1> DEFINE k == id[1]
<1>1. k \in SourceIds /\ ~Exhausted(k)
  BY ExhaustedHasNothing
<1>2. rest[k].items # << >>
  BY <1>1 DEF MergeInv, FetchesAreDue, MustFetch, Exhausted
<1>3. /\ HeadId(k) \in Sourced /\ Head(rest[k].items) = SourcedItem(HeadId(k))
      /\ Head(rest[k].items) \in Int /\ Head(rest[k].items) <= SourcedItem(id)
  BY <1>1, <1>2, HeadIsLeft DEF Left
<1>4. k \in Offers
  BY <1>1, <1>2, <1>3, SourceInOrder DEF Offers, MergeInv
<1>5. ASSUME NEW j \in Offers, IsPick(j) PROVE Head(rest[j].items) <= SourcedItem(id)
  <2>1. Head(rest[j].items) <= Head(rest[k].items)
    BY <1>4, <1>5 DEF IsPick, DefaultCompare
  <2>2. Head(rest[j].items) \in Int
    BY HeadIsLeft DEF Offers
  <2>3. SourcedItem(id) \in Int
    BY SourceInOrder DEF Left, MergeInv
  <2> QED
    BY <1>3, <2>1, <2>2, <2>3
<1> QED
  BY <1>4, <1>5

LEMMA TailIs ==
  ASSUME NEW s \in Seq(Int), s # << >>
  PROVE  /\ Len(s) \in Nat \ {0} /\ Len(Tail(s)) = Len(s) - 1
         /\ \A i \in 1 .. Len(s) - 1 : Tail(s)[i] = s[i + 1]
  OBVIOUS

\* The arithmetic of one item fewer.
LEMMA OneFewer ==
  ASSUME NEW m \in Int, NEW n \in Int, NEW i \in Int
  PROVE  /\ i > n - (m - 1) <=> i > n - m /\ i # n - m + 1
         /\ m <= n => m - 1 <= n
         /\ n - m + (i + 1) = n - (m - 1) + i
  OBVIOUS

\* What picking the head of a source does.
LEMMA PickMoves ==
  ASSUME MergeInv, \A f \in Families : Mergeable(f), getPage.stage = "fetching", NEW j \in Offers,
         sources' = sources, results' = results,
         getPage' = [getPage EXCEPT !.stage = "slot", !.slot = @ + 1, !.touched = TRUE,
                                    !.items = Append(@, Head(rest[j].items))],
         rest' = [rest EXCEPT ![j].items = Tail(@)],
         NEW slot, slot = <<Len(results) + 1, Len(getPage.items) + 1>>
  PROVE  /\ Left' = Left \ {HeadId(j)} /\ \A k \in SourceIds : RestIsTail(k)'
         /\ slot \notin Delivered /\ Delivered' = Delivered \cup {slot}
         /\ \A id \in Delivered : Before(id, slot) /\ ~Before(slot, id) /\ DeliveredItem(id)' = DeliveredItem(id)
         /\ DeliveredItem(slot)' = Head(rest[j].items)
<1>1. MergerTypeOK /\ Len(results) \in Nat /\ getPage.items \in Seq(Int) /\ Len(getPage.items) \in Nat
  BY DEF MergeInv, MergerTypeOK, MergerCall
<1>2. /\ j \in SourceIds /\ rest[j].items # << >> /\ rest[j].items \in Seq(Int) /\ RestIsTail(j)
      /\ Head(rest[j].items) \in Int /\ HeadId(j) \in Left
  BY HeadIsLeft DEF Offers, MergeInv, MergerTypeOK, MergerRest
<1>3. /\ getPage'.stage = "slot" /\ getPage'.params = getPage.params
      /\ getPage'.items = Append(getPage.items, Head(rest[j].items))
  BY <1>1 DEF MergerTypeOK, MergerCall
<1>4. Params' = Params /\ Params = getPage.params
  BY <1>3 DEF Params
<1>5. /\ rest'[j].items = Tail(rest[j].items) /\ rest'[j].hasNextPage = rest[j].hasNextPage
      /\ \A k \in SourceIds : k # j => rest'[k] = rest[k]
  BY <1>1, <1>2 DEF MergerTypeOK, MergerRest
<1> DEFINE m == Len(rest[j].items)
<1>6. /\ m \in Nat \ {0} /\ m = Len(rest[j].items) /\ Len(rest'[j].items) = m - 1
      /\ \A i \in 1 .. m - 1 : rest'[j].items[i] = rest[j].items[i + 1]
  BY <1>2, <1>5, TailIs
<1> HIDE DEF m
<1>7. Sourced' = Sourced /\ SourceIds' = SourceIds
  BY DEF Sourced, Pages, ItemsOfPage, SourceIds
<1>8. Fetched(j)' = Fetched(j) /\ Len(Fetched(j)) \in Nat /\ Fetched(j) = sources[j][Params[j] - 1]
      /\ Params[j] \in Int
  <2>1. Params[j] \in Nat
    BY <1>1, <1>2, ParamsTyped DEF MergerParams
  <2>2. Len(sources[j]) \in Nat
    BY <1>1, <1>2, PartsTyped
  <2>3. Params[j] \in 1 .. Len(sources[j]) + 1 /\ Params[j] > 1
    BY <1>2 DEF RestIsTail
  <2>4. Params[j] - 1 \in 1 .. Len(sources[j])
    BY <2>1, <2>2, <2>3
  <2>5. Fetched(j) = sources[j][Params[j] - 1] /\ Fetched(j)' = sources[j][Params[j] - 1]
    BY <1>4 DEF Fetched
  <2>6. sources[j][Params[j] - 1] \in Seq(Int)
    BY <1>1, <1>2, <2>4, PartsTyped
  <2>7. Len(sources[j][Params[j] - 1]) \in Nat
    BY <2>6
  <2> QED
    BY <2>1, <2>5, <2>7
<1> DEFINE n == Len(Fetched(j))
<1>9. n \in Nat /\ n = Len(Fetched(j))
  BY <1>8
<1> HIDE DEF n
<1>10. ASSUME NEW k \in SourceIds PROVE RestIsTail(k)'
  <2>1. RestIsTail(k)
    BY DEF MergeInv
  <2>2. CASE k # j
    BY <1>4, <1>5, <2>1, <2>2 DEF RestIsTail, Fetched
  <2>3. CASE k = j
    <3>1. ASSUME NEW i \in 1 .. m - 1
          PROVE  rest'[j].items[i] = Fetched(j)[n - (m - 1) + i]
      <4>1. rest[j].items[i + 1] = Fetched(j)[n - m + (i + 1)]
        <5>1. i + 1 \in 1 .. m
          BY <1>6
        <5> QED
          BY <1>2, <1>6, <1>9, <5>1 DEF RestIsTail
      <4>2. n - m + (i + 1) = n - (m - 1) + i
        <5>1. m \in Int /\ n \in Int /\ i \in Int
          BY <1>6, <1>9
        <5> QED
          BY <5>1, OneFewer
      <4> QED
        BY <1>6, <4>1, <4>2
    <3>2. /\ Params'[j] \in 1 .. Len(sources[j]) + 1 /\ Params'[j] > 1
          /\ rest'[j].hasNextPage <=> Params'[j] <= Len(sources[j])
      BY <1>2, <1>4, <1>5 DEF RestIsTail
    <3>3. Len(rest'[j].items) <= Len(Fetched(j))
      <4>1. m <= n
        BY <1>2, <1>6, <1>9 DEF RestIsTail
      <4>2. m \in Int /\ n \in Int
        BY <1>6, <1>9
      <4>3. m - 1 <= n
        BY <4>1, <4>2, OneFewer
      <4> QED
        BY <1>6, <1>9, <4>3
    <3>4. RestIsTail(j)'
      BY <1>6, <1>8, <1>9, <3>1, <3>2, <3>3 DEF RestIsTail
    <3> QED
      BY <2>3, <3>4
  <2> QED
    BY <2>2, <2>3
<1>11. Left' = Left \ {HeadId(j)}
  <2>1. ASSUME NEW id \in Sourced
        PROVE  (Unfetched(id) \/ InRest(id))' <=> (Unfetched(id) \/ InRest(id)) /\ id # HeadId(j)
    <3>1. PICK k \in SourceIds : \E p \in 1 .. Len(sources[k]) : \E i \in 1 .. Len(sources[k][p]) : id = <<k, p, i>>
      BY SourcedIs
    <3>2. PICK p \in 1 .. Len(sources[k]) : \E i \in 1 .. Len(sources[k][p]) : id = <<k, p, i>>
      BY <3>1
    <3>3. PICK i \in 1 .. Len(sources[k][p]) : id = <<k, p, i>>
      BY <3>2
    <3>4. id[1] = k /\ id[2] = p /\ id[3] = i
      BY <3>3
    <3>5. p \in Nat /\ i \in Nat
      BY <1>1, PartsTyped
    <3>6. CASE k # j
      <4>1. id # HeadId(j)
        BY <3>3, <3>6 DEF HeadId
      <4> QED
        BY <1>4, <1>5, <3>4, <3>6, <4>1 DEF Unfetched, InRest
    <3>7. CASE k = j
      <4>1. id # HeadId(j) <=> ~(p = Params[j] - 1 /\ i = n - m + 1)
        BY <1>6, <1>9, <3>3, <3>7 DEF HeadId
      <4>2. Unfetched(id)' <=> p >= Params[j]
        BY <1>4, <3>4, <3>7 DEF Unfetched
      <4>3. Unfetched(id) <=> p >= Params[j]
        BY <3>4, <3>7 DEF Unfetched
      <4>4. InRest(id) <=> p = Params[j] - 1 /\ i > n - m
        BY <1>6, <1>8, <1>9, <3>4, <3>7 DEF InRest
      <4>5. InRest(id)' <=> p = Params[j] - 1 /\ i > n - (m - 1)
        BY <1>4, <1>6, <1>8, <1>9, <3>4, <3>7 DEF InRest
      <4>6. m \in Int /\ n \in Int /\ i \in Int /\ p \in Int /\ Params[j] \in Int
        BY <1>6, <1>8, <1>9, <3>5
      <4>7. i > n - (m - 1) <=> i > n - m /\ i # n - m + 1
        BY <4>6, OneFewer
      <4>8. p >= Params[j] => p # Params[j] - 1
        BY <4>6
      <4> QED
        BY <4>1, <4>2, <4>3, <4>4, <4>5, <4>7, <4>8
    <3> QED
      BY <3>6, <3>7
  <2>2. HeadId(j) \in Sourced
    BY <1>2 DEF Left
  <2> QED
    BY <1>7, <2>1, <2>2 DEF Left
<1>12. /\ PageItems(Len(results) + 1) = getPage.items
       /\ PageItems(Len(results) + 1)' = Append(getPage.items, Head(rest[j].items))
       /\ \A k \in 1 .. Len(results) : PageItems(k)' = PageItems(k)
  BY <1>1, <1>3 DEF PageItems
<1>13. ASSUME NEW id \in Delivered
       PROVE  /\ id \in Delivered' /\ id # slot /\ Before(id, slot) /\ ~Before(slot, id)
              /\ DeliveredItem(id)' = DeliveredItem(id)
  <2>1. id = <<id[1], id[2]>> /\ id[1] \in 1 .. Len(results) + 1 /\ id[2] \in 1 .. Len(PageItems(id[1]))
    BY DeliveredArePairs
  <2>2. slot[1] = Len(results) + 1 /\ slot[2] = Len(getPage.items) + 1
    OBVIOUS
  <2>3. CASE id[1] = Len(results) + 1
    <3>1. id[2] \in 1 .. Len(getPage.items) /\ id[2] \in 1 .. Len(PageItems(id[1])')
      BY <1>1, <1>2, <1>12, <2>1, <2>3
    <3>2. id \in Delivered'
      BY <2>1, <3>1 DEF Delivered
    <3>3. id # slot /\ Before(id, slot) /\ ~Before(slot, id)
      BY <1>1, <2>2, <2>3, <3>1 DEF Before
    <3>4. DeliveredItem(id)' = DeliveredItem(id)
      BY <1>1, <1>2, <1>12, <2>3, <3>1 DEF DeliveredItem
    <3> QED
      BY <3>2, <3>3, <3>4
  <2>4. CASE id[1] \in 1 .. Len(results)
    <3>1. PageItems(id[1])' = PageItems(id[1])
      BY <1>12, <2>4
    <3>2. id \in Delivered'
      BY <2>1, <3>1 DEF Delivered
    <3>3. id # slot /\ Before(id, slot) /\ ~Before(slot, id)
      BY <1>1, <2>2, <2>4 DEF Before
    <3> QED
      BY <3>1, <3>2, <3>3 DEF DeliveredItem
  <2> QED
    BY <1>1, <2>1, <2>3, <2>4
<1>14. slot \in Delivered'
  <2>1. Len(getPage.items) + 1 \in 1 .. Len(PageItems(Len(results) + 1)')
    BY <1>1, <1>2, <1>12
  <2>2. Len(results) + 1 \in 1 .. Len(results') + 1
    BY <1>1
  <2> QED
    BY <2>1, <2>2 DEF Delivered
<1>15. ASSUME NEW id \in Delivered' PROVE id \in Delivered \/ id = slot
  <2>1. PICK k \in 1 .. Len(results) + 1 : id \in {<<k, i>> : i \in 1 .. Len(PageItems(k)')}
    BY DEF Delivered
  <2>2. PICK i \in 1 .. Len(PageItems(k)') : id = <<k, i>>
    BY <2>1
  <2>3. CASE k = Len(results) + 1
    <3>1. i \in 1 .. Len(getPage.items) + 1
      <4>1. PageItems(k)' = Append(getPage.items, Head(rest[j].items))
        BY <1>12, <2>3 DEF PageItems
      <4> QED
        BY <1>1, <1>2, <2>2, <4>1
    <3>2. i \in 1 .. Len(PageItems(k)) \/ i = Len(getPage.items) + 1
      BY <1>1, <1>12, <2>3, <3>1
    <3> QED
      BY <2>2, <2>3, <3>2 DEF Delivered
  <2>4. CASE k \in 1 .. Len(results)
    BY <1>12, <2>1, <2>2, <2>4 DEF Delivered
  <2> QED
    BY <1>1, <2>3, <2>4
<1>16. DeliveredItem(slot)' = Head(rest[j].items)
  <2>1. DeliveredItem(slot)' = PageItems(Len(results) + 1)'[Len(getPage.items) + 1]
    BY DEF DeliveredItem
  <2>2. Append(getPage.items, Head(rest[j].items))[Len(getPage.items) + 1] = Head(rest[j].items)
    BY <1>1, <1>2
  <2> QED
    BY <1>12, <2>1, <2>2
<1>17. Delivered' = Delivered \cup {slot} /\ slot \notin Delivered
  BY <1>13, <1>14, <1>15
<1> QED
  BY <1>10, <1>11, <1>13, <1>16, <1>17

\* One more item on both sides of the count.
LEMMA PickCounts ==
  ASSUME MergerTypeOK, DeliveredOnce, NEW slot, NEW id, sources' = sources,
         id \in Left, Left' = Left \ {id}, slot \notin Delivered, Delivered' = Delivered \cup {slot},
         \A d \in Delivered : DeliveredItem(d)' = DeliveredItem(d),
         DeliveredItem(slot)' = SourcedItem(id)
  PROVE  DeliveredOnce'
<1>1. Sourced' = Sourced /\ \A s : SourcedItem(s)' = SourcedItem(s)
  BY DEF Sourced, Pages, ItemsOfPage, SourceIds, SourcedItem
<1>2. IsFiniteSet(Delivered) /\ IsFiniteSet(Sourced)
  BY DeliveredFinite, SourcedFinite
<1>3. ASSUME NEW item \in Int
      PROVE  TimesDelivered(item)' = Cardinality({s \in Sourced \ Left' : SourcedItem(s) = item})
  <2> DEFINE D == {d \in Delivered : DeliveredItem(d) = item}
             S == {s \in Sourced \ Left : SourcedItem(s) = item}
             DD == {d \in Delivered' : DeliveredItem(d)' = item}
             SS == {s \in Sourced \ Left' : SourcedItem(s) = item}
  <2>1. Cardinality(D) = Cardinality(S) /\ TimesDelivered(item)' = Cardinality(DD)
    BY DEF DeliveredOnce, TimesDelivered
  <2>2. IsFiniteSet(D) /\ IsFiniteSet(S)
    BY <1>2, FS_Subset
  <2>3. id \notin S /\ slot \notin D /\ id \in Sourced
    BY DEF Left
  <2>4. CASE SourcedItem(id) = item
    <3>1. DD = D \cup {slot} /\ SS = S \cup {id}
      BY <2>3, <2>4
    <3>2. Cardinality(DD) = Cardinality(D) + 1 /\ Cardinality(SS) = Cardinality(S) + 1
      BY <2>2, <2>3, <3>1, FS_AddElement
    <3> QED
      BY <2>1, <3>2
  <2>5. CASE SourcedItem(id) # item
    <3>1. DD = D /\ SS = S
      BY <2>3, <2>5
    <3> QED
      BY <2>1, <3>1
  <2> QED
    BY <2>4, <2>5
<1> QED
  BY <1>1, <1>3 DEF DeliveredOnce

\* The item picked is the next of the merge.
LEMMA PickItemMerges ==
  ASSUME MergeInv, \A f \in Families : Mergeable(f), PickItem PROVE MergeInv'
<1>1. /\ MergerTypeOK /\ getPage.stage = "fetching" /\ getPage.pending = {} /\ getPage.slot \in 0 .. PageSize
      /\ getPage.slot < PageSize /\ getPage.items \in Seq(Int) /\ sources' = sources /\ results' = results
  BY DEF MergeInv, FetchesAreDue, PickItem, MergerTypeOK, MergerCall
<1>2. MergerTypeOK'
  BY <1>1, PickItemTyped
<1>3. CASE Offers = {} /\ getPage' = [getPage EXCEPT !.stage = "slot", !.slot = @ + 1] /\ UNCHANGED rest
  <2>1. Left = {}
    BY <1>1, <1>3, PickIsSmallest
  <2>2. /\ getPage'.stage = "slot" /\ getPage'.items = getPage.items /\ getPage'.params = getPage.params
        /\ getPage'.slot = getPage.slot + 1 /\ getPage'.touched = getPage.touched
    BY <1>1, <1>3 DEF MergerTypeOK, MergerCall
  <2>3. Params' = Params
    BY <1>1, <2>2 DEF Params
  <2>4. Left' = Left /\ \A j \in SourceIds : RestIsTail(j) => RestIsTail(j)'
    BY <1>1, <1>3, <2>3, LeftStays
  <2>5. Delivered' = Delivered /\ \A id \in Delivered : DeliveredItem(id)' = DeliveredItem(id)
    BY <1>1, <2>2, PagesStay
  <2>6. DeliveredInOrder' /\ DeliveredOnce'
    BY <1>1, <2>4, <2>5, MergeKeeps DEF MergeInv
  <2>7. ShortOnlyAtTheEnd'
    BY <1>1, <2>1, <2>2, <2>4 DEF ShortOnlyAtTheEnd, MergeInv
  <2>8. UntouchedInv'
    BY <1>1, <2>2, <2>3 DEF UntouchedInv, MergeInv, ParamsOf, FirstParams, SourceIds
  <2> QED
    BY <1>1, <1>2, <2>2, <2>4, <2>6, <2>7, <2>8 DEF MergeInv, FetchesAreDue, SourceIds
<1>4. ASSUME NEW j \in Offers, IsPick(j),
             getPage' = [getPage EXCEPT !.stage = "slot", !.slot = @ + 1, !.touched = TRUE,
                                        !.items = Append(@, Head(rest[j].items))],
             rest' = [rest EXCEPT ![j].items = Tail(@)]
      PROVE  MergeInv'
  <2>1. PICK slot : slot = <<Len(results) + 1, Len(getPage.items) + 1>>
    OBVIOUS
  <2>2. /\ Left' = Left \ {HeadId(j)} /\ \A k \in SourceIds : RestIsTail(k)'
        /\ slot \notin Delivered /\ Delivered' = Delivered \cup {slot}
        /\ \A id \in Delivered : Before(id, slot) /\ ~Before(slot, id) /\ DeliveredItem(id)' = DeliveredItem(id)
        /\ DeliveredItem(slot)' = Head(rest[j].items)
    BY <1>1, <1>4, <2>1, PickMoves
  <2>3. HeadId(j) \in Left /\ Head(rest[j].items) = SourcedItem(HeadId(j)) /\ Head(rest[j].items) \in Int
    BY <1>4, HeadIsLeft DEF Offers
  <2>4. DeliveredOnce'
    BY <1>1, <2>2, <2>3, PickCounts DEF MergeInv
  <2>5. Sourced' = Sourced /\ SourceIds' = SourceIds /\ \A id : SourcedItem(id)' = SourcedItem(id)
    BY <1>1 DEF Sourced, Pages, ItemsOfPage, SourceIds, SourcedItem
  <2>6. ~Before(slot, slot)
    BY <1>1, <2>1 DEF Before, MergerTypeOK
  <2>7. DeliveredInOrder'
    <3>1. ASSUME NEW a \in Delivered', NEW b \in Delivered', Before(a, b)
          PROVE  DeliveredItem(a)' <= DeliveredItem(b)'
      <4>1. CASE a \in Delivered /\ b \in Delivered
        BY <2>2, <3>1, <4>1 DEF MergeInv, DeliveredInOrder
      <4>2. CASE a \in Delivered /\ b = slot
        BY <2>2, <2>3, <4>2 DEF MergeInv, DeliveredInOrder
      <4> QED
        BY <2>2, <2>6, <3>1, <4>1, <4>2
    <3>2. ASSUME NEW a \in Delivered', NEW id \in Left' PROVE DeliveredItem(a)' <= SourcedItem(id)
      <4>1. CASE a \in Delivered
        BY <2>2, <4>1 DEF MergeInv, DeliveredInOrder
      <4>2. CASE a = slot
        BY <1>1, <1>4, <2>2, <4>2, PickIsSmallest
      <4> QED
        BY <2>2, <4>1, <4>2
    <3> QED
      BY <2>5, <3>1, <3>2 DEF DeliveredInOrder, Before
  <2>8. /\ getPage'.stage = "slot" /\ getPage'.slot = getPage.slot + 1
        /\ Len(getPage'.items) = Len(getPage.items) + 1 /\ Len(getPage.items) \in Nat
        /\ getPage'.touched
    <3>1. getPage'.items = Append(getPage.items, Head(rest[j].items))
      BY <1>1, <1>4 DEF MergerTypeOK, MergerCall
    <3> QED
      BY <1>1, <1>4, <2>3, <3>1 DEF MergerTypeOK, MergerCall
  <2>9. Left' \subseteq Left
    BY <2>2
  <2>10. ShortOnlyAtTheEnd'
    BY <1>1, <2>8, <2>9 DEF ShortOnlyAtTheEnd, MergeInv, SaysComplete
  <2>11. UntouchedInv'
    BY <2>8 DEF UntouchedInv
  <2> QED
    BY <1>2, <2>2, <2>4, <2>5, <2>7, <2>8, <2>10, <2>11 DEF MergeInv, FetchesAreDue
<1> QED
  BY <1>3, <1>4 DEF PickItem

\* The state a chain of calls begins in, and falls back to when its first call
\* rejects.
StartState ==
  /\ sources \in Families /\ rest = FreshRest /\ results = << >> /\ getPage = NoCall
  /\ failed \in Seq(MergerCall)

LEMMA MergerInitial == StartState => MergeInv
<1> SUFFICES ASSUME StartState PROVE MergeInv
  OBVIOUS
<1>1. /\ sources \in Families /\ rest = FreshRest /\ results = << >> /\ getPage = NoCall
      /\ failed \in Seq(MergerCall)
  BY DEF StartState
<1>2. MergerTypeOK
  <2>1. rest \in [SourceIds -> MergerRest]
    BY <1>1 DEF FreshRest, MergerRest
  <2>2. NoCall \in MergerCall
    BY MergerAssumption DEF NoCall, FirstParams, MergerCall, MergerParams
  <2> QED
    BY <1>1, <2>1, <2>2 DEF MergerTypeOK, NoCall
<1>3. getPage.stage = "idle" /\ getPage.items = << >> /\ getPage.slot = 0
  BY <1>1 DEF NoCall
<1>4. Params = FirstParams
  BY <1>1, <1>3 DEF Params, ParamsOf
<1>5. ASSUME NEW j \in SourceIds PROVE RestIsTail(j) /\ Params[j] = 1 /\ rest[j].items = << >>
  <2>1. Params[j] = 1 /\ rest[j].items = << >> /\ rest[j].hasNextPage
    BY <1>1, <1>4 DEF FirstParams, FreshRest
  <2>2. Len(sources[j]) \in Nat \ {0}
    BY <1>2, PartsTyped
  <2> QED
    BY <2>1, <2>2 DEF RestIsTail
<1>6. Left = Sourced
  <2>1. ASSUME NEW id \in Sourced PROVE Unfetched(id)
    <3>1. PICK j \in SourceIds : \E p \in 1 .. Len(sources[j]) : \E i \in 1 .. Len(sources[j][p]) : id = <<j, p, i>>
      BY SourcedIs
    <3>2. PICK p \in 1 .. Len(sources[j]) : \E i \in 1 .. Len(sources[j][p]) : id = <<j, p, i>>
      BY <3>1
    <3>3. id[1] = j /\ id[2] = p
      BY <3>2
    <3>4. p >= 1
      BY <1>2, PartsTyped
    <3> QED
      BY <1>5, <3>3, <3>4 DEF Unfetched
  <2> QED
    BY <2>1 DEF Left
<1>7. Delivered = {}
  <2>1. \A k \in 1 .. Len(results) + 1 : PageItems(k) = << >>
    BY <1>1, <1>3 DEF PageItems
  <2>2. ASSUME NEW id \in Delivered PROVE FALSE
    <3>1. id[1] \in 1 .. Len(results) + 1 /\ id[2] \in 1 .. Len(PageItems(id[1]))
      BY DeliveredArePairs
    <3> QED
      BY <2>1, <3>1
  <2> QED
    BY <2>2
<1>8. DeliveredOnce
  <2> SUFFICES ASSUME NEW item \in Int
               PROVE  TimesDelivered(item) = Cardinality({id \in Sourced \ Left : SourcedItem(id) = item})
    BY DEF DeliveredOnce
  <2>1. {id \in Delivered : DeliveredItem(id) = item} = {} /\ {id \in Sourced \ Left : SourcedItem(id) = item} = {}
    BY <1>6, <1>7
  <2> QED
    BY <2>1 DEF TimesDelivered
<1>9. DeliveredInOrder
  BY <1>7 DEF DeliveredInOrder
<1>10. ShortOnlyAtTheEnd
  BY <1>1, <1>3 DEF ShortOnlyAtTheEnd, SaysComplete
<1>11. UntouchedInv
  BY <1>3 DEF UntouchedInv, Params
<1> QED
  BY <1>2, <1>3, <1>5, <1>8, <1>9, <1>10, <1>11 DEF MergeInv, FetchesAreDue

LEMMA MergerRestarts == StartState' => MergeInv'
  BY MergerInitial, PTL

\* The merger at rest.
LEMMA MergeStays ==
  ASSUME MergeInv, MergerTypeOK', sources' = sources, rest' = rest, results' = results, getPage' = getPage
  PROVE  MergeInv'
<1>1. MergerTypeOK
  BY DEF MergeInv
<1>2. Params' = Params /\ ParamsOf(Len(results))' = ParamsOf(Len(results))
  BY DEF Params, ParamsOf, FirstParams, SourceIds
<1>3. Left' = Left /\ \A j \in SourceIds : RestIsTail(j) => RestIsTail(j)'
  BY <1>2, LeftStays
<1>4. Delivered' = Delivered /\ \A id \in Delivered : DeliveredItem(id)' = DeliveredItem(id)
  BY <1>1, PagesStay
<1>5. DeliveredInOrder' /\ DeliveredOnce'
  BY <1>3, <1>4, MergeKeeps DEF MergeInv
<1>6. FetchesAreDue' /\ ShortOnlyAtTheEnd' /\ UntouchedInv'
  BY <1>2, <1>3
  DEF MergeInv, FetchesAreDue, ShortOnlyAtTheEnd, SaysComplete, SourceIds, MustFetch, UntouchedInv
<1> QED
  BY <1>3, <1>5, <1>6 DEF MergeInv, SourceIds

\* A call that rejects before it changed anything leaves the merger as it was
\* when the call was made; a first call takes its "rest" with it.
LEMMA PageRejectsMerges ==
  ASSUME MergeInv, NEW j \in SourceIds, PageRejects(j), ~Spoiled' PROVE MergeInv'
<1>1. MergerTypeOK /\ MergerTypeOK'
  BY PageRejectsTyped DEF MergeInv
<1>2. getPage' = NoCall /\ NoCall' = NoCall /\ sources' = sources /\ results' = results
  BY DEF PageRejects, NoCall, FirstParams, SourceIds
<1>3. CASE results = << >>
  <2>1. StartState'
    BY <1>1, <1>2, <1>3 DEF StartState, PageRejects, FreshRest, SourceIds, MergerTypeOK
  <2> QED
    BY <2>1, MergerRestarts
<1>4. CASE results # << >>
  <2>1. failed' = Append(failed, GivenUp(getPage, j)) /\ rest' = rest
    BY <1>4 DEF PageRejects
  <2>2. GivenUp(getPage, j) \in MergerCall /\ GivenUp(getPage, j).touched = getPage.touched
    BY <1>1, AfterPageTyped DEF MergerTypeOK
  <2>3. Len(failed') = Len(failed) + 1 /\ failed'[Len(failed) + 1] = GivenUp(getPage, j) /\ Len(failed) \in Nat
    BY <1>1, <2>1, <2>2 DEF MergerTypeOK
  <2>4. ~getPage.touched
    BY <2>2, <2>3 DEF Spoiled
  <2>5. getPage.items = << >> /\ Params = ParamsOf(Len(results))
    BY <2>4 DEF MergeInv, UntouchedInv
  <2>6. getPage'.items = << >> /\ getPage'.stage = "idle" /\ getPage'.slot = 0
    BY <1>2 DEF NoCall
  <2>7. Params' = Params /\ Params' = ParamsOf(Len(results))'
    BY <1>2, <2>5, <2>6 DEF Params, ParamsOf, FirstParams, SourceIds
  <2>8. Left' = Left /\ \A i \in SourceIds : RestIsTail(i) => RestIsTail(i)'
    BY <1>2, <2>1, <2>7, LeftStays
  <2>9. Delivered' = Delivered /\ \A id \in Delivered : DeliveredItem(id)' = DeliveredItem(id)
    BY <1>1, <1>2, <2>5, <2>6, PagesStay
  <2>10. DeliveredInOrder' /\ DeliveredOnce'
    BY <1>2, <2>8, <2>9, MergeKeeps DEF MergeInv
  <2>11. ShortOnlyAtTheEnd' /\ FetchesAreDue' /\ UntouchedInv'
    BY <1>2, <2>6, <2>7, <2>8 DEF MergeInv, ShortOnlyAtTheEnd, SaysComplete, FetchesAreDue, UntouchedInv
  <2> QED
    BY <1>1, <1>2, <2>8, <2>10, <2>11 DEF MergeInv, SourceIds
<1> QED
  BY <1>3, <1>4

\* Once a call that rejected has changed the "rest" of a result it has.
LEMMA SpoiledStays ==
  ASSUME MergerTypeOK, Spoiled, [MergerNext]_mergerVars PROVE Spoiled'
<1>1. CASE \E k \in 1 .. Len(failed), j \in SourceIds : LatePage(k, j)
  BY <1>1, LatePageTyped
<1>2. CASE \E j \in SourceIds : PageRejects(j)
  <2>1. PICK j \in SourceIds : PageRejects(j)
    BY <1>2
  <2>2. CASE failed' = failed
    BY <2>2 DEF Spoiled
  <2>3. CASE failed' = Append(failed, GivenUp(getPage, j))
    <3>1. GivenUp(getPage, j) \in MergerCall /\ failed \in Seq(MergerCall)
      BY AfterPageTyped DEF MergerTypeOK
    <3>2. /\ Len(failed') = Len(failed) + 1 /\ Len(failed) \in Nat
          /\ \A k \in 1 .. Len(failed) : failed'[k] = failed[k]
      BY <2>3, <3>1
    <3> QED
      BY <3>2 DEF Spoiled
  <2> QED
    BY <2>1, <2>2, <2>3 DEF PageRejects
<1>3. CASE failed' = failed
  BY <1>3 DEF Spoiled
<1> QED
  BY <1>1, <1>2, <1>3 DEF MergerNext, GetPage, NextSlot, PickItem, PageArrives, mergerVars

\* Every step of the merger keeps the types, and the invariant unless it spoils
\* the merge.
LEMMA MergerTypedNext ==
  ASSUME MergerTypeOK, [MergerNext]_mergerVars PROVE MergerTypeOK'
<1>1. CASE UNCHANGED mergerVars
  BY <1>1
  DEF mergerVars, MergerTypeOK, SourceIds, MergerCall, MergerParams, MergerResult, NoCall, FirstParams
<1> QED
  BY <1>1, GetPageTyped, NextSlotTyped, PickItemTyped, PageArrivesTyped, PageRejectsTyped, LatePageTyped
  DEF MergerNext

LEMMA MergerNextInv ==
  ASSUME \A f \in Families : Mergeable(f), MergeInv, [MergerNext]_mergerVars, ~Spoiled'
  PROVE  MergeInv'
<1>1. CASE GetPage
  BY <1>1, GetPageMerges
<1>2. CASE NextSlot
  BY <1>2, NextSlotMerges
<1>3. CASE PickItem
  BY <1>3, PickItemMerges
<1>4. CASE \E j \in SourceIds : PageArrives(j)
  BY <1>4, PageArrivesMerges
<1>5. CASE \E j \in SourceIds : PageRejects(j)
  BY <1>5, PageRejectsMerges
<1>6. MergerTypeOK'
  BY MergerTypedNext DEF MergeInv
<1>7. CASE \E k \in 1 .. Len(failed), j \in SourceIds : LatePage(k, j)
  <2>1. UNCHANGED <<sources, rest, results, getPage>>
    BY <1>7, LatePageTyped DEF LatePage, MergeInv
  <2> QED
    BY <1>6, <2>1, MergeStays
<1>8. CASE UNCHANGED mergerVars
  BY <1>6, <1>8, MergeStays DEF mergerVars
<1> QED
  BY <1>1, <1>2, <1>3, <1>4, <1>5, <1>7, <1>8 DEF MergerNext

\* What the invariant says of the counts is what the merge promises.
LEMMA InvDelivers ==
  ASSUME MergeInv, \A f \in Families : Mergeable(f) PROVE DeliversTheMerge
<1>1. MergerTypeOK /\ IsFiniteSet(Sourced)
  BY SourcedFinite DEF MergeInv
<1>2. \A id \in Sourced : SourcedItem(id) \in Int
  BY <1>1, SourceInOrder
<1>3. ASSUME NEW id \in Delivered PROVE DeliveredItem(id) \in Int
  <2>1. id[1] \in 1 .. Len(results) + 1 /\ id[2] \in 1 .. Len(PageItems(id[1]))
    BY DeliveredArePairs
  <2>2. PageItems(id[1]) \in Seq(Int)
    BY <1>1, <2>1, PageTyped
  <2> QED
    BY <2>1, <2>2 DEF DeliveredItem
<1>4. ASSUME NEW item \in Int
      PROVE  /\ TimesDelivered(item) <= TimesSourced(item)
             /\ SaysComplete \/ (\E id \in Delivered : item < DeliveredItem(id)) =>
                  TimesDelivered(item) = TimesSourced(item)
  <2> DEFINE S == {id \in Sourced : SourcedItem(id) = item}
             T == {id \in Sourced \ Left : SourcedItem(id) = item}
  <2>1. TimesDelivered(item) = Cardinality(T) /\ TimesSourced(item) = Cardinality(S)
    BY DEF MergeInv, DeliveredOnce, TimesSourced
  <2>2. IsFiniteSet(S) /\ T \subseteq S
    BY <1>1, FS_Subset
  <2>3. Cardinality(T) <= Cardinality(S)
    BY <2>2, FS_Subset
  <2>4. ASSUME SaysComplete \/ \E id \in Delivered : item < DeliveredItem(id) PROVE S = T
    <3>1. CASE SaysComplete
      BY <3>1 DEF MergeInv, ShortOnlyAtTheEnd
    <3>2. CASE \E id \in Delivered : item < DeliveredItem(id)
      <4>1. PICK d \in Delivered : item < DeliveredItem(d)
        BY <3>2
      <4>2. ASSUME NEW id \in Left PROVE SourcedItem(id) # item
        <5>1. DeliveredItem(d) <= SourcedItem(id)
          BY DEF MergeInv, DeliveredInOrder
        <5>2. SourcedItem(id) \in Int /\ DeliveredItem(d) \in Int
          BY <1>2, <1>3 DEF Left
        <5> QED
          BY <4>1, <5>1, <5>2
      <4> QED
        BY <4>2
    <3> QED
      BY <2>4, <3>1, <3>2
  <2> QED
    BY <2>1, <2>3, <2>4
<1> QED
  BY <1>2, <1>3, <1>4 DEF DeliversTheMerge, MergeInv, DeliveredInOrder

\* Sources whose items are truthy and in order are merged: for any number of
\* them, pages of any length, in whatever order the pages arrive, and whatever
\* calls reject, as long as none of them had changed the "rest" of an earlier
\* result (pagination-merger.ts:24-37, 53, 64-112).
THEOREM MergesEverything ==
  ASSUME \A f \in Families : Mergeable(f)
  PROVE  MergerSpec => []DeliversTheMerge
<1> DEFINE Inv == MergerTypeOK /\ (Spoiled \/ MergeInv)
<1>1. MergerInit => Inv
  BY MergerInitial DEF MergerInit, StartState, MergeInv
<1>2. Inv /\ [MergerNext]_mergerVars => Inv'
  BY MergerTypedNext, SpoiledStays, MergerNextInv
<1>3. Inv => DeliversTheMerge
  BY InvDelivers DEF DeliversTheMerge
<1> QED
  BY <1>1, <1>2, <1>3, PTL DEF MergerSpec
=================================================================================
