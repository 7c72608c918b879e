---------------------------- MODULE SignFlowProofs ----------------------------
(***************************************************************************)
(* Proofs about the whole chain of receipts, for any number of calls, any  *)
(* tokens, guards, names and key lists, and any time.                      *)
(*                                                                         *)
(* First, the chain is one of the behaviours that FastAuth allows when the *)
(* guards may answer anything, so that whatever is proved of FastAuth      *)
(* holds here.  Then, what the router and the guards make of a token.      *)
(***************************************************************************)
EXTENDS SignFlow, FastAuthProofs

-----------------------------------------------------------------------------
(* What FastAuth does to one call in a step.                               *)

\* A call's arguments are its own once it was made, the guard's answer once it
\* came; the MPC contract is asked what the answer of the guard allows.
LEMMA CallStep ==
  ASSUME Inv, [Next]_vars, NEW c \in CallId
  PROVE  /\ stage[c] # "idle" => args'[c] = args[c] /\ stage'[c] # "idle"
         /\ stage[c] \notin {"idle", "verifying"} =>
              reply'[c] = reply[c] /\ stage'[c] \notin {"idle", "verifying"}
         /\ request'[c] = request[c]
            \/ /\ stage[c] = "verified" /\ Approved(c)
               /\ request'[c] = SignRequest(c)
<1> DEFINE Preserved ==
         /\ stage[c] # "idle" => args'[c] = args[c] /\ stage'[c] # "idle"
         /\ stage[c] \notin {"idle", "verifying"} =>
              reply'[c] = reply[c] /\ stage'[c] \notin {"idle", "verifying"}
         /\ request'[c] = request[c]
            \/ /\ stage[c] = "verified" /\ Approved(c)
               /\ request'[c] = SignRequest(c)
<1>1. CASE UNCHANGED calls
  BY <1>1 DEF calls
<1>2. ASSUME NEW caller \in Account, Admin(caller) PROVE UNCHANGED calls
  BY <1>2 DEF Admin, ChangeOwner, SetPauser, Pause, Unpause, SetMpcAddress,
     SetMpcKeyVersion, SetMpcDomainId, SetMpc, AddGuard, RemoveGuard, calls
<1>3. ASSUME NEW b \in CallId, NEW caller \in Account, NewCall(b, caller) PROVE Preserved
  BY <1>3 DEF NewCall, Sign, Verify, Ask, Inv, TypeOK
<1>4. ASSUME NEW b \in CallId, GuardAnswers(b) \/ MpcAnswers(b) PROVE Preserved
  BY <1>4 DEF GuardAnswers, GuardReply, MpcAnswers, MpcReply, Inv, TypeOK
<1>5. ASSUME NEW b \in CallId, OnVerifyCallback(b) \/ OnSignCallback(b) PROVE Preserved
  BY <1>5 DEF OnVerifyCallback, OnSignCallback, RefundOrFail, Refund, Fail, Finish, Inv, TypeOK
<1>6. ASSUME NEW b \in CallId, OnVerifySignCallback(b) PROVE Preserved
  <2>1. CASE AskMpc(b)
    BY <1>6, <2>1 DEF OnVerifySignCallback, AskMpc, Refused, Approved, RefundOrFail, Refund, Fail, Finish, Inv, TypeOK
  <2>2. CASE RefundOrFail(b, "refunded") \/ Fail(b, "panicked") \/ Fail(b, "short")
    BY <1>6, <2>2 DEF OnVerifySignCallback, RefundOrFail, Refund, Fail, Finish, Inv, TypeOK
  <2> QED
    BY <1>6, <2>1, <2>2 DEF OnVerifySignCallback
<1> QED
  BY <1>1, <1>2, <1>3, <1>4, <1>5, <1>6 DEF Next, Callback, vars, calls

-----------------------------------------------------------------------------
(* The inductive invariant of the chain.                                   *)

\* What the guard that a call was sent to has found of its token.
TokenHolds(c) ==
  /\ args[c].token.fatxn = args[c].payload
  /\ args[c].token.iss = <<args[c].guardId[2]>>
  /\ since[c].time < args[c].token.exp
  /\ args[c].token.nbf <= now
  /\ <<hops[c].account, args[c].token.signer>> \in since[c].keys
  /\ KindOf[hops[c].account] = "auth0" => hops[c].account \in args[c].token.aud

Verified(c) == Router!Answer("pair", TRUE, args[c].token.sub)

\* What the router holds of a call is the call's own: the issuer is the name in
\* its guard id, and an answer that approves comes from a guard that verified
\* the token.
HopInv(c) ==
  /\ args[c].guard = RouterAddress
  /\ Len(args[c].guardId) = 2 /\ args[c].guardId[1] = Jwt
  /\ hops[c].account \in GuardAccount
  /\ hops[c] = [issuer |-> <<args[c].guardId[2]>>, account |-> hops[c].account,
                jwt |-> args[c].token, payload |-> args[c].payload,
                answer |-> hops[c].answer]
  /\ hops[c].answer \in {None, Router!Panic, Router!Refusal, Verified(c)}
  /\ hops[c].answer = None => stage[c] = "verifying"
  /\ hops[c].answer # None /\ hops[c].answer.ok => TokenHolds(c)

\* The time of a call and the keys installed since.
SinceInv(c) ==
  /\ since[c] = [time |-> since[c].time, keys |-> since[c].keys]
  /\ since[c].time \in Nat /\ since[c].time <= now
  /\ stage[c] = "verifying" => Installed(guardKeys) \subseteq since[c].keys

ChainInv(c) ==
  /\ stage[c] = "idle" => hops[c] = None
  /\ stage[c] # "idle" => SinceInv(c)
  /\ hops[c] # None => HopInv(c)
  /\ stage[c] \notin {"idle", "verifying"} /\ Approved(c) =>
       hops[c] # None /\ reply[c].user = args[c].token.sub /\ TokenHolds(c)
  /\ request[c] # None => Approved(c) /\ request[c].payload = args[c].payload

FlowTypeOK ==
  /\ now \in Nat
  /\ guardKeys \in [GuardAccount -> KeyLists]
  /\ \A name \in DOMAIN routerGuards : routerGuards[name] \in GuardAccount
  /\ hops = [c \in CallId |-> hops[c]]
  /\ since = [c \in CallId |-> since[c]]

FlowInv == Inv /\ FlowTypeOK /\ \A c \in CallId : ChainInv(c)

\* None is no request: a call that asked the MPC contract has left the guard.
LEMMA RequestStage ==
  ASSUME Inv, NEW c \in CallId, request[c] # None
  PROVE  stage[c] \in {"signing", "signed", "done"}
  BY DEF Inv, PathInv, VerifySub

\* A call that a step of FastAuth moves on, or leaves alone, while the router
\* and the guards do nothing for it: time may pass and keys may be added.
LEMMA ChainKeeps ==
  ASSUME FlowInv, Inv', [Next]_vars, NEW c \in CallId, stage[c] # "idle",
         stage'[c] = "verifying" <=> stage[c] = "verifying",
         hops'[c] = hops[c],
         since'[c] = [time |-> since[c].time, keys |-> since'[c].keys],
         since[c].keys \subseteq since'[c].keys,
         now \in Nat, now' \in Nat, now <= now',
         stage[c] = "verifying" => Installed(guardKeys)' \subseteq since'[c].keys
  PROVE  ChainInv(c)'
<1>1. /\ args'[c] = args[c] /\ stage'[c] # "idle"
      /\ stage[c] \notin {"idle", "verifying"} =>
           reply'[c] = reply[c] /\ stage'[c] \notin {"idle", "verifying"}
      /\ request'[c] = request[c]
         \/ /\ stage[c] = "verified" /\ Approved(c)
            /\ request'[c] = SignRequest(c)
  BY CallStep DEF FlowInv
<1>2. args[c] \in CallArgs
  BY ArgsOfCall DEF FlowInv
<1>3. args[c].token.nbf \in Nat /\ args[c].token.exp \in Nat
  BY <1>2, FlowAssumption DEF CallArgs
<1>4. SinceInv(c) /\ SinceInv(c)'
  BY DEF FlowInv, ChainInv, SinceInv
<1>5. TokenHolds(c) => TokenHolds(c)'
  BY <1>1, <1>3, <1>4 DEF TokenHolds, SinceInv
<1>6. HopInv(c) => HopInv(c)'
  BY <1>1, <1>5 DEF HopInv, Verified, Router!Answer
<1>7. request[c] # None => stage[c] \notin {"idle", "verifying"}
  BY RequestStage DEF FlowInv
<1>8. stage[c] \notin {"idle", "verifying"} => (Approved(c)' <=> Approved(c))
  BY <1>1 DEF Approved
<1>9. request'[c] # None => Approved(c)' /\ request'[c].payload = args'[c].payload
  BY <1>1, <1>7, <1>8 DEF FlowInv, ChainInv, SignRequest
<1> QED
  BY <1>1, <1>4, <1>5, <1>6, <1>8, <1>9 DEF FlowInv, ChainInv

\* A call that a step does not concern.
LEMMA ChainStays ==
  ASSUME FlowInv, Inv', [Next]_vars, NEW c \in CallId,
         stage'[c] = stage[c] \/ stage[c] \notin {"idle", "verifying"},
         hops'[c] = hops[c], since'[c] = since[c], now' = now, guardKeys' = guardKeys
  PROVE  ChainInv(c)'
<1>1. CASE stage[c] = "idle"
  <2>1. stage'[c] = "idle" /\ hops'[c] = None
    BY <1>1 DEF FlowInv, ChainInv
  <2>2. request'[c] = None
    BY <1>1, CallStep, RequestStage DEF FlowInv
  <2> QED
    BY <2>1, <2>2 DEF ChainInv
<1>2. CASE stage[c] # "idle"
  <2>1. SinceInv(c)
    BY <1>2 DEF FlowInv, ChainInv
  <2>2. stage'[c] = "verifying" <=> stage[c] = "verifying"
    BY <1>2, CallStep DEF FlowInv
  <2>3. Installed(guardKeys)' = Installed(guardKeys)
    BY DEF Installed
  <2> QED
    BY <1>2, <2>1, <2>2, <2>3, ChainKeeps DEF SinceInv, FlowInv, FlowTypeOK
<1> QED
  BY <1>1, <1>2

-----------------------------------------------------------------------------
(* Every receipt of the chain is one of FastAuth's, or none.               *)

\* What the router hands back is an answer that FastAuth may get of a guard.
LEMMA RouterReplies ==
  ASSUME FlowInv, NEW c \in CallId, hops[c] # None, hops[c].answer # None
  PROVE  /\ Router!CallbackAnswer(hops[c].answer) \in Replies
         /\ hops[c].answer.ok =>
              Router!CallbackAnswer(hops[c].answer).user = args[c].token.sub
         /\ Router!CallbackAnswer(hops[c].answer).ok => hops[c].answer.ok
<1>1. HopInv(c) /\ stage[c] # "idle"
  BY DEF FlowInv, ChainInv
<1>2. args[c].token.sub \in Users
  BY <1>1, ArgsOfCall, FlowAssumption DEF FlowInv, CallArgs
<1>3. Router!Panic = Failed
  BY DEF Router!Panic, Router!Answer, Failed, NoString
<1>4. Router!CallbackAnswer(Router!Panic) = Router!Panic
  BY DEF Router!CallbackAnswer, Router!Panic, Router!Answer
<1>5. /\ Router!CallbackAnswer(Router!Refusal) \in Replies
      /\ ~Router!CallbackAnswer(Router!Refusal).ok
      /\ ~Router!Refusal.ok
  BY FlowAssumption DEF Router!CallbackAnswer, Router!Refusal, Router!Answer, Replies
<1>6. /\ Router!CallbackAnswer(Verified(c)) \in Replies
      /\ Router!CallbackAnswer(Verified(c)).user = args[c].token.sub
      /\ Verified(c).ok
  BY <1>2 DEF Router!CallbackAnswer, Verified, Router!Answer, Replies
<1>7. ~Router!Panic.ok /\ Failed \in Replies
  BY DEF Router!Panic, Router!Answer, Replies
<1> QED
  BY <1>1, <1>3, <1>4, <1>5, <1>6, <1>7 DEF HopInv

LEMMA ReceiptIsNext ==
  ASSUME FlowInv, NEW c \in CallId, Receipt(c)
  PROVE  [Next]_vars
<1>1. CASE RouterVerify(c)
  <2>1. CASE GuardReply(c, Failed)
    BY <2>1 DEF Replies, GuardAnswers, Next
  <2> QED
    BY <1>1, <2>1 DEF RouterVerify
<1>2. CASE NoGuardThere(c)
  BY <1>2 DEF NoGuardThere, Replies, GuardAnswers, Next
<1>3. CASE GuardVerify(c)
  BY <1>3 DEF GuardVerify
<1>4. CASE RouterCallback(c)
  BY <1>4, RouterReplies DEF RouterCallback, GuardAnswers, Next
<1>5. CASE FastAuthCallback(c) \/ MpcSign(c)
  BY <1>5 DEF FastAuthCallback, MpcSign, Next
<1> QED
  BY <1>1, <1>2, <1>3, <1>4, <1>5 DEF Receipt

LEMMA FlowIsNext ==
  ASSUME FlowInv, [FlowNext]_flowVars
  PROVE  [Next]_vars
<1>1. ASSUME NEW c \in CallId, Receipt(c) PROVE [Next]_vars
  BY <1>1, ReceiptIsNext
<1>2. ASSUME NEW c \in CallId, NEW caller \in Account, Call(c, caller) PROVE [Next]_vars
  BY <1>2 DEF Call, Next
<1>3. ASSUME NEW caller \in Admins, FastAuthAdmin(caller) PROVE [Next]_vars
  BY <1>3, FlowAssumption DEF FastAuthAdmin, Next
<1> QED
  BY <1>1, <1>2, <1>3 DEF FlowNext, SetPublicKeys, RouterAdmin, Tick, flowVars

-----------------------------------------------------------------------------
(* The invariant holds in every state of the chain.                        *)

LEMMA InitFlowInv == FlowInit => FlowInv
<1> SUFFICES ASSUME FlowInit PROVE FlowInv
  OBVIOUS
<1>1. Inv
  BY InitInv DEF FlowInit
<1>2. FlowTypeOK
  BY DEF FlowInit, Router!Init, FlowTypeOK
<1>3. ASSUME NEW c \in CallId PROVE ChainInv(c)
  BY DEF FlowInit, Init, Router!Init, ChainInv
<1> QED
  BY <1>1, <1>2, <1>3 DEF FlowInv

LEMMA FlowTypeStep == ASSUME FlowInv, [FlowNext]_flowVars PROVE FlowTypeOK'
<1> USE DEF FlowInv, FlowTypeOK, routerVars, guardVars
<1>1. ASSUME NEW c \in CallId, RouterVerify(c) PROVE FlowTypeOK'
  BY <1>1 DEF RouterVerify, Router!Forward
<1>2. ASSUME NEW c \in CallId, GuardVerify(c) PROVE FlowTypeOK'
  BY <1>2 DEF GuardVerify, Router!GuardAnswered
<1>3. ASSUME NEW c \in CallId,
             NoGuardThere(c) \/ RouterCallback(c) \/ FastAuthCallback(c) \/ MpcSign(c)
      PROVE  FlowTypeOK'
  BY <1>3 DEF NoGuardThere, RouterCallback, FastAuthCallback, MpcSign
<1>4. ASSUME NEW c \in CallId, NEW caller \in Account, Call(c, caller) PROVE FlowTypeOK'
  BY <1>4 DEF Call
<1>5. ASSUME NEW g \in GuardAccount, NEW keys \in KeyLists, SetPublicKeys(g, keys)
      PROVE  FlowTypeOK'
  BY <1>5 DEF SetPublicKeys
<1>6. ASSUME NEW caller \in Account, RouterAdmin(caller) PROVE FlowTypeOK'
  BY <1>6 DEF RouterAdmin, Router!Admin, Router!ChangeOwner, Router!AddGuard,
     Router!RemoveGuard
<1>7. ASSUME NEW caller \in Admins, FastAuthAdmin(caller) PROVE FlowTypeOK'
  BY <1>7 DEF FastAuthAdmin
<1>8. CASE Tick
  BY <1>8 DEF Tick
<1>9. CASE UNCHANGED flowVars
  BY <1>9 DEF flowVars
<1> QED
  BY <1>1, <1>2, <1>3, <1>4, <1>5, <1>6, <1>7, <1>8, <1>9 DEF FlowNext, Receipt

\* A call begins with the keys of the moment.
LEMMA CallChain ==
  ASSUME FlowInv, Inv', [Next]_vars, NEW c \in CallId, NEW caller \in Account,
         Call(c, caller), NEW d \in CallId
  PROVE  ChainInv(d)'
<1>1. /\ stage[c] = "idle" /\ stage'[c] = "verifying"
      /\ \A e \in CallId \ {c} : stage'[e] = stage[e]
      /\ request' = request
  BY DEF Call, NewCall, Sign, Verify, Ask, FlowInv, Inv, TypeOK
<1>2. hops' = hops /\ guardKeys' = guardKeys /\ now' = now
  BY DEF Call, routerVars
<1>3. since' = [since EXCEPT ![c] = [time |-> now, keys |-> Installed(guardKeys)]]
  BY DEF Call
<1>4. CASE d = c
  <2>1. hops'[c] = None /\ request'[c] = None
    BY <1>1, <1>2, RequestStage DEF FlowInv, ChainInv
  <2>2. since'[c] = [time |-> now, keys |-> Installed(guardKeys)]
    BY <1>3 DEF FlowInv, FlowTypeOK
  <2>3. Installed(guardKeys)' = Installed(guardKeys)
    BY <1>2 DEF Installed
  <2>4. SinceInv(c)'
    BY <1>2, <2>2, <2>3 DEF SinceInv, FlowInv, FlowTypeOK
  <2> QED
    BY <1>1, <1>4, <2>1, <2>4 DEF ChainInv
<1>5. CASE d # c
  <2>1. since'[d] = since[d]
    BY <1>3, <1>5 DEF FlowInv, FlowTypeOK
  <2> QED
    BY <1>1, <1>2, <1>5, <2>1, ChainStays
<1> QED
  BY <1>4, <1>5

\* The router sends the guard what the call holds.
LEMMA RouterVerifyChain ==
  ASSUME FlowInv, Inv', [Next]_vars, NEW c \in CallId, RouterVerify(c), NEW d \in CallId
  PROVE  ChainInv(d)'
<1>1. /\ stage[c] = "verifying" /\ args[c].guard = RouterAddress /\ hops[c] = None
      /\ guardKeys' = guardKeys /\ now' = now /\ since' = since
  BY DEF RouterVerify, AtRouter, guardVars
<1>2. CASE Router!Forward(c, args[c].guardId, args[c].token, args[c].payload)
           /\ UNCHANGED vars
  <2>1. \A e \in CallId \ {c} : hops'[e] = hops[e]
    BY <1>2 DEF Router!Forward, FlowInv, FlowTypeOK
  <2>2. stage' = stage /\ args' = args /\ request' = request
    BY <1>2 DEF vars, calls
  <2>3. hops'[c] = [issuer |-> <<args[c].guardId[2]>>,
                    account |-> routerGuards[<<args[c].guardId[2]>>],
                    jwt |-> args[c].token, payload |-> args[c].payload,
                    answer |-> None]
    BY <1>2 DEF Router!Forward, FlowInv, FlowTypeOK
  <2>4. HopInv(c)'
    BY <1>1, <1>2, <2>2, <2>3
       DEF HopInv, Router!Forward, Router!Routable, FlowInv, FlowTypeOK
  <2>5. SinceInv(c)'
    BY <1>1, <2>2 DEF SinceInv, FlowInv, ChainInv, Installed
  <2>6. request'[c] = None
    BY <1>1, <2>2, RequestStage DEF FlowInv
  <2>7. ChainInv(c)'
    BY <1>1, <2>2, <2>4, <2>5, <2>6 DEF ChainInv
  <2> QED
    BY <1>1, <2>1, <2>2, <2>7, ChainStays
<1>3. CASE GuardReply(c, Failed) /\ UNCHANGED routerVars
  <2>1. \A e \in CallId \ {c} : stage'[e] = stage[e]
    BY <1>3 DEF GuardReply, FlowInv, Inv, TypeOK
  <2>2. /\ stage'[c] = "verified" /\ reply'[c] = Failed
        /\ args' = args /\ request' = request /\ hops' = hops
    BY <1>3 DEF GuardReply, FlowInv, Inv, TypeOK, routerVars
  <2>3. request'[c] = None
    BY <1>1, <2>2, RequestStage DEF FlowInv
  <2>4. SinceInv(c)'
    BY <1>1, <2>2 DEF SinceInv, FlowInv, ChainInv
  <2>5. ~Approved(c)'
    BY <2>2 DEF Approved, Failed
  <2>6. ChainInv(c)'
    BY <1>1, <2>2, <2>3, <2>4, <2>5 DEF ChainInv
  <2> QED
    BY <1>1, <2>1, <2>2, <2>6, ChainStays
<1> QED
  BY <1>2, <1>3 DEF RouterVerify

\* Another account at the guard's address: nothing is approved.
LEMMA NoGuardChain ==
  ASSUME FlowInv, Inv', [Next]_vars, NEW c \in CallId, NoGuardThere(c), NEW d \in CallId
  PROVE  ChainInv(d)'
<1>1. /\ stage[c] = "verifying" /\ args[c].guard # RouterAddress
      /\ guardKeys' = guardKeys /\ now' = now /\ since' = since /\ hops' = hops
  BY DEF NoGuardThere, guardVars, routerVars
<1>2. \A e \in CallId \ {c} : stage'[e] = stage[e]
  BY DEF NoGuardThere, GuardReply, FlowInv, Inv, TypeOK
<1>3. /\ stage'[c] = "verified" /\ reply'[c] = Failed
      /\ args' = args /\ request' = request
  BY DEF NoGuardThere, GuardReply, FlowInv, Inv, TypeOK
<1>4. hops[c] = None
  BY <1>1 DEF FlowInv, ChainInv, HopInv
<1>5. request'[c] = None
  BY <1>1, <1>3, RequestStage DEF FlowInv
<1>6. SinceInv(c)'
  BY <1>1, <1>3 DEF SinceInv, FlowInv, ChainInv
<1>7. ~Approved(c)'
  BY <1>3 DEF Approved, Failed
<1>8. ChainInv(c)'
  BY <1>1, <1>3, <1>4, <1>5, <1>6, <1>7 DEF ChainInv
<1> QED
  BY <1>1, <1>2, <1>8, ChainStays

\* A guard approves a token with a key that it has installed at that moment.
LEMMA GuardFinds ==
  ASSUME FlowInv, NEW c \in CallId, hops[c] # None, hops[c].answer = None,
         NEW answer,
         answer = Router!InternalVerify(guardKeys[hops[c].account], KindOf[hops[c].account],
                     hops[c].account, hops[c].issuer, hops[c].jwt, hops[c].payload, now)
  PROVE  /\ answer \in {Router!Panic, Router!Refusal, Verified(c)}
         /\ answer.ok => TokenHolds(c)
<1>1. HopInv(c) /\ SinceInv(c) /\ stage[c] = "verifying"
  BY DEF FlowInv, ChainInv, HopInv
<1>2. /\ hops[c].issuer = <<args[c].guardId[2]>> /\ hops[c].jwt = args[c].token
      /\ hops[c].payload = args[c].payload /\ hops[c].account \in GuardAccount
  BY <1>1 DEF HopInv
<1>3. ~Router!Panic.ok /\ ~Router!Refusal.ok
  BY DEF Router!Panic, Router!Refusal, Router!Answer
<1>4. CASE /\ Router!VerifyToken(guardKeys[hops[c].account], hops[c].jwt)
           /\ Router!VerifyClaims(KindOf[hops[c].account], hops[c].account,
                hops[c].issuer, hops[c].jwt, hops[c].payload, now)
  <2>1. args[c].token.signer \in Router!ToSet(guardKeys[hops[c].account])
    BY <1>2, <1>4 DEF Router!VerifyToken
  <2>2. <<hops[c].account, args[c].token.signer>> \in Installed(guardKeys)
    BY <1>2, <2>1 DEF Installed
  <2>3. <<hops[c].account, args[c].token.signer>> \in since[c].keys
    BY <1>1, <2>2 DEF SinceInv
  <2>4. /\ now < args[c].token.exp /\ args[c].token.nbf <= now
        /\ args[c].token.iss = <<args[c].guardId[2]>>
        /\ args[c].token.fatxn = args[c].payload
        /\ KindOf[hops[c].account] = "auth0" => hops[c].account \in args[c].token.aud
    BY <1>2, <1>4 DEF Router!VerifyClaims, Router!StandardClaims,
       Router!VerifyCustomClaims, Router!Auth0Claims, Router!CustomIssuerClaims,
       Router!AudienceMatches
  <2>5. args[c].token.exp \in Nat
    BY <1>1, ArgsOfCall, FlowAssumption DEF FlowInv, CallArgs
  <2>6. since[c].time < args[c].token.exp
    BY <1>1, <2>4, <2>5 DEF SinceInv, FlowInv, FlowTypeOK
  <2>7. TokenHolds(c)
    BY <2>3, <2>4, <2>6 DEF TokenHolds
  <2> QED
    BY <1>2, <2>7 DEF Router!InternalVerify, Verified
<1>5. CASE ~ (/\ Router!VerifyToken(guardKeys[hops[c].account], hops[c].jwt)
              /\ Router!VerifyClaims(KindOf[hops[c].account], hops[c].account,
                   hops[c].issuer, hops[c].jwt, hops[c].payload, now))
  BY <1>3, <1>5 DEF Router!InternalVerify
<1> QED
  BY <1>4, <1>5

LEMMA GuardVerifyChain ==
  ASSUME FlowInv, Inv', [Next]_vars, NEW c \in CallId, GuardVerify(c), NEW d \in CallId
  PROVE  ChainInv(d)'
<1>1. /\ hops[c] # None /\ hops[c].answer = None
      /\ guardKeys' = guardKeys /\ now' = now /\ since' = since
      /\ stage' = stage /\ args' = args /\ request' = request /\ reply' = reply
  BY DEF GuardVerify, guardVars, vars, calls
<1> DEFINE answer ==
      Router!InternalVerify(guardKeys[hops[c].account], KindOf[hops[c].account],
                            hops[c].account, hops[c].issuer, hops[c].jwt,
                            hops[c].payload, now)
<1>2. hops' = [hops EXCEPT ![c].answer = answer]
  BY DEF GuardVerify, Router!GuardAnswered
<1> HIDE DEF answer
<1>3. \A e \in CallId \ {c} : hops'[e] = hops[e]
  BY <1>2 DEF FlowInv, FlowTypeOK
<1>4. HopInv(c) /\ SinceInv(c) /\ stage[c] = "verifying"
  BY <1>1 DEF FlowInv, ChainInv, HopInv
<1>5. hops'[c] = [hops[c] EXCEPT !.answer = answer]
  BY <1>2 DEF FlowInv, FlowTypeOK
<1>6. /\ answer \in {Router!Panic, Router!Refusal, Verified(c)}
      /\ answer.ok => TokenHolds(c)
  BY <1>1, GuardFinds DEF answer
<1>7. hops'[c] = [issuer |-> <<args[c].guardId[2]>>, account |-> hops[c].account,
                  jwt |-> args[c].token, payload |-> args[c].payload,
                  answer |-> answer]
  BY <1>4, <1>5 DEF HopInv
<1>8. HopInv(c)'
  <2>1. hops'[c].account = hops[c].account /\ hops'[c].answer = answer
    BY <1>7
  <2>2. /\ answer \in {Router!Panic, Router!Refusal, Verified(c)}'
        /\ answer.ok => TokenHolds(c)'
    BY <1>1, <1>6, <2>1 DEF Verified, TokenHolds, Router!Panic, Router!Refusal
  <2> QED
    BY <1>1, <1>4, <1>7, <2>1, <2>2 DEF HopInv
<1>9. SinceInv(c)'
  BY <1>1, <1>4 DEF SinceInv, Installed
<1>10. request'[c] = None
  BY <1>1, <1>4, RequestStage DEF FlowInv
<1>11. ChainInv(c)'
  BY <1>1, <1>4, <1>8, <1>9, <1>10 DEF ChainInv
<1> QED
  BY <1>1, <1>3, <1>11, ChainStays

\* FastAuth is told that the token is verified when the guard has verified it.
LEMMA RouterCallbackChain ==
  ASSUME FlowInv, Inv', [Next]_vars, NEW c \in CallId, RouterCallback(c), NEW d \in CallId
  PROVE  ChainInv(d)'
<1>1. /\ stage[c] = "verifying" /\ hops[c] # None /\ hops[c].answer # None
      /\ guardKeys' = guardKeys /\ now' = now /\ since' = since /\ hops' = hops
  BY DEF RouterCallback, guardVars, routerVars
<1>2. \A e \in CallId \ {c} : stage'[e] = stage[e]
  BY DEF RouterCallback, GuardReply, FlowInv, Inv, TypeOK
<1>3. /\ stage'[c] = "verified" /\ args' = args /\ request' = request
      /\ reply'[c] = Router!CallbackAnswer(hops[c].answer)
  BY DEF RouterCallback, GuardReply, FlowInv, Inv, TypeOK
<1>4. HopInv(c) /\ SinceInv(c)
  BY <1>1 DEF FlowInv, ChainInv
<1>5. SinceInv(c)' /\ HopInv(c)'
  BY <1>1, <1>3, <1>4 DEF SinceInv, HopInv, TokenHolds, Verified
<1>6. request'[c] = None
  BY <1>1, <1>3, RequestStage DEF FlowInv
<1>7. Approved(c)' => reply'[c].user = args[c].token.sub /\ TokenHolds(c)
  BY <1>1, <1>3, <1>4, RouterReplies DEF Approved, HopInv
<1>8. ChainInv(c)'
  BY <1>1, <1>3, <1>5, <1>6, <1>7 DEF ChainInv, TokenHolds
<1> QED
  BY <1>1, <1>2, <1>8, ChainStays

\* New keys are added to what every waiting call has seen installed.
LEMMA SetPublicKeysChain ==
  ASSUME FlowInv, Inv', [Next]_vars, NEW g \in GuardAccount, NEW keys \in KeyLists,
         SetPublicKeys(g, keys), NEW c \in CallId
  PROVE  ChainInv(c)'
<1>1. stage' = stage /\ request' = request /\ hops' = hops /\ now' = now
  BY DEF SetPublicKeys, vars, calls, routerVars
<1>2. CASE stage[c] = "idle"
  <2>1. hops'[c] = None /\ request'[c] = None
    BY <1>1, <1>2, RequestStage DEF FlowInv, ChainInv
  <2> QED
    BY <1>1, <1>2, <2>1 DEF ChainInv
<1>3. CASE stage[c] # "idle"
  <2>1. SinceInv(c)
    BY <1>3 DEF FlowInv, ChainInv
  <2>2. since'[c] = IF stage[c] = "verifying"
                    THEN [since[c] EXCEPT !.keys = @ \cup Installed(guardKeys')]
                    ELSE since[c]
    BY DEF SetPublicKeys
  <2>3. Installed(guardKeys') = Installed(guardKeys)'
    BY DEF Installed
  <2>4. since[c] = [time |-> since[c].time, keys |-> since[c].keys]
    BY <2>1 DEF SinceInv
  <2>5. CASE stage[c] = "verifying"
    <3>1. since'[c] = [time |-> since[c].time,
                       keys |-> since[c].keys \cup Installed(guardKeys)']
      BY <2>2, <2>3, <2>4, <2>5
    <3> QED
      BY <1>1, <1>3, <3>1, ChainKeeps DEF FlowInv, FlowTypeOK
  <2>6. CASE stage[c] # "verifying"
    BY <1>1, <1>3, <2>2, <2>4, <2>6, ChainKeeps DEF FlowInv, FlowTypeOK
  <2> QED
    BY <2>5, <2>6
<1> QED
  BY <1>2, <1>3

LEMMA TickChain ==
  ASSUME FlowInv, Inv', [Next]_vars, Tick, NEW c \in CallId
  PROVE  ChainInv(c)'
<1>1. /\ stage' = stage /\ request' = request /\ hops' = hops
      /\ guardKeys' = guardKeys /\ since' = since /\ now' = now + 1
  BY DEF Tick, vars, calls, routerVars
<1>2. CASE stage[c] = "idle"
  <2>1. hops'[c] = None /\ request'[c] = None
    BY <1>1, <1>2, RequestStage DEF FlowInv, ChainInv
  <2> QED
    BY <1>1, <1>2, <2>1 DEF ChainInv
<1>3. CASE stage[c] # "idle"
  <2>1. SinceInv(c)
    BY <1>3 DEF FlowInv, ChainInv
  <2>2. Installed(guardKeys)' = Installed(guardKeys)
    BY <1>1 DEF Installed
  <2> QED
    BY <1>1, <1>3, <2>1, <2>2, ChainKeeps DEF SinceInv, FlowInv, FlowTypeOK
<1> QED
  BY <1>2, <1>3

LEMMA FlowNextInv == FlowInv /\ [FlowNext]_flowVars => FlowInv'
<1> SUFFICES ASSUME FlowInv, [FlowNext]_flowVars PROVE FlowInv'
  OBVIOUS
<1>1. [Next]_vars
  BY FlowIsNext
<1>2. Inv'
  BY <1>1, NextInv DEF FlowInv
<1>3. FlowTypeOK'
  BY FlowTypeStep
<1>4. ASSUME NEW d \in CallId PROVE ChainInv(d)'
  <2>1. ASSUME NEW c \in CallId, Receipt(c) PROVE ChainInv(d)'
    <3>1. CASE FastAuthCallback(c) \/ MpcSign(c)
      <4>1. \A e \in CallId : stage'[e] = stage[e] \/ stage[e] \notin {"idle", "verifying"}
        <5>1. CASE Callback(c)
          BY <5>1 DEF Callback, OnVerifyCallback, OnVerifySignCallback, OnSignCallback,
             RefundOrFail, Refund, Fail, Finish, AskMpc, FlowInv, Inv, TypeOK
        <5>2. CASE MpcAnswers(c)
          BY <5>2 DEF MpcAnswers, MpcReply, FlowInv, Inv, TypeOK
        <5> QED
          BY <3>1, <5>1, <5>2 DEF FastAuthCallback, MpcSign
      <4> QED
        BY <1>1, <1>2, <3>1, <4>1, ChainStays
           DEF FastAuthCallback, MpcSign, routerVars, guardVars
    <3> QED
      BY <1>1, <1>2, <2>1, <3>1, RouterVerifyChain, NoGuardChain, GuardVerifyChain,
         RouterCallbackChain DEF Receipt
  <2>2. ASSUME NEW c \in CallId, NEW caller \in Account, Call(c, caller) PROVE ChainInv(d)'
    BY <1>1, <1>2, <2>2, CallChain
  <2>3. ASSUME NEW g \in GuardAccount, NEW keys \in KeyLists, SetPublicKeys(g, keys)
        PROVE  ChainInv(d)'
    BY <1>1, <1>2, <2>3, SetPublicKeysChain
  <2>4. ASSUME NEW caller \in Account, RouterAdmin(caller) PROVE ChainInv(d)'
    <3>1. stage' = stage /\ hops' = hops /\ guardKeys' = guardKeys /\ now' = now /\ since' = since
      BY <2>4 DEF RouterAdmin, Router!Admin, Router!ChangeOwner, Router!AddGuard,
         Router!RemoveGuard, guardVars, vars, calls
    <3> QED
      BY <1>1, <1>2, <3>1, ChainStays
  <2>5. ASSUME NEW caller \in Admins, FastAuthAdmin(caller) PROVE ChainInv(d)'
    <3>1. stage' = stage
      BY <2>5 DEF FastAuthAdmin, Admin, ChangeOwner, SetPauser, Pause, Unpause,
         SetMpcAddress, SetMpcKeyVersion, SetMpcDomainId, SetMpc, AddGuard, RemoveGuard,
         calls
    <3> QED
      BY <1>1, <1>2, <2>5, <3>1, ChainStays DEF FastAuthAdmin, routerVars, guardVars
  <2>6. CASE Tick
    BY <1>1, <1>2, <2>6, TickChain
  <2>7. CASE UNCHANGED flowVars
    BY <1>1, <1>2, <2>7, ChainStays DEF flowVars, vars, calls, routerVars, guardVars
  <2> QED
    BY <2>1, <2>2, <2>3, <2>4, <2>5, <2>6, <2>7 DEF FlowNext
<1> QED
  BY <1>2, <1>3, <1>4 DEF FlowInv

LEMMA FlowInvariance == FlowSpec => []FlowInv
  BY InitFlowInv, FlowNextInv, PTL DEF FlowSpec

-----------------------------------------------------------------------------
(* What follows.                                                           *)

\* The chain with the router and the JWT guards of this repository is a FastAuth
\* whose guards answer what they like: each receipt is one of FastAuth's, or
\* leaves FastAuth alone.
THEOREM ChainImplementsFastAuth == FlowSpec => Spec
<1>1. FlowInit => Init
  BY DEF FlowInit
<1>2. FlowInv /\ [FlowNext]_flowVars => [Next]_vars
  BY FlowIsNext
<1> QED
  BY <1>1, <1>2, FlowInvariance, PTL DEF FlowSpec, Spec

\* Hence a call of the chain that is over has its deposit back, but for the
\* panics of on_verify_sign_callback, that of on_sign_callback on an answer of
\* the MPC contract it cannot read, and a short balance.
THEOREM ChainIsSettled == FlowSpec => []SettledUnlessPanicked
  BY ChainImplementsFastAuth, CallsAreSettled

\* And a paused contract takes no call and keeps its configuration, whatever the
\* router, the guards and the clock do.
THEOREM ChainFrozenWhilePaused == FlowSpec => FrozenWhilePaused
  BY ChainImplementsFastAuth, PausedIsFrozen

\* And with a reserve for the fees no call of the chain finds the balance short.
THEOREM ChainIsCovered ==
  ASSUME NEW CONSTANT most, FeesAreCovered(most)
  PROVE  FlowSpec => []NeverShort
<1>1. Spec => []NeverShort
  BY DepositsAreCovered
<1> QED
  BY <1>1, ChainImplementsFastAuth, PTL

\* A call for which the MPC contract is asked: verified, and sent with its path.
LEMMA RequestHolds ==
  ASSUME FlowInv, NEW c \in CallId, Requested(c)
  PROVE  /\ HopInv(c) /\ TokenHolds(c)
         /\ args[c] \in CallArgs
         /\ reply[c].user = args[c].token.sub
         /\ request[c].path = args[c].guardId \o reply[c].user
         /\ request[c].payload = args[c].payload
<1>1. stage[c] \notin {"idle", "verifying"}
  BY RequestStage DEF FlowInv, Requested
<1>2. Approved(c)
  BY DEF FlowInv, ChainInv, Requested
<1> QED
  BY <1>1, <1>2, ArgsOfCall DEF FlowInv, ChainInv, Requested, Inv, PathInv

\* The MPC contract is asked to sign the payload that is in the token, with the
\* key of the token's subject at the token's issuer, whatever names the router's
\* owner gives the guards and whatever keys two guards share.
THEOREM TokensAreObeyed == FlowSpec => []SignsWhatTheTokenSays
<1>1. FlowInv => SignsWhatTheTokenSays
  <2> SUFFICES ASSUME FlowInv, NEW c \in CallId, Requested(c)
               PROVE  /\ request[c].path = <<Jwt>> \o args[c].token.iss \o args[c].token.sub
                      /\ request[c].payload = args[c].token.fatxn
    BY DEF SignsWhatTheTokenSays
  <2>1. /\ HopInv(c) /\ TokenHolds(c) /\ args[c] \in CallArgs
        /\ request[c].path = args[c].guardId \o args[c].token.sub
        /\ request[c].payload = args[c].payload
    BY RequestHolds
  <2>2. args[c].guardId \in Seq(Segment)
    BY <2>1, StringsAssumption DEF CallArgs, String
  <2>3. args[c].guardId = <<Jwt>> \o args[c].token.iss
    BY <2>1, <2>2 DEF HopInv, TokenHolds
  <2> QED
    BY <2>1, <2>3 DEF TokenHolds
<1> QED
  BY <1>1, FlowInvariance, PTL

\* No signature is asked for a token that had expired when the call was made,
\* that is not valid yet, or whose key its guard has not held since then.
THEOREM DeadTokensSignNothing == FlowSpec => []OnlyLiveTokens
<1>1. FlowInv => OnlyLiveTokens
  BY RequestHolds DEF OnlyLiveTokens, TokenHolds
<1> QED
  BY <1>1, FlowInvariance, PTL

\* An Auth0 guard approves no token that was made for another account.
THEOREM AudienceIsTheGuard == FlowSpec => []OnlyItsAudience
<1>1. FlowInv => OnlyItsAudience
  BY RequestHolds DEF OnlyItsAudience, TokenHolds
<1> QED
  BY <1>1, FlowInvariance, PTL

\* The path of a request, from which the MPC contract derives the key, belongs to
\* one subject of one issuer.
OneUserPerPath ==
  \A c, d \in CallId :
    Requested(c) /\ Requested(d) /\ request[c].path = request[d].path =>
      args[c].token.iss = args[d].token.iss /\ args[c].token.sub = args[d].token.sub

\* Whatever subjects and issuers there are, and whichever guards and names: nobody
\* gets a signature with the key of somebody else (on_verify_sign_callback puts
\* "guard_id#user" together, verify_sub refuses what could be read in two ways).
THEOREM KeysAreOneUsers == FlowSpec => []OneUserPerPath
<1>1. FlowInv /\ PathIdentifiesUser => OneUserPerPath
  <2> SUFFICES ASSUME FlowInv, PathIdentifiesUser, NEW c \in CallId, NEW d \in CallId,
                      Requested(c), Requested(d), request[c].path = request[d].path
               PROVE  args[c].token.iss = args[d].token.iss /\ args[c].token.sub = args[d].token.sub
    BY DEF OneUserPerPath
  <2>1. args[c].guardId = args[d].guardId /\ reply[c].user = reply[d].user
    BY DEF PathIdentifiesUser, Requested
  <2>2. TokenHolds(c) /\ TokenHolds(d) /\ reply[c].user = args[c].token.sub /\ reply[d].user = args[d].token.sub
    BY RequestHolds
  <2> QED
    BY <2>1, <2>2 DEF TokenHolds
<1>2. FlowSpec => []PathIdentifiesUser
  BY ChainImplementsFastAuth, PathsIdentifyUsers
<1> QED
  BY <1>1, <1>2, FlowInvariance, PTL
===============================================================================
