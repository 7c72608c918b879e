--------------------------------- MODULE Sdk ---------------------------------
(***************************************************************************)
(* The React SDK (packages/sdks/react) over one of the providers. A call   *)
(* gets a signer, which asks the provider twice, and then creates an       *)
(* account or signs and sends: it asks the provider to have the user       *)
(* approve, takes the signature request, has the relayer call the FastAuth *)
(* contract, and sends the transaction with the signature it answers.      *)
(* Every await lets other calls, and the app's own use of the provider, in *)
(* between. An operation of the provider that a call makes is <<c, part>>. *)
(***************************************************************************)
EXTENDS Providers

CONSTANTS
  CallId,   \* the app's calls of getSigner, and of what the signer is for
  AppOp,    \* operations the app makes on the client itself
  Adapted   \* the providers whose requests the app unwraps before they are relayed

Parts == {"isLoggedIn", "getPath", "transaction", "delegate", "get"}

ASSUME SdkAssumption ==
  /\ Op = (CallId \X Parts) \cup AppOp /\ AppOp \cap (CallId \X Parts) = {}
  /\ Adapted \subseteq Provider

VARIABLE signing  \* each call

sdkVars == <<providersVars, signing>>

MpcAlgorithms == {"eddsa", "ecdsa"}
NewSigning == [kind |-> "none", algorithm |-> "eddsa", stage |-> "new", path |-> NoUser,
               request |-> NoRequest, form |-> "none", data |-> "none", alone |-> TRUE]

SdkInit == ProvidersInit /\ signing = [c \in CallId |-> NewSigning]

UnderWay(o, ops) == ops[o].stage \notin {"new", "done", "rejected", "unloaded"}
Going(call) == call.stage \notin {"new", "done", "failed", "unloaded"}

\* History: a call is alone as long as no operation but its own is under way.
\* A page that is left takes its calls with it.
Noticing(calls) ==
  [c \in CallId |->
     LET own == {<<c, p>> : p \in Parts}
         unloads == leaving # {} /\ leaving' = {}
     IN [calls[c] EXCEPT !.alone = @ /\ (Going(calls[c]) => \A o \in Op \ own : ~UnderWay(o, op')),
                         !.stage = IF unloads /\ Going(calls[c]) THEN "unloaded" ELSE @]]

Step(c, call) == signing' = Noticing([signing EXCEPT ![c] = call])
Quietly(c, call) == UNCHANGED providersVars /\ Step(c, call)
Fail(c) == Quietly(c, [signing[c] EXCEPT !.stage = "failed"])
Begin(c, part, call) == Start(<<c, part>>, part) /\ Step(c, [call EXCEPT !.stage = part])

\* getSigner: isLoggedIn first.
GetSigner(c) ==
  /\ signing[c].stage = "new"
  /\ Begin(c, "isLoggedIn", signing[c])

\* Mutant: a promise is used before it is fulfilled.
NotAwaited(c, part) == signing[c].stage = part /\ op[<<c, part>>].stage \in {"started", "done"}

Fulfilled(c, part) == signing[c].stage = part /\ op[<<c, part>>].stage = "done"

\* Mutant: the rejection of getPath is awaited for ever.
OnlyTheRequest(c) == \E part \in RequestKinds \cup {"get"} : signing[c].stage = part /\ op[<<c, part>>].stage = "rejected"

Rejected(c) == \E part \in Parts : signing[c].stage = part /\ op[<<c, part>>].stage = "rejected"

\* The promise that a call awaits rejects, and so does the call.
Rethrow(c) == Rejected(c) /\ Fail(c)

\* USER_NOT_LOGGED_IN, or init asks for the path.
SignerInit(c) ==
  /\ Fulfilled(c, "isLoggedIn")
  /\ IF op[<<c, "isLoggedIn">>].user = NoUser
     THEN Fail(c)
     ELSE Begin(c, "getPath", signing[c])

SignerReady(c) ==
  /\ Fulfilled(c, "getPath")
  /\ Quietly(c, [signing[c] EXCEPT !.stage = "signer", !.path = op[<<c, "getPath">>].user])

Called(c, kind, algorithm) == [signing[c] EXCEPT !.kind = kind, !.algorithm = algorithm]

\* createAccount views the derived key of the path; the other two ask the
\* provider to have the user approve.
CreateAccount(c, algorithm) ==
  signing[c].stage = "signer" /\ Quietly(c, [Called(c, "createAccount", algorithm) EXCEPT !.stage = "viewing"])

SignAndSendTransaction(c, algorithm) ==
  signing[c].stage = "signer" /\ Begin(c, "transaction", Called(c, "transaction", algorithm))

SignAndSendDelegateAction(c, algorithm) ==
  signing[c].stage = "signer" /\ Begin(c, "delegate", Called(c, "delegate", algorithm))

UseSigner(c, algorithm) ==
  CreateAccount(c, algorithm) \/ SignAndSendTransaction(c, algorithm) \/ SignAndSendDelegateAction(c, algorithm)

GetSignatureRequest(c) == \E kind \in RequestKinds : Fulfilled(c, kind) /\ Begin(c, "get", signing[c])

\* What getSignatureRequest hands out: the JavaScript and React Native providers
\* a user and a request, the Firebase provider a request whose payload is a
\* Uint8Array. The relayer wants a request whose payload is numbers.
HandedForm == IF provider \in Adapted THEN "numbers" ELSE IF provider = "firebase" THEN "bytes" ELSE "wrapped"

\* The spread of what was handed out, and the POST.
Relay(c) ==
  /\ Fulfilled(c, "get")
  /\ Quietly(c, [signing[c] EXCEPT !.stage = "relaying", !.request = op[<<c, "get">>].token, !.form = HandedForm])

GetPublicKey(c) ==
  /\ signing[c].stage = "viewing"
  /\ Quietly(c, [signing[c] EXCEPT !.stage = "relaying", !.form = "numbers"])

\* What the signature is: for eddsa 64 bytes, or a point from an older MPC
\* contract; for ecdsa a point with its recovery id.
SignaturePayloads(algorithm) == IF algorithm = "eddsa" THEN {"bytes", "point"} ELSE {"point"}

Executed(call) == {"Failure"} \cup SignaturePayloads(call.algorithm)

\* A status that is not ok or no connection; an execution that failed; a
\* signature. JSON has no bytes: a Uint8Array arrives as an object, which the
\* contract cannot read, and of which no delegate action can be decoded.
RelayTransaction(call) ==
  CASE call.form = "wrapped" -> {"not ok"}
    [] call.form = "bytes" -> {"not ok", "Failure"}
    [] OTHER -> {"not ok"} \cup Executed(call)

RelayDelegateAction(call) == IF call.form = "numbers" THEN {"not ok"} \cup Executed(call) ELSE {"not ok"}

RelayCreateAccount(call) == {"not ok"} \cup Executed(call)

RelayAnswersOf(call) ==
  CASE call.kind = "transaction" -> RelayTransaction(call)
    [] call.kind = "delegate" -> RelayDelegateAction(call)
    [] OTHER -> RelayCreateAccount(call)

\* FastAuthSignature.recover.
RecoverEd25519(payload) == "rs"
RecoverSecp256k1(payload) == IF payload = "point" THEN "rsv" ELSE "throws"
RecoverSignature(payload, curve) == IF curve = "ed25519" THEN RecoverEd25519(payload) ELSE RecoverSecp256k1(payload)

KeyTypeOf(algorithm) == IF algorithm = "eddsa" THEN "ed25519" ELSE "secp256k1"

SignatureData(payload, algorithm) == RecoverSignature(payload, KeyTypeOf(algorithm))

\* A delegate action and a new account are answered as they are, failed or not;
\* a transaction needs the SuccessValue and is sent with it.
RelayAnswers(c, answer) ==
  /\ signing[c].stage = "relaying" /\ answer \in RelayAnswersOf(signing[c])
  /\ IF answer = "not ok" THEN Fail(c)
     ELSE IF signing[c].kind # "transaction" THEN Quietly(c, [signing[c] EXCEPT !.stage = "done"])
     ELSE IF answer = "Failure" \/ SignatureData(answer, signing[c].algorithm) = "throws" THEN Fail(c)
     ELSE Quietly(c, [signing[c] EXCEPT !.stage = "sending", !.data = SignatureData(answer, signing[c].algorithm)])

\* The chain takes a transaction with the signature of its sender's key, in the
\* form of the key's type; the node may also fail.
SendEnds(c, ok) ==
  /\ signing[c].stage = "sending"
  /\ ok => /\ signing[c].request = [user |-> signing[c].path, op |-> <<c, "transaction">>]
           /\ signing[c].data = (IF KeyTypeOf(signing[c].algorithm) = "ed25519" THEN "rs" ELSE "rsv")
  /\ Quietly(c, [signing[c] EXCEPT !.stage = IF ok THEN "done" ELSE "failed"])

\* viewFunction or its node fails.
ViewFails(c) == signing[c].stage = "viewing" /\ Fail(c)

CallGoesOn(c) ==
  \/ Rethrow(c) \/ SignerInit(c) \/ SignerReady(c) \/ GetSignatureRequest(c) \/ Relay(c)
  \/ GetPublicKey(c) \/ ViewFails(c) \/ SendEnds(c, TRUE) \/ SendEnds(c, FALSE)
  \/ \E a \in {"not ok", "Failure", "bytes", "point"} : RelayAnswers(c, a)

\* The provider goes on by itself, or the app uses it through the client.
ProviderGoesOn(o) == ProviderStep(o) /\ signing' = Noticing(signing)
AppStarts(o, kind) == Start(o, kind) /\ signing' = Noticing(signing)
ListenerRuns == OnAuthStateChanged /\ UNCHANGED signing
Unloads == PageUnloads /\ signing' = Noticing(signing)

SdkNext ==
  /\ \/ \E c \in CallId : \/ GetSigner(c) \/ CallGoesOn(c)
                          \/ \E algorithm \in MpcAlgorithms : UseSigner(c, algorithm)
     \/ \E o \in Op : ProviderGoesOn(o)
     \/ \E o \in AppOp, kind \in OpKinds : AppStarts(o, kind)
     \/ ListenerRuns \/ Unloads
  /\ UNCHANGED provider

\* Users answer, tokens are exchanged and the services answer, one way or other.
SdkFairness ==
  /\ \A c \in CallId : WF_sdkVars(CallGoesOn(c) /\ UNCHANGED provider)
  /\ \A o \in Op : WF_sdkVars(ProviderGoesOn(o) /\ UNCHANGED provider)

SdkSpec == SdkInit /\ [][SdkNext]_sdkVars /\ SdkFairness

------------------------------------------------------------------------------
\* The approval was asked for with a redirect, and the page is still there.
ByRedirect(c) == op[<<c, signing[c].kind>>].token # NoRequest

\* A call that nothing overlapped relays the request that it had approved itself,
\* with Firebase for the user its signer is for (signer.ts:131-136, 154-159). Only a
\* call that asks with a redirect relays what was approved before, if the page is
\* still there: its own request comes with the next page.
RelaysItsOwn ==
  \A c \in CallId : signing[c].request # NoRequest /\ signing[c].alone =>
    /\ signing[c].request.op = <<c, signing[c].kind>> <=> ~ByRedirect(c)
    /\ provider = "firebase" => signing[c].request.user = signing[c].path

\* A call that was started ends, by itself or with its page, whatever the
\* provider, the relayer and the node answer (signer.ts:131-163, client.ts:56-64).
CallsEnd == \A c \in CallId : Going(signing[c]) ~> ~Going(signing[c]) \/ signing[c].stage = "signer"
=============================================================================
