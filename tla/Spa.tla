--------------------------------- MODULE Spa ---------------------------------
(***************************************************************************)
(* The example application (examples/spa) over the browser SDK: choosing a *)
(* provider makes a relayer and a client, the client gives a signer, and   *)
(* the five steps of the page create or choose an account, request a       *)
(* transaction's signature, have the relayer ask the contract for it and   *)
(* broadcast the transaction. Each is a task of asynchronous calls; what   *)
(* locks a step is the state that disables its button. Effects run after a *)
(* render and start tasks of their own. Nothing cancels a task.            *)
(***************************************************************************)
EXTENDS Integers, Sequences, FiniteSets, Functions

CONSTANTS
  Slot,         \* tasks that may be under way together (a bound)
  ProviderType, \* the sequence of provider types that the user chooses
  SignResults,  \* what the relayer's transaction may come to
  MaxRequests   \* how many signature requests there may be (a bound)

\* A failed execution, or the MPC contract's signature: bytes or a point.
Results == {"Failure", "bytes", "point"}

ASSUME SpaAssumption ==
  /\ ProviderType \in Seq({"auth0", "firebase"}) /\ ProviderType # <<>> /\ MaxRequests \in Nat
  /\ SignResults \subseteq Results

VARIABLES
  chosen,   \* the index of the chosen provider type
  made,     \* the index that the client was made for, 0 for none
  auth,     \* useAuth: whether authenticated, and the client the signer is of
  account,  \* useAccountManager: nothing, created or selected
  keys,     \* useAccessKeys: no accounts, loading, or some accounts
  tx,       \* useTransactionSigner: signatureRequest and signature (numbers of requests), and
            \* what that signature is
  step,     \* expandedStep
  busy,     \* the flags that disable buttons: isLoading, isCreating, isRequesting, isSigning, isSending
  effects,  \* effects to run after the render
  task,     \* the tasks
  spaRaced     \* history: whether an initialisation or a login has overlapped another one

spaVars == <<chosen, made, auth, account, keys, tx, step, busy, effects, task, spaRaced>>

\* The calls that the methods of the browser SDK's client and signer await,
InitSignerCalls == <<"getPath">>
GetSignerCalls == <<"isLoggedIn">> \o InitSignerCalls
LoginCalls == <<"login">>
LogoutCalls == <<"logout">>
ViewFunctionCalls == <<"query">>
GetPublicKeyCalls == ViewFunctionCalls
CreateAccountActionCalls == GetPublicKeyCalls
RequestSignatureCalls == <<"approve">>
GetSignatureRequestCalls == <<"get">>
CreateSignActionCalls == <<>>
SendTransactionCalls == <<"send">>
\* those of the page's relayer,
RelayerInitCalls == <<"setKey", "connect">>
RelayerCreateAccountCalls == <<"access key", "send">>
CreateTransferCalls == <<"access key">>
RelaySignActionCalls == <<"access key", "send">>
AccountIdsCalls == <<"account ids">>

\* and, of these, the calls of each task.
AskSignerCalls == GetSignerCalls \o GetPublicKeyCalls
RequestCalls == CreateTransferCalls \o RequestSignatureCalls \o GetSignatureRequestCalls
CallsOf == [init |-> RelayerInitCalls, auth |-> AskSignerCalls, login |-> LoginCalls \o AskSignerCalls,
            again |-> AskSignerCalls, logout |-> LogoutCalls, keys |-> AccountIdsCalls \o <<"access keys">>,
            create |-> CreateAccountActionCalls \o RelayerCreateAccountCalls, pending |-> GetSignatureRequestCalls,
            request |-> RequestCalls, sign |-> CreateSignActionCalls \o RelaySignActionCalls,
            send |-> SendTransactionCalls]

\* What is locked by a flag while it runs.
Locking == {"login", "again", "logout", "create", "request", "sign", "send"}
Logins == {"auth", "login", "again"}  \* they set the same state

NoTask == [kind |-> "none", from |-> 0, request |-> 0, signature |-> 0, result |-> "none"]

SpaInit ==
  /\ chosen = 1 /\ made = 0
  /\ auth = [authenticated |-> FALSE, signer |-> 0]
  /\ account = "none" /\ keys = "none"
  /\ tx = [request |-> 0, signature |-> 0, result |-> "none"]
  /\ step = 0 /\ busy = {} /\ effects = {"init"}
  /\ task = [s \in Slot |-> NoTask] /\ spaRaced = FALSE

Running(kinds) == {s \in Slot : task[s].kind \in kinds}

BeginTask(s, kind, from) ==
  /\ task[s] = NoTask
  /\ task' = [task EXCEPT ![s] = [kind |-> kind, from |-> from,
                    request |-> IF kind \in {"sign", "send"} THEN tx.request ELSE 0,
                    signature |-> IF kind = "send" THEN tx.signature ELSE 0,
                    result |-> IF kind = "send" THEN tx.result ELSE "none"]]
  /\ spaRaced' = (spaRaced \/ (kind \in Logins /\ Running(Logins) # {}))
  /\ busy' = IF kind \in Locking THEN busy \cup {kind} ELSE busy

FinishTask(s) == task' = [task EXCEPT ![s] = NoTask]
\* Mutant: the flag is cleared only on success.
KeepTheLock(s) == busy
Unlocked(s) == busy \ {task[s].kind}
Release(s) == busy' = Unlocked(s)

\* The last of a task's calls is answered.
Ending(s, kind) == task[s].kind = kind

\* The effect of CreateAccountStep: the step is opened, or has another key.
KeysEffect(nextAuth, nextStep) ==
  IF nextAuth.authenticated /\ nextStep = 1 /\ (step # 1 \/ nextAuth # auth) THEN {"keys"} ELSE {}

GoTo(nextStep) == step' = nextStep /\ effects' = effects \cup KeysEffect(auth, nextStep)

------------------------------------------------------------------------------
(* The context: the relayer and the client.                                  *)

Choose ==
  /\ ~auth.authenticated /\ busy \cap Logins = {} /\ chosen < Len(ProviderType)
  /\ chosen' = chosen + 1 /\ effects' = effects \cup {"init"}
  /\ spaRaced' = (spaRaced \/ Running({"init"}) # {})
  /\ UNCHANGED <<made, auth, account, keys, tx, step, busy, task>>

\* Mutant: the effect of useAuth runs for the first client only.
FirstClientOnly == IF made = 0 THEN {"auth"} ELSE {}

NewClientEffects == {"auth"}

\* initializeRelayer ends: a new client, for the type that was chosen when it began.
InitEnds(s) ==
  /\ Ending(s, "init") /\ FinishTask(s)
  /\ made' = task[s].from /\ effects' = effects \cup NewClientEffects
  /\ spaRaced' = (spaRaced \/ Running(Logins) # {})
  /\ UNCHANGED <<chosen, auth, account, keys, tx, step, busy>>

------------------------------------------------------------------------------
(* useAuth.                                                                  *)

\* The login button, and the button of a logged-in user, which only asks again.
CanLogin == made # 0 /\ busy \cap Logins = {}

LoginClick(s) ==
  /\ CanLogin
  /\ BeginTask(s, IF auth.authenticated THEN "again" ELSE "login", made)
  /\ UNCHANGED <<chosen, made, auth, account, keys, tx, step, effects>>

SetAuth(nextAuth) ==
  LET nextStep == IF nextAuth.authenticated /\ step = 0 THEN 1 ELSE step
  IN /\ auth' = nextAuth /\ step' = nextStep
     /\ effects' = effects \cup KeysEffect(nextAuth, nextStep) \cup (IF nextAuth.signer # 0 THEN {"pending"} ELSE {})

LoggedIn(s) ==
  /\ \E kind \in Logins : Ending(s, kind)
  /\ SetAuth([authenticated |-> TRUE, signer |-> task[s].from])
  /\ Release(s) /\ FinishTask(s) /\ UNCHANGED <<chosen, made, account, keys, tx, spaRaced>>

\* A logout that is done leaves the page as it is.
CanLogout == auth.authenticated /\ "logout" \notin busy

LogoutClick(s) ==
  /\ CanLogout /\ BeginTask(s, "logout", made)
  /\ UNCHANGED <<chosen, made, auth, account, keys, tx, step, effects>>

LoggedOut(s) ==
  /\ Ending(s, "logout")
  /\ Release(s) /\ FinishTask(s) /\ UNCHANGED <<chosen, made, auth, account, keys, tx, step, effects, spaRaced>>

------------------------------------------------------------------------------
(* useAccountManager and useAccessKeys.                                      *)

CanCreate == step = 1 /\ "create" \notin busy

CreateClick(s) ==
  /\ CanCreate /\ auth.signer # 0
  /\ BeginTask(s, "create", 0)
  /\ UNCHANGED <<chosen, made, auth, account, keys, tx, step, effects>>

Created(s) ==
  /\ Ending(s, "create")
  /\ account' = "created" /\ GoTo(2)
  /\ Release(s) /\ FinishTask(s) /\ UNCHANGED <<chosen, made, auth, keys, tx, spaRaced>>

\* Use Account, of a list that was loaded and is not empty.
SelectAccount ==
  /\ step = 1 /\ keys = "some"
  /\ account' = "selected" /\ GoTo(2)
  /\ UNCHANGED <<chosen, made, auth, keys, tx, busy, task, spaRaced>>

Skip ==
  /\ CanCreate /\ GoTo(2)
  /\ UNCHANGED <<chosen, made, auth, account, keys, tx, busy, task, spaRaced>>

\* Accounts whose keys cannot be had are left out, the list is complete.
KeysFetched(s) ==
  /\ Ending(s, "keys")
  /\ keys' = "some"
  /\ FinishTask(s) /\ UNCHANGED <<chosen, made, auth, account, tx, step, busy, effects, spaRaced>>

------------------------------------------------------------------------------
(* useTransactionSigner.                                                     *)

CanRequest == step = 2 /\ "request" \notin busy

RequestClick(s) ==
  /\ CanRequest /\ auth.signer # 0
  /\ BeginTask(s, "request", auth.signer)
  /\ UNCHANGED <<chosen, made, auth, account, keys, tx, step, effects>>

\* A request with a signPayload of its own is shown, and its step opened; the
\* JavaScript provider answers with a user and a request in it, which is not.
RequestArrives(s) ==
  /\ Ending(s, "request") \/ Ending(s, "pending")
  /\ IF ProviderType[task[s].from] # "auth0" /\ tx.request < MaxRequests
     THEN tx' = [tx EXCEPT !.request = @ + 1] /\ step' = 3
     ELSE UNCHANGED <<tx, step>>
  /\ Release(s) /\ FinishTask(s) /\ UNCHANGED <<chosen, made, auth, account, keys, effects, spaRaced>>

CanSign == step = 3 /\ tx.request # 0 /\ "sign" \notin busy

SignClick(s) ==
  /\ CanSign /\ auth.signer # 0
  /\ BeginTask(s, "sign", 0)
  /\ UNCHANGED <<chosen, made, auth, account, keys, tx, step, effects>>

\* What the relayer's transaction came to is kept, whatever it was; the first
\* one opens the last step.
Signed(s, result) ==
  /\ Ending(s, "sign")
  /\ tx' = [tx EXCEPT !.signature = task[s].request, !.result = result]
  /\ step' = IF tx.signature = 0 THEN 4 ELSE step
  /\ Release(s) /\ FinishTask(s) /\ UNCHANGED <<chosen, made, auth, account, keys, effects, spaRaced>>

CanSend == step = 4 /\ tx.signature # 0 /\ "send" \notin busy

SendClick(s) ==
  /\ CanSend /\ auth.signer # 0
  /\ BeginTask(s, "send", 0)
  /\ UNCHANGED <<chosen, made, auth, account, keys, tx, step, effects>>

\* FastAuthSignature: an execution that failed has nothing to decode; for its
\* default algorithm recover gives r and s of bytes and of a point alike.
PageDecodes(result) == result # "Failure"
PageRecoversEd25519(payload) == "rs"
PageRecoversSecp256k1(payload) == IF payload = "point" THEN "rsv" ELSE "throws"
PageRecovers(payload, curve) ==
  IF curve = "ed25519" THEN PageRecoversEd25519(payload) ELSE PageRecoversSecp256k1(payload)

\* sendTransaction: the chain takes the transaction if the signature is for it.
Sent(s) ==
  /\ Ending(s, "send") /\ task[s].request = task[s].signature
  /\ PageDecodes(task[s].result) /\ PageRecovers(task[s].result, "ed25519") = "rs"
  /\ Release(s) /\ FinishTask(s) /\ UNCHANGED <<chosen, made, auth, account, keys, tx, step, effects, spaRaced>>

------------------------------------------------------------------------------
\* One of the calls of a task fails: the task ends, its flag is cleared. Without
\* a signer nobody is logged in; a popup that was closed changes nothing;
\* accounts that could not be had are none, their keys are not missed.
TaskFails(s, call) ==
  /\ task[s] # NoTask /\ FinishTask(s) /\ Release(s)
  /\ call \in Range(CallsOf[task[s].kind]) \ {"access keys"}
  /\ IF task[s].kind \in Logins /\ call # "login"
     THEN SetAuth([authenticated |-> FALSE, signer |-> 0])
     ELSE UNCHANGED <<auth, step, effects>>
  /\ keys' = IF task[s].kind = "keys" THEN "none" ELSE keys
  /\ UNCHANGED <<chosen, made, account, tx, spaRaced>>

\* Every call is one of these.
Calls == UNION {Range(CallsOf[kind]) : kind \in DOMAIN CallsOf}

CanToggle(n) ==
  \/ n = 1 /\ auth.authenticated
  \/ n = 2 /\ account # "none"
  \/ n = 3 /\ tx.request # 0
  \/ n = 4 /\ tx.signature # 0

Toggle(n) ==
  /\ CanToggle(n) /\ n # step /\ GoTo(n)
  /\ UNCHANGED <<chosen, made, auth, account, keys, tx, busy, task, spaRaced>>

EffectTask(e) == [init |-> chosen, auth |-> made, pending |-> auth.signer, keys |-> auth.signer][e]

RunEffect(e, s) ==
  /\ e \in effects /\ effects' = effects \ {e}
  /\ IF EffectTask(e) = 0 THEN UNCHANGED <<task, spaRaced, busy, keys>>
     ELSE BeginTask(s, e, EffectTask(e)) /\ keys' = IF e = "keys" THEN "loading" ELSE keys
  /\ UNCHANGED <<chosen, made, auth, account, tx, step>>

TaskGoesOn(s) ==
  \/ InitEnds(s) \/ LoggedIn(s) \/ Created(s) \/ KeysFetched(s)
  \/ LoggedOut(s) \/ RequestArrives(s) \/ Sent(s)
  \/ \E result \in SignResults : Signed(s, result)
  \/ \E call \in Calls : TaskFails(s, call)

UserActs(s) ==
  \/ LoginClick(s) \/ LogoutClick(s) \/ CreateClick(s) \/ RequestClick(s) \/ SignClick(s) \/ SendClick(s)

SpaNext ==
  \/ Choose \/ SelectAccount \/ Skip \/ \E n \in 1 .. 4 : Toggle(n)
  \/ \E s \in Slot : TaskGoesOn(s) \/ UserActs(s) \/ \E e \in {"init", "auth", "pending", "keys"} : RunEffect(e, s)

SpaSpec == SpaInit /\ [][SpaNext]_spaVars

------------------------------------------------------------------------------
\* The page never signs or broadcasts twice at once, however the user clicks and
\* whatever fails, and no button stays disabled (use-transaction-signer.ts:73-135).
LockedWhileRunning ==
  \A k \in Locking : Cardinality(Running({k})) = (IF k \in busy THEN 1 ELSE 0)

\* When nothing is under way whoever is logged in has the
\* signer of that client, unless an initialisation failed, or it or a login
\* has overlapped another one (use-fast-auth-relayer.tsx:77-98, use-auth.ts:15-44).
SettledOnTheChoice ==
  effects = {} /\ (\A s \in Slot : task[s] = NoTask) /\ ~spaRaced =>
    auth.signer \in {0, made}
=============================================================================
