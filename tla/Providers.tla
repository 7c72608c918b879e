----------------------------- MODULE Providers -----------------------------
(***************************************************************************)
(* The three providers (packages/providers): each keeps who is logged in   *)
(* and one signature request, the last one the user approved, until it is  *)
(* asked for. The Firebase provider stores it in the browser, the React    *)
(* Native provider holds it in memory, the JavaScript provider reads it    *)
(* from the token cache of its Auth0 client. Operations are asynchronous:  *)
(* what an operation does between two awaits is one step, the first of     *)
(* them as it is called, and several operations may be under way.          *)
(***************************************************************************)
EXTENDS Integers

CONSTANTS
  Provider,        \* the providers to look at, of the three
  Op,              \* the operations the app makes, each once
  Earlier,         \* an operation of a page that was open before
  User,
  IssuerReadsText, \* the issuer reads a body that does not say it is JSON
  NoUser, NoRequest

ASSUME ProvidersAssumption ==
  /\ Provider \subseteq {"firebase", "javascript", "react native"} /\ IssuerReadsText \in BOOLEAN
  /\ NoUser \notin User /\ Earlier \notin Op
  /\ NoRequest \notin [user : User, op : Op \cup {Earlier}]

VARIABLES
  provider,    \* the one in use
  session,     \* who the identity service's client has logged in
  currentUser, \* FirebaseProvider.currentUser
  request,     \* the store, signingCredentials, or the cached token of the signing audience
  storedAfter, \* history: how many logins had ended when the request was stored
  logins,      \* history: the logins that ended
  callback,    \* code and state in the page's URL; the user and request of the Auth0
               \* transaction they are for, while it is pending
  leaving,     \* {}, or what the page will come back with: a navigation has begun
  op,          \* each operation
  handed       \* history: the signature requests given to the app

providersVars == <<provider, session, currentUser, request, storedAfter, logins, callback, leaving, op, handed>>

\* IFastAuthProvider; the signature is of a transaction or of a delegate action.
OpKinds == {"login", "logout", "transaction", "delegate", "get", "isLoggedIn", "getPath"}
RequestKinds == {"transaction", "delegate"}

SignatureRequests == [user : User, op : Op \cup {Earlier}]
NoCallback == [url |-> FALSE, pending |-> FALSE, user |-> NoUser, request |-> NoRequest]
NewOp == [kind |-> "none", stage |-> "new", user |-> NoUser, token |-> NoRequest]

\* Firebase and React Native restore a session when they start, of which Firebase's
\* listener has yet to tell; the browser's store may hold a request.
ProvidersInit ==
  /\ provider \in Provider
  /\ session \in {NoUser} \cup (IF provider = "javascript" THEN {} ELSE User)
  /\ currentUser = NoUser
  /\ request \in {NoRequest} \cup (IF provider = "firebase" THEN [user : User, op : {Earlier}] ELSE {})
  /\ storedAfter = 0 /\ logins = 0 /\ callback = NoCallback /\ leaving = {}
  /\ op = [o \in Op |-> NewOp] /\ handed = {}

At(o, kind, stage) == op[o].kind = kind /\ op[o].stage = stage

Set(o, stage) == op' = [op EXCEPT ![o].stage = stage]
Answer(o, stage, user) == op' = [op EXCEPT ![o].stage = stage, ![o].user = user]
SetSession(o, stage, user) == session' = user /\ Answer(o, stage, user)
End(o, kind, stage, user, token) ==
  op' = [op EXCEPT ![o] = [kind |-> kind, stage |-> stage, user |-> user, token |-> token]]

SetSignatureRequest(req) == request' = req /\ storedAfter' = logins
ClearStore == request' = NoRequest /\ UNCHANGED storedAfter
KeepStore == UNCHANGED <<request, storedAfter>>

------------------------------------------------------------------------------
(* What happens as the app calls.                                            *)

Hand(o, req) == handed' = handed \cup {[to |-> o, user |-> req.user, op |-> req.op, storedAfter |-> storedAfter, logins |-> logins]}

\* Mutant: what was handed out stays.
HandAndKeep == KeepStore

Consume == ClearStore

TakeRequest(o) ==
  IF request = NoRequest
  THEN End(o, "get", "rejected", NoUser, NoRequest) /\ KeepStore /\ UNCHANGED handed
  ELSE Hand(o, request) /\ Consume /\ End(o, "get", "done", NoUser, request)

FirebaseGetSignatureRequest(o) == provider = "firebase" /\ TakeRequest(o)

ReactNativeGetSignatureRequest(o) == provider = "react native" /\ TakeRequest(o)

FirebaseIsLoggedIn(o) ==
  provider = "firebase" /\ End(o, "isLoggedIn", "done", currentUser, NoRequest) /\ KeepStore /\ UNCHANGED handed

\* Firebase's currentUser is read before the first await.
StartOp(o, kind) ==
  End(o, kind, "started", IF kind \in RequestKinds \cup {"getPath"} THEN currentUser ELSE NoUser, NoRequest)

\* React Native's logout forgets the request at once.
ReactNativeLogout(o) == provider = "react native" /\ ClearStore /\ StartOp(o, "logout") /\ UNCHANGED handed

Awaits(kind) ==
  CASE provider = "firebase" -> kind \notin {"get", "isLoggedIn"}
    [] provider = "react native" -> kind \notin {"get", "logout"}
    [] OTHER -> TRUE

Start(o, kind) ==
  /\ op[o].stage = "new"
  /\ \/ kind = "get" /\ (FirebaseGetSignatureRequest(o) \/ ReactNativeGetSignatureRequest(o))
     \/ kind = "isLoggedIn" /\ FirebaseIsLoggedIn(o)
     \/ kind = "logout" /\ ReactNativeLogout(o)
     \/ Awaits(kind) /\ StartOp(o, kind) /\ KeepStore /\ UNCHANGED handed
  /\ UNCHANGED <<session, currentUser, logins, callback, leaving>>

\* A popup is closed, a request fails, a token cannot be had: the promise rejects.
Reject(o) ==
  /\ \/ op[o].kind \in {"login", "getPath"} \cup RequestKinds /\ op[o].stage = "started"
     \/ At(o, "get", "started") \/ At(o, "login", "authorized")
  /\ Set(o, "rejected")
  /\ UNCHANGED <<session, currentUser, request, storedAfter, logins, callback, leaving, handed>>

------------------------------------------------------------------------------
(* Firebase.                                                                 *)

\* The listener of Firebase's auth state, which the constructor sets up.
OnAuthStateChanged ==
  /\ provider = "firebase" /\ currentUser # session
  /\ currentUser' = session
  /\ UNCHANGED <<session, request, storedAfter, logins, callback, leaving, op, handed>>

\* Mutant: the request of the previous user stays.
KeepTheRequest == KeepStore

ClearAtLogin == ClearStore

FirebaseLogin(o, user) ==
  /\ provider = "firebase" /\ At(o, "login", "started")
  /\ SetSession(o, "done", user) /\ currentUser' = user
  /\ logins' = logins + 1 /\ ClearAtLogin
  /\ UNCHANGED <<callback, leaving, handed>>

FirebaseSignOut(o) ==
  /\ provider = "firebase" /\ At(o, "logout", "started")
  /\ SetSession(o, "signed out", NoUser)
  /\ UNCHANGED <<currentUser, request, storedAfter, logins, callback, leaving, handed>>

ForgetUser(o) ==
  /\ At(o, "logout", "signed out")
  /\ currentUser' = NoUser /\ Set(o, "done")
  /\ UNCHANGED <<session, request, storedAfter, logins, callback, leaving, handed>>

\* The token of whoever was the user at the start arrives.
FirebaseGetPath(o) ==
  /\ provider = "firebase" /\ At(o, "getPath", "started")
  /\ Set(o, IF op[o].user = NoUser THEN "rejected" ELSE "done")
  /\ UNCHANGED <<session, currentUser, request, storedAfter, logins, callback, leaving, handed>>

\* The issuer's token for the user there was at the start; an issuer refuses to
\* answer without a user.
IssuerAnswers(o) ==
  /\ provider = "firebase" /\ op[o].user # NoUser
  /\ SetSignatureRequest([user |-> op[o].user, op |-> o]) /\ Set(o, "done")
  /\ UNCHANGED <<session, currentUser, logins, callback, leaving, handed>>

FirebaseRequestTransaction(o) == At(o, "transaction", "started") /\ IssuerAnswers(o)

\* This request does not say that its body is JSON.
FirebaseRequestDelegate(o) == At(o, "delegate", "started") /\ IssuerReadsText /\ IssuerAnswers(o)

------------------------------------------------------------------------------
(* JavaScript. After a popup whoever the user is there is logged in.         *)

LoginWithPopup(o, user) ==
  /\ provider = "javascript" /\ At(o, "login", "started")
  /\ SetSession(o, "getUserId", user)
  /\ logins' = logins + 1
  /\ UNCHANGED <<currentUser, request, storedAfter, callback, leaving, handed>>

PopupApproves(o, user) ==
  /\ provider = "javascript"
  /\ SetSignatureRequest([user |-> user, op |-> o]) /\ SetSession(o, "getUserId", user)
  /\ UNCHANGED <<currentUser, logins, callback, leaving, handed>>

RequestTransactionWithPopup(o, user) == At(o, "transaction", "started") /\ PopupApproves(o, user)

RequestDelegateWithPopup(o, user) == At(o, "delegate", "started") /\ PopupApproves(o, user)

\* loginWithRedirect keeps a new Auth0 transaction in place of the last one and
\* assigns the page's location. It resolves, and as long as the page is there the
\* code after it runs; the page that comes back has a code and a state.
Redirect(o, user, req) ==
  /\ provider = "javascript"
  /\ leaving' = {[url |-> TRUE, pending |-> TRUE, user |-> user, request |-> req]}
  /\ callback' = [callback EXCEPT !.pending = FALSE]
  /\ op' = [op EXCEPT ![o].stage = "getUserId", ![o].token = req]
  /\ UNCHANGED <<session, currentUser, request, storedAfter, logins, handed>>

LoginWithRedirect(o, user) == At(o, "login", "started") /\ Redirect(o, user, NoRequest)

RequestTransactionWithRedirect(o, user) ==
  At(o, "transaction", "started") /\ Redirect(o, user, [user |-> user, op |-> o])

RequestDelegateWithRedirect(o, user) ==
  At(o, "delegate", "started") /\ Redirect(o, user, [user |-> user, op |-> o])

\* The page, its memory and its operations are gone.
PageUnloads ==
  /\ provider = "javascript" /\ \E next \in leaving : callback' = next
  /\ leaving' = {} /\ session' = NoUser /\ ClearStore
  /\ op' = [p \in Op |-> IF op[p].stage = "new" THEN op[p] ELSE [op[p] EXCEPT !.stage = "unloaded"]]
  /\ UNCHANGED <<currentUser, logins, handed>>

\* checkRedirectCallback: handleRedirectCallback takes the transaction; without
\* one it throws.
CheckRedirectCallback(o) ==
  /\ provider = "javascript" /\ At(o, "isLoggedIn", "started") /\ callback.url
  /\ callback' = [callback EXCEPT !.pending = FALSE]
  /\ leaving' = {[next EXCEPT !.pending = FALSE] : next \in leaving}
  /\ op' = [op EXCEPT ![o].stage = IF callback.pending THEN "exchanging" ELSE "checked",
                      ![o].user = callback.user, ![o].token = callback.request]
  /\ UNCHANGED <<session, currentUser, request, storedAfter, logins, handed>>

\* The code is exchanged, or not; isLoggedIn swallows the failure.
Exchange(o, ok) ==
  /\ At(o, "isLoggedIn", "exchanging") /\ Set(o, "checked")
  /\ session' = IF ok THEN op[o].user ELSE session
  /\ IF ok /\ op[o].token # NoRequest THEN SetSignatureRequest(op[o].token) ELSE KeepStore
  /\ UNCHANGED <<currentUser, logins, callback, leaving, handed>>

JavascriptIsLoggedIn(o) ==
  /\ provider = "javascript"
  /\ At(o, "isLoggedIn", "checked") \/ (At(o, "isLoggedIn", "started") /\ ~callback.url)
  /\ Answer(o, "done", session)
  /\ UNCHANGED <<session, currentUser, request, storedAfter, logins, callback, leaving, handed>>

\* getSignatureRequest: the cached token first, then the user.
GetTokenSilently(o) ==
  /\ provider = "javascript" /\ At(o, "get", "started") /\ request # NoRequest
  /\ op' = [op EXCEPT ![o].stage = "getUserId", ![o].token = request]
  /\ UNCHANGED <<session, currentUser, request, storedAfter, logins, callback, leaving, handed>>

\* getUserId, the end of a login, of a request and of getSignatureRequest.
GetUserId(o) ==
  /\ op[o].stage = "getUserId"
  /\ Answer(o, IF session = NoUser THEN "rejected" ELSE "done", session)
  /\ IF session # NoUser /\ op[o].kind = "get" THEN Hand(o, op[o].token) ELSE UNCHANGED handed
  /\ UNCHANGED <<session, currentUser, request, storedAfter, logins, callback, leaving>>

JavascriptGetPath(o) ==
  /\ provider = "javascript" /\ At(o, "getPath", "started")
  /\ Answer(o, IF session = NoUser THEN "rejected" ELSE "done", session)
  /\ UNCHANGED <<session, currentUser, request, storedAfter, logins, callback, leaving, handed>>

\* Auth0's logout clears the token cache and leaves the page, unless the app says
\* otherwise.
JavascriptLogout(o) ==
  /\ provider = "javascript" /\ At(o, "logout", "started")
  /\ SetSession(o, "done", NoUser) /\ ClearStore /\ leaving' \in {leaving, {NoCallback}}
  /\ UNCHANGED <<currentUser, logins, callback, handed>>

------------------------------------------------------------------------------
(* React Native.                                                             *)

ReactNativeLogin(o, user) ==
  /\ provider = "react native" /\ At(o, "login", "started")
  /\ Answer(o, "authorized", user)
  /\ UNCHANGED <<session, currentUser, request, storedAfter, logins, callback, leaving, handed>>

SaveCredentials(o) ==
  /\ At(o, "login", "authorized")
  /\ session' = op[o].user /\ Set(o, "done")
  /\ logins' = logins + 1
  /\ UNCHANGED <<currentUser, request, storedAfter, callback, leaving, handed>>

\* clearSession, and clearCredentials even when it fails.
ClearCredentials(o, fails) ==
  /\ provider = "react native" /\ At(o, "logout", "started")
  /\ SetSession(o, IF fails THEN "rejected" ELSE "done", NoUser)
  /\ UNCHANGED <<currentUser, request, storedAfter, logins, callback, leaving, handed>>

\* The session's credentials are not touched.
AuthorizeApproves(o, user) ==
  /\ provider = "react native"
  /\ SetSignatureRequest([user |-> user, op |-> o]) /\ Answer(o, "done", user)
  /\ UNCHANGED <<session, currentUser, logins, callback, leaving, handed>>

ReactNativeRequestTransaction(o, user) == At(o, "transaction", "started") /\ AuthorizeApproves(o, user)

ReactNativeRequestDelegate(o, user) == At(o, "delegate", "started") /\ AuthorizeApproves(o, user)

\* Credentials that cannot be read are nobody's.
ReactNativeIsLoggedIn(o) ==
  /\ provider = "react native" /\ At(o, "isLoggedIn", "started")
  /\ \E user \in {session, NoUser} : Answer(o, "done", user)
  /\ UNCHANGED <<session, currentUser, request, storedAfter, logins, callback, leaving, handed>>

ReactNativeGetPath(o) ==
  /\ provider = "react native" /\ At(o, "getPath", "started")
  /\ Answer(o, IF session = NoUser THEN "rejected" ELSE "done", session)
  /\ UNCHANGED <<session, currentUser, request, storedAfter, logins, callback, leaving, handed>>

------------------------------------------------------------------------------
FirebaseStep(o) ==
  \/ FirebaseSignOut(o) \/ ForgetUser(o) \/ FirebaseGetPath(o)
  \/ FirebaseRequestTransaction(o) \/ FirebaseRequestDelegate(o)
  \/ \E u \in User : FirebaseLogin(o, u)

JavascriptStep(o) ==
  \/ CheckRedirectCallback(o) \/ Exchange(o, TRUE) \/ Exchange(o, FALSE) \/ JavascriptIsLoggedIn(o)
  \/ GetTokenSilently(o) \/ GetUserId(o) \/ JavascriptGetPath(o) \/ JavascriptLogout(o)
  \/ \E u \in User : \/ LoginWithPopup(o, u) \/ LoginWithRedirect(o, u)
                     \/ RequestTransactionWithPopup(o, u) \/ RequestTransactionWithRedirect(o, u)
                     \/ RequestDelegateWithPopup(o, u) \/ RequestDelegateWithRedirect(o, u)

ReactNativeStep(o) ==
  \/ SaveCredentials(o) \/ ClearCredentials(o, TRUE) \/ ClearCredentials(o, FALSE)
  \/ ReactNativeIsLoggedIn(o) \/ ReactNativeGetPath(o)
  \/ \E u \in User : ReactNativeLogin(o, u) \/ ReactNativeRequestTransaction(o, u) \/ ReactNativeRequestDelegate(o, u)

ProviderStep(o) == Reject(o) \/ FirebaseStep(o) \/ JavascriptStep(o) \/ ReactNativeStep(o)

ProvidersNext ==
  /\ \/ OnAuthStateChanged \/ PageUnloads
     \/ \E o \in Op : (\E kind \in OpKinds : Start(o, kind)) \/ ProviderStep(o)
  /\ UNCHANGED provider

ProvidersSpec == ProvidersInit /\ [][ProvidersNext]_providersVars

------------------------------------------------------------------------------
\* A signature request is handed out once, whoever asks for it and however the
\* requests and the questions overlap (firebase provider.ts:161-169,
\* react-native provider.ts:185-206).
HandedOnce ==
  provider # "javascript" => \A g, h \in handed : g.op = h.op => g.to = h.to

\* Firebase: a request stored before somebody logged in is never handed out
\* after it (firebase provider.ts:70-72).
NotAcrossLogins == provider = "firebase" => \A h \in handed : h.storedAfter = h.logins
=============================================================================
