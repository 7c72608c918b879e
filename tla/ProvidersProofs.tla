---------------------------- MODULE ProvidersProofs ----------------------------
(***************************************************************************)
(* Proofs about the providers that keep the signature request themselves,  *)
(* Firebase and React Native, for any operations and users, and about the  *)
(* calls of the React SDK over any of the three.                           *)
(***************************************************************************)
EXTENDS Sdk, TLAPS

Users == User \cup {NoUser}
Stages == {"new", "started", "authorized", "signed out", "done", "rejected"}
Ops == [kind : OpKinds \cup {"none"}, stage : Stages, user : Users, token : SignatureRequests \cup {NoRequest}]

\* Its promise has resolved with a request that the user approved, or had resolved
\* before the page was there.
Approved(o) == o = Earlier \/ (op[o].kind \in RequestKinds /\ op[o].stage = "done")
Sources == Op \cup {Earlier}

\* What is stored was approved by an operation that ended, and was not handed out;
\* Firebase stored it since the last login.
Kept ==
  /\ session \in Users /\ currentUser \in Users /\ request \in SignatureRequests \cup {NoRequest}
  /\ op \in [Op -> Ops]
  /\ provider = "firebase" => \A o \in Op : op[o].stage # "authorized"
  /\ request # NoRequest =>
       /\ Approved(request.op) /\ \A h \in handed : h.op # request.op
       /\ provider = "firebase" => storedAfter = logins
  /\ \A h \in handed : h.op \in Sources /\ Approved(h.op)
  /\ HandedOnce /\ NotAcrossLogins

KeptInv == provider # "javascript" => Kept

LEMMA InitKept == ProvidersInit => KeptInv
<1> SUFFICES ASSUME ProvidersInit, provider # "javascript" PROVE Kept
  BY DEF KeptInv
<1>1. NewOp \in Ops /\ NewOp.stage = "new"
  BY DEF NewOp, Ops, OpKinds, Stages, Users
<1>2. op \in [Op -> Ops] /\ \A o \in Op : op[o].stage # "authorized"
  BY <1>1 DEF ProvidersInit
<1>3. session \in Users /\ currentUser \in Users /\ handed = {} /\ storedAfter = logins
  BY DEF ProvidersInit, Users
<1>4. request = NoRequest \/ (request \in SignatureRequests /\ request.op = Earlier)
  BY DEF ProvidersInit, SignatureRequests
<1> QED
  BY <1>2, <1>3, <1>4 DEF Approved, Kept, HandedOnce, NotAcrossLogins

\* An operation that goes on without storing a request or handing one out: what
\* is stored stays or goes, and goes when somebody logs in.
LEMMA GoesOn ==
  ASSUME Kept, NEW o \in Op, NEW call \in Ops, op' = [op EXCEPT ![o] = call], op[o].stage # "done",
         provider = "firebase" => call.stage # "authorized",
         session' \in Users, currentUser' \in Users,
         request' \in {request, NoRequest}, UNCHANGED <<provider, storedAfter, handed>>,
         provider = "firebase" => logins' = logins \/ request' = NoRequest
  PROVE  Kept'
<1>1. op' \in [Op -> Ops] /\ \A p \in Op : p # o => op'[p] = op[p]
  BY DEF Kept
<1>2. op'[o] = call
  BY DEF Kept
<1>3. \A p \in Sources : Approved(p) => Approved(p)'
  BY <1>1 DEF Approved, Sources
<1>4. provider = "firebase" => \A p \in Op : op'[p].stage # "authorized"
  BY <1>1, <1>2 DEF Kept
<1>5. request # NoRequest => request.op \in Sources
  BY DEF Kept, SignatureRequests, Sources
<1>6. HandedOnce' /\ NotAcrossLogins'
  BY DEF Kept, HandedOnce, NotAcrossLogins
<1>7. request' # NoRequest => Approved(request.op)' /\ (\A h \in handed' : h.op # request'.op)
                              /\ (provider' = "firebase" => storedAfter' = logins')
  BY <1>3, <1>5 DEF Kept, Approved
<1>8. \A h \in handed' : h.op \in Sources /\ Approved(h.op)'
  BY <1>3 DEF Kept
<1>9. request' \in SignatureRequests \cup {NoRequest}
  BY DEF Kept
<1> QED
  BY <1>1, <1>4, <1>6, <1>7, <1>8, <1>9 DEF Kept, Approved

\* An operation whose user approved stores its request: nothing of an operation
\* that had not ended was handed out.
LEMMA Stores ==
  ASSUME Kept, NEW o \in Op, NEW user \in User, NEW call \in Ops, op' = [op EXCEPT ![o] = call],
         op[o].kind \in RequestKinds, op[o].stage = "started",
         call.kind = op[o].kind, call.stage = "done",
         SetSignatureRequest([user |-> user, op |-> o]),
         UNCHANGED <<provider, session, currentUser, logins, handed>>
  PROVE  Kept'
<1>1. op' \in [Op -> Ops] /\ op'[o] = call /\ \A p \in Op : p # o => op'[p] = op[p]
  BY DEF Kept
<1>2. \A p \in Sources : Approved(p) => Approved(p)'
  BY <1>1 DEF Approved, Sources
<1>3. request' = [user |-> user, op |-> o] /\ request'.op = o /\ storedAfter' = logins
  BY DEF SetSignatureRequest
<1>4. Approved(o)' /\ ~Approved(o)
  BY <1>1, ProvidersAssumption DEF Approved
<1>5. \A h \in handed' : h.op \in Sources /\ Approved(h.op)' /\ h.op # o
  BY <1>2, <1>4 DEF Kept
<1>6. request' \in SignatureRequests
  BY <1>3 DEF SignatureRequests
<1>7. provider = "firebase" => \A p \in Op : op'[p].stage # "authorized"
  BY <1>1 DEF Kept
<1>8. HandedOnce' /\ NotAcrossLogins'
  BY DEF Kept, HandedOnce, NotAcrossLogins
<1>9. Approved(request.op)'
  BY <1>3, <1>4 DEF Approved
<1> QED
  BY <1>1, <1>3, <1>5, <1>6, <1>7, <1>8, <1>9 DEF Kept, Approved

\* What is handed out leaves the store.
LEMMA Takes ==
  ASSUME Kept, NEW o \in Op, op[o].stage = "new", TakeRequest(o),
         UNCHANGED <<provider, session, currentUser, logins, callback>>
  PROVE  Kept'
<1> DEFINE new == [to |-> o, user |-> request.user, op |-> request.op, storedAfter |-> storedAfter, logins |-> logins]
<1>1. CASE request = NoRequest
  <2> DEFINE call == [kind |-> "get", stage |-> "rejected", user |-> NoUser, token |-> NoRequest]
  <2>1. call \in Ops /\ op' = [op EXCEPT ![o] = call] /\ KeepStore /\ UNCHANGED handed
    BY <1>1 DEF TakeRequest, End, Ops, OpKinds, Stages, Users
  <2>2. call.stage = "rejected"
    OBVIOUS
  <2> HIDE DEF call
  <2> QED
    BY <2>1, <2>2, GoesOn DEF KeepStore, Kept
<1>2. CASE request # NoRequest
  <2> DEFINE call == [kind |-> "get", stage |-> "done", user |-> NoUser, token |-> request]
  <2>1. call \in Ops /\ op' = [op EXCEPT ![o] = call]
    BY <1>2 DEF TakeRequest, End, Ops, OpKinds, Stages, Users, Kept
  <2>2. request' = NoRequest /\ handed' = handed \cup {new} /\ UNCHANGED storedAfter
    BY <1>2 DEF TakeRequest, Hand, Consume, ClearStore
  <2>3. call.stage = "done"
    OBVIOUS
  <2>4. op' \in [Op -> Ops] /\ op'[o] = call /\ \A p \in Op : p # o => op'[p] = op[p]
    BY <2>1 DEF Kept
  <2>5. \A p \in Sources : Approved(p) => Approved(p)'
    BY <2>4 DEF Approved, Sources
  <2>6. new.op = request.op /\ new.op \in Sources /\ Approved(new.op)
        /\ (provider = "firebase" => new.storedAfter = new.logins)
    BY <1>2 DEF Kept, SignatureRequests, Sources
  <2>7. \A h \in handed' : h.op \in Sources /\ Approved(h.op)'
    BY <2>2, <2>5, <2>6 DEF Kept
  <2>8. \A g \in handed : g.op # new.op
    BY <1>2, <2>6 DEF Kept
  <2>9. HandedOnce' /\ NotAcrossLogins'
    <3> HIDE DEF new
    <3> QED
      BY <2>2, <2>6, <2>8 DEF Kept, HandedOnce, NotAcrossLogins
  <2>10. provider = "firebase" => \A p \in Op : op'[p].stage # "authorized"
    BY <2>3, <2>4 DEF Kept
  <2>11. request' \in SignatureRequests \cup {NoRequest} /\ request' = NoRequest
    BY <2>2
  <2> HIDE DEF new, call
  <2> QED
    BY <2>4, <2>7, <2>9, <2>10, <2>11 DEF Kept, Approved
<1> QED
  BY <1>1, <1>2

LEMMA SetOp ==
  ASSUME Kept, NEW o \in Op, NEW stage \in Stages, Set(o, stage)
  PROVE  \E call \in Ops : op' = [op EXCEPT ![o] = call] /\ call.stage = stage /\ call.kind = op[o].kind
<1> DEFINE call == [op[o] EXCEPT !.stage = stage]
<1>1. op[o] \in Ops
  BY DEF Kept
<1>2. call \in Ops /\ call.stage = stage /\ call.kind = op[o].kind
  BY <1>1 DEF Ops
<1>3. op' = [op EXCEPT ![o] = call]
  BY DEF Set
<1> QED
  BY <1>2, <1>3

LEMMA AnswerOp ==
  ASSUME Kept, NEW o \in Op, NEW stage \in Stages, NEW user \in Users, Answer(o, stage, user)
  PROVE  \E call \in Ops : op' = [op EXCEPT ![o] = call] /\ call.stage = stage /\ call.kind = op[o].kind
<1> DEFINE call == [op[o] EXCEPT !.stage = stage, !.user = user]
<1>1. op[o] \in Ops
  BY DEF Kept
<1>2. call \in Ops /\ call.stage = stage /\ call.kind = op[o].kind
  BY <1>1 DEF Ops
<1>3. op' = [op EXCEPT ![o] = call]
  BY <1>1 DEF Answer, Kept
<1> QED
  BY <1>2, <1>3

LEMMA SetGoesOn ==
  ASSUME Kept, NEW o \in Op, NEW stage \in Stages, Set(o, stage), op[o].stage # "done",
         provider = "firebase" => stage # "authorized",
         session' \in Users, currentUser' \in Users,
         request' \in {request, NoRequest}, UNCHANGED <<provider, storedAfter, handed>>,
         provider = "firebase" => logins' = logins \/ request' = NoRequest
  PROVE  Kept'
<1>1. PICK call \in Ops : op' = [op EXCEPT ![o] = call] /\ call.stage = stage
  BY SetOp
<1> QED
  BY <1>1, GoesOn

LEMMA AnswerGoesOn ==
  ASSUME Kept, NEW o \in Op, NEW stage \in Stages, NEW user \in Users, Answer(o, stage, user), op[o].stage # "done",
         provider = "firebase" => stage # "authorized",
         session' \in Users, currentUser' \in Users,
         request' \in {request, NoRequest}, UNCHANGED <<provider, storedAfter, handed>>,
         provider = "firebase" => logins' = logins \/ request' = NoRequest
  PROVE  Kept'
<1>1. PICK call \in Ops : op' = [op EXCEPT ![o] = call] /\ call.stage = stage
  BY AnswerOp
<1> QED
  BY <1>1, GoesOn

LEMMA SetStores ==
  ASSUME Kept, NEW o \in Op, NEW user \in User, Set(o, "done"),
         op[o].kind \in RequestKinds, op[o].stage = "started",
         SetSignatureRequest([user |-> user, op |-> o]),
         UNCHANGED <<provider, session, currentUser, logins, handed>>
  PROVE  Kept'
<1>1. PICK call \in Ops : op' = [op EXCEPT ![o] = call] /\ call.stage = "done" /\ call.kind = op[o].kind
  BY SetOp DEF Stages, Users
<1> QED
  BY <1>1, Stores

LEMMA AnswerStores ==
  ASSUME Kept, NEW o \in Op, NEW user \in User, Answer(o, "done", user),
         op[o].kind \in RequestKinds, op[o].stage = "started",
         SetSignatureRequest([user |-> user, op |-> o]),
         UNCHANGED <<provider, session, currentUser, logins, handed>>
  PROVE  Kept'
<1>1. PICK call \in Ops : op' = [op EXCEPT ![o] = call] /\ call.stage = "done" /\ call.kind = op[o].kind
  BY AnswerOp DEF Stages, Users
<1> QED
  BY <1>1, Stores

-----------------------------------------------------------------------------
(* Every step of a provider that is not the JavaScript one.                *)

\* An operation starts; Firebase looks at its user, React Native's logout
\* forgets the request.
LEMMA Starts ==
  ASSUME Kept, provider # "javascript", UNCHANGED provider, NEW o \in Op, NEW kind \in OpKinds, Start(o, kind)
  PROVE  Kept'
<1>0. op[o].stage = "new" /\ UNCHANGED <<session, currentUser, logins, callback>>
      /\ session' \in Users /\ currentUser' \in Users /\ currentUser \in Users /\ NoUser \in Users
  BY DEF Start, Kept, Users
<1>1. CASE TakeRequest(o)
  BY <1>0, <1>1, Takes
<1>2. CASE FirebaseIsLoggedIn(o)
  <2> DEFINE call == [kind |-> "isLoggedIn", stage |-> "done", user |-> currentUser, token |-> NoRequest]
  <2>1. call \in Ops /\ call.stage = "done" /\ op' = [op EXCEPT ![o] = call] /\ KeepStore /\ UNCHANGED handed
    BY <1>0, <1>2 DEF FirebaseIsLoggedIn, End, Ops, OpKinds, Stages
  <2> HIDE DEF call
  <2> QED
    BY <1>0, <2>1, GoesOn DEF KeepStore
<1>3. CASE StartOp(o, kind) /\ UNCHANGED handed /\ (KeepStore \/ ClearStore)
  <2> DEFINE user == IF kind \in RequestKinds \cup {"getPath"} THEN currentUser ELSE NoUser
  <2> DEFINE call == [kind |-> kind, stage |-> "started", user |-> user, token |-> NoRequest]
  <2>1. user \in Users
    BY <1>0
  <2>2. call \in Ops /\ call.stage = "started"
    BY <2>1 DEF Ops, Stages
  <2>3. op' = [op EXCEPT ![o] = call]
    BY <1>3 DEF StartOp, End
  <2>4. request' \in {request, NoRequest} /\ UNCHANGED storedAfter
    BY <1>3 DEF KeepStore, ClearStore
  <2> HIDE DEF call, user
  <2> QED
    BY <1>0, <1>3, <2>2, <2>3, <2>4, GoesOn
<1>4. kind = "logout" /\ ReactNativeLogout(o) => StartOp(o, kind) /\ UNCHANGED handed /\ ClearStore
  BY DEF ReactNativeLogout
<1> QED
  BY <1>1, <1>2, <1>3, <1>4
  DEF Start, FirebaseGetSignatureRequest, ReactNativeGetSignatureRequest

\* The steps that answer or reject and touch no request.
LEMMA Answers ==
  ASSUME Kept, provider # "javascript", UNCHANGED provider, NEW o \in Op,
         \/ Reject(o) \/ FirebaseSignOut(o) \/ ForgetUser(o) \/ FirebaseGetPath(o)
         \/ ReactNativeIsLoggedIn(o) \/ ReactNativeGetPath(o) \/ SaveCredentials(o)
         \/ ClearCredentials(o, TRUE) \/ ClearCredentials(o, FALSE)
         \/ \E u \in User : ReactNativeLogin(o, u)
  PROVE  Kept'
<1>0. session \in Users /\ currentUser \in Users /\ NoUser \in Users /\ op[o] \in Ops /\ op[o].user \in Users
  BY DEF Kept, Users, Ops
<1>1. CASE Reject(o)
  <2>1. Set(o, "rejected") /\ op[o].stage # "done" /\ UNCHANGED <<session, currentUser, request, storedAfter, logins, handed>>
    BY <1>1 DEF Reject, At
  <2> QED
    BY <1>0, <2>1, SetGoesOn DEF Stages
<1>2. CASE FirebaseSignOut(o)
  <2>1. /\ Answer(o, "signed out", NoUser) /\ session' = NoUser /\ op[o].stage # "done"
        /\ UNCHANGED <<currentUser, request, storedAfter, logins, handed>>
    BY <1>2 DEF FirebaseSignOut, SetSession, At
  <2> QED
    BY <1>0, <2>1, AnswerGoesOn DEF Stages
<1>3. CASE ForgetUser(o)
  <2>1. /\ Set(o, "done") /\ currentUser' = NoUser /\ op[o].stage # "done"
        /\ UNCHANGED <<session, request, storedAfter, logins, handed>>
    BY <1>3 DEF ForgetUser, At
  <2> QED
    BY <1>0, <2>1, SetGoesOn DEF Stages
<1>4. CASE FirebaseGetPath(o)
  <2>1. /\ Set(o, "done") \/ Set(o, "rejected")
        /\ op[o].stage # "done" /\ UNCHANGED <<session, currentUser, request, storedAfter, logins, handed>>
    BY <1>4 DEF FirebaseGetPath, At
  <2> QED
    BY <1>0, <2>1, SetGoesOn DEF Stages
<1>5. CASE ReactNativeIsLoggedIn(o) \/ ReactNativeGetPath(o)
  <2>1. /\ \E user \in {session, NoUser} : Answer(o, "done", user) \/ Answer(o, "rejected", user)
        /\ op[o].stage # "done" /\ UNCHANGED <<session, currentUser, request, storedAfter, logins, handed>>
    BY <1>5 DEF ReactNativeIsLoggedIn, ReactNativeGetPath, At
  <2> QED
    BY <1>0, <2>1, AnswerGoesOn DEF Stages
<1>6. CASE SaveCredentials(o)
  <2>1. /\ Set(o, "done") /\ session' = op[o].user /\ op[o].stage = "authorized"
        /\ UNCHANGED <<currentUser, request, storedAfter, handed>>
    BY <1>6 DEF SaveCredentials, At
  <2>2. provider # "firebase"
    BY <2>1 DEF Kept
  <2> QED
    BY <1>0, <2>1, <2>2, SetGoesOn DEF Stages
<1>7. CASE ClearCredentials(o, TRUE) \/ ClearCredentials(o, FALSE)
  <2>1. /\ Answer(o, "done", NoUser) \/ Answer(o, "rejected", NoUser)
        /\ session' = NoUser /\ op[o].stage # "done"
        /\ UNCHANGED <<currentUser, request, storedAfter, logins, handed>>
    BY <1>7 DEF ClearCredentials, SetSession, At
  <2> QED
    BY <1>0, <2>1, AnswerGoesOn DEF Stages
<1>8. ASSUME NEW u \in User, ReactNativeLogin(o, u) PROVE Kept'
  <2>1. /\ Answer(o, "authorized", u) /\ op[o].stage # "done" /\ provider # "firebase" /\ u \in Users
        /\ UNCHANGED <<session, currentUser, request, storedAfter, logins, handed>>
    BY <1>8 DEF ReactNativeLogin, At, Users
  <2> QED
    BY <1>0, <2>1, AnswerGoesOn DEF Stages
<1> QED
  BY <1>1, <1>2, <1>3, <1>4, <1>5, <1>6, <1>7, <1>8

\* A login clears Firebase's store.
LEMMA LogsIn ==
  ASSUME Kept, UNCHANGED provider, NEW o \in Op, NEW user \in User, FirebaseLogin(o, user)
  PROVE  Kept'
<1>1. /\ Answer(o, "done", user) /\ session' = user /\ currentUser' = user /\ user \in Users
      /\ op[o].stage # "done" /\ request' = NoRequest /\ UNCHANGED <<storedAfter, handed>>
  BY DEF FirebaseLogin, SetSession, At, ClearAtLogin, ClearStore, Users
<1> QED
  BY <1>1, AnswerGoesOn DEF Stages

\* The issuer or the user approves.
LEMMA Approves ==
  ASSUME Kept, UNCHANGED provider, NEW o \in Op,
         \/ FirebaseRequestTransaction(o) \/ FirebaseRequestDelegate(o)
         \/ \E u \in User : ReactNativeRequestTransaction(o, u) \/ ReactNativeRequestDelegate(o, u)
  PROVE  Kept'
<1>0. op[o] \in Ops /\ op[o].user \in Users
  BY DEF Kept, Ops
<1>1. op[o].kind \in RequestKinds /\ op[o].stage = "started"
  BY DEF FirebaseRequestTransaction, FirebaseRequestDelegate, ReactNativeRequestTransaction,
         ReactNativeRequestDelegate, At, RequestKinds
<1>2. CASE IssuerAnswers(o)
  <2>1. /\ op[o].user \in User /\ SetSignatureRequest([user |-> op[o].user, op |-> o]) /\ Set(o, "done")
        /\ UNCHANGED <<session, currentUser, logins, handed>>
    BY <1>0, <1>2 DEF IssuerAnswers, Users
  <2> QED
    BY <1>1, <2>1, SetStores
<1>3. ASSUME NEW u \in User, AuthorizeApproves(o, u) PROVE Kept'
  <2>1. /\ SetSignatureRequest([user |-> u, op |-> o]) /\ Answer(o, "done", u) /\ u \in Users
        /\ UNCHANGED <<session, currentUser, logins, handed>>
    BY <1>3 DEF AuthorizeApproves, Users
  <2> QED
    BY <1>1, <2>1, AnswerStores
<1> QED
  BY <1>2, <1>3
  DEF FirebaseRequestTransaction, FirebaseRequestDelegate, ReactNativeRequestTransaction, ReactNativeRequestDelegate

\* The JavaScript provider's steps are not taken by the others.
LEMMA NotJavascript == ASSUME Kept, provider # "javascript", NEW o \in Op PROVE ~JavascriptStep(o)
<1>1. op[o].stage \in Stages
  BY DEF Kept, Ops
<1> QED
  BY <1>1 DEF Stages, At, JavascriptStep, CheckRedirectCallback, Exchange, JavascriptIsLoggedIn,
     GetTokenSilently, GetUserId, JavascriptGetPath, JavascriptLogout, LoginWithPopup,
     LoginWithRedirect, RequestTransactionWithPopup, RequestTransactionWithRedirect,
     RequestDelegateWithPopup, RequestDelegateWithRedirect, PopupApproves, Redirect

LEMMA NextKept == KeptInv /\ [ProvidersNext]_providersVars => KeptInv'
<1> SUFFICES ASSUME KeptInv, [ProvidersNext]_providersVars, provider' # "javascript" PROVE Kept'
  BY DEF KeptInv
<1>0. provider # "javascript" /\ UNCHANGED provider /\ Kept
  BY DEF ProvidersNext, providersVars, KeptInv
<1>1. CASE OnAuthStateChanged \/ PageUnloads
  BY <1>0, <1>1 DEF OnAuthStateChanged, PageUnloads, Kept, Approved, HandedOnce, NotAcrossLogins
<1>2. ASSUME NEW o \in Op, NEW kind \in OpKinds, Start(o, kind) PROVE Kept'
  BY <1>0, <1>2, Starts
<1>3. ASSUME NEW o \in Op, ProviderStep(o) PROVE Kept'
  BY <1>0, <1>3, Answers, LogsIn, Approves, NotJavascript DEF ProviderStep, FirebaseStep, ReactNativeStep
<1>4. CASE UNCHANGED providersVars
  BY <1>0, <1>4 DEF providersVars, Kept, Approved, HandedOnce, NotAcrossLogins
<1> QED
  BY <1>1, <1>2, <1>3, <1>4 DEF ProvidersNext

-----------------------------------------------------------------------------
\* For any users and operations, however they overlap, Firebase and React Native
\* give a signature request away once (firebase provider.ts:161-169,
\* react-native provider.ts:185-206).
THEOREM HandsOutOnce == ProvidersSpec => []HandedOnce
<1>1. KeptInv => HandedOnce
  BY DEF KeptInv, Kept, HandedOnce
<1> QED
  BY <1>1, InitKept, NextKept, PTL DEF ProvidersSpec

\* For any users and operations, Firebase never hands out a request that was
\* stored before somebody logged in (firebase provider.ts:70-72).
THEOREM NeverAcrossLogins == ProvidersSpec => []NotAcrossLogins
<1>1. KeptInv => NotAcrossLogins
  BY DEF KeptInv, Kept, NotAcrossLogins
<1> QED
  BY <1>1, InitKept, NextKept, PTL DEF ProvidersSpec

-----------------------------------------------------------------------------
(* A call of the React SDK that nothing overlaps.                          *)

Fields == {"kind", "algorithm", "stage", "path", "request", "form", "data", "alone"}

OpShape(ops) == DOMAIN ops = Op /\ \A o \in Op : DOMAIN ops[o] = {"kind", "stage", "user", "token"}
CallShape(calls) == DOMAIN calls = CallId /\ \A c \in CallId : DOMAIN calls[c] = Fields

Own(c) == {<<c, p>> : p \in Parts}

\* A call's operations are of their part's kind, and none begins before the call.
OwnOps ==
  \A c \in CallId, p \in Parts :
    op[<<c, p>>].stage # "new" => op[<<c, p>>].kind = p /\ signing[c].stage # "new"

\* A request is noted when it is relayed, and not before.
NotYetRelayed ==
  \A c \in CallId :
    signing[c].stage \in {"new", "signer", "viewing"} \cup Parts => signing[c].request = NoRequest

\* Firebase's user is the one of the session, unless somebody logs out or the
\* listener has yet to run.
UserOfSession ==
  provider = "firebase" => currentUser \in {session, NoUser} \/ \E o \in Op : At(o, "logout", "signed out")

\* A request that a call may relay: its own, unless it asked with a redirect.
Mine(c, req) ==
  req = NoRequest \/ /\ req.op = <<c, signing[c].kind>> <=> ~ByRedirect(c)
                     /\ provider = "firebase" => req.user = signing[c].path

\* No request is of an operation that has not been approved or sent to approve.
Asking(o) == o \in Op /\ op[o].stage \in {"new", "started"}
Known == {request, callback.request} \cup {next.request : next \in leaving} \cup {op[o].token : o \in Op}

AskedInv ==
  /\ \A req \in Known : req = NoRequest \/ ~Asking(req.op)
  /\ \A o \in Op : Asking(o) => op[o].token = NoRequest
  /\ \A next \in leaving \cup {callback} : DOMAIN next = DOMAIN NoCallback

AwaitsOnly(c) == \A o \in Op : UnderWay(o, op) => signing[c].stage \in Parts /\ o = <<c, signing[c].stage>>

\* Firebase answers a call that is alone with the user of the session.
PathInv(c) ==
  LET call == signing[c]
      own  == op[<<c, call.stage>>]
  IN /\ call.stage = "getPath" => own.user = NoUser \/ (own.user = currentUser /\ currentUser = session)
     /\ call.stage = "getPath" /\ own.stage = "done" => own.user # NoUser
     /\ call.stage = "signer" => call.path # NoUser /\ call.path = currentUser /\ currentUser = session
     /\ call.stage \in RequestKinds => own.user = call.path

\* What it approved is in the store, then in its hands.
RequestInv(c) ==
  LET call == signing[c]
      own  == op[<<c, call.stage>>]
  IN /\ call.stage \in RequestKinds =>
          call.kind = call.stage /\ (own.stage \notin {"started", "rejected"} => Mine(c, request))
     /\ call.stage = "get" => call.kind \in RequestKinds /\ Mine(c, request) /\ Mine(c, own.token)

AloneInv(c) ==
  signing[c].alone /\ Going(signing[c]) => AwaitsOnly(c) /\ (provider = "firebase" => PathInv(c)) /\ RequestInv(c)

\* What a call that nothing overlapped has relayed.
Relayable(c, call) ==
  /\ call.kind \in RequestKinds /\ ~UnderWay(<<c, call.kind>>, op)
  /\ call.request.op = <<c, call.kind>> <=> op[<<c, call.kind>>].token = NoRequest
  /\ provider = "firebase" => call.request.user = call.path

RelaysOwn(c) == signing[c].request # NoRequest /\ signing[c].alone => Relayable(c, signing[c])

SdkInv ==
  /\ OpShape(op) /\ AskedInv /\ CallShape(signing) /\ OwnOps /\ NotYetRelayed /\ UserOfSession
  /\ \A c \in CallId : AloneInv(c) /\ RelaysOwn(c)

LEMMA InitSdk == SdkInit => SdkInv
<1> SUFFICES ASSUME SdkInit PROVE SdkInv
  OBVIOUS
<1>1. OpShape(op) /\ \A o \in Op : op[o].stage = "new"
  BY DEF SdkInit, ProvidersInit, NewOp, OpShape
<1>2. CallShape(signing) /\ \A c \in CallId : signing[c].stage = "new" /\ signing[c].request = NoRequest
  BY DEF SdkInit, NewSigning, CallShape, Fields
<1>3. OwnOps
  <2>1. \A c \in CallId, p \in Parts : <<c, p>> \in Op
    BY SdkAssumption
  <2> QED
    BY <1>1, <2>1 DEF OwnOps
<1>4. NotYetRelayed /\ \A c \in CallId : AloneInv(c) /\ RelaysOwn(c)
  BY <1>2 DEF NotYetRelayed, AloneInv, RelaysOwn, Going
<1>5. UserOfSession
  BY DEF UserOfSession, SdkInit, ProvidersInit
<1>6. AskedInv
  <2>1. callback = NoCallback /\ leaving = {} /\ \A o \in Op : op[o].token = NoRequest
    BY DEF SdkInit, ProvidersInit, NewOp
  <2>2. request = NoRequest \/ ~Asking(request.op)
    BY ProvidersAssumption DEF SdkInit, ProvidersInit, Asking
  <2> QED
    BY <2>1, <2>2 DEF AskedInv, Known, NoCallback
<1> QED
  BY <1>1, <1>2, <1>3, <1>4, <1>5, <1>6 DEF SdkInv

\* What the page notices leaves each call a record with the same fields.
LEMMA NoticesShape ==
  ASSUME NEW calls, CallShape(calls), signing' = Noticing(calls)
  PROVE  CallShape(signing')
<1> DEFINE new(d, alone, stage) == [calls[d] EXCEPT !.alone = alone, !.stage = stage]
<1>1. DOMAIN signing' = CallId /\ \A d \in CallId : \E alone, stage : signing'[d] = new(d, alone, stage)
  BY DEF Noticing
<1>2. \A d \in CallId : \A alone, stage : DOMAIN new(d, alone, stage) = Fields
  BY DEF CallShape
<1> HIDE DEF new
<1> QED
  BY <1>1, <1>2 DEF CallShape

\* What the page notices changes no more of a call than its stage and whether it
\* is alone.
LEMMA Notices ==
  ASSUME NEW calls, CallShape(calls), signing' = Noticing(calls), NEW c \in CallId
  PROVE  /\ CallShape(signing')
         /\ signing'[c].kind = calls[c].kind /\ signing'[c].path = calls[c].path
         /\ signing'[c].request = calls[c].request
         /\ signing'[c].stage \in {calls[c].stage, "unloaded"}
         /\ leaving # {} /\ leaving' = {} => ~Going(signing'[c])
         /\ signing'[c].alone => calls[c].alone /\ (Going(calls[c]) => \A o \in Op \ Own(c) : ~UnderWay(o, op'))
<1> DEFINE unloads == leaving # {} /\ leaving' = {}
           stage(d) == IF unloads /\ Going(calls[d]) THEN "unloaded" ELSE calls[d].stage
           alone(d) == calls[d].alone /\ (Going(calls[d]) => \A o \in Op \ Own(d) : ~UnderWay(o, op'))
           new(d) == [calls[d] EXCEPT !.alone = alone(d), !.stage = stage(d)]
<1>1. signing' = [d \in CallId |-> new(d)]
  BY DEF Noticing, Own
<1>2. \A d \in CallId : DOMAIN calls[d] = Fields
  BY DEF CallShape
<1>3. \A d \in CallId : DOMAIN new(d) = Fields
  BY <1>2
<1>4. new(c).kind = calls[c].kind /\ new(c).path = calls[c].path /\ new(c).request = calls[c].request
      /\ new(c).stage = stage(c) /\ new(c).alone = alone(c)
  BY <1>2 DEF Fields
<1>5. DOMAIN signing' = CallId /\ \A d \in CallId : signing'[d] = new(d)
  BY <1>1
<1>6. CallShape(signing')
  BY <1>3, <1>5 DEF CallShape
<1> HIDE DEF new
<1> QED
  BY <1>4, <1>5, <1>6 DEF Going

\* An operation that starts: Firebase looks at its user, and a request that is
\* asked for may be in the store.
LEMMA StartsAlone ==
  ASSUME OpShape(op), NEW o \in Op, NEW kind \in OpKinds, Start(o, kind)
  PROVE  /\ OpShape(op') /\ op[o].stage = "new" /\ op'[o].kind = kind
         /\ op'[o].stage \in {"started", "done", "rejected"} /\ \A p \in Op : p # o => op'[p] = op[p]
         /\ request' \in {request, NoRequest} /\ UNCHANGED <<session, currentUser, callback, leaving>>
         /\ op'[o].token \in {request, NoRequest} /\ (op'[o].stage = "started" => op'[o].token = NoRequest)
         /\ kind \in RequestKinds => op'[o].stage = "started"
         /\ provider = "firebase" /\ kind \in RequestKinds \cup {"getPath"} =>
              op'[o].stage = "started" /\ op'[o].user = currentUser
<1> DEFINE is(call) == op' = [op EXCEPT ![o] = call]
           looked == [kind |-> kind, stage |-> "started", token |-> NoRequest,
                      user |-> IF kind \in RequestKinds \cup {"getPath"} THEN currentUser ELSE NoUser]
           known == [kind |-> "isLoggedIn", stage |-> "done", user |-> currentUser, token |-> NoRequest]
           none == [kind |-> "get", stage |-> "rejected", user |-> NoUser, token |-> NoRequest]
           taken == [kind |-> "get", stage |-> "done", user |-> NoUser, token |-> request]
<1>1. op[o].stage = "new" /\ UNCHANGED <<session, currentUser, callback, leaving>>
  BY DEF Start
<1>2. request' \in {request, NoRequest}
  BY DEF Start, FirebaseGetSignatureRequest, ReactNativeGetSignatureRequest, TakeRequest, Consume, FirebaseIsLoggedIn,
     ReactNativeLogout, KeepStore, ClearStore
<1>3. \/ kind = "get" /\ (is(none) \/ is(taken))
      \/ kind = "isLoggedIn" /\ is(known)
      \/ is(looked)
  BY DEF Start, FirebaseGetSignatureRequest, ReactNativeGetSignatureRequest, TakeRequest, FirebaseIsLoggedIn,
     ReactNativeLogout, StartOp, End
<1>4. ASSUME NEW call, is(call), DOMAIN call = {"kind", "stage", "user", "token"}
      PROVE  OpShape(op') /\ op'[o] = call /\ \A p \in Op : p # o => op'[p] = op[p]
  BY <1>4 DEF OpShape
<1>5. CASE kind = "get" /\ (is(none) \/ is(taken))
  <2>1. PICK call \in {none, taken} : is(call)
    BY <1>5
  <2>2. DOMAIN call = {"kind", "stage", "user", "token"} /\ call.kind = "get" /\ call.stage \in {"done", "rejected"}
        /\ call.token \in {request, NoRequest}
    OBVIOUS
  <2>3. OpShape(op') /\ op'[o] = call /\ \A p \in Op : p # o => op'[p] = op[p]
    BY <1>4, <2>1, <2>2
  <2> QED
    BY <1>1, <1>2, <1>5, <2>2, <2>3 DEF RequestKinds
<1>6. CASE kind = "isLoggedIn" /\ is(known)
  <2>1. OpShape(op') /\ op'[o] = known /\ \A p \in Op : p # o => op'[p] = op[p]
    BY <1>4, <1>6
  <2> QED
    BY <1>1, <1>2, <1>6, <2>1 DEF RequestKinds
<1>7. CASE is(looked)
  <2>0. DOMAIN looked = {"kind", "stage", "user", "token"}
    OBVIOUS
  <2>1. OpShape(op') /\ op'[o] = looked /\ \A p \in Op : p # o => op'[p] = op[p]
    <3> HIDE DEF looked
    <3> QED
      BY <1>4, <1>7, <2>0
  <2> QED
    BY <1>1, <1>2, <2>1
<1> QED
  BY <1>3, <1>5, <1>6, <1>7

\* A step is of an operation that is under way, and alone changes.
LEMMA StepsAlone ==
  ASSUME OpShape(op), NEW o \in Op, ProviderStep(o)
  PROVE  /\ OpShape(op') /\ UnderWay(o, op)
         /\ \A p \in Op : op'[p].kind = op[p].kind /\ (op'[p].stage = "new" <=> op[p].stage = "new")
         /\ op'[o].stage \notin {"new", "started"} /\ \A p \in Op : p # o => op'[p] = op[p]
<1>0. UnderWay(o, op)
  BY DEF ProviderStep, Reject, FirebaseStep, FirebaseSignOut, ForgetUser, FirebaseGetPath, FirebaseRequestTransaction,
     FirebaseRequestDelegate, FirebaseLogin, JavascriptStep, CheckRedirectCallback, Exchange, JavascriptIsLoggedIn,
     GetTokenSilently, GetUserId, JavascriptGetPath, JavascriptLogout, LoginWithPopup, LoginWithRedirect,
     RequestTransactionWithPopup, RequestTransactionWithRedirect, RequestDelegateWithPopup, RequestDelegateWithRedirect,
     ReactNativeStep, SaveCredentials, ClearCredentials, ReactNativeIsLoggedIn, ReactNativeGetPath, ReactNativeLogin,
     ReactNativeRequestTransaction, ReactNativeRequestDelegate, At, UnderWay, RequestKinds
<1>1. ASSUME NEW stage, stage \notin {"new", "started"}, NEW user, NEW token,
             \/ op' = [op EXCEPT ![o].stage = stage]
             \/ op' = [op EXCEPT ![o].stage = stage, ![o].user = user]
             \/ op' = [op EXCEPT ![o].stage = stage, ![o].token = token]
             \/ op' = [op EXCEPT ![o].stage = stage, ![o].user = user, ![o].token = token]
      PROVE  /\ OpShape(op') /\ \A p \in Op : p # o => op'[p] = op[p]
             /\ op'[o].kind = op[o].kind /\ op'[o].stage \notin {"new", "started"}
  BY <1>1 DEF OpShape
<1>3. \/ \E stage \in {"rejected", "done", "checked"} : Set(o, stage)
      \/ \E user : \E stage \in {"rejected", "done", "signed out", "getUserId", "authorized"} : Answer(o, stage, user)
      \/ CheckRedirectCallback(o) \/ GetTokenSilently(o) \/ \E user, req : Redirect(o, user, req)
  <2>1. CASE Reject(o) \/ FirebaseStep(o)
    BY <2>1 DEF Reject, FirebaseStep, FirebaseSignOut, ForgetUser, FirebaseGetPath, FirebaseRequestTransaction,
       FirebaseRequestDelegate, FirebaseLogin, IssuerAnswers, SetSession
  <2>2. CASE JavascriptStep(o)
    BY <2>2 DEF JavascriptStep, Exchange, JavascriptIsLoggedIn, GetUserId, JavascriptGetPath, JavascriptLogout,
       LoginWithPopup, LoginWithRedirect, RequestTransactionWithPopup, RequestTransactionWithRedirect,
       RequestDelegateWithPopup, RequestDelegateWithRedirect, PopupApproves, SetSession
  <2>3. CASE ReactNativeStep(o)
    BY <2>3 DEF ReactNativeStep, SaveCredentials, ClearCredentials, ReactNativeIsLoggedIn, ReactNativeGetPath,
       ReactNativeLogin, ReactNativeRequestTransaction, ReactNativeRequestDelegate, AuthorizeApproves, SetSession
  <2> QED
    BY <2>1, <2>2, <2>3 DEF ProviderStep
<1>4. CASE \E stage \in {"rejected", "done", "checked"} : Set(o, stage)
  BY <1>0, <1>1, <1>4 DEF Set, UnderWay
<1>5. CASE \E user : \E stage \in {"rejected", "done", "signed out", "getUserId", "authorized"} : Answer(o, stage, user)
  BY <1>0, <1>1, <1>5 DEF Answer, UnderWay
<1>6. CASE CheckRedirectCallback(o) \/ GetTokenSilently(o) \/ \E user, req : Redirect(o, user, req)
  <2>1. \/ \E req : op' = [op EXCEPT ![o].stage = "getUserId", ![o].token = req]
        \/ op' = [op EXCEPT ![o].stage = "exchanging", ![o].user = callback.user, ![o].token = callback.request]
        \/ op' = [op EXCEPT ![o].stage = "checked", ![o].user = callback.user, ![o].token = callback.request]
    BY <1>6 DEF CheckRedirectCallback, GetTokenSilently, Redirect
  <2>2. /\ OpShape(op') /\ (\A p \in Op : p # o => op'[p] = op[p]) /\ op'[o].kind = op[o].kind
        /\ op'[o].stage \notin {"new", "started"}
    BY <2>1 DEF OpShape
  <2> QED
    BY <1>0, <2>2 DEF UnderWay
<1> QED
  BY <1>3, <1>4, <1>5, <1>6

\* An answer leaves the token that the operation has.
LEMMA SameToken ==
  ASSUME OpShape(op), NEW o \in Op, NEW stage, NEW user, Set(o, stage) \/ Answer(o, stage, user)
  PROVE  op'[o].token = op[o].token
  BY DEF Set, Answer, OpShape

\* The user of a request that Firebase makes is its user since the start; a
\* request is stored as its operation ends, for its own user, or after a redirect
\* with the next page.
LEMMA Requests ==
  ASSUME OpShape(op), NEW o \in Op, ProviderStep(o), op[o].kind \in RequestKinds
  PROVE  \/ UNCHANGED request /\ op'[o].stage = "rejected"
         \/ UNCHANGED request /\ op[o].stage = "getUserId" /\ op'[o].token = op[o].token
         \/ UNCHANGED request /\ op[o].stage = "started" /\ op'[o].token # NoRequest /\ provider # "firebase"
         \/ /\ request'.op = o /\ op[o].stage = "started" /\ op'[o].token = op[o].token
            /\ provider = "firebase" => request'.user = op[o].user
<1>0. op[o].kind \in {"transaction", "delegate"}
  BY DEF RequestKinds
<1>1. CASE Reject(o)
  BY <1>1 DEF Reject, Set, OpShape
<1>2. CASE FirebaseStep(o)
  <2>1. IssuerAnswers(o) /\ op[o].stage = "started"
    BY <1>0, <1>2 DEF FirebaseStep, FirebaseSignOut, ForgetUser, FirebaseGetPath, FirebaseRequestTransaction,
       FirebaseRequestDelegate, FirebaseLogin, At
  <2>2. request' = [user |-> op[o].user, op |-> o] /\ op'[o].token = op[o].token
    BY <2>1, SameToken DEF IssuerAnswers, SetSignatureRequest
  <2> QED
    BY <2>1, <2>2
<1>3. CASE JavascriptStep(o)
  <2>1. ASSUME NEW u \in User, Redirect(o, u, [user |-> u, op |-> o])
        PROVE  UNCHANGED request /\ op'[o].token # NoRequest /\ provider # "firebase"
    <3>1. [user |-> u, op |-> o] # NoRequest
      <4>1. [user |-> u, op |-> o] \in [user : User, op : Op \cup {Earlier}]
        OBVIOUS
      <4> QED
        BY <4>1, ProvidersAssumption
    <3> QED
      BY <2>1, <3>1 DEF Redirect, OpShape
  <2>2. \/ GetUserId(o)
        \/ op[o].stage = "started" /\ \E u \in User : PopupApproves(o, u) \/ Redirect(o, u, [user |-> u, op |-> o])
    BY <1>0, <1>3 DEF JavascriptStep, CheckRedirectCallback, Exchange, JavascriptIsLoggedIn, GetTokenSilently,
       JavascriptGetPath, JavascriptLogout, LoginWithPopup, LoginWithRedirect, RequestTransactionWithPopup,
       RequestTransactionWithRedirect, RequestDelegateWithPopup, RequestDelegateWithRedirect, At
  <2>3. GetUserId(o) => UNCHANGED request /\ op[o].stage = "getUserId" /\ op'[o].token = op[o].token
    BY SameToken DEF GetUserId
  <2>4. ASSUME NEW u \in User, PopupApproves(o, u)
        PROVE  request' = [user |-> u, op |-> o] /\ op'[o].token = op[o].token /\ provider # "firebase"
    BY <2>4, SameToken DEF PopupApproves, SetSignatureRequest, SetSession
  <2>5. ASSUME NEW u \in User, op[o].stage = "started", PopupApproves(o, u)
        PROVE  request'.op = o /\ op'[o].token = op[o].token /\ provider # "firebase"
    BY <2>4, <2>5
  <2> QED
    BY <2>1, <2>2, <2>3, <2>5
<1>4. CASE ReactNativeStep(o)
  <2>1. op[o].stage = "started" /\ \E u \in User : AuthorizeApproves(o, u)
    BY <1>0, <1>4 DEF ReactNativeStep, SaveCredentials, ClearCredentials, ReactNativeIsLoggedIn, ReactNativeGetPath,
       ReactNativeLogin, ReactNativeRequestTransaction, ReactNativeRequestDelegate, At
  <2>2. provider # "firebase" /\ op'[o].token = op[o].token /\ \E u \in User : request' = [user |-> u, op |-> o]
    BY <2>1, SameToken DEF AuthorizeApproves, SetSignatureRequest
  <2> QED
    BY <2>1, <2>2
<1> QED
  BY <1>1, <1>2, <1>3, <1>4 DEF ProviderStep

\* What is known was known, or is of an operation that no longer asks.
LEMMA KeepsAsked ==
  ASSUME AskedInv, \A p \in Op : Asking(p)' => Asking(p) /\ op'[p].token = NoRequest,
         \A req \in Known' : req \in Known \cup {NoRequest} \/ ~Asking(req.op)',
         \A next \in leaving' \cup {callback'} : DOMAIN next = DOMAIN NoCallback
  PROVE  AskedInv'
<1>1. \A o : Asking(o)' => Asking(o)
  BY DEF Asking
<1> QED
  BY <1>1 DEF AskedInv

LEMMA StartAsked ==
  ASSUME OpShape(op), AskedInv, NEW o \in Op, NEW kind \in OpKinds, Start(o, kind)
  PROVE  AskedInv'
<1>1. /\ op[o].stage = "new" /\ (op'[o].stage = "started" => op'[o].token = NoRequest)
      /\ op'[o].stage \in {"started", "done", "rejected"} /\ \A p \in Op : p # o => op'[p] = op[p]
      /\ request' \in {request, NoRequest} /\ op'[o].token \in {request, NoRequest} /\ UNCHANGED <<callback, leaving>>
  BY StartsAlone
<1>2. \A p \in Op : Asking(p)' => Asking(p) /\ op'[p].token = NoRequest
  BY <1>1 DEF AskedInv, Asking
<1>3. \A req \in Known' : req \in Known \cup {NoRequest}
  BY <1>1 DEF Known
<1> QED
  BY <1>1, <1>2, <1>3, KeepsAsked DEF AskedInv

LEMMA StepAsked ==
  ASSUME OpShape(op), AskedInv, NEW o \in Op, ProviderStep(o)
  PROVE  AskedInv'
<1> DEFINE Fine(req) == req \in Known \cup {NoRequest} \/ req.op = o
           Keeps == UNCHANGED <<callback, leaving>>
           Stored == request' \in {request, NoRequest, op[o].token} \/ request'.op = o
           Answered == (\E stage : Set(o, stage)) \/ \E stage, user : Answer(o, stage, user)
           FineNow == /\ Fine(request') /\ Fine(op'[o].token)
                      /\ \A next \in leaving' \cup {callback'} : DOMAIN next = DOMAIN NoCallback /\ Fine(next.request)
<1>1. op'[o].stage \notin {"new", "started"} /\ \A p \in Op : p # o => op'[p] = op[p]
  BY StepsAlone
<1>2. /\ request \in Known /\ callback.request \in Known /\ op[o].token \in Known
      /\ \A next \in leaving : next.request \in Known
  BY DEF Known
<1>3. FineNow
  <2>1. CASE CheckRedirectCallback(o)
    <3>1. op'[o].token = callback.request /\ UNCHANGED request
      BY <2>1 DEF CheckRedirectCallback, OpShape
    <3>2. \A next \in leaving' \cup {callback'} :
            \E last \in leaving \cup {callback} : next = [last EXCEPT !.pending = FALSE]
      BY <2>1 DEF CheckRedirectCallback
    <3>3. ASSUME NEW last \in leaving \cup {callback}
          PROVE  LET next == [last EXCEPT !.pending = FALSE]
                 IN DOMAIN next = DOMAIN NoCallback /\ next.request = last.request
      BY DEF AskedInv, NoCallback
    <3>4. Fine(request') /\ Fine(op'[o].token)
      BY <1>2, <3>1
    <3>5. ASSUME NEW next \in leaving' \cup {callback'} PROVE DOMAIN next = DOMAIN NoCallback /\ next.request \in Known
      <4>1. PICK last \in leaving \cup {callback} : next = [last EXCEPT !.pending = FALSE]
        BY <3>2
      <4>2. last.request \in Known
        BY <1>2
      <4> QED
        BY <3>3, <4>1, <4>2
    <3> QED
      BY <3>4, <3>5
  <2>2. CASE GetTokenSilently(o)
    BY <1>2, <2>2 DEF GetTokenSilently, OpShape, AskedInv
  <2>3. ASSUME NEW user, NEW req, Redirect(o, user, req), req = NoRequest \/ req.op = o
        PROVE  FineNow
    <3>1. op'[o].token = req /\ UNCHANGED request
      BY <2>3 DEF Redirect, OpShape
    <3>2. callback' = [callback EXCEPT !.pending = FALSE]
          /\ leaving' = {[url |-> TRUE, pending |-> TRUE, user |-> user, request |-> req]}
      BY <2>3 DEF Redirect
    <3>3. DOMAIN callback' = DOMAIN NoCallback /\ callback'.request = callback.request
      BY <3>2 DEF AskedInv, NoCallback
    <3>4. \A next \in leaving' : DOMAIN next = DOMAIN NoCallback /\ next.request = req
      BY <3>2 DEF NoCallback
    <3> QED
      BY <1>2, <2>3, <3>1, <3>3, <3>4
  <2>4. CASE JavascriptLogout(o)
    <3>1. op'[o].token = op[o].token /\ request' = NoRequest /\ leaving' \in {leaving, {NoCallback}} /\ UNCHANGED callback
      BY <2>4 DEF JavascriptLogout, SetSession, Answer, ClearStore, OpShape
    <3> QED
      BY <1>2, <3>1 DEF AskedInv, NoCallback
  <2>5. ASSUME Keeps, Stored, Answered PROVE FineNow
    <3>1. op'[o].token = op[o].token
      BY <2>5, SameToken
    <3> QED
      BY <1>2, <2>5, <3>1 DEF AskedInv
  <2>6. CASE Reject(o) \/ FirebaseStep(o)
    <3>1. CASE Reject(o) \/ FirebaseSignOut(o) \/ ForgetUser(o) \/ FirebaseGetPath(o)
      BY <2>5, <3>1 DEF Reject, FirebaseSignOut, ForgetUser, FirebaseGetPath, SetSession
    <3>2. CASE IssuerAnswers(o)
      BY <2>5, <3>2 DEF IssuerAnswers, SetSignatureRequest
    <3>3. CASE \E u \in User : FirebaseLogin(o, u)
      BY <2>5, <3>3 DEF FirebaseLogin, SetSession, ClearAtLogin, ClearStore
    <3> QED
      BY <2>6, <3>1, <3>2, <3>3 DEF FirebaseStep, FirebaseRequestTransaction, FirebaseRequestDelegate
  <2>7. CASE ReactNativeStep(o)
    <3>1. CASE SaveCredentials(o) \/ ClearCredentials(o, TRUE) \/ ClearCredentials(o, FALSE) \/ ReactNativeGetPath(o)
      BY <2>5, <3>1 DEF SaveCredentials, ClearCredentials, ReactNativeGetPath, SetSession
    <3>2. CASE ReactNativeIsLoggedIn(o)
      <4>1. PICK user : Answer(o, "done", user) /\ Keeps /\ UNCHANGED request
        BY <3>2 DEF ReactNativeIsLoggedIn
      <4> QED
        BY <2>5, <4>1
    <3>3. CASE \E u \in User : ReactNativeLogin(o, u)
      BY <2>5, <3>3 DEF ReactNativeLogin
    <3>4. CASE \E u \in User : AuthorizeApproves(o, u)
      <4>1. PICK u \in User : /\ request' = [user |-> u, op |-> o] /\ Answer(o, "done", u) /\ Keeps
        BY <3>4 DEF AuthorizeApproves, SetSignatureRequest
      <4>2. Stored /\ Answered
        BY <4>1
      <4> QED
        BY <2>5, <4>1, <4>2
    <3> QED
      BY <2>7, <3>1, <3>2, <3>3, <3>4 DEF ReactNativeStep, ReactNativeRequestTransaction, ReactNativeRequestDelegate
  <2>8. CASE JavascriptStep(o)
    <3>1. CASE Exchange(o, TRUE) \/ Exchange(o, FALSE)
      BY <2>5, <3>1 DEF Exchange, SetSignatureRequest, KeepStore
    <3>3. CASE JavascriptIsLoggedIn(o) \/ GetUserId(o) \/ JavascriptGetPath(o)
      BY <2>5, <3>3 DEF JavascriptIsLoggedIn, GetUserId, JavascriptGetPath
    <3>4. CASE \E u \in User : LoginWithPopup(o, u) \/ PopupApproves(o, u)
      BY <2>5, <3>4 DEF LoginWithPopup, PopupApproves, SetSession, SetSignatureRequest
    <3>2. ASSUME NEW u \in User, \/ LoginWithRedirect(o, u) \/ RequestTransactionWithRedirect(o, u)
                                 \/ RequestDelegateWithRedirect(o, u)
          PROVE  FineNow
      BY <2>3, <3>2 DEF LoginWithRedirect, RequestTransactionWithRedirect, RequestDelegateWithRedirect
    <3> QED
      BY <2>1, <2>2, <2>4, <2>8, <3>1, <3>2, <3>3, <3>4 DEF JavascriptStep, RequestTransactionWithPopup, RequestDelegateWithPopup
  <2> QED
    BY <2>6, <2>7, <2>8 DEF ProviderStep
<1>4. \A p \in Op : Asking(p)' => Asking(p) /\ op'[p].token = NoRequest
  BY <1>1 DEF AskedInv, Asking
<1>5. \A req \in Known' : req \in Known \cup {NoRequest} \/ ~Asking(req.op)'
  <2>1. \A req : Fine(req) => req \in Known \cup {NoRequest} \/ ~Asking(req.op)'
    BY <1>1 DEF Asking
  <2>2. \A p \in Op : Fine(op'[p].token)
    BY <1>1, <1>3 DEF Known
  <2> HIDE DEF Fine
  <2> QED
    BY <1>3, <2>1, <2>2 DEF Known
<1> QED
  BY <1>3, <1>4, <1>5, KeepsAsked

\* The page that comes back knows what it left with.
LEMMA UnloadAsked ==
  ASSUME OpShape(op), AskedInv, PageUnloads
  PROVE  AskedInv'
<1>1. PICK next \in leaving : callback' = next
  BY DEF PageUnloads
<1>2. /\ leaving' = {} /\ request' = NoRequest
      /\ \A p \in Op : op'[p].token = op[p].token /\ op'[p].stage \in {op[p].stage, "unloaded"}
  BY DEF PageUnloads, ClearStore, OpShape
<1>3. \A p \in Op : Asking(p)' => Asking(p) /\ op'[p].token = NoRequest
  BY <1>2 DEF AskedInv, Asking
<1>4. \A req \in Known' : req \in Known \cup {NoRequest}
  BY <1>1, <1>2 DEF Known
<1> QED
  BY <1>1, <1>2, <1>3, <1>4, KeepsAsked DEF AskedInv

\* getSignatureRequest takes what is in the store.
LEMMA Gets ==
  ASSUME OpShape(op), NEW o \in Op, ProviderStep(o), op[o].kind = "get"
  PROVE  UNCHANGED request /\ op'[o].token \in {op[o].token, request}
<1>1. Reject(o) \/ GetTokenSilently(o) \/ GetUserId(o)
  BY DEF ProviderStep, FirebaseStep, FirebaseSignOut, ForgetUser, FirebaseGetPath, FirebaseRequestTransaction,
     FirebaseRequestDelegate, FirebaseLogin, JavascriptStep, CheckRedirectCallback, Exchange, JavascriptIsLoggedIn,
     JavascriptGetPath, JavascriptLogout, LoginWithPopup, LoginWithRedirect, RequestTransactionWithPopup,
     RequestTransactionWithRedirect, RequestDelegateWithPopup, RequestDelegateWithRedirect, ReactNativeStep,
     SaveCredentials, ClearCredentials, ReactNativeIsLoggedIn, ReactNativeGetPath, ReactNativeLogin,
     ReactNativeRequestTransaction, ReactNativeRequestDelegate, At
<1> QED
  BY <1>1 DEF Reject, GetTokenSilently, GetUserId, Set, Answer, OpShape

\* Firebase: while nobody logs in or out the user stays who it is.
LEMMA FirebaseKeepsUser ==
  ASSUME OpShape(op), Kept, provider = "firebase", NEW o \in Op, ProviderStep(o), op[o].kind \in Parts
  PROVE  /\ UNCHANGED <<session, currentUser>> /\ op'[o].user = op[o].user
         /\ op[o].kind = "getPath" /\ op'[o].stage = "done" => op[o].user # NoUser
<1>0. op[o].kind \in {"isLoggedIn", "getPath", "transaction", "delegate", "get"}
  BY DEF Parts
<1>1. \/ Reject(o) \/ FirebaseGetPath(o)
      \/ FirebaseRequestTransaction(o) /\ op[o].kind = "transaction"
      \/ FirebaseRequestDelegate(o) /\ op[o].kind = "delegate"
  BY <1>0, NotJavascript DEF ProviderStep, FirebaseStep, FirebaseSignOut, ForgetUser, FirebaseLogin, ReactNativeStep,
     SaveCredentials, ClearCredentials, ReactNativeIsLoggedIn, ReactNativeGetPath, ReactNativeLogin,
     ReactNativeRequestTransaction, ReactNativeRequestDelegate, AuthorizeApproves, FirebaseRequestTransaction,
     FirebaseRequestDelegate, At
<1> QED
  BY <1>1 DEF Reject, FirebaseGetPath, FirebaseRequestTransaction, FirebaseRequestDelegate, IssuerAnswers, Set, OpShape

-----------------------------------------------------------------------------
\* A call that a step is not of keeps its request, and if it is still alone then
\* nothing is under way but its own operations.
LEMMA Bystander ==
  ASSUME NEW calls, CallShape(calls), signing' = Noticing(calls), UNCHANGED provider,
         NEW c \in CallId, calls[c] = signing[c], RelaysOwn(c),
         \A o \in Own(c) : ~UnderWay(o, op) => ~UnderWay(o, op') /\ op'[o].token = op[o].token
  PROVE  /\ RelaysOwn(c)'
         /\ signing'[c].alone /\ Going(signing'[c]) =>
              /\ signing[c].alone /\ Going(signing[c])
              /\ signing'[c].stage = signing[c].stage /\ signing'[c].kind = signing[c].kind
              /\ signing'[c].path = signing[c].path
              /\ \A o \in Op \ Own(c) : ~UnderWay(o, op')
<1>1. /\ signing'[c].kind = signing[c].kind /\ signing'[c].path = signing[c].path
      /\ signing'[c].request = signing[c].request
      /\ signing'[c].stage \in {signing[c].stage, "unloaded"}
      /\ signing'[c].alone => signing[c].alone /\ (Going(signing[c]) => \A o \in Op \ Own(c) : ~UnderWay(o, op'))
  BY Notices
<1>2. RelaysOwn(c)'
  <2>1. signing[c].kind \in RequestKinds => <<c, signing[c].kind>> \in Own(c)
    BY DEF Own, RequestKinds, Parts
  <2> QED
    BY <1>1, <2>1 DEF RelaysOwn, Relayable
<1>3. Going(signing'[c]) => signing'[c].stage = signing[c].stage /\ Going(signing[c])
  BY <1>1 DEF Going
<1> QED
  BY <1>1, <1>2, <1>3

LEMMA OwnOp == ASSUME NEW c \in CallId, NEW p \in Parts PROVE <<c, p>> \in Op /\ <<c, p>> \in Own(c)
  BY SdkAssumption DEF Own

\* A step of the provider is not of a call that is alone, or of the operation
\* that it awaits.
LEMMA StepKeepsAlone ==
  ASSUME SdkInv, KeptInv, NEW o \in Op, ProviderStep(o), signing' = Noticing(signing), UNCHANGED provider,
         NEW c \in CallId
  PROVE  AloneInv(c)' /\ RelaysOwn(c)'
<1> DEFINE call == signing[c]
<1>1. OpShape(op) /\ AskedInv /\ CallShape(signing) /\ OwnOps /\ AloneInv(c) /\ RelaysOwn(c)
  BY DEF SdkInv
<1>5. UnderWay(o, op) /\ op'[o].kind = op[o].kind /\ \A p \in Op : p # o => op'[p] = op[p]
  BY <1>1, StepsAlone
<1>0. \A p \in Own(c) : ~UnderWay(p, op) => ~UnderWay(p, op') /\ op'[p].token = op[p].token
  BY <1>5, OwnOp DEF Own, UnderWay
<1>2. RelaysOwn(c)'
  BY <1>0, <1>1, Bystander
<1> SUFFICES ASSUME signing'[c].alone, Going(signing'[c])
             PROVE  AwaitsOnly(c)' /\ (provider = "firebase" => PathInv(c)') /\ RequestInv(c)'
  BY <1>2 DEF AloneInv
<1>3. /\ signing[c].alone /\ Going(signing[c])
      /\ signing'[c].stage = signing[c].stage /\ signing'[c].kind = signing[c].kind
      /\ signing'[c].path = signing[c].path
      /\ \A p \in Op \ Own(c) : ~UnderWay(p, op')
  BY <1>0, <1>1, Bystander
<1>4. AwaitsOnly(c) /\ (provider = "firebase" => PathInv(c)) /\ RequestInv(c)
  BY <1>1, <1>3 DEF AloneInv
<1>6. call.stage \in Parts /\ o = <<c, call.stage>> /\ o \in Own(c)
  BY <1>4, <1>5, OwnOp DEF AwaitsOnly
<1>8. op[o].kind = call.stage
  BY <1>1, <1>5, <1>6 DEF OwnOps, UnderWay
<1>9. AwaitsOnly(c)'
  BY <1>3, <1>4, <1>5, <1>6 DEF AwaitsOnly, UnderWay
<1>10. ASSUME provider = "firebase" PROVE PathInv(c)'
  <2>1. Kept
    BY <1>10 DEF KeptInv
  <2>2. /\ UNCHANGED <<session, currentUser>> /\ op'[o].user = op[o].user
        /\ op[o].kind = "getPath" /\ op'[o].stage = "done" => op[o].user # NoUser
    BY <1>1, <1>6, <1>8, <1>10, <2>1, FirebaseKeepsUser
  <2> QED
    BY <1>3, <1>4, <1>6, <1>8, <1>10, <2>2 DEF PathInv, Parts
<1>11. RequestInv(c)'
  <2>1. CASE call.stage \in RequestKinds
    <3>1. call.kind = call.stage /\ (op[o].stage \notin {"started", "rejected"} => Mine(c, request))
      BY <1>4, <1>6, <2>1 DEF RequestInv
    <3>2. \/ UNCHANGED request /\ op'[o].stage = "rejected"
          \/ UNCHANGED request /\ op[o].stage = "getUserId" /\ op'[o].token = op[o].token
          \/ UNCHANGED request /\ op[o].stage = "started" /\ op'[o].token # NoRequest /\ provider # "firebase"
          \/ /\ request'.op = o /\ op[o].stage = "started" /\ op'[o].token = op[o].token
             /\ provider = "firebase" => request'.user = op[o].user
      BY <1>1, <1>8, <2>1, Requests
    <3>3. provider = "firebase" => op[o].user = call.path
      BY <1>4, <1>6, <2>1 DEF PathInv
    <3>6. op[o].stage = "started" => op[o].token = NoRequest /\ (request = NoRequest \/ request.op # o)
      BY <1>1 DEF AskedInv, Known, Asking
    <3>7. o = <<c, signing[c].kind>> /\ o = <<c, signing'[c].kind>>
      BY <1>3, <1>6, <3>1
    <3>4. op'[o].stage # "rejected" => Mine(c, request)'
      BY <1>3, <3>1, <3>2, <3>3, <3>6, <3>7 DEF Mine, ByRedirect
    <3>5. call.stage # "get"
      BY <2>1 DEF RequestKinds
    <3> QED
      BY <1>3, <1>6, <3>1, <3>4, <3>5 DEF RequestInv
  <2>2. CASE call.stage = "get"
    <3>1. UNCHANGED request /\ op'[o].token \in {op[o].token, request}
      BY <1>1, <1>8, <2>2, Gets
    <3>2. call.kind \in RequestKinds /\ Mine(c, request) /\ Mine(c, op[o].token)
      BY <1>4, <1>6, <2>2 DEF RequestInv
    <3>4. <<c, call.kind>> # o /\ <<c, call.kind>> \in Op
      BY <1>6, <2>2, <3>2, OwnOp DEF RequestKinds, Parts
    <3>5. ByRedirect(c)' <=> ByRedirect(c)
      BY <1>3, <1>5, <3>4 DEF ByRedirect
    <3>3. Mine(c, request)' /\ (Mine(c, op[o].token))'
      BY <1>3, <3>1, <3>2, <3>5 DEF Mine
    <3> QED
      BY <1>3, <1>6, <2>2, <3>2, <3>3 DEF RequestInv, RequestKinds
  <2>3. CASE call.stage \notin RequestKinds \cup {"get"}
    BY <1>3, <2>3 DEF RequestInv
  <2> QED
    BY <2>1, <2>2, <2>3
<1> QED
  BY <1>9, <1>10, <1>11

\* An operation that somebody else starts ends the call's being alone, or ends at
\* once and leaves the call what it has approved, or nothing.
LEMMA StartKeepsAlone ==
  ASSUME SdkInv, NEW o \in Op, NEW kind \in OpKinds, Start(o, kind), NEW calls, CallShape(calls),
         signing' = Noticing(calls), UNCHANGED provider, NEW c \in CallId, calls[c] = signing[c], o \notin Own(c)
  PROVE  AloneInv(c)' /\ RelaysOwn(c)'
<1> DEFINE call == signing[c]
<1>1. OpShape(op) /\ AloneInv(c) /\ RelaysOwn(c)
  BY DEF SdkInv
<1>5. /\ \A p \in Op : p # o => op'[p] = op[p]
      /\ request' \in {request, NoRequest} /\ UNCHANGED <<session, currentUser>>
  BY <1>1, StartsAlone
<1>0. \A p \in Own(c) : op'[p] = op[p]
  BY <1>5, OwnOp DEF Own
<1>2. RelaysOwn(c)'
  BY <1>0, <1>1, Bystander DEF UnderWay
<1> SUFFICES ASSUME signing'[c].alone, Going(signing'[c])
             PROVE  AwaitsOnly(c)' /\ (provider = "firebase" => PathInv(c)') /\ RequestInv(c)'
  BY <1>2 DEF AloneInv
<1>3. /\ signing[c].alone /\ Going(signing[c])
      /\ signing'[c].stage = signing[c].stage /\ signing'[c].kind = signing[c].kind
      /\ signing'[c].path = signing[c].path
      /\ \A p \in Op \ Own(c) : ~UnderWay(p, op')
  BY <1>0, <1>1, Bystander DEF UnderWay
<1>4. AwaitsOnly(c) /\ (provider = "firebase" => PathInv(c)) /\ RequestInv(c)
  BY <1>1, <1>3 DEF AloneInv
<1>6. call.stage \in Parts => op'[<<c, call.stage>>] = op[<<c, call.stage>>]
  BY <1>5, OwnOp
<1>7. AwaitsOnly(c)'
  BY <1>3, <1>4, <1>5 DEF AwaitsOnly, UnderWay
<1>8. provider = "firebase" => PathInv(c)'
  BY <1>3, <1>4, <1>5, <1>6 DEF PathInv, Parts, RequestKinds
<1>9. call.kind \in RequestKinds => (ByRedirect(c)' <=> ByRedirect(c))
  BY <1>0, <1>3, OwnOp DEF ByRedirect, RequestKinds, Parts
<1>10. call.kind \in RequestKinds /\ Mine(c, request) => Mine(c, request)'
  BY <1>3, <1>5, <1>9 DEF Mine
<1>11. call.kind \in RequestKinds /\ call.stage \in Parts =>
         (Mine(c, op[<<c, call.stage>>].token) => Mine(c, op[<<c, call.stage>>].token)')
  BY <1>3, <1>6, <1>9 DEF Mine
<1>12. RequestInv(c)'
  BY <1>3, <1>4, <1>6, <1>10, <1>11 DEF RequestInv, RequestKinds, Parts
<1> QED
  BY <1>7, <1>8, <1>12

\* What another call does without the provider is nothing to it.
LEMMA QuietKeepsAlone ==
  ASSUME SdkInv, UNCHANGED providersVars, NEW calls, CallShape(calls), signing' = Noticing(calls),
         NEW c \in CallId, calls[c] = signing[c]
  PROVE  AloneInv(c)' /\ RelaysOwn(c)'
<1>1. AloneInv(c) /\ RelaysOwn(c) /\ UNCHANGED <<provider, session, currentUser, request, op>>
  BY DEF SdkInv, providersVars
<1>0. \A p \in Own(c) : op'[p] = op[p]
  BY <1>1
<1>2. RelaysOwn(c)'
  BY <1>0, <1>1, Bystander DEF UnderWay
<1> SUFFICES ASSUME signing'[c].alone, Going(signing'[c])
             PROVE  AwaitsOnly(c)' /\ (provider = "firebase" => PathInv(c)') /\ RequestInv(c)'
  BY <1>1, <1>2 DEF AloneInv
<1>3. /\ signing[c].alone /\ Going(signing[c])
      /\ signing'[c].stage = signing[c].stage /\ signing'[c].kind = signing[c].kind
      /\ signing'[c].path = signing[c].path
  BY <1>0, <1>1, Bystander DEF UnderWay
<1>4. AwaitsOnly(c) /\ (provider = "firebase" => PathInv(c)) /\ RequestInv(c)
  BY <1>1, <1>3 DEF AloneInv
<1>5. AwaitsOnly(c)'
  BY <1>1, <1>3, <1>4 DEF AwaitsOnly, UnderWay
<1>6. provider = "firebase" => PathInv(c)'
  BY <1>1, <1>3, <1>4 DEF PathInv
<1>7. RequestInv(c)'
  BY <1>1, <1>3, <1>4 DEF RequestInv, Mine, ByRedirect
<1> QED
  BY <1>5, <1>6, <1>7

\* The listener has nothing new for a call whose user is the session's.
LEMMA ListenerKeepsAlone ==
  ASSUME SdkInv, OnAuthStateChanged, UNCHANGED <<signing, provider>>, NEW c \in CallId
  PROVE  AloneInv(c)' /\ RelaysOwn(c)'
<1>1. AloneInv(c) /\ RelaysOwn(c) /\ UNCHANGED <<session, request, op>> /\ currentUser # session
  BY DEF SdkInv, OnAuthStateChanged
<1>2. RelaysOwn(c)'
  BY <1>1 DEF RelaysOwn, Relayable, UnderWay
<1>3. AwaitsOnly(c) => AwaitsOnly(c)'
  BY <1>1 DEF AwaitsOnly, UnderWay
<1>4. PathInv(c) => PathInv(c)'
  BY <1>1 DEF PathInv
<1>5. RequestInv(c) => RequestInv(c)'
  BY <1>1 DEF RequestInv, Mine, ByRedirect
<1> QED
  BY <1>1, <1>2, <1>3, <1>4, <1>5 DEF AloneInv

-----------------------------------------------------------------------------
(* The call's own steps.                                                   *)

\* A call that begins a part has nothing else under way if it is alone.
LEMMA BeginsAlone ==
  ASSUME SdkInv, NEW c \in CallId, NEW part \in Parts, Start(<<c, part>>, part),
         NEW calls, CallShape(calls), calls[c].stage = part, signing' = Noticing(calls), UNCHANGED provider,
         \/ signing[c].stage = "new"
         \/ Going(signing[c]) /\ (signing[c].stage \in Parts => ~UnderWay(<<c, signing[c].stage>>, op)),
         calls[c].alone => signing[c].alone,
         signing'[c].alone, Going(signing'[c])
  PROVE  /\ AwaitsOnly(c)' /\ signing'[c].stage = part
         /\ provider = "firebase" => currentUser \in {session, NoUser}
<1> DEFINE o == <<c, part>>
<1>1. OpShape(op) /\ OwnOps /\ AloneInv(c) /\ UserOfSession
  BY DEF SdkInv
<1>2. o \in Op /\ part \in OpKinds
  BY OwnOp DEF Parts, OpKinds
<1>3. /\ op[o].stage = "new" /\ op'[o].kind = part /\ \A p \in Op : p # o => op'[p] = op[p]
  BY <1>1, <1>2, StartsAlone
<1>4. /\ signing'[c].stage \in {part, "unloaded"}
      /\ calls[c].alone /\ (Going(calls[c]) => \A p \in Op \ Own(c) : ~UnderWay(p, op'))
  BY Notices
<1>5. signing'[c].stage = part /\ Going(calls[c])
  BY <1>4 DEF Going, Parts
<1>6. \A p \in Parts : ~UnderWay(<<c, p>>, op)
  <2>1. CASE signing[c].stage = "new"
    BY <1>1, <2>1 DEF OwnOps, UnderWay
  <2>2. CASE signing[c].stage # "new"
    <3>1. AwaitsOnly(c)
      BY <1>1, <1>4, <2>2 DEF AloneInv
    <3> QED
      BY <2>2, <3>1, OwnOp DEF AwaitsOnly
  <2> QED
    BY <2>1, <2>2
<1>7. AwaitsOnly(c)'
  <2>1. \A p \in Op : UnderWay(p, op') => p = o
    BY <1>3, <1>4, <1>5, <1>6 DEF Own, UnderWay
  <2> QED
    BY <1>5, <2>1 DEF AwaitsOnly
<1>8. provider = "firebase" => currentUser \in {session, NoUser}
  <2>1. ASSUME NEW p \in Op, At(p, "logout", "signed out") PROVE FALSE
    <3>1. p # o /\ UnderWay(p, op')
      BY <1>3, <2>1 DEF At, UnderWay
    <3>2. p \in Own(c)
      BY <1>4, <1>5, <3>1
    <3> QED
      BY <1>6, <2>1, <3>2 DEF Own, At, UnderWay
  <2> QED
    BY <1>1, <2>1 DEF UserOfSession
<1> QED
  BY <1>5, <1>7, <1>8

\* Steps of a call c that leave the record "call", and what it must be.
LEMMA OwnStep ==
  ASSUME CallShape(signing), NEW c \in CallId, NEW call, DOMAIN call = Fields, Step(c, call)
  PROVE  /\ CallShape([signing EXCEPT ![c] = call]) /\ signing' = Noticing([signing EXCEPT ![c] = call])
         /\ [signing EXCEPT ![c] = call][c] = call
         /\ \A d \in CallId : d # c => [signing EXCEPT ![c] = call][d] = signing[d]
         /\ CallShape(signing') /\ signing'[c].kind = call.kind /\ signing'[c].path = call.path
         /\ signing'[c].request = call.request /\ signing'[c].stage \in {call.stage, "unloaded"}
         /\ signing'[c].alone => call.alone
<1> DEFINE calls == [signing EXCEPT ![c] = call]
<1>1. CallShape(calls) /\ calls[c] = call /\ \A d \in CallId : d # c => calls[d] = signing[d]
  BY DEF CallShape
<1>2. signing' = Noticing(calls)
  BY DEF Step
<1> HIDE DEF calls
<1>3. /\ CallShape(signing') /\ signing'[c].kind = call.kind /\ signing'[c].path = call.path
      /\ signing'[c].request = call.request /\ signing'[c].stage \in {call.stage, "unloaded"}
      /\ signing'[c].alone => call.alone
  BY <1>1, <1>2, Notices
<1> QED
  BY <1>1, <1>2, <1>3 DEF calls

\* getSigner asks who is logged in, and the signer for the path.
LEMMA GetsSigner ==
  ASSUME SdkInv, NEW c \in CallId, UNCHANGED provider, GetSigner(c) \/ SignerInit(c),
         signing'[c].alone, Going(signing'[c])
  PROVE  AloneInv(c)'
<1>1. OpShape(op) /\ CallShape(signing)
  BY DEF SdkInv
<1>2. PICK part \in {"isLoggedIn", "getPath"} :
        /\ Start(<<c, part>>, part) /\ Step(c, [signing[c] EXCEPT !.stage = part])
        /\ \/ signing[c].stage = "new"
           \/ signing[c].stage = "isLoggedIn" /\ op[<<c, "isLoggedIn">>].stage = "done"
  <2>1. ASSUME Fail(c) PROVE FALSE
    <3>1. DOMAIN [signing[c] EXCEPT !.stage = "failed"] = Fields /\ [signing[c] EXCEPT !.stage = "failed"].stage = "failed"
      BY <1>1 DEF CallShape, Fields
    <3>2. Step(c, [signing[c] EXCEPT !.stage = "failed"])
      BY <2>1 DEF Fail, Quietly
    <3>3. signing'[c].stage \in {"failed", "unloaded"}
      BY <1>1, <3>1, <3>2, OwnStep
    <3> QED
      BY <3>3 DEF Going
  <2> QED
    BY <2>1 DEF GetSigner, SignerInit, Begin, Fulfilled
<1> DEFINE call == [signing[c] EXCEPT !.stage = part]
           calls == [signing EXCEPT ![c] = call]
<1>3. DOMAIN call = Fields /\ call.stage = part /\ call.alone = signing[c].alone
  BY <1>1 DEF CallShape, Fields
<1>4. CallShape(calls) /\ signing' = Noticing(calls) /\ calls[c] = call
  BY <1>1, <1>2, <1>3, OwnStep
<1> HIDE DEF call, calls
<1>5. part \in Parts /\ <<c, part>> \in Op /\ part \in OpKinds
  BY OwnOp DEF Parts, OpKinds
<1>6. /\ AwaitsOnly(c)' /\ signing'[c].stage = part
      /\ provider = "firebase" => currentUser \in {session, NoUser}
  <2>1. \/ signing[c].stage = "new"
        \/ Going(signing[c]) /\ (signing[c].stage \in Parts => ~UnderWay(<<c, signing[c].stage>>, op))
    BY <1>2 DEF Going, UnderWay
  <2> QED
    BY <1>2, <1>3, <1>4, <1>5, <2>1, BeginsAlone
<1>7. /\ UNCHANGED <<session, currentUser>>
      /\ provider = "firebase" /\ part = "getPath" => op'[<<c, part>>].stage = "started" /\ op'[<<c, part>>].user = currentUser
  BY <1>1, <1>2, <1>5, StartsAlone
<1>8. provider = "firebase" => PathInv(c)'
  BY <1>6, <1>7 DEF PathInv, RequestKinds
<1>9. RequestInv(c)'
  BY <1>6 DEF RequestInv, RequestKinds
<1> QED
  BY <1>6, <1>8, <1>9 DEF AloneInv

\* The provider is asked to have the user of the signer's path approve.
LEMMA AsksApproval ==
  ASSUME SdkInv, NEW c \in CallId, NEW algorithm, UNCHANGED provider,
         SignAndSendTransaction(c, algorithm) \/ SignAndSendDelegateAction(c, algorithm),
         signing'[c].alone, Going(signing'[c])
  PROVE  AloneInv(c)'
<1>1. OpShape(op) /\ CallShape(signing) /\ AloneInv(c)
  BY DEF SdkInv
<1>2. PICK part \in RequestKinds :
        /\ Start(<<c, part>>, part) /\ Step(c, [Called(c, part, algorithm) EXCEPT !.stage = part])
        /\ signing[c].stage = "signer"
  BY DEF SignAndSendTransaction, SignAndSendDelegateAction, Begin, RequestKinds
<1> DEFINE call == [Called(c, part, algorithm) EXCEPT !.stage = part]
           calls == [signing EXCEPT ![c] = call]
<1>3. /\ DOMAIN call = Fields /\ call.stage = part /\ call.kind = part /\ call.alone = signing[c].alone
      /\ call.path = signing[c].path
  <2>1. /\ DOMAIN Called(c, part, algorithm) = Fields /\ Called(c, part, algorithm).kind = part
        /\ Called(c, part, algorithm).alone = signing[c].alone /\ Called(c, part, algorithm).path = signing[c].path
    BY <1>1 DEF CallShape, Fields, Called
  <2> QED
    BY <2>1 DEF Fields
<1>4. /\ CallShape(calls) /\ signing' = Noticing(calls) /\ calls[c] = call
      /\ signing'[c].kind = part /\ signing'[c].path = signing[c].path
      /\ signing'[c].alone => signing[c].alone
  <2> HIDE DEF call
  <2> QED
    BY <1>1, <1>2, <1>3, OwnStep DEF call
<1>0. signing[c].stage = "signer" /\ part \in RequestKinds
  BY <1>2, Zenon
<1> HIDE DEF call, calls
<1>5. part \in Parts /\ <<c, part>> \in Op /\ part \in OpKinds
  BY OwnOp DEF Parts, OpKinds, RequestKinds
<1>6. /\ AwaitsOnly(c)' /\ signing'[c].stage = part
  <2>1. Going(signing[c]) /\ (signing[c].stage \in Parts => ~UnderWay(<<c, signing[c].stage>>, op))
    BY <1>0 DEF Going, Parts
  <2> QED
    BY <1>2, <1>3, <1>4, <1>5, <2>1, BeginsAlone
<1>7. /\ UNCHANGED <<session, currentUser>> /\ op'[<<c, part>>].stage = "started"
      /\ provider = "firebase" => op'[<<c, part>>].user = currentUser
  BY <1>0, <1>1, <1>2, <1>5, StartsAlone
<1>8. ASSUME provider = "firebase" PROVE PathInv(c)'
  <2>1. PathInv(c)
    BY <1>0, <1>1, <1>4, <1>8 DEF AloneInv, Going
  <2>2. signing[c].path = currentUser
    BY <1>0, <2>1 DEF PathInv
  <2> QED
    BY <1>0, <1>4, <1>6, <1>7, <1>8, <2>2 DEF PathInv, RequestKinds
<1>9. RequestInv(c)'
  BY <1>0, <1>4, <1>6, <1>7 DEF RequestInv, RequestKinds
<1> QED
  BY <1>6, <1>8, <1>9 DEF AloneInv

\* What the user approved is asked for.
LEMMA AsksForRequest ==
  ASSUME SdkInv, NEW c \in CallId, UNCHANGED provider, GetSignatureRequest(c), signing'[c].alone, Going(signing'[c])
  PROVE  AloneInv(c)'
<1>1. OpShape(op) /\ CallShape(signing) /\ AloneInv(c)
  BY DEF SdkInv
<1>2. /\ signing[c].stage \in RequestKinds /\ op[<<c, signing[c].stage>>].stage = "done"
      /\ Start(<<c, "get">>, "get") /\ Step(c, [signing[c] EXCEPT !.stage = "get"])
  BY DEF GetSignatureRequest, Fulfilled, Begin
<1> DEFINE call == [signing[c] EXCEPT !.stage = "get"]
           calls == [signing EXCEPT ![c] = call]
<1>3. /\ DOMAIN call = Fields /\ call.stage = "get" /\ call.alone = signing[c].alone
      /\ call.path = signing[c].path /\ call.kind = signing[c].kind
  BY <1>1 DEF CallShape, Fields
<1>0. Step(c, call)
  BY <1>2
<1>4. /\ CallShape(calls) /\ signing' = Noticing(calls) /\ calls[c] = call
      /\ signing'[c].kind = signing[c].kind /\ signing'[c].path = signing[c].path
      /\ signing'[c].alone => signing[c].alone
  <2> HIDE DEF call
  <2> QED
    BY <1>0, <1>1, <1>3, OwnStep
<1> HIDE DEF call, calls
<1>5. "get" \in Parts /\ <<c, "get">> \in Op /\ "get" \in OpKinds
  BY OwnOp DEF Parts, OpKinds
<1>6. AwaitsOnly(c)' /\ signing'[c].stage = "get"
  <2>1. Going(signing[c]) /\ (signing[c].stage \in Parts => ~UnderWay(<<c, signing[c].stage>>, op))
    BY <1>2 DEF Going, UnderWay, RequestKinds
  <2> QED
    BY <1>2, <1>3, <1>4, <1>5, <2>1, BeginsAlone
<1>7. /\ request' \in {request, NoRequest} /\ op'[<<c, "get">>].token \in {request, NoRequest}
      /\ \A p \in Op : p # <<c, "get">> => op'[p] = op[p]
  BY <1>1, <1>2, <1>5, StartsAlone
<1>8. signing[c].kind \in RequestKinds /\ Mine(c, request)
  <2>1. RequestInv(c)
    BY <1>1, <1>2, <1>4 DEF AloneInv, Going, RequestKinds
  <2> QED
    BY <1>2, <2>1 DEF RequestInv
<1>11. ByRedirect(c)' <=> ByRedirect(c)
  <2>1. <<c, signing[c].kind>> \in Op /\ <<c, signing[c].kind>> # <<c, "get">>
    BY <1>8, OwnOp DEF RequestKinds, Parts
  <2> QED
    BY <1>4, <1>7, <2>1 DEF ByRedirect
<1>9. Mine(c, request)' /\ Mine(c, op[<<c, "get">>].token)'
  BY <1>4, <1>7, <1>8, <1>11 DEF Mine
<1>10. PathInv(c)' /\ RequestInv(c)'
  BY <1>4, <1>6, <1>8, <1>9 DEF PathInv, RequestInv, RequestKinds
<1> QED
  BY <1>6, <1>10 DEF AloneInv

\* Without the provider a call goes on from one stage to the next.
Goes(c, call) ==
  /\ UNCHANGED providersVars /\ Step(c, call)
  /\ DOMAIN call = Fields /\ call.alone = signing[c].alone

LEMMA GoesOnAlone ==
  ASSUME SdkInv, NEW c \in CallId, NEW call, Goes(c, call), call.stage \notin Parts \cup {"signer"},
         Going(call) => Going(signing[c]) /\ (signing[c].stage \in Parts => ~UnderWay(<<c, signing[c].stage>>, op))
  PROVE  AloneInv(c)'
<1>1. CallShape(signing) /\ AloneInv(c) /\ op' = op
  BY DEF SdkInv, Goes, providersVars
<1>2. signing'[c].stage \in {call.stage, "unloaded"} /\ (signing'[c].alone => signing[c].alone)
  BY <1>1, OwnStep DEF Goes
<1> SUFFICES ASSUME signing'[c].alone, Going(signing'[c]) PROVE AwaitsOnly(c)' /\ PathInv(c)' /\ RequestInv(c)'
  BY DEF AloneInv
<1>3. signing'[c].stage = call.stage /\ Going(call)
  BY <1>2 DEF Going
<1>4. AwaitsOnly(c)
  BY <1>1, <1>2, <1>3 DEF AloneInv
<1>5. \A o \in Op : ~UnderWay(o, op)
  BY <1>3, <1>4 DEF AwaitsOnly
<1>6. AwaitsOnly(c)'
  BY <1>1, <1>5 DEF AwaitsOnly, UnderWay
<1>7. signing'[c].stage \notin Parts \cup {"signer"}
  BY <1>3
<1> QED
  BY <1>6, <1>7 DEF PathInv, RequestInv, Parts, RequestKinds

\* The signer is for the user of the session.
LEMMA ReadyAlone ==
  ASSUME SdkInv, NEW c \in CallId, SignerReady(c)
  PROVE  AloneInv(c)'
<1> DEFINE call == [signing[c] EXCEPT !.stage = "signer", !.path = op[<<c, "getPath">>].user]
<1>1. CallShape(signing) /\ AloneInv(c) /\ UNCHANGED <<provider, session, currentUser, op>>
  BY DEF SdkInv, SignerReady, Quietly, providersVars
<1>2. DOMAIN call = Fields /\ call.stage = "signer" /\ call.alone = signing[c].alone /\ call.path = op[<<c, "getPath">>].user
  BY <1>1 DEF CallShape, Fields
<1>3. Step(c, call) /\ signing[c].stage = "getPath" /\ op[<<c, "getPath">>].stage = "done"
  BY DEF SignerReady, Quietly, Fulfilled
<1>4. signing'[c].stage \in {call.stage, "unloaded"} /\ (signing'[c].alone => call.alone) /\ signing'[c].path = call.path
  <2> HIDE DEF call
  <2> QED
    BY <1>1, <1>2, <1>3, OwnStep
<1> HIDE DEF call
<1> SUFFICES ASSUME signing'[c].alone, Going(signing'[c])
             PROVE  AwaitsOnly(c)' /\ (provider = "firebase" => PathInv(c)') /\ RequestInv(c)'
  BY <1>1 DEF AloneInv
<1>5. signing'[c].stage = "signer" /\ signing'[c].path = op[<<c, "getPath">>].user /\ signing[c].alone
  BY <1>2, <1>4 DEF Going
<1>6. AwaitsOnly(c) /\ (provider = "firebase" => PathInv(c))
  BY <1>1, <1>3, <1>5 DEF AloneInv, Going
<1>7. AwaitsOnly(c)'
  BY <1>1, <1>3, <1>6 DEF AwaitsOnly, UnderWay
<1>8. ASSUME provider = "firebase" PROVE PathInv(c)'
  <2>1. LET user == op[<<c, "getPath">>].user IN user # NoUser /\ user = currentUser /\ currentUser = session
    BY <1>3, <1>6, <1>8 DEF PathInv
  <2> QED
    BY <1>1, <1>5, <2>1 DEF PathInv, RequestKinds
<1>9. RequestInv(c)'
  BY <1>5 DEF RequestInv, RequestKinds
<1> QED
  BY <1>7, <1>8, <1>9

\* A call has no request yet, or the right one if nothing overlapped it.
Right(c, call) ==
  \/ call.request = NoRequest
  \/ /\ call.stage \in {"relaying", "sending", "done", "failed"}
     /\ call.alone => Relayable(c, call)

Begun(c) ==
  /\ signing[c].stage # "new"
  /\ signing[c].stage \in {"new", "signer", "viewing"} \cup Parts => signing[c].request = NoRequest

LEMMA StaysRight ==
  ASSUME SdkInv, NEW c \in CallId, NEW call, DOMAIN call = Fields, Step(c, call), UNCHANGED provider,
         call.stage # "new", Right(c, call), call.request = NoRequest \/ UNCHANGED op
  PROVE  RelaysOwn(c)' /\ Begun(c)'
<1>1. CallShape(signing)
  BY DEF SdkInv
<1>2. /\ signing'[c].kind = call.kind /\ signing'[c].path = call.path
      /\ signing'[c].request = call.request /\ signing'[c].stage \in {call.stage, "unloaded"}
      /\ signing'[c].alone => call.alone
  BY <1>1, OwnStep
<1>3. RelaysOwn(c)'
  BY <1>2 DEF RelaysOwn, Relayable, UnderWay, Right
<1>4. Begun(c)'
  BY <1>2 DEF Begun, Right, Parts
<1> QED
  BY <1>3, <1>4

\* A record that differs from the call's in fields that say nothing of the request.
LEMMA SameRequest ==
  ASSUME SdkInv, NEW c \in CallId, NEW call, call.kind = signing[c].kind, call.path = signing[c].path,
         call.request = signing[c].request, call.alone = signing[c].alone,
         call.stage \in {"relaying", "sending", "done", "failed"}
  PROVE  Right(c, call)
<1>1. RelaysOwn(c)
  BY DEF SdkInv
<1> QED
  BY <1>1 DEF RelaysOwn, Relayable, Right

LEMMA Fails ==
  ASSUME SdkInv, NEW c \in CallId, Fail(c)
  PROVE  AloneInv(c)' /\ RelaysOwn(c)' /\ Begun(c)'
<1> DEFINE call == [signing[c] EXCEPT !.stage = "failed"]
<1>1. CallShape(signing)
  BY DEF SdkInv
<1>2. /\ DOMAIN call = Fields /\ call.stage = "failed" /\ call.alone = signing[c].alone /\ call.kind = signing[c].kind
      /\ call.path = signing[c].path /\ call.request = signing[c].request
  BY <1>1 DEF CallShape, Fields
<1>3. UNCHANGED providersVars /\ Step(c, call) /\ UNCHANGED <<provider, op>>
  BY DEF Fail, Quietly, providersVars
<1> HIDE DEF call
<1>4. Goes(c, call) /\ Right(c, call)
  BY <1>2, <1>3, SameRequest DEF Goes
<1>5. ~Going(call) /\ call.stage \notin Parts \cup {"signer"}
  BY <1>2 DEF Going, Parts
<1> QED
  BY <1>2, <1>3, <1>4, <1>5, GoesOnAlone, StaysRight

\* The relayer's answers, the chain's and the view's.
LEMMA LaterSteps ==
  ASSUME SdkInv, NEW c \in CallId,
         \/ GetPublicKey(c) \/ SendEnds(c, TRUE) \/ SendEnds(c, FALSE)
         \/ \E answer \in {"not ok", "Failure", "bytes", "point"} : RelayAnswers(c, answer)
  PROVE  AloneInv(c)' /\ RelaysOwn(c)' /\ Begun(c)'
<1>1. CallShape(signing)
  BY DEF SdkInv
<1>2. CASE Fail(c)
  BY <1>2, Fails
<1>3. ASSUME NEW stage \in {"relaying", "sending", "done", "failed"}, NEW form, NEW data, NEW call,
             \/ call = [signing[c] EXCEPT !.stage = stage]
             \/ call = [signing[c] EXCEPT !.stage = stage, !.form = form]
             \/ call = [signing[c] EXCEPT !.stage = stage, !.data = data],
             Quietly(c, call), signing[c].stage \in {"viewing", "relaying", "sending"}
      PROVE  AloneInv(c)' /\ RelaysOwn(c)' /\ Begun(c)'
  <2>1. /\ DOMAIN call = Fields /\ call.stage = stage /\ call.alone = signing[c].alone /\ call.kind = signing[c].kind
        /\ call.path = signing[c].path /\ call.request = signing[c].request
    BY <1>1, <1>3 DEF CallShape, Fields
  <2>2. UNCHANGED providersVars /\ Step(c, call) /\ UNCHANGED <<provider, op>>
    BY <1>3 DEF Quietly, providersVars
  <2>3. Goes(c, call) /\ Right(c, call)
    BY <2>1, <2>2, SameRequest DEF Goes
  <2>4. Going(signing[c]) /\ signing[c].stage \notin Parts /\ call.stage \notin Parts \cup {"signer"}
    BY <1>3, <2>1 DEF Going, Parts
  <2> QED
    BY <2>1, <2>2, <2>3, <2>4, GoesOnAlone, StaysRight
<1>4. CASE GetPublicKey(c)
  BY <1>3, <1>4 DEF GetPublicKey
<1>5. CASE SendEnds(c, TRUE) \/ SendEnds(c, FALSE)
  BY <1>3, <1>5 DEF SendEnds
<1>6. ASSUME NEW answer, RelayAnswers(c, answer), ~Fail(c) PROVE AloneInv(c)' /\ RelaysOwn(c)' /\ Begun(c)'
  BY <1>3, <1>6 DEF RelayAnswers
<1> QED
  BY <1>2, <1>4, <1>5, <1>6

\* Until it relays a call has no request.
LEMMA EarlierSteps ==
  ASSUME SdkInv, NEW c \in CallId, NEW call, DOMAIN call = Fields, Step(c, call), UNCHANGED provider,
         call.request = signing[c].request, call.stage # "new",
         signing[c].stage \in {"new", "signer", "viewing"} \cup Parts
  PROVE  RelaysOwn(c)' /\ Begun(c)'
<1>1. Right(c, call) /\ call.request = NoRequest
  BY DEF SdkInv, NotYetRelayed, Right
<1> QED
  BY <1>1, StaysRight

LEMMA ReadySteps ==
  ASSUME SdkInv, NEW c \in CallId, SignerReady(c)
  PROVE  AloneInv(c)' /\ RelaysOwn(c)' /\ Begun(c)'
<1> DEFINE call == [signing[c] EXCEPT !.stage = "signer", !.path = op[<<c, "getPath">>].user]
<1>1. CallShape(signing) /\ signing[c].stage \in Parts
  BY DEF SdkInv, SignerReady, Fulfilled, Parts
<1>2. DOMAIN call = Fields /\ call.stage = "signer" /\ call.request = signing[c].request
  BY <1>1 DEF CallShape, Fields
<1>3. Step(c, call) /\ UNCHANGED provider
  BY DEF SignerReady, Quietly, providersVars
<1> HIDE DEF call
<1> QED
  BY <1>1, <1>2, <1>3, EarlierSteps, ReadyAlone

LEMMA CreatesAccount ==
  ASSUME SdkInv, NEW c \in CallId, NEW algorithm, CreateAccount(c, algorithm)
  PROVE  AloneInv(c)' /\ RelaysOwn(c)' /\ Begun(c)'
<1> DEFINE named == [signing[c] EXCEPT !.kind = "createAccount", !.algorithm = algorithm]
           call == [named EXCEPT !.stage = "viewing"]
<1>1. CallShape(signing) /\ signing[c].stage = "signer"
  BY DEF SdkInv, CreateAccount
<1>2. DOMAIN named = Fields /\ named.request = signing[c].request /\ named.alone = signing[c].alone
  BY <1>1 DEF CallShape, Fields
<1>3. DOMAIN call = Fields /\ call.stage = "viewing" /\ call.request = signing[c].request /\ call.alone = signing[c].alone
  <2> HIDE DEF named
  <2> QED
    BY <1>2 DEF Fields
<1>4. UNCHANGED providersVars /\ Step(c, call) /\ UNCHANGED provider
  BY DEF CreateAccount, Quietly, Called, providersVars
<1> HIDE DEF call
<1>5. Goes(c, call) /\ Going(signing[c]) /\ signing[c].stage \notin Parts /\ call.stage \notin Parts \cup {"signer"}
  BY <1>1, <1>3, <1>4 DEF Goes, Going, Parts
<1> QED
  BY <1>1, <1>3, <1>4, <1>5, EarlierSteps, GoesOnAlone

\* The request that is relayed is the one that was handed to the call.
LEMMA Relays ==
  ASSUME SdkInv, NEW c \in CallId, Relay(c)
  PROVE  AloneInv(c)' /\ RelaysOwn(c)' /\ Begun(c)'
<1> DEFINE token == op[<<c, "get">>].token
           call == [signing[c] EXCEPT !.stage = "relaying", !.request = token, !.form = HandedForm]
<1>1. /\ CallShape(signing) /\ AloneInv(c)
      /\ signing[c].stage = "get" /\ op[<<c, "get">>].stage = "done" /\ Quietly(c, call)
  BY DEF SdkInv, Relay, Fulfilled
<1>2. /\ DOMAIN call = Fields /\ call.stage = "relaying" /\ call.alone = signing[c].alone /\ call.kind = signing[c].kind
      /\ call.path = signing[c].path /\ call.request = token
  BY <1>1 DEF CallShape, Fields
<1>3. UNCHANGED providersVars /\ Step(c, call) /\ UNCHANGED <<provider, op>>
  BY <1>1 DEF Quietly, providersVars
<1> HIDE DEF call
<1>4. ASSUME signing[c].alone, token # NoRequest PROVE Relayable(c, call)
  <2>1. AwaitsOnly(c) /\ signing[c].kind \in RequestKinds /\ Mine(c, token)
    BY <1>1, <1>4 DEF AloneInv, Going, RequestInv
  <2>2. <<c, signing[c].kind>> \in Op /\ <<c, signing[c].kind>> # <<c, "get">>
    BY <2>1, OwnOp DEF RequestKinds, Parts
  <2>3. ~UnderWay(<<c, signing[c].kind>>, op)
    BY <1>1, <2>1, <2>2 DEF AwaitsOnly
  <2> QED
    BY <1>2, <1>4, <2>1, <2>3 DEF Mine, ByRedirect, Relayable
<1>5. Right(c, call)
  BY <1>2, <1>4 DEF Right
<1>6. /\ Goes(c, call) /\ Going(signing[c]) /\ ~UnderWay(<<c, signing[c].stage>>, op)
      /\ call.stage \notin Parts \cup {"signer"}
  BY <1>1, <1>2, <1>3 DEF Goes, Going, UnderWay, Parts
<1> QED
  BY <1>2, <1>3, <1>5, <1>6, StaysRight, GoesOnAlone

LEMMA Begins ==
  ASSUME SdkInv, NEW c \in CallId, UNCHANGED provider,
         \/ GetSigner(c) \/ SignerInit(c) \/ GetSignatureRequest(c)
         \/ \E algorithm \in MpcAlgorithms : SignAndSendTransaction(c, algorithm) \/ SignAndSendDelegateAction(c, algorithm)
  PROVE  AloneInv(c)' /\ RelaysOwn(c)' /\ Begun(c)'
<1>1. CallShape(signing)
  BY DEF SdkInv
<1>2. AloneInv(c)'
  <2> SUFFICES ASSUME signing'[c].alone, Going(signing'[c]) PROVE AloneInv(c)'
    BY DEF AloneInv
  <2> QED
    BY GetsSigner, AsksForRequest, AsksApproval
<1>3. CASE Fail(c)
  BY <1>3, Fails
<1>4. ASSUME NEW part \in Parts, NEW kind, NEW algorithm, NEW call, Step(c, call),
             \/ call = [signing[c] EXCEPT !.stage = part]
             \/ call = [Called(c, kind, algorithm) EXCEPT !.stage = part],
             signing[c].stage \in {"new", "signer"} \cup Parts
      PROVE  RelaysOwn(c)' /\ Begun(c)'
  <2>1. DOMAIN Called(c, kind, algorithm) = Fields /\ Called(c, kind, algorithm).request = signing[c].request
    BY <1>1 DEF CallShape, Fields, Called
  <2>2. DOMAIN call = Fields /\ call.stage = part /\ call.request = signing[c].request
    BY <1>1, <1>4, <2>1 DEF CallShape, Fields
  <2> QED
    BY <1>4, <2>2, EarlierSteps DEF Parts
<1>5. CASE GetSigner(c) \/ GetSignatureRequest(c) \/ (SignerInit(c) /\ ~Fail(c))
  BY <1>2, <1>4, <1>5 DEF GetSigner, GetSignatureRequest, SignerInit, Begin, Fulfilled, Parts, RequestKinds
<1>6. CASE \E algorithm \in MpcAlgorithms : SignAndSendTransaction(c, algorithm) \/ SignAndSendDelegateAction(c, algorithm)
  BY <1>2, <1>4, <1>6 DEF SignAndSendTransaction, SignAndSendDelegateAction, Begin, Parts
<1> QED
  BY <1>2, <1>3, <1>5, <1>6

OwnStepOf(c) ==
  GetSigner(c) \/ CallGoesOn(c) \/ \E algorithm \in MpcAlgorithms : UseSigner(c, algorithm)

\* A step of a call changes its own record, and starts at most one of its operations.
LEMMA OwnRecord ==
  ASSUME CallShape(signing), NEW c \in CallId, OwnStepOf(c)
  PROVE  \E call : /\ DOMAIN call = Fields /\ Step(c, call)
                   /\ UNCHANGED providersVars \/ \E part \in Parts : Start(<<c, part>>, part)
<1> DEFINE changed(call) == DOMAIN call = Fields /\ Step(c, call)
           outside == UNCHANGED providersVars \/ \E part \in Parts : Start(<<c, part>>, part)
<1>1. DOMAIN signing[c] = Fields
  BY DEF CallShape
<1>2. ASSUME NEW stage, Step(c, [signing[c] EXCEPT !.stage = stage]) PROVE \E call : changed(call)
  BY <1>1, <1>2
<1>3. ASSUME NEW kind, NEW algorithm, NEW stage, Step(c, [Called(c, kind, algorithm) EXCEPT !.stage = stage])
      PROVE  \E call : changed(call)
  <2>1. DOMAIN [Called(c, kind, algorithm) EXCEPT !.stage = stage] = Fields
    BY <1>1 DEF Called
  <2> QED
    BY <1>3, <2>1
<1>4. ASSUME Fail(c) PROVE outside /\ \E call : changed(call)
  BY <1>2, <1>4 DEF Fail, Quietly
<1>5. CASE GetSigner(c) \/ SignerInit(c) \/ GetSignatureRequest(c)
  BY <1>2, <1>4, <1>5 DEF GetSigner, SignerInit, GetSignatureRequest, Begin, Parts
<1>6. CASE Rethrow(c) \/ ViewFails(c) \/ SendEnds(c, TRUE) \/ SendEnds(c, FALSE)
  BY <1>2, <1>4, <1>6 DEF Rethrow, ViewFails, SendEnds, Quietly
<1>7. CASE SignerReady(c) \/ Relay(c) \/ GetPublicKey(c)
  <2>1. ASSUME NEW path PROVE DOMAIN [signing[c] EXCEPT !.stage = "signer", !.path = path] = Fields
    BY <1>1
  <2>2. ASSUME NEW token, NEW form
        PROVE  DOMAIN [signing[c] EXCEPT !.stage = "relaying", !.request = token, !.form = form] = Fields
    BY <1>1
  <2>3. DOMAIN [signing[c] EXCEPT !.stage = "relaying", !.form = "numbers"] = Fields
    BY <1>1
  <2> QED
    BY <1>7, <2>1, <2>2, <2>3 DEF SignerReady, Relay, GetPublicKey, Quietly
<1>8. ASSUME NEW answer, RelayAnswers(c, answer) PROVE outside /\ \E call : changed(call)
  <2>1. ASSUME NEW data PROVE DOMAIN [signing[c] EXCEPT !.stage = "sending", !.data = data] = Fields
    BY <1>1
  <2> QED
    BY <1>2, <1>4, <1>8, <2>1 DEF RelayAnswers, Quietly
<1>9. ASSUME NEW algorithm, UseSigner(c, algorithm) PROVE outside /\ \E call : changed(call)
  BY <1>3, <1>9 DEF UseSigner, CreateAccount, SignAndSendTransaction, SignAndSendDelegateAction, Begin, Quietly, Parts
<1> QED
  BY <1>5, <1>6, <1>7, <1>8, <1>9 DEF OwnStepOf, CallGoesOn

-----------------------------------------------------------------------------
\* An operation that starts is not a logout that is half done.
LEMMA StartKeepsUser ==
  ASSUME OpShape(op), UserOfSession, NEW o \in Op, NEW kind \in OpKinds, Start(o, kind), UNCHANGED provider
  PROVE  UserOfSession'
<1>1. op[o].stage = "new" /\ (\A p \in Op : p # o => op'[p] = op[p]) /\ UNCHANGED <<session, currentUser>>
  BY StartsAlone
<1>2. \A p \in Op : At(p, "logout", "signed out") => At(p, "logout", "signed out")'
  BY <1>1 DEF At
<1> QED
  BY <1>1, <1>2 DEF UserOfSession

LEMMA OwnSteps ==
  ASSUME SdkInv, NEW c \in CallId, OwnStepOf(c), UNCHANGED provider
  PROVE  SdkInv'
<1>1. OpShape(op) /\ AskedInv /\ CallShape(signing) /\ OwnOps /\ NotYetRelayed /\ UserOfSession
  BY DEF SdkInv
<1>2. AloneInv(c)' /\ RelaysOwn(c)' /\ Begun(c)'
  BY Fails, LaterSteps, ReadySteps, CreatesAccount, Relays, Begins DEF OwnStepOf, CallGoesOn, Rethrow, ViewFails, UseSigner
<1>3. PICK call : /\ DOMAIN call = Fields /\ Step(c, call)
                  /\ UNCHANGED providersVars \/ \E part \in Parts : Start(<<c, part>>, part)
  BY <1>1, OwnRecord
<1> DEFINE calls == [signing EXCEPT ![c] = call]
<1>4. CallShape(calls) /\ signing' = Noticing(calls) /\ (\A d \in CallId : d # c => calls[d] = signing[d]) /\ CallShape(signing')
  BY <1>1, <1>3, OwnStep
<1> HIDE DEF calls
<1>5. \A d \in CallId : d # c =>
        signing'[d].stage \in {signing[d].stage, "unloaded"} /\ signing'[d].request = signing[d].request
  BY <1>4, Notices
<1>6. NotYetRelayed'
  BY <1>1, <1>2, <1>5 DEF NotYetRelayed, Begun, Parts
<1>7. \A d \in CallId : signing[d].stage # "new" \/ d = c => signing'[d].stage # "new"
  BY <1>2, <1>5 DEF Begun
<1>8. CASE UNCHANGED providersVars
  <2>1. op' = op /\ session' = session /\ currentUser' = currentUser
    BY <1>8 DEF providersVars
  <2>2. OpShape(op') /\ AskedInv' /\ OwnOps'
    BY <1>1, <1>7, <1>8, <2>1 DEF OwnOps, AskedInv, Known, Asking, providersVars
  <2>3. UserOfSession'
    BY <1>1, <2>1 DEF UserOfSession, At
  <2>4. \A d \in CallId : d # c => AloneInv(d)' /\ RelaysOwn(d)'
    BY <1>4, <1>8, QuietKeepsAlone
  <2> QED
    BY <1>2, <1>4, <1>6, <2>2, <2>3, <2>4 DEF SdkInv
<1>9. ASSUME NEW part \in Parts, Start(<<c, part>>, part) PROVE SdkInv'
  <2>1. <<c, part>> \in Op /\ part \in OpKinds
    BY OwnOp DEF Parts, OpKinds
  <2>2. OpShape(op') /\ op'[<<c, part>>].kind = part /\ \A p \in Op : p # <<c, part>> => op'[p] = op[p]
    BY <1>1, <1>9, <2>1, StartsAlone
  <2>3. OwnOps' /\ AskedInv'
    BY <1>1, <1>7, <1>9, <2>1, <2>2, OwnOp, StartAsked DEF OwnOps
  <2>4. UserOfSession'
    BY <1>1, <1>9, <2>1, StartKeepsUser
  <2>5. \A d \in CallId : d # c => AloneInv(d)' /\ RelaysOwn(d)'
    <3>1. \A d \in CallId : d # c => <<c, part>> \notin Own(d)
      BY DEF Own
    <3> QED
      BY <1>4, <1>9, <2>1, <3>1, StartKeepsAlone
  <2> QED
    BY <1>2, <1>4, <1>6, <2>2, <2>3, <2>4, <2>5 DEF SdkInv
<1> QED
  BY <1>3, <1>8, <1>9

LEMMA AppSteps ==
  ASSUME SdkInv, NEW o \in AppOp, NEW kind \in OpKinds, AppStarts(o, kind), UNCHANGED provider
  PROVE  SdkInv'
<1>1. OpShape(op) /\ AskedInv /\ CallShape(signing) /\ OwnOps /\ NotYetRelayed /\ UserOfSession
  BY DEF SdkInv
<1>2. o \in Op /\ \A c \in CallId, p \in Parts : o # <<c, p>>
  BY SdkAssumption
<1>3. Start(o, kind) /\ signing' = Noticing(signing)
  BY DEF AppStarts
<1>4. OpShape(op') /\ \A p \in Op : p # o => op'[p] = op[p]
  BY <1>1, <1>2, <1>3, StartsAlone
<1>5. CallShape(signing') /\ \A d \in CallId :
        signing'[d].stage \in {signing[d].stage, "unloaded"} /\ signing'[d].request = signing[d].request
  BY <1>1, <1>3, Notices, NoticesShape
<1>6. OwnOps' /\ AskedInv'
  BY <1>1, <1>2, <1>3, <1>4, <1>5, OwnOp, StartAsked DEF OwnOps
<1>7. NotYetRelayed'
  BY <1>1, <1>5 DEF NotYetRelayed, Parts
<1>8. UserOfSession'
  BY <1>1, <1>2, <1>3, StartKeepsUser
<1>9. \A d \in CallId : AloneInv(d)' /\ RelaysOwn(d)'
  <2>1. \A d \in CallId : o \notin Own(d)
    BY <1>2 DEF Own
  <2> QED
    BY <1>1, <1>2, <1>3, <2>1, StartKeepsAlone
<1> QED
  BY <1>4, <1>5, <1>6, <1>7, <1>8, <1>9 DEF SdkInv

\* Firebase's user is the session's but for a sign-out that is half done.
LEMMA StepKeepsUser ==
  ASSUME OpShape(op), KeptInv, UserOfSession, NEW o \in Op, ProviderStep(o), UNCHANGED provider
  PROVE  UserOfSession'
<1> SUFFICES ASSUME provider = "firebase"
             PROVE  currentUser' \in {session', NoUser} \/ \E p \in Op : At(p, "logout", "signed out")'
  BY DEF UserOfSession
<1>0. Kept /\ ~JavascriptStep(o) /\ op[o].stage # "authorized"
  <2>1. Kept
    BY DEF KeptInv
  <2> QED
    BY <2>1, NotJavascript DEF Kept
<1>1. CASE FirebaseSignOut(o)
  <2>1. op[o].kind = "logout" /\ op' = [op EXCEPT ![o].stage = "signed out", ![o].user = NoUser]
    BY <1>1 DEF FirebaseSignOut, SetSession, Answer, At
  <2>2. At(o, "logout", "signed out")'
    BY <2>1 DEF OpShape, At
  <2> QED
    BY <2>2
<1>2. CASE ForgetUser(o) \/ \E u \in User : FirebaseLogin(o, u)
  BY <1>2 DEF ForgetUser, FirebaseLogin, SetSession
<1>3. CASE Reject(o) \/ FirebaseGetPath(o) \/ FirebaseRequestTransaction(o) \/ FirebaseRequestDelegate(o)
  <2>1. UNCHANGED <<session, currentUser>> /\ ~At(o, "logout", "signed out") /\ \E stage : Set(o, stage)
    BY <1>3 DEF Reject, FirebaseGetPath, FirebaseRequestTransaction, FirebaseRequestDelegate, IssuerAnswers, At
  <2>2. \A p \in Op : p # o => op'[p] = op[p]
    BY <2>1 DEF Set, OpShape
  <2>3. \A p \in Op : At(p, "logout", "signed out") => At(p, "logout", "signed out")'
    BY <2>1, <2>2 DEF At
  <2> QED
    BY <2>1, <2>3 DEF UserOfSession
<1> QED
  BY <1>0, <1>1, <1>2, <1>3 DEF ProviderStep, FirebaseStep, ReactNativeStep, SaveCredentials, ClearCredentials,
     ReactNativeIsLoggedIn, ReactNativeGetPath, ReactNativeLogin, ReactNativeRequestTransaction,
     ReactNativeRequestDelegate, AuthorizeApproves, At

LEMMA ProviderSteps ==
  ASSUME SdkInv, KeptInv, NEW o \in Op, ProviderGoesOn(o), UNCHANGED provider
  PROVE  SdkInv'
<1>1. OpShape(op) /\ AskedInv /\ CallShape(signing) /\ OwnOps /\ NotYetRelayed /\ UserOfSession
  BY DEF SdkInv
<1>2. ProviderStep(o) /\ signing' = Noticing(signing)
  BY DEF ProviderGoesOn
<1>3. OpShape(op') /\ \A p \in Op : op'[p].kind = op[p].kind /\ (op'[p].stage = "new" <=> op[p].stage = "new")
  BY <1>1, <1>2, StepsAlone
<1>4. CallShape(signing') /\ \A d \in CallId :
        signing'[d].stage \in {signing[d].stage, "unloaded"} /\ signing'[d].request = signing[d].request
  BY <1>1, <1>2, Notices, NoticesShape
<1>5. OwnOps' /\ AskedInv'
  BY <1>1, <1>2, <1>3, <1>4, OwnOp, StepAsked DEF OwnOps
<1>6. NotYetRelayed'
  BY <1>1, <1>4 DEF NotYetRelayed, Parts
<1>7. UserOfSession'
  BY <1>1, <1>2, StepKeepsUser
<1>8. \A d \in CallId : AloneInv(d)' /\ RelaysOwn(d)'
  BY <1>2, StepKeepsAlone
<1> QED
  BY <1>3, <1>4, <1>5, <1>6, <1>7, <1>8 DEF SdkInv

\* A page that is left has no call that goes on.
LEMMA UnloadSteps ==
  ASSUME SdkInv, Unloads, UNCHANGED provider
  PROVE  SdkInv'
<1>1. OpShape(op) /\ AskedInv /\ CallShape(signing) /\ OwnOps /\ NotYetRelayed
  BY DEF SdkInv
<1>2. PageUnloads /\ signing' = Noticing(signing) /\ leaving # {} /\ leaving' = {} /\ provider = "javascript"
  BY DEF Unloads, PageUnloads
<1>3. OpShape(op')
  <2>1. \A p \in Op : op'[p] = op[p] \/ op'[p] = [op[p] EXCEPT !.stage = "unloaded"]
    BY <1>2 DEF PageUnloads
  <2>2. \A p \in Op : DOMAIN op'[p] = {"kind", "stage", "user", "token"}
    BY <1>1, <2>1 DEF OpShape
  <2> QED
    BY <1>2, <2>2 DEF PageUnloads, OpShape
<1>4. \A p \in Op : /\ op'[p].kind = op[p].kind /\ op'[p].token = op[p].token
                    /\ op'[p].stage = "new" <=> op[p].stage = "new"
                    /\ op'[p].stage \in {"new", "unloaded"}
  BY <1>1, <1>2 DEF PageUnloads, OpShape
<1>5. CallShape(signing') /\ \A d \in CallId :
        /\ signing'[d].stage \in {signing[d].stage, "unloaded"} /\ signing'[d].request = signing[d].request
        /\ signing'[d].kind = signing[d].kind /\ signing'[d].path = signing[d].path
        /\ ~Going(signing'[d]) /\ (signing'[d].alone => signing[d].alone)
  <2>1. CallShape(signing')
    BY <1>1, <1>2, NoticesShape
  <2> QED
    BY <1>1, <1>2, <2>1, Notices
<1>6. OwnOps' /\ AskedInv'
  BY <1>1, <1>2, <1>4, <1>5, OwnOp, UnloadAsked DEF OwnOps
<1>7. NotYetRelayed' /\ UserOfSession'
  BY <1>1, <1>2, <1>5 DEF NotYetRelayed, UserOfSession, Parts
<1>8. ASSUME NEW d \in CallId PROVE AloneInv(d)' /\ RelaysOwn(d)'
  <2>1. AloneInv(d)'
    BY <1>5 DEF AloneInv
  <2>2. RelaysOwn(d) /\ (signing[d].kind \in RequestKinds => <<d, signing[d].kind>> \in Op)
    BY OwnOp DEF SdkInv, RequestKinds, Parts
  <2>3. RelaysOwn(d)'
    BY <1>2, <1>4, <1>5, <2>2 DEF RelaysOwn, Relayable, UnderWay
  <2> QED
    BY <2>1, <2>3
<1> QED
  BY <1>3, <1>5, <1>6, <1>7, <1>8 DEF SdkInv

-----------------------------------------------------------------------------
\* What the SDK does with a provider is what a provider lets be done.
LEMMA SdkUsesProviders == [SdkNext]_sdkVars => [ProvidersNext]_providersVars
<1> SUFFICES ASSUME SdkNext PROVE [ProvidersNext]_providersVars
  BY DEF sdkVars
<1>1. UNCHANGED provider
  BY DEF SdkNext
<1>2. ASSUME NEW o \in Op, NEW kind \in OpKinds, Start(o, kind) PROVE ProvidersNext
  BY <1>1, <1>2 DEF ProvidersNext
<1>3. ASSUME NEW c \in CallId, OwnStepOf(c) PROVE [ProvidersNext]_providersVars
  <2>1. \A part \in Parts : Start(<<c, part>>, part) => ProvidersNext
    BY <1>2, OwnOp DEF Parts, OpKinds
  <2>2. Fail(c) => UNCHANGED providersVars
    BY DEF Fail, Quietly
  <2>3. CASE GetSigner(c) \/ SignerInit(c) \/ GetSignatureRequest(c)
    BY <2>1, <2>2, <2>3 DEF GetSigner, SignerInit, GetSignatureRequest, Begin, Parts, RequestKinds
  <2>4. CASE \E algorithm \in MpcAlgorithms : UseSigner(c, algorithm)
    BY <2>1, <2>4 DEF UseSigner, CreateAccount, SignAndSendTransaction, SignAndSendDelegateAction, Begin, Quietly, Parts
  <2>5. CASE Rethrow(c) \/ SignerReady(c) \/ Relay(c) \/ GetPublicKey(c) \/ ViewFails(c) \/ SendEnds(c, TRUE) \/ SendEnds(c, FALSE)
    BY <2>2, <2>5 DEF Rethrow, SignerReady, Relay, GetPublicKey, ViewFails, SendEnds, Quietly
  <2>6. ASSUME NEW answer, RelayAnswers(c, answer) PROVE UNCHANGED providersVars
    BY <2>2, <2>6 DEF RelayAnswers, Quietly
  <2> QED
    BY <1>3, <2>3, <2>4, <2>5, <2>6 DEF OwnStepOf, CallGoesOn
<1>4. CASE \E o \in Op : ProviderGoesOn(o)
  BY <1>1, <1>4 DEF ProviderGoesOn, ProvidersNext
<1>5. CASE \E o \in AppOp, kind \in OpKinds : AppStarts(o, kind)
  BY <1>2, <1>5, SdkAssumption DEF AppStarts
<1>6. CASE ListenerRuns \/ Unloads
  BY <1>1, <1>6 DEF ListenerRuns, Unloads, ProvidersNext
<1> QED
  BY <1>3, <1>4, <1>5, <1>6 DEF SdkNext, OwnStepOf

LEMMA NextSdk == SdkInv /\ KeptInv /\ [SdkNext]_sdkVars => SdkInv'
<1> SUFFICES ASSUME SdkInv, KeptInv, [SdkNext]_sdkVars PROVE SdkInv'
  OBVIOUS
<1>1. CASE UNCHANGED sdkVars
  <2>1. UNCHANGED <<provider, session, currentUser, request, op, signing>>
    BY <1>1 DEF sdkVars, providersVars
  <2>2. OwnOps' /\ NotYetRelayed' /\ UserOfSession'
    BY <2>1 DEF SdkInv, OwnOps, NotYetRelayed, UserOfSession, At
  <2>3. \A c \in CallId : AloneInv(c)' /\ RelaysOwn(c)'
    BY <2>1 DEF SdkInv, AloneInv, RelaysOwn, Relayable, AwaitsOnly, PathInv, RequestInv, Mine, ByRedirect, Going, UnderWay
  <2>4. AskedInv'
    BY <1>1 DEF SdkInv, AskedInv, Known, Asking, sdkVars, providersVars
  <2> QED
    BY <2>1, <2>2, <2>3, <2>4 DEF SdkInv, OpShape, CallShape
<1>2. CASE SdkNext
  <2>1. UNCHANGED provider
    BY <1>2 DEF SdkNext
  <2>2. ASSUME ListenerRuns PROVE SdkInv'
    <3>1. OnAuthStateChanged /\ UNCHANGED <<signing, op>>
      BY <2>2 DEF ListenerRuns, OnAuthStateChanged
    <3>2. \A c \in CallId : AloneInv(c)' /\ RelaysOwn(c)'
      BY <2>1, <3>1, ListenerKeepsAlone
    <3>3. OwnOps' /\ NotYetRelayed' /\ OpShape(op') /\ CallShape(signing') /\ AskedInv'
      BY <3>1 DEF SdkInv, OwnOps, NotYetRelayed, AskedInv, Known, Asking, OnAuthStateChanged
    <3>4. UserOfSession'
      BY <3>1 DEF UserOfSession, OnAuthStateChanged
    <3> QED
      BY <3>2, <3>3, <3>4 DEF SdkInv
  <2> QED
    BY <1>2, <2>1, <2>2, OwnSteps, AppSteps, ProviderSteps, UnloadSteps DEF SdkNext, OwnStepOf
<1> QED
  BY <1>1, <1>2

\* The React SDK uses a provider as the provider's specification allows: what is
\* proved of the providers holds under it (client.ts:35-64, signer.ts:131-163).
THEOREM SdkKeepsToProviders == SdkSpec => ProvidersSpec
<1>1. SdkInit => ProvidersInit
  BY DEF SdkInit
<1> QED
  BY <1>1, SdkUsesProviders, PTL DEF SdkSpec, ProvidersSpec

\* For any calls, users and operations of the app, a call that nothing overlapped
\* relays the request that it had approved itself, with Firebase for the user its
\* signer is for, and one that asked with a redirect an older one, while the page is
\* there (signer.ts:131-136, 154-159).
THEOREM RelaysWhatItHadApproved == SdkSpec => []RelaysItsOwn
<1>1. SdkInv => RelaysItsOwn
  BY DEF SdkInv, RelaysItsOwn, RelaysOwn, Relayable, ByRedirect
<1>2. SdkSpec => []KeptInv
  <2>1. ProvidersSpec => []KeptInv
    BY InitKept, NextKept, PTL DEF ProvidersSpec
  <2> QED
    BY <2>1, SdkKeepsToProviders, PTL
<1>3. SdkSpec => []SdkInv
  BY <1>2, InitSdk, NextSdk, PTL DEF SdkSpec
<1> QED
  BY <1>1, <1>3, PTL
=============================================================================
