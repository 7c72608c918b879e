----------------------------- MODULE ClientsProofs -----------------------------
(***************************************************************************)
(* Proofs about the clients that share nothing: the example application,   *)
(* the hooks of the React SDK, and the action and the forms of the Auth0   *)
(* tenant, each for any number of tasks, hooks, clients and payloads.      *)
(***************************************************************************)
EXTENDS Spa, Hooks, AuthorizeApp, FiniteSetTheorems, TLAPS

-----------------------------------------------------------------------------
(* The example application: its locks.                                     *)

\* A flag is set exactly while one task of its kind runs.
Locked(k) ==
  \/ k \notin busy /\ \A s \in Slot : task[s].kind # k
  \/ k \in busy /\ \E s \in Slot : \A t \in Slot : task[t].kind = k <=> t = s

SpaLocks ==
  /\ task = [s \in Slot |-> task[s]]
  /\ \A k \in Locking : Locked(k)

\* A task that begins has its flag set, if its kind has one.
LEMMA BeginLocks ==
  ASSUME SpaLocks, NEW s \in Slot, NEW kind, NEW from, BeginTask(s, kind, from),
         kind \notin busy \/ kind \notin Locking
  PROVE  SpaLocks'
<1>1. /\ task'[s].kind = kind /\ task[s].kind = "none"
      /\ \A t \in Slot \ {s} : task'[t] = task[t]
      /\ task' = [t \in Slot |-> task'[t]]
  BY DEF BeginTask, SpaLocks, NoTask
<1>2. busy' = IF kind \in Locking THEN busy \cup {kind} ELSE busy
  BY DEF BeginTask
<1>3. ASSUME NEW k \in Locking PROVE Locked(k)'
  <2>1. Locked(k)
    BY DEF SpaLocks
  <2>2. k # "none"
    BY DEF Locking
  <2>3. CASE k = kind
    BY <1>1, <1>2, <2>1, <2>3 DEF Locked
  <2>4. CASE k # kind
    <3>1. k \in busy' <=> k \in busy
      BY <1>2, <2>4
    <3>2. \A t \in Slot : task'[t].kind = k <=> task[t].kind = k
      BY <1>1, <2>2, <2>4
    <3> QED
      BY <2>1, <3>1, <3>2 DEF Locked
  <2> QED
    BY <2>3, <2>4
<1> QED
  BY <1>1, <1>3 DEF SpaLocks

\* A task that ends leaves its flag cleared.
LEMMA FinishLocks ==
  ASSUME SpaLocks, NEW s \in Slot, FinishTask(s),
         Release(s) \/ (UNCHANGED busy /\ task[s].kind \notin Locking)
  PROVE  SpaLocks'
<1>1. /\ task'[s].kind = "none"
      /\ \A t \in Slot \ {s} : task'[t] = task[t]
      /\ task' = [t \in Slot |-> task'[t]]
  BY DEF FinishTask, SpaLocks, NoTask
<1>2. \A k \in Locking : k \in busy' <=> k \in busy /\ k # task[s].kind
  BY DEF Release, Unlocked
<1>3. ASSUME NEW k \in Locking PROVE Locked(k)'
  <2>1. Locked(k) /\ k # "none"
    BY DEF SpaLocks, Locking
  <2>2. CASE k = task[s].kind
    <3>1. \A t \in Slot \ {s} : task[t].kind # k
      BY <2>1, <2>2 DEF Locked
    <3> QED
      BY <1>1, <1>2, <2>1, <2>2, <3>1 DEF Locked
  <2>3. CASE k # task[s].kind
    <3>1. \A t \in Slot : task'[t].kind = k <=> task[t].kind = k
      BY <1>1, <2>1, <2>3
    <3> QED
      BY <1>2, <2>1, <2>3, <3>1 DEF Locked
  <2> QED
    BY <2>2, <2>3
<1> QED
  BY <1>1, <1>3 DEF SpaLocks

LEMMA LocksInit == SpaInit => SpaLocks
  BY DEF SpaInit, SpaLocks, Locked, NoTask, Locking

\* What does not touch the tasks leaves their flags.
LEMMA SameLocks == ASSUME SpaLocks, UNCHANGED <<task, busy>> PROVE SpaLocks'
  BY DEF SpaLocks, Locked

LEMMA LocksNext == SpaLocks /\ [SpaNext]_spaVars => SpaLocks'
<1> SUFFICES ASSUME SpaLocks, [SpaNext]_spaVars PROVE SpaLocks'
  OBVIOUS
<1>1. ASSUME Choose \/ SelectAccount \/ Skip \/ \E n \in 1 .. 4 : Toggle(n)
      PROVE  SpaLocks'
  BY <1>1, SameLocks DEF Choose, SelectAccount, Skip, Toggle
<1>2. ASSUME NEW s \in Slot, UserActs(s) PROVE SpaLocks'
  <2>1. PICK kind : /\ \E from : BeginTask(s, kind, from)
                    /\ kind \notin busy
    BY <1>2 DEF UserActs, LoginClick, CanLogin, Logins, LogoutClick, CanLogout, CreateClick,
       CanCreate, RequestClick, CanRequest, SignClick, CanSign, SendClick, CanSend
  <2> QED
    BY <2>1, BeginLocks
<1>3. ASSUME NEW s \in Slot, NEW e \in {"init", "auth", "pending", "keys"}, RunEffect(e, s)
      PROVE  SpaLocks'
  <2>1. CASE EffectTask(e) = 0
    BY <1>3, <2>1, SameLocks DEF RunEffect
  <2>2. CASE EffectTask(e) # 0
    BY <1>3, <2>2, BeginLocks DEF RunEffect, Locking
  <2> QED
    BY <2>1, <2>2
<1>4. ASSUME NEW s \in Slot, TaskGoesOn(s) PROVE SpaLocks'
  <2>1. CASE InitEnds(s) \/ KeysFetched(s)
    BY <2>1, FinishLocks DEF InitEnds, KeysFetched, Ending, Locking
  <2>2. CASE LoggedIn(s) \/ Created(s) \/ LoggedOut(s) \/ RequestArrives(s) \/ Sent(s)
    BY <2>2, FinishLocks DEF LoggedIn, Created, LoggedOut, RequestArrives, Sent
  <2>3. CASE \E result \in SignResults : Signed(s, result)
    BY <2>3, FinishLocks DEF Signed
  <2>4. CASE \E call \in Calls : TaskFails(s, call)
    BY <2>4, FinishLocks DEF TaskFails
  <2> QED
    BY <1>4, <2>1, <2>2, <2>3, <2>4 DEF TaskGoesOn
<1>5. CASE UNCHANGED spaVars
  BY <1>5, SameLocks DEF spaVars
<1> QED
  BY <1>1, <1>2, <1>3, <1>4, <1>5 DEF SpaNext

\* However the user clicks and whatever fails, the page never has two tasks of a
\* kind that a button starts, and a button is disabled exactly while its task
\* runs (use-transaction-signer.ts:73-135).
THEOREM OneTaskPerLock == SpaSpec => []LockedWhileRunning
<1>1. SpaLocks => LockedWhileRunning
  <2> SUFFICES ASSUME SpaLocks, NEW k \in Locking
               PROVE  Cardinality(Running({k})) = (IF k \in busy THEN 1 ELSE 0)
    BY DEF LockedWhileRunning
  <2>1. CASE k \notin busy /\ \A s \in Slot : task[s].kind # k
    <3>1. Running({k}) = {}
      BY <2>1 DEF Running
    <3> QED
      BY <2>1, <3>1, FS_EmptySet
  <2>2. CASE k \in busy /\ \E s \in Slot : \A t \in Slot : task[t].kind = k <=> t = s
    <3>1. PICK s \in Slot : \A t \in Slot : task[t].kind = k <=> t = s
      BY <2>2
    <3>2. Running({k}) = {s}
      BY <3>1 DEF Running
    <3> QED
      BY <2>2, <3>2, FS_Singleton
  <2> QED
    BY <2>1, <2>2 DEF SpaLocks, Locked
<1> QED
  BY <1>1, LocksInit, LocksNext, PTL DEF SpaSpec

-----------------------------------------------------------------------------
(* The example application: the signer that is kept.                       *)

LoginTask(s) == task[s].kind \in Logins

\* Until logins and initialisations overlap there is one login at most, for the
\* client that is there; one by the login button finds no signer.  A signer of
\* an older client has a login, or its effect, ahead of it.
SignerInv ==
  /\ task = [s \in Slot |-> task[s]]
  /\ chosen >= 1 /\ chosen \in Nat
  /\ ~auth.authenticated => auth.signer = 0
  /\ \A s \in Slot : task[s].kind = "init" => task[s].from # 0
  /\ "auth" \in effects => made # 0
  /\ ~spaRaced =>
       /\ \A s, t \in Slot : LoginTask(s) /\ LoginTask(t) => s = t
       /\ \A s \in Slot : LoginTask(s) => task[s].from = made
       /\ \A s \in Slot : task[s].kind = "login" => auth.signer = 0
       /\ auth.signer \in {0, made} \/ "auth" \in effects \/ \E s \in Slot : LoginTask(s)

\* Only the login button waits for a popup.
LEMMA OnlyLoginHasAPopup ==
  ASSUME NEW s \in Slot, LoginTask(s), NEW call, call = "login",
         call \in Range(CallsOf[task[s].kind])
  PROVE  task[s].kind = "login"
<1> DEFINE Asking == {"isLoggedIn", "getPath", "query"}
<1>1. CallsOf["auth"] = AskSignerCalls /\ CallsOf["again"] = AskSignerCalls
  BY DEF CallsOf
<1>2. AskSignerCalls \in Seq(Asking)
  <2>1. <<"isLoggedIn">> \in Seq(Asking) /\ <<"getPath">> \in Seq(Asking) /\ <<"query">> \in Seq(Asking)
    OBVIOUS
  <2>2. \A calls, more \in Seq(Asking) : calls \o more \in Seq(Asking)
    OBVIOUS
  <2> HIDE DEF Asking
  <2> QED
    BY <2>1, <2>2 DEF AskSignerCalls, GetSignerCalls, InitSignerCalls, GetPublicKeyCalls,
       ViewFunctionCalls
<1>3. \A i \in DOMAIN AskSignerCalls : AskSignerCalls[i] \in Asking
  <2> HIDE DEF Asking
  <2> QED
    BY <1>2
<1> QED
  BY <1>1, <1>3 DEF Range, LoginTask, Logins

LEMMA SignerInitial == SpaInit => SignerInv
  BY DEF SpaInit, SignerInv, LoginTask, Logins, NoTask

\* A step after which the tasks, the client and the signer are what they were.
LEMMA SignerStays ==
  ASSUME SignerInv, UNCHANGED <<task, made, auth>>, chosen' \in {chosen, chosen + 1},
         "auth" \in effects' <=> "auth" \in effects, spaRaced => spaRaced'
  PROVE  SignerInv'
  BY DEF SignerInv, LoginTask

\* A task begins: a login is for the client of the moment, and the only one
\* unless it is seen to overlap another.
LEMMA SignerBegins ==
  ASSUME SignerInv, NEW s \in Slot, NEW kind, NEW from, BeginTask(s, kind, from),
         UNCHANGED <<made, auth, chosen>>,
         kind = "init" => from # 0,
         kind \in Logins => from = made,
         kind = "login" => ~auth.authenticated,
         "auth" \in effects' => "auth" \in effects,
         "auth" \in effects => "auth" \in effects' \/ kind = "auth"
  PROVE  SignerInv'
<1>1. /\ task'[s].kind = kind /\ task'[s].from = from
      /\ task[s].kind = "none"
      /\ \A t \in Slot \ {s} : task'[t] = task[t]
      /\ task' = [t \in Slot |-> task'[t]]
  BY DEF BeginTask, SignerInv, NoTask
<1>2. spaRaced' <=> (spaRaced \/ (kind \in Logins /\ \E t \in Slot : LoginTask(t)))
  BY DEF BeginTask, Running, LoginTask
<1>3. ~LoginTask(s)
  BY <1>1 DEF LoginTask, Logins
<1>4. LoginTask(s)' <=> kind \in Logins
  BY <1>1 DEF LoginTask
<1>5. \A t \in Slot \ {s} : LoginTask(t)' <=> LoginTask(t)
  BY <1>1 DEF LoginTask
<1>6. ASSUME ~spaRaced'
      PROVE  /\ \A t, u \in Slot : LoginTask(t)' /\ LoginTask(u)' => t = u
             /\ \A t \in Slot : LoginTask(t)' => task'[t].from = made'
             /\ \A t \in Slot : task'[t].kind = "login" => auth'.signer = 0
             /\ auth'.signer \in {0, made'} \/ "auth" \in effects' \/ \E t \in Slot : LoginTask(t)'
  <2>1. CASE kind \in Logins
    <3>1. \A t \in Slot : ~LoginTask(t)
      BY <1>2, <1>6, <2>1
    <3>2. \A t \in Slot : LoginTask(t)' => t = s
      BY <1>5, <3>1
    <3> QED
      BY <1>1, <1>2, <1>4, <1>6, <2>1, <3>1, <3>2 DEF SignerInv, LoginTask, Logins
  <2>2. CASE kind \notin Logins
    <3>1. \A t \in Slot : LoginTask(t)' <=> LoginTask(t)
      BY <1>3, <1>4, <1>5, <2>2
    <3>2. \A t \in Slot : LoginTask(t) => t # s
      BY <1>3
    <3>3. \A t \in Slot : task'[t].kind = "login" => t # s
      BY <1>1, <2>2 DEF Logins
    <3>4. kind # "auth" /\ ~spaRaced
      BY <1>2, <1>6, <2>2 DEF Logins
    <3> QED
      BY <1>1, <3>1, <3>2, <3>3, <3>4 DEF SignerInv
  <2> QED
    BY <2>1, <2>2
<1>7. \A t \in Slot : task'[t].kind = "init" => task'[t].from # 0
  BY <1>1 DEF SignerInv
<1>8. "auth" \in effects' => made' # 0
  BY DEF SignerInv
<1> QED
  BY <1>1, <1>6, <1>7, <1>8 DEF SignerInv

\* A task ends that is no login, and no initialisation.
LEMMA SignerEnds ==
  ASSUME SignerInv, NEW s \in Slot, FinishTask(s), ~LoginTask(s),
         UNCHANGED <<made, auth, chosen, spaRaced>>,
         "auth" \in effects' <=> "auth" \in effects
  PROVE  SignerInv'
<1>1. /\ task'[s].kind = "none"
      /\ \A t \in Slot \ {s} : task'[t] = task[t]
      /\ task' = [t \in Slot |-> task'[t]]
  BY DEF FinishTask, SignerInv, NoTask
<1>2. \A t \in Slot : (LoginTask(t)' <=> LoginTask(t)) /\ (LoginTask(t) => t # s)
  BY <1>1 DEF LoginTask, Logins
<1>3. \A t \in Slot : task'[t].kind \in {"init", "login"} => t # s
  BY <1>1
<1> QED
  BY <1>1, <1>2, <1>3 DEF SignerInv

\* A login ends: its signer is of the client that is there, or there is none.
LEMMA SignerSet ==
  ASSUME SignerInv, NEW s \in Slot, FinishTask(s), LoginTask(s),
         UNCHANGED <<made, chosen, spaRaced>>,
         "auth" \in effects' <=> "auth" \in effects,
         ~auth'.authenticated => auth'.signer = 0,
         ~spaRaced => auth'.signer \in {0, made}
  PROVE  SignerInv'
<1>1. /\ task'[s].kind = "none"
      /\ \A t \in Slot \ {s} : task'[t] = task[t]
      /\ task' = [t \in Slot |-> task'[t]]
  BY DEF FinishTask, SignerInv, NoTask
<1>2. ~LoginTask(s)' /\ \A t \in Slot \ {s} : LoginTask(t)' <=> LoginTask(t)
  BY <1>1 DEF LoginTask, Logins
<1>3. ~spaRaced => \A t \in Slot : ~LoginTask(t)'
  BY <1>2 DEF SignerInv
<1>4. \A t \in Slot : task'[t].kind = "login" => LoginTask(t)'
  BY DEF LoginTask, Logins
<1>5. \A t \in Slot : task'[t].kind = "init" => task'[t].from # 0
  BY <1>1 DEF SignerInv
<1> QED
  BY <1>1, <1>3, <1>4, <1>5 DEF SignerInv

LEMMA SignerNext == SignerInv /\ [SpaNext]_spaVars => SignerInv'
<1> SUFFICES ASSUME SignerInv, [SpaNext]_spaVars PROVE SignerInv'
  OBVIOUS
<1>1. CASE Choose
  <2>1. UNCHANGED <<task, made, auth>> /\ chosen' = chosen + 1
    BY <1>1 DEF Choose
  <2>2. "auth" \in effects' <=> "auth" \in effects
    BY <1>1 DEF Choose
  <2>3. spaRaced => spaRaced'
    BY <1>1, Zenon DEF Choose
  <2> QED
    BY <2>1, <2>2, <2>3, SignerStays
<1>2. ASSUME SelectAccount \/ Skip \/ \E n \in 1 .. 4 : Toggle(n) PROVE SignerInv'
  <2>1. UNCHANGED <<task, made, auth, chosen, spaRaced>> /\ \E n : GoTo(n)
    BY <1>2 DEF SelectAccount, Skip, Toggle
  <2>2. "auth" \in effects' <=> "auth" \in effects
    BY <2>1 DEF GoTo, KeysEffect
  <2> QED
    BY <2>1, <2>2, SignerStays
<1>3. ASSUME NEW s \in Slot, UserActs(s) PROVE SignerInv'
  <2>1. CASE LoginClick(s)
    BY <2>1, SignerBegins DEF LoginClick, Logins
  <2>2. CASE ~LoginClick(s)
    <3>1. PICK kind \in {"logout", "create", "request", "sign", "send"} :
            \E from : BeginTask(s, kind, from)
      BY <1>3, <2>2 DEF UserActs, LogoutClick, CreateClick, RequestClick, SignClick, SendClick
    <3>2. UNCHANGED <<made, auth, chosen, effects>>
      BY <1>3, <2>2 DEF UserActs, LogoutClick, CreateClick, RequestClick, SignClick, SendClick
    <3> QED
      BY <3>1, <3>2, SignerBegins DEF Logins
  <2> QED
    BY <2>1, <2>2
<1>4. ASSUME NEW s \in Slot, NEW e \in {"init", "auth", "pending", "keys"}, RunEffect(e, s)
      PROVE  SignerInv'
  <2>1. EffectTask("init") = chosen /\ EffectTask("auth") = made
    BY DEF EffectTask
  <2>2. CASE EffectTask(e) = 0
    <3>1. e # "auth"
      BY <1>4, <2>1, <2>2 DEF RunEffect, SignerInv
    <3> QED
      BY <1>4, <2>2, <3>1, SignerStays DEF RunEffect
  <2>3. CASE EffectTask(e) # 0
    <3>1. BeginTask(s, e, EffectTask(e)) /\ UNCHANGED <<made, auth, chosen>> /\ effects' = effects \ {e}
      BY <1>4, <2>3 DEF RunEffect
    <3>2. e \in Logins => e = "auth"
      BY DEF Logins
    <3> QED
      BY <2>1, <2>3, <3>1, <3>2, SignerBegins
  <2> QED
    BY <2>2, <2>3
<1>5. ASSUME NEW s \in Slot, TaskGoesOn(s) PROVE SignerInv'
  <2>1. CASE InitEnds(s)
    <3>1. /\ task[s].kind = "init" /\ FinishTask(s) /\ made' = task[s].from
          /\ "auth" \in effects' /\ UNCHANGED <<chosen, auth>>
          /\ spaRaced' <=> (spaRaced \/ \E t \in Slot : LoginTask(t))
      BY <2>1 DEF InitEnds, Ending, NewClientEffects, Running, LoginTask
    <3>2. /\ task'[s].kind = "none"
          /\ \A t \in Slot \ {s} : task'[t] = task[t]
          /\ task' = [t \in Slot |-> task'[t]]
      BY <3>1 DEF FinishTask, SignerInv, NoTask
    <3>3. made' # 0
      BY <3>1 DEF SignerInv
    <3>4. ~spaRaced' => \A t \in Slot : ~LoginTask(t)'
      BY <3>1, <3>2 DEF LoginTask, Logins
    <3>5. \A t \in Slot : task'[t].kind = "login" => LoginTask(t)'
      BY DEF LoginTask, Logins
    <3>6. \A t \in Slot : task'[t].kind = "init" => task'[t].from # 0
      BY <3>2 DEF SignerInv
    <3> QED
      BY <3>1, <3>2, <3>3, <3>4, <3>5, <3>6 DEF SignerInv
  <2>2. CASE LoggedIn(s)
    <3>1. /\ LoginTask(s) /\ FinishTask(s) /\ UNCHANGED <<chosen, made, spaRaced>>
          /\ auth' = [authenticated |-> TRUE, signer |-> task[s].from]
          /\ "auth" \in effects' <=> "auth" \in effects
      BY <2>2 DEF LoggedIn, Ending, LoginTask, SetAuth, KeysEffect
    <3> QED
      BY <3>1, SignerSet DEF SignerInv
  <2>3. CASE Created(s) \/ KeysFetched(s) \/ LoggedOut(s) \/ RequestArrives(s) \/ Sent(s)
             \/ \E result \in SignResults : Signed(s, result)
    <3>1. /\ ~LoginTask(s) /\ FinishTask(s)
          /\ UNCHANGED <<made, auth, chosen, spaRaced>>
          /\ "auth" \in effects' <=> "auth" \in effects
      BY <2>3 DEF Created, KeysFetched, LoggedOut, RequestArrives, Sent, Signed, Ending,
         LoginTask, Logins, GoTo, KeysEffect
    <3> QED
      BY <3>1, SignerEnds
  <2>4. ASSUME NEW call \in Calls, TaskFails(s, call) PROVE SignerInv'
    <3>1. FinishTask(s) /\ UNCHANGED <<chosen, made, spaRaced>>
      BY <2>4 DEF TaskFails
    <3>2. CASE LoginTask(s) /\ call # "login"
      <4>1. /\ auth' = [authenticated |-> FALSE, signer |-> 0]
            /\ "auth" \in effects' <=> "auth" \in effects
        BY <2>4, <3>2 DEF TaskFails, LoginTask, SetAuth, KeysEffect
      <4> QED
        BY <3>1, <3>2, <4>1, SignerSet
    <3>3. CASE LoginTask(s) /\ call = "login"
      <4>1. UNCHANGED <<auth, effects>>
        BY <2>4, <3>3 DEF TaskFails
      <4>2. call \in Range(CallsOf[task[s].kind])
        BY <2>4 DEF TaskFails
      <4>3. task[s].kind = "login"
        BY <3>3, <4>2, OnlyLoginHasAPopup
      <4> QED
        BY <3>1, <3>3, <4>1, <4>3, SignerSet DEF SignerInv
    <3>4. CASE ~LoginTask(s)
      <4>1. UNCHANGED <<auth, effects>>
        BY <2>4, <3>4 DEF TaskFails, LoginTask
      <4> QED
        BY <3>1, <3>4, <4>1, SignerEnds
    <3> QED
      BY <3>2, <3>3, <3>4
  <2> QED
    BY <1>5, <2>1, <2>2, <2>3, <2>4 DEF TaskGoesOn
<1>6. CASE UNCHANGED spaVars
  BY <1>6, SignerStays DEF spaVars
<1> QED
  BY <1>1, <1>3, <1>4, <1>5, <1>6, <1>2 DEF SpaNext

\* When nothing is under way, whoever is logged in has the signer of the client
\* that is there, for any sequence of provider types and any number of tasks,
\* unless logins or initialisations have overlapped (use-auth.ts:15-44).
THEOREM SignerOfTheClient == SpaSpec => []SettledOnTheChoice
<1>1. SignerInv => SettledOnTheChoice
  <2> SUFFICES ASSUME SignerInv, effects = {}, \A s \in Slot : task[s] = NoTask, ~spaRaced
               PROVE  auth.signer \in {0, made}
    BY DEF SettledOnTheChoice
  <2>1. \A s \in Slot : ~LoginTask(s)
    BY DEF LoginTask, Logins, NoTask
  <2> QED
    BY <2>1 DEF SignerInv
<1> QED
  BY <1>1, SignerInitial, SignerNext, PTL DEF SpaSpec

-----------------------------------------------------------------------------
(* The hooks.                                                              *)

\* What a hook that is not to fetch again, and has no fetch under way, shows.
Shows(h) == hook[h].value \in {ErrorValue, SourceOf(h, context, hook)}

\* Until its last fetch overlaps another, a hook has one under way at most, from
\* what it is to fetch from; when it has none, and none is due, it shows the
\* right thing.
HookInv(h) ==
  ~hookRaced[h] =>
    /\ \A f, g \in InFlight(h) : f = g
    /\ \A f \in InFlight(h) : fetch[f].from = SourceOf(h, context, hook)
    /\ h \in due \/ InFlight(h) # {} \/ Shows(h)

Makers == Fetching \cup {NoOne}
HookStates == [value : Int, by : Makers, isLoading : BOOLEAN, error : BOOLEAN]

HooksTyped ==
  /\ hook \in [HookIds -> HookStates]
  /\ due \subseteq HookIds
  /\ hookRaced \in [HookIds -> BOOLEAN]
  /\ fetch \in [Fetching -> [stage : {"new", "fetching", "done"}, hook : HookIds, from : Int]]
  /\ context.props \in Nat \ {0} /\ context.client \in Nat /\ context.isReady \in BOOLEAN
  /\ context = [props |-> context.props, due |-> context.due, client |-> context.client,
                isReady |-> context.isReady]
  /\ \A f \in Fetching : fetch[f].stage = "fetching" => fetch[f].from # Nothing

HooksInv == HooksTyped /\ (AutoFetch => \A h \in HookIds : HookInv(h))

LEMMA HooksInitial == HooksInit => HooksInv
<1> SUFFICES ASSUME HooksInit PROVE HooksInv
  OBVIOUS
<1>1. NoFetch \in [stage : {"new", "fetching", "done"}, hook : HookIds, from : Int]
  BY DEF NoFetch, HookIds, Nothing
<1>2. \A h \in HookIds : InFlight(h) = {}
  BY DEF HooksInit, InFlight, NoFetch
<1>3. \A h \in HookIds : HookInv(h)
  BY <1>2 DEF HooksInit, HookInv
<1> QED
  BY <1>1, <1>3 DEF HooksInit, HooksInv, HooksTyped, HookStates, Makers, Nothing, NoFetch

LEMMA SourceType == ASSUME HooksInv, NEW h \in HookIds PROVE SourceOf(h, context, hook) \in Nat
  BY DEF HooksInv, HooksTyped, HookStates, SourceOf, HookIds, Nothing

\* A hook's source does not depend on its own state.
LEMMA OwnValue ==
  ASSUME NEW h \in HookIds, NEW hooks, \A k \in HookIds \ {h} : hooks[k] = hook[k], NEW ctx
  PROVE  SourceOf(h, ctx, hooks) = SourceOf(h, ctx, hook)
  BY DEF SourceOf, HookIds

\* A hook for which no fetch begins in a render.
LEMMA RenderKeeps ==
  ASSUME HooksInv, AutoFetch, NEW ctx, NEW hooks, NEW done, NEW begun,
         Render(ctx, hooks, done, begun), NEW h \in HookIds \ begun,
         \A f \in InFlight(h)' : f \in InFlight(h) /\ fetch'[f].from = fetch[f].from,
         ~hookRaced[h] /\ ~Changed(h, ctx, hooks) =>
           h \in due \ done \/ InFlight(h)' # {} \/ Shows(h)'
  PROVE  HookInv(h)'
<1> SUFFICES ASSUME ~hookRaced'[h]
             PROVE  /\ \A f, g \in InFlight(h)' : f = g
                    /\ \A f \in InFlight(h)' : fetch'[f].from = SourceOf(h, ctx, hooks)
                    /\ h \in due' \/ InFlight(h)' # {} \/ Shows(h)'
  BY DEF HookInv, Render
<1>1. ~hookRaced[h] /\ (Changed(h, ctx, hooks) => InFlight(h) = {})
  BY DEF Render
<1>2. HookInv(h)
  BY DEF HooksInv, HooksTyped, HookStates
<1>3. CASE Changed(h, ctx, hooks)
  BY <1>1, <1>3 DEF Render
<1>4. CASE ~Changed(h, ctx, hooks)
  BY <1>1, <1>2, <1>4 DEF Changed, HookInv, Render
<1> QED
  BY <1>3, <1>4

\* A hook that a step does not touch.
LEMMA HookStays ==
  ASSUME HooksInv, AutoFetch, NEW ctx, NEW hooks, NEW done, NEW begun,
         Render(ctx, hooks, done, begun), NEW h \in HookIds \ begun, h \notin done,
         hooks[h].value = hook[h].value, InFlight(h)' = InFlight(h),
         \A f \in InFlight(h) : fetch'[f].from = fetch[f].from
  PROVE  HookInv(h)'
<1>1. ~hookRaced[h] /\ ~Changed(h, ctx, hooks) => h \in due \/ InFlight(h) # {} \/ Shows(h)'
  BY DEF HooksInv, HooksTyped, HookStates, HookInv, Shows, Changed, Render
<1> QED
  BY <1>1, RenderKeeps

\* The head of a fetch, by an effect or a refetch.
LEMMA BeginKeeps ==
  ASSUME HooksInv, AutoFetch, NEW h \in HookIds, NEW f \in Fetching, NEW done,
         done \subseteq {h}, BeginFetch(h, f, done), NEW k \in HookIds
  PROVE  HookInv(k)'
<1> DEFINE from == SourceOf(h, context, hook)
<1>1. CASE from = Nothing
  <2> DEFINE hooks == [hook EXCEPT ![h].value = Nothing]
  <2>1. Render(context, hooks, done, {}) /\ fetch' = fetch
    BY <1>1 DEF BeginFetch
  <2>2. /\ hooks[h].value = Nothing
        /\ \A j \in HookIds \ {h} : hooks[j] = hook[j]
    BY DEF HooksInv, HooksTyped, HookStates
  <2>3. SourceOf(h, context, hooks) = from
    BY <2>2, OwnValue
  <2>4. InFlight(k)' = InFlight(k)
    BY <2>1 DEF InFlight
  <2> HIDE DEF hooks
  <2>5. CASE k = h
    <3>1. Shows(h)'
      BY <1>1, <2>1, <2>2, <2>3 DEF Shows, Render
    <3> QED
      BY <2>1, <2>4, <2>5, <3>1, RenderKeeps
  <2>6. CASE k # h
    BY <2>1, <2>2, <2>4, <2>6, HookStays
  <2> QED
    BY <2>5, <2>6
<1>2. CASE from # Nothing
  <2> DEFINE hooks == [hook EXCEPT ![h] = Loading(@)]
  <2>1. /\ Render(context, hooks, done, {h})
        /\ fetch[f].stage = "new"
        /\ fetch' = [fetch EXCEPT ![f] = [stage |-> "fetching", hook |-> h, from |-> from]]
    BY <1>2 DEF BeginFetch
  <2>2. \A j \in HookIds \ {h} : hooks[j] = hook[j]
    BY DEF HooksInv, HooksTyped, HookStates
  <2>3. SourceOf(h, context, hooks) = from
    BY <2>2, OwnValue
  <2>4. /\ fetch'[f] = [stage |-> "fetching", hook |-> h, from |-> from]
        /\ \A g \in Fetching \ {f} : fetch'[g] = fetch[g]
    BY <2>1 DEF HooksInv, HooksTyped, HookStates
  <2> HIDE DEF hooks, from
  <2>5. CASE k = h
    <3>1. InFlight(h)' = InFlight(h) \cup {f}
      BY <2>4 DEF InFlight
    <3>2. ~hookRaced'[h] => InFlight(h) = {}
      BY <2>1 DEF Render
    <3>3. SourceOf(h, context', hook') = from
      BY <2>1, <2>3 DEF Render
    <3> QED
      BY <2>4, <2>5, <3>1, <3>2, <3>3 DEF HookInv
  <2>6. CASE k # h
    <3>1. InFlight(k)' = InFlight(k)
      BY <2>1, <2>4, <2>6 DEF InFlight
    <3>2. \A g \in InFlight(k) : fetch'[g] = fetch[g]
      BY <2>1, <2>4 DEF InFlight
    <3> QED
      BY <2>1, <2>2, <2>6, <3>1, <3>2, HookStays
  <2> QED
    BY <2>5, <2>6
<1> QED
  BY <1>1, <1>2

\* The last fetch of a hook gives it what it shows.
LEMMA EndKeeps ==
  ASSUME HooksInv, AutoFetch, NEW f \in Fetching, NEW ok \in BOOLEAN, FetchEnds(f, ok),
         NEW k \in HookIds
  PROVE  HookInv(k)'
<1> DEFINE h == fetch[f].hook
           state == IF ok THEN [hook[h] EXCEPT !.value = fetch[f].from, !.by = f] ELSE FailedState(hook[h])
           hooks == [hook EXCEPT ![h] = NotLoading(state)]
<1>1. /\ fetch[f].stage = "fetching" /\ Render(context, hooks, {}, {})
      /\ fetch' = [fetch EXCEPT ![f].stage = "done"]
  BY DEF FetchEnds
<1>2. h \in HookIds
  BY DEF HooksInv, HooksTyped, HookStates
<1>3. /\ hooks[h] = NotLoading(state)
      /\ \A j \in HookIds \ {h} : hooks[j] = hook[j]
  BY <1>2 DEF HooksInv, HooksTyped, HookStates
<1>4. NotLoading(state).value \in {ErrorValue, fetch[f].from}
  BY <1>2 DEF NotLoading, FailedState, HooksInv, HooksTyped, HookStates
<1>5. /\ fetch'[f].stage = "done"
      /\ \A g \in Fetching \ {f} : fetch'[g] = fetch[g]
  BY <1>1 DEF HooksInv, HooksTyped, HookStates
<1>6. SourceOf(h, context, hooks) = SourceOf(h, context, hook)
  BY <1>2, <1>3, OwnValue
<1> HIDE DEF hooks, state
<1>7. CASE k = h
  <2>1. InFlight(h)' = InFlight(h) \ {f} /\ f \in InFlight(h)
    BY <1>1, <1>5 DEF InFlight
  <2>2. ~hookRaced[k] => Shows(k)'
    <3>1. ~hookRaced[h] => fetch[f].from = SourceOf(h, context, hook)
      BY <1>2, <2>1 DEF HooksInv, HooksTyped, HookStates, HookInv
    <3> QED
      BY <1>1, <1>3, <1>4, <1>6, <1>7, <3>1 DEF Shows, Render
  <2>3. \A g \in InFlight(k)' : g \in InFlight(k) /\ fetch'[g].from = fetch[g].from
    BY <1>5, <1>7, <2>1 DEF InFlight
  <2> QED
    BY <1>1, <2>2, <2>3, RenderKeeps
<1>8. CASE k # h
  <2>1. InFlight(k)' = InFlight(k)
    BY <1>1, <1>5, <1>8 DEF InFlight
  <2>2. \A g \in InFlight(k) : fetch'[g] = fetch[g]
    BY <1>5, <1>8 DEF InFlight
  <2> HIDE DEF h
  <2> QED
    BY <1>1, <1>3, <1>8, <2>1, <2>2, HookStays
<1> QED
  BY <1>7, <1>8

LEMMA RenderTyped ==
  ASSUME HooksTyped, NEW ctx, NEW hooks, NEW done, NEW begun, Render(ctx, hooks, done, begun),
         hooks \in [HookIds -> HookStates]
  PROVE  /\ hook' \in [HookIds -> HookStates]
         /\ due' \subseteq HookIds
         /\ hookRaced' \in [HookIds -> BOOLEAN]
         /\ context' = ctx
<1>1. \A h \in HookIds : (hookRaced[h] \/ (Changed(h, ctx, hooks) /\ InFlight(h) # {})) \in BOOLEAN
  BY Zenon DEF HooksTyped, HookStates
<1> QED
  BY <1>1 DEF HooksTyped, HookStates, Render

LEMMA BeginTyped ==
  ASSUME HooksInv, NEW h \in HookIds, NEW f \in Fetching, NEW done, BeginFetch(h, f, done)
  PROVE  HooksTyped'
<1>1. hook[h] \in HookStates /\ SourceOf(h, context, hook) \in Nat
  BY SourceType DEF HooksInv, HooksTyped, HookStates
<1>2. CASE SourceOf(h, context, hook) = Nothing
  <2> DEFINE hooks == [hook EXCEPT ![h].value = Nothing]
  <2>1. hooks \in [HookIds -> HookStates]
    BY <1>1 DEF HooksInv, HooksTyped, HookStates, Nothing
  <2>2. Render(context, hooks, done, {}) /\ fetch' = fetch
    BY <1>2 DEF BeginFetch
  <2> HIDE DEF hooks
  <2> QED
    BY <2>1, <2>2, RenderTyped DEF HooksInv, HooksTyped, HookStates
<1>3. CASE SourceOf(h, context, hook) # Nothing
  <2> DEFINE hooks == [hook EXCEPT ![h] = Loading(@)]
  <2>1. hooks \in [HookIds -> HookStates]
    BY <1>1 DEF HooksInv, HooksTyped, HookStates, Loading
  <2>2. /\ Render(context, hooks, done, {h})
        /\ fetch' = [fetch EXCEPT ![f] = [stage |-> "fetching", hook |-> h,
                                          from |-> SourceOf(h, context, hook)]]
    BY <1>3 DEF BeginFetch
  <2> HIDE DEF hooks
  <2>3. fetch' \in [Fetching -> [stage : {"new", "fetching", "done"}, hook : HookIds, from : Int]]
    BY <1>1, <2>2 DEF HooksInv, HooksTyped, HookStates
  <2>4. \A g \in Fetching : fetch'[g].stage = "fetching" => fetch'[g].from # Nothing
    BY <1>3, <2>2 DEF HooksInv, HooksTyped, HookStates
  <2> QED
    BY <2>1, <2>2, <2>3, <2>4, RenderTyped DEF HooksInv, HooksTyped, HookStates
<1> QED
  BY <1>2, <1>3

LEMMA EndTyped ==
  ASSUME HooksInv, NEW f \in Fetching, NEW ok \in BOOLEAN, FetchEnds(f, ok)
  PROVE  HooksTyped'
<1> DEFINE h == fetch[f].hook
           state == IF ok THEN [hook[h] EXCEPT !.value = fetch[f].from, !.by = f] ELSE FailedState(hook[h])
           hooks == [hook EXCEPT ![h] = NotLoading(state)]
<1>1. h \in HookIds /\ fetch[f].from \in Int /\ hook[h] \in HookStates
  BY DEF HooksInv, HooksTyped, HookStates
<1>2. state \in HookStates
  <2>1. \A x \in HookStates, n \in Int, g \in Fetching :
          /\ [x EXCEPT !.value = n, !.by = g] \in HookStates
          /\ [x EXCEPT !.error = TRUE, !.value = n] \in HookStates
    BY DEF HookStates, Makers
  <2>2. ErrorValue \in Int
    BY DEF ErrorValue
  <2> QED
    BY <1>1, <2>1, <2>2 DEF FailedState
<1>3. hooks \in [HookIds -> HookStates]
  <2> HIDE DEF state
  <2> QED
    BY <1>1, <1>2 DEF NotLoading, HooksInv, HooksTyped, HookStates
<1>4. Render(context, hooks, {}, {}) /\ fetch' = [fetch EXCEPT ![f].stage = "done"]
  BY DEF FetchEnds
<1>5. /\ fetch' \in [Fetching -> [stage : {"new", "fetching", "done"}, hook : HookIds, from : Int]]
      /\ \A g \in Fetching : fetch'[g].stage = "fetching" => fetch'[g].from # Nothing
  BY <1>4 DEF HooksInv, HooksTyped, HookStates
<1> HIDE DEF hooks
<1> QED
  BY <1>3, <1>4, <1>5, RenderTyped DEF HooksInv, HooksTyped, HookStates

LEMMA HooksStep == HooksInv /\ [HooksNext]_hooksVars => HooksInv'
<1> SUFFICES ASSUME HooksInv, [HooksNext]_hooksVars PROVE HooksInv'
  OBVIOUS
<1>1. ASSUME NEW ok \in BOOLEAN, ProviderEffect(ok) PROVE HooksInv'
  <2> DEFINE ctx == IF ok THEN [context EXCEPT !.due = FALSE, !.client = context.props, !.isReady = TRUE]
                          ELSE [context EXCEPT !.due = FALSE, !.isReady = FALSE]
  <2>1. Render(ctx, hook, {}, {}) /\ fetch' = fetch
    BY <1>1 DEF ProviderEffect
  <2>2. /\ ctx.props \in Nat \ {0} /\ ctx.client \in Nat /\ ctx.isReady \in BOOLEAN
        /\ ctx = [props |-> ctx.props, due |-> ctx.due, client |-> ctx.client, isReady |-> ctx.isReady]
    BY DEF HooksInv, HooksTyped, HookStates
  <2>3. \A h \in HookIds : InFlight(h)' = InFlight(h)
    BY <2>1 DEF InFlight
  <2> HIDE DEF ctx
  <2>4. HooksTyped'
    BY <2>1, <2>2, RenderTyped DEF HooksInv, HooksTyped, HookStates
  <2>5. AutoFetch => \A h \in HookIds : HookInv(h)'
    BY <2>1, <2>3, HookStays
  <2> QED
    BY <2>4, <2>5 DEF HooksInv
<1>2. CASE PropsChange
  <2>1. /\ hook' = hook /\ due' = due /\ fetch' = fetch /\ hookRaced' = hookRaced
        /\ context' = [context EXCEPT !.props = @ + 1, !.due = TRUE]
    BY <1>2 DEF PropsChange
  <2>6. context' = [props |-> context.props + 1, due |-> TRUE, client |-> context.client,
                    isReady |-> context.isReady]
    BY <2>1 DEF HooksInv, HooksTyped, HookStates
  <2>7. /\ context'.props \in Nat \ {0} /\ context'.client \in Nat /\ context'.isReady \in BOOLEAN
        /\ context' = [props |-> context'.props, due |-> context'.due, client |-> context'.client,
                       isReady |-> context'.isReady]
    BY <2>6 DEF HooksInv, HooksTyped, HookStates
  <2>2. HooksTyped'
    BY <2>1, <2>7 DEF HooksInv, HooksTyped, HookStates
  <2>3. context'.client = context.client /\ context'.isReady = context.isReady
    BY <2>1 DEF HooksInv, HooksTyped, HookStates
  <2>4. \A h \in HookIds : SourceOf(h, context', hook') = SourceOf(h, context, hook)
    BY <2>1, <2>3 DEF SourceOf
  <2>5. AutoFetch => \A h \in HookIds : HookInv(h)'
    BY <2>1, <2>4 DEF HooksInv, HookInv, InFlight, Shows
  <2> QED
    BY <2>2, <2>5 DEF HooksInv
<1>3. ASSUME NEW f \in Fetching, NEW ok \in BOOLEAN, FetchEnds(f, ok) PROVE HooksInv'
  BY <1>3, EndTyped, EndKeeps DEF HooksInv
<1>4. ASSUME NEW f \in Fetching, NEW h \in HookIds, HookEffect(h, f) PROVE HooksInv'
  <2>1. CASE BeginFetch(h, f, {h})
    BY <2>1, BeginTyped, BeginKeeps DEF HooksInv
  <2>2. CASE ~AutoFetch /\ Render(context, hook, {h}, {}) /\ UNCHANGED fetch
    BY <2>2, RenderTyped DEF HooksInv, HooksTyped, HookStates
  <2> QED
    BY <1>4, <2>1, <2>2 DEF HookEffect
<1>5. ASSUME NEW f \in Fetching, NEW h \in HookIds, Refetch(h, f) PROVE HooksInv'
  BY <1>5, BeginTyped, BeginKeeps DEF HooksInv, Refetch
<1>6. CASE UNCHANGED hooksVars
  BY <1>6 DEF hooksVars, HooksInv, HooksTyped, HookStates, HookInv, InFlight, Shows
<1> QED
  BY <1>1, <1>2, <1>3, <1>4, <1>5, <1>6 DEF HooksNext

\* However fetches, clients and props come and go, a hook that has come to rest
\* shows what stems from the client of the moment, or nothing, or that it
\* failed, unless its last fetch overlapped another (use-signer.tsx:61-67).
THEOREM HooksShowTheClient == HooksSpec => []ShowsTheCurrentClient
<1>1. HooksInv => ShowsTheCurrentClient
  <2> SUFFICES ASSUME HooksInv, NEW h \in HookIds, AutoFetch, due = {},
                      \A k \in HookIds : InFlight(k) = {} /\ ~hookRaced[k]
               PROVE  hook[h].value \in {ErrorValue, SourceOf(h, context, hook)}
    BY DEF ShowsTheCurrentClient
  <2> QED
    BY DEF HooksInv, HookInv, Shows
<1> QED
  BY <1>1, HooksInitial, HooksStep, PTL DEF HooksSpec

-----------------------------------------------------------------------------
(* The consent: the forms.                                                 *)

Convert == [showYoctoConversion : BOOLEAN]

LEMMA FormattedAmount ==
  ASSUME NEW amount \in Nat, NEW options \in Convert
  PROVE  LET text  == FormatNearAmount(amount, options)
             value == IF text.unit = "NEAR" THEN text.value * Resolution ELSE text.value
         IN value <= amount /\ amount < value + Resolution /\ (value = 0 => amount = 0)
<1>1. CASE options.showYoctoConversion /\ amount >= Resolution
  <2>1. /\ FormatNearAmount(amount, options).unit = "NEAR"
        /\ FormatNearAmount(amount, options).value = amount \div 1000
    BY <1>1 DEF FormatNearAmount, ConversionThreshold, YoctoToNear, Resolution
  <2>2. /\ (amount \div 1000) * 1000 <= amount
        /\ amount < (amount \div 1000) * 1000 + 1000
        /\ (amount \div 1000) * 1000 # 0
    BY <1>1, amount \in Nat DEF Resolution
  <2> QED
    BY <2>1, <2>2 DEF Resolution
<1>2. CASE ~(options.showYoctoConversion /\ amount >= Resolution)
  <2>1. /\ FormatNearAmount(amount, options).unit = "yoctoNEAR"
        /\ FormatNearAmount(amount, options).value = amount
    BY <1>2 DEF FormatNearAmount, ConversionThreshold
  <2> QED
    BY <2>1 DEF Resolution
<1> QED
  BY <1>1, <1>2

\* What is right to say of an action.
RightlyShown(a, shown) ==
  /\ Grave(a) => shown.warning
  /\ a.kind \in WithAmount => AmountIsShown(a, shown.content)
  /\ a.kind \in WithKey => KeyIsShown(a, shown.content)

LEMMA BesideOne ==
  ASSUME NEW content, NEW label, NEW value, NEW i \in DOMAIN content,
         \A j \in DOMAIN content : content[j].label = label <=> j = i,
         content[i].value = value
  PROVE  Beside(content, label) = {value}
  BY DEF Beside

LEMMA AmountsAreNumbers == \A n \in Amounts \cup {0} : n \in Nat
<1>1. Amounts \subseteq Nat
  BY AuthorizeAssumption
<1> QED
  BY <1>1

LEMMA AmountShown ==
  ASSUME NEW a \in NearActions, NEW options \in Convert, NEW content,
         Beside(content, IF a.kind = "stake" THEN "Stake" ELSE "Deposit") = {FormatNearAmount(a.amount, options)}
  PROVE  AmountIsShown(a, content)
<1>1. a.amount \in Amounts \cup {0}
  BY DEF NearActions
<1>2. a.amount \in Nat
  BY <1>1, AmountsAreNumbers, Zenon
<1> QED
  BY <1>2, FormattedAmount DEF AmountIsShown

LEMMA KeyShown ==
  ASSUME NEW a, NEW content, Beside(content, "Public Key") = {FormatPublicKey(a.publicKey)}
  PROVE  KeyIsShown(a, content)
<1>1. FormatPublicKey(a.publicKey).curve = a.publicKey
  BY DEF FormatPublicKey
<1> QED
  BY <1>1 DEF KeyIsShown

LEMMA TextHasItsLabel ==
  ASSUME NEW label, NEW value
  PROVE  CreateTextContent(label, value).label = label /\ CreateTextContent(label, value).value = value
  BY DEF CreateTextContent

LEMMA BesideFour ==
  ASSUME NEW a, NEW b, NEW c, NEW d, a.label # d.label, b.label # d.label, c.label # d.label
  PROVE  Beside(<<a, b, c, d>>, d.label) = {d.value}
<1> DEFINE content == <<a, b, c, d>>
<1>1. DOMAIN content = 1 .. 4 /\ content[1] = a /\ content[2] = b /\ content[3] = c /\ content[4] = d
  OBVIOUS
<1> HIDE DEF content
<1> QED
  BY <1>1, BesideOne

LEMMA BesideThree ==
  ASSUME NEW a, NEW b, NEW c, b.label # a.label, c.label # a.label
  PROVE  Beside(<<a, b, c>>, a.label) = {a.value}
<1> DEFINE content == <<a, b, c>>
<1>1. DOMAIN content = 1 .. 3 /\ content[1] = a /\ content[2] = b /\ content[3] = c
  OBVIOUS
<1> HIDE DEF content
<1> QED
  BY <1>1, BesideOne

LEMMA BesideTwo ==
  ASSUME NEW a, NEW b, a.label # b.label
  PROVE  Beside(<<a, b>>, a.label) = {a.value} /\ Beside(<<a, b>>, b.label) = {b.value}
<1> DEFINE content == <<a, b>>
<1>1. DOMAIN content = 1 .. 2 /\ content[1] = a /\ content[2] = b
  OBVIOUS
<1> HIDE DEF content
<1> QED
  BY <1>1, BesideOne

LEMMA ActionShown ==
  ASSUME NEW a \in NearActions, NEW options \in Convert
  PROVE  RightlyShown(a, HandleNearAction(a, options))
<1> DEFINE shown == HandleNearAction(a, options)
<1>1. CASE a.kind \notin ActionKinds
  <2>1. shown.warning
    BY <1>1 DEF HandleNearAction, GetActionType, CreateAccordion
  <2>2. a.kind \notin WithAmount /\ a.kind \notin WithKey
    BY <1>1 DEF ActionKinds, ClassicKinds, WithAmount, WithKey
  <2> QED
    BY <2>1, <2>2 DEF RightlyShown
<1>2. ASSUME a.kind \in ActionKinds
      PROVE  shown.content = ActionDispatch(a, options).content /\ shown.warning = ActionDispatch(a, options).warns
  BY <1>2 DEF HandleNearAction, GetActionType, CreateAccordion
<1>3. CASE a.kind = "functionCall"
  <2>1. shown.content = FunctionCallContent(a, options)
    BY <1>2, <1>3 DEF ActionDispatch, ActionKinds, ClassicKinds
  <2>2. Beside(shown.content, "Deposit") = {FormatNearAmount(a.amount, options)}
    <3> DEFINE name == CreateTextContent("Method Name", "name")
               args == CreateTextContent("Args", DecodeFunctionCallArgs(a.args))
               gas  == CreateTextContent("Gas", "gas")
               deposit == CreateTextContent("Deposit", FormatNearAmount(a.amount, options))
    <3>1. /\ name.label # "Deposit" /\ args.label # "Deposit" /\ gas.label # "Deposit"
          /\ deposit.label = "Deposit" /\ deposit.value = FormatNearAmount(a.amount, options)
      <4>1. name.label = "Method Name" /\ gas.label = "Gas"
        BY DEF CreateTextContent
      <4>2. /\ args.label = "Args" /\ deposit.label = "Deposit"
            /\ deposit.value = FormatNearAmount(a.amount, options)
        BY TextHasItsLabel
      <4> QED
        BY <4>1, <4>2
    <3>2. shown.content = <<name, args, gas, deposit>>
      BY <2>1 DEF FunctionCallContent
    <3> HIDE DEF name, args, gas, deposit, shown
    <3>3. Beside(<<name, args, gas, deposit>>, deposit.label) = {deposit.value}
      BY <3>1, BesideFour
    <3> QED
      BY <3>1, <3>2, <3>3
  <2> QED
    BY <1>3, <2>2, AmountShown DEF RightlyShown, Grave, WithKey
<1>4. CASE a.kind = "transfer"
  <2>1. shown.content = TransferContent(a, options)
    BY <1>2, <1>4 DEF ActionDispatch, ActionKinds, ClassicKinds
  <2>2. Beside(shown.content, "Deposit") = {FormatNearAmount(a.amount, options)}
    <3> DEFINE content == TransferContent(a, options)
    <3>1. 1 \in DOMAIN content /\ (\A j \in DOMAIN content : content[j].label = "Deposit" <=> j = 1)
          /\ content[1].value = FormatNearAmount(a.amount, options)
      BY DEF TransferContent, CreateTextContent
    <3> QED
      BY <2>1, <3>1, BesideOne
  <2> QED
    BY <1>4, <2>2, AmountShown DEF RightlyShown, Grave, WithKey
<1>5. CASE a.kind = "stake"
  <2>1. shown.content = StakeContent(a, options)
    BY <1>2, <1>5 DEF ActionDispatch, ActionKinds, ClassicKinds
  <2>2. /\ Beside(shown.content, "Stake") = {FormatNearAmount(a.amount, options)}
        /\ Beside(shown.content, "Public Key") = {FormatPublicKey(a.publicKey)}
    <3> DEFINE stake == CreateTextContent("Stake", FormatNearAmount(a.amount, options))
               key == CreateTextContent("Public Key", FormatPublicKey(a.publicKey))
    <3>1. /\ stake.label = "Stake" /\ stake.value = FormatNearAmount(a.amount, options)
          /\ key.label = "Public Key" /\ key.value = FormatPublicKey(a.publicKey)
      BY TextHasItsLabel
    <3>2. shown.content = <<stake, key>>
      BY <2>1 DEF StakeContent
    <3> HIDE DEF stake, key, shown
    <3>3. /\ Beside(<<stake, key>>, stake.label) = {stake.value}
          /\ Beside(<<stake, key>>, key.label) = {key.value}
      BY <3>1, BesideTwo
    <3> QED
      BY <3>1, <3>2, <3>3
  <2> QED
    BY <1>5, <2>2, AmountShown, KeyShown DEF RightlyShown, Grave
<1>6. CASE a.kind = "addKey"
  <2>1. shown.content = AddKeyContent(a) /\ shown.warning = AddKeyWarnsWhen(a)
    BY <1>2, <1>6 DEF ActionDispatch, ActionKinds, ClassicKinds
  <2>2. Beside(shown.content, "Public Key") = {FormatPublicKey(a.publicKey)}
    <3> DEFINE key == CreateTextContent("Public Key", FormatPublicKey(a.publicKey))
               nonce == CreateTextContent("Nonce", "nonce")
               permission == IF a.fullAccess THEN Callout("full access")
                                             ELSE CreateTextContent("Permission", "function call")
    <3>1. /\ key.label = "Public Key" /\ key.value = FormatPublicKey(a.publicKey)
          /\ nonce.label # "Public Key" /\ permission.label # "Public Key"
      <4>1. key.label = "Public Key" /\ key.value = FormatPublicKey(a.publicKey)
        BY TextHasItsLabel
      <4>2. nonce.label = "Nonce"
        BY DEF CreateTextContent
      <4>3. permission.label \in {"callout", "Permission"}
        BY DEF Callout, CreateTextContent
      <4> QED
        BY <4>1, <4>2, <4>3
    <3>2. shown.content = <<key, nonce, permission>>
      BY <2>1 DEF AddKeyContent
    <3> HIDE DEF key, nonce, permission, shown
    <3>3. Beside(<<key, nonce, permission>>, key.label) = {key.value}
      BY <3>1, BesideThree
    <3> QED
      BY <3>1, <3>2, <3>3
  <2> QED
    BY <1>6, <2>1, <2>2, KeyShown DEF RightlyShown, Grave, WithAmount, AddKeyWarnsWhen
<1>7. CASE a.kind = "deleteKey"
  <2>1. shown.content = DeleteKeyContent(a) /\ shown.warning
    BY <1>2, <1>7 DEF ActionDispatch, ActionKinds, ClassicKinds
  <2>2. Beside(shown.content, "Public Key") = {FormatPublicKey(a.publicKey)}
    <3> DEFINE warning == Callout("cannot be recovered")
               key == CreateTextContent("Public Key", FormatPublicKey(a.publicKey))
    <3>1. /\ warning.label = "callout"
          /\ key.label = "Public Key" /\ key.value = FormatPublicKey(a.publicKey)
      BY TextHasItsLabel DEF Callout
    <3>2. shown.content = <<warning, key>>
      BY <2>1 DEF DeleteKeyContent
    <3> HIDE DEF warning, key, shown
    <3>3. Beside(<<warning, key>>, key.label) = {key.value}
      BY <3>1, BesideTwo
    <3> QED
      BY <3>1, <3>2, <3>3
  <2> QED
    BY <1>7, <2>1, <2>2, KeyShown DEF RightlyShown, WithAmount
<1>8. CASE a.kind \in {"deployContract", "deleteAccount", "deployGlobalContract"}
  <2>1. shown.warning
    BY <1>2, <1>8 DEF ActionDispatch, ActionKinds, ClassicKinds
  <2> QED
    BY <1>8, <2>1 DEF RightlyShown, WithAmount, WithKey
<1>9. CASE a.kind \in {"createAccount", "signedDelegate", "useGlobalContract"}
  BY <1>9 DEF RightlyShown, Grave, WithAmount, WithKey
<1> QED
  BY <1>1, <1>3, <1>4, <1>5, <1>6, <1>7, <1>8, <1>9 DEF ActionKinds, ClassicKinds

-----------------------------------------------------------------------------
(* The consent: the login.                                                 *)

ConsentTyped ==
  /\ consent \in [stage : {"login", "denied", "failed", "issued", "prompted", "shown", "resumed"},
                  scopes : SUBSET (ProfileScopes \cup {"openid", "transaction:sign"}), fatxn : Parameters]
  /\ DOMAIN form = {"name", "fields", "actions", "shown", "view", "decision"}

\* Every field of a form is one that it shows.
FormFields ==
  /\ form.name \in {"transaction", "delegate"}
  /\ form.name = "transaction" => form.fields = {"signerId", "receiverId"}
  /\ form.name = "delegate" => form.fields = {"senderId", "receiverId", "maxBlockHeight"}

ViewIsRight ==
  /\ form.shown = form.fields /\ DOMAIN form.view = DOMAIN consent.fatxn.actions
  /\ \A i \in DOMAIN form.view : RightlyShown(consent.fatxn.actions[i], form.view[i])

\* A claim is in the token only once the form has what it decodes to; the form
\* is filled before it is seen, seen before it is decided, and decided before the
\* token is issued.
ConsentInv ==
  /\ ConsentTyped
  /\ consent.stage = "login" => consent.fatxn = Absence
  /\ consent.stage \in {"prompted", "shown", "resumed"} => consent.fatxn # Absence
  /\ consent.fatxn # Absence => consent.scopes \cap ProfileScopes = {}
  /\ consent.stage = "prompted" => form.actions = consent.fatxn.actions /\ FormFields
  /\ consent.stage \in {"shown", "resumed", "issued"} /\ consent.fatxn # Absence => ViewIsRight
  /\ consent.stage = "issued" /\ consent.fatxn # Absence => form.decision = "approved"
  /\ consent.stage = "resumed" => form.decision \in {"approved", "denied"}

LEMMA PayloadsAreThere == Absence \notin Payloads
  BY AuthorizeAssumption

LEMMA ActionsOfAPayload ==
  ASSUME NEW p \in Payloads, NEW i \in DOMAIN p.actions
  PROVE  p.actions[i] \in NearActions
<1>1. p.actions \in Seq(NearActions)
  BY AuthorizeAssumption DEF PayloadTexts
<1> QED
  BY <1>1

LEMMA ConsentInitial == ConsentInit => ConsentInv
  BY PayloadsAreThere DEF ConsentInit, ConsentInv, ConsentTyped, ProfileScopes, Parameters

LEMMA ConsentDenied == ASSUME ConsentInv, Deny PROVE ConsentInv'
  BY DEF Deny, ConsentInv, ConsentTyped

LEMMA ConsentPrompted ==
  ASSUME ConsentInv, NEW payload \in Payloads, NEW decoded \in {<<>>, <<payload.actions>>},
         NEW name, NEW fields, Prompt(decoded, payload, name, fields),
         \/ name = "transaction" /\ fields = {"signerId", "receiverId"}
         \/ name = "delegate" /\ fields = {"senderId", "receiverId", "maxBlockHeight"},
         consent.stage = "login"
  PROVE  ConsentInv'
<1>1. CASE decoded = <<>>
  <2>1. consent' = [consent EXCEPT !.stage = "failed", !.scopes = @ \ ProfileScopes] /\ UNCHANGED form
    BY <1>1 DEF Prompt
  <2>2. consent'.stage = "failed" /\ consent'.fatxn = consent.fatxn /\ ConsentTyped'
    BY <2>1 DEF ConsentInv, ConsentTyped
  <2> QED
    BY <2>2 DEF ConsentInv
<1>2. CASE decoded # <<>>
  <2>1. decoded[1] = payload.actions
    BY <1>2
  <2>2. /\ consent' = [stage |-> "prompted", scopes |-> consent.scopes \ ProfileScopes, fatxn |-> payload]
        /\ form' = [form EXCEPT !.name = name, !.fields = fields, !.actions = payload.actions]
    BY <1>2, <2>1 DEF Prompt, StringifyActions
  <2>3. /\ DOMAIN form' = DOMAIN form
        /\ form'.name = name /\ form'.fields = fields /\ form'.actions = payload.actions
    BY <2>2 DEF ConsentInv, ConsentTyped
  <2>4. FormFields'
    BY <2>3 DEF FormFields
  <2>5. ConsentTyped'
    BY <2>2, <2>3 DEF ConsentInv, ConsentTyped, Parameters
  <2> QED
    BY <2>2, <2>3, <2>4, <2>5, PayloadsAreThere DEF ConsentInv
<1> QED
  BY <1>1, <1>2

LEMMA ConsentAsked ==
  ASSUME ConsentInv, NEW onchain \in BOOLEAN, NEW transaction \in Parameters, NEW delegate \in Parameters,
         OnExecutePostLogin(onchain, transaction, delegate)
  PROVE  ConsentInv'
<1> DEFINE signing == transaction # Absence \/ delegate # Absence
<1>1. CASE onchain # signing
  BY <1>1, ConsentDenied DEF OnExecutePostLogin
<1>2. CASE ~onchain /\ ~signing
  BY <1>2 DEF OnExecutePostLogin, ConsentInv, ConsentTyped
<1>3. CASE onchain /\ transaction # Absence
  <2>1. /\ consent.stage = "login"
        /\ Prompt(ParseTransaction(transaction), transaction, "transaction", {"signerId", "receiverId"})
    BY <1>3 DEF OnExecutePostLogin
  <2>2. ParseTransaction(transaction) \in {<<>>, <<transaction.actions>>} /\ transaction \in Payloads
    BY <1>3 DEF ParseTransaction, Parameters
  <2> QED
    BY <2>1, <2>2, ConsentPrompted
<1>4. CASE onchain /\ transaction = Absence /\ delegate # Absence
  <2>1. /\ consent.stage = "login"
        /\ Prompt(DecodeDelegateAction(delegate), delegate, "delegate",
                  {"senderId", "receiverId", "maxBlockHeight"})
    BY <1>4 DEF OnExecutePostLogin
  <2>2. DecodeDelegateAction(delegate) \in {<<>>, <<delegate.actions>>} /\ delegate \in Payloads
    BY <1>4 DEF DecodeDelegateAction, Parameters
  <2> QED
    BY <2>1, <2>2, ConsentPrompted
<1> QED
  BY <1>1, <1>2, <1>3, <1>4

LEMMA ConsentShown ==
  ASSUME ConsentInv, NEW fields, NEW options \in Convert, consent.stage = "prompted",
         RenderDetails(fields, options), form.fields \subseteq fields
  PROVE  ConsentInv'
<1> DEFINE actions == consent.fatxn.actions
           view    == [i \in DOMAIN actions |-> HandleNearAction(actions[i], options)]
<1>1. consent.fatxn \in Payloads /\ form.actions = actions
  BY DEF ConsentInv, ConsentTyped, Parameters
<1>2. /\ consent' = [consent EXCEPT !.stage = "shown"]
      /\ form' = [form EXCEPT !.shown = form.fields, !.view = view]
  <2>1. fields \cap form.fields = form.fields
    OBVIOUS
  <2> QED
    BY <1>1, <2>1 DEF RenderDetails
<1>3. /\ consent'.stage = "shown" /\ consent'.fatxn = consent.fatxn /\ consent'.scopes = consent.scopes
      /\ ConsentTyped'
  BY <1>2 DEF ConsentInv, ConsentTyped
<1>4. form'.shown = form'.fields /\ form'.view = view
  BY <1>2 DEF ConsentInv, ConsentTyped
<1>5. \A i \in DOMAIN view : RightlyShown(actions[i], view[i])
  BY <1>1, ActionsOfAPayload, ActionShown
<1>6. ViewIsRight'
  BY <1>3, <1>4, <1>5 DEF ViewIsRight
<1> QED
  BY <1>3, <1>6 DEF ConsentInv

LEMMA ConsentNextInv == ConsentInv /\ [ConsentNext]_consentVars => ConsentInv'
<1> SUFFICES ASSUME ConsentInv, [ConsentNext]_consentVars PROVE ConsentInv'
  OBVIOUS
<1>1. ASSUME NEW b \in BOOLEAN, NEW t \in Parameters, NEW d \in Parameters, OnExecutePostLogin(b, t, d)
      PROVE  ConsentInv'
  BY <1>1, ConsentAsked
<1>2. CASE TransactionDetails
  <2>1. form.fields \subseteq {"signerId", "receiverId"}
    BY <1>2 DEF TransactionDetails, ConsentInv, FormFields
  <2>2. [showYoctoConversion |-> TRUE] \in Convert
    BY DEF Convert
  <2> QED
    BY <1>2, <2>1, <2>2, ConsentShown DEF TransactionDetails
<1>3. CASE DelegateActionDetails
  <2>1. form.fields \subseteq {"senderId", "receiverId", "maxBlockHeight"}
    BY <1>3 DEF DelegateActionDetails, ConsentInv, FormFields
  <2>2. [showYoctoConversion |-> FALSE] \in Convert
    BY DEF Convert
  <2> QED
    BY <1>3, <2>1, <2>2, ConsentShown DEF DelegateActionDetails
<1>4. ASSUME NEW d \in {"approved", "denied"}, Decide(d)
      PROVE  ConsentInv'
  <2>1. /\ consent.stage = "shown" /\ consent'.stage = "resumed"
        /\ consent'.fatxn = consent.fatxn /\ consent'.scopes = consent.scopes
        /\ form'.shown = form.shown /\ form'.fields = form.fields /\ form'.view = form.view
        /\ form'.decision = d
    BY <1>4 DEF Decide, ConsentInv, ConsentTyped
  <2>2. ConsentTyped'
    BY <1>4 DEF Decide, ConsentInv, ConsentTyped
  <2>3. ViewIsRight'
    BY <2>1 DEF ConsentInv, ViewIsRight
  <2> QED
    BY <2>1, <2>2, <2>3 DEF ConsentInv
<1>5. CASE OnContinuePostLogin
  <2>1. CASE IsDenied(form.decision)
    BY <1>5, <2>1, ConsentDenied DEF OnContinuePostLogin
  <2>2. CASE ~IsDenied(form.decision)
    <3>1. /\ consent.stage = "resumed" /\ consent' = [consent EXCEPT !.stage = "issued"] /\ UNCHANGED form
      BY <1>5, <2>2 DEF OnContinuePostLogin
    <3>2. /\ consent'.stage = "issued" /\ consent'.fatxn = consent.fatxn
          /\ consent'.scopes = consent.scopes /\ ConsentTyped'
      BY <3>1 DEF ConsentInv, ConsentTyped
    <3>3. ViewIsRight'
      BY <3>1, <3>2 DEF ConsentInv, ViewIsRight
    <3> QED
      BY <2>2, <3>1, <3>2, <3>3 DEF ConsentInv, IsDenied
  <2> QED
    BY <2>1, <2>2
<1>6. CASE UNCHANGED consentVars
  BY <1>6 DEF consentVars, ConsentInv, ConsentTyped, FormFields, ViewIsRight
<1> QED
  BY <1>1, <1>2, <1>3, <1>4, <1>5, <1>6 DEF ConsentNext

\* For any payloads and amounts: a token whose claim signs was approved by a user
\* who was shown the very payload in the claim, each action with the warning, the
\* amount and the key that it has (authorize-app.action.js:227-299,
\* helpers/index.js:358-501).
THEOREM TheUserSawIt == ConsentSpec => []SignedAsShown
<1>1. ConsentInv => SignedAsShown
  BY DEF ConsentInv, SignedAsShown, Signs, ViewIsRight, RightlyShown
<1> QED
  BY <1>1, ConsentInitial, ConsentNextInv, PTL DEF ConsentSpec
================================================================================
