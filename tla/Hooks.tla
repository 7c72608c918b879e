-------------------------------- MODULE Hooks --------------------------------
(***************************************************************************)
(* The React SDK's FastAuthProvider component and its hooks: useSigner and *)
(* useIsLoggedIn fetch from the client of the context, usePublicKey from   *)
(* the signer that its useSigner last got. An effect starts a fetch when   *)
(* what it fetches from changes, refetch starts one at any time; nothing   *)
(* cancels a fetch, and each one sets the hook's state when it ends.       *)
(* A hook's source and value are the version of the client they stem from. *)
(***************************************************************************)
EXTENDS Integers

CONSTANTS
  Fetching,    \* fetches that may be made
  MaxVersions, \* how often the component's props change (a bound)
  AutoFetch    \* autoFetch, autoCheck

ASSUME HooksAssumption == MaxVersions \in Nat /\ AutoFetch \in BOOLEAN

VARIABLES
  context,  \* FastAuthProvider: the props' version, whether its effect is due, client and isReady
  hook,     \* each hook's state: value and the fetch that made it, isLoading, error
  due,      \* the hooks whose effect has to run after the render
  fetch,    \* the fetches
  hookRaced \* history: whether a hook's last fetch overlapped another one of it or a
            \* change of what it fetches from

hooksVars == <<context, hook, due, fetch, hookRaced>>

HookIds == {"signer", "isLoggedIn", "publicKey"}
Nothing == 0
ErrorValue == -1  \* what a failure leaves: null, or for useIsLoggedIn false
NoOne == 0

NoFetch == [stage |-> "new", hook |-> "signer", from |-> Nothing]

HooksInit ==
  /\ context = [props |-> 1, due |-> TRUE, client |-> Nothing, isReady |-> FALSE]
  /\ hook = [h \in HookIds |-> [value |-> Nothing, by |-> NoOne, isLoading |-> FALSE, error |-> FALSE]]
  /\ due = HookIds
  /\ fetch = [f \in Fetching |-> NoFetch]
  /\ hookRaced = [h \in HookIds |-> FALSE]

\* What a hook fetches from: Nothing while the context is not ready, or while
\* there is no signer.
SourceOf(h, ctx, hooks) ==
  IF h = "publicKey" THEN (IF hooks["signer"].value > 0 THEN hooks["signer"].value ELSE Nothing)
  ELSE IF ctx.isReady THEN ctx.client ELSE Nothing

InFlight(h) == {f \in Fetching : fetch[f].stage = "fetching" /\ fetch[f].hook = h}

\* Mutant: the effects run on mount only.
OnlyOnMount(h, ctx, hooks) == FALSE

\* A signer that was fetched again is another object, of the same client or not.
Changed(h, ctx, hooks) ==
  \/ SourceOf(h, ctx, hooks) # SourceOf(h, context, hook)
  \/ h = "publicKey" /\ hooks["signer"].by # hook["signer"].by

\* A state that was set is rendered, and the effects whose dependencies changed
\* are due; done are those that ran, begun the hooks with a new fetch.
Render(ctx, hooks, done, begun) ==
  /\ context' = ctx /\ hook' = hooks
  /\ due' = (due \ done) \cup {h \in HookIds : Changed(h, ctx, hooks)}
  /\ hookRaced' = [h \in HookIds |-> IF h \in begun THEN InFlight(h) # {}
                                 ELSE hookRaced[h] \/ (Changed(h, ctx, hooks) /\ InFlight(h) # {})]

\* The component's effect, on mount and when its props change: a new client, or
\* none when the network has no contracts; the old client then stays.
ProviderEffect(ok) ==
  /\ context.due
  /\ Render(IF ok THEN [context EXCEPT !.due = FALSE, !.client = context.props, !.isReady = TRUE]
                  ELSE [context EXCEPT !.due = FALSE, !.isReady = FALSE], hook, {}, {})
  /\ UNCHANGED fetch

PropsChange ==
  /\ context.props < MaxVersions /\ ~context.due
  /\ context' = [context EXCEPT !.props = @ + 1, !.due = TRUE]
  /\ UNCHANGED <<hook, due, fetch, hookRaced>>

Loading(state) == [state EXCEPT !.isLoading = TRUE, !.error = FALSE]

\* The head of fetchSigner, checkLoginStatus and fetchPublicKey.
BeginFetch(h, f, done) ==
  LET from == SourceOf(h, context, hook) IN
  IF from = Nothing
  THEN Render(context, [hook EXCEPT ![h].value = Nothing], done, {}) /\ UNCHANGED fetch
  ELSE /\ fetch[f].stage = "new"
       /\ fetch' = [fetch EXCEPT ![f] = [stage |-> "fetching", hook |-> h, from |-> from]]
       /\ Render(context, [hook EXCEPT ![h] = Loading(@)], done, {h})

\* The effect of a hook, after a render.
HookEffect(h, f) ==
  /\ h \in due
  /\ IF AutoFetch \/ SourceOf(h, context, hook) = Nothing THEN BeginFetch(h, f, {h})
     ELSE Render(context, hook, {h}, {}) /\ UNCHANGED fetch

Refetch(h, f) == BeginFetch(h, f, {})

FailedState(state) == [state EXCEPT !.error = TRUE, !.value = ErrorValue]

\* Mutant: a failure leaves the hook loading.
OnSuccess(state) == [state EXCEPT !.isLoading = state.error]

NotLoading(state) == [state EXCEPT !.isLoading = FALSE]

\* A fetch ends; finally clears isLoading, whoever set it.
FetchEnds(f, ok) ==
  /\ fetch[f].stage = "fetching"
  /\ LET h == fetch[f].hook
         state == IF ok THEN [hook[h] EXCEPT !.value = fetch[f].from, !.by = f] ELSE FailedState(hook[h])
     IN Render(context, [hook EXCEPT ![h] = NotLoading(state)], {}, {})
  /\ fetch' = [fetch EXCEPT ![f].stage = "done"]

HooksNext ==
  \/ ProviderEffect(TRUE) \/ ProviderEffect(FALSE) \/ PropsChange
  \/ \E f \in Fetching :
       \/ FetchEnds(f, TRUE) \/ FetchEnds(f, FALSE)
       \/ \E h \in HookIds : HookEffect(h, f) \/ Refetch(h, f)

\* Effects run and what was asked is answered.
HooksFairness ==
  /\ WF_hooksVars(ProviderEffect(TRUE) \/ ProviderEffect(FALSE))
  /\ \A f \in Fetching : WF_hooksVars(FetchEnds(f, TRUE) \/ FetchEnds(f, FALSE))
  /\ \A h \in HookIds : WF_hooksVars(\E f \in Fetching : HookEffect(h, f))

HooksSpec == HooksInit /\ [][HooksNext]_hooksVars /\ HooksFairness

------------------------------------------------------------------------------
\* When everything has settled a hook shows what stems from the current client,
\* or nothing, unless its fetches, or those of the signer under it, overlapped
\* (use-signer.tsx:61-67, use-public-key.tsx:63-69).
ShowsTheCurrentClient ==
  \A h \in HookIds :
    AutoFetch /\ due = {} /\ (\A k \in HookIds : InFlight(k) = {} /\ ~hookRaced[k])
      => hook[h].value \in {ErrorValue, SourceOf(h, context, hook)}

\* The hooks come to rest, and none is left loading (use-signer.tsx:56-58).
HooksComeToRest == <>[](\A h \in HookIds : ~hook[h].isLoading)
=============================================================================
