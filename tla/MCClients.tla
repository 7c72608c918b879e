------------------------------- MODULE MCClients -------------------------------
(* The React SDK over the three providers, its hooks, and the Auth0 tenant's  *)
(* action and form, side by side: focus says which one a behaviour is about.  *)
EXTENDS Sdk, Hooks, AuthorizeApp

VARIABLE focus

mcVars == <<focus, sdkVars, hooksVars, consentVars>>

MCApp == {<<"app", 1>>}
MCOp == (CallId \X Parts) \cup AppOp

\* Every kind of action with amounts around the threshold, alone and before a
\* grave one; and what is not what it says, or is not made of bytes.
Act(kind, amount, fullAccess, key, args) ==
  [kind |-> kind, amount |-> amount, fullAccess |-> fullAccess, publicKey |-> key, args |-> args]
Acts == {Act(k, 0, FALSE, "ed25519", "none") : k \in ActionKinds \cup {"newer"}}
         \cup {Act(k, n, FALSE, "secp256k1", "JSON") : k \in WithAmount, n \in Amounts}
         \cup {Act("addKey", 0, TRUE, "secp256k1", "none"), Act("functionCall", 0, FALSE, "ed25519", "text")}
Holding(holds, acts) == [holds |-> holds, actions |-> acts, bytes |-> TRUE]
MCPayloads ==
  {Holding("transaction", <<a>>) : a \in Acts}
    \cup {Holding("transaction", <<a, Act("deleteKey", 0, FALSE, "secp256k1", "none")>>) : a \in Acts}
    \cup {Holding("delegate action", <<a>>) : a \in {b \in Acts : b.kind \in ClassicKinds}}
    \cup {Holding("neither", <<>>), [Holding("transaction", <<>>) EXCEPT !.bytes = FALSE]}

MCInit ==
  /\ focus \in {"sdk", "hooks", "consent"}
  /\ SdkInit /\ HooksInit /\ ConsentInit
  /\ focus # "sdk" => provider = "javascript"

MCNext ==
  /\ UNCHANGED focus
  /\ \/ focus = "sdk" /\ SdkNext /\ UNCHANGED <<hooksVars, consentVars>>
     \/ focus = "hooks" /\ HooksNext /\ UNCHANGED <<sdkVars, consentVars>>
     \/ focus = "consent" /\ ConsentNext /\ UNCHANGED <<sdkVars, hooksVars>>

\* The fairness of each component, where it is the one that runs.
MCSpec ==
  /\ MCInit /\ [][MCNext]_mcVars
  /\ \A c \in CallId : WF_sdkVars(focus = "sdk" /\ CallGoesOn(c) /\ UNCHANGED provider)
  /\ \A o \in Op : WF_sdkVars(focus = "sdk" /\ ProviderGoesOn(o) /\ UNCHANGED provider)
  /\ WF_hooksVars(focus = "hooks" /\ (ProviderEffect(TRUE) \/ ProviderEffect(FALSE)))
  /\ \A f \in Fetching : WF_hooksVars(focus = "hooks" /\ (FetchEnds(f, TRUE) \/ FetchEnds(f, FALSE)))
  /\ \A h \in HookIds : WF_hooksVars(focus = "hooks" /\ \E f \in Fetching : HookEffect(h, f))
================================================================================
