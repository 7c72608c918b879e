------------------------------ MODULE MCRelaying ------------------------------
(* The relayer, and the example application that has it sign and send: they   *)
(* meet over HTTP, and each takes the other for an environment that may       *)
(* answer anything. focus says which one a behaviour is about.                *)
EXTENDS Relayer, Spa

VARIABLE focus

mcVars == <<focus, relayerVars, spaVars>>

Of(kind, algorithm) == [kind |-> kind, algorithm |-> algorithm, guard |-> TRUE, issuer |-> TRUE,
                        payload |-> TRUE, action |-> "plain"]
MCBodies == {Of("sign", "eddsa"), Of("delegate", "eddsa"), Of("delegate", "ecdsa"),
             [Of("sign", "eddsa") EXCEPT !.issuer = FALSE], [Of("delegate", "eddsa") EXCEPT !.action = "broken"]}

MCProviderTypes == <<"firebase", "auth0">>

MCInit == focus \in {"relayer", "spa"} /\ RelayerInit /\ SpaInit

MCNext ==
  /\ UNCHANGED focus
  /\ \/ focus = "relayer" /\ RelayerNext /\ UNCHANGED spaVars
     \/ focus = "spa" /\ SpaNext /\ UNCHANGED relayerVars

MCSpec == MCInit /\ [][MCNext]_mcVars
================================================================================
