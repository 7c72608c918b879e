----------------------------- MODULE MCSignFlow -----------------------------
(* Values for model checking SignFlow.                                     *)
EXTENDS SignFlow, TLC

MCSegment == {"", "jwt", "a", "b", "u"}
MCPrefixes == {<<"jwt">>}
MCGuardIds == {<<"jwt", "a">>, <<"jwt", "b">>}
MCGuardNames == {<<"a">>, <<"b">>}
MCUsers == {<<"">>, <<"u">>, <<"b", "u">>}

\* Two guards that may hold the same key.
MCKindOf == ("g1" :> "auth0") @@ ("g2" :> "custom")
MCKeyLists == {<<"k1">>, <<"k2">>}

Token(signer, iss, sub, nbf, exp, aud, fatxn) ==
  [tooLong |-> FALSE, longSignature |-> FALSE, parsed |-> TRUE, signer |-> signer,
   iss |-> iss, sub |-> sub, nbf |-> nbf, exp |-> exp, aud |-> aud, fatxn |-> fatxn]

TokenA == Token("k1", <<"a">>, <<"u">>, 0, 1, {"g1"}, "tx")

\* Another issuer's, not valid at once; one with a '#' in its subject; one for
\* another audience; one whose signature is too long; one that is too long.
MCTokens ==
  {TokenA,
   Token("k1", <<"b">>, <<"u">>, 1, 2, {"g1"}, "tx"),
   Token("k2", <<"a">>, <<"b", "u">>, 0, 2, {"g1"}, "tx"),
   Token("k2", <<"a">>, <<"u">>, 0, 2, {"g2"}, "other"),
   [TokenA EXCEPT !.longSignature = TRUE],
   [TokenA EXCEPT !.tooLong = TRUE]}

\* One call, for the run with FastAuth's owner at work.
OneToken == {TokenA}
OneGuardId == {<<"jwt", "a">>}
OneGuardName == {<<"a">>}
=============================================================================
