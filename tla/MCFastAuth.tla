----------------------------- MODULE MCFastAuth -----------------------------
(* Values for model checking FastAuth.                                     *)
EXTENDS FastAuth, TLC

\* "jwt" and "jwt#a" as guard ids and "u" and "a#u" as users: two ways of
\* cutting the same path.  "" and "#a" have an empty prefix.
MCSegment == {"", "jwt", "a", "u", "long"}
MCGuardIds == {<<"jwt">>, <<"jwt", "a">>, <<"", "a">>}
MCUsers == {<<"u">>, <<"a", "u">>, <<"long">>}

MCPrefixes == {<<"jwt">>}

Symmetry == Permutations(CallId)
=============================================================================
