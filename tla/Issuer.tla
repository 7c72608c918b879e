------------------------------- MODULE Issuer -------------------------------
(***************************************************************************)
(* The custom issuer in NestJS (apps/custom-issuer): KeyService keeps the  *)
(* public keys that verify incoming tokens and refreshes them from a URL,  *)
(* IssuerService exchanges a valid token for one of its own. A refresh is  *)
(* started by whoever finds the keys old and nobody waits for it: several  *)
(* may be under way, and they end in any order.                            *)
(***************************************************************************)
EXTENDS Integers

CONSTANTS
  Fetch,            \* refreshes that may be under way together (a bound)
  RefreshInterval,  \* KeyService.REFRESH_INTERVAL_MS
  MaxPublished,     \* how often the published keys change (a bound)
  MaxClock,         \* seconds counted for the tokens' times (a bound)
  IgnoreExpiration, \* issuerConfig.ignoreExpiration
  Shapes,           \* the responses the URL gives
  InputTokens       \* the tokens that are sent for exchange

\* A response: its status, whether it says it is JSON, and what is in it.
ResponseShapes == [ok : BOOLEAN, json : BOOLEAN,
                   body : {"certificates", "a broken certificate", "pem", "jwks", "other"}]

\* A token: the published key that signed it, its issuer and subject, exp and
\* nbf where it has them (Absent where not, Odd where they are no integers).
Absent == -1
Odd == -2
TokenTimes == (0 .. MaxClock + 1) \cup {Absent, Odd}
JwtTokens == [key : 0 .. MaxPublished + 1, iss : BOOLEAN, sub : BOOLEAN, exp : TokenTimes, nbf : TokenTimes]

ASSUME IssuerAssumption ==
  /\ RefreshInterval \in Nat /\ MaxPublished \in Nat /\ MaxClock \in Nat /\ IgnoreExpiration \in BOOLEAN
  /\ Shapes \subseteq ResponseShapes /\ InputTokens \subseteq JwtTokens

VARIABLES
  published,    \* the version of the keys behind the URL; version v holds v and v + 1
  stored,       \* validationPublicKeys: a version, or what else was installed
  sinceUpdate,  \* time since lastUpdateTime, up to RefreshInterval + 1
  refresh,      \* loadKeys of each refresh
  clock,        \* getCurrentTimestamp
  lastIssued    \* the last exchange: the token, the answer, when, and with which keys

issuerVars == <<published, stored, sinceUpdate, refresh, clock, lastIssued>>

NoKeys == -1   \* no keys yet
Junk == -2   \* one "key" that verifies nothing

NotRefreshing == [stage |-> "none", version |-> NoKeys]
NothingIssued == [token |-> "none", exp |-> Absent, nbf |-> Absent, at |-> 0, keys |-> NoKeys]

\* onModuleInit has started the first load; nothing is served before it ends.
IssuerInit ==
  /\ published = 0 /\ stored = NoKeys /\ sinceUpdate = RefreshInterval + 1
  /\ refresh \in {[f \in Fetch |-> IF f = g THEN [NotRefreshing EXCEPT !.stage = "asked"] ELSE NotRefreshing] : g \in Fetch}
  /\ clock = 0 /\ lastIssued = NothingIssued

PublishKeys ==
  /\ published < MaxPublished
  /\ published' = published + 1
  /\ UNCHANGED <<stored, sinceUpdate, refresh, clock, lastIssued>>

\* extractPublicKeyFromCertificate throws unless it has both of its marks.
CertificateIsWhole(body) == body # "a broken certificate"

\* parseFirebasePublicKeys: certificates only, and all of them well formed.
ParseFirebase(body, version) ==
  IF body \in {"certificates", "a broken certificate"} /\ CertificateIsWhole(body) THEN version ELSE NoKeys

\* loadPublicKeysFromUrl: a text with a PEM in it is taken as a single key.
LoadPublicKeys(shape, version) ==
  IF ~shape.ok THEN NoKeys
  ELSE IF shape.json THEN ParseFirebase(shape.body, version)
  ELSE IF shape.body \in {"certificates", "a broken certificate"} THEN Junk
  ELSE IF shape.body = "pem" THEN version
  ELSE ParseFirebase(shape.body, version)

\* The URL answers with what is published now.
UrlAnswers(f, shape) ==
  /\ refresh[f].stage = "asked"
  /\ refresh' = [refresh EXCEPT ![f] = [stage |-> "answered", version |-> LoadPublicKeys(shape, published)]]
  /\ UNCHANGED <<published, stored, sinceUpdate, clock, lastIssued>>

\* A refresh that failed leaves the keys as they are.
Installed(version) == IF version = NoKeys THEN stored ELSE version

\* loadKeys ends; the first load failing ends the process, which is restarted.
RefreshEnds(f) ==
  /\ refresh[f].stage = "answered"
  /\ stored' = Installed(refresh[f].version)
  /\ sinceUpdate' = IF refresh[f].version = NoKeys THEN sinceUpdate ELSE 0
  /\ refresh' = [refresh EXCEPT ![f] = IF stored' = NoKeys THEN [NotRefreshing EXCEPT !.stage = "asked"] ELSE NotRefreshing]
  /\ UNCHANGED <<published, clock, lastIssued>>

\* Mutant: a refresh is started once, when the first keys are old.
RefreshOnce == sinceUpdate > RefreshInterval /\ stored = 0

RefreshIsDue == sinceUpdate > RefreshInterval

\* getValidationPublicKeys, for a token or for readyz: throws without keys, and
\* starts a refresh of its own when they are old.
GetValidationPublicKeys ==
  /\ stored # NoKeys
  /\ IF RefreshIsDue
     THEN \E f \in Fetch : /\ refresh[f].stage = "none"
                           /\ refresh' = [refresh EXCEPT ![f].stage = "asked"]
     ELSE UNCHANGED refresh

Readyz == GetValidationPublicKeys /\ UNCHANGED <<published, stored, sinceUpdate, clock, lastIssued>>

KeysOf(version) == IF version < 0 THEN {} ELSE {version, version + 1}

ExpirationClaim(exp, now) == exp # Odd /\ exp > now
NotBeforeClaim(nbf, now) == nbf # Odd /\ nbf <= now
TimeClaimConsistency(exp, nbf) == exp > nbf

\* validateTimeClaims.
LiveAt(token, now) ==
  /\ token.exp # Absent => ExpirationClaim(token.exp, now)
  /\ token.nbf # Absent => NotBeforeClaim(token.nbf, now)
  /\ token.exp # Absent /\ token.nbf # Absent => TimeClaimConsistency(token.exp, token.nbf)

\* Mutant: verified without its times.
SignedOnly(token) == token.key \in KeysOf(stored) /\ token.iss /\ token.sub

\* jwt.verify with any of the keys, which looks at nbf whatever the configuration.
VerifyAndDecode(token) ==
  /\ token.key \in KeysOf(stored)
  /\ token.nbf # Absent => NotBeforeClaim(token.nbf, clock)
  /\ ~IgnoreExpiration /\ token.exp # Absent => ExpirationClaim(token.exp, clock)

\* extractAndValidateClaims.
ClaimsAreValid(token) ==
  /\ token.sub /\ token.iss
  /\ ~IgnoreExpiration => LiveAt(token, clock)

Acceptable(token) == VerifyAndDecode(token) /\ ClaimsAreValid(token)

\* buildTokenPayload: the times are those of the token, or there are none.
BuildTokenPayload(token) == [token |-> token, exp |-> token.exp, nbf |-> token.nbf, at |-> clock, keys |-> stored]

\* issueToken, one turn of the event loop.
IssueToken(token) ==
  /\ GetValidationPublicKeys
  /\ lastIssued' = IF Acceptable(token) THEN BuildTokenPayload(token) ELSE lastIssued
  /\ UNCHANGED <<published, stored, sinceUpdate, clock>>

IssuerTick ==
  /\ clock' = IF clock < MaxClock THEN clock + 1 ELSE clock
  /\ sinceUpdate' = IF sinceUpdate > RefreshInterval THEN sinceUpdate ELSE sinceUpdate + 1
  /\ UNCHANGED <<published, stored, refresh, lastIssued>>

IssuerNext ==
  \/ PublishKeys \/ Readyz \/ IssuerTick
  \/ \E token \in InputTokens : IssueToken(token)
  \/ \E f \in Fetch : RefreshEnds(f) \/ \E shape \in Shapes : UrlAnswers(f, shape)

\* Time passes, probes keep coming, and the URL answers with certificates often enough.
IssuerSpec ==
  /\ IssuerInit /\ [][IssuerNext]_issuerVars
  /\ WF_issuerVars(IssuerTick) /\ WF_issuerVars(Readyz)
  /\ \A f \in Fetch : /\ WF_issuerVars(RefreshEnds(f))
                      /\ WF_issuerVars(\E shape \in Shapes : UrlAnswers(f, shape))
                      /\ SF_issuerVars(\E shape \in Shapes : LoadPublicKeys(shape, published) >= 0 /\ UrlAnswers(f, shape))

------------------------------------------------------------------------------
IssuerTypeOK ==
  /\ published \in 0 .. MaxPublished /\ stored \in {NoKeys, Junk} \cup (0 .. MaxPublished)
  /\ sinceUpdate \in 0 .. RefreshInterval + 1 /\ clock \in 0 .. MaxClock
  /\ refresh \in [Fetch -> [stage : {"none", "asked", "answered"}, version : {NoKeys, Junk} \cup (0 .. MaxPublished)]]
  /\ lastIssued = NothingIssued \/ lastIssued.token \in InputTokens

\* A token that was exchanged had been published as verifiable, was live when it
\* was exchanged, and the answer has exactly its lifetime
\* (issuer.service.ts:59-73, 75-143, 162-178).
ExchangesLiveTokens ==
  lastIssued # NothingIssued =>
    /\ lastIssued.token.key <= published + 1
    /\ lastIssued.exp = lastIssued.token.exp /\ lastIssued.nbf = lastIssued.token.nbf
    /\ lastIssued.nbf <= lastIssued.at
    /\ ~IgnoreExpiration /\ lastIssued.exp >= 0 => lastIssued.exp > lastIssued.at

\* However old the answers still under way, once the published keys have settled
\* the service ends up with the last ones for good (key.service.ts:175-179).
KeysConverge == published = MaxPublished ~> [](stored = published)
=============================================================================
