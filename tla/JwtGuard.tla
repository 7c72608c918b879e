------------------------------ MODULE JwtGuard ------------------------------
(***************************************************************************)
(* What a JWT guard answers (contracts/jwt-guards): base-jwt-guard checks   *)
(* the signature and the standard claims, and the two guards built on it   *)
(* add their own claims.  A guard's verify method only reads its state, so *)
(* it is a function of the guard's keys, its account and the time.         *)
(*                                                                         *)
(* A token is a record: signer is the key its signature verifies with, or  *)
(* none of the installed ones for a forged or a malformed token, for which *)
(* decode_jwt returns three empty strings.  RS256 is taken to be sound.    *)
(***************************************************************************)
EXTENDS Naturals, Sequences, SequencesExt

CONSTANT NoString   \* the empty string

\* The two contracts that implement the trait.
GuardKind == {"auth0", "custom"}

Answer(shape, ok, user) == [shape |-> shape, ok |-> ok, user |-> user]

\* A pair whose string says why the token was refused; the reason is left out.
Refusal == Answer("pair", FALSE, NoString)

\* The call that panicked.
Panic == Answer("failed", FALSE, NoString)

AnySignature(keys, jwt) == TRUE  \* mutant: the signature is not checked

\* verify_token: any of the installed keys will do.
VerifyToken(keys, jwt) == jwt.signer \in ToSet(keys)

AnyAudience(aud, expected) == TRUE  \* mutant: any audience will do

\* audience_matches: aud is a string, or an array of them.
AudienceMatches(aud, expected) == expected \in aud

\* verify_custom_claims of the Auth0 guard: the token is for the guard's own
\* account and carries the payload.
Auth0Claims(account, jwt, payload) ==
  AudienceMatches(jwt.aud, account) /\ jwt.fatxn = payload

\* verify_custom_claims of the custom issuer guard.
CustomIssuerClaims(jwt, payload) == jwt.fatxn = payload

VerifyCustomClaims(kind, account, jwt, payload) ==
  IF kind = "auth0" THEN Auth0Claims(account, jwt, payload)
                    ELSE CustomIssuerClaims(jwt, payload)

AnyIssuer(issuer, jwt, now) ==  \* mutant: the issuer is not compared
  now < jwt.exp /\ jwt.nbf <= now

\* verify_claims, after the custom ones.
StandardClaims(issuer, jwt, now) ==
  /\ now < jwt.exp
  /\ jwt.nbf <= now
  /\ jwt.iss = issuer

VerifyClaims(kind, account, issuer, jwt, payload, now) ==
  /\ jwt.parsed
  /\ VerifyCustomClaims(kind, account, jwt, payload)
  /\ StandardClaims(issuer, jwt, now)

\* internal_verify.  A signature longer than the 2048 bits of a modulus makes
\* the first key it is tried with panic.
InternalVerify(keys, kind, account, issuer, jwt, payload, now) ==
  IF jwt.tooLong THEN Refusal
  ELSE IF jwt.longSignature /\ keys # << >> THEN Panic
  ELSE IF /\ VerifyToken(keys, jwt)
          /\ VerifyClaims(kind, account, issuer, jwt, payload, now)
       THEN Answer("pair", TRUE, jwt.sub)
       ELSE Refusal
=============================================================================
