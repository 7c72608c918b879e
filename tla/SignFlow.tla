------------------------------ MODULE SignFlow ------------------------------
(***************************************************************************)
(* FastAuth, the JWT guard router and the JWT guards together: the whole   *)
(* chain of receipts from a sign or verify call to its end.                *)
(*                                                                         *)
(*   sign -> router.verify -> guard.verify -> router.on_verify_callback    *)
(*        -> on_verify_sign_callback -> MPC sign -> on_sign_callback       *)
(*                                                                         *)
(* Between any two receipts a guard's keys are replaced, a name is added   *)
(* to the router or removed from it, and time passes.                      *)
(***************************************************************************)
EXTENDS FastAuth

CONSTANTS
  RouterAddress,  \* the router's account
  GuardAccount,   \* the accounts of JWT guards
  KindOf,         \* which of the two guards each of them is
  GuardNames,     \* the names the router's add_guard is called with (bound)
  Jwt,            \* the string "jwt"
  KeyLists,       \* the valid key lists the guards' owners install (bound)
  MaxTime,        \* last value of the clock (bound)
  Admins          \* accounts that call FastAuth's owner methods (bound)

NoString == <<EmptySegment>>

\* Every subject of a token, and the empty string of a refusal, is a user id
\* that a guard may answer with; the times of a token are numbers.
ASSUME FlowAssumption ==
  /\ NoString \in Users
  /\ \A jwt \in Tokens : jwt.sub \in Users /\ jwt.nbf \in Nat /\ jwt.exp \in Nat
  /\ RouterAddress \in Address /\ RouterAddress # Self
  /\ GuardNames \subseteq String
  /\ MaxTime \in Nat
  /\ Admins \subseteq Account

VARIABLES
  routerOwner, routerGuards, hops,
  guardKeys,  \* public_keys of each guard
  now,        \* block time
  since       \* history: when a call was made, and the keys installed since

Router == INSTANCE JwtGuardRouter WITH
  HopId <- CallId, NoHop <- None, owner <- routerOwner, guards <- routerGuards

routerVars == <<routerOwner, routerGuards, hops>>
guardVars == <<guardKeys, now, since>>
flowVars == <<vars, routerVars, guardVars>>

Installed(keys) ==
  {pair \in GuardAccount \X UNION {Router!ToSet(keys[g]) : g \in GuardAccount} :
     pair[2] \in Router!ToSet(keys[pair[1]])}

FlowInit ==
  /\ Init
  /\ Router!Init
  /\ guardKeys \in [GuardAccount -> KeyLists]
  /\ now = 0
  /\ since = [c \in CallId |-> None]

-----------------------------------------------------------------------------
(* The receipts, each naming the handler that runs.                        *)

Call(c, caller) ==
  /\ NewCall(c, caller)
  /\ since' = [since EXCEPT ![c] = [time |-> now, keys |-> Installed(guardKeys)]]
  /\ UNCHANGED <<routerVars, guardKeys, now>>

AtRouter(c) ==
  stage[c] = "verifying" /\ args[c].guard = RouterAddress /\ hops[c] = None

\* router.verify: calls the guard, or panics.
RouterVerify(c) ==
  /\ AtRouter(c)
  /\ \/ /\ Router!Forward(c, args[c].guardId, args[c].token, args[c].payload)
        /\ UNCHANGED <<vars, guardVars>>
     \/ /\ ~Router!Routable(args[c].guardId)
        /\ GuardReply(c, Failed)
        /\ UNCHANGED <<routerVars, guardVars>>

\* The id is registered for an account without a verify method.
NoGuardThere(c) ==
  /\ stage[c] = "verifying" /\ args[c].guard # RouterAddress
  /\ GuardReply(c, Failed)
  /\ UNCHANGED <<routerVars, guardVars>>

\* guard.verify: with the keys and the time of this receipt.
GuardVerify(c) ==
  /\ hops[c] # None /\ hops[c].answer = None
  /\ Router!GuardAnswered(c,
       Router!InternalVerify(guardKeys[hops[c].account], KindOf[hops[c].account],
                             hops[c].account, hops[c].issuer, hops[c].jwt,
                             hops[c].payload, now))
  /\ UNCHANGED <<vars, guardVars>>

\* router.on_verify_callback, whose value or failure goes to FastAuth.
RouterCallback(c) ==
  /\ stage[c] = "verifying" /\ hops[c] # None /\ hops[c].answer # None
  /\ GuardReply(c, Router!CallbackAnswer(hops[c].answer))
  /\ UNCHANGED <<routerVars, guardVars>>

FastAuthCallback(c) == Callback(c) /\ UNCHANGED <<routerVars, guardVars>>

MpcSign(c) == MpcAnswers(c) /\ UNCHANGED <<routerVars, guardVars>>

-----------------------------------------------------------------------------
(* What happens between receipts.                                          *)

\* set_public_keys of the Auth0 guard, or the callback of the custom issuer
\* guard's: the list is replaced.
SetPublicKeys(g, keys) ==
  /\ guardKeys' = [guardKeys EXCEPT ![g] = keys]
  /\ since' = [c \in CallId |->
       IF stage[c] = "verifying"
       THEN [since[c] EXCEPT !.keys = @ \cup Installed(guardKeys')]
       ELSE since[c]]
  /\ UNCHANGED <<vars, routerVars, now>>

RouterAdmin(caller) == Router!Admin(caller) /\ UNCHANGED <<vars, guardVars>>

FastAuthAdmin(caller) == Admin(caller) /\ UNCHANGED <<routerVars, guardVars>>

Tick ==
  /\ now < MaxTime
  /\ now' = now + 1
  /\ UNCHANGED <<vars, routerVars, guardKeys, since>>

Receipt(c) ==
  RouterVerify(c) \/ NoGuardThere(c) \/ GuardVerify(c) \/ RouterCallback(c)
    \/ FastAuthCallback(c) \/ MpcSign(c)

FlowNext ==
  \/ \E c \in CallId : Receipt(c) \/ \E caller \in Account : Call(c, caller)
  \/ \E g \in GuardAccount, keys \in KeyLists : SetPublicKeys(g, keys)
  \/ \E caller \in Account : RouterAdmin(caller)
  \/ \E caller \in Admins : FastAuthAdmin(caller)
  \/ Tick

FlowSpec == FlowInit /\ [][FlowNext]_flowVars

-----------------------------------------------------------------------------
(* Properties.                                                             *)

Requested(c) == request[c] # None

\* What the MPC contract is asked to sign is what the token says, for the
\* subject the token names at the issuer the token names: guards that share a
\* key, a name that moves to another guard, and a subject with a '#' in it
\* never turn a token into a signature for somebody else.
SignsWhatTheTokenSays ==
  \A c \in CallId : Requested(c) =>
    /\ request[c].path = <<Jwt>> \o args[c].token.iss \o args[c].token.sub
    /\ request[c].payload = args[c].token.fatxn

\* A token that was expired when the call was made, that is not valid yet, or
\* whose signing key its guard has not held since the call was made, is never
\* signed for: retiring a key ends the tokens it signed.
OnlyLiveTokens ==
  \A c \in CallId : Requested(c) =>
    /\ since[c].time < args[c].token.exp
    /\ args[c].token.nbf <= now
    /\ <<hops[c].account, args[c].token.signer>> \in since[c].keys

\* A token made for one deployment of the Auth0 guard is not accepted by
\* another: a request that an Auth0 guard approved carries its account.
OnlyItsAudience ==
  \A c \in CallId : Requested(c) /\ KindOf[hops[c].account] = "auth0" =>
    hops[c].account \in args[c].token.aud

\* "Returns a Promise resolving to (bool, String)"
\* (apps/docs/protocol/contracts/fast-auth.mdx:43): a verify call that is over
\* ended with a value, not with a panic.
VerifyResolves ==
  \A c \in CallId : stage[c] = "done" /\ args[c].kind = "verify" =>
    outcome[c] \in {"accepted", "rejected"}
=============================================================================
