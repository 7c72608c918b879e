--------------------------- MODULE JwtGuardRouter ---------------------------
(***************************************************************************)
(* The JWT guard router (contracts/jwt-guard-router/src/lib.rs): a registry *)
(* from guard names to guard contracts.  FastAuth calls its verify with a  *)
(* guard id "jwt#name"; it calls the guard and hands the answer back.      *)
(*                                                                         *)
(* The actions say nothing of FastAuth's variables: SignFlow conjoins them *)
(* with what FastAuth does in the same step.                               *)
(***************************************************************************)
EXTENDS Naturals, Sequences, JwtGuard

CONSTANTS
  HopId,          \* the requests of a behaviour (bound)
  Account,        \* accounts that call the router or own it
  GuardAccount,   \* accounts that a name may be registered for
  Jwt,            \* the string "jwt"
  GuardNames,     \* the names add_guard is called with (bound)
  NoHop

VARIABLES
  owner,
  guards,         \* guard name |-> account
  hops            \* of each request: what was sent to the guard, and its answer

vars == <<owner, guards, hops>>

Init ==
  /\ owner \in Account
  /\ guards = [name \in {} |-> NoHop]
  /\ hops = [h \in HopId |-> NoHop]

-----------------------------------------------------------------------------
ChangeOwner(caller, newOwner) ==
  /\ caller = owner
  /\ owner' = newOwner
  /\ UNCHANGED <<guards, hops>>

\* With a deposit that covers the storage.  A name that exists is refused.
AddGuard(caller, name, account) ==
  /\ caller = owner
  /\ Len(name) = 1
  /\ name \notin DOMAIN guards
  /\ guards' = [n \in DOMAIN guards \cup {name} |->
                        IF n = name THEN account ELSE guards[n]]
  /\ UNCHANGED <<owner, hops>>

RemoveGuard(caller, name) ==
  /\ caller = owner
  /\ name \in DOMAIN guards
  /\ guards' = [n \in DOMAIN guards \ {name} |-> guards[n]]
  /\ UNCHANGED <<owner, hops>>

-----------------------------------------------------------------------------
\* assert_guard_name_format and the lookup of verify, either of which panics.
Routable(guardId) ==
  /\ Len(guardId) = 2 /\ guardId[1] = Jwt
  /\ <<guardId[2]>> \in DOMAIN guards

\* verify: the guard gets the name as the issuer it must check.
Forward(h, guardId, jwt, payload) ==
  /\ hops[h] = NoHop
  /\ Routable(guardId)
  /\ hops' = [hops EXCEPT ![h] =
       [issuer |-> <<guardId[2]>>, account |-> guards[<<guardId[2]>>],
        jwt |-> jwt, payload |-> payload, answer |-> NoHop]]
  /\ UNCHANGED <<owner, guards>>

GuardAnswered(h, answer) ==
  /\ hops[h] # NoHop /\ hops[h].answer = NoHop
  /\ hops' = [hops EXCEPT ![h].answer = answer]
  /\ UNCHANGED <<owner, guards>>

\* on_verify_callback: panics when the guard's call failed, and gives a
\* refused token no user.
CallbackAnswer(answer) ==
  IF answer.shape = "failed" THEN Panic
  ELSE IF answer.ok THEN Answer("triple", TRUE, answer.user)
  ELSE Answer("triple", FALSE, NoString)

Admin(caller) ==
  \/ \E account \in Account : ChangeOwner(caller, account)
  \/ \E name \in GuardNames :
       \/ \E account \in GuardAccount : AddGuard(caller, name, account)
       \/ RemoveGuard(caller, name)
=============================================================================
