------------------------------ MODULE FastAuth ------------------------------
(***************************************************************************)
(* The FastAuth contract (contracts/fa/src/lib.rs): it asks a guard whether *)
(* a request is approved and, when it is, asks the MPC contract to sign    *)
(* for the path "guard_id#user".                                           *)
(*                                                                         *)
(* A call is a chain of receipts: the method, the guard's answer, a        *)
(* callback, the MPC answer, a second callback.  Other calls and the       *)
(* owner's methods run between any two of them, so each receipt is an      *)
(* action.  A method that panics leaves no trace and is a disabled action; *)
(* a callback that panics ends its call, and what the call had moved       *)
(* before stays moved.                                                     *)
(*                                                                         *)
(* The guard and the MPC contract are other accounts: here they answer     *)
(* anything, values of another type than the callback reads included.      *)
(* SignFlow puts the router and the JWT guards in the guard's place.       *)
(* The views, and the owner's `execute`, which calls another contract      *)
(* without a deposit and takes no answer, change nothing here.             *)
(***************************************************************************)
EXTENDS Integers, Sequences

CONSTANTS
  CallId,       \* the calls of a behaviour (bound)
  Account,      \* accounts that call the contract, own it or pause it
  Address,      \* accounts that hold contracts
  Self,         \* this contract's account, one of them
  Segment,      \* the strings without a '#'
  EmptySegment, \* "" among them
  LongSegment,  \* those of more than 256 bytes
  Prefixes,     \* the guard ids add_guard is called with (bound)
  GuardIds,     \* the guard ids sign and verify are called with (bound)
  Users,        \* the user ids guards answer with (bound)
  Tokens,       \* the verify_payloads (bound)
  Payloads,     \* the sign_payloads (bound)
  Algorithms,   \* the algorithm names sign is called with (bound)
  Deposits,     \* the deposits attached to sign (bound)
  Fees,         \* what the MPC contract may keep of a deposit
  Reserve,      \* the contract's own balance
  KeyVersions,  \* values of mpc_key_version, a u32 (bound)
  DomainIds,    \* values of mpc_domain_id, a u64 (bound)
  None

\* A string is the sequence of its '#'-separated parts: "jwt#auth0" is
\* <<"jwt", "auth0">> and the empty string is <<EmptySegment>>.
String == Seq(Segment) \ {<< >>}

ASSUME StringsAssumption ==
  /\ EmptySegment \in Segment /\ LongSegment \subseteq Segment
  /\ Prefixes \subseteq String /\ GuardIds \subseteq String /\ Users \subseteq String

ASSUME AmountsAssumption ==
  /\ Deposits \subseteq Nat /\ Fees \subseteq Nat /\ Reserve \in Nat

\* The defaults of mpc_key_version and mpc_domain_id.
ASSUME DefaultsAssumption == Self \in Address /\ 0 \in KeyVersions /\ 1 \in DomainIds

VARIABLES
  owner, pauser, paused,
  guards,    \* guard id |-> address
  mpc,       \* mpc_address, mpc_key_version, mpc_domain_id
  stage,     \* of each call: the receipt it waits for
  args,      \* of each call: its arguments, and the guard they were sent to
  reply,     \* of each call: the guard's answer
  request,   \* of each call: what was asked of the MPC contract
  mpcReply,  \* of each call: the MPC contract's answer
  outcome,   \* of each call: what the caller gets
  paid,      \* of each call: what was transferred to the caller
  balance    \* of the contract

config == <<owner, pauser, paused, guards, mpc>>
calls == <<stage, args, reply, request, mpcReply, outcome, paid>>
vars == <<config, calls, balance>>

\* SignatureAlgorithm::parse_str; any other name makes sign panic.
SignatureAlgorithm == {"secp256k1", "ecdsa", "eddsa"}

Stage == {"idle", "verifying", "verified", "signing", "signed", "done"}

\* A guard's call fails, or answers (bool, String) or (bool, String, String).
Failed == [shape |-> "failed", ok |-> FALSE, user |-> <<EmptySegment>>]

Replies == [shape : {"pair", "triple"}, ok : BOOLEAN, user : Users] \cup {Failed}

\* The MPC contract's call fails, or succeeds with a SignResponseAny or with a
\* value that is not one: set_mpc_address names any account.
MpcReplies == [result : {"failed", "signature", "other"}, fee : Fees]

\* What a call ends with: a callback that panicked, one whose transfer the
\* balance does not cover, or a value.
Outcome == {"panicked", "short", "refunded", "signature", "nosignature",
            "accepted", "rejected"}

ASSUME NoneAssumption ==
  /\ None \notin String /\ None \notin Address /\ None \notin Outcome
  /\ None \notin MpcReplies

-----------------------------------------------------------------------------
Init ==
  /\ owner \in Account
  /\ pauser \in Account
  /\ paused = FALSE
  /\ \E ids \in SUBSET Prefixes : guards \in [ids -> Address]
  /\ mpc = [address |-> Self, keyVersion |-> 0, domainId |-> 1]
  /\ stage = [c \in CallId |-> "idle"]
  /\ args = [c \in CallId |-> None]
  /\ reply = [c \in CallId |-> None]
  /\ request = [c \in CallId |-> None]
  /\ mpcReply = [c \in CallId |-> None]
  /\ outcome = [c \in CallId |-> None]
  /\ paid = [c \in CallId |-> 0]
  /\ balance = Reserve

-----------------------------------------------------------------------------
(* The owner's and the pauser's methods.                                   *)

NonPausedOnly == ~paused

ByOwnerAnyTime(caller) == caller = owner  \* mutant: non_paused_only is missing

ByOwner(caller) == NonPausedOnly /\ caller = owner

ChangeOwner(caller, newOwner) ==
  /\ ByOwner(caller)
  /\ owner' = newOwner
  /\ UNCHANGED <<pauser, paused, guards, mpc, calls, balance>>

\* only_pauser looks at the signer of the transaction, not at the caller.
Pause(signer) ==
  /\ signer = pauser
  /\ paused' = TRUE
  /\ UNCHANGED <<owner, pauser, guards, mpc, calls, balance>>

Unpause(caller) ==
  /\ caller = owner
  /\ paused' = FALSE
  /\ UNCHANGED <<owner, pauser, guards, mpc, calls, balance>>

SetPauser(caller, newPauser) ==
  /\ caller = owner
  /\ pauser' = newPauser
  /\ UNCHANGED <<owner, paused, guards, mpc, calls, balance>>

SetMpc(caller, newMpc) ==
  /\ ByOwner(caller)
  /\ mpc' = newMpc
  /\ UNCHANGED <<owner, pauser, paused, guards, calls, balance>>

SetMpcAddress(caller, address) ==
  SetMpc(caller, [mpc EXCEPT !.address = address])

SetMpcKeyVersion(caller, version) ==
  SetMpc(caller, [mpc EXCEPT !.keyVersion = version])

SetMpcDomainId(caller, domain) ==
  SetMpc(caller, [mpc EXCEPT !.domainId = domain])

\* A guard id with a '#' is refused; one that exists is overwritten.
AddGuard(caller, guardId, address) ==
  /\ ByOwner(caller)
  /\ Len(guardId) = 1
  /\ guards' = [g \in DOMAIN guards \cup {guardId} |->
                  IF g = guardId THEN address ELSE guards[g]]
  /\ UNCHANGED <<owner, pauser, paused, mpc, calls, balance>>

RemoveGuard(caller, guardId) ==
  /\ ByOwner(caller)
  /\ guards' = [g \in DOMAIN guards \ {guardId} |-> guards[g]]
  /\ UNCHANGED <<owner, pauser, paused, mpc, calls, balance>>

-----------------------------------------------------------------------------
(* sign and verify, up to the guard's answer.                              *)

GuardPrefix(guardId) == <<Head(guardId)>>

\* The first receipt: the guard registered for the prefix gets the request.
Ask(c, kind, caller, guardId, token, payload, algorithm, deposit) ==
  /\ NonPausedOnly
  /\ stage[c] = "idle"
  /\ Head(guardId) # EmptySegment
  /\ GuardPrefix(guardId) \in DOMAIN guards
  /\ stage' = [stage EXCEPT ![c] = "verifying"]
  /\ args' = [args EXCEPT ![c] =
       [kind |-> kind, caller |-> caller, guardId |-> guardId, token |-> token,
        payload |-> payload, algorithm |-> algorithm, deposit |-> deposit,
        guard |-> guards[GuardPrefix(guardId)]]]
  /\ balance' = balance + deposit
  /\ UNCHANGED <<config, reply, request, mpcReply, outcome, paid>>

Sign(c, caller, guardId, token, payload, algorithm, deposit) ==
  /\ algorithm \in SignatureAlgorithm
  /\ Ask(c, "sign", caller, guardId, token, payload, algorithm, deposit)

Verify(c, caller, guardId, token, payload) ==
  Ask(c, "verify", caller, guardId, token, payload, None, 0)

\* The guard answers, or its call fails.
GuardReply(c, answer) ==
  /\ stage[c] = "verifying"
  /\ stage' = [stage EXCEPT ![c] = "verified"]
  /\ reply' = [reply EXCEPT ![c] = answer]
  /\ UNCHANGED <<config, args, request, mpcReply, outcome, paid, balance>>

-----------------------------------------------------------------------------
(* The callbacks.                                                          *)

Finish(c, result) ==
  /\ stage' = [stage EXCEPT ![c] = "done"]
  /\ outcome' = [outcome EXCEPT ![c] = result]

\* Nothing a callback that panics, or is short of money, does is kept.
Fail(c, reason) ==
  /\ Finish(c, reason)
  /\ UNCHANGED <<config, args, reply, request, mpcReply, paid, balance>>

\* The runtime refuses a transfer that the balance does not cover.
Affords(amount) == balance >= amount

RefundTwice(c, result) ==  \* mutant: the first transfer does not return
  /\ Affords(2 * args[c].deposit)
  /\ Finish(c, result)
  /\ paid' = [paid EXCEPT ![c] = @ + 2 * args[c].deposit]
  /\ balance' = balance - 2 * args[c].deposit
  /\ UNCHANGED <<config, args, reply, request, mpcReply>>

\* Promise::new(caller).transfer(deposit), the call then ending with result.
Refund(c, result) ==
  /\ Affords(args[c].deposit)
  /\ Finish(c, result)
  /\ paid' = [paid EXCEPT ![c] = @ + args[c].deposit]
  /\ balance' = balance - args[c].deposit
  /\ UNCHANGED <<config, args, reply, request, mpcReply>>

RefundOrFail(c, result) ==
  \/ Refund(c, result)
  \/ ~Affords(args[c].deposit) /\ Fail(c, "short")

\* on_verify_callback reads a pair: any other value makes it panic.
OnVerifyCallback(c) ==
  /\ stage[c] = "verified" /\ args[c].kind = "verify"
  /\ \/ reply[c].shape = "triple" /\ Fail(c, "panicked")
     \/ /\ reply[c].shape # "triple"
        /\ Finish(c, IF reply[c].shape = "pair" /\ reply[c].ok
                     THEN "accepted" ELSE "rejected")
        /\ UNCHANGED <<config, args, reply, request, mpcReply, paid, balance>>

AnySub(sub) == TRUE  \* mutant: the user id may hold a '#'

VerifySub(sub) == Len(sub) = 1 /\ sub[1] \notin LongSegment

\* sign_request_secp256k1, _ecdsa and _eddsa.  SHA-256 is injective here, and
\* the configuration read is the one of the moment, not of the sign call.
SignRequest(c) ==
  [to |-> mpc.address,
   path |-> args[c].guardId \o reply[c].user,
   payload |-> args[c].payload,
   scheme |-> args[c].algorithm,
   key |-> IF args[c].algorithm = "secp256k1" THEN mpc.keyVersion ELSE mpc.domainId]

AskMpc(c) ==
  /\ Affords(args[c].deposit)
  /\ stage' = [stage EXCEPT ![c] = "signing"]
  /\ request' = [request EXCEPT ![c] = SignRequest(c)]
  /\ balance' = balance - args[c].deposit
  /\ UNCHANGED <<config, args, reply, mpcReply, outcome, paid>>

\* on_verify_sign_callback reads a triple: a pair makes it panic.
Approved(c) == reply[c].shape = "triple" /\ reply[c].ok

RefusedByGuard(c) ==  \* mutant: a failed guard call is not handled
  reply[c].shape = "triple" /\ ~reply[c].ok

Refused(c) == reply[c].shape = "failed" \/ (reply[c].shape = "triple" /\ ~reply[c].ok)

OnVerifySignCallback(c) ==
  /\ stage[c] = "verified" /\ args[c].kind = "sign"
  /\ \/ Refused(c) /\ RefundOrFail(c, "refunded")
     \/ reply[c].shape = "pair" /\ Fail(c, "panicked")
     \/ Approved(c) /\ ~VerifySub(reply[c].user) /\ Fail(c, "panicked")
     \/ /\ Approved(c) /\ VerifySub(reply[c].user)
        /\ \/ AskMpc(c)
           \/ ~Affords(args[c].deposit) /\ Fail(c, "short")

\* The MPC contract's call succeeds, keeping a fee and sending the rest of the
\* deposit back, or fails, which sends all of it back.  Until set_mpc_address is
\* called the request goes to this contract, which cannot answer it.
MpcReply(c, answer) ==
  /\ stage[c] = "signing"
  /\ answer.result # "failed" => answer.fee <= args[c].deposit /\ request[c].to # Self
  /\ stage' = [stage EXCEPT ![c] = "signed"]
  /\ mpcReply' = [mpcReply EXCEPT ![c] = answer]
  /\ balance' = balance + args[c].deposit - (IF answer.result = "failed" THEN 0 ELSE answer.fee)
  /\ UNCHANGED <<config, args, reply, request, outcome, paid>>

\* on_sign_callback reads a SignResponseAny: any other value makes it panic.
Unreadable(c) == mpcReply[c] # None /\ mpcReply[c].result = "other"

OnSignCallbackKeeps(c) ==  \* mutant: the deposit of a failed signing is kept
  /\ stage[c] = "signed"
  /\ \/ mpcReply[c].result = "signature" /\ RefundOrFail(c, "signature")
     \/ mpcReply[c].result = "failed" /\ Fail(c, "nosignature")
     \/ Unreadable(c) /\ Fail(c, "panicked")

\* A signature and a failure both send the caller its deposit.
OnSignCallback(c) ==
  /\ stage[c] = "signed"
  /\ \/ Unreadable(c) /\ Fail(c, "panicked")
     \/ /\ ~Unreadable(c)
        /\ RefundOrFail(c, IF mpcReply[c].result = "signature"
                           THEN "signature" ELSE "nosignature")

-----------------------------------------------------------------------------
Admin(caller) ==
  \/ \E account \in Account : ChangeOwner(caller, account) \/ SetPauser(caller, account)
  \/ Pause(caller)
  \/ Unpause(caller)
  \/ \E address \in Address : SetMpcAddress(caller, address)
  \/ \E version \in KeyVersions : SetMpcKeyVersion(caller, version)
  \/ \E domain \in DomainIds : SetMpcDomainId(caller, domain)
  \/ \E guardId \in Prefixes, address \in Address : AddGuard(caller, guardId, address)
  \/ \E guardId \in Prefixes : RemoveGuard(caller, guardId)

NewCall(c, caller) ==
  \E guardId \in GuardIds, token \in Tokens, payload \in Payloads :
    \/ \E algorithm \in Algorithms, deposit \in Deposits :
         Sign(c, caller, guardId, token, payload, algorithm, deposit)
    \/ Verify(c, caller, guardId, token, payload)

Callback(c) == OnVerifyCallback(c) \/ OnVerifySignCallback(c) \/ OnSignCallback(c)

GuardAnswers(c) == \E answer \in Replies : GuardReply(c, answer)

MpcAnswers(c) == \E answer \in MpcReplies : MpcReply(c, answer)

Next ==
  \/ \E caller \in Account : Admin(caller)
  \/ \E c \in CallId :
       \/ \E caller \in Account : NewCall(c, caller)
       \/ GuardAnswers(c)
       \/ Callback(c)
       \/ MpcAnswers(c)

Spec == Init /\ [][Next]_vars

-----------------------------------------------------------------------------
(* Properties.                                                             *)

Signing(c) == args[c] # None /\ args[c].kind = "sign"

CallArgs ==
  [kind : {"sign", "verify"}, caller : Account, guardId : GuardIds, token : Tokens,
   payload : Payloads, algorithm : SignatureAlgorithm \cup {None},
   deposit : Deposits \cup {0}, guard : Address]

Request ==
  [to : Address, path : String, payload : Payloads, scheme : SignatureAlgorithm,
   key : KeyVersions \cup DomainIds]

\* Every variable keeps its type; a caller is paid nothing, or once a deposit
\* that was attached, and the balance covers every transfer.
TypeOK ==
  /\ owner \in Account /\ pauser \in Account /\ paused \in BOOLEAN
  /\ DOMAIN guards \subseteq Prefixes
  /\ guards \in [DOMAIN guards -> Address]
  /\ mpc \in [address : Address, keyVersion : KeyVersions, domainId : DomainIds]
  /\ stage \in [CallId -> Stage]
  /\ args \in [CallId -> CallArgs \cup {None}]
  /\ reply \in [CallId -> Replies \cup {None}]
  /\ request \in [CallId -> Request \cup {None}]
  /\ mpcReply \in [CallId -> MpcReplies \cup {None}]
  /\ outcome \in [CallId -> Outcome \cup {None}]
  /\ paid \in [CallId -> Deposits \cup {0}]
  /\ balance \in Nat

\* Two MPC requests for the same path are for the same guard id and the same
\* user: no choice of guard id and user id collides with another one in the
\* path "guard_id#user" that on_verify_sign_callback derives the key from.
PathIdentifiesUser ==
  \A c, d \in CallId :
    request[c] # None /\ request[d] # None /\ request[c].path = request[d].path =>
      args[c].guardId = args[d].guardId /\ reply[c].user = reply[d].user

\* A sign call that is over has its deposit back, whatever the owner did in the
\* meantime, unless on_verify_sign_callback panicked on the guard's answer,
\* on_sign_callback panicked on the MPC contract's, or the balance was short.
SettledUnlessPanicked ==
  \A c \in CallId :
    Signing(c) /\ stage[c] = "done" =>
      \/ paid[c] = args[c].deposit
      \/ reply[c].shape = "pair"
      \/ Approved(c) /\ ~VerifySub(reply[c].user)
      \/ Unreadable(c)
      \/ outcome[c] = "short"

\* With a reserve for the MPC fees, no refund and no MPC request of a call
\* finds the contract's balance short, so no call is paid out of another's
\* deposit.
NeverShort == \A c \in CallId : outcome[c] # "short"

\* While the contract is paused no call enters it and its owner, guards and
\* MPC configuration stay what they were; only the calls in flight move.
FrozenWhilePaused ==
  [][paused => /\ UNCHANGED <<owner, guards, mpc>>
               /\ \A c \in CallId : stage[c] = "idle" => stage'[c] = "idle"]_vars

\* "The deposit is always returned to the original caller, whether or not
\* signing succeeds" (apps/docs/protocol/concepts/mpc.mdx:216).
DepositAlwaysReturned ==
  \A c \in CallId : Signing(c) /\ stage[c] = "done" => paid[c] = args[c].deposit
=============================================================================
