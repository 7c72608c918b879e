--------------------------- MODULE FastAuthProofs ---------------------------
(***************************************************************************)
(* Proofs about the FastAuth contract, for any number of calls, any guards *)
(* and any answers of the guards and of the MPC contract.                  *)
(*                                                                         *)
(* The state of a call is spread over seven functions; CallInv ties them   *)
(* to the receipt the call waits for.                                      *)
(***************************************************************************)
EXTENDS FastAuth, SequenceTheorems, FiniteSetTheorems, TLAPS

-----------------------------------------------------------------------------
(* Paths.                                                                  *)

\* The elements of a sequence with one more element after it.
LEMMA ConcatOne ==
  ASSUME NEW S, NEW s \in Seq(S), NEW x \in Seq(S), Len(x) = 1
  PROVE  /\ Len(s \o x) = Len(s) + 1
         /\ \A i \in 1 .. Len(s) + 1 :
              (s \o x)[i] = IF i <= Len(s) THEN s[i] ELSE x[i - Len(s)]
  BY ConcatProperties

\* A path made of a guard id and a user id of one part determines the guard id.
LEMMA GuardIdInjective ==
  \A s \in Seq(Segment) : \A t \in Seq(Segment) :
    \A x \in Seq(Segment) : \A y \in Seq(Segment) :
      Len(x) = 1 /\ Len(y) = 1 /\ s \o x = t \o y => s = t
<1> SUFFICES ASSUME NEW s \in Seq(Segment), NEW t \in Seq(Segment),
                    NEW x \in Seq(Segment), NEW y \in Seq(Segment),
                    Len(x) = 1, Len(y) = 1, s \o x = t \o y
             PROVE  s = t
  OBVIOUS
<1>1. /\ Len(s \o x) = Len(s) + 1
      /\ \A i \in 1 .. Len(s) + 1 :
           (s \o x)[i] = IF i <= Len(s) THEN s[i] ELSE x[i - Len(s)]
  BY ConcatOne
<1>2. /\ Len(t \o y) = Len(t) + 1
      /\ \A i \in 1 .. Len(t) + 1 :
           (t \o y)[i] = IF i <= Len(t) THEN t[i] ELSE y[i - Len(t)]
  BY ConcatOne, Zenon
<1>3. Len(s) \in Nat /\ Len(s) = Len(t)
  BY <1>1, <1>2
<1>4. \A i \in 1 .. Len(s) : s[i] = t[i]
  BY <1>1, <1>2, <1>3
<1> QED
  BY <1>3, <1>4, SeqEqual

\* It determines the user id too: its last part.
LEMMA UserInjective ==
  \A s \in Seq(Segment) : \A t \in Seq(Segment) :
    \A x \in Seq(Segment) : \A y \in Seq(Segment) :
      Len(x) = 1 /\ Len(y) = 1 /\ s \o x = t \o y => x = y
<1> SUFFICES ASSUME NEW s \in Seq(Segment), NEW t \in Seq(Segment),
                    NEW x \in Seq(Segment), NEW y \in Seq(Segment),
                    Len(x) = 1, Len(y) = 1, s \o x = t \o y
             PROVE  x = y
  OBVIOUS
<1>1. /\ Len(s \o x) = Len(s) + 1
      /\ \A i \in 1 .. Len(s) + 1 :
           (s \o x)[i] = IF i <= Len(s) THEN s[i] ELSE x[i - Len(s)]
  BY ConcatOne
<1>2. /\ Len(t \o y) = Len(t) + 1
      /\ \A i \in 1 .. Len(t) + 1 :
           (t \o y)[i] = IF i <= Len(t) THEN t[i] ELSE y[i - Len(t)]
  BY ConcatOne, Zenon
<1>3. Len(s) \in Nat /\ Len(s) = Len(t)
  BY <1>1, <1>2
<1>4. x[1] = y[1]
  BY <1>1, <1>2, <1>3
<1>5. \A i \in 1 .. Len(x) : x[i] = y[i]
  BY <1>4
<1> QED
  BY <1>5, SeqEqual

\* A user id that a guard answers is a string, and so is the path made of it.
LEMMA PathIsString ==
  ASSUME NEW g \in GuardIds, NEW r \in Replies
  PROVE  r.user \in String /\ g \in String /\ g \o r.user \in String
<1>1. r.user \in Users \/ r.user = <<EmptySegment>>
  BY DEF Replies, Failed
<1>2. r.user \in String /\ g \in String
  <2>1. <<EmptySegment>> \in String
    BY StringsAssumption DEF String
  <2> QED
    BY <1>1, <2>1, StringsAssumption
<1>3. g \o r.user \in Seq(Segment) /\ g \o r.user # << >>
  BY <1>2, ConcatProperties, ConcatEqualIffEmpty DEF String
<1> QED
  BY <1>2, <1>3 DEF String

-----------------------------------------------------------------------------
(* The inductive invariant.                                                *)

\* What the stage of a call says of its other fields.
CallInv(c) ==
  /\ stage[c] # "idle" =>
       /\ args[c] \in CallArgs
       /\ args[c].kind = "sign" => args[c].algorithm \in SignatureAlgorithm
       /\ args[c].deposit \in Deposits \cup {0}
  /\ stage[c] \in {"verified", "signing", "signed"} => reply[c] \in Replies
  /\ stage[c] \in {"signing", "signed"} => args[c].kind = "sign"
  /\ stage[c] = "signed" => mpcReply[c] \in MpcReplies
  /\ stage[c] \notin {"signed", "done"} => mpcReply[c] = None
  /\ stage[c] # "done" => paid[c] = 0

\* A request was made from the call's own guard id and the guard's own answer,
\* which stay what they were.
PathInv(c) ==
  request[c] # None =>
    /\ stage[c] \in {"signing", "signed", "done"}
    /\ args[c] \in CallArgs /\ reply[c] \in Replies
    /\ VerifySub(reply[c].user)
    /\ request[c].path = args[c].guardId \o reply[c].user

Inv == TypeOK /\ \A c \in CallId : CallInv(c) /\ PathInv(c)

LEMMA InitInv == Init => Inv
<1> SUFFICES ASSUME Init PROVE Inv
  OBVIOUS
<1>1. DOMAIN guards \subseteq Prefixes /\ guards \in [DOMAIN guards -> Address]
  BY DEF Init
<1>2. TypeOK
  BY <1>1, AmountsAssumption, DefaultsAssumption DEF Init, TypeOK, Stage
<1>3. ASSUME NEW c \in CallId PROVE CallInv(c) /\ PathInv(c)
  BY DEF Init, CallInv, PathInv
<1> QED
  BY <1>2, <1>3 DEF Inv

\* The arguments of a call that has begun: its deposit is an amount.
LEMMA ArgsOfCall ==
  ASSUME Inv, NEW c \in CallId, stage[c] # "idle"
  PROVE  /\ args[c] \in CallArgs
         /\ args[c].deposit \in Deposits \cup {0}
         /\ args[c].deposit \in Nat
<1>1. CallInv(c)
  BY DEF Inv
<1>2. args[c] \in CallArgs /\ args[c].deposit \in Deposits \cup {0}
  BY <1>1 DEF CallInv
<1>3. \A x \in Deposits \cup {0} : x \in Nat
  BY AmountsAssumption
<1> QED
  BY <1>2, <1>3, Zenon

\* The owner's methods touch no call.
LEMMA AdminInv ==
  ASSUME Inv, NEW caller \in Account, Admin(caller)
  PROVE  Inv'
<1> USE DEF Inv, TypeOK, CallInv, PathInv, calls
<1>1. ASSUME NEW account \in Account,
             ChangeOwner(caller, account) \/ SetPauser(caller, account)
      PROVE  Inv'
  BY <1>1 DEF ChangeOwner, SetPauser
<1>2. ASSUME Pause(caller) \/ Unpause(caller) PROVE Inv'
  BY <1>2 DEF Pause, Unpause
<1>3. ASSUME NEW address \in Address, SetMpcAddress(caller, address) PROVE Inv'
  BY <1>3 DEF SetMpcAddress, SetMpc
<1>4. ASSUME NEW version \in KeyVersions, SetMpcKeyVersion(caller, version) PROVE Inv'
  BY <1>4 DEF SetMpcKeyVersion, SetMpc
<1>5. ASSUME NEW domain \in DomainIds, SetMpcDomainId(caller, domain) PROVE Inv'
  BY <1>5 DEF SetMpcDomainId, SetMpc
<1>6. ASSUME NEW guardId \in Prefixes, NEW address \in Address,
             AddGuard(caller, guardId, address)
      PROVE  Inv'
  BY <1>6 DEF AddGuard
<1>7. ASSUME NEW guardId \in Prefixes, RemoveGuard(caller, guardId) PROVE Inv'
  BY <1>7 DEF RemoveGuard
<1> QED
  BY <1>1, <1>2, <1>3, <1>4, <1>5, <1>6, <1>7 DEF Admin

\* A call enters: its arguments are recorded and its deposit is taken.
LEMMA AskInv ==
  ASSUME Inv, NEW c \in CallId, NEW kind \in {"sign", "verify"}, NEW caller \in Account,
         NEW guardId \in GuardIds, NEW token \in Tokens, NEW payload \in Payloads,
         NEW algorithm \in SignatureAlgorithm \cup {None},
         NEW deposit \in Deposits \cup {0},
         kind = "sign" => algorithm \in SignatureAlgorithm,
         Ask(c, kind, caller, guardId, token, payload, algorithm, deposit)
  PROVE  Inv'
<1> USE DEF Ask
<1>1. args'[c] \in CallArgs
  BY DEF CallArgs, Inv, TypeOK
<1>2. TypeOK'
  BY <1>1, AmountsAssumption DEF Inv, TypeOK, Stage, config
<1>3. ASSUME NEW d \in CallId PROVE CallInv(d)' /\ PathInv(d)'
  <2>1. CASE d # c
    BY <2>1 DEF Inv, TypeOK, CallInv, PathInv
  <2>2. CASE d = c
    BY <2>2, <1>1 DEF Inv, TypeOK, CallInv, PathInv
  <2> QED
    BY <2>1, <2>2
<1> QED
  BY <1>2, <1>3 DEF Inv

LEMMA GuardReplyInv ==
  ASSUME Inv, NEW c \in CallId, NEW answer \in Replies, GuardReply(c, answer)
  PROVE  Inv'
<1> USE DEF GuardReply
<1>1. TypeOK'
  BY DEF Inv, TypeOK, Stage, config
<1>2. ASSUME NEW d \in CallId PROVE CallInv(d)' /\ PathInv(d)'
  BY DEF Inv, TypeOK, CallInv, PathInv
<1> QED
  BY <1>1, <1>2 DEF Inv

-----------------------------------------------------------------------------
(* The callbacks.                                                          *)

LEMMA FailInv ==
  ASSUME Inv, NEW c \in CallId, NEW reason \in Outcome,
         stage[c] # "idle", Fail(c, reason)
  PROVE  Inv'
<1> USE DEF Fail, Finish
<1>1. TypeOK'
  BY DEF Inv, TypeOK, Stage, config
<1>2. ASSUME NEW d \in CallId PROVE CallInv(d)' /\ PathInv(d)'
  <2>1. CallInv(d)'
    BY DEF Inv, TypeOK, CallInv
  <2>2. PathInv(d)'
    BY DEF Inv, TypeOK, PathInv
  <2> QED
    BY <2>1, <2>2
<1> QED
  BY <1>1, <1>2 DEF Inv

\* The deposit goes back once: a call that is not over was paid nothing.
LEMMA RefundInv ==
  ASSUME Inv, NEW c \in CallId, NEW result \in Outcome,
         stage[c] \in {"verified", "signed"}, Refund(c, result)
  PROVE  Inv'
<1> USE DEF Refund, Finish, Affords
<1>1. /\ args[c].deposit \in Nat /\ args[c].deposit \in Deposits \cup {0}
      /\ paid[c] = 0
  BY ArgsOfCall DEF Inv, CallInv
<1>2. balance' \in Nat
  BY <1>1 DEF Inv, TypeOK
<1>3. paid' \in [CallId -> Deposits \cup {0}]
  BY <1>1 DEF Inv, TypeOK
<1>4. TypeOK'
  BY <1>2, <1>3 DEF Inv, TypeOK, Stage, config
<1>5. ASSUME NEW d \in CallId PROVE CallInv(d)' /\ PathInv(d)'
  BY DEF Inv, TypeOK, CallInv, PathInv
<1> QED
  BY <1>4, <1>5 DEF Inv

LEMMA RefundOrFailInv ==
  ASSUME Inv, NEW c \in CallId, NEW result \in Outcome,
         stage[c] \in {"verified", "signed"}, RefundOrFail(c, result)
  PROVE  Inv'
  BY RefundInv, FailInv DEF RefundOrFail, Outcome

LEMMA OnVerifyCallbackInv ==
  ASSUME Inv, NEW c \in CallId, OnVerifyCallback(c)
  PROVE  Inv'
<1>1. PICK result \in Outcome : Fail(c, result)
  BY DEF OnVerifyCallback, Fail, Outcome
<1>2. stage[c] # "idle"
  BY DEF OnVerifyCallback
<1> QED
  BY <1>1, <1>2, FailInv

\* The MPC contract is asked with the path of an approved, admissible user.
LEMMA AskMpcInv ==
  ASSUME Inv, NEW c \in CallId, stage[c] = "verified", args[c].kind = "sign",
         VerifySub(reply[c].user), AskMpc(c)
  PROVE  Inv'
<1> USE DEF AskMpc, Affords
<1>1. /\ args[c] \in CallArgs /\ args[c].deposit \in Nat
      /\ reply[c] \in Replies /\ args[c].algorithm \in SignatureAlgorithm
  BY ArgsOfCall DEF Inv, CallInv
<1>2. SignRequest(c) \in Request
  <2>1. args[c].guardId \o reply[c].user \in String
    BY <1>1, PathIsString DEF CallArgs
  <2> QED
    BY <1>1, <2>1 DEF SignRequest, Request, CallArgs, Inv, TypeOK
<1>3. TypeOK'
  BY <1>1, <1>2 DEF Inv, TypeOK, Stage, config
<1>4. SignRequest(c).path = args[c].guardId \o reply[c].user
  BY DEF SignRequest
<1>5. ASSUME NEW d \in CallId PROVE CallInv(d)' /\ PathInv(d)'
  <2>1. CASE d # c
    BY <2>1 DEF Inv, TypeOK, CallInv, PathInv
  <2>2. CASE d = c
    <3>1. request'[c].path = args[c].guardId \o reply[c].user
      BY <1>4 DEF Inv, TypeOK
    <3> QED
      BY <2>2, <3>1, <1>1 DEF Inv, TypeOK, CallInv, PathInv, VerifySub
  <2> QED
    BY <2>1, <2>2
<1> QED
  BY <1>3, <1>5 DEF Inv

LEMMA OnVerifySignCallbackInv ==
  ASSUME Inv, NEW c \in CallId, OnVerifySignCallback(c)
  PROVE  Inv'
<1>1. stage[c] = "verified" /\ args[c].kind = "sign"
  BY DEF OnVerifySignCallback
<1>2. CASE RefundOrFail(c, "refunded")
  BY <1>1, <1>2, RefundOrFailInv DEF Outcome
<1>3. CASE Fail(c, "panicked") \/ Fail(c, "short")
  BY <1>1, <1>3, FailInv DEF Outcome
<1>4. CASE VerifySub(reply[c].user) /\ AskMpc(c)
  BY <1>1, <1>4, AskMpcInv
<1> QED
  BY <1>2, <1>3, <1>4 DEF OnVerifySignCallback

\* The MPC contract keeps no more than the deposit it was sent.
LEMMA MpcReplyInv ==
  ASSUME Inv, NEW c \in CallId, NEW answer \in MpcReplies, MpcReply(c, answer)
  PROVE  Inv'
<1> USE DEF MpcReply
<1>1. args[c].deposit \in Nat
  BY ArgsOfCall
<1>2. answer.fee \in Nat
  BY AmountsAssumption DEF MpcReplies
<1>3. balance' \in Nat
  <2>1. CASE answer.result # "failed"
    <3>1. answer.fee <= args[c].deposit /\ balance' = balance + args[c].deposit - answer.fee
      BY <2>1
    <3> QED
      BY <1>1, <1>2, <3>1 DEF Inv, TypeOK
  <2>2. CASE answer.result = "failed"
    <3>1. balance' = balance + args[c].deposit - 0
      BY <2>2
    <3> QED
      BY <1>1, <1>2, <3>1 DEF Inv, TypeOK
  <2> QED
    BY <2>1, <2>2
<1>4. TypeOK'
  BY <1>3 DEF Inv, TypeOK, Stage, config
<1>5. ASSUME NEW d \in CallId PROVE CallInv(d)' /\ PathInv(d)'
  <2>1. CASE d # c
    BY <2>1 DEF Inv, TypeOK, CallInv, PathInv
  <2>2. CASE d = c
    BY <2>2 DEF Inv, TypeOK, CallInv, PathInv
  <2> QED
    BY <2>1, <2>2
<1> QED
  BY <1>4, <1>5 DEF Inv

LEMMA OnSignCallbackInv ==
  ASSUME Inv, NEW c \in CallId, OnSignCallback(c)
  PROVE  Inv'
<1>1. stage[c] = "signed"
  BY DEF OnSignCallback
<1>2. CASE Fail(c, "panicked")
  BY <1>1, <1>2, FailInv DEF Outcome
<1>3. CASE \E result \in {"signature", "nosignature"} : RefundOrFail(c, result)
  BY <1>1, <1>3, RefundOrFailInv DEF Outcome
<1> QED
  BY <1>2, <1>3 DEF OnSignCallback

-----------------------------------------------------------------------------
(* The theorems.                                                           *)

LEMMA NextInv == Inv /\ [Next]_vars => Inv'
<1> SUFFICES ASSUME Inv, [Next]_vars PROVE Inv'
  OBVIOUS
<1>1. ASSUME NEW caller \in Account, Admin(caller) PROVE Inv'
  BY <1>1, AdminInv
<1>2. ASSUME NEW c \in CallId, NEW caller \in Account, NewCall(c, caller) PROVE Inv'
  BY <1>2, AskInv DEF NewCall, Sign, Verify
<1>3. ASSUME NEW c \in CallId, GuardAnswers(c) PROVE Inv'
  BY <1>3, GuardReplyInv DEF GuardAnswers
<1>4. ASSUME NEW c \in CallId, Callback(c) PROVE Inv'
  BY <1>4, OnVerifyCallbackInv, OnVerifySignCallbackInv, OnSignCallbackInv DEF Callback
<1>5. ASSUME NEW c \in CallId, MpcAnswers(c) PROVE Inv'
  BY <1>5, MpcReplyInv DEF MpcAnswers
<1>6. CASE UNCHANGED vars
  BY <1>6 DEF vars, config, calls, Inv, TypeOK, CallInv, PathInv
<1> QED
  BY <1>1, <1>2, <1>3, <1>4, <1>5, <1>6 DEF Next

LEMMA Invariance == Spec => []Inv
  BY InitInv, NextInv, PTL DEF Spec

\* The state keeps its type whatever the guards and the MPC contract answer:
\* the balance never goes below zero and no caller is paid more than once.
THEOREM TypeCorrect == Spec => []TypeOK
<1>1. Inv => TypeOK
  BY DEF Inv
<1> QED
  BY <1>1, Invariance, PTL

\* No two users, of one guard or of two, are ever given the same signing path.
THEOREM PathsIdentifyUsers == Spec => []PathIdentifiesUser
<1>1. Inv => PathIdentifiesUser
  <2> SUFFICES ASSUME Inv, NEW c \in CallId, NEW d \in CallId,
                      request[c] # None, request[d] # None,
                      request[c].path = request[d].path
               PROVE  args[c].guardId = args[d].guardId /\ reply[c].user = reply[d].user
    BY DEF PathIdentifiesUser
  <2>1. PathInv(c) /\ PathInv(d)
    BY DEF Inv
  <2>2. /\ args[c].guardId \in GuardIds /\ args[d].guardId \in GuardIds
        /\ reply[c] \in Replies /\ reply[d] \in Replies
    BY <2>1 DEF PathInv, CallArgs
  <2>3. /\ args[c].guardId \in Seq(Segment) /\ args[d].guardId \in Seq(Segment)
        /\ reply[c].user \in Seq(Segment) /\ reply[d].user \in Seq(Segment)
    BY <2>2, PathIsString DEF String
  <2>4. Len(reply[c].user) = 1 /\ Len(reply[d].user) = 1
    BY <2>1 DEF PathInv, VerifySub
  <2>5. args[c].guardId \o reply[c].user = args[d].guardId \o reply[d].user
    BY <2>1 DEF PathInv
  <2>6. ASSUME NEW s \in Seq(Segment), NEW t \in Seq(Segment),
               NEW x \in Seq(Segment), NEW y \in Seq(Segment),
               s = args[c].guardId, t = args[d].guardId,
               x = reply[c].user, y = reply[d].user
        PROVE  s = t /\ x = y
    <3>1. Len(x) = 1 /\ Len(y) = 1
      BY <2>4, <2>6, Zenon
    <3>2. s \o x = t \o y
      BY <2>5, <2>6, Zenon
    <3>3. s = t
      BY <3>1, <3>2, GuardIdInjective, Zenon
    <3>4. x = y
      BY <3>1, <3>2, UserInjective, Zenon
    <3> QED
      BY <3>3, <3>4
  <2> QED
    BY <2>3, <2>6
<1> QED
  BY <1>1, Invariance, PTL

\* A paused contract keeps its owner, its guards and its MPC configuration and
\* lets no call in.
THEOREM PausedIsFrozen == Spec => FrozenWhilePaused
<1> DEFINE Frozen == paused => /\ UNCHANGED <<owner, guards, mpc>>
                               /\ \A c \in CallId : stage[c] = "idle" => stage'[c] = "idle"
<1>1. Inv /\ [Next]_vars => Frozen
  <2> SUFFICES ASSUME Inv, [Next]_vars, paused PROVE Frozen
    OBVIOUS
  <2> USE DEF calls, config
  <2>1. ASSUME NEW caller \in Account, Admin(caller) PROVE Frozen
    BY <2>1 DEF Admin, ChangeOwner, SetPauser, Pause, Unpause, SetMpcAddress,
       SetMpcKeyVersion, SetMpcDomainId, SetMpc, AddGuard, RemoveGuard, ByOwner, NonPausedOnly
  <2>2. ASSUME NEW c \in CallId, NEW caller \in Account, NewCall(c, caller) PROVE Frozen
    BY <2>2 DEF NewCall, Sign, Verify, Ask, NonPausedOnly
  <2>3. ASSUME NEW c \in CallId, stage[c] # "idle",
               UNCHANGED config, NEW s \in Stage, stage' = [stage EXCEPT ![c] = s]
        PROVE  Frozen
    BY <2>3 DEF Inv, TypeOK
  <2>4. ASSUME NEW c \in CallId, GuardAnswers(c) \/ MpcAnswers(c) PROVE Frozen
    BY <2>3, <2>4 DEF GuardAnswers, GuardReply, MpcAnswers, MpcReply, Stage
  <2>5. ASSUME NEW c \in CallId, Callback(c) PROVE Frozen
    <3>1. stage[c] # "idle"
      BY <2>5 DEF Callback, OnVerifyCallback, OnVerifySignCallback, OnSignCallback
    <3>2. UNCHANGED config /\ \E s \in Stage : stage' = [stage EXCEPT ![c] = s]
      BY <2>5 DEF Callback, OnVerifyCallback, OnVerifySignCallback, OnSignCallback,
         RefundOrFail, Refund, Fail, Finish, AskMpc, Stage
    <3> QED
      BY <2>3, <3>1, <3>2
  <2>6. CASE UNCHANGED vars
    BY <2>6 DEF vars
  <2> QED
    BY <2>1, <2>2, <2>4, <2>5, <2>6 DEF Next
<1> QED
  BY <1>1, Invariance, PTL DEF Spec, FrozenWhilePaused

-----------------------------------------------------------------------------
(* What a call that is over has been paid.                                 *)

\* What SettledUnlessPanicked says of one call.
Settled(c) ==
  Signing(c) /\ stage[c] = "done" =>
    \/ paid[c] = args[c].deposit
    \/ reply[c].shape = "pair"
    \/ Approved(c) /\ ~VerifySub(reply[c].user)
    \/ Unreadable(c)
    \/ outcome[c] = "short"

\* A step that leaves a call alone, or does not end it, settles nothing.
LEMMA StepSettles ==
  ASSUME SettledUnlessPanicked, NEW c \in CallId, Settled(c)',
         \A d \in CallId \ {c} : /\ stage'[d] = stage[d] /\ args'[d] = args[d]
                                 /\ reply'[d] = reply[d] /\ outcome'[d] = outcome[d]
                                 /\ paid'[d] = paid[d] /\ mpcReply'[d] = mpcReply[d]
  PROVE  SettledUnlessPanicked'
<1>1. ASSUME NEW d \in CallId \ {c} PROVE Settled(d)'
  BY <1>1 DEF SettledUnlessPanicked, Settled, Signing, Approved, Unreadable
<1>2. \A d \in CallId : Settled(d)'
  BY <1>1
<1> QED
  BY <1>2 DEF SettledUnlessPanicked, Settled, Signing, Approved, Unreadable

\* A refund pays the whole deposit: the call was paid nothing before.
LEMMA RefundSettles ==
  ASSUME Inv, NEW c \in CallId, NEW result, stage[c] \in {"verified", "signed"},
         RefundOrFail(c, result)
  PROVE  Settled(c)'
<1>1. args[c].deposit \in Nat /\ paid[c] = 0
  BY ArgsOfCall DEF Inv, CallInv
<1>2. CASE Refund(c, result)
  BY <1>1, <1>2 DEF Refund, Settled, Inv, TypeOK
<1>3. CASE Fail(c, "short")
  BY <1>3 DEF Fail, Finish, Settled, Inv, TypeOK
<1> QED
  BY <1>2, <1>3 DEF RefundOrFail

LEMMA CallbackSettles ==
  ASSUME Inv, NEW c \in CallId, Callback(c)
  PROVE  Settled(c)'
<1>1. CASE OnVerifyCallback(c)
  BY <1>1 DEF OnVerifyCallback, Fail, Settled, Signing
<1>2. CASE OnVerifySignCallback(c)
  <2>1. CASE RefundOrFail(c, "refunded")
    BY <1>2, <2>1, RefundSettles DEF OnVerifySignCallback
  <2>2. CASE (reply[c].shape = "pair" \/ (Approved(c) /\ ~VerifySub(reply[c].user))) /\ Fail(c, "panicked")
    BY <2>2 DEF Fail, Settled, Approved
  <2>3. CASE AskMpc(c)
    BY <2>3 DEF AskMpc, Settled, Inv, TypeOK
  <2>4. CASE Fail(c, "short")
    BY <2>4 DEF Fail, Finish, Settled, Inv, TypeOK
  <2> QED
    BY <1>2, <2>1, <2>2, <2>3, <2>4 DEF OnVerifySignCallback
<1>3. CASE OnSignCallback(c)
  <2>1. CASE Unreadable(c) /\ Fail(c, "panicked")
    BY <2>1 DEF Fail, Settled, Unreadable
  <2>2. CASE \E result \in {"signature", "nosignature"} : RefundOrFail(c, result)
    BY <1>3, <2>2, RefundSettles DEF OnSignCallback
  <2> QED
    BY <1>3, <2>1, <2>2 DEF OnSignCallback
<1> QED
  BY <1>1, <1>2, <1>3 DEF Callback

LEMMA NextSettles == ASSUME Inv, SettledUnlessPanicked, [Next]_vars PROVE SettledUnlessPanicked'
<1> USE DEF config
<1>1. CASE UNCHANGED calls
  BY <1>1 DEF calls, SettledUnlessPanicked, Signing, Approved, Unreadable
<1>2. ASSUME NEW caller \in Account, Admin(caller) PROVE UNCHANGED calls
  BY <1>2 DEF Admin, ChangeOwner, SetPauser, Pause, Unpause, SetMpcAddress,
     SetMpcKeyVersion, SetMpcDomainId, SetMpc, AddGuard, RemoveGuard, calls
<1>3. ASSUME NEW c \in CallId, NEW caller \in Account, NewCall(c, caller)
      PROVE  SettledUnlessPanicked'
  <2>1. Settled(c)'
    BY <1>3 DEF NewCall, Sign, Verify, Ask, Settled, Inv, TypeOK
  <2> QED
    BY <1>3, <2>1, StepSettles DEF NewCall, Sign, Verify, Ask, Inv, TypeOK
<1>4. ASSUME NEW c \in CallId, GuardAnswers(c) \/ MpcAnswers(c) PROVE SettledUnlessPanicked'
  <2>1. Settled(c)'
    BY <1>4 DEF GuardAnswers, GuardReply, MpcAnswers, MpcReply, Settled, Inv, TypeOK
  <2> QED
    BY <1>4, <2>1, StepSettles DEF GuardAnswers, GuardReply, MpcAnswers, MpcReply, Inv, TypeOK
<1>5. ASSUME NEW c \in CallId, Callback(c) PROVE SettledUnlessPanicked'
  <2>1. \A d \in CallId \ {c} : /\ stage'[d] = stage[d] /\ args'[d] = args[d]
                                /\ reply'[d] = reply[d] /\ outcome'[d] = outcome[d]
                                /\ paid'[d] = paid[d] /\ mpcReply'[d] = mpcReply[d]
    BY <1>5 DEF Callback, OnVerifyCallback, OnVerifySignCallback, OnSignCallback, RefundOrFail,
       Refund, Fail, Finish, AskMpc, Inv, TypeOK
  <2> QED
    BY <1>5, <2>1, CallbackSettles, StepSettles
<1> QED
  BY <1>1, <1>2, <1>3, <1>4, <1>5 DEF Next, vars, calls

\* A sign call that is over has its whole deposit back, unless a callback
\* panicked on the guard's answer or on the MPC contract's, or the balance was
\* short.
THEOREM CallsAreSettled == Spec => []SettledUnlessPanicked
<1>1. Init => SettledUnlessPanicked
  BY DEF Init, SettledUnlessPanicked
<1>2. Inv /\ SettledUnlessPanicked /\ [Next]_vars => SettledUnlessPanicked'
  BY NextSettles
<1> QED
  BY <1>1, <1>2, Invariance, PTL DEF Spec

-----------------------------------------------------------------------------
(* The balance.                                                            *)

\* Amounts are counted as sets of units, so that sums over calls are the sizes
\* of unions of disjoint sets.
Units(c, n) == {c} \X (1 .. n)

\* Deposits that calls in flight have left with the contract.
Held ==
  {u \in CallId \X Nat :
     /\ stage[u[1]] \in {"verifying", "verified", "signed"}
     /\ u[2] \in 1 .. args[u[1]].deposit}

\* The MPC contract answered the call.
Answered(c) == mpcReply[c] # None

Kept(answer) == IF answer.result = "failed" THEN 0 ELSE answer.fee

\* Fees that the MPC contract kept.
Spent == {u \in CallId \X Nat : Answered(u[1]) /\ u[2] \in 1 .. Kept(mpcReply[u[1]])}

\* What the contract has at least: its reserve and the deposits in flight, less
\* the fees.
BalanceInv ==
  /\ IsFiniteSet(Held) /\ IsFiniteSet(Spent)
  /\ balance >= Reserve + Cardinality(Held) - Cardinality(Spent)

LEMMA UnitsCardinality ==
  ASSUME NEW c, NEW n \in Nat
  PROVE  IsFiniteSet(Units(c, n)) /\ Cardinality(Units(c, n)) = n
<1>1. IsFiniteSet({c}) /\ Cardinality({c}) = 1
  BY FS_Singleton
<1>2. IsFiniteSet(1 .. n) /\ Cardinality(1 .. n) = n
  BY FS_Interval
<1>3. /\ IsFiniteSet({c} \X (1 .. n))
      /\ Cardinality({c} \X (1 .. n)) = Cardinality({c}) * Cardinality(1 .. n)
  BY <1>1, <1>2, FS_Product
<1>4. Cardinality({c} \X (1 .. n)) = 1 * n
  BY <1>1, <1>2, <1>3, Zenon
<1> QED
  BY <1>3, <1>4 DEF Units

LEMMA AddUnits ==
  ASSUME NEW S, IsFiniteSet(S), NEW c, NEW n \in Nat, S \cap Units(c, n) = {}
  PROVE  IsFiniteSet(S \cup Units(c, n)) /\ Cardinality(S \cup Units(c, n)) = Cardinality(S) + n
<1>1. Cardinality({}) = 0 /\ Cardinality(S) \in Nat
  BY FS_EmptySet, FS_CardinalityType
<1> QED
  BY <1>1, UnitsCardinality, FS_Union

LEMMA RemoveUnits ==
  ASSUME NEW S, IsFiniteSet(S), NEW c, NEW n \in Nat, Units(c, n) \subseteq S
  PROVE  /\ IsFiniteSet(S \ Units(c, n))
         /\ Cardinality(S \ Units(c, n)) = Cardinality(S) - n
<1>1. S \cap Units(c, n) = Units(c, n)
  OBVIOUS
<1>2. /\ IsFiniteSet(S \ Units(c, n))
      /\ Cardinality(S \ Units(c, n)) = Cardinality(S) - Cardinality(S \cap Units(c, n))
  BY FS_Difference
<1> QED
  BY <1>1, <1>2, UnitsCardinality

InFlight == {"verifying", "verified", "signed"}

\* A call whose deposit comes to the contract, from the caller or back from the
\* MPC contract.
LEMMA DepositEnters ==
  ASSUME NEW c \in CallId, NEW d \in Nat,
         stage[c] \notin InFlight, stage'[c] \in InFlight, args'[c].deposit = d,
         \A b \in CallId \ {c} : stage'[b] = stage[b] /\ args'[b] = args[b]
  PROVE  Held' = Held \cup Units(c, d) /\ Held \cap Units(c, d) = {}
<1>1. \A u \in CallId \X Nat : u[1] # c => (u \in Held' <=> u \in Held)
  BY DEF Held, InFlight
<1>2. \A u \in CallId \X Nat : u[1] = c =>
        u \notin Held /\ (u \in Held' <=> u[2] \in 1 .. d)
  BY DEF Held, InFlight
<1>3. Units(c, d) = {u \in CallId \X Nat : u[1] = c /\ u[2] \in 1 .. d}
  BY DEF Units
<1>4. Held \subseteq CallId \X Nat /\ Held' \subseteq CallId \X Nat
  BY DEF Held
<1> QED
  BY <1>1, <1>2, <1>3, <1>4

\* A call whose deposit leaves the contract, or stays with it for good.
LEMMA DepositLeaves ==
  ASSUME NEW c \in CallId, NEW d \in Nat,
         stage[c] \in InFlight, stage'[c] \notin InFlight, args[c].deposit = d,
         \A b \in CallId \ {c} : stage'[b] = stage[b] /\ args'[b] = args[b]
  PROVE  Held' = Held \ Units(c, d) /\ Units(c, d) \subseteq Held
<1>1. \A u \in CallId \X Nat : u[1] # c => (u \in Held' <=> u \in Held)
  BY DEF Held, InFlight
<1>2. \A u \in CallId \X Nat : u[1] = c =>
        u \notin Held' /\ (u \in Held <=> u[2] \in 1 .. d)
  BY DEF Held, InFlight
<1>3. Units(c, d) = {u \in CallId \X Nat : u[1] = c /\ u[2] \in 1 .. d}
  BY DEF Units
<1>4. Held \subseteq CallId \X Nat /\ Held' \subseteq CallId \X Nat
  BY DEF Held
<1> QED
  BY <1>1, <1>2, <1>3, <1>4

LEMMA HeldStays ==
  ASSUME \A c \in CallId : /\ stage'[c] \in InFlight <=> stage[c] \in InFlight
                           /\ stage[c] \in InFlight => args'[c] = args[c]
  PROVE  Held' = Held
  BY DEF Held, InFlight

LEMMA FeeIsKept ==
  ASSUME NEW c \in CallId, NEW answer \in MpcReplies, ~Answered(c), Answered(c)',
         mpcReply'[c] = answer,
         \A b \in CallId \ {c} : mpcReply'[b] = mpcReply[b]
  PROVE  /\ Kept(answer) \in Nat
         /\ Spent' = Spent \cup Units(c, Kept(answer))
         /\ Spent \cap Units(c, Kept(answer)) = {}
<1> DEFINE fee == Kept(answer)
<1>0. fee \in Nat
  BY AmountsAssumption DEF MpcReplies, Kept
<1> HIDE DEF fee
<1>1. \A u \in CallId \X Nat : u[1] # c => (u \in Spent' <=> u \in Spent)
  BY DEF Spent, Answered
<1>2. \A u \in CallId \X Nat : u[1] = c =>
        u \notin Spent /\ (u \in Spent' <=> u[2] \in 1 .. fee)
  BY DEF Spent, fee, Kept
<1>3. Units(c, fee) = {u \in CallId \X Nat : u[1] = c /\ u[2] \in 1 .. fee}
  BY <1>0 DEF Units
<1>4. Spent \subseteq CallId \X Nat /\ Spent' \subseteq CallId \X Nat
  BY DEF Spent
<1>5. Spent' = Spent \cup Units(c, fee) /\ Spent \cap Units(c, fee) = {}
  BY <1>1, <1>2, <1>3, <1>4
<1> QED
  BY <1>0, <1>5 DEF fee

LEMMA SpentStays ==
  ASSUME mpcReply' = mpcReply
  PROVE  Spent' = Spent
  BY DEF Spent, Answered

\* Every call costs the contract one fee at most.
FeesAreCovered(most) ==
  /\ IsFiniteSet(CallId)
  /\ most \in Nat /\ \A fee \in Fees : fee <= most
  /\ Reserve >= Cardinality(CallId) * most

LEMMA SpentIsBounded ==
  ASSUME NEW most, FeesAreCovered(most), Inv, BalanceInv
  PROVE  Cardinality(Spent) <= Reserve
<1>1. /\ IsFiniteSet(1 .. most) /\ Cardinality(1 .. most) = most
  BY FS_Interval DEF FeesAreCovered
<1>2. /\ IsFiniteSet(CallId \X (1 .. most))
      /\ Cardinality(CallId \X (1 .. most)) = Cardinality(CallId) * most
  BY <1>1, FS_Product, Zenon DEF FeesAreCovered
<1>3. Spent \subseteq CallId \X (1 .. most)
  <2> SUFFICES ASSUME NEW u \in Spent PROVE u \in CallId \X (1 .. most)
    OBVIOUS
  <2>1. u \in CallId \X Nat /\ mpcReply[u[1]] \in MpcReplies /\ u[2] \in 1 .. Kept(mpcReply[u[1]])
    BY DEF Spent, Answered, Inv, TypeOK
  <2>2. mpcReply[u[1]].fee \in Nat /\ mpcReply[u[1]].fee <= most
    BY <2>1, AmountsAssumption DEF MpcReplies, FeesAreCovered
  <2> QED
    BY <2>1, <2>2 DEF Kept, FeesAreCovered
<1>4. Cardinality(Spent) <= Cardinality(CallId) * most
  BY <1>2, <1>3, FS_Subset
<1>5. Cardinality(Spent) \in Nat /\ Cardinality(CallId) * most \in Nat
  BY <1>2, FS_CardinalityType DEF BalanceInv, FeesAreCovered
<1> QED
  BY <1>4, <1>5, AmountsAssumption DEF FeesAreCovered

\* The contract can pay back, or pass on, what a call in flight has left with it.
LEMMA AffordsDeposits ==
  ASSUME NEW most, FeesAreCovered(most), Inv, BalanceInv, NEW c \in CallId,
         stage[c] \in {"verified", "signed"}
  PROVE  Affords(args[c].deposit)
<1> DEFINE d == args[c].deposit
<1>1. d \in Nat
  BY ArgsOfCall
<1>2. Units(c, d) \subseteq Held
  BY DEF Units, Held
<1>3. /\ IsFiniteSet(Units(c, d)) /\ Cardinality(Units(c, d)) = d
  BY <1>1, UnitsCardinality
<1>4. d <= Cardinality(Held)
  BY <1>2, <1>3, FS_Subset DEF BalanceInv
<1>5. Cardinality(Held) \in Nat /\ Cardinality(Spent) \in Nat
  BY FS_CardinalityType DEF BalanceInv
<1>6. balance \in Nat /\ balance >= Reserve + Cardinality(Held) - Cardinality(Spent)
  BY DEF Inv, TypeOK, BalanceInv
<1> HIDE DEF d
<1>7. balance >= d
  BY <1>1, <1>4, <1>5, <1>6, SpentIsBounded, AmountsAssumption
<1> QED
  BY <1>7 DEF d, Affords

\* Steps of a call that keep the invariant: its deposit comes in, goes out, or
\* stays.
LEMMA EnteringKeepsBalance ==
  ASSUME BalanceInv, balance \in Nat, NEW c \in CallId, NEW d \in Nat,
         stage[c] \notin InFlight, stage'[c] \in InFlight, args'[c].deposit = d,
         \A b \in CallId \ {c} : stage'[b] = stage[b] /\ args'[b] = args[b],
         mpcReply' = mpcReply, balance' = balance + d
  PROVE  BalanceInv'
<1>1. Held' = Held \cup Units(c, d) /\ Held \cap Units(c, d) = {}
  BY DepositEnters
<1>2. IsFiniteSet(Held') /\ Cardinality(Held') = Cardinality(Held) + d
  BY <1>1, AddUnits DEF BalanceInv
<1>3. Spent' = Spent
  BY SpentStays
<1>4. Cardinality(Held) \in Nat /\ Cardinality(Spent) \in Nat /\ Reserve \in Nat
  BY FS_CardinalityType, AmountsAssumption DEF BalanceInv
<1>5. balance' >= Reserve + Cardinality(Held') - Cardinality(Spent')
  BY <1>2, <1>3, <1>4 DEF BalanceInv
<1> QED
  BY <1>2, <1>3, <1>5 DEF BalanceInv

LEMMA LeavingKeepsBalance ==
  ASSUME BalanceInv, balance \in Nat, NEW c \in CallId, NEW d \in Nat,
         stage[c] \in InFlight, stage'[c] \notin InFlight, args[c].deposit = d,
         \A b \in CallId \ {c} : stage'[b] = stage[b] /\ args'[b] = args[b],
         mpcReply' = mpcReply, balance' \in {balance, balance - d}
  PROVE  BalanceInv'
<1>1. Held' = Held \ Units(c, d) /\ Units(c, d) \subseteq Held
  BY DepositLeaves
<1>2. IsFiniteSet(Held') /\ Cardinality(Held') = Cardinality(Held) - d
  BY <1>1, RemoveUnits DEF BalanceInv
<1>3. Spent' = Spent
  BY SpentStays
<1>4. Cardinality(Held) \in Nat /\ Cardinality(Spent) \in Nat /\ Reserve \in Nat
  BY FS_CardinalityType, AmountsAssumption DEF BalanceInv
<1>5. balance' >= Reserve + Cardinality(Held') - Cardinality(Spent')
  BY <1>2, <1>3, <1>4 DEF BalanceInv
<1> QED
  BY <1>2, <1>3, <1>5 DEF BalanceInv

LEMMA StayingKeepsBalance ==
  ASSUME BalanceInv,
         \A b \in CallId : /\ stage'[b] \in InFlight <=> stage[b] \in InFlight
                           /\ stage[b] \in InFlight => args'[b] = args[b],
         mpcReply' = mpcReply, balance' = balance
  PROVE  BalanceInv'
<1>1. Held' = Held /\ Spent' = Spent
  BY HeldStays, SpentStays
<1> QED
  BY <1>1 DEF BalanceInv

\* A callback ends a call that waits for it, or hands its deposit on.
LEMMA AskBalance ==
  ASSUME Inv, BalanceInv, NEW c \in CallId, NEW caller \in Account, NewCall(c, caller)
  PROVE  BalanceInv' /\ UNCHANGED outcome
<1>1. PICK kind \in {"sign", "verify"}, guardId \in GuardIds, token \in Tokens,
           payload \in Payloads, algorithm \in SignatureAlgorithm \cup {None}, deposit \in Deposits \cup {0} :
        Ask(c, kind, caller, guardId, token, payload, algorithm, deposit)
  BY DEF NewCall, Sign, Verify
<1>2. deposit \in Nat /\ balance \in Nat
  BY AmountsAssumption DEF Inv, TypeOK
<1>3. /\ stage[c] = "idle" /\ stage' = [stage EXCEPT ![c] = "verifying"]
      /\ args'[c].deposit = deposit
      /\ \A b \in CallId \ {c} : args'[b] = args[b]
      /\ balance' = balance + deposit
      /\ UNCHANGED <<mpcReply, outcome>>
  BY <1>1 DEF Ask, Inv, TypeOK
<1>4. stage'[c] = "verifying" /\ \A b \in CallId \ {c} : stage'[b] = stage[b]
  BY <1>3 DEF Inv, TypeOK
<1>5. stage[c] \notin InFlight /\ stage'[c] \in InFlight
  BY <1>3, <1>4 DEF InFlight
<1>6. BalanceInv'
  BY <1>2, <1>3, <1>4, <1>5, EnteringKeepsBalance
<1> QED
  BY <1>3, <1>6

LEMMA GuardReplyBalance ==
  ASSUME Inv, BalanceInv, NEW c \in CallId, GuardAnswers(c)
  PROVE  BalanceInv' /\ UNCHANGED outcome
<1> USE DEF GuardAnswers, GuardReply
<1>1. \A b \in CallId : stage'[b] \in InFlight <=> stage[b] \in InFlight
  BY DEF Inv, TypeOK, InFlight
<1> QED
  BY <1>1, StayingKeepsBalance

\* The MPC contract sends back the deposit less its fee.
LEMMA MpcReplyBalance ==
  ASSUME Inv, BalanceInv, NEW c \in CallId, MpcAnswers(c)
  PROVE  BalanceInv' /\ UNCHANGED outcome
<1>1. PICK answer \in MpcReplies : MpcReply(c, answer)
  BY DEF MpcAnswers
<1> DEFINE d == args[c].deposit
           fee == Kept(answer)
<1>2. d \in Nat /\ balance \in Nat
  BY <1>1, ArgsOfCall DEF MpcReply, Inv, TypeOK
<1>3. /\ stage[c] = "signing" /\ stage' = [stage EXCEPT ![c] = "signed"]
      /\ mpcReply' = [mpcReply EXCEPT ![c] = answer]
      /\ balance' = balance + d - fee
      /\ UNCHANGED <<args, outcome>>
  BY <1>1 DEF MpcReply, Kept
<1>4. stage'[c] = "signed" /\ \A b \in CallId \ {c} : stage'[b] = stage[b]
  BY <1>3 DEF Inv, TypeOK
<1>5. mpcReply'[c] = answer /\ \A b \in CallId \ {c} : mpcReply'[b] = mpcReply[b]
  BY <1>3 DEF Inv, TypeOK
<1>6. ~Answered(c) /\ Answered(c)'
  BY <1>3, <1>5, NoneAssumption DEF Answered, Inv, CallInv
<1>7. fee \in Nat /\ Spent' = Spent \cup Units(c, fee) /\ Spent \cap Units(c, fee) = {}
  BY <1>5, <1>6, FeeIsKept
<1>8. Held' = Held \cup Units(c, d) /\ Held \cap Units(c, d) = {}
  <2>1. stage[c] \notin InFlight /\ stage'[c] \in InFlight /\ args'[c].deposit = d
    BY <1>3, <1>4 DEF InFlight
  <2>2. \A b \in CallId \ {c} : stage'[b] = stage[b] /\ args'[b] = args[b]
    BY <1>3, <1>4
  <2> HIDE DEF d
  <2> QED
    BY <1>2, <2>1, <2>2, DepositEnters
<1> HIDE DEF d, fee
<1>9. IsFiniteSet(Held') /\ Cardinality(Held') = Cardinality(Held) + d
  BY <1>2, <1>8, AddUnits DEF BalanceInv
<1>10. IsFiniteSet(Spent') /\ Cardinality(Spent') = Cardinality(Spent) + fee
  BY <1>7, AddUnits DEF BalanceInv
<1>11. Cardinality(Held) \in Nat /\ Cardinality(Spent) \in Nat /\ Reserve \in Nat
  BY FS_CardinalityType, AmountsAssumption DEF BalanceInv
<1>12. balance' >= Reserve + Cardinality(Held') - Cardinality(Spent')
  BY <1>2, <1>3, <1>7, <1>9, <1>10, <1>11 DEF BalanceInv
<1> QED
  BY <1>3, <1>9, <1>10, <1>12 DEF BalanceInv

\* A call that ends: nothing more of it is in flight.
LEMMA EndingKeepsBalance ==
  ASSUME Inv, BalanceInv, NEW c \in CallId, stage[c] \in {"verified", "signed"},
         NEW result, Refund(c, result) \/ Fail(c, result)
  PROVE  BalanceInv' /\ outcome' = [outcome EXCEPT ![c] = result]
<1> USE DEF Refund, Fail, Finish
<1> DEFINE d == args[c].deposit
<1>1. d \in Nat /\ balance \in Nat
  BY ArgsOfCall DEF Inv, TypeOK
<1>2. stage'[c] = "done" /\ \A b \in CallId \ {c} : stage'[b] = stage[b] /\ args'[b] = args[b]
  BY DEF Inv, TypeOK
<1>3. outcome'[c] = result /\ \A b \in CallId \ {c} : outcome'[b] = outcome[b]
  BY DEF Inv, TypeOK
<1>4. stage[c] \in InFlight /\ stage'[c] \notin InFlight
  BY <1>2 DEF InFlight
<1>5. balance' \in {balance, balance - d}
  OBVIOUS
<1> HIDE DEF d
<1>6. BalanceInv'
  BY <1>1, <1>2, <1>4, <1>5, LeavingKeepsBalance DEF d
<1> QED
  BY <1>6

LEMMA AskMpcBalance ==
  ASSUME Inv, BalanceInv, NEW c \in CallId, stage[c] = "verified", AskMpc(c)
  PROVE  BalanceInv' /\ UNCHANGED outcome
<1> USE DEF AskMpc
<1> DEFINE d == args[c].deposit
<1>1. d \in Nat /\ balance \in Nat
  BY ArgsOfCall DEF Inv, TypeOK
<1>2. stage'[c] = "signing" /\ \A b \in CallId \ {c} : stage'[b] = stage[b] /\ args'[b] = args[b]
  BY DEF Inv, TypeOK
<1>3. stage[c] \in InFlight /\ stage'[c] \notin InFlight
  BY <1>2 DEF InFlight
<1>4. balance' \in {balance, balance - d}
  OBVIOUS
<1> HIDE DEF d
<1>5. BalanceInv'
  BY <1>1, <1>2, <1>3, <1>4, LeavingKeepsBalance DEF d
<1> QED
  BY <1>5

\* What a callback does when the balance covers the deposit.
LEMMA CallbackBalance ==
  ASSUME Inv, BalanceInv, NEW c \in CallId, Callback(c),
         stage[c] \in {"verified", "signed"} => Affords(args[c].deposit)
  PROVE  BalanceInv' /\ \E result \in Outcome \ {"short"} :
                          outcome' \in {outcome, [outcome EXCEPT ![c] = result]}
<1>1. CASE OnVerifyCallback(c)
  <2>1. PICK result \in {"panicked", "accepted", "rejected"} : Fail(c, result)
    BY <1>1 DEF OnVerifyCallback, Fail
  <2>2. stage[c] = "verified"
    BY <1>1 DEF OnVerifyCallback
  <2> QED
    BY <2>1, <2>2, EndingKeepsBalance DEF Outcome
<1>2. CASE OnVerifySignCallback(c)
  <2>1. stage[c] = "verified" /\ Affords(args[c].deposit)
    BY <1>2 DEF OnVerifySignCallback
  <2>2. CASE AskMpc(c)
    BY <2>1, <2>2, AskMpcBalance DEF Outcome
  <2>3. CASE Refund(c, "refunded") \/ Fail(c, "panicked")
    BY <2>1, <2>3, EndingKeepsBalance DEF Outcome
  <2> QED
    BY <1>2, <2>1, <2>2, <2>3 DEF OnVerifySignCallback, RefundOrFail
<1>3. CASE OnSignCallback(c)
  <2>1. stage[c] = "signed" /\ Affords(args[c].deposit)
    BY <1>3 DEF OnSignCallback
  <2>2. PICK result \in {"signature", "nosignature", "panicked"} :
          Refund(c, result) \/ Fail(c, result)
    BY <1>3, <2>1 DEF OnSignCallback, RefundOrFail
  <2> QED
    BY <2>1, <2>2, EndingKeepsBalance DEF Outcome
<1> QED
  BY <1>1, <1>2, <1>3 DEF Callback

LEMMA NextBalance ==
  ASSUME NEW most, FeesAreCovered(most), Inv, BalanceInv, NeverShort, [Next]_vars
  PROVE  BalanceInv' /\ NeverShort'
<1>1. CASE UNCHANGED <<calls, balance>>
  BY <1>1, StayingKeepsBalance DEF calls, NeverShort
<1>2. ASSUME NEW caller \in Account, Admin(caller) PROVE UNCHANGED <<calls, balance>>
  BY <1>2 DEF Admin, ChangeOwner, SetPauser, Pause, Unpause, SetMpcAddress,
     SetMpcKeyVersion, SetMpcDomainId, SetMpc, AddGuard, RemoveGuard, calls
<1>3. ASSUME NEW c \in CallId, NEW caller \in Account, NewCall(c, caller)
      PROVE  BalanceInv' /\ NeverShort'
  BY <1>3, AskBalance DEF NeverShort
<1>4. ASSUME NEW c \in CallId, GuardAnswers(c) PROVE BalanceInv' /\ NeverShort'
  BY <1>4, GuardReplyBalance DEF NeverShort
<1>5. ASSUME NEW c \in CallId, MpcAnswers(c) PROVE BalanceInv' /\ NeverShort'
  BY <1>5, MpcReplyBalance DEF NeverShort
<1>6. ASSUME NEW c \in CallId, Callback(c) PROVE BalanceInv' /\ NeverShort'
  <2>1. stage[c] \in {"verified", "signed"} => Affords(args[c].deposit)
    BY AffordsDeposits
  <2>2. PICK result \in Outcome \ {"short"} :
          BalanceInv' /\ outcome' \in {outcome, [outcome EXCEPT ![c] = result]}
    BY <1>6, <2>1, CallbackBalance
  <2>3. NeverShort'
    BY <2>2 DEF NeverShort, Inv, TypeOK
  <2> QED
    BY <2>2, <2>3
<1> QED
  BY <1>1, <1>2, <1>3, <1>4, <1>5, <1>6 DEF Next, vars, calls

LEMMA InitBalance == Init => BalanceInv /\ NeverShort
<1> SUFFICES ASSUME Init PROVE BalanceInv /\ NeverShort
  OBVIOUS
<1>1. Held = {} /\ Spent = {}
  BY DEF Init, Held, Spent, Answered
<1>2. Reserve \in Nat /\ balance = Reserve
  BY AmountsAssumption DEF Init
<1>3. BalanceInv
  BY <1>1, <1>2, FS_EmptySet DEF BalanceInv
<1>4. NeverShort
  BY NoneAssumption DEF Init, NeverShort, Outcome
<1> QED
  BY <1>3, <1>4

\* With a reserve that covers one MPC fee of every call there may be, no transfer
\* ever finds the balance short: no call is refunded out of another's deposit,
\* although each successful one gets back more than the MPC contract returned.
THEOREM DepositsAreCovered ==
  ASSUME NEW CONSTANT most, FeesAreCovered(most)
  PROVE  Spec => []NeverShort
<1>1. Inv /\ BalanceInv /\ NeverShort /\ [Next]_vars => BalanceInv' /\ NeverShort'
  BY NextBalance
<1> QED
  BY <1>1, InitBalance, Invariance, PTL DEF Spec
=============================================================================
