----------------------------- MODULE AuthorizeApp -----------------------------
(***************************************************************************)
(* The Auth0 tenant's part (packages/auth0): the post-login action, which  *)
(* decodes the transaction or delegate action in the authorisation request,*)
(* prompts with a form and puts the bytes into the token's fatxn claim;    *)
(* the form, which shows what was decoded and records the decision; and    *)
(* the continuation of the login. A payload is a list of numbers written   *)
(* as text: to decode it they become bytes, into the claim they go as they *)
(* are. Amounts are in units of 10^13 yoctoNEAR.                           *)
(***************************************************************************)
EXTENDS Integers, Sequences

CONSTANTS
  Amounts,   \* deposits and stakes
  Payloads,  \* the values of the query parameters
  Absence    \* a parameter, a claim or a field that is not there

ClassicKinds == {"createAccount", "deployContract", "functionCall", "transfer", "stake",
                 "addKey", "deleteKey", "deleteAccount"}
ActionKinds == ClassicKinds \cup {"signedDelegate", "deployGlobalContract", "useGlobalContract"}

KeyTypes == {"ed25519", "secp256k1"}

\* An action: what it does, and the fields that its kind has.
NearActions == [kind : ActionKinds \cup {"newer"}, amount : Amounts \cup {0}, fullAccess : BOOLEAN,
                publicKey : KeyTypes, args : {"none", "JSON", "text"}]

\* What a list of numbers decodes to, and whether the numbers are bytes already.
\* A delegate action comes after a prefix of four bytes that nothing looks at.
PayloadTexts == [holds : {"transaction", "delegate action", "neither"}, actions : Seq(NearActions), bytes : BOOLEAN]

ASSUME AuthorizeAssumption ==
  /\ Amounts \subseteq Nat /\ Payloads \subseteq PayloadTexts /\ Absence \notin PayloadTexts
  /\ \A p \in Payloads : p.holds = "delegate action" => \A i \in DOMAIN p.actions : p.actions[i].kind \in ClassicKinds

VARIABLES
  consent,  \* the login: its stage, and the scopes and the claim of its token
  form      \* the form: its fields, what it shows, and the hidden field "decision"

consentVars == <<consent, form>>

ProfileScopes == {"profile", "email", "offline_access"}

ConsentInit ==
  /\ consent = [stage |-> "login", scopes |-> ProfileScopes \cup {"openid", "transaction:sign"}, fatxn |-> Absence]
  /\ form = [name |-> Absence, fields |-> {}, actions |-> <<>>, shown |-> {}, view |-> <<>>, decision |-> Absence]

Deny == consent' = [consent EXCEPT !.stage = "denied"] /\ UNCHANGED form

\* What a payload decodes to, if it does.
ParseTransaction(payload) == IF payload.holds = "transaction" THEN <<payload.actions>> ELSE <<>>

\* Whatever the four bytes before it are.
DecodeDelegateAction(payload) == IF payload.holds = "delegate action" THEN <<payload.actions>> ELSE <<>>

\* Numbers too large for JSON become texts; nothing of an action is lost.
StringifyActions(actions) == actions

\* The action throws, and the login fails, when the payload does not decode.
Prompt(decoded, payload, name, fields) ==
  IF decoded = <<>>
  THEN consent' = [consent EXCEPT !.stage = "failed", !.scopes = @ \ ProfileScopes] /\ UNCHANGED form
  ELSE /\ consent' = [stage |-> "prompted", scopes |-> consent.scopes \ ProfileScopes, fatxn |-> payload]
       /\ form' = [form EXCEPT !.name = name, !.fields = fields, !.actions = StringifyActions(decoded[1])]

\* onExecutePostLogin: with both parameters it is the transaction.
OnExecutePostLogin(onchainAudience, transaction, delegateAction) ==
  LET hasSigningPayload == transaction # Absence \/ delegateAction # Absence IN
  /\ consent.stage = "login"
  /\ IF onchainAudience # hasSigningPayload THEN Deny
     ELSE IF ~onchainAudience THEN consent' = [consent EXCEPT !.stage = "issued"] /\ UNCHANGED form
     ELSE IF transaction # Absence
          THEN Prompt(ParseTransaction(transaction), transaction, "transaction", {"signerId", "receiverId"})
          ELSE Prompt(DecodeDelegateAction(delegateAction), delegateAction, "delegate",
                      {"senderId", "receiverId", "maxBlockHeight"})

------------------------------------------------------------------------------
(* The helpers of the forms.                                                 *)

\* 10^16 yoctoNEAR, 8 decimals of a NEAR.
Resolution == 1000
\* Mutant: the threshold that the comment gives.
CommentThreshold == 1

ConversionThreshold == Resolution

\* What is below the resolution is cut off.
YoctoToNear(yocto) == [unit |-> "NEAR", value |-> yocto \div Resolution]

FormatNearAmount(yocto, options) ==
  IF options.showYoctoConversion /\ yocto >= ConversionThreshold THEN YoctoToNear(yocto)
  ELSE [unit |-> "yoctoNEAR", value |-> yocto]

\* The characters of a key stand for its bytes.
Base58Encode(bytes) == [base58 |-> bytes]

\* secp256k1 is tried first; a key of neither type would show as nothing.
FormatPublicKey(key) == [curve |-> key, text |-> Base58Encode("data")]

\* Text that is not JSON is shown as it is.
DecodeFunctionCallArgs(args) == IF args = "none" THEN "" ELSE args

\* The one key of an action that has a value.
GetActionType(action) == action.kind

CreateTextContent(label, value) == [label |-> label, value |-> value]

Callout(text) == CreateTextContent("callout", text)

\* The content of each kind, beside its description.
CreateAccountContent == <<>>

DeployContractContent == <<CreateTextContent("Code", "length")>>

FunctionCallContent(a, options) ==
  <<CreateTextContent("Method Name", "name"), CreateTextContent("Args", DecodeFunctionCallArgs(a.args)),
    CreateTextContent("Gas", "gas"), CreateTextContent("Deposit", FormatNearAmount(a.amount, options))>>

TransferContent(a, options) == <<CreateTextContent("Deposit", FormatNearAmount(a.amount, options))>>

StakeContent(a, options) ==
  <<CreateTextContent("Stake", FormatNearAmount(a.amount, options)),
    CreateTextContent("Public Key", FormatPublicKey(a.publicKey))>>

AddKeyContent(a) ==
  <<CreateTextContent("Public Key", FormatPublicKey(a.publicKey)), CreateTextContent("Nonce", "nonce"),
    IF a.fullAccess THEN Callout("full access") ELSE CreateTextContent("Permission", "function call")>>

DeleteKeyContent(a) ==
  <<Callout("cannot be recovered"), CreateTextContent("Public Key", FormatPublicKey(a.publicKey))>>

DeleteAccountContent == <<Callout("cannot be recovered"), CreateTextContent("Beneficiary ID", "id")>>

SignedDelegateContent == <<CreateTextContent("Delegate Action", "JSON")>>

DeployGlobalContractContent == <<CreateTextContent("Code", "length")>>

UseGlobalContractContent == <<CreateTextContent("Contract Identifier", "JSON")>>

AddKeyWarnsWhen(a) == a.fullAccess

\* ACTION_DISPATCH: whether each kind warns, and what it shows.
ActionDispatch(a, options) ==
  LET Entry(warns, content) == [warns |-> warns, content |-> content] IN
  CASE a.kind = "createAccount" -> Entry(FALSE, CreateAccountContent)
    [] a.kind = "deployContract" -> Entry(TRUE, DeployContractContent)
    [] a.kind = "functionCall" -> Entry(FALSE, FunctionCallContent(a, options))
    [] a.kind = "transfer" -> Entry(FALSE, TransferContent(a, options))
    [] a.kind = "stake" -> Entry(FALSE, StakeContent(a, options))
    [] a.kind = "addKey" -> Entry(AddKeyWarnsWhen(a), AddKeyContent(a))
    [] a.kind = "deleteKey" -> Entry(TRUE, DeleteKeyContent(a))
    [] a.kind = "deleteAccount" -> Entry(TRUE, DeleteAccountContent)
    [] a.kind = "signedDelegate" -> Entry(FALSE, SignedDelegateContent)
    [] a.kind = "deployGlobalContract" -> Entry(TRUE, DeployGlobalContractContent)
    [] a.kind = "useGlobalContract" -> Entry(FALSE, UseGlobalContractContent)

\* Closed at first: the header, with the warning, is what is seen; clicks on it
\* open and close the content.
CreateAccordion(label, content, showWarning) == [label |-> label, content |-> content, warning |-> showWarning]

\* A kind that is not in the table is shown with a warning and nothing else.
HandleNearAction(a, options) ==
  IF GetActionType(a) \notin ActionKinds THEN CreateAccordion("Unknown", <<>>, TRUE)
  ELSE LET entry == ActionDispatch(a, options)
       IN CreateAccordion(GetActionType(a), entry.content, entry.warns)

\* The form's fields that have a value, then its actions.
RenderDetails(fields, options) ==
  /\ consent' = [consent EXCEPT !.stage = "shown"]
  /\ form' = [form EXCEPT !.shown = fields \cap form.fields,
                          !.view = [i \in DOMAIN form.actions |-> HandleNearAction(form.actions[i], options)]]

\* The two forms: only the transaction's converts amounts.
TransactionDetails ==
  /\ consent.stage = "prompted" /\ form.name = "transaction"
  /\ RenderDetails({"signerId", "receiverId"}, [showYoctoConversion |-> TRUE])

DelegateActionDetails ==
  /\ consent.stage = "prompted" /\ form.name = "delegate"
  /\ RenderDetails({"senderId", "receiverId", "maxBlockHeight"}, [showYoctoConversion |-> FALSE])

\* The buttons are the only way forward.
Decide(decision) ==
  /\ consent.stage = "shown"
  /\ form' = [form EXCEPT !.decision = decision]
  /\ consent' = [consent EXCEPT !.stage = "resumed"]

IsDenied(decision) == decision = "denied"

OnContinuePostLogin ==
  /\ consent.stage = "resumed"
  /\ IF IsDenied(form.decision) THEN Deny ELSE consent' = [consent EXCEPT !.stage = "issued"] /\ UNCHANGED form

Parameters == Payloads \cup {Absence}

ConsentNext ==
  \/ \E b \in BOOLEAN, t \in Parameters, d \in Parameters : OnExecutePostLogin(b, t, d)
  \/ TransactionDetails \/ DelegateActionDetails
  \/ \E d \in {"approved", "denied"} : Decide(d)
  \/ OnContinuePostLogin

ConsentSpec == ConsentInit /\ [][ConsentNext]_consentVars

------------------------------------------------------------------------------
\* What a guard accepts as a claim: a list of bytes.
Signs(fatxn) == fatxn # Absence /\ fatxn.bytes

\* Actions that give the account away, or that nobody can take back.
Grave(a) == a.kind \in {"deployContract", "deployGlobalContract", "deleteKey", "deleteAccount", "newer"}
              \/ (a.kind = "addKey" /\ a.fullAccess)

\* What stands beside a label of the content.
Beside(content, label) == {content[i].value : i \in {j \in DOMAIN content : content[j].label = label}}

\* An amount is shown to within the resolution, and never as nothing if it is
\* something.
AmountIsShown(a, content) ==
  LET label == IF a.kind = "stake" THEN "Stake" ELSE "Deposit" IN
  /\ Beside(content, label) # {}
  /\ \A text \in Beside(content, label) :
       LET value == IF text.unit = "NEAR" THEN text.value * Resolution ELSE text.value
       IN value <= a.amount /\ a.amount < value + Resolution /\ (value = 0 => a.amount = 0)

KeyIsShown(a, content) ==
  Beside(content, "Public Key") # {} /\ \A key \in Beside(content, "Public Key") : key.curve = a.publicKey

WithAmount == {"functionCall", "transfer", "stake"}
WithKey == {"stake", "addKey", "deleteKey"}

\* A token whose claim signs was approved by the user, who was shown the accounts
\* and each action of the very payload in the claim, the grave ones with a warning
\* and the amounts and keys as they are; it has lost the scopes that read the
\* profile (authorize-app.action.js:227-299, 308-314; helpers/index.js:219-225,
\* 358-501).
SignedAsShown ==
  consent.stage = "issued" /\ Signs(consent.fatxn) =>
    /\ form.decision = "approved" /\ consent.scopes \cap ProfileScopes = {}
    /\ form.shown = form.fields /\ DOMAIN form.view = DOMAIN consent.fatxn.actions
    /\ \A i \in DOMAIN form.view :
         LET a == consent.fatxn.actions[i]  shown == form.view[i] IN
         /\ Grave(a) => shown.warning
         /\ a.kind \in WithAmount => AmountIsShown(a, shown.content)
         /\ a.kind \in WithKey => KeyIsShown(a, shown.content)
===============================================================================
