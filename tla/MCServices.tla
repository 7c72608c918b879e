------------------------------ MODULE MCServices ------------------------------
(* The key list of the custom issuer guard, the NEAR RPC manager, the NestJS  *)
(* issuer, the pagination merger and the pages of the metrics share no state: *)
(* one run checks them side by side. focus says which one a behaviour is      *)
(* about; the others rest in an initial state.                                *)
EXTENDS CustomIssuerGuard, NearRPC, Issuer, PaginationMerger, StatusPage

CONSTANTS keyA, keyB, keyShort

VARIABLE focus

mcVars == <<focus, vars, rpcVars, issuerVars, mergerVars, statusVars>>

\* No key, one, another, and a list with a key that the attestation contract
\* takes and the guard does not (a short modulus).
MCKeyLists == {<<>>, <<keyA>>, <<keyA, keyB>>, <<keyB, keyShort>>}

MCShapes == {[ok |-> TRUE, json |-> TRUE, body |-> b] : b \in {"certificates", "jwks"}}

MCTokens ==
  {[key |-> k, iss |-> TRUE, sub |-> TRUE, exp |-> 1, nbf |-> Absent] : k \in {0, 2}}
    \cup {[key |-> 1, iss |-> TRUE, sub |-> TRUE, exp |-> e, nbf |-> n] : e \in {2, Absent}, n \in {0, 1}}

\* Two sources, or none: items of both among each other and twice, an empty page
\* before, between and after full ones, a source with nothing at all.
MCFamilies ==
  {<<a, b>> : a \in {<< <<1, 3>>, <<>>, <<4>> >>, << <<2>>, <<2, 3>> >>, << <<>>, <<>> >>, << <<1>>, <<5>> >>},
              b \in {<< <<>>, <<2, 3, 5>> >>, << <<2, 4>> >>, << <<>> >>, << <<1>>, <<>>, <<>> >>}}
  \cup {<<>>}

\* Whole answers with as many rows as pages turn at, answers that lack one part,
\* errors. The rows are those of both tables, whose pages hold 8 and 10.
MCAnswersWith(parts) ==
  LET Whole == [ok |-> TRUE, json |-> TRUE, has |-> parts, rows |-> 8]
  IN {[Whole EXCEPT !.rows = n] : n \in {0, 8, 21}} \cup {[Whole EXCEPT !.has = @ \ {part}] : part \in parts}
       \cup {[Whole EXCEPT !.ok = FALSE], [Whole EXCEPT !.json = FALSE, !.has = {}]}

MCAnswers == [landing |-> MCAnswersWith(LiveMetrics), status |-> MCAnswersWith(StatusData)]

------------------------------------------------------------------------------
GuardRests ==
  /\ publicKeys = <<>> /\ source = (CHOOSE c \in Contract : TRUE) /\ fetches = [f \in FetchId |-> None]
  /\ attested = [c \in Contract |-> <<>>] /\ changes = 0

\* No URL: nothing is ever asked.
PagesRest ==
  /\ route = "landing" /\ url = "none" /\ dashboard = NoAnswer /\ lastAnswer = NoAnswer
  /\ served = NoAnswer /\ expired = FALSE /\ rendering = FALSE /\ view = NoAnswer

MCInit ==
  /\ focus \in {"guard", "rpc", "issuer", "merger", "page", "view"}
  /\ IF focus = "guard" THEN Init ELSE GuardRests
  /\ IF focus \in {"page", "view"} THEN StatusPageInit ELSE PagesRest
  /\ focus = "page" => url \in (IF route = "status" THEN {"none", "the origin of the metrics URL"}
                                                   ELSE {"localhost", "malformed"})
  /\ focus = "view" => route = "status" /\ url = "valid" /\ dashboard = NoAnswer
  /\ NearRPCInit /\ IssuerInit
  /\ focus # "rpc" => limited = {}
  /\ IF focus = "merger" THEN MergerInit ELSE MergerInit /\ sources = <<>>

MCNext ==
  /\ UNCHANGED focus
  /\ \/ focus = "guard" /\ Next /\ UNCHANGED <<rpcVars, issuerVars, mergerVars, statusVars>>
     \/ focus = "rpc" /\ NearRPCNext /\ UNCHANGED <<vars, issuerVars, mergerVars, statusVars>>
     \/ focus = "issuer" /\ IssuerNext /\ UNCHANGED <<vars, rpcVars, mergerVars, statusVars>>
     \/ focus = "merger" /\ MergerNext /\ UNCHANGED <<vars, rpcVars, issuerVars, statusVars>>
     \/ focus = "page" /\ Serve /\ UNCHANGED <<vars, rpcVars, issuerVars, mergerVars>>
     \/ focus = "view" /\ Browse /\ UNCHANGED <<vars, rpcVars, issuerVars, mergerVars>>

\* The fairness of each component, where it is the one that runs.
MCSpec ==
  /\ MCInit /\ [][MCNext]_mcVars
  /\ \A f \in FetchId : /\ WF_vars(focus = "guard" /\ Ask(f)) /\ SF_vars(focus = "guard" /\ Answered(f))
                        /\ WF_vars(focus = "guard" /\ Callback(f))
  /\ WF_rpcVars(focus = "rpc" /\ RpcTick)
  /\ \A c \in Caller : WF_rpcVars(focus = "rpc" /\ CallStep(c))
  /\ WF_issuerVars(focus = "issuer" /\ IssuerTick) /\ WF_issuerVars(focus = "issuer" /\ Readyz)
  /\ \A f \in Fetch :
       /\ WF_issuerVars(focus = "issuer" /\ RefreshEnds(f))
       /\ WF_issuerVars(focus = "issuer" /\ \E shape \in Shapes : UrlAnswers(f, shape))
       /\ SF_issuerVars(focus = "issuer" /\ \E shape \in Shapes :
                          LoadPublicKeys(shape, published) >= 0 /\ UrlAnswers(f, shape))
  /\ WF_statusVars(focus = "page" /\ WindowEnds) /\ WF_statusVars(focus = "page" /\ Request)
  /\ WF_statusVars(focus = "page" /\ StatusPage)
===============================================================================
