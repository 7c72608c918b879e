----------------------------- MODULE StatusPage -----------------------------
(***************************************************************************)
(* apps/landing: the landing page and the status page take their numbers   *)
(* from the metrics dashboard, once every revalidation window, and check   *)
(* only a part of the answer before they cast it to the whole type. A page *)
(* whose rendering throws is not replaced; one without an answer is        *)
(* replaced by placeholders. In the browser the tables are paged and the   *)
(* activity has tabs.                                                      *)
(*                                                                         *)
(* External: Next.js serves the last page it rendered, starts one          *)
(* rendering when a request finds that page older than its window, and     *)
(* keeps the old page when the rendering throws. Only answers with status  *)
(* 200 enter its cache, and a rendering waits for a fresh one.             *)
(***************************************************************************)
EXTENDS Integers

CONSTANTS
  NoAnswer,  \* no answer, no page open
  DashboardAnswers \* what the dashboard may answer to each page: [ok, json, has, rows]

ASSUME StatusPageAssumption ==
  \A page \in {"landing", "status"} :
    NoAnswer \notin DashboardAnswers[page] /\ \A answer \in DashboardAnswers[page] : answer.rows \in Nat

VARIABLES
  route,     \* the page followed: "landing" or "status"
  url,       \* the URL the page asks, "none" or "malformed"
  dashboard, \* the answer the dashboard gives now, NoAnswer while it is down
  lastAnswer,\* what the last rendering got from it
  served,    \* the numbers of the page that is served, NoAnswer: placeholders
  expired,   \* the served page is older than its window
  rendering, \* a new one is being rendered
  view       \* the page a visitor has open, NoAnswer at first

serverVars == <<dashboard, lastAnswer, served, expired, rendering>>
statusVars == <<route, url, serverVars, view>>

------------------------------------------------------------------------------
(* Types: the parts an answer has. A part written a.b is a field that some  *)
(* dashboards have and some do not, of a part that is there.               *)
StatusData ==
  {"summary", "fastAuthHealth", "mpcHealth", "uptime24h", "accounts", "accounts.windows", "transactions",
   "realActivity", "realActivity.breakdowns", "actionTypes", "topAccounts", "recentFailures", "contracts",
   "indexer", "missingRanges"}

LiveMetrics == {"fetchedAt", "accounts", "signEvents", "relayers", "health24h"}

PageParts == IF route = "status" THEN StatusData ELSE LiveMetrics

(* The environment: each URL is "valid", "malformed" or "unset".            *)
ResolveStatusUrl(env) ==
  CASE env.statusUrl # "unset"   -> env.statusUrl
    [] env.statusUrl = "unset" /\ env.metricsUrl = "valid" -> "the origin of the metrics URL"
    [] env.statusUrl = "unset" /\ env.metricsUrl # "valid" -> IF env.production THEN "none" ELSE "localhost"

ResolveUrl(env) ==
  CASE env.metricsUrl # "unset" -> env.metricsUrl
    [] env.metricsUrl = "unset" -> IF env.production THEN "none" ELSE "localhost"

Environments == [statusUrl : {"valid", "malformed", "unset"}, metricsUrl : {"valid", "malformed", "unset"},
                 production : BOOLEAN]

Reachable == url \notin {"none", "malformed"}

\* Mutant: the accounts are not looked at.
OnlyTheSummary(answer) ==
  IF answer # NoAnswer /\ answer.ok /\ answer.json /\ "summary" \in answer.has THEN answer ELSE NoAnswer

(* What is taken for data: the rest of the type is not looked at.           *)
FetchStatusData(answer) ==
  IF answer # NoAnswer /\ answer.ok /\ answer.json /\ {"summary", "accounts"} \subseteq answer.has THEN answer ELSE NoAnswer

FetchLiveMetrics(answer) ==
  IF answer # NoAnswer /\ answer.ok /\ answer.json /\ "accounts" \in answer.has THEN answer ELSE NoAnswer

FetchData(answer) == IF route = "status" THEN FetchStatusData(answer) ELSE FetchLiveMetrics(answer)

------------------------------------------------------------------------------
(* A component reads some parts whatever they are, and throws without them; *)
(* others it shows when they are there.                                    *)
StatusBanner  == [reads |-> {"summary"}, mayShow |-> {}]
ServiceHealth == [reads |-> {"uptime24h"}, mayShow |-> {"fastAuthHealth", "mpcHealth"}]
Overview      == [reads |-> {"accounts", "accounts.windows", "transactions", "actionTypes"}, mayShow |-> {}]
Activity      == [reads |-> {"realActivity"}, mayShow |-> {"realActivity.breakdowns"}]
TopAccounts   == [reads |-> {"topAccounts"}, mayShow |-> {}]
Failures      == [reads |-> {"recentFailures"}, mayShow |-> {}]
Contracts     == [reads |-> {"contracts"}, mayShow |-> {}]
Indexer       == [reads |-> {"indexer", "missingRanges"}, mayShow |-> {}]
Stats         == [reads |-> {"accounts", "signEvents", "relayers", "health24h"}, mayShow |-> {"fetchedAt"}]

Components ==
  IF route = "status"
  THEN {StatusBanner, ServiceHealth, Overview, Activity, TopAccounts, Failures, Contracts, Indexer}
  ELSE {Stats}

Reads == UNION {c.reads : c \in Components}
Renders(data) == data = NoAnswer \/ Reads \subseteq data.has
Shown(data) == IF data = NoAnswer THEN {} ELSE data.has \cap (Reads \cup UNION {c.mayShow : c \in Components})

------------------------------------------------------------------------------
(* A build renders the page too, and fails if that throws.                  *)
StatusPageInit ==
  /\ route \in {"landing", "status"}
  /\ \E env \in Environments : url = IF route = "status" THEN ResolveStatusUrl(env) ELSE ResolveUrl(env)
  /\ dashboard \in DashboardAnswers[route] \cup {NoAnswer}
  /\ lastAnswer \in {answer \in DashboardAnswers[route] \cup {NoAnswer} : Renders(FetchData(answer))}
  /\ served = FetchData(lastAnswer)
  /\ expired = FALSE /\ rendering = FALSE /\ view = NoAnswer

DashboardChanges ==
  /\ dashboard' \in (DashboardAnswers[route] \cup {NoAnswer}) \ {dashboard}
  /\ UNCHANGED <<route, url, lastAnswer, served, expired, rendering, view>>

WindowEnds == ~expired /\ expired' = TRUE /\ UNCHANGED <<route, url, dashboard, lastAnswer, served, rendering, view>>

\* Mutant: a page of placeholders is never rendered again.
RequestNumbersOnly ==
  /\ served # NoAnswer /\ expired /\ ~rendering /\ rendering' = TRUE
  /\ UNCHANGED <<route, url, dashboard, lastAnswer, served, expired, view>>

Request == expired /\ ~rendering /\ rendering' = TRUE /\ UNCHANGED <<route, url, dashboard, lastAnswer, served, expired, view>>

\* The rendering asks the dashboard and replaces the page unless it throws.
StatusPage ==
  /\ rendering /\ rendering' = FALSE
  /\ LET answer == IF Reachable THEN dashboard ELSE NoAnswer
         data   == FetchData(answer)
     IN /\ lastAnswer' = answer
        /\ served' = IF Renders(data) THEN data ELSE served
        /\ expired' = ~Renders(data)
  /\ UNCHANGED <<route, url, dashboard, view>>

(* The browser.                                                             *)
Tables == {"failures", "accounts"}
RowsPerPage(table) == IF table = "failures" THEN 8 ELSE 10

\* Mutant: only full pages count.
FullPages(table, total) == IF total < RowsPerPage(table) THEN 1 ELSE total \div RowsPerPage(table)

PageCount(table, total) ==
  LET size == RowsPerPage(table) IN IF total = 0 THEN 1 ELSE (total + size - 1) \div size

\* slice(start, start + PAGE_SIZE), as row numbers.
RowsOn(table, total, page) ==
  LET start == page * RowsPerPage(table)
  IN (start + 1) .. (IF start + RowsPerPage(table) < total THEN start + RowsPerPage(table) ELSE total)

\* The buttons: back, forward and one for each page. None at all for one page.
Buttons(table, total, page) ==
  LET pages == PageCount(table, total)
  IN IF pages <= 1 THEN {}
     ELSE (0 .. pages - 1) \cup {q \in {page - 1} : page # 0} \cup {q \in {page + 1} : page # pages - 1}

\* What the line beside the buttons says.
FirstTo(table, total, page) ==
  [first |-> page * RowsPerPage(table) + 1,
   last  |-> IF (page + 1) * RowsPerPage(table) < total THEN (page + 1) * RowsPerPage(table) ELSE total]

Mount ==
  /\ route = "status" /\ served # NoAnswer /\ view = NoAnswer
  /\ view' = [data |-> served, tab |-> "overall", broken |-> FALSE, page |-> [table \in Tables |-> 0]]
  /\ UNCHANGED <<route, url, serverVars>>

Turn(table) ==
  /\ view # NoAnswer /\ ~view.broken
  /\ \E page \in Buttons(table, view.data.rows, view.page[table]) :
       view' = [view EXCEPT !.page[table] = page]
  /\ UNCHANGED <<route, url, serverVars>>

\* Another tab than the first reads a part that nothing else does.
SetTab(tab) ==
  /\ view # NoAnswer /\ ~view.broken
  /\ view' = [view EXCEPT !.tab = tab,
                          !.broken = tab = "breakdown" /\ "realActivity.breakdowns" \notin view.data.has]
  /\ UNCHANGED <<route, url, serverVars>>

Leave == view # NoAnswer /\ view' = NoAnswer /\ UNCHANGED <<route, url, serverVars>>

Browse == Mount \/ Leave \/ (\E table \in Tables : Turn(table)) \/ \E tab \in {"overall", "breakdown"} : SetTab(tab)

Serve == DashboardChanges \/ WindowEnds \/ Request \/ StatusPage

StatusPageNext == Serve \/ Browse

StatusPageSpec == StatusPageInit /\ [][StatusPageNext]_statusVars
                    /\ WF_statusVars(WindowEnds) /\ WF_statusVars(Request) /\ WF_statusVars(StatusPage)

------------------------------------------------------------------------------
\* Numbers of an older answer stay on the page only when the last answer is one
\* the checks let through and a component then threw on: an answer that failed,
\* that is not JSON or lacks a part the code checks takes them down
\* (lib/status.ts:218, lib/metrics.ts:70-76: "Returns null on failure").
OldNumbersComeDown ==
  served # NoAnswer /\ served # lastAnswer =>
    /\ lastAnswer # NoAnswer /\ lastAnswer.ok /\ lastAnswer.json
    /\ (IF route = "status" THEN {"summary", "accounts"} ELSE {"accounts"}) \subseteq lastAnswer.has
    /\ ~(PageParts \ {"fastAuthHealth", "mpcHealth", "realActivity.breakdowns", "fetchedAt"} \subseteq lastAnswer.has)

\* "Numbers will appear here as soon as the upstream endpoint comes back online":
\* once every answer is whole, every part of it is on the page from some time on,
\* if visitors keep coming (components/status/StatusUnavailable.tsx:10).
NumbersComeBack ==
  Reachable /\ <>[](dashboard # NoAnswer /\ dashboard.ok /\ dashboard.json /\ dashboard.has = PageParts)
    => <>[](Shown(served) = PageParts)

\* From any page of a table its buttons lead to every row that is not on it; the
\* page is never empty while the table is not, and says which rows it shows
\* (Failures.tsx:33-36, TopAccounts.tsx:15-18, Pagination.tsx:13-55).
EveryRowIsOnAPage ==
  view # NoAnswer =>
    \A table \in Tables :
      LET total == view.data.rows
          page  == view.page[table]
          label == FirstTo(table, total, page)
      IN /\ RowsOn(table, total, page) = label.first .. label.last
         /\ total > 0 => RowsOn(table, total, page) # {}
         /\ UNION {RowsOn(table, total, q) : q \in {page} \cup Buttons(table, total, page)} = 1 .. total
=============================================================================
