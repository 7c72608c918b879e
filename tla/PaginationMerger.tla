-------------------------- MODULE PaginationMerger --------------------------
(***************************************************************************)
(* PaginationMerger (packages/shared/utils): pages of several sources,     *)
(* each in order, merged into pages in order. What was fetched and not     *)
(* delivered is handed to the caller as "rest" and comes back with the     *)
(* next call, together with the page each source is to give next. The      *)
(* copies getPage makes are shallow: "rest" of every result of a chain of  *)
(* calls is made of the same objects, one per source. A call that rejects  *)
(* because a source did leaves them as it changed them, and its other      *)
(* fetches still end; the caller asks again with the result it has.        *)
(***************************************************************************)
EXTENDS Integers, Sequences, FiniteSets

CONSTANTS
  Families,  \* the sources to merge: for each its pages, each a sequence of
             \* items in order (a falsy item is 0)
  PageSize,  \* pageSize of every call
  MaxCalls,  \* how many pages are asked for (a bound)
  MaxFailures \* how many calls after the first page reject (a bound)

ASSUME MergerAssumption ==
  /\ PageSize \in Nat \ {0} /\ MaxCalls \in Nat /\ MaxFailures \in Nat /\ Families \subseteq Seq(Seq(Seq(Int)))
  /\ \A f \in Families : \A j \in 1 .. Len(f) : Len(f[j]) > 0

VARIABLES
  sources,  \* the family that is merged
  rest,     \* the objects of "rest": undelivered items and hasNextPage, by source
  results,  \* the results so far: items, nextPageParams, isLastPage, and what was passed in
  getPage,  \* the call under way; touched is a history of whether it changed "rest"
  failed    \* calls that rejected, with the fetches they had under way

mergerVars == <<sources, rest, results, getPage, failed>>

SourceIds == 1 .. Len(sources)
FirstParams == [j \in SourceIds |-> 1]
FreshRest == [j \in SourceIds |-> [items |-> <<>>, hasNextPage |-> TRUE]]
NoCall == [stage |-> "idle", params |-> FirstParams, items |-> <<>>, slot |-> 0, pending |-> {},
           touched |-> FALSE]

MergerInit ==
  sources \in Families /\ rest = FreshRest /\ results = <<>> /\ getPage = NoCall /\ failed = <<>>

\* Mutant: every call starts with the first pages.
AlwaysFirst(k) == FirstParams

\* A call without parameters, or with those of the last result.
ParamsOf(k) == IF k = 0 THEN FirstParams ELSE results[k].params

GetPage ==
  /\ getPage.stage = "idle" /\ Len(results) < MaxCalls
  /\ results # <<>> => ~results[Len(results)].isLastPage
  /\ getPage' = [NoCall EXCEPT !.stage = "slot", !.params = ParamsOf(Len(results))]
  /\ UNCHANGED <<sources, rest, results, failed>>

MustFetch(j) == rest[j].items = <<>> /\ rest[j].hasNextPage

Exhausted(j) == rest[j].items = <<>> /\ ~rest[j].hasNextPage

Finish(call, last) ==
  /\ results' = Append(results, [items |-> call.items, params |-> call.params, isLastPage |-> last])
  /\ getPage' = NoCall

\* The head of the loop for one slot: every source without items is asked for
\* its next page; the page ends when it is full or no source has anything left.
NextSlot ==
  /\ getPage.stage = "slot"
  /\ IF getPage.slot = PageSize THEN Finish(getPage, FALSE)
     ELSE IF \A j \in SourceIds : Exhausted(j) THEN Finish(getPage, TRUE)
     ELSE /\ getPage' = [getPage EXCEPT !.stage = "fetching", !.pending = {j \in SourceIds : MustFetch(j)}]
          /\ UNCHANGED results
  /\ UNCHANGED <<sources, rest, failed>>

HasNext(j, page) == page < Len(sources[j])

\* A source asked for more than its last page gives an empty last page.
PageOf(j, page) == IF page <= Len(sources[j]) THEN sources[j][page] ELSE <<>>

\* getPaginationMergerItemPage: the page a call asked for goes to "rest"; an
\* empty one that is not the last is followed by a request for the next.
WithPage(j, page) ==
  [rest EXCEPT ![j] = [items |-> @.items \o PageOf(j, page), hasNextPage |-> HasNext(j, page)]]

AfterPage(call, j) ==
  LET page == call.params[j] IN
  [call EXCEPT !.params[j] = page + 1, !.touched = TRUE,
               !.pending = IF PageOf(j, page) = <<>> /\ HasNext(j, page) THEN @ ELSE @ \ {j}]

PageArrives(j) ==
  /\ getPage.stage = "fetching" /\ j \in getPage.pending
  /\ rest' = WithPage(j, getPage.params[j])
  /\ getPage' = AfterPage(getPage, j)
  /\ UNCHANGED <<sources, results, failed>>

GivenUp(call, j) == [call EXCEPT !.pending = @ \ {j}]

\* A source's getPage rejects, and with it the Promise.all: the call's items and
\* parameters are lost. A first call had a "rest" of its own.
PageRejects(j) ==
  /\ getPage.stage = "fetching" /\ j \in getPage.pending
  /\ getPage' = NoCall
  /\ IF results = <<>>
     THEN rest' = FreshRest /\ UNCHANGED failed
     ELSE /\ Len(failed) < MaxFailures
          /\ failed' = Append(failed, GivenUp(getPage, j))
          /\ UNCHANGED rest
  /\ UNCHANGED <<sources, results>>

\* A fetch of a call that has rejected ends, with a page or not.
LatePage(k, j) ==
  /\ j \in failed[k].pending
  /\ \/ rest' = WithPage(j, failed[k].params[j]) /\ failed' = [failed EXCEPT ![k] = AfterPage(@, j)]
     \/ failed' = [failed EXCEPT ![k] = GivenUp(@, j)] /\ UNCHANGED rest
  /\ UNCHANGED <<sources, results, getPage>>

Offers == {j \in SourceIds : rest[j].items # <<>> /\ Head(rest[j].items) # 0}

DefaultCompare(a, b) == a <= b

\* The reduce: the smallest item, of the last source that has it; a falsy item
\* is never picked.
IsPick(j) ==
  \A k \in Offers :
    /\ DefaultCompare(Head(rest[j].items), Head(rest[k].items))
    /\ k > j => ~DefaultCompare(Head(rest[k].items), Head(rest[j].items))

PickItem ==
  /\ getPage.stage = "fetching" /\ getPage.pending = {}
  /\ IF Offers = {}
     THEN getPage' = [getPage EXCEPT !.stage = "slot", !.slot = @ + 1] /\ UNCHANGED rest
     ELSE \E j \in Offers :
            /\ IsPick(j)
            /\ getPage' = [getPage EXCEPT !.stage = "slot", !.slot = @ + 1, !.touched = TRUE,
                                           !.items = Append(@, Head(rest[j].items))]
            /\ rest' = [rest EXCEPT ![j].items = Tail(@)]
  /\ UNCHANGED <<sources, results, failed>>

MergerNext ==
  \/ GetPage \/ NextSlot \/ PickItem
  \/ \E j \in SourceIds : PageArrives(j) \/ PageRejects(j)
  \/ \E k \in 1 .. Len(failed), j \in SourceIds : LatePage(k, j)

MergerSpec == MergerInit /\ [][MergerNext]_mergerVars

------------------------------------------------------------------------------
\* The items of the sources, by source, page and place.
Pages == UNION {{<<j, p>> : p \in 1 .. Len(sources[j])} : j \in SourceIds}
ItemsOfPage(j, p) == {<<j, p, i>> : i \in 1 .. Len(sources[j][p])}
Sourced == UNION {ItemsOfPage(page[1], page[2]) : page \in Pages}
SourcedItem(id) == sources[id[1]][id[2]][id[3]]

\* The items delivered, by page and place; the page under way is the last.
PageItems(k) == IF k <= Len(results) THEN results[k].items ELSE getPage.items
Delivered == UNION {{<<k, i>> : i \in 1 .. Len(PageItems(k))} : k \in 1 .. Len(results) + 1}
DeliveredItem(id) == PageItems(id[1])[id[2]]

Before(a, b) == a[1] < b[1] \/ (a[1] = b[1] /\ a[2] < b[2])

TimesSourced(item) == Cardinality({id \in Sourced : SourcedItem(id) = item})
TimesDelivered(item) == Cardinality({id \in Delivered : DeliveredItem(id) = item})

SaysComplete == \E k \in 1 .. Len(results) : results[k].isLastPage \/ Len(results[k].items) < PageSize

\* A call that rejected had changed the "rest" of the result it was made from,
\* or changed it later: asked again from there, its pages come twice or not at
\* all, although getPage copies what it is given "to avoid modifying the
\* original ones" (pagination-merger.ts:52-54).
Spoiled == \E k \in 1 .. Len(failed) : failed[k].touched

\* In whatever order the pages arrive, what a chain of calls delivers is the
\* beginning of the sorted merge of the sources: it is in order, has no item
\* more often than they do, and each that is smaller than one delivered as
\* often as they do. A page that says it is the last, or is not full,
\* completes the merge (pagination-merger.ts:24-37, 64-112). A call that rejects
\* and is made again changes none of it, unless it had changed the "rest" of an
\* earlier result.
DeliversTheMerge ==
  ~Spoiled =>
    /\ \A a, b \in Delivered : Before(a, b) => DeliveredItem(a) <= DeliveredItem(b)
    /\ \A item \in {SourcedItem(id) : id \in Sourced} \cup {DeliveredItem(id) : id \in Delivered} :
         /\ TimesDelivered(item) <= TimesSourced(item)
         /\ SaysComplete \/ (\E id \in Delivered : item < DeliveredItem(id)) =>
              TimesDelivered(item) = TimesSourced(item)
=============================================================================
