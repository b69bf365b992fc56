----------------------------- MODULE Pagination -----------------------------
(***************************************************************************)
(* A fetch of a list that the broker hands out page by page: Positions,    *)
(* Orders and RecentOrders of internal/exchange/tastytrade.  Each page is  *)
(* a request of its own, and the list at the broker changes between two of *)
(* them: an order is filled and leaves the live list, another one arrives, *)
(* and the page boundaries move.                                           *)
(*                                                                         *)
(* "all" is the loop of Positions and of Orders, "recent" the one of       *)
(* RecentOrders.  The list itself belongs to the module that uses this     *)
(* one, and so do its changes.                                             *)
(***************************************************************************)
EXTENDS Integers, Sequences, SequencesExt, FiniteSetsExt

CONSTANTS
    PageSize,  \* the broker's page size, and the most it allows as per-page
    Limit      \* RecentOrders' limit

VARIABLES
    kind,
    list,       \* the list at the broker
    page, totalPages, all, status,
    first,      \* the list when the first page was asked for
    gone, came  \* whether something has left the list since, or joined it

fetch == <<kind, page, totalPages, all, status, first>>

-----------------------------------------------------------------------------
(***************************************************************************)
(* The broker's side.                                                      *)
(***************************************************************************)

Smaller(a, b) == IF a < b THEN a ELSE b

Size == IF kind = "recent" THEN Smaller(Limit, PageSize) ELSE PageSize

Pages == (Len(list) + Size - 1) \div Size

\* The items of page n, counted from 0; none past the end.
Page(n) == SubSeq(list, n * Size + 1, Smaller((n + 1) * Size, Len(list)))

\* The list changes by itself.
Observe ==
    /\ gone' = (gone \/ (status = "fetching" /\ ~(ToSet(list) \subseteq ToSet(list'))))
    /\ came' = (came \/ (status = "fetching" /\ ~(ToSet(list') \subseteq ToSet(list))))

-----------------------------------------------------------------------------
(***************************************************************************)
(* The fetch.                                                              *)
(***************************************************************************)

Begin(k) ==
    /\ kind' = k
    /\ page' = 0 /\ totalPages' = 1
    /\ all' = <<>>
    /\ status' = "fetching"
    /\ first' = list'
    /\ gone' = FALSE /\ came' = FALSE

\* Fault: the page that follows the last one is asked for, too.
MoreByOne == page <= totalPages /\ (kind = "recent" => Len(all) < Limit)

\* The loop's condition.
More == page < totalPages /\ (kind = "recent" => Len(all) < Limit)

\* page-offset; without it the broker answers with page 0.
Offset == page

\* Fault: the number of pages is taken from the first answer only.
TotalOfFirst == IF Pages > 0 /\ page = 0 THEN Pages ELSE totalPages

\* total-pages of the latest answer that has one above zero.
Total == IF Pages > 0 THEN Pages ELSE totalPages

\* One request and its answer.
FetchPage ==
    /\ status = "fetching" /\ More
    /\ all' = all \o Page(Offset)
    /\ totalPages' = Total
    /\ page' = page + 1
    /\ UNCHANGED <<kind, status, first, gone, came>>

\* A request fails, or its answer is no list: the pages so far are thrown away.
FetchFails ==
    /\ status = "fetching" /\ More
    /\ status' = "failed"
    /\ page' = 0 /\ totalPages' = 1 /\ all' = <<>>
    /\ first' = <<>> /\ gone' = FALSE /\ came' = FALSE
    /\ UNCHANGED kind

\* What is returned: RecentOrders cuts what is over its limit.
Result == IF kind = "recent" THEN SubSeq(all, 1, Smaller(Limit, Len(all))) ELSE all

\* The loop ends.
Return ==
    /\ status = "fetching" /\ ~More
    /\ status' = "done"
    /\ page' = 0 /\ totalPages' = 1 /\ all' = Result
    /\ UNCHANGED <<kind, first, gone, came>>

-----------------------------------------------------------------------------
(***************************************************************************)
(* Properties.                                                             *)
(***************************************************************************)

\* A list that does not change is returned as it is, none of it twice, whatever
\* its length is next to the page size; RecentOrders returns its newest Limit
\* (the loop conditions of tastytrade.go:72, 115 and 162).
QuietListIsExact ==
    status = "done" /\ ~gone /\ ~came =>
      all = IF kind = "recent" THEN SubSeq(first, 1, Smaller(Limit, Len(first)))
            ELSE first

\* Only what leaves the list makes a fetch skip an item that stays: arrivals
\* shift items to pages still to come, and the number of pages is read again
\* from every answer (tastytrade.go:101, 144).
SkipsNeedDepartures ==
    status = "done" /\ kind = "all" /\ ~gone => ToSet(first) \subseteq ToSet(all)

\* Only what joins the list makes a fetch return an item twice.
RepeatsNeedArrivals == status = "done" /\ ~came => IsInjective(all)

\* RecentOrders has no gaps: whatever arrives while it fetches, with each item
\* it returns every newer one of the original list (tastytrade.go:154).
RecentHasNoGaps ==
    kind = "recent" /\ status = "done" =>
      \A i, j \in DOMAIN first :
        i < j /\ first[j] \in ToSet(all) => first[i] \in ToSet(all)

\* A fetch returns what the list holds, and errs only as far as the list changed
\* between its requests.
FetchIsSound ==
    /\ QuietListIsExact
    /\ SkipsNeedDepartures
    /\ RepeatsNeedArrivals
    /\ RecentHasNoGaps
=============================================================================
