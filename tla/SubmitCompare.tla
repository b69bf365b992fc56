--------------------------- MODULE SubmitCompare ----------------------------
(***************************************************************************)
(* `tt submit-state compare` (cmd/submit_state_compare.go): it reads the   *)
(* registry of submitted orders, then the broker's live orders, then the   *)
(* recent ones, each page by page (Pagination), and tells for each record  *)
(* and each order which of them belong together.  Nothing holds still      *)
(* while it reads: another process submits an order, the operator places   *)
(* one elsewhere, orders are filled.                                       *)
(*                                                                         *)
(* A record is told from others by its payload, the registry's order hash: *)
(* it keeps at most one record for each payload of an account              *)
(* (SubmitRegistry).  The records of all other accounts in the same file   *)
(* are the payloads Others.  Orders are numbered as they arrive.  The      *)
(* fingerprint the command computes for an order is a payload, Odd if it   *)
(* is that of no local payload (another order, or the same one written     *)
(* differently), or Unusable (a leg's quantity is no integer).             *)
(***************************************************************************)
EXTENDS Integers, Sequences, SequencesExt, FiniteSetsExt

CONSTANTS
    Payload,
    Odd, Unusable,
    None,
    Others,           \* payloads with a record of another account
    PageSize, Limit,  \* see Pagination
    MaxOrders         \* bound on the orders at the broker

ASSUME CompareAssumption ==
    /\ PageSize \in Nat \ {0} /\ Limit \in Nat \ {0}
    /\ MaxOrders \in Nat
    /\ Others \subseteq Payload
    /\ \A x \in {Odd, Unusable, None} : x \notin Payload

VARIABLES
    registry,   \* the records of the compared account
    submit,     \* how far a submit of each payload is
    orders,     \* the account's orders at the broker: the fingerprint, and the
                \* record it ought to match, until that is cleared
    live,       \* those of them that are live
    kind, page, totalPages, all, status, first, gone, came,  \* the fetch under way
    stage,      \* what compare is doing
    view,       \* the registry it has read
    arrived,    \* how many orders there were by then
    liveOrders, \* the live orders it has read
    report

broker == <<orders, live>>
fetch == <<kind, page, totalPages, all, status, first, gone, came>>
compare == <<stage, view, arrived, liveOrders, report>>
vars == <<registry, submit, broker, fetch, compare>>

Order == 1..MaxOrders
States == {"none", "in_flight", "submitted"}
Match == "local_present_broker_match"
NoBrokerMatch == "local_uncertain_no_broker_match"
NoLocalState == "broker_order_no_local_state"
Ambiguous == "ambiguous"
Entry == [outcome : {Match, NoBrokerMatch, NoLocalState, Ambiguous},
          record : Payload \cup {None}, order : Order \cup {0}]

\* A page holds at least one order.
MaxPages == IF MaxOrders > 0 THEN MaxOrders ELSE 1

TypeOK ==
    /\ registry \in [Payload -> States]
    /\ submit \in [Payload -> {"idle", "reserved", "accepted"}]
    /\ orders \in Seq([print : Payload \cup {Odd, Unusable}, owner : Payload \cup {None}])
    /\ Len(orders) <= MaxOrders
    /\ live \subseteq DOMAIN orders
    /\ kind \in {"all", "recent"}
    /\ page \in 0..MaxPages /\ totalPages \in 1..MaxPages
    /\ all \in Seq(Order) /\ first \in Seq(Order)
    /\ status \in {"idle", "fetching", "done", "failed"}
    /\ gone \in BOOLEAN /\ came \in BOOLEAN
    /\ stage \in {"idle", "live", "recent", "done", "denied", "failed"}
    /\ view \in [Payload -> States]
    /\ arrived \in 0..MaxOrders
    /\ liveOrders \subseteq Order
    /\ report \subseteq Entry

Init ==
    /\ registry = [p \in Payload |-> "none"]
    /\ submit = [p \in Payload |-> "idle"]
    /\ orders = <<>> /\ live = {}
    /\ kind = "all" /\ page = 0 /\ totalPages = 1 /\ all = <<>>
    /\ status = "idle" /\ first = <<>> /\ gone = FALSE /\ came = FALSE
    /\ stage = "idle"
    /\ view = registry /\ arrived = 0 /\ liveOrders = {}
    /\ report = {}

\* What the broker lists: all orders where it searches, the live ones else.
Shown == IF kind = "recent" THEN DOMAIN orders ELSE live

\* The place of an order in that list, newest first (sort=Desc).
Place(o) == Cardinality({x \in Shown : x >= o})

Listed == [i \in 1..Cardinality(Shown) |-> CHOOSE o \in Shown : Place(o) = i]

Fetch == INSTANCE Pagination WITH list <- Listed

\* Nothing more happens to a compare that has ended.
Going == stage \in {"idle", "live", "recent"}

-----------------------------------------------------------------------------
(***************************************************************************)
(* What goes on beside it: a submit, as SubmitRegistry has it step by      *)
(* step, the operator, and the broker.                                     *)
(***************************************************************************)

\* reserve: the record is on disk before the order is transmitted.
Reserve(p) ==
    /\ registry[p] = "none"
    /\ registry' = [registry EXCEPT ![p] = "in_flight"]
    /\ submit' = [submit EXCEPT ![p] = "reserved"]
    /\ UNCHANGED <<broker, fetch, compare>>

\* An order reaches the broker, and the live list.
Arrives(fingerprint, owner) ==
    /\ Len(orders) < MaxOrders
    /\ orders' = Append(orders, [print |-> fingerprint, owner |-> owner])
    /\ live' = live \cup {Len(orders) + 1}
    /\ UNCHANGED <<kind, page, totalPages, all, status, first>>
    /\ Fetch!Observe
    /\ UNCHANGED <<registry, compare>>

\* The submit's order; the broker may write it differently than the payload.
Accept(p) ==
    /\ submit[p] = "reserved"
    /\ submit' = [submit EXCEPT ![p] = "accepted"]
    /\ Arrives(p, p) \/ Arrives(Odd, None)

\* An order of the same account that did not come from this program.
PlaceElsewhere ==
    /\ \E fingerprint \in Payload \cup {Unusable} : Arrives(fingerprint, None)
    /\ UNCHANGED submit

MarkSubmitted(p) ==
    /\ submit[p] = "accepted"
    /\ registry' = [registry EXCEPT ![p] = "submitted"]
    /\ submit' = [submit EXCEPT ![p] = "idle"]
    /\ UNCHANGED <<broker, fetch, compare>>

\* The process dies or its call fails: the record stays in_flight.
SubmitEnds(p) ==
    /\ submit[p] # "idle"
    /\ submit' = [submit EXCEPT ![p] = "idle"]
    /\ UNCHANGED <<registry, broker, fetch, compare>>

\* submit-state clear.
Clear(p) ==
    /\ registry[p] # "none" /\ submit[p] = "idle"
    /\ registry' = [registry EXCEPT ![p] = "none"]
    /\ orders' = [o \in DOMAIN orders |->
                    IF orders[o].owner = p THEN [orders[o] EXCEPT !.owner = None]
                    ELSE orders[o]]
    /\ UNCHANGED <<submit, live, fetch, compare>>

\* An order is filled or cancelled and leaves the live list.
Leave ==
    /\ \E o \in live : live' = live \ {o}
    /\ UNCHANGED <<registry, submit, orders, compare>>
    /\ UNCHANGED <<kind, page, totalPages, all, status, first>>
    /\ Fetch!Observe

-----------------------------------------------------------------------------
(***************************************************************************)
(* compareLocalSubmitStateToBroker.                                        *)
(***************************************************************************)

\* The records of the account.
Local == {p \in Payload : view[p] # "none"}

\* Fault: an order needs no row if any account has a record of it.
OwedToAnyone == Local \cup Others

\* The payloads whose orders need no row of their own.
Owed == Local

\* Fault: recent orders are kept only if no live one was read.
MergedEither(recent) == IF liveOrders = {} THEN ToSet(recent) ELSE liveOrders

\* mergeBrokerOrders, by order ID.
Merged(recent) == liveOrders \cup ToSet(recent)

\* The row of a record, given the orders that were read.
RecordEntry(p, seen) ==
    LET matches == {o \in seen : orders[o].print = p}
    IN IF \E o \in matches : matches = {o}
       THEN [outcome |-> Match, record |-> p, order |-> Min(matches)]
       ELSE [outcome |-> IF matches = {} /\ view[p] = "in_flight" THEN NoBrokerMatch
                         ELSE Ambiguous,
             record |-> p, order |-> 0]

\* The rows of the orders no record explains.
OrderEntries(seen) ==
    {[outcome |-> IF orders[o].print = Unusable THEN Ambiguous ELSE NoLocalState,
      record |-> None, order |-> o] : o \in {x \in seen : orders[x].print \notin Owed}}

Report(seen) == {RecordEntry(p, seen) : p \in Local} \cup OrderEntries(seen)

-----------------------------------------------------------------------------
(***************************************************************************)
(* runSubmitStateCompare.                                                  *)
(***************************************************************************)

\* inspect reads the file; the fetch of the live orders begins.
Inspect ==
    /\ stage = "idle"
    /\ stage' = "live"
    /\ view' = registry
    /\ arrived' = Len(orders)
    /\ UNCHANGED <<registry, submit, broker, liveOrders, report>>
    /\ Fetch!Begin("all")

\* The file cannot be read, or another process is just writing it.
Deny ==
    /\ stage = "idle"
    /\ stage' = "denied"
    /\ UNCHANGED <<registry, submit, broker, fetch, view, arrived, liveOrders, report>>

FetchPage ==
    /\ UNCHANGED <<registry, submit, broker, compare>>
    /\ Fetch!FetchPage

\* Fault: a fetch that fails is begun again.
FetchFailsRetrying ==
    /\ status = "fetching"
    /\ UNCHANGED <<registry, submit, broker, compare>>
    /\ Fetch!Begin(kind)

\* The command ends with the error.
FetchFails ==
    /\ stage' = "failed"
    /\ view' = [p \in Payload |-> "none"] /\ arrived' = 0 /\ liveOrders' = {}
    /\ UNCHANGED <<registry, submit, broker, report>>
    /\ Fetch!FetchFails

\* A fetch is over.
Fetched ==
    /\ UNCHANGED <<registry, submit, broker, compare>>
    /\ Fetch!Return

\* Orders has returned: on to RecentOrders.
FetchRecent ==
    /\ stage = "live" /\ status = "done"
    /\ stage' = "recent"
    /\ liveOrders' = ToSet(all)
    /\ UNCHANGED <<registry, submit, broker, view, arrived, report>>
    /\ Fetch!Begin("recent")

\* RecentOrders has returned: compare and print.
Compare ==
    /\ stage = "recent" /\ status = "done"
    /\ stage' = "done"
    /\ report' = Report(Merged(all))
    /\ UNCHANGED <<registry, submit, broker, fetch, view, arrived, liveOrders>>

Beside ==
    \/ \E p \in Payload : Reserve(p) \/ Accept(p) \/ MarkSubmitted(p) \/ SubmitEnds(p) \/ Clear(p)
    \/ PlaceElsewhere \/ Leave

Comparing == FetchPage \/ FetchFails \/ Fetched \/ FetchRecent \/ Compare

Next == Going /\ (Beside \/ Inspect \/ Deny \/ Comparing)

Spec == Init /\ [][Next]_vars

\* A started command goes on: every request is answered or fails (client.Do
\* has a time limit), whatever the lists do meanwhile.
FairSpec == Spec /\ WF_vars(Going /\ Comparing)

-----------------------------------------------------------------------------
(***************************************************************************)
(* Properties.                                                             *)
(***************************************************************************)

\* See Pagination: what a fetch of Orders or RecentOrders returns while
\* the list changes under it.
FetchIsSound == Fetch!FetchIsSound

\* Among the newest Limit orders when the report is printed, and there when the
\* command began.
Recent(o) == o <= arrived /\ Len(orders) - o < Limit

\* An order this program submitted before the command began, and whose record
\* was not cleared since, is not reported as one without local state
\* (submit_state_compare.go:241), whatever is submitted, placed or filled
\* meanwhile: reserve writes the record before the order leaves, and compare
\* reads the records before the orders.  It takes a fingerprint that matches.
OwnOrderIsRecognised ==
    \A e \in report :
      e.outcome = NoLocalState /\ e.order <= arrived => orders[e.order].owner = None

\* A record is reported as uncertain without a broker match
\* (submit_state_compare.go:211) only if no recent order matches it: an order
\* that the live fetch skips, because it was filled or because a page boundary
\* moved, is still found among the recent ones.
UncertainMeansUnseen ==
    \A e \in report : e.outcome = NoBrokerMatch =>
      \A o \in DOMAIN orders : Recent(o) => orders[o].print # e.record

\* A record and the one order that ever matched it are reported as a match,
\* though a record of another account has the same payload
\* (submit_state_compare.go:201).
SingleOrderMatches ==
    stage = "done" =>
      \A p \in Local, o \in DOMAIN orders :
        /\ Recent(o)
        /\ {x \in DOMAIN orders : orders[x].print = p} = {o}
        => [outcome |-> Match, record |-> p, order |-> o] \in report

\* Every recent order has a row of its own, is its record's match, or shares its
\* fingerprint with another order and an ambiguous record: none is passed over
\* in silence (submit_state_compare.go:230-250).
NoOrderUnmentioned ==
    stage = "done" =>
      \A o \in DOMAIN orders : Recent(o) =>
        \E e \in report :
          \/ e.order = o
          \/ /\ e.outcome = Ambiguous /\ e.record = orders[o].print
             /\ \E x \in DOMAIN orders \ {o} : orders[x].print = e.record

\* A match is one to one: no second recent order has the record's payload, also
\* if it came while the lists were read (submit_state_compare.go:201, 382).
MatchIsUnique ==
    \A e \in report : e.outcome = Match =>
      \A o \in DOMAIN orders : Recent(o) /\ orders[o].print = e.record => o = e.order

\* No row claims what is not so, although everything moves while the lists are
\* read.
ReportIsTrue == OwnOrderIsRecognised /\ UncertainMeansUnseen /\ MatchIsUnique

\* No record and no order misses the row it is due.
ReportIsComplete == SingleOrderMatches /\ NoOrderUnmentioned

\* A started command ends although the number of pages is a moving target.
CompareEnds == (stage = "live") ~> (stage \in {"done", "failed"})
=============================================================================
