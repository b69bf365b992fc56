-------------------------- MODULE SubmitCompareProofs ---------------------------
(***************************************************************************)
(* Proofs about SubmitCompare and the fetches of Pagination it makes: the  *)
(* types, what a fetch returns, and what the report tells, for any number  *)
(* of payloads and orders, any page size and any limit.                    *)
(*                                                                         *)
(* A fetch is followed by the places the orders have in the list: what is  *)
(* read spans the first page * Size places, arrivals move the rest back    *)
(* and departures move it forward.  The report is right because the recent *)
(* orders were all read, and no order that was there at the inspection has *)
(* lost its record since but by a clear.                                   *)
(***************************************************************************)
EXTENDS SubmitCompare, FiniteSetTheorems, SequenceTheorems, TLAPS

(***************************************************************************)
(* The inductive invariant.  The fetch first.                              *)
(***************************************************************************)

\* How many places of the list the pages read so far span.
Read == page * Fetch!Size

\* An item of the list as it was is read or still to come, as long as nothing
\* leaves: what arrives moves it to later places only.
NothingSkipped ==
    status = "fetching" /\ ~gone =>
        \A x \in ToSet(first) : x \in ToSet(all) \/ (x \in Shown /\ Place(x) > Read)

\* The loop does not end before the last of them is read.
EndsBehindAll ==
    status = "fetching" /\ ~gone /\ page >= totalPages => ToSet(first) \subseteq ToSet(all)

\* As long as nothing arrives, what is still to come is older than all that is
\* read: what leaves moves it to earlier places only.
NothingTwice ==
    status = "fetching" /\ ~came =>
        /\ IsInjective(all)
        /\ \A y \in ToSet(all), x \in Shown : Place(x) > Read => x < y

\* Nothing moves: the pages are a prefix of the list.
PrefixRead ==
    status = "fetching" /\ ~gone /\ ~came =>
        /\ first = Listed
        /\ \A k \in DOMAIN all : k \in DOMAIN first /\ all[k] = first[k]
        /\ Len(all) = IF Read <= Len(first) THEN Read ELSE Len(first)
        /\ page >= totalPages => Len(all) = Len(first)

\* The orders that are searched never leave that list, and the newest come first.
RecentGrows ==
    kind = "recent" =>
        /\ ~gone
        /\ Len(first) <= Len(orders)
        /\ \A i \in DOMAIN first : first[i] = Len(first) + 1 - i

\* The k-th order that is returned is at best the k-th newest there is.
RecentInTime ==
    kind = "recent" =>
        /\ status = "fetching" => Len(all) <= Read
        /\ \A k \in DOMAIN all : all[k] <= Len(orders) + 1 - k

\* Each order comes behind every newer one that was there at the beginning.
RecentConnected ==
    kind = "recent" =>
        \A k \in DOMAIN all, u \in 1..Len(first) :
            all[k] <= u => \E j \in 1..k : all[j] = u

\* So the search has found what is among the newest Limit when it ends.
RecentFound ==
    kind = "recent" /\ status = "done" =>
        \A o \in 1..Len(first) : Len(orders) - o < Limit => o \in ToSet(all)

FetchInv ==
    /\ NothingSkipped /\ EndsBehindAll /\ NothingTwice /\ PrefixRead
    /\ RecentGrows /\ RecentInTime /\ RecentConnected /\ RecentFound
    /\ FetchIsSound

\* A submit under way has its record, and an order matches the record it came
\* from until that is cleared; compare's view has it, too, if the order was
\* there first.
RecordsInv ==
    /\ \A p \in Payload : submit[p] # "idle" => registry[p] # "none"
    /\ \A o \in DOMAIN orders : orders[o].owner # None =>
          /\ orders[o].print = orders[o].owner
          /\ registry[orders[o].owner] # "none"
          /\ o <= arrived => view[orders[o].owner] # "none"

\* What compare has read is there, and the search began behind the inspection.
ReadIsThere ==
    /\ arrived <= Len(orders)
    /\ \A k \in DOMAIN all : all[k] <= Len(orders)
    /\ \A o \in liveOrders : o <= Len(orders)
    /\ stage = "recent" => kind = "recent" /\ arrived <= Len(first)

CompareInv ==
    /\ ReadIsThere
    /\ stage # "done" => report = {}
    /\ ReportIsTrue /\ ReportIsComplete

IInv == TypeOK /\ FetchInv /\ RecordsInv /\ CompareInv

-----------------------------------------------------------------------------
(***************************************************************************)
(* The list and its pages.                                                 *)
(***************************************************************************)

LEMMA ProductGrows ==
    ASSUME NEW a \in Nat, NEW b \in Nat, NEW s \in Nat, a <= b
    PROVE  a * s <= b * s /\ (a + 1) * s = a * s + s /\ a * s \in Nat
OBVIOUS

\* As many pages as it takes.
LEMMA PagesSuffice ==
    ASSUME NEW l \in Nat, NEW s \in Nat \ {0}
    PROVE  LET pages == (l + s - 1) \div s IN
           /\ pages \in Nat
           /\ l <= pages * s
           /\ pages <= l
OBVIOUS

\* The places of what is listed: from 1, each one taken once, the newest first.
LEMMA Places ==
    ASSUME Shown \subseteq Nat, IsFiniteSet(Shown)
    PROVE  /\ Cardinality(Shown) \in Nat
           /\ \A o \in Shown : Place(o) \in 1..Cardinality(Shown)
           /\ \A o, x \in Shown : o < x => Place(x) < Place(o)
           /\ \A i \in 1..Cardinality(Shown) : \E o \in Shown : Place(o) = i
<1> DEFINE From(o) == {x \in Shown : x >= o}
<1> DEFINE n == Cardinality(Shown)
<1>1. n \in Nat
    BY FS_CardinalityType
<1>2. ASSUME NEW o \in Shown
      PROVE  IsFiniteSet(From(o)) /\ Cardinality(From(o)) \in 1..n
    <2>1. From(o) \in SUBSET Shown /\ o \in From(o)
        OBVIOUS
    <2>2. IsFiniteSet(From(o)) /\ Cardinality(From(o)) <= n
        BY <2>1, FS_Subset
    <2>3. Cardinality(From(o)) \in Nat /\ Cardinality(From(o)) # 0
        BY <2>1, <2>2, FS_CardinalityType, FS_EmptySet
    <2> QED
        BY <1>1, <2>2, <2>3
<1>3. ASSUME NEW o \in Shown, NEW x \in Shown, o < x
      PROVE  Cardinality(From(x)) < Cardinality(From(o))
    <2>1. From(x) \in SUBSET From(o) /\ o \in From(o) /\ o \notin From(x)
        <3>1. o \in Nat /\ x \in Nat /\ \A y \in Shown : y \in Nat
            OBVIOUS
        <3>2. o \in From(o) /\ o \notin From(x)
            BY <1>3, <3>1
        <3>3. \A y \in Shown : y >= x => y >= o
            BY <1>3, <3>1
        <3> QED
            BY <3>2, <3>3
    <2>2. Cardinality(From(x)) <= Cardinality(From(o))
          /\ Cardinality(From(x)) # Cardinality(From(o))
        BY <1>2, <2>1, FS_Subset
    <2> QED
        BY <1>2, <2>2
<1>4. ASSUME NEW i \in 1..n
      PROVE  \E o \in Shown : Cardinality(From(o)) = i
    <2> DEFINE f == [o \in Shown |-> Cardinality(From(o))]
    <2>1. f \in [Shown -> 1..n]
        BY <1>2
    <2>2. \A o, x \in Shown : f[o] = f[x] => o = x
        BY <1>2, <1>3
    <2>3. f \in Injection(Shown, 1..n)
        BY <2>1, <2>2 DEF Injection, IsInjective
    <2>4. IsFiniteSet(1..n) /\ Cardinality(1..n) = n
        BY <1>1, FS_Interval
    <2> HIDE DEF f
    <2>5. f \in Surjection(Shown, 1..n)
        BY <2>3, <2>4, FS_Injection
    <2>6. \E o \in Shown : f[o] = i
        BY <2>5 DEF Surjection
    <2> QED
        BY <2>6 DEF f
<1> QED
    BY <1>1, <1>2, <1>3, <1>4 DEF Place

\* Listed puts each of them at its place.
LEMMA ListedAtPlace ==
    ASSUME Len(orders) \in 0..MaxOrders, DOMAIN orders = 1..Len(orders),
           live \subseteq DOMAIN orders
    PROVE  /\ Shown \subseteq Order /\ Shown \subseteq DOMAIN orders
           /\ Shown \subseteq Nat /\ IsFiniteSet(Shown)
           /\ Listed \in Seq(Order)
           /\ Len(Listed) = Cardinality(Shown) /\ Len(Listed) \in Nat
           /\ DOMAIN Listed = 1..Len(Listed)
           /\ \A i \in 1..Len(Listed) : Listed[i] \in Shown /\ Place(Listed[i]) = i
<1>1. /\ Shown \subseteq 1..Len(orders)
      /\ Len(orders) \in Nat /\ \A o \in 1..Len(orders) : o \in 1..MaxOrders /\ o \in Nat
    BY CompareAssumption DEF Shown
<1>2. Shown \subseteq Order /\ Shown \subseteq Nat /\ IsFiniteSet(Shown)
    <2>1. IsFiniteSet(1..Len(orders))
        BY <1>1, FS_Interval
    <2> QED
        BY <1>1, <2>1, FS_Subset DEF Order
<1>3. Cardinality(Shown) \in Nat
    BY <1>2, Places
<1>4. \A i \in 1..Cardinality(Shown) : Listed[i] \in Shown /\ Place(Listed[i]) = i
    <2>1. \A i \in 1..Cardinality(Shown) : \E o \in Shown : Place(o) = i
        BY <1>2, Places
    <2> QED
        BY <2>1 DEF Listed
<1>5. Listed \in [1..Cardinality(Shown) -> Order]
    BY <1>2, <1>4 DEF Listed
<1> QED
    BY <1>1, <1>2, <1>3, <1>4, <1>5

LEMMA ListedInOrder ==
    ASSUME TypeOK
    PROVE  /\ Shown \subseteq Order /\ Shown \subseteq DOMAIN orders
           /\ Listed \in Seq(Order)
           /\ Len(Listed) = Cardinality(Shown) /\ Len(Listed) \in Nat
           /\ DOMAIN Listed = 1..Len(Listed)
           /\ \A i \in 1..Len(Listed) : Listed[i] \in Shown /\ Place(Listed[i]) = i
           /\ \A o \in Shown :
                 Place(o) \in 1..Len(Listed) /\ Listed[Place(o)] = o
           /\ \A o, x \in Shown : o < x => Place(x) < Place(o)
           /\ ToSet(Listed) = Shown
<1>1. /\ Len(orders) \in 0..MaxOrders /\ DOMAIN orders = 1..Len(orders)
      /\ live \subseteq DOMAIN orders
    BY DEF TypeOK
<1>2. /\ Shown \subseteq Order /\ Shown \subseteq DOMAIN orders
      /\ Shown \subseteq Nat /\ IsFiniteSet(Shown)
    BY <1>1, ListedAtPlace
<1>3. /\ Listed \in Seq(Order)
      /\ Len(Listed) = Cardinality(Shown) /\ Len(Listed) \in Nat
      /\ DOMAIN Listed = 1..Len(Listed)
      /\ \A i \in 1..Len(Listed) : Listed[i] \in Shown /\ Place(Listed[i]) = i
    BY <1>1, ListedAtPlace
<1>4. /\ \A o \in Shown : Place(o) \in 1..Len(Listed)
      /\ \A o, x \in Shown : o < x => Place(x) < Place(o)
    BY <1>2, <1>3, Places
<1>5. ASSUME NEW o \in Shown
      PROVE  Listed[Place(o)] = o
    <2> DEFINE x == Listed[Place(o)]
    <2>1. x \in Shown /\ Place(x) = Place(o)
        BY <1>3, <1>4
    <2> HIDE DEF x
    <2>2. x \in Nat /\ o \in Nat /\ Place(o) \in Nat
        BY <1>2, <1>3, <1>4, <2>1
    <2>3. x = o
        BY <1>4, <2>1, <2>2
    <2> QED
        BY <2>3 DEF x
<1>6. ToSet(Listed) = Shown
    BY <1>3, <1>4, <1>5 DEF ToSet
<1> QED
    BY <1>2, <1>3, <1>4, <1>5, <1>6

\* A search lists all orders, the newest first.
LEMMA SearchListsAll ==
    ASSUME TypeOK, kind = "recent"
    PROVE  /\ Len(Listed) = Len(orders) /\ Shown = 1..Len(orders)
           /\ \A o \in 1..Len(orders) : Place(o) = Len(orders) + 1 - o
           /\ \A i \in 1..Len(orders) : Listed[i] = Len(orders) + 1 - i
<1>1. Len(orders) \in Nat /\ Shown = 1..Len(orders)
    BY DEF TypeOK, Shown
<1>2. Len(Listed) = Len(orders)
    <2>1. Cardinality(1..Len(orders)) = IF 1 > Len(orders) THEN 0 ELSE Len(orders) - 1 + 1
        BY <1>1, FS_Interval
    <2> QED
        BY <1>1, <2>1, ListedInOrder
<1>3. ASSUME NEW o \in 1..Len(orders)
      PROVE  Place(o) = Len(orders) + 1 - o
    <2>1. {x \in Shown : x >= o} = o..Len(orders)
        BY <1>1
    <2>2. Cardinality(o..Len(orders)) = IF o > Len(orders) THEN 0 ELSE Len(orders) - o + 1
        BY <1>1, FS_Interval
    <2>3. Place(o) = Cardinality(o..Len(orders))
        BY <2>1 DEF Place
    <2> QED
        BY <1>1, <2>2, <2>3
<1>4. ASSUME NEW i \in 1..Len(orders)
      PROVE  Listed[i] = Len(orders) + 1 - i
    <2>1. Listed[i] \in 1..Len(orders) /\ Place(Listed[i]) = i
        BY <1>1, <1>2, ListedInOrder
    <2> QED
        BY <1>1, <1>3, <2>1
<1> QED
    BY <1>1, <1>2, <1>3, <1>4

LEMMA SizePositive ==
    ASSUME kind \in {"all", "recent"}
    PROVE  Fetch!Size \in Nat \ {0}
BY CompareAssumption DEF Fetch!Size, Fetch!Smaller

\* The pages cut the list into pieces: page n has the places behind the first n.
LEMMA PageOfList ==
    ASSUME TypeOK, NEW n \in Nat
    PROVE  LET from == n * Fetch!Size
               p == Fetch!Page(n)
           IN
           /\ p \in Seq(Order) /\ Len(p) \in Nat /\ from \in Nat
           /\ DOMAIN p = 1..Len(p)
           /\ Len(p) = IF Len(Listed) <= from THEN 0
                       ELSE IF Fetch!Size <= Len(Listed) - from THEN Fetch!Size
                       ELSE Len(Listed) - from
           /\ \A i \in 1..Len(p) : p[i] = Listed[from + i] /\ from + i <= Len(Listed)
<1> DEFINE from == n * Fetch!Size
           last == Fetch!Smaller((n + 1) * Fetch!Size, Len(Listed))
<1>1. Fetch!Size \in Nat \ {0} /\ Len(Listed) \in Nat
    BY SizePositive, ListedInOrder DEF TypeOK
<1>2. from \in Nat /\ (n + 1) * Fetch!Size = from + Fetch!Size
    BY <1>1, ProductGrows
<1>3. last = IF Fetch!Size <= Len(Listed) - from THEN from + Fetch!Size ELSE Len(Listed)
    <2> HIDE DEF from
    <2> QED
        BY <1>1, <1>2 DEF Fetch!Smaller
<1>4. Fetch!Page(n) = SubSeq(Listed, from + 1, last)
    BY DEF Fetch!Page
<1> HIDE DEF from, last
<1>5. last \in Int /\ from + 1 \in Int
    BY <1>1, <1>2, <1>3
<1>6. \A i \in (from + 1)..last : Listed[i] \in Order
    BY <1>1, <1>2, <1>3, ListedInOrder
<1>7. /\ Fetch!Page(n) \in Seq(Order)
      /\ Len(Fetch!Page(n)) = IF from + 1 <= last THEN last - (from + 1) + 1 ELSE 0
      /\ \A i \in 1..(last - (from + 1) + 1) : Fetch!Page(n)[i] = Listed[from + 1 + i - 1]
    BY <1>4, <1>5, <1>6, SubSeqProperties
<1>8. /\ Len(Fetch!Page(n)) = IF Len(Listed) <= from THEN 0
                              ELSE IF Fetch!Size <= Len(Listed) - from THEN Fetch!Size
                              ELSE Len(Listed) - from
      /\ Len(Fetch!Page(n)) \in Nat
    BY <1>1, <1>2, <1>3, <1>7
<1>9. \A i \in 1..Len(Fetch!Page(n)) :
         Fetch!Page(n)[i] = Listed[from + i] /\ from + i <= Len(Listed)
    BY <1>1, <1>2, <1>3, <1>7, <1>8
<1>10. DOMAIN Fetch!Page(n) = 1..Len(Fetch!Page(n))
    BY <1>7, LenProperties
<1> QED
    BY <1>2, <1>7, <1>8, <1>9, <1>10 DEF from

-----------------------------------------------------------------------------
(***************************************************************************)
(* Type correctness.                                                       *)
(***************************************************************************)

LEMMA InitTypes == Init => TypeOK
<1> SUFFICES ASSUME Init PROVE TypeOK
    OBVIOUS
<1>1. MaxPages \in Nat \ {0}
    BY CompareAssumption DEF MaxPages
<1>2. <<>> \in Seq(Order) /\ <<>> \in Seq([print : Payload \cup {Odd, Unusable},
                                           owner : Payload \cup {None}])
    OBVIOUS
<1>3. orders = <<>> /\ Len(orders) = 0 /\ live = {}
    BY DEF Init
<1>4. /\ registry \in [Payload -> States] /\ view \in [Payload -> States]
      /\ submit \in [Payload -> {"idle", "reserved", "accepted"}]
    BY DEF Init, States
<1>5. /\ orders \in Seq([print : Payload \cup {Odd, Unusable},
                         owner : Payload \cup {None}])
      /\ Len(orders) <= MaxOrders /\ live \subseteq DOMAIN orders
    BY <1>2, <1>3, CompareAssumption
<1>6. /\ kind \in {"all", "recent"} /\ page \in 0..MaxPages /\ totalPages \in 1..MaxPages
      /\ all \in Seq(Order) /\ first \in Seq(Order)
    BY <1>1, <1>2 DEF Init
<1>7. /\ status \in {"idle", "fetching", "done", "failed"}
      /\ gone \in BOOLEAN /\ came \in BOOLEAN
      /\ stage \in {"idle", "live", "recent", "done", "denied", "failed"}
      /\ arrived \in 0..MaxOrders /\ liveOrders \subseteq Order /\ report \subseteq Entry
    <2>1. gone \in BOOLEAN /\ came \in BOOLEAN
        BY Zenon DEF Init
    <2>2. status = "idle" /\ stage = "idle" /\ arrived = 0 /\ liveOrders = {} /\ report = {}
        BY DEF Init
    <2> QED
        BY <2>1, <2>2, CompareAssumption
<1> QED
    BY <1>4, <1>5, <1>6, <1>7 DEF TypeOK

\* What goes on beside compare changes the broker's lists in one of three ways.
LEMMA BesideTypes ==
    ASSUME TypeOK, Beside
    PROVE  TypeOK'
<1> DEFINE Known == [print : Payload \cup {Odd, Unusable}, owner : Payload \cup {None}]
<1>1. /\ UNCHANGED <<kind, page, totalPages, all, status, first, compare>>
    BY DEF Beside, Reserve, Accept, Arrives, MarkSubmitted, SubmitEnds, Clear,
        PlaceElsewhere, Leave, fetch, compare
<1>2. gone' \in BOOLEAN /\ came' \in BOOLEAN
    BY DEF TypeOK, Beside, Reserve, Accept, Arrives, MarkSubmitted, SubmitEnds, Clear,
        PlaceElsewhere, Leave, fetch, Fetch!Observe
<1>3. registry' \in [Payload -> States]
      /\ submit' \in [Payload -> {"idle", "reserved", "accepted"}]
    BY DEF TypeOK, States, Beside, Reserve, Accept, Arrives, MarkSubmitted, SubmitEnds,
        Clear, PlaceElsewhere, Leave
<1>4. orders' \in Seq(Known) /\ Len(orders') <= MaxOrders /\ live' \subseteq DOMAIN orders'
    <2>1. orders \in Seq(Known) /\ Len(orders) \in Nat /\ DOMAIN orders = 1..Len(orders)
        BY DEF TypeOK
    <2>2. ASSUME NEW print \in Payload \cup {Odd, Unusable}, NEW owner \in Payload \cup {None},
                 Arrives(print, owner)
          PROVE  orders' \in Seq(Known) /\ Len(orders') <= MaxOrders
                 /\ live' \subseteq DOMAIN orders'
        <3> DEFINE new == [print |-> print, owner |-> owner]
        <3>1. new \in Known
            OBVIOUS
        <3>2. orders' = Append(orders, new) /\ live' = live \cup {Len(orders) + 1}
              /\ Len(orders) < MaxOrders
            BY <2>2 DEF Arrives
        <3> HIDE DEF new, Known
        <3>3. orders' \in Seq(Known) /\ Len(orders') = Len(orders) + 1
              /\ DOMAIN orders' = 1..(Len(orders) + 1)
            BY <2>1, <3>1, <3>2, AppendProperties, LenProperties
        <3> QED
            BY <2>1, <3>2, <3>3, CompareAssumption DEF TypeOK
    <2>3. ASSUME NEW p \in Payload, Clear(p)
          PROVE  orders' \in Seq(Known) /\ Len(orders') <= MaxOrders
                 /\ live' \subseteq DOMAIN orders'
        <3>1. \A o \in 1..Len(orders) : orders[o] \in Known
            <4> HIDE DEF Known
            <4> QED
                BY <2>1, ElementOfSeq
        <3>2. orders' = [o \in 1..Len(orders) |->
                           IF orders[o].owner = p THEN [orders[o] EXCEPT !.owner = None]
                           ELSE orders[o]]
            BY <2>1, <2>3 DEF Clear
        <3>3. orders' \in [1..Len(orders) -> Known]
            BY <3>1, <3>2
        <3>4. orders' \in Seq(Known) /\ Len(orders') = Len(orders)
            BY <2>1, <3>3
        <3> QED
            BY <2>1, <2>3, <3>3, <3>4 DEF Clear, TypeOK
    <2>4. CASE UNCHANGED orders /\ live' \subseteq live
        BY <2>4 DEF TypeOK
    <2> QED
        BY <2>2, <2>3, <2>4 DEF Beside, Reserve, Accept, MarkSubmitted, SubmitEnds,
            PlaceElsewhere, Leave, broker
<1> QED
    BY <1>1, <1>2, <1>3, <1>4 DEF TypeOK, compare

\* What one more page adds to what is read.
LEMMA OnePageMore ==
    ASSUME TypeOK, FetchPage
    PROVE  LET p == Fetch!Page(page) IN
           /\ UNCHANGED <<registry, submit, broker, compare>>
           /\ UNCHANGED <<kind, status, first, gone, came>>
           /\ status = "fetching" /\ page' = page + 1
           /\ page < totalPages /\ totalPages' \in 1..MaxPages
           /\ Read \in Nat /\ Read' = Read + Fetch!Size
           /\ page' >= totalPages' => Len(Listed) <= Read'
           /\ Shown' = Shown /\ Listed' = Listed /\ \A o : Place(o)' = Place(o)
           /\ all' \in Seq(Order) /\ Len(all') = Len(all) + Len(p)
           /\ Len(all) \in Nat
           /\ \A k \in 1..Len(all) : all'[k] = all[k]
           /\ \A i \in 1..Len(p) : all'[Len(all) + i] = p[i]
<1> DEFINE p == Fetch!Page(page)
           s == Fetch!Size
<1>1. page \in Nat /\ s \in Nat \ {0} /\ Len(Listed) \in Nat /\ MaxPages \in Nat
    BY SizePositive, ListedInOrder, CompareAssumption DEF TypeOK, MaxPages
<1>2. /\ UNCHANGED <<registry, submit, broker, compare>>
      /\ UNCHANGED <<kind, status, first, gone, came>>
      /\ status = "fetching" /\ page' = page + 1 /\ page < totalPages
      /\ all' = all \o p /\ totalPages' = Fetch!Total
    BY DEF FetchPage, Fetch!FetchPage, Fetch!More, Fetch!Offset
<1>3. Read \in Nat /\ Read' = Read + s
    BY <1>1, <1>2, ProductGrows DEF Read, Fetch!Size
<1>4. /\ totalPages' \in 1..MaxPages
      /\ page' >= totalPages' => Len(Listed) <= Read'
    <2> DEFINE pages == (Len(Listed) + s - 1) \div s
    <2>1. pages \in Nat /\ Len(Listed) <= pages * s /\ pages <= Len(Listed)
        BY <1>1, PagesSuffice
    <2>2. totalPages' = IF pages > 0 THEN pages ELSE totalPages
        BY <1>2 DEF Fetch!Total, Fetch!Pages
    <2> HIDE DEF pages
    <2>3. Len(Listed) <= Len(orders) /\ Len(orders) \in Nat /\ Len(orders) <= MaxOrders
        <3>1. Len(orders) \in Nat /\ IsFiniteSet(1..Len(orders))
              /\ Cardinality(1..Len(orders)) = Len(orders)
            <4>1. Len(orders) \in Nat
                BY DEF TypeOK
            <4>2. /\ IsFiniteSet(1..Len(orders))
                  /\ Cardinality(1..Len(orders)) =
                        IF 1 > Len(orders) THEN 0 ELSE Len(orders) - 1 + 1
                BY <4>1, FS_Interval
            <4> QED
                BY <4>1, <4>2
        <3>2. Shown \in SUBSET (1..Len(orders)) /\ Len(Listed) = Cardinality(Shown)
            BY ListedInOrder DEF TypeOK
        <3> QED
            BY <3>1, <3>2, FS_Subset DEF TypeOK
    <2>4. totalPages' \in 1..MaxPages
        BY <1>1, <2>1, <2>2, <2>3, CompareAssumption DEF TypeOK, MaxPages
    <2>5. ASSUME page' >= totalPages'
          PROVE  Len(Listed) <= Read'
        <3>1. CASE pages = 0
            BY <1>1, <1>3, <2>1, <3>1
        <3>2. CASE pages > 0
            <4>1. pages <= page + 1 /\ page + 1 \in Nat
                BY <1>1, <1>2, <2>2, <2>5, <3>2
            <4>2. pages * s <= (page + 1) * s
                BY <1>1, <2>1, <4>1, ProductGrows
            <4>3. (page + 1) * s = Read'
                BY <1>2 DEF Read, Fetch!Size
            <4>4. pages * s \in Nat
                BY <1>1, <2>1
            <4> QED
                BY <1>1, <1>3, <2>1, <4>2, <4>3, <4>4
        <3> QED
            BY <2>1, <3>1, <3>2
    <2> QED
        BY <2>4, <2>5
<1>5. Shown' = Shown /\ Listed' = Listed /\ \A o : Place(o)' = Place(o)
    BY <1>2 DEF Shown, Listed, Place, broker
<1>6. /\ all \in Seq(Order) /\ p \in Seq(Order) /\ Len(all) \in Nat /\ Len(p) \in Nat
    <2>1. p \in Seq(Order) /\ Len(p) \in Nat
        BY <1>1, PageOfList
    <2>2. all \in Seq(Order)
        BY DEF TypeOK
    <2> QED
        BY <2>1, <2>2, LenProperties
<1> HIDE DEF p
<1>7. /\ all' \in Seq(Order) /\ Len(all') = Len(all) + Len(p)
      /\ \A k \in 1..(Len(all) + Len(p)) :
            all'[k] = IF k <= Len(all) THEN all[k] ELSE p[k - Len(all)]
    BY <1>2, <1>6, ConcatProperties
<1>8. ASSUME NEW i \in 1..Len(p)
      PROVE  all'[Len(all) + i] = p[i]
    <2>1. /\ Len(all) + i \in 1..(Len(all) + Len(p)) /\ ~(Len(all) + i <= Len(all))
          /\ (Len(all) + i) - Len(all) = i
        BY <1>6
    <2> QED
        BY <1>7, <2>1
<1>9. \A k \in 1..Len(all) : all'[k] = all[k]
    BY <1>6, <1>7
<1> QED
    BY <1>2, <1>3, <1>4, <1>5, <1>6, <1>7, <1>8, <1>9 DEF p

\* What a fetch returns is a prefix of what it has read.
LEMMA ResultIsPrefix ==
    ASSUME all \in Seq(Order)
    PROVE  LET m == IF kind = "recent" /\ Limit < Len(all) THEN Limit ELSE Len(all) IN
           /\ Fetch!Result \in Seq(Order) /\ Len(all) \in Nat
           /\ Len(Fetch!Result) = m
           /\ \A k \in 1..m : k \in 1..Len(all) /\ Fetch!Result[k] = all[k]
<1>1. Len(all) \in Nat /\ \A k \in 1..Len(all) : all[k] \in Order
    OBVIOUS
<1>2. CASE kind = "recent"
    <2> DEFINE m == IF Limit < Len(all) THEN Limit ELSE Len(all)
    <2>1. Fetch!Result = SubSeq(all, 1, m)
        BY <1>2 DEF Fetch!Result, Fetch!Smaller
    <2>2. m \in Nat /\ m <= Len(all)
        BY <1>1, CompareAssumption
    <2> HIDE DEF m
    <2>3. \A k \in 1..m : all[k] \in Order
        BY <1>1, <2>2
    <2>4. /\ SubSeq(all, 1, m) \in Seq(Order)
          /\ Len(SubSeq(all, 1, m)) = IF 1 <= m THEN m - 1 + 1 ELSE 0
          /\ \A k \in 1..(m - 1 + 1) : SubSeq(all, 1, m)[k] = all[1 + k - 1]
        BY <2>2, <2>3, SubSeqProperties
    <2> QED
        BY <1>1, <1>2, <2>1, <2>2, <2>4 DEF m
<1>3. CASE kind # "recent"
    BY <1>1, <1>3 DEF Fetch!Result
<1> QED
    BY <1>2, <1>3

\* The row a record gets, from the orders that match it.
LEMMA RecordRow ==
    ASSUME TypeOK, NEW p \in Payload, NEW seen \in SUBSET Order
    PROVE  LET matches == {o \in seen : orders[o].print = p}
               e == RecordEntry(p, seen)
           IN
           /\ e \in Entry /\ e.record = p /\ e.outcome # NoLocalState
           /\ e.outcome = Match => matches = {e.order}
           /\ e.outcome = NoBrokerMatch => matches = {}
           /\ \A o \in seen : matches = {o} =>
                 e = [outcome |-> Match, record |-> p, order |-> o]
           /\ matches # {} /\ ~(\E o \in matches : matches = {o}) => e.outcome = Ambiguous
<1> USE DEF Entry, Match, NoBrokerMatch, NoLocalState, Ambiguous
<1> DEFINE matches == {o \in seen : orders[o].print = p}
<1>1. matches \subseteq Order /\ Order \subseteq Nat
    <2>1. \A o \in Order : o \in Nat
        BY CompareAssumption DEF Order
    <2> QED
        BY <2>1
<1> HIDE DEF matches
<1>2. CASE \E o \in matches : matches = {o}
    <2>1. PICK o \in matches : matches = {o}
        BY <1>2
    <2>2. Min(matches) = o
        BY <1>1, <2>1 DEF Min
    <2>3. RecordEntry(p, seen) = [outcome |-> Match, record |-> p, order |-> o]
        BY <1>2, <2>2 DEF RecordEntry, matches
    <2> QED
        BY <1>1, <2>1, <2>3 DEF matches
<1>3. CASE ~(\E o \in matches : matches = {o})
    <2>1. RecordEntry(p, seen) =
            [outcome |-> IF matches = {} /\ view[p] = "in_flight" THEN NoBrokerMatch
                         ELSE Ambiguous,
             record |-> p, order |-> 0]
        BY <1>3 DEF RecordEntry, matches
    <2> QED
        BY <1>3, <2>1 DEF matches
<1> QED
    BY <1>2, <1>3

-----------------------------------------------------------------------------
(***************************************************************************)
(* The list moves under a fetch.                                           *)
(***************************************************************************)

\* The facts about the list, of the next state.
LEMMA ListedNext ==
    TypeOK' => /\ (Shown \subseteq Order)' /\ (ToSet(Listed) = Shown)'
               /\ (Listed \in Seq(Order))'
               /\ (\A o \in Shown : Place(o) \in 1..Len(Listed))'
<1>1. TypeOK => /\ Shown \subseteq Order /\ ToSet(Listed) = Shown
                /\ Listed \in Seq(Order)
                /\ \A o \in Shown : Place(o) \in 1..Len(Listed)
    BY ListedInOrder
<1> QED
    BY <1>1, PTL

LEMMA SearchListsAllNext ==
    TypeOK' /\ kind' = "recent" =>
        /\ (Len(Listed) = Len(orders))' /\ (DOMAIN Listed = 1..Len(orders))'
        /\ (\A i \in 1..Len(orders) : Listed[i] = Len(orders) + 1 - i)'
<1>1. TypeOK /\ kind = "recent" =>
        /\ Len(Listed) = Len(orders) /\ DOMAIN Listed = 1..Len(orders)
        /\ \A i \in 1..Len(orders) : Listed[i] = Len(orders) + 1 - i
    BY SearchListsAll, ListedInOrder
<1>2. (kind = "recent")' <=> kind' = "recent"
    OBVIOUS
<1> QED
    BY <1>1, <1>2, PTL

\* What goes on beside a fetch is noticed as something that leaves its list or as
\* something that joins it; from a search nothing leaves.
LEMMA ListChanges ==
    ASSUME TypeOK, TypeOK', Beside
    PROVE  /\ UNCHANGED <<kind, page, totalPages, all, status, first, compare>>
           /\ Len(orders) \in Nat /\ Len(orders') \in Nat /\ Len(orders) <= Len(orders')
           /\ ~gone' => ~gone /\ (status = "fetching" => Shown \subseteq Shown')
           /\ ~came' => ~came /\ (status = "fetching" => Shown' \subseteq Shown)
           /\ status # "fetching" => UNCHANGED <<gone, came>>
           /\ kind = "recent" => Shown \subseteq Shown' /\ gone' = gone
<1>1. UNCHANGED <<kind, page, totalPages, all, status, first, compare>>
    BY DEF Beside, Reserve, Accept, Arrives, MarkSubmitted, SubmitEnds, Clear,
        PlaceElsewhere, Leave, fetch, compare
<1>2. /\ Len(orders) \in Nat /\ Len(orders') \in Nat
      /\ DOMAIN orders = 1..Len(orders) /\ DOMAIN orders' = 1..Len(orders')
    BY DEF TypeOK
<1>3. ToSet(Listed) = Shown /\ ToSet(Listed') = Shown'
    BY ListedInOrder, ListedNext
<1>4. ASSUME Fetch!Observe
      PROVE  /\ gone' = (gone \/ (status = "fetching" /\ ~(Shown \subseteq Shown')))
             /\ came' = (came \/ (status = "fetching" /\ ~(Shown' \subseteq Shown)))
    <2>1. Fetch!ToSet(Listed) = Shown /\ Fetch!ToSet(Listed') = Shown'
        BY <1>3 DEF ToSet, Fetch!ToSet
    <2> QED
        BY <1>4, <2>1, Zenon DEF Fetch!Observe
<1>5. ASSUME NEW print, NEW owner, Arrives(print, owner)
      PROVE  Len(orders') = Len(orders) + 1 /\ live \subseteq live' /\ Fetch!Observe
    BY <1>5, AppendProperties DEF Arrives, TypeOK
<1>6. ASSUME NEW p \in Payload, Clear(p)
      PROVE  Len(orders') = Len(orders) /\ UNCHANGED <<live, gone, came>>
    <2>1. DOMAIN orders' = DOMAIN orders
        BY <1>6 DEF Clear
    <2> QED
        BY <1>2, <1>6, <2>1 DEF Clear, fetch
<1>7. CASE UNCHANGED <<live, gone, came>> /\ Len(orders') = Len(orders)
    <2>1. Shown' = Shown
        BY <1>1, <1>2, <1>7 DEF Shown
    <2> QED
        BY <1>1, <1>2, <1>7, <2>1
<1>8. CASE /\ Fetch!Observe /\ Len(orders) <= Len(orders')
           /\ live \subseteq live' \/ orders' = orders
    <2>1. kind = "recent" => Shown \subseteq Shown'
        BY <1>1, <1>2, <1>8 DEF Shown
    <2>2. gone \in BOOLEAN /\ came \in BOOLEAN
        BY Zenon DEF TypeOK
    <2>3. kind = "recent" => gone' = gone
        BY <1>4, <1>8, <2>1, <2>2
    <2>4. status # "fetching" => UNCHANGED <<gone, came>>
        BY <1>4, <1>8, <2>2
    <2>5. /\ ~gone' => ~gone /\ (status = "fetching" => Shown \subseteq Shown')
          /\ ~came' => ~came /\ (status = "fetching" => Shown' \subseteq Shown)
        BY <1>4, <1>8, <2>2
    <2> QED
        BY <1>1, <1>2, <1>8, <2>1, <2>3, <2>4, <2>5
<1>9. \/ UNCHANGED <<live, gone, came>> /\ Len(orders') = Len(orders)
      \/ /\ Fetch!Observe /\ Len(orders) <= Len(orders')
         /\ live \subseteq live' \/ orders' = orders
    <2>1. CASE \E p \in Payload : Reserve(p) \/ MarkSubmitted(p) \/ SubmitEnds(p)
        BY <2>1 DEF Reserve, MarkSubmitted, SubmitEnds, broker, fetch
    <2>2. CASE (\E p \in Payload : Accept(p)) \/ PlaceElsewhere
        <3>1. \E print, owner : Arrives(print, owner)
            BY <2>2, Zenon DEF Accept, PlaceElsewhere
        <3>2. PICK print, owner : Arrives(print, owner)
            BY <3>1
        <3>3. Len(orders') = Len(orders) + 1 /\ live \subseteq live' /\ Fetch!Observe
            BY <1>5, <3>2
        <3>4. Len(orders) <= Len(orders')
            BY <1>2, <3>3
        <3> QED
            BY <3>3, <3>4, Zenon
    <2>3. CASE \E p \in Payload : Clear(p)
        BY <1>6, <2>3
    <2>4. CASE Leave
        BY <1>2, <2>4 DEF Leave
    <2> QED
        BY <2>1, <2>2, <2>3, <2>4 DEF Beside
<1> QED
    BY <1>7, <1>8, <1>9

\* What joins the list moves the others back, what leaves it moves them forward.
LEMMA PlacesMove ==
    ASSUME TypeOK, TypeOK'
    PROVE  /\ Shown \subseteq Shown' => \A o \in Shown : Place(o) <= Place(o)'
           /\ Shown' \subseteq Shown => \A o \in Shown' : Place(o)' <= Place(o)
           /\ Shown' = Shown => Listed' = Listed
           /\ \A o \in Shown : Place(o) \in Nat
           /\ \A o \in Shown' : Place(o)' \in Nat
<1>1. IsFiniteSet(Shown) /\ IsFiniteSet(Shown')
    <2>1. IsFiniteSet(Order)
        BY FS_Interval, CompareAssumption DEF Order
    <2>2. Shown \in SUBSET Order /\ Shown' \in SUBSET Order
        BY ListedInOrder, ListedNext
    <2> QED
        BY <2>1, <2>2, FS_Subset
<1>2. /\ \A o : IsFiniteSet({x \in Shown : x >= o})
      /\ \A o : IsFiniteSet({x \in Shown' : x >= o})
    BY <1>1, FS_Subset
<1>3. \A o : Place(o) \in Nat /\ Place(o)' \in Nat
    BY <1>2, FS_CardinalityType DEF Place
<1>4. ASSUME NEW o, Shown \subseteq Shown'
      PROVE  Place(o) <= Place(o)'
    <2>1. {x \in Shown : x >= o} \in SUBSET {x \in Shown' : x >= o}
        BY <1>4
    <2> QED
        BY <1>2, <2>1, FS_Subset DEF Place
<1>5. ASSUME NEW o, Shown' \subseteq Shown
      PROVE  Place(o)' <= Place(o)
    <2>1. {x \in Shown' : x >= o} \in SUBSET {x \in Shown : x >= o}
        BY <1>5
    <2> QED
        BY <1>2, <2>1, FS_Subset DEF Place
<1>6. Shown' = Shown => Listed' = Listed
    BY DEF Listed, Place
<1> QED
    BY <1>3, <1>4, <1>5, <1>6

LEMMA ChangesKeepFetch ==
    ASSUME TypeOK, TypeOK', FetchInv, Beside
    PROVE  FetchInv'
<1>1. /\ kind' = kind /\ page' = page /\ totalPages' = totalPages /\ all' = all
      /\ status' = status /\ first' = first
      /\ Len(orders) \in Nat /\ Len(orders') \in Nat /\ Len(orders) <= Len(orders')
      /\ ~gone' => ~gone /\ (status = "fetching" => Shown \subseteq Shown')
      /\ ~came' => ~came /\ (status = "fetching" => Shown' \subseteq Shown)
      /\ status # "fetching" => UNCHANGED <<gone, came>>
      /\ kind = "recent" => Shown \subseteq Shown' /\ gone' = gone
    BY ListChanges
<1>2. Read' = Read /\ Read \in Nat
    <2>1. page \in Nat /\ Fetch!Size \in Nat
        BY SizePositive, CompareAssumption DEF TypeOK, MaxPages
    <2> QED
        BY <1>1, <2>1, ProductGrows DEF Read, Fetch!Size
<1>3. NothingSkipped'
    <2> SUFFICES ASSUME status = "fetching", ~gone', NEW x \in ToSet(first), x \notin ToSet(all)
                 PROVE  x \in Shown' /\ Place(x)' > Read
        BY <1>1, <1>2 DEF NothingSkipped, ToSet
    <2>1. x \in Shown /\ Place(x) > Read /\ Shown \subseteq Shown'
        BY <1>1 DEF FetchInv, NothingSkipped
    <2>2. Place(x) <= Place(x)' /\ Place(x) \in Nat /\ Place(x)' \in Nat
        BY <2>1, PlacesMove
    <2> QED
        BY <1>2, <2>1, <2>2
<1>4. EndsBehindAll'
    BY <1>1 DEF FetchInv, EndsBehindAll, ToSet
<1>5. NothingTwice'
    <2> SUFFICES ASSUME status = "fetching", ~came'
                 PROVE  /\ IsInjective(all)
                        /\ \A y \in ToSet(all), x \in Shown' : Place(x)' > Read => x < y
        BY <1>1, <1>2 DEF NothingTwice, ToSet, IsInjective
    <2>1. IsInjective(all) /\ \A y \in ToSet(all), x \in Shown : Place(x) > Read => x < y
        BY <1>1 DEF FetchInv, NothingTwice
    <2>2. \A x \in Shown' : /\ x \in Shown /\ Place(x)' <= Place(x)
                            /\ Place(x) \in Nat /\ Place(x)' \in Nat
        BY <1>1, PlacesMove
    <2> QED
        BY <1>2, <2>1, <2>2
<1>6. PrefixRead'
    <2> SUFFICES ASSUME status = "fetching", ~gone', ~came'
                 PROVE  Listed' = Listed
        BY <1>1, <1>2 DEF FetchInv, PrefixRead
    <2>1. Shown' = Shown
        BY <1>1
    <2> QED
        BY <2>1, PlacesMove
<1>7. RecentGrows'
    <2>1. Len(first) \in Nat
        BY DEF TypeOK
    <2> QED
        BY <1>1, <2>1 DEF FetchInv, RecentGrows
<1>8. RecentInTime'
    <2>1. \A k \in DOMAIN all : k \in Nat /\ all[k] \in Nat
        BY CompareAssumption DEF TypeOK, Order
    <2> QED
        BY <1>1, <1>2, <2>1 DEF FetchInv, RecentInTime
<1>9. RecentConnected'
    BY <1>1 DEF FetchInv, RecentConnected
<1>10. RecentFound'
    <2>1. Len(first) \in Nat
        BY DEF TypeOK
    <2> QED
        BY <1>1, <2>1, CompareAssumption DEF FetchInv, RecentFound, ToSet
<1>11. FetchIsSound'
    BY <1>1 DEF FetchInv, FetchIsSound, Fetch!FetchIsSound, Fetch!QuietListIsExact,
        Fetch!SkipsNeedDepartures, Fetch!RepeatsNeedArrivals, Fetch!RecentHasNoGaps,
        Fetch!ToSet, Fetch!IsInjective, Fetch!Smaller
<1> QED
    BY <1>3, <1>4, <1>5, <1>6, <1>7, <1>8, <1>9, <1>10, <1>11 DEF FetchInv

-----------------------------------------------------------------------------
(***************************************************************************)
(* The steps of a fetch.                                                   *)
(***************************************************************************)

\* A page that is read, place by place.
LEMMA PageItems ==
    ASSUME TypeOK, FetchPage
    PROVE  LET p == Fetch!Page(page) IN
           /\ Len(p) \in Nat /\ Len(all) \in Nat /\ Read \in Nat
           /\ all' \in Seq(Order) /\ Len(all') = Len(all) + Len(p)
           /\ DOMAIN all = 1..Len(all) /\ DOMAIN all' = 1..Len(all')
           /\ \A k \in 1..Len(all) : all'[k] = all[k]
           /\ \A i \in 1..Len(p) :
                 /\ all'[Len(all) + i] \in Shown
                 /\ Place(all'[Len(all) + i]) = Read + i
                 /\ all'[Len(all) + i] = Listed[Read + i]
                 /\ Read + i <= Len(Listed) /\ Read + i <= Read'
           /\ \A k \in DOMAIN all' : k \in DOMAIN all \/ \E i \in 1..Len(p) : k = Len(all) + i
           /\ \A x \in Shown : Place(x) > Read /\ Place(x) <= Read' =>
                 \E i \in 1..Len(p) : x = all'[Len(all) + i] /\ Place(x) = Read + i
           /\ Len(p) = IF Len(Listed) <= Read THEN 0
                       ELSE IF Read' <= Len(Listed) THEN Fetch!Size
                       ELSE Len(Listed) - Read
<1> DEFINE p == Fetch!Page(page)
<1>1. /\ page \in Nat /\ Fetch!Size \in Nat \ {0}
    BY SizePositive, CompareAssumption DEF TypeOK, MaxPages
<1>2. /\ Read \in Nat /\ Read' = Read + Fetch!Size
      /\ all' \in Seq(Order) /\ Len(all') = Len(all) + Len(p) /\ Len(all) \in Nat
      /\ \A k \in 1..Len(all) : all'[k] = all[k]
      /\ \A i \in 1..Len(p) : all'[Len(all) + i] = p[i]
    BY OnePageMore
<1>3. /\ Len(p) \in Nat
      /\ Len(p) = IF Len(Listed) <= Read THEN 0
                  ELSE IF Fetch!Size <= Len(Listed) - Read THEN Fetch!Size
                  ELSE Len(Listed) - Read
      /\ \A i \in 1..Len(p) : p[i] = Listed[Read + i] /\ Read + i <= Len(Listed)
    BY <1>1, PageOfList DEF Read
<1>4. /\ Len(Listed) \in Nat
      /\ \A i \in 1..Len(Listed) : Listed[i] \in Shown /\ Place(Listed[i]) = i
      /\ \A x \in Shown : Place(x) \in 1..Len(Listed) /\ Listed[Place(x)] = x
    BY ListedInOrder
<1>5. DOMAIN all = 1..Len(all) /\ DOMAIN all' = 1..Len(all')
    <2>1. all \in Seq(Order)
        BY DEF TypeOK
    <2> QED
        BY <1>2, <2>1, LenProperties
<1> HIDE DEF p
<1>6. ASSUME NEW i \in 1..Len(p)
      PROVE  /\ all'[Len(all) + i] = Listed[Read + i]
             /\ Read + i \in 1..Len(Listed) /\ Read + i <= Read'
    <2>1. all'[Len(all) + i] = Listed[Read + i] /\ Read + i <= Len(Listed)
        BY <1>2, <1>3
    <2>2. i \in Nat /\ i >= 1 /\ i <= Len(p) /\ Len(p) <= Fetch!Size
        BY <1>1, <1>2, <1>3, <1>4
    <2> QED
        BY <1>1, <1>2, <1>4, <2>1, <2>2
<1>7. ASSUME NEW k \in DOMAIN all'
      PROVE  k \in DOMAIN all \/ \E i \in 1..Len(p) : k = Len(all) + i
    <2>0. k \in Nat /\ k >= 1 /\ k <= Len(all) + Len(p) /\ Len(all) \in Nat
        BY <1>2, <1>3, <1>5
    <2>1. CASE k > Len(all)
        <3>1. k - Len(all) \in 1..Len(p) /\ k = Len(all) + (k - Len(all))
            BY <1>3, <2>0, <2>1
        <3> QED
            BY <3>1
    <2> QED
        BY <1>5, <2>0, <2>1
<1>8. ASSUME NEW x \in Shown, Place(x) > Read, Place(x) <= Read'
      PROVE  \E i \in 1..Len(p) : x = all'[Len(all) + i] /\ Place(x) = Read + i
    <2> DEFINE i == Place(x) - Read
    <2>1. Place(x) \in 1..Len(Listed) /\ Listed[Place(x)] = x
        BY <1>4
    <2>2. i \in 1..Len(p) /\ Read + i = Place(x)
        BY <1>1, <1>2, <1>3, <1>4, <1>8, <2>1
    <2> QED
        BY <1>6, <2>1, <2>2
<1>9. Len(p) = IF Len(Listed) <= Read THEN 0
               ELSE IF Read' <= Len(Listed) THEN Fetch!Size
               ELSE Len(Listed) - Read
    BY <1>1, <1>2, <1>3, <1>4
<1> QED
    BY <1>2, <1>3, <1>4, <1>5, <1>6, <1>7, <1>8, <1>9 DEF p

LEMMA PageKeepsFetch ==
    ASSUME TypeOK, FetchInv, FetchPage
    PROVE  FetchInv'
<1> DEFINE p == Fetch!Page(page)
           new == [i \in 1..Len(p) |-> all'[Len(all) + i]]
<1>1. /\ UNCHANGED <<kind, status, first, gone, came, orders, live>>
      /\ status = "fetching"
      /\ Shown' = Shown /\ Listed' = Listed /\ \A o : Place(o)' = Place(o)
    BY OnePageMore DEF broker
<1>31. page' >= totalPages' => Len(Listed) <= Read'
    BY OnePageMore
<1>32. Read \in Nat /\ Fetch!Size \in Nat \ {0} /\ Read' = Read + Fetch!Size /\ Read' \in Nat
    <2>1. Fetch!Size \in Nat \ {0}
        BY SizePositive DEF TypeOK
    <2>2. Read \in Nat /\ Read' = Read + Fetch!Size
        BY OnePageMore
    <2> QED
        BY <2>1, <2>2
<1>2. /\ Len(p) \in Nat /\ Len(all) \in Nat /\ Len(all') = Len(all) + Len(p)
      /\ DOMAIN all = 1..Len(all) /\ DOMAIN all' = 1..(Len(all) + Len(p))
    BY PageItems
<1>33. Len(p) = IF Len(Listed) <= Read THEN 0
                  ELSE IF Read' <= Len(Listed) THEN Fetch!Size
                  ELSE Len(Listed) - Read
    BY PageItems
<1>20. \A k \in DOMAIN all : all'[k] = all[k]
    BY <1>2, PageItems
<1>21. \A i \in 1..Len(p) :
          /\ i \in Nat /\ i >= 1 /\ new[i] = all'[Len(all) + i]
          /\ new[i] \in Shown /\ Place(new[i]) = Read + i /\ new[i] = Listed[Read + i]
          /\ Read + i <= Len(Listed) /\ Read + i <= Read'
    BY PageItems
<1>22. \A k \in DOMAIN all' : k \in DOMAIN all \/ \E i \in 1..Len(p) : k = Len(all) + i
    BY PageItems
<1>23. \A x \in Shown : Place(x) > Read /\ Place(x) <= Read' =>
            \E i \in 1..Len(p) : x = new[i] /\ Place(x) = Read + i
    <2>1. \A x \in Shown : Place(x) > Read /\ Place(x) <= Read' =>
            \E i \in 1..Len(p) : x = all'[Len(all) + i] /\ Place(x) = Read + i
        BY PageItems
    <2> QED
        BY <2>1
<1>3. /\ Shown \subseteq Order /\ \A o \in Order : o \in Nat
      /\ Len(Listed) \in Nat /\ DOMAIN Listed = 1..Len(Listed)
      /\ \A x \in Shown : Place(x) \in 1..Len(Listed)
      /\ \A o, x \in Shown : o < x => Place(x) < Place(o)
    BY ListedInOrder, CompareAssumption DEF Order
<1>4. \A i \in 1..Len(p) : Len(all) + i \in DOMAIN all' /\ i \in Nat
    BY <1>2
<1> HIDE DEF p, new
<1>5. ToSet(all') = ToSet(all) \cup {new[i] : i \in 1..Len(p)}
    <2>1. ASSUME NEW k \in DOMAIN all'
          PROVE  all'[k] \in ToSet(all) \cup {new[i] : i \in 1..Len(p)}
        BY <1>20, <1>21, <1>22 DEF ToSet
    <2>2. ASSUME NEW k \in DOMAIN all
          PROVE  all[k] \in ToSet(all')
        <3>1. k \in DOMAIN all'
            BY <1>2
        <3> QED
            BY <1>20, <3>1 DEF ToSet
    <2>3. ASSUME NEW i \in 1..Len(p)
          PROVE  new[i] \in ToSet(all')
        BY <1>4, <1>21 DEF ToSet
    <2> QED
        BY <2>1, <2>2, <2>3 DEF ToSet
<1>6. ToSet(all) \subseteq Order /\ ToSet(first) \subseteq Order
    BY DEF TypeOK, ToSet
<1>34. \A x \in Shown : Place(x) \in Nat /\ Place(x) <= Len(Listed)
    BY <1>3
<1>7. NothingSkipped'
    <2> SUFFICES ASSUME ~gone, NEW x \in ToSet(first), x \notin ToSet(all')
                 PROVE  x \in Shown /\ Place(x) > Read'
        BY <1>1 DEF NothingSkipped, ToSet
    <2>1. x \in Shown /\ Place(x) > Read
        BY <1>1, <1>5 DEF FetchInv, NothingSkipped
    <2>2. ~(Place(x) <= Read')
        BY <1>5, <1>23, <2>1
    <2> QED
        BY <1>32, <1>34, <2>1, <2>2
<1>8. EndsBehindAll'
    <2> SUFFICES ASSUME ~gone, page' >= totalPages', NEW x \in ToSet(first), x \notin ToSet(all')
                 PROVE  FALSE
        BY <1>1 DEF EndsBehindAll, ToSet
    <2>1. x \in Shown /\ Place(x) > Read'
        BY <1>1, <1>7 DEF NothingSkipped, ToSet
    <2> QED
        BY <1>31, <1>32, <1>3, <1>34, <2>1
<1>9. NothingTwice'
    <2> SUFFICES ASSUME ~came
                 PROVE  /\ IsInjective(all')
                        /\ \A y \in ToSet(all'), x \in Shown : Place(x) > Read' => x < y
        BY <1>1 DEF NothingTwice, ToSet, IsInjective
    <2>1. IsInjective(all) /\ \A y \in ToSet(all), x \in Shown : Place(x) > Read => x < y
        BY <1>1 DEF FetchInv, NothingTwice
    <2>2. \A x, y \in Shown : Place(x) > Place(y) => x < y
        <3> SUFFICES ASSUME NEW x \in Shown, NEW y \in Shown, Place(x) > Place(y)
                     PROVE  x < y
            OBVIOUS
        <3>1. x \in Nat /\ y \in Nat /\ Place(x) \in Nat /\ Place(y) \in Nat
            BY <1>3, <1>34
        <3>2. ~(y < x) /\ x # y
            <4>1. y < x => Place(x) < Place(y)
                BY <1>3
            <4> QED
                BY <3>1, <4>1
        <3> QED
            BY <3>1, <3>2
    <2>3. ASSUME NEW y \in ToSet(all'), NEW x \in Shown, Place(x) > Read'
          PROVE  x < y
        <3>1. Place(x) > Read
            BY <1>32, <1>34, <2>3
        <3>2. ASSUME NEW i \in 1..Len(p), y = new[i]
              PROVE  x < y
            <4>1. Place(new[i]) <= Read' /\ Place(new[i]) \in Nat /\ new[i] \in Shown
                BY <1>21, <1>34
            <4>2. Place(x) > Place(new[i])
                BY <1>32, <1>34, <2>3, <4>1
            <4> QED
                BY <2>2, <3>2, <4>1, <4>2
        <3> QED
            BY <1>5, <2>1, <3>1, <3>2
    <2>4. ASSUME NEW k \in DOMAIN all, NEW i \in 1..Len(p)
          PROVE  all[k] # new[i]
        <3>1. Place(new[i]) > Read /\ new[i] \in Shown
            BY <1>32, <1>21
        <3>3. all[k] \in ToSet(all)
            BY DEF ToSet
        <3>2. new[i] < all[k] /\ new[i] \in Nat
            BY <1>3, <2>1, <3>1, <3>3
        <3> QED
            BY <1>3, <1>6, <3>1, <3>2, <3>3
    <2>5. ASSUME NEW i \in 1..Len(p), NEW j \in 1..Len(p), new[i] = new[j]
          PROVE  i = j
        <3>1. Read + i = Read + j /\ i \in Nat /\ j \in Nat
            BY <1>21, <2>5
        <3> QED
            BY <1>32, <3>1
    <2>6. ASSUME NEW a \in DOMAIN all', NEW b \in DOMAIN all', all'[a] = all'[b]
          PROVE  a = b
        <3>1. CASE a \in DOMAIN all /\ b \in DOMAIN all
            BY <1>20, <2>1, <2>6, <3>1 DEF IsInjective
        <3>2. ASSUME NEW i \in 1..Len(p), a = Len(all) + i, b \in DOMAIN all
              PROVE  FALSE
            BY <1>20, <1>21, <2>4, <2>6, <3>2
        <3>3. ASSUME NEW j \in 1..Len(p), b = Len(all) + j, a \in DOMAIN all
              PROVE  FALSE
            BY <1>20, <1>21, <2>4, <2>6, <3>3
        <3>4. ASSUME NEW i \in 1..Len(p), a = Len(all) + i,
                     NEW j \in 1..Len(p), b = Len(all) + j
              PROVE  a = b
            BY <1>21, <2>5, <2>6, <3>4
        <3>5. /\ a \in DOMAIN all \/ \E i \in 1..Len(p) : a = Len(all) + i
              /\ b \in DOMAIN all \/ \E i \in 1..Len(p) : b = Len(all) + i
            BY <1>22
        <3> QED
            BY <3>1, <3>2, <3>3, <3>4, <3>5, Zenon
    <2> QED
        BY <2>3, <2>6 DEF IsInjective
<1>10. PrefixRead'
    <2> SUFFICES ASSUME ~gone, ~came
                 PROVE  /\ first = Listed
                        /\ \A k \in DOMAIN all' : k \in DOMAIN first /\ all'[k] = first[k]
                        /\ Len(all') = IF Read' <= Len(first) THEN Read' ELSE Len(first)
                        /\ page' >= totalPages' => Len(all') = Len(first)
        BY <1>1 DEF PrefixRead
    <2>1. first = Listed
        BY <1>1 DEF FetchInv, PrefixRead
    <2>2. \A k \in DOMAIN all : k \in DOMAIN first /\ all[k] = first[k]
        BY <1>1 DEF FetchInv, PrefixRead
    <2>3. Len(all) = IF Read <= Len(Listed) THEN Read ELSE Len(Listed)
        BY <1>1, <2>1 DEF FetchInv, PrefixRead
    <2>4. Len(Listed) \in Nat
        BY <1>3
    <2>5. ASSUME NEW i \in 1..Len(p)
          PROVE  /\ Len(all) + i \in DOMAIN first
                 /\ all'[Len(all) + i] = first[Len(all) + i]
        <3>1. /\ i \in Nat /\ i >= 1 /\ Read + i <= Len(Listed)
              /\ all'[Len(all) + i] = Listed[Read + i]
            BY <1>21
        <3>2. Len(all) = Read /\ Read \in Nat
            BY <1>2, <1>32, <2>3, <2>4, <3>1
        <3>3. Read + i \in DOMAIN Listed
            BY <1>3, <2>4, <3>1, <3>2
        <3> QED
            BY <2>1, <3>1, <3>2, <3>3
    <2>6. ASSUME NEW k \in DOMAIN all'
          PROVE  k \in DOMAIN first /\ all'[k] = first[k]
        BY <1>20, <1>22, <2>2, <2>5
    <2>7. Len(all') = IF Read' <= Len(Listed) THEN Read' ELSE Len(Listed)
        <3>1. Len(Listed) <= Read => Len(p) = 0 /\ Len(all) = Len(Listed)
            BY <1>33, <1>32, <2>3, <2>4
        <3>2. Len(Listed) > Read => Len(all) = Read
            BY <1>32, <2>3, <2>4
        <3>3. Len(Listed) > Read =>
                Len(p) = IF Read' <= Len(Listed) THEN Fetch!Size ELSE Len(Listed) - Read
            BY <1>33, <1>32, <2>4
        <3>4. Len(all') = Len(all) + Len(p) /\ Len(all) \in Nat /\ Len(p) \in Nat
            BY <1>2
        <3>5. CASE Len(Listed) <= Read
            BY <1>32, <2>4, <3>1, <3>4, <3>5
        <3>6. CASE Len(Listed) > Read
            BY <1>32, <2>4, <3>2, <3>3, <3>4, <3>6
        <3> QED
            BY <1>32, <2>4, <3>5, <3>6
    <2>8. page' >= totalPages' => Len(all') = Len(Listed)
        BY <1>2, <1>31, <1>32, <2>4, <2>7
    <2> QED
        BY <2>1, <2>6, <2>7, <2>8
<1>11. RecentGrows'
    BY <1>1 DEF FetchInv, RecentGrows
<1>12. RecentInTime'
    <2> SUFFICES ASSUME kind = "recent"
                 PROVE  /\ Len(all') <= Read'
                        /\ \A k \in DOMAIN all' : all'[k] <= Len(orders) + 1 - k
        BY <1>1 DEF RecentInTime
    <2>1. Len(all) <= Read /\ \A k \in DOMAIN all : all[k] <= Len(orders) + 1 - k
        BY <1>1 DEF FetchInv, RecentInTime
    <2>2. Len(all') <= Read'
        <3>1. Len(p) <= Fetch!Size
            <4>1. Len(Listed) \in Nat
                BY <1>3
            <4>2. \/ Len(p) = 0 \/ Len(p) = Fetch!Size
                  \/ Len(p) = Len(Listed) - Read /\ ~(Read' <= Len(Listed))
                BY <1>33
            <4> QED
                BY <1>32, <4>1, <4>2
        <3>2. Len(all') = Len(all) + Len(p) /\ Len(all) \in Nat /\ Len(p) \in Nat
            BY <1>2
        <3> QED
            BY <1>32, <2>1, <3>1, <3>2
    <2>3. ASSUME NEW i \in 1..Len(p)
          PROVE  all'[Len(all) + i] <= Len(orders) + 1 - (Len(all) + i)
        <3>1. Len(orders) \in Nat
            BY DEF TypeOK
        <3>2. new[i] \in 1..Len(orders)
            BY <1>21, SearchListsAll
        <3>3. Place(new[i]) = Len(orders) + 1 - new[i]
            BY <3>2, SearchListsAll
        <3>4. Len(orders) + 1 - new[i] = Read + i /\ i \in Nat /\ new[i] = all'[Len(all) + i]
            BY <1>21, <3>3
        <3> QED
            BY <1>2, <1>32, <2>1, <3>1, <3>2, <3>4
    <2>4. \A k \in DOMAIN all' : all'[k] <= Len(orders) + 1 - k
        BY <1>20, <1>22, <2>1, <2>3
    <2> QED
        BY <2>2, <2>4
<1>13. RecentConnected'
    <2> SUFFICES ASSUME kind = "recent", NEW k \in DOMAIN all', NEW u \in 1..Len(first),
                        all'[k] <= u
                 PROVE  \E j \in 1..k : all'[j] = u
        BY <1>1 DEF RecentConnected
    <2>1. /\ ~gone /\ Len(first) <= Len(orders) /\ Len(first) \in Nat /\ Len(orders) \in Nat
          /\ \A i \in DOMAIN first : first[i] = Len(first) + 1 - i
          /\ DOMAIN first = 1..Len(first)
        BY DEF FetchInv, RecentGrows, TypeOK
    <2>2. CASE k \in DOMAIN all
        <3>1. \E j \in 1..k : all[j] = u
            BY <1>20, <2>2 DEF FetchInv, RecentConnected
        <3>2. \A j \in 1..k : j \in DOMAIN all
            BY <1>2, <2>2
        <3> QED
            BY <1>20, <3>1, <3>2
    <2>3. ASSUME NEW i \in 1..Len(p), k = Len(all) + i
          PROVE  \E j \in 1..k : all'[j] = u
        <3>1. /\ new[i] \in 1..Len(orders) /\ u \in 1..Len(orders)
              /\ i \in Nat /\ i >= 1 /\ Place(new[i]) = Read + i /\ new[i] <= u
            BY <1>21, <2>1, <2>3, SearchListsAll
        <3>2. /\ u \in Shown /\ Place(u) = Len(orders) + 1 - u
              /\ Len(orders) + 1 - new[i] = Read + i
            BY <3>1, SearchListsAll
        <3>3. Place(u) <= Read + i /\ Place(u) \in Nat /\ Read + i <= Read'
            BY <1>32, <1>21, <2>1, <3>1, <3>2
        <3>4. CASE Place(u) > Read
            <4>1. Place(u) <= Read'
                BY <1>32, <3>1, <3>3
            <4>2. PICK j \in 1..Len(p) : u = new[j] /\ Place(u) = Read + j
                BY <1>23, <3>2, <3>4, <4>1
            <4>3. j \in Nat /\ j >= 1 /\ j <= i /\ all'[Len(all) + j] = u
                BY <1>32, <1>21, <3>1, <3>3, <4>2
            <4>4. Len(all) + j \in 1..k
                BY <1>2, <2>3, <3>1, <4>3
            <4> QED
                BY <4>3, <4>4
        <3>5. CASE ~(Place(u) > Read)
            <4>1. u \in ToSet(first)
                <5>1. Len(first) + 1 - u \in DOMAIN first
                      /\ first[Len(first) + 1 - u] = u
                    BY <2>1
                <5> QED
                    BY <5>1 DEF ToSet
            <4>2. u \in ToSet(all)
                BY <1>1, <2>1, <3>5, <4>1 DEF FetchInv, NothingSkipped
            <4>3. PICK j \in DOMAIN all : all[j] = u
                BY <4>2 DEF ToSet
            <4>4. j \in 1..k
                BY <1>2, <2>3, <3>1
            <4> QED
                BY <1>20, <4>3, <4>4
        <3> QED
            BY <3>4, <3>5
    <2> QED
        BY <1>22, <2>2, <2>3
<1>14. RecentFound' /\ FetchIsSound'
    BY <1>1 DEF RecentFound, FetchIsSound, Fetch!FetchIsSound, Fetch!QuietListIsExact,
        Fetch!SkipsNeedDepartures, Fetch!RepeatsNeedArrivals, Fetch!RecentHasNoGaps
<1> QED
    BY <1>7, <1>8, <1>9, <1>10, <1>11, <1>12, <1>13, <1>14 DEF FetchInv

\* The loop ends: what is returned has lost no more than the code cuts off.
LEMMA ReturnKeepsFetch ==
    ASSUME TypeOK, FetchInv, Fetched
    PROVE  FetchInv' /\ \A k \in DOMAIN all' : k \in DOMAIN all /\ all'[k] = all[k]
<1> DEFINE m == Len(all')
<1>1. /\ UNCHANGED <<kind, first, gone, came, orders, live>>
      /\ status = "fetching" /\ status' = "done" /\ all' = Fetch!Result
      /\ page >= totalPages \/ (kind = "recent" /\ ~(Len(all) < Limit))
    <2>1. page \in Nat /\ totalPages \in Nat
        BY CompareAssumption DEF TypeOK, MaxPages
    <2>2. ~Fetch!More => page >= totalPages \/ (kind = "recent" /\ ~(Len(all) < Limit))
        BY <2>1 DEF Fetch!More
    <2> QED
        BY <2>2 DEF Fetched, Fetch!Return, broker
<1>2. /\ Len(all) \in Nat /\ m \in Nat /\ m <= Len(all)
      /\ m = IF kind = "recent" /\ Limit < Len(all) THEN Limit ELSE Len(all)
    <2>1. all \in Seq(Order)
        BY DEF TypeOK
    <2>2. Len(all) \in Nat /\ m = IF kind = "recent" /\ Limit < Len(all) THEN Limit ELSE Len(all)
        BY <1>1, <2>1, ResultIsPrefix
    <2> HIDE DEF m
    <2> QED
        BY <2>2, CompareAssumption
<1>20. /\ all' \in Seq(Order)
       /\ DOMAIN all = 1..Len(all) /\ DOMAIN all' = 1..m
    <2>1. all \in Seq(Order)
        BY DEF TypeOK
    <2>2. all' \in Seq(Order)
        BY <1>1, <2>1, ResultIsPrefix
    <2> QED
        BY <2>1, <2>2, LenProperties
<1>21. \A k \in 1..m : k \in 1..Len(all) /\ all'[k] = all[k]
    <2>1. all \in Seq(Order) /\ m = IF kind = "recent" /\ Limit < Len(all) THEN Limit ELSE Len(all)
        BY <1>2 DEF TypeOK
    <2>2. \A k \in 1..m : Fetch!Result[k] = all[k]
        BY <2>1, ResultIsPrefix
    <2> HIDE DEF m
    <2> QED
        BY <1>1, <1>2, <2>2
<1>3. Len(orders) \in Nat /\ Len(first) \in Nat /\ Limit \in Nat \ {0}
    BY CompareAssumption DEF TypeOK
<1>30. first \in Seq(Order) /\ DOMAIN first = 1..Len(first)
    BY LenProperties DEF TypeOK
<1> HIDE DEF m
<1>4. NothingSkipped' /\ EndsBehindAll' /\ NothingTwice' /\ PrefixRead'
    BY <1>1 DEF NothingSkipped, EndsBehindAll, NothingTwice, PrefixRead
<1>5. RecentGrows'
    BY <1>1 DEF FetchInv, RecentGrows
<1>6. RecentInTime'
    <2>1. kind = "recent" => \A k \in DOMAIN all : all[k] <= Len(orders) + 1 - k
        BY DEF FetchInv, RecentInTime
    <2> QED
        BY <1>1, <1>2, <1>20, <1>21, <2>1 DEF RecentInTime
<1>7. RecentConnected'
    <2> SUFFICES ASSUME kind = "recent", NEW k \in 1..m, NEW u \in 1..Len(first), all'[k] <= u
                 PROVE  \E j \in 1..k : all'[j] = u
        BY <1>1, <1>2, <1>20, <1>21 DEF RecentConnected
    <2>1. \E j \in 1..k : all[j] = u
        BY <1>2, <1>20, <1>21 DEF FetchInv, RecentConnected
    <2>2. \A j \in 1..k : j \in 1..m
        BY <1>2
    <2> QED
        BY <1>2, <1>20, <1>21, <2>1, <2>2
<1>8. RecentFound'
    <2> SUFFICES ASSUME kind = "recent", NEW o \in 1..Len(first), Len(orders) - o < Limit
                 PROVE  \E j \in 1..m : all'[j] = o
        BY <1>1, <1>2, <1>20, <1>21 DEF RecentFound, ToSet
    <2>1. \A k \in 1..Len(all) : all[k] <= Len(orders) + 1 - k
        BY <1>2, <1>20, <1>21 DEF FetchInv, RecentInTime
    <2>2. CASE page >= totalPages
        <3>1. o \in ToSet(first)
            <4>1. Len(first) + 1 - o \in DOMAIN first /\ first[Len(first) + 1 - o] = o
                BY <1>1, <1>3, <1>30 DEF FetchInv, RecentGrows
            <4> QED
                BY <4>1 DEF ToSet
        <3>2. o \in ToSet(all)
            BY <1>1, <2>2, <3>1 DEF FetchInv, EndsBehindAll, RecentGrows
        <3>3. PICK j \in 1..Len(all) : all[j] = o
            BY <1>2, <1>20, <1>21, <3>2 DEF ToSet
        <3>4. o <= Len(orders) + 1 - j
            BY <2>1, <3>3
        <3>5. j \in 1..m
            BY <1>2, <1>3, <3>4
        <3> QED
            BY <1>2, <1>20, <1>21, <3>3, <3>5
    <2>3. CASE ~(Len(all) < Limit)
        <3>1. Limit \in 1..Len(all) /\ m = Limit
            BY <1>2, <1>3, <2>3
        <3>2. all[Limit] \in Nat
            <4>1. \A k \in 1..Len(all) : all[k] \in Order
                BY DEF TypeOK
            <4> QED
                BY <3>1, <4>1, CompareAssumption DEF Order
        <3>3. all[Limit] <= o
            <4>1. all[Limit] <= Len(orders) + 1 - Limit
                BY <2>1, <3>1
            <4> QED
                BY <1>3, <3>2, <4>1
        <3>4. PICK j \in 1..Limit : all[j] = o
            BY <1>2, <1>20, <1>21, <3>1, <3>3 DEF FetchInv, RecentConnected
        <3> QED
            BY <1>2, <1>20, <1>21, <3>1, <3>4
    <2> QED
        BY <1>1, <2>2, <2>3
<1>9. Fetch!QuietListIsExact'
    <2> SUFFICES ASSUME ~gone, ~came
                 PROVE  all' = IF kind = "recent"
                               THEN SubSeq(first, 1, Fetch!Smaller(Limit, Len(first)))
                               ELSE first
        BY <1>1 DEF Fetch!QuietListIsExact, Fetch!Smaller
    <2>1. /\ \A k \in 1..Len(all) : k \in 1..Len(first) /\ all[k] = first[k]
          /\ Len(all) <= Len(first)
          /\ page >= totalPages => Len(all) = Len(first)
        <3>1. /\ \A k \in DOMAIN all : k \in DOMAIN first /\ all[k] = first[k]
              /\ page >= totalPages => Len(all) = Len(first)
            BY <1>1 DEF FetchInv, PrefixRead
        <3>2. Len(all) <= Len(first)
            <4>1. Len(all) # 0 => Len(all) \in 1..Len(all)
                BY <1>2
            <4>2. Len(all) # 0 => Len(all) \in 1..Len(first)
                BY <1>20, <1>30, <3>1, <4>1
            <4> QED
                BY <1>2, <1>3, <4>2
        <3> QED
            BY <1>20, <1>30, <3>1, <3>2
    <2>2. CASE kind = "recent"
        <3> DEFINE n == Fetch!Smaller(Limit, Len(first))
        <3>1. n = m /\ m <= Len(first)
            <4>1. page >= totalPages => Len(all) = Len(first)
                BY <2>1
            <4>2. Len(all) <= Len(first)
                BY <2>1
            <4>3. page >= totalPages \/ ~(Len(all) < Limit)
                BY <1>1
            <4> QED
                BY <1>2, <1>3, <2>2, <4>1, <4>2, <4>3 DEF Fetch!Smaller
        <3> HIDE DEF n
        <3>2. \A k \in 1..n : first[k] \in Order
            <4>1. \A k \in 1..Len(first) : first[k] \in Order
                BY <1>30
            <4> QED
                BY <1>2, <1>3, <3>1, <4>1
        <3>3. /\ SubSeq(first, 1, n) \in Seq(Order)
              /\ Len(SubSeq(first, 1, n)) = IF 1 <= n THEN n - 1 + 1 ELSE 0
              /\ \A k \in 1..(n - 1 + 1) : SubSeq(first, 1, n)[k] = first[1 + k - 1]
            <4>1. n \in Int
                BY <1>2, <3>1
            <4> QED
                BY <3>2, <4>1, SubSeqProperties
        <3>4. /\ Len(SubSeq(first, 1, n)) = m
              /\ \A k \in 1..m : SubSeq(first, 1, n)[k] = first[k]
            BY <1>2, <3>1, <3>3
        <3>5. \A k \in 1..m : all'[k] = SubSeq(first, 1, n)[k]
            BY <1>2, <1>20, <1>21, <2>1, <3>4
        <3>6. all' = SubSeq(first, 1, n)
            BY <1>20, <3>3, <3>4, <3>5, SeqEqual DEF m
        <3> QED
            BY <2>2, <3>6 DEF n
    <2>3. CASE kind # "recent"
        <3>1. m = Len(first) /\ \A k \in 1..m : all'[k] = first[k]
            BY <1>1, <1>2, <1>20, <1>21, <1>3, <2>1, <2>3
        <3>2. all' = first
            BY <1>20, <1>30, <3>1, SeqEqual DEF m
        <3> QED
            BY <2>3, <3>2
    <2> QED
        BY <2>2, <2>3
<1>10. Fetch!SkipsNeedDepartures'
    <2> SUFFICES ASSUME kind = "all", ~gone
                 PROVE  ToSet(first) \subseteq ToSet(all')
        BY <1>1 DEF Fetch!SkipsNeedDepartures, Fetch!ToSet, ToSet
    <2>1. all' = all
        BY <1>1 DEF Fetch!Result
    <2> QED
        BY <1>1, <2>1 DEF FetchInv, EndsBehindAll
<1>11. Fetch!RepeatsNeedArrivals'
    <2> SUFFICES ASSUME ~came
                 PROVE  \A a, b \in 1..m : all'[a] = all'[b] => a = b
        BY <1>1, <1>2, <1>20, <1>21 DEF Fetch!RepeatsNeedArrivals, Fetch!IsInjective
    <2>1. \A a, b \in 1..Len(all) : all[a] = all[b] => a = b
        BY <1>1, <1>2, <1>20, <1>21 DEF FetchInv, NothingTwice, IsInjective
    <2> QED
        BY <1>2, <1>20, <1>21, <2>1
<1>12. Fetch!RecentHasNoGaps'
    <2> SUFFICES ASSUME kind = "recent", NEW i \in 1..Len(first), NEW j \in 1..Len(first),
                        i < j, NEW k \in 1..m, all'[k] = first[j]
                 PROVE  \E l \in 1..m : all'[l] = first[i]
        <3> SUFFICES ASSUME kind = "recent", NEW i \in DOMAIN first, NEW j \in DOMAIN first,
                            i < j, first[j] \in Fetch!ToSet(all')
                     PROVE  first[i] \in Fetch!ToSet(all')
            BY <1>1 DEF Fetch!RecentHasNoGaps, Fetch!ToSet
        <3> QED
            BY <1>20, <1>30 DEF Fetch!ToSet
    <2>1. first[i] = Len(first) + 1 - i /\ first[j] = Len(first) + 1 - j
        BY <1>3 DEF FetchInv, RecentGrows
    <2>2. first[i] \in 1..Len(first) /\ all'[k] <= first[i]
        BY <1>3, <2>1
    <2>3. PICK l \in 1..k : all'[l] = first[i]
        BY <1>1, <1>2, <1>20, <1>21, <1>7, <2>2 DEF RecentConnected
    <2>4. l \in 1..m
        BY <1>2
    <2> QED
        BY <2>3, <2>4
<1>13. FetchIsSound'
    BY <1>9, <1>10, <1>11, <1>12 DEF FetchIsSound, Fetch!FetchIsSound
<1>14. \A k \in DOMAIN all' : k \in DOMAIN all /\ all'[k] = all[k]
    BY <1>2, <1>20, <1>21
<1> QED
    BY <1>4, <1>5, <1>6, <1>7, <1>8, <1>13, <1>14 DEF FetchInv

\* A fetch begins, with nothing read and all of the list to come.
LEMMA BeginFetch ==
    ASSUME TypeOK', NEW k \in {"all", "recent"}, Fetch!Begin(k)
    PROVE  FetchInv'
<1>1. /\ kind' = k /\ page' = 0 /\ totalPages' = 1 /\ all' = <<>> /\ status' = "fetching"
      /\ first' = Listed' /\ gone' = FALSE /\ came' = FALSE
    BY DEF Fetch!Begin
<1>2. Read' = 0 /\ DOMAIN all' = {} /\ ToSet(all') = {} /\ Len(all') = 0
    <2>1. Fetch!Size' \in Nat
        BY <1>1, CompareAssumption DEF Fetch!Size, Fetch!Smaller
    <2>2. \A s \in Nat : 0 * s = 0
        OBVIOUS
    <2>3. Read' = 0
        BY <1>1, <2>1, <2>2 DEF Read
    <2> QED
        BY <1>1, <2>3 DEF ToSet
<1>3. /\ ToSet(first') = Shown' /\ Listed' \in Seq(Order)
      /\ \A o \in Shown' : Place(o)' \in 1..Len(Listed')
    BY <1>1, ListedNext
<1>4. Len(Listed') \in Nat
    BY <1>3
<1>5. NothingSkipped'
    BY <1>1, <1>2, <1>3, <1>4 DEF NothingSkipped, ToSet
<1>6. EndsBehindAll' /\ RecentFound' /\ FetchIsSound'
    BY <1>1, <1>2 DEF EndsBehindAll, RecentFound, FetchIsSound, Fetch!FetchIsSound,
        Fetch!QuietListIsExact, Fetch!SkipsNeedDepartures, Fetch!RepeatsNeedArrivals,
        Fetch!RecentHasNoGaps, Fetch!ToSet
<1>7. NothingTwice'
    BY <1>1, <1>2 DEF NothingTwice, IsInjective, ToSet
<1>8. PrefixRead'
    BY <1>1, <1>2, <1>4 DEF PrefixRead
<1>9. RecentGrows'
    <2>1. Len(orders') \in Nat
        BY DEF TypeOK
    <2> QED
        BY <1>1, <2>1, SearchListsAllNext DEF RecentGrows
<1>10. RecentInTime' /\ RecentConnected'
    BY <1>1, <1>2 DEF RecentInTime, RecentConnected
<1> QED
    BY <1>5, <1>6, <1>7, <1>8, <1>9, <1>10 DEF FetchInv

\* Nothing is under way, and nothing is read.
LEMMA NoFetch ==
    ASSUME kind \in {"all", "recent"}, status \in {"idle", "failed"}, gone = FALSE,
           all = <<>>, first = <<>>, Len(orders) \in Nat
    PROVE  FetchInv
BY DEF FetchInv, NothingSkipped, EndsBehindAll, NothingTwice, PrefixRead, RecentGrows,
    RecentInTime, RecentConnected, RecentFound, FetchIsSound, Fetch!FetchIsSound,
    Fetch!QuietListIsExact, Fetch!SkipsNeedDepartures, Fetch!RepeatsNeedArrivals,
    Fetch!RecentHasNoGaps, Fetch!ToSet

LEMMA NoFetchNext ==
    /\ kind' \in {"all", "recent"} /\ status' = "failed" /\ gone' = FALSE
    /\ all' = <<>> /\ first' = <<>> /\ Len(orders') \in Nat
    => FetchInv'
<1> DEFINE Nothing ==
               /\ kind \in {"all", "recent"} /\ status = "failed" /\ gone = FALSE
               /\ all = <<>> /\ first = <<>> /\ Len(orders) \in Nat
<1>1. Nothing => FetchInv
    BY NoFetch
<1>2. (Nothing => FetchInv)'
    BY <1>1, PTL
<1> QED
    BY <1>2

LEMMA QuietKeepsFetch ==
    ASSUME FetchInv, UNCHANGED <<fetch, orders, live>>
    PROVE  FetchInv'
<1>1. UNCHANGED <<kind, page, totalPages, all, status, first, gone, came, orders, live>>
    BY DEF fetch
<1>2. /\ Shown' = Shown /\ Listed' = Listed /\ Read' = Read
      /\ \A o : Place(o)' = Place(o)
    BY <1>1 DEF Shown, Listed, Place, Read, Fetch!Size
<1>3. /\ NothingSkipped' /\ EndsBehindAll' /\ NothingTwice' /\ PrefixRead'
    BY <1>1, <1>2 DEF FetchInv, NothingSkipped, EndsBehindAll, NothingTwice, PrefixRead,
        ToSet, IsInjective
<1>4. RecentGrows' /\ RecentInTime' /\ RecentConnected' /\ RecentFound'
    BY <1>1, <1>2 DEF FetchInv, RecentGrows, RecentInTime, RecentConnected, RecentFound, ToSet
<1>5. FetchIsSound'
    BY <1>1 DEF FetchInv, FetchIsSound, Fetch!FetchIsSound, Fetch!QuietListIsExact,
        Fetch!SkipsNeedDepartures, Fetch!RepeatsNeedArrivals, Fetch!RecentHasNoGaps,
        Fetch!ToSet, Fetch!IsInjective, Fetch!Smaller
<1> QED
    BY <1>3, <1>4, <1>5 DEF FetchInv

\* The list a fetch begins with, before its state is known to be typed.
LEMMA ListedIsTypedNext ==
    /\ (Len(orders) \in 0..MaxOrders)' /\ (DOMAIN orders = 1..Len(orders))'
    /\ (live \subseteq DOMAIN orders)'
    => (Listed \in Seq(Order))'
<1>1. /\ Len(orders) \in 0..MaxOrders /\ DOMAIN orders = 1..Len(orders)
      /\ live \subseteq DOMAIN orders
      => Listed \in Seq(Order)
    BY ListedAtPlace
<1> QED
    BY <1>1, PTL

\* What compare itself does keeps the types.
LEMMA CompareTypes ==
    ASSUME TypeOK, Inspect \/ Deny \/ Comparing
    PROVE  TypeOK'
<1>1. /\ UNCHANGED <<registry, submit, orders, live>>
    BY DEF Inspect, Deny, Comparing, FetchPage, FetchFails, Fetched, FetchRecent, Compare, broker
<1>2. MaxPages \in Nat \ {0}
    BY CompareAssumption DEF MaxPages
<1>3. ASSUME NEW k \in {"all", "recent"}, Fetch!Begin(k)
      PROVE  /\ kind' = k /\ page' = 0 /\ totalPages' = 1 /\ all' = <<>>
             /\ status' = "fetching" /\ gone' = FALSE /\ came' = FALSE
             /\ first' \in Seq(Order)
    <2>1. /\ (Len(orders) \in 0..MaxOrders)' /\ (DOMAIN orders = 1..Len(orders))'
          /\ (live \subseteq DOMAIN orders)'
        BY <1>1 DEF TypeOK
    <2>2. Listed' \in Seq(Order)
        BY <2>1, ListedIsTypedNext
    <2> QED
        BY <1>3, <2>2 DEF Fetch!Begin
<1> DEFINE FetchTypes ==
               /\ kind \in {"all", "recent"}
               /\ page \in 0..MaxPages /\ totalPages \in 1..MaxPages
               /\ all \in Seq(Order) /\ first \in Seq(Order)
               /\ status \in {"idle", "fetching", "done", "failed"}
           Flags == gone \in BOOLEAN /\ came \in BOOLEAN
           Rest ==
               /\ stage \in {"idle", "live", "recent", "done", "denied", "failed"}
               /\ view \in [Payload -> States]
               /\ arrived \in 0..MaxOrders
               /\ liveOrders \subseteq Order
               /\ report \subseteq Entry
<1>4. FetchTypes /\ Flags /\ Rest
    BY Zenon DEF TypeOK
<1>5. FetchTypes' /\ Flags' /\ Rest' => TypeOK'
    BY <1>1, Zenon DEF TypeOK
<1>6. ASSUME NEW k \in {"all", "recent"}, Fetch!Begin(k)
      PROVE  FetchTypes' /\ Flags'
    <2>1. gone' \in BOOLEAN /\ came' \in BOOLEAN
        BY <1>3, <1>6
    <2>2. <<>> \in Seq(Order)
        OBVIOUS
    <2> QED
        <3>1. /\ kind' = k /\ page' = 0 /\ totalPages' = 1 /\ all' = <<>>
              /\ status' = "fetching" /\ first' \in Seq(Order)
            BY <1>3, <1>6
        <3>2. FetchTypes'
            BY <1>2, <2>2, <3>1
        <3> QED
            BY <2>1, <3>2
<1>7. UNCHANGED fetch => FetchTypes' /\ Flags'
    BY <1>4, Zenon DEF fetch
<1>8. UNCHANGED compare => Rest'
    BY <1>4, Zenon DEF compare
<1>9. CASE Inspect
    <2>1. Rest'
        BY <1>4, <1>9 DEF Inspect, TypeOK
    <2> QED
        BY <1>5, <1>6, <1>9, <2>1 DEF Inspect
<1>10. CASE Deny
    <2>1. Rest'
        BY <1>4, <1>10 DEF Deny
    <2> QED
        BY <1>5, <1>7, <1>10, <2>1 DEF Deny
<1>11. CASE FetchPage
    <2>1. /\ UNCHANGED <<compare, kind, status, first, gone, came>> /\ page' = page + 1
          /\ page < totalPages /\ totalPages' \in 1..MaxPages /\ all' \in Seq(Order)
        BY <1>11, OnePageMore
    <2>2. page' \in 0..MaxPages
        BY <1>2, <1>4, <2>1
    <2>3. FetchTypes'
        BY <1>4, <2>1, <2>2
    <2>4. Flags'
        BY <1>4, <2>1, Zenon
    <2> QED
        BY <1>5, <1>8, <2>1, <2>3, <2>4
<1>12. CASE FetchFails
    <2>1. /\ stage' = "failed" /\ view' = [p \in Payload |-> "none"] /\ arrived' = 0
          /\ liveOrders' = {} /\ report' = report
        BY <1>12 DEF FetchFails
    <2>2. Rest'
        BY <1>4, <2>1, CompareAssumption DEF States
    <2>3. /\ status' = "failed" /\ page' = 0 /\ totalPages' = 1 /\ all' = <<>>
          /\ first' = <<>> /\ kind' = kind
        BY <1>12 DEF FetchFails, Fetch!FetchFails
    <2>4. <<>> \in Seq(Order)
        OBVIOUS
    <2>5. FetchTypes'
        BY <1>2, <1>4, <2>3, <2>4
    <2>6. Flags'
        BY <1>12 DEF FetchFails, Fetch!FetchFails
    <2> QED
        BY <1>5, <2>2, <2>5, <2>6
<1>13. CASE Fetched
    <2>1. /\ UNCHANGED <<compare, kind, first, gone, came>>
          /\ status' = "done" /\ page' = 0 /\ totalPages' = 1 /\ all' = Fetch!Result
        BY <1>13 DEF Fetched, Fetch!Return
    <2>2. all' \in Seq(Order)
        BY <1>4, <2>1, ResultIsPrefix
    <2>3. FetchTypes'
        BY <1>2, <1>4, <2>1, <2>2
    <2>4. Flags'
        BY <1>4, <2>1, Zenon
    <2> QED
        BY <1>5, <1>8, <2>1, <2>3, <2>4
<1>14. CASE FetchRecent
    <2>1. ToSet(all) \subseteq Order
        BY <1>4 DEF ToSet
    <2>2. Rest'
        BY <1>4, <1>14, <2>1 DEF FetchRecent
    <2> QED
        BY <1>5, <1>6, <1>14, <2>2 DEF FetchRecent
<1>15. CASE Compare
    <2> DEFINE seen == Merged(all)
    <2>1. seen \in SUBSET Order
        BY <1>4 DEF Merged, ToSet
    <2>2. report' = {RecordEntry(p, seen) : p \in Local} \cup OrderEntries(seen)
        BY <1>15 DEF Compare, Report
    <2> HIDE DEF seen
    <2>3. \A p \in Local : RecordEntry(p, seen) \in Entry
        BY <2>1, RecordRow DEF Local
    <2>4. OrderEntries(seen) \subseteq Entry
        BY <2>1 DEF OrderEntries, Entry
    <2>5. Rest'
        <3>1. report' \subseteq Entry
            BY <2>2, <2>3, <2>4
        <3> QED
            BY <1>4, <1>15, <3>1 DEF Compare
    <2> QED
        BY <1>5, <1>7, <1>15, <2>5 DEF Compare
<1> QED
    BY <1>9, <1>10, <1>11, <1>12, <1>13, <1>14, <1>15 DEF Comparing

-----------------------------------------------------------------------------
(***************************************************************************)
(* The records, and what compare tells about them.                         *)
(***************************************************************************)

\* What goes on beside compare, one kind of step after the other: the registry
\* alone, an order that arrives, a record that is cleared, an order that leaves.
LEMMA BesideSteps ==
    ASSUME TypeOK, RecordsInv, Beside
    PROVE  /\ UNCHANGED <<kind, page, totalPages, all, status, first, compare>>
           /\ \/ /\ UNCHANGED orders
                 /\ \A p \in Payload : registry[p] # "none" => registry'[p] # "none"
                 /\ \A p \in Payload : submit'[p] # "idle" => registry'[p] # "none"
              \/ /\ \E print, owner :
                       /\ Arrives(print, owner)
                       /\ owner # None => print = owner /\ registry[owner] # "none"
                 /\ \A p \in Payload : submit'[p] # "idle" => submit[p] # "idle"
              \/ \E p \in Payload : Clear(p)
<1>1. UNCHANGED <<kind, page, totalPages, all, status, first, compare>>
    BY DEF Beside, Reserve, Accept, Arrives, MarkSubmitted, SubmitEnds, Clear,
        PlaceElsewhere, Leave, fetch, compare
<1>2. \A p \in Payload : submit[p] # "idle" => registry[p] # "none"
    BY DEF RecordsInv
<1>3. registry \in [Payload -> States]
      /\ submit \in [Payload -> {"idle", "reserved", "accepted"}]
    BY DEF TypeOK
<1>4. ASSUME NEW q \in Payload, Reserve(q) \/ MarkSubmitted(q) \/ SubmitEnds(q)
      PROVE  /\ UNCHANGED orders
             /\ \A p \in Payload : registry[p] # "none" => registry'[p] # "none"
             /\ \A p \in Payload : submit'[p] # "idle" => registry'[p] # "none"
    BY <1>2, <1>3, <1>4 DEF Reserve, MarkSubmitted, SubmitEnds, broker
<1>5. ASSUME NEW q \in Payload, Accept(q)
      PROVE  /\ \E print, owner :
                  /\ Arrives(print, owner)
                  /\ owner # None => print = owner /\ registry[owner] # "none"
             /\ \A p \in Payload : submit'[p] # "idle" => submit[p] # "idle"
    <2>1. submit[q] = "reserved" /\ submit' = [submit EXCEPT ![q] = "accepted"]
          /\ (Arrives(q, q) \/ Arrives(Odd, None))
        BY <1>5, Zenon DEF Accept
    <2>2. registry[q] # "none"
        BY <1>2, <2>1
    <2>3. \E print, owner : /\ Arrives(print, owner)
                            /\ owner # None => print = owner /\ registry[owner] # "none"
        BY <2>1, <2>2, Zenon
    <2> QED
        BY <1>3, <2>1, <2>3
<1>6. ASSUME PlaceElsewhere
      PROVE  /\ \E print, owner :
                  /\ Arrives(print, owner)
                  /\ owner # None => print = owner /\ registry[owner] # "none"
             /\ UNCHANGED submit
    BY <1>6, Zenon DEF PlaceElsewhere
<1>7. Leave => UNCHANGED <<registry, submit, orders>>
    BY DEF Leave
<1>8. CASE \E p \in Payload : Reserve(p) \/ MarkSubmitted(p) \/ SubmitEnds(p)
    BY <1>1, <1>4, <1>8
<1>9. CASE (\E p \in Payload : Accept(p)) \/ PlaceElsewhere
    BY <1>1, <1>5, <1>6, <1>9, Zenon
<1>10. CASE (\E p \in Payload : Clear(p)) \/ Leave
    BY <1>1, <1>2, <1>7, <1>10
<1> QED
    BY <1>8, <1>9, <1>10 DEF Beside

\* An order is appended, with what it is.
LEMMA Arrival ==
    ASSUME TypeOK, NEW print, NEW owner, Arrives(print, owner)
    PROVE  /\ UNCHANGED <<registry, compare>>
           /\ Len(orders) \in Nat /\ DOMAIN orders = 1..Len(orders)
           /\ DOMAIN orders' = 1..(Len(orders) + 1)
           /\ orders'[Len(orders) + 1] = [print |-> print, owner |-> owner]
           /\ \A o \in 1..Len(orders) : orders'[o] = orders[o]
<1> DEFINE new == [print |-> print, owner |-> owner]
<1>1. orders' = Append(orders, new) /\ UNCHANGED <<registry, compare>>
    BY DEF Arrives
<1>2. orders \in Seq({orders[o] : o \in DOMAIN orders} \cup {new})
    BY DEF TypeOK
<1> HIDE DEF new
<1>3. /\ Append(orders, new) \in Seq({orders[o] : o \in DOMAIN orders} \cup {new})
      /\ Len(Append(orders, new)) = Len(orders) + 1
      /\ \A i \in 1..Len(orders) : Append(orders, new)[i] = orders[i]
      /\ Append(orders, new)[Len(orders) + 1] = new
    BY <1>2, AppendProperties
<1>4. Len(orders) \in Nat /\ DOMAIN orders = 1..Len(orders)
    BY <1>2, LenProperties
<1>5. DOMAIN orders' = 1..(Len(orders) + 1)
    BY <1>1, <1>3, LenProperties
<1> QED
    BY <1>1, <1>3, <1>4, <1>5 DEF new

LEMMA OwnersAreRecords ==
    ASSUME TypeOK, NEW o \in DOMAIN orders
    PROVE  /\ o \in Nat /\ o >= 1 /\ o <= Len(orders) /\ o \in Order
           /\ orders[o].owner # None => orders[o].owner \in Payload
           /\ orders[o] \in [print : Payload \cup {Odd, Unusable}, owner : Payload \cup {None}]
<1> DEFINE Known == [print : Payload \cup {Odd, Unusable}, owner : Payload \cup {None}]
<1>1. orders \in Seq(Known) /\ Len(orders) \in Nat /\ Len(orders) <= MaxOrders
    BY DEF TypeOK
<1>2. o \in 1..Len(orders)
    BY <1>1
<1>3. orders[o] \in Known
    <2> HIDE DEF Known
    <2> QED
        BY <1>1, <1>2, ElementOfSeq
<1> QED
    BY <1>1, <1>2, <1>3, CompareAssumption DEF Order

\* Whatever goes on beside compare, an order keeps the record it came from.
LEMMA BesideKeepsRecords ==
    ASSUME TypeOK, TypeOK', RecordsInv, arrived <= Len(orders), Beside
    PROVE  RecordsInv'
<1>1. /\ arrived' = arrived /\ view' = view
    BY BesideSteps DEF compare
<1>2. /\ \A p \in Payload : submit[p] # "idle" => registry[p] # "none"
      /\ \A o \in DOMAIN orders : orders[o].owner # None =>
            /\ orders[o].print = orders[o].owner
            /\ registry[orders[o].owner] # "none"
            /\ o <= arrived => view[orders[o].owner] # "none"
    BY DEF RecordsInv
<1>3. registry \in [Payload -> States] /\ Len(orders) \in Nat /\ arrived \in Nat
      /\ submit \in [Payload -> {"idle", "reserved", "accepted"}]
    BY CompareAssumption DEF TypeOK
<1>4. CASE /\ UNCHANGED orders
           /\ \A p \in Payload : registry[p] # "none" => registry'[p] # "none"
           /\ \A p \in Payload : submit'[p] # "idle" => registry'[p] # "none"
    BY <1>1, <1>2, <1>4, OwnersAreRecords DEF RecordsInv
<1>5. ASSUME NEW print, NEW owner, Arrives(print, owner),
             owner # None => print = owner /\ registry[owner] # "none",
             \A p \in Payload : submit'[p] # "idle" => submit[p] # "idle"
      PROVE  RecordsInv'
    <2>1. /\ UNCHANGED registry
          /\ DOMAIN orders = 1..Len(orders) /\ DOMAIN orders' = 1..(Len(orders) + 1)
          /\ orders'[Len(orders) + 1] = [print |-> print, owner |-> owner]
          /\ \A o \in 1..Len(orders) : orders'[o] = orders[o]
        BY <1>5, Arrival
    <2>2. ASSUME NEW o \in DOMAIN orders', orders'[o].owner # None
          PROVE  /\ orders'[o].print = orders'[o].owner
                 /\ registry'[orders'[o].owner] # "none"
                 /\ o <= arrived => view[orders'[o].owner] # "none"
        <3>1. CASE o \in DOMAIN orders
            BY <1>2, <2>1, <2>2, <3>1
        <3>2. CASE o = Len(orders) + 1
            BY <1>3, <1>5, <2>1, <2>2, <3>2
        <3> QED
            BY <1>3, <2>1, <3>1, <3>2
    <2> QED
        BY <1>1, <1>2, <1>5, <2>1, <2>2 DEF RecordsInv
<1>6. ASSUME NEW q \in Payload, Clear(q)
      PROVE  RecordsInv'
    <2>1. /\ submit[q] = "idle" /\ submit' = submit
          /\ registry' = [registry EXCEPT ![q] = "none"]
          /\ orders' = [o \in DOMAIN orders |->
                          IF orders[o].owner = q THEN [orders[o] EXCEPT !.owner = None]
                          ELSE orders[o]]
        BY <1>6 DEF Clear
    <2>2. \A p \in Payload : submit'[p] # "idle" => registry'[p] # "none"
        BY <1>2, <1>3, <2>1
    <2>3. ASSUME NEW o \in DOMAIN orders', orders'[o].owner # None
          PROVE  /\ orders'[o].print = orders'[o].owner
                 /\ registry'[orders'[o].owner] # "none"
                 /\ o <= arrived => view[orders'[o].owner] # "none"
        <3>1. o \in DOMAIN orders
            BY <2>1
        <3>2. orders[o].owner # q
            <4>1. orders[o] \in [print : Payload \cup {Odd, Unusable},
                                 owner : Payload \cup {None}]
                BY <3>1, OwnersAreRecords
            <4>2. orders[o].owner = q => orders'[o].owner = None
                BY <2>1, <3>1, <4>1
            <4> QED
                BY <2>3, <4>2
        <3>3. orders'[o] = orders[o]
            BY <2>1, <3>1, <3>2
        <3>4. orders[o].owner \in Payload
            BY <2>3, <3>1, <3>3, OwnersAreRecords
        <3>5. registry'[orders[o].owner] = registry[orders[o].owner]
            BY <1>3, <2>1, <3>2, <3>4
        <3> QED
            BY <1>2, <2>3, <3>1, <3>3, <3>5
    <2> QED
        BY <1>1, <2>2, <2>3 DEF RecordsInv
<1> QED
    BY <1>4, <1>5, <1>6, BesideSteps, Zenon

\* What compare itself does keeps them, too: the inspection reads the registry as
\* it is, and numbers of orders start at 1.
LEMMA ComparingKeepsRecords ==
    ASSUME TypeOK, RecordsInv, Inspect \/ Deny \/ Comparing
    PROVE  RecordsInv'
<1>1. UNCHANGED <<registry, submit, orders>>
    BY DEF Inspect, Deny, Comparing, FetchPage, FetchFails, Fetched, FetchRecent, Compare, broker
<1>2. \/ UNCHANGED <<view, arrived>>
      \/ view' = registry
      \/ arrived' = 0
    BY DEF Inspect, Deny, Comparing, FetchPage, FetchFails, Fetched, FetchRecent, Compare, compare
<1>3. CASE UNCHANGED <<view, arrived>>
    BY <1>1, <1>3 DEF RecordsInv
<1>4. CASE view' = registry
    BY <1>1, <1>4 DEF RecordsInv
<1>5. CASE arrived' = 0
    <2>1. \A o \in DOMAIN orders : ~(o <= 0)
        BY OwnersAreRecords
    <2> QED
        BY <1>1, <1>5, <2>1 DEF RecordsInv
<1> QED
    BY <1>2, <1>3, <1>4, <1>5

\* What is read stays at the broker.
LEMMA BesideKeepsReads ==
    ASSUME TypeOK, TypeOK', ReadIsThere, Beside
    PROVE  ReadIsThere'
<1>1. /\ UNCHANGED <<kind, all, first, stage, arrived, liveOrders>>
      /\ Len(orders) \in Nat /\ Len(orders') \in Nat /\ Len(orders) <= Len(orders')
    BY ListChanges DEF compare
<1>2. /\ arrived \in Nat /\ \A k \in DOMAIN all : all[k] \in Nat
      /\ \A o \in liveOrders : o \in Nat
    BY CompareAssumption DEF TypeOK, Order
<1> QED
    BY <1>1, <1>2 DEF ReadIsThere

LEMMA ComparingKeepsReads ==
    ASSUME TypeOK, TypeOK', FetchInv, ReadIsThere, Inspect \/ Deny \/ Comparing
    PROVE  ReadIsThere'
<1>1. UNCHANGED orders /\ Len(orders) \in Nat
    BY DEF Inspect, Deny, Comparing, FetchPage, FetchFails, Fetched, FetchRecent, Compare,
        broker, TypeOK
<1>2. CASE Inspect
    <2>1. /\ stage' = "live" /\ arrived' = Len(orders) /\ liveOrders' = liveOrders
          /\ all' = <<>>
        BY <1>2 DEF Inspect, Fetch!Begin
    <2> QED
        BY <1>1, <2>1 DEF ReadIsThere
<1>3. CASE Deny \/ Compare
    BY <1>1, <1>3 DEF Deny, Compare, ReadIsThere, fetch
<1>4. CASE FetchPage
    <2>1. UNCHANGED <<kind, first, stage, arrived, liveOrders>>
        BY <1>4 DEF FetchPage, Fetch!FetchPage, compare
    <2>2. \A k \in DOMAIN all' : all'[k] <= Len(orders)
        <3>1. \A o \in Shown : o <= Len(orders)
            <4>1. Shown \subseteq 1..Len(orders)
                BY ListedInOrder DEF TypeOK
            <4> QED
                BY <4>1
        <3>2. \A k \in DOMAIN all' :
                 \/ k \in DOMAIN all /\ all'[k] = all[k]
                 \/ all'[k] \in Shown
            BY <1>4, PageItems
        <3> QED
            BY <3>1, <3>2 DEF ReadIsThere
    <2> QED
        BY <1>1, <2>1, <2>2 DEF ReadIsThere
<1>5. CASE FetchFails
    <2>1. stage' = "failed" /\ arrived' = 0 /\ liveOrders' = {} /\ all' = <<>>
        BY <1>5 DEF FetchFails, Fetch!FetchFails
    <2> QED
        BY <1>1, <2>1 DEF ReadIsThere
<1>6. CASE Fetched
    <2>1. UNCHANGED <<kind, first, stage, arrived, liveOrders>>
        BY <1>6 DEF Fetched, Fetch!Return, compare
    <2>2. \A k \in DOMAIN all' : k \in DOMAIN all /\ all'[k] = all[k]
        BY <1>6, ReturnKeepsFetch
    <2> QED
        BY <1>1, <2>1, <2>2 DEF ReadIsThere
<1>7. CASE FetchRecent
    <2>1. /\ stage' = "recent" /\ arrived' = arrived /\ liveOrders' = ToSet(all)
          /\ kind' = "recent" /\ all' = <<>> /\ first' = Listed'
        BY <1>7 DEF FetchRecent, Fetch!Begin
    <2>2. Len(first') = Len(orders)
        BY <1>1, <2>1, SearchListsAllNext
    <2> QED
        BY <1>1, <2>1, <2>2 DEF ReadIsThere, ToSet
<1> QED
    BY <1>2, <1>3, <1>4, <1>5, <1>6, <1>7 DEF Comparing

\* The report, when it is made: the recent orders are all among those read.
LEMMA ReportIsRight ==
    ASSUME TypeOK, FetchInv, RecordsInv, ReadIsThere, Compare
    PROVE  ReportIsTrue' /\ ReportIsComplete'
<1> DEFINE seen == Merged(all)
<1>1. /\ stage = "recent" /\ status = "done" /\ kind = "recent"
      /\ UNCHANGED <<orders, view, arrived>>
      /\ report' = {RecordEntry(p, seen) : p \in Local} \cup OrderEntries(seen)
    BY DEF Compare, Report, broker, ReadIsThere
<1>2. seen \subseteq DOMAIN orders /\ seen \in SUBSET Order
    <2>1. \A o \in seen : o \in Order /\ o <= Len(orders)
        BY DEF Merged, ReadIsThere, TypeOK, ToSet
    <2>2. DOMAIN orders = 1..Len(orders) /\ Len(orders) \in Nat
        BY DEF TypeOK
    <2>3. \A o \in Order : o \in Nat /\ o >= 1
        BY CompareAssumption DEF Order
    <2> HIDE DEF seen
    <2> QED
        BY <2>1, <2>2, <2>3
<1>3. ASSUME NEW o \in DOMAIN orders, Recent(o)
      PROVE  o \in seen
    <2>1. o \in Nat /\ o >= 1 /\ o <= arrived /\ Len(orders) - o < Limit
        BY <1>3, OwnersAreRecords DEF Recent
    <2>2. arrived <= Len(first) /\ arrived \in Nat /\ Len(first) \in Nat
        BY <1>1, CompareAssumption DEF ReadIsThere, TypeOK
    <2>3. o \in 1..Len(first)
        BY <2>1, <2>2
    <2>4. o \in ToSet(all)
        BY <1>1, <2>1, <2>3 DEF FetchInv, RecentFound
    <2> QED
        BY <2>4 DEF Merged
<1>4. Local \subseteq Payload /\ Local' = Local
    BY <1>1 DEF Local
<1> HIDE DEF seen
<1> DEFINE matches(p) == {o \in seen : orders[o].print = p}
           row(p) == RecordEntry(p, seen)
<1>5. ASSUME NEW p \in Local
      PROVE  /\ row(p) \in Entry /\ row(p).record = p /\ row(p).outcome # NoLocalState
             /\ row(p).outcome = Match => matches(p) = {row(p).order}
             /\ row(p).outcome = NoBrokerMatch => matches(p) = {}
             /\ \A o \in seen : matches(p) = {o} =>
                   row(p) = [outcome |-> Match, record |-> p, order |-> o]
             /\ matches(p) # {} /\ ~(\E o \in matches(p) : matches(p) = {o})
                => row(p).outcome = Ambiguous
    BY <1>2, <1>4, RecordRow
<1>6. ASSUME NEW e \in OrderEntries(seen)
      PROVE  /\ e.outcome \in {Ambiguous, NoLocalState}
             /\ e.order \in seen /\ orders[e.order].print \notin Local
    BY DEF OrderEntries, Owed
<1>7. \A e \in report' : e \in OrderEntries(seen) \/ \E p \in Local : e = row(p)
    BY <1>1
<1>8. OwnOrderIsRecognised'
    <2> SUFFICES ASSUME NEW e \in report', e.outcome = NoLocalState, e.order <= arrived
                 PROVE  orders[e.order].owner = None
        BY <1>1 DEF OwnOrderIsRecognised
    <2>1. e \in OrderEntries(seen)
        BY <1>5, <1>7
    <2>2. e.order \in DOMAIN orders /\ orders[e.order].print \notin Local
        BY <1>2, <1>6, <2>1
    <2>3. ASSUME orders[e.order].owner # None
          PROVE  FALSE
        <3>1. orders[e.order].owner \in Payload
            BY <2>2, <2>3, OwnersAreRecords
        <3>2. orders[e.order].print = orders[e.order].owner
              /\ view[orders[e.order].owner] # "none"
            BY <2>2, <2>3 DEF RecordsInv
        <3> QED
            BY <2>2, <3>1, <3>2 DEF Local
    <2> QED
        BY <2>3
<1>9. UncertainMeansUnseen'
    <2> SUFFICES ASSUME NEW e \in report', e.outcome = NoBrokerMatch,
                        NEW o \in DOMAIN orders, Recent(o), orders[o].print = e.record
                 PROVE  FALSE
        BY <1>1 DEF UncertainMeansUnseen, Recent
    <2>1. e \notin OrderEntries(seen)
        BY <1>6 DEF NoBrokerMatch, Ambiguous, NoLocalState
    <2>2. PICK p \in Local : e = row(p)
        BY <1>7, <2>1
    <2>3. matches(p) = {} /\ e.record = p
        BY <1>5, <2>2
    <2>4. o \in seen
        BY <1>3
    <2> QED
        BY <2>3, <2>4
<1>10. MatchIsUnique'
    <2> SUFFICES ASSUME NEW e \in report', e.outcome = Match,
                        NEW o \in DOMAIN orders, Recent(o), orders[o].print = e.record
                 PROVE  o = e.order
        BY <1>1 DEF MatchIsUnique, Recent
    <2>1. e \notin OrderEntries(seen)
        BY <1>6 DEF Match, Ambiguous, NoLocalState
    <2>2. PICK p \in Local : e = row(p)
        BY <1>7, <2>1
    <2>3. matches(p) = {e.order} /\ e.record = p
        BY <1>5, <2>2
    <2>4. o \in seen
        BY <1>3
    <2>5. o \in matches(p)
        BY <2>3, <2>4
    <2> QED
        BY <2>3, <2>5
<1>11. SingleOrderMatches'
    <2> SUFFICES ASSUME NEW p \in Local, NEW o \in DOMAIN orders, Recent(o),
                        {x \in DOMAIN orders : orders[x].print = p} = {o}
                 PROVE  [outcome |-> Match, record |-> p, order |-> o] \in report'
        BY <1>1, <1>4 DEF SingleOrderMatches, Recent
    <2>1. o \in seen
        BY <1>3
    <2>2. matches(p) = {o}
        BY <1>2, <2>1
    <2>3. row(p) = [outcome |-> Match, record |-> p, order |-> o]
        BY <1>5, <2>1, <2>2
    <2>4. row(p) \in report'
        BY <1>1
    <2> QED
        BY <2>3, <2>4
<1>12. NoOrderUnmentioned'
    <2> SUFFICES ASSUME NEW o \in DOMAIN orders, Recent(o)
                 PROVE  \E e \in report' :
                           \/ e.order = o
                           \/ /\ e.outcome = Ambiguous /\ e.record = orders[o].print
                              /\ \E x \in DOMAIN orders \ {o} : orders[x].print = e.record
        BY <1>1 DEF NoOrderUnmentioned, Recent
    <2>1. o \in seen
        BY <1>3
    <2>2. CASE orders[o].print \notin Local
        <3> DEFINE e == [outcome |-> IF orders[o].print = Unusable THEN Ambiguous
                                     ELSE NoLocalState,
                         record |-> None, order |-> o]
        <3>1. e \in OrderEntries(seen)
            BY <2>1, <2>2 DEF OrderEntries, Owed
        <3>2. e \in report' /\ e.order = o
            BY <1>1, <3>1
        <3> QED
            BY <3>2
    <2>3. CASE orders[o].print \in Local
        <3> DEFINE p == orders[o].print
        <3>1. o \in matches(p) /\ row(p) \in report' /\ row(p).record = p
            BY <1>1, <1>5, <2>1, <2>3
        <3>2. CASE matches(p) = {o}
            <4>1. row(p) = [outcome |-> Match, record |-> p, order |-> o]
                BY <1>5, <2>1, <2>3, <3>2
            <4>2. row(p).order = o
                BY <4>1
            <4> QED
                BY <3>1, <4>2
        <3>3. CASE matches(p) # {o}
            <4>1. \E x \in matches(p) : x # o
                BY <3>1, <3>3
            <4>2. ~(\E x \in matches(p) : matches(p) = {x})
                BY <3>1, <3>3
            <4>3. row(p).outcome = Ambiguous
                BY <1>5, <2>3, <3>1, <4>2
            <4>4. \E x \in DOMAIN orders \ {o} : orders[x].print = p
                BY <1>2, <4>1
            <4> QED
                BY <3>1, <4>3, <4>4
        <3> QED
            BY <3>2, <3>3
    <2> QED
        BY <2>2, <2>3
<1> QED
    BY <1>8, <1>9, <1>10, <1>11, <1>12 DEF ReportIsTrue, ReportIsComplete

-----------------------------------------------------------------------------
(***************************************************************************)
(* The theorems.                                                           *)
(***************************************************************************)

\* A started compare is as the invariant says; nothing is read yet.
LEMMA InitInv == Init => IInv
<1> SUFFICES ASSUME Init PROVE IInv
    OBVIOUS
<1>1. TypeOK
    BY InitTypes
<1>2. /\ orders = <<>> /\ Len(orders) = 0 /\ DOMAIN orders = {} /\ kind = "all"
      /\ status = "idle" /\ all = <<>> /\ first = <<>> /\ stage = "idle"
      /\ arrived = 0 /\ liveOrders = {} /\ report = {}
      /\ \A p \in Payload : submit[p] = "idle"
    BY DEF Init
<1>3. gone = FALSE
    BY Zenon DEF Init
<1>4. FetchInv
    BY <1>2, <1>3, NoFetch
<1>5. RecordsInv
    BY <1>2 DEF RecordsInv
<1>6. CompareInv
    BY <1>2 DEF CompareInv, ReadIsThere, ReportIsTrue, ReportIsComplete, OwnOrderIsRecognised,
        UncertainMeansUnseen, MatchIsUnique, SingleOrderMatches, NoOrderUnmentioned
<1> QED
    BY <1>1, <1>4, <1>5, <1>6 DEF IInv

\* No report is printed but by compare's last step.
LEMMA NoReportYet ==
    ASSUME report' = report, stage' = stage \/ stage' \in {"live", "recent", "denied", "failed"},
           CompareInv, Going
    PROVE  (stage # "done" => report = {})' /\ ReportIsTrue' /\ ReportIsComplete'
<1>1. report' = {} /\ stage' # "done"
    BY DEF CompareInv, Going
<1> QED
    BY <1>1 DEF ReportIsTrue, ReportIsComplete, OwnOrderIsRecognised, UncertainMeansUnseen,
        MatchIsUnique, SingleOrderMatches, NoOrderUnmentioned

LEMMA NextTypes ==
    ASSUME TypeOK, [Next]_vars
    PROVE  TypeOK'
<1>1. CASE Next
    BY <1>1, BesideTypes, CompareTypes DEF Next
<1>2. CASE UNCHANGED vars
    BY <1>2, Zenon DEF TypeOK, vars, broker, fetch, compare
<1> QED
    BY <1>1, <1>2

LEMMA NextInv ==
    ASSUME IInv, [Next]_vars
    PROVE  IInv'
<1>1. /\ TypeOK /\ FetchInv /\ RecordsInv /\ CompareInv /\ ReadIsThere
      /\ TypeOK'
    BY NextTypes DEF IInv, CompareInv
<1>2. CASE Going /\ Beside
    <2>1. FetchInv' /\ ReadIsThere'
        BY <1>1, <1>2, ChangesKeepFetch, BesideKeepsReads
    <2>2. RecordsInv'
        BY <1>1, <1>2, BesideKeepsRecords DEF ReadIsThere
    <2>3. report' = report /\ stage' = stage
        BY <1>1, <1>2, BesideSteps DEF compare
    <2>4. CompareInv'
        BY <1>1, <1>2, <2>1, <2>3, NoReportYet DEF CompareInv
    <2> QED
        BY <1>1, <2>1, <2>2, <2>4 DEF IInv
<1>3. CASE Going /\ (Inspect \/ Deny \/ Comparing)
    <2>1. RecordsInv' /\ ReadIsThere'
        BY <1>1, <1>3, ComparingKeepsRecords, ComparingKeepsReads
    <2>2. FetchInv'
        <3>1. CASE Inspect
            BY <1>1, <3>1, BeginFetch DEF Inspect
        <3>2. CASE FetchRecent
            BY <1>1, <3>2, BeginFetch DEF FetchRecent
        <3>3. CASE Deny \/ Compare
            BY <1>1, <3>3, QuietKeepsFetch DEF Deny, Compare, broker
        <3>4. CASE FetchPage
            BY <1>1, <3>4, PageKeepsFetch
        <3>5. CASE Fetched
            BY <1>1, <3>5, ReturnKeepsFetch
        <3>6. CASE FetchFails
            <4>1. /\ status' = "failed" /\ all' = <<>> /\ first' = <<>>
                  /\ gone' = FALSE /\ kind' = kind
                BY <3>6 DEF FetchFails, Fetch!FetchFails
            <4>2. kind' \in {"all", "recent"} /\ Len(orders') \in Nat
                BY <1>1 DEF TypeOK
            <4> QED
                BY <4>1, <4>2, NoFetchNext
        <3> QED
            BY <1>3, <3>1, <3>2, <3>3, <3>4, <3>5, <3>6 DEF Comparing
    <2>3. CASE Compare
        <3>1. stage' = "done" /\ ReportIsTrue' /\ ReportIsComplete'
            BY <1>1, <2>3, ReportIsRight DEF Compare
        <3>2. CompareInv'
            BY <2>1, <3>1 DEF CompareInv
        <3> QED
            BY <1>1, <2>1, <2>2, <3>2 DEF IInv
    <2>4. CASE ~Compare
        <3>1. /\ report' = report
              /\ stage' = stage \/ stage' \in {"live", "recent", "denied", "failed"}
            BY <1>3, <2>4 DEF Inspect, Deny, Comparing, FetchPage, FetchFails, Fetched,
                FetchRecent, compare
        <3>2. CompareInv'
            BY <1>1, <1>3, <2>1, <3>1, NoReportYet DEF CompareInv
        <3> QED
            BY <1>1, <2>1, <2>2, <3>2 DEF IInv
    <2> QED
        BY <2>3, <2>4
<1>4. CASE UNCHANGED vars
    <2>1. UNCHANGED <<registry, submit, orders, live, kind, page, totalPages, all, status,
                      first, gone, came, stage, view, arrived, liveOrders, report>>
        BY <1>4 DEF vars, broker, fetch, compare
    <2>2. FetchInv'
        BY <1>1, <1>4, QuietKeepsFetch DEF vars, broker
    <2>3. RecordsInv'
        BY <1>1, <2>1 DEF RecordsInv
    <2>4. ReadIsThere' /\ (stage # "done" => report = {})'
        BY <1>1, <2>1 DEF ReadIsThere, CompareInv
    <2>5. ReportIsTrue' /\ ReportIsComplete'
        BY <1>1, <2>1 DEF CompareInv, ReportIsTrue, ReportIsComplete, OwnOrderIsRecognised,
            UncertainMeansUnseen, MatchIsUnique, SingleOrderMatches, NoOrderUnmentioned,
            Recent, Local
    <2>6. CompareInv'
        BY <2>4, <2>5 DEF CompareInv
    <2> QED
        BY <1>1, <2>2, <2>3, <2>6 DEF IInv
<1> QED
    BY <1>2, <1>3, <1>4 DEF Next

\* Type correctness, for any number of payloads, orders and pages.
THEOREM TypeCorrect == Spec => []TypeOK
<1>1. TypeOK /\ [Next]_vars => TypeOK'
    BY NextTypes
<1> QED
    BY <1>1, InitTypes, PTL DEF Spec

THEOREM Invariance == Spec => []IInv
<1>1. IInv /\ [Next]_vars => IInv'
    BY NextInv
<1> QED
    BY <1>1, InitInv, PTL DEF Spec

\* What the fetches of Orders and RecentOrders return, however long the lists
\* are next to a page and to the limit, and however often they change meanwhile
\* (tastytrade.go:72, 115, 162).
THEOREM FetchSound == Spec => []FetchIsSound
<1>1. IInv => FetchIsSound
    BY DEF IInv, FetchInv
<1> QED
    BY <1>1, Invariance, PTL

\* No row of a report claims what is not so (submit_state_compare.go:201, 211,
\* 241), whatever is submitted, placed, filled or cleared while it is made.
THEOREM ReportTrue == Spec => []ReportIsTrue
<1>1. IInv => ReportIsTrue
    BY DEF IInv, CompareInv
<1> QED
    BY <1>1, Invariance, PTL

\* No record and no recent order misses the row it is due
\* (submit_state_compare.go:201, 230).
THEOREM ReportComplete == Spec => []ReportIsComplete
<1>1. IInv => ReportIsComplete
    BY DEF IInv, CompareInv
<1> QED
    BY <1>1, Invariance, PTL
=============================================================================
