------------------------- MODULE MarketStreamProofs -------------------------
(***************************************************************************)
(* Proofs about MarketStream, for every set of symbols, size of the two    *)
(* channels, timeout and number of connections and quotes.                 *)
(***************************************************************************)
EXTENDS MarketStream, SequenceTheorems, TLAPS

\* The stages in which a connection's goroutines run.
Alive == {"receiving", "cancelled", "closing", "draining"}

\* Every call of runOnce but the one under way has ended as a failure.
AttemptsCounted ==
    failures = IF stage \in {"idle", "backoff"} THEN conn ELSE conn - 1

\* What waits in the dispatch channel came on this connection, and nothing
\* waits there when there is none: runOnce returns after the channel is empty.
ChannelIsOfConnection ==
    /\ \A i \in 1..Len(dispatchCh) : dispatchCh[i].conn = conn
    /\ stage \notin Alive => Len(dispatchCh) = 0

\* The quote clock of a connection was started by a quote of its own.
ClockIsOfConnection == stage \in Alive /\ seen => heard = conn

\* From the snapshot on, the connection's symbols include those known before.
SnapshotIsComplete == stage \in Alive \cup {"subscribing"} => known \subseteq syms

\* The parts need each other: the clock is right because the channel is, the
\* channel because the attempts are numbered, and the counts stay in their
\* ranges because no quote is counted twice.
IInv ==
    /\ TypeOK
    /\ NoQuoteLostSilently
    /\ AttemptsCounted
    /\ ChannelIsOfConnection
    /\ ClockIsOfConnection
    /\ SnapshotIsComplete

-----------------------------------------------------------------------------

\* The invariant holds when Start is called.
LEMMA InitIInv == Init => IInv
<1> SUFFICES ASSUME Init PROVE IInv
  OBVIOUS
<1> USE DEF Init
<1>1. TypeOK
  <2>1. dispatchCh \in Seq(Quote) /\ bus \in Seq(Quote)
    OBVIOUS
  <2>2. Len(dispatchCh) <= DispatchSize /\ Len(bus) <= BusSize
    BY MarketAssumption
  <2>3. quotes \in [Symbol -> 0..MaxQuotes]
    BY MarketAssumption
  <2>4. connected \in BOOLEAN /\ seen \in BOOLEAN
    OBVIOUS
  <2> QED
    BY <2>1, <2>2, <2>3, <2>4, MarketAssumption DEF TypeOK, Stage
<1>2. NoQuoteLostSilently
  BY DEF NoQuoteLostSilently
<1>3. AttemptsCounted /\ ChannelIsOfConnection /\ ClockIsOfConnection
  BY DEF AttemptsCounted, ChannelIsOfConnection, ClockIsOfConnection, Alive
<1>4. SnapshotIsComplete
  BY DEF SnapshotIsComplete, Alive
<1> QED
  BY <1>1, <1>2, <1>3, <1>4 DEF IInv

\* A quote that arrives is queued or counted as dropped.
LEMMA ReceiveKeeps ==
    ASSUME IInv, NEW s \in Symbol, Receive(s)
    PROVE  IInv'
<1> DEFINE quote == Arriving(s)
<1> USE MarketAssumption DEF Receive, Arrives, status
<1>1. conn \in 1..MaxConnects
  BY DEF IInv, AttemptsCounted, TypeOK
<1>2. quote \in Quote /\ quote.conn = conn
  BY <1>1 DEF Arriving, Quote, IInv, TypeOK
<1>3. /\ dispatchCh \in Seq(Quote)
      /\ dropCount \in Nat
      /\ \A i \in 1..Len(dispatchCh) : dispatchCh[i].conn = conn
  BY DEF IInv, TypeOK, ChannelIsOfConnection
<1>4. CASE Len(dispatchCh) < DispatchSize
  <2>1. dispatchCh' = Append(dispatchCh, quote) /\ dropCount' = dropCount
    BY <1>4
  <2>2. /\ dispatchCh' \in Seq(Quote)
        /\ Len(dispatchCh) \in Nat
        /\ Len(dispatchCh') = Len(dispatchCh) + 1
        /\ \A i \in 1..Len(dispatchCh) : dispatchCh'[i] = dispatchCh[i]
        /\ dispatchCh'[Len(dispatchCh) + 1] = quote
    BY <1>2, <1>3, <2>1, AppendProperties, LenProperties
  <2>3. TypeOK'
    BY <1>4, <2>1, <2>2 DEF IInv, TypeOK
  <2>4. NoQuoteLostSilently'
    BY <2>1, <2>2 DEF IInv, TypeOK, NoQuoteLostSilently
  <2>5. \A i \in 1..Len(dispatchCh') : dispatchCh'[i].conn = conn'
    BY <1>2, <1>3, <2>2
  <2> QED
    BY <2>3, <2>4, <2>5 DEF IInv, AttemptsCounted, ChannelIsOfConnection,
        ClockIsOfConnection, SnapshotIsComplete, Alive
<1>5. CASE ~(Len(dispatchCh) < DispatchSize)
  <2>1. dispatchCh' = dispatchCh /\ dropCount' = dropCount + 1
    BY <1>5
  <2>2. TypeOK'
    BY <2>1 DEF IInv, TypeOK
  <2>3. NoQuoteLostSilently'
    <3>1. /\ received \in Nat /\ applied \in Nat /\ busDrops \in Nat
          /\ Len(dispatchCh) \in Nat /\ Len(bus) \in Nat
      BY <1>3 DEF IInv, TypeOK
    <3> QED
      BY <2>1, <3>1, <1>3 DEF IInv, NoQuoteLostSilently
  <2> QED
    BY <2>1, <2>2, <2>3 DEF IInv, AttemptsCounted, ChannelIsOfConnection,
        ClockIsOfConnection, SnapshotIsComplete, Alive
<1> QED
  BY <1>4, <1>5

\* A quote that is dispatched moves to the bus or is counted as dropped there,
\* and the clock it starts is that of its own connection.
LEMMA DispatchKeeps ==
    ASSUME IInv, Dispatch
    PROVE  IInv'
<1> DEFINE quote == Head(dispatchCh)
<1> USE MarketAssumption DEF Dispatch, Publish
<1>1. /\ quote \in Quote
      /\ quote = dispatchCh[1]
      /\ dispatchCh' \in Seq(Quote)
      /\ Len(dispatchCh) \in Nat \ {0}
      /\ Len(dispatchCh') = Len(dispatchCh) - 1
      /\ \A i \in 1..Len(dispatchCh') : dispatchCh'[i] = dispatchCh[i + 1]
  BY HeadTailProperties, EmptySeq DEF IInv, TypeOK
<1>2. stage \in Alive /\ quote.conn = conn
  BY <1>1 DEF IInv, ChannelIsOfConnection
<1>3. \A i \in 1..Len(dispatchCh') : dispatchCh'[i].conn = conn'
  BY <1>1 DEF IInv, ChannelIsOfConnection
<1>4. /\ bus' \in Seq(Quote) /\ Len(bus') <= BusSize
      /\ busDrops' \in Nat
      /\ Len(bus') + busDrops' = Len(bus) + busDrops + 1
      /\ Len(bus) \in Nat /\ Len(bus') \in Nat
  <2>1. bus \in Seq(Quote) /\ Len(bus) <= BusSize /\ busDrops \in Nat
    BY DEF IInv, TypeOK
  <2>2. CASE Len(bus) < BusSize
    <3>1. bus' = Append(bus, quote) /\ busDrops' = busDrops
      BY <2>2
    <3>2. bus' \in Seq(Quote) /\ Len(bus) \in Nat /\ Len(bus') = Len(bus) + 1
      BY <1>1, <2>1, <3>1, AppendProperties, LenProperties
    <3> QED
      BY <2>1, <2>2, <3>1, <3>2
  <2>3. CASE ~(Len(bus) < BusSize)
    BY <2>1, <2>3
  <2> QED
    BY <2>2, <2>3
<1>5. TypeOK'
  <2>1. /\ heard' \in 0..MaxConnects
        /\ seen' \in BOOLEAN
        /\ age' \in 0..StaleAfter
    BY <1>1 DEF Quote
  <2>2. Len(dispatchCh') <= DispatchSize
    BY <1>1 DEF IInv, TypeOK
  <2>3. UNCHANGED <<stage, symbols, syms, connected, failures, dropCount, quotes,
                    conn, known, received, applied>>
    OBVIOUS
  <2> HIDE DEF Dispatch, Publish
  <2> QED
    BY <1>1, <1>4, <2>1, <2>2, <2>3 DEF IInv, TypeOK
<1>6. NoQuoteLostSilently'
  <2>1. /\ received \in Nat /\ applied \in Nat /\ dropCount \in Nat
        /\ busDrops \in Nat
    BY DEF IInv, TypeOK
  <2>2. UNCHANGED <<received, applied, dropCount>>
    OBVIOUS
  <2>3. received = applied + Len(dispatchCh) + Len(bus) + dropCount + busDrops
    BY DEF IInv, NoQuoteLostSilently
  <2> HIDE DEF Dispatch, Publish
  <2>4. Len(dispatchCh') = Len(dispatchCh) - 1 /\ Len(dispatchCh) \in Nat
    BY <1>1
  <2> QED
    BY <1>4, <2>1, <2>2, <2>3, <2>4 DEF NoQuoteLostSilently
<1>7. ChannelIsOfConnection' /\ ClockIsOfConnection'
  BY <1>2, <1>3 DEF ChannelIsOfConnection, ClockIsOfConnection
<1> QED
  BY <1>5, <1>6, <1>7 DEF IInv, AttemptsCounted, SnapshotIsComplete

\* A quote that is applied leaves the bus for the book.
LEMMA ApplyKeeps ==
    ASSUME IInv, Apply
    PROVE  IInv'
<1> USE DEF Apply, status
<1>1. /\ Head(bus) \in Quote
      /\ bus' \in Seq(Quote)
      /\ Len(bus) \in Nat \ {0}
      /\ Len(bus') = Len(bus) - 1
  BY HeadTailProperties, EmptySeq DEF IInv, TypeOK
<1>2. /\ Len(dispatchCh) \in Nat
      /\ received \in 0..MaxQuotes
      /\ applied \in Nat /\ dropCount \in Nat /\ busDrops \in Nat
      /\ MaxQuotes \in Nat
  BY MarketAssumption DEF IInv, TypeOK
<1>3. NoQuoteLostSilently'
  BY <1>1, <1>2 DEF IInv, NoQuoteLostSilently
<1>4. applied' \in 0..MaxQuotes
  BY <1>1, <1>2, <1>3 DEF NoQuoteLostSilently
<1>5. quotes' \in [Symbol -> 0..MaxQuotes]
  BY <1>1, <1>2 DEF IInv, TypeOK, Quote
<1>6. TypeOK'
  <2>1. Len(bus') <= BusSize
    BY <1>1, MarketAssumption DEF IInv, TypeOK
  <2> QED
    BY <1>1, <1>4, <1>5, <2>1 DEF IInv, TypeOK
<1> QED
  BY <1>3, <1>6 DEF IInv, AttemptsCounted, ChannelIsOfConnection,
      ClockIsOfConnection, SnapshotIsComplete

\* The steps of the reconnect loop and of the watchdog move no quote.
LEMMA LoopKeeps ==
    ASSUME IInv,
           \/ Connect \/ ConnectFails \/ Snapshot \/ SetConnected
           \/ Watchdog \/ ReadFails \/ CloseDispatch \/ Drained \/ Disconnected
    PROVE  IInv'
<1> USE MarketAssumption DEF pipeline, status, history
<1>1. UNCHANGED <<dispatchCh, bus, dropCount, busDrops, quotes, received, applied>>
  BY DEF Connect, ConnectFails, Snapshot, SetConnected, Watchdog, ReadFails,
      CloseDispatch, Drained, Disconnected
<1>2. NoQuoteLostSilently'
  BY <1>1 DEF IInv, NoQuoteLostSilently
<1>3. conn' \in 0..MaxConnects /\ failures' \in 0..MaxConnects /\ AttemptsCounted'
  <2>1. /\ stage \in Stage
        /\ conn \in 0..MaxConnects /\ failures \in 0..MaxConnects
        /\ failures = IF stage \in {"idle", "backoff"} THEN conn ELSE conn - 1
    BY DEF IInv, TypeOK, AttemptsCounted
  <2>2. CASE Connect
    BY <2>1, <2>2 DEF Connect, AttemptsCounted
  <2>3. CASE Disconnected
    BY <2>1, <2>3 DEF Disconnected, AttemptsCounted
  <2>4. CASE ~Connect /\ ~Disconnected
    <3>1. /\ UNCHANGED <<conn, failures>>
          /\ stage \notin {"idle", "backoff"} /\ stage' \notin {"idle", "backoff"}
      BY <2>4 DEF ConnectFails, Snapshot, SetConnected, Watchdog, ReadFails,
          CloseDispatch, Drained
    <3> QED
      BY <2>1, <3>1 DEF AttemptsCounted
  <2> QED
    BY <2>2, <2>3, <2>4
<1>4. TypeOK'
  <2>1. /\ stage' \in Stage
        /\ symbols' \subseteq Symbol /\ syms' \subseteq symbols'
        /\ known' \subseteq symbols'
    BY DEF IInv, TypeOK, Stage, Connect, ConnectFails, Snapshot, SetConnected,
        Watchdog, ReadFails, CloseDispatch, Drained, Disconnected
  <2>2. connected' \in BOOLEAN /\ seen' \in BOOLEAN
    BY DEF IInv, TypeOK, Connect, ConnectFails, Snapshot, SetConnected,
        Watchdog, ReadFails, CloseDispatch, Drained, Disconnected
  <2>3. age' \in {age, 0} /\ heard' = heard
    BY DEF Connect, ConnectFails, Snapshot, SetConnected, Watchdog, ReadFails,
        CloseDispatch, Drained, Disconnected
  <2>4. age' \in 0..StaleAfter /\ heard' \in 0..MaxConnects
    BY <2>3 DEF IInv, TypeOK
  <2> QED
    BY <1>1, <1>3, <2>1, <2>2, <2>4 DEF IInv, TypeOK
<1>5. ChannelIsOfConnection'
  <2>1. CASE Connect
    <3>1. stage \notin Alive
      BY <2>1 DEF Connect, Alive
    <3>2. Len(dispatchCh') = 0
      BY <1>1, <3>1 DEF IInv, ChannelIsOfConnection
    <3> QED
      BY <3>2 DEF ChannelIsOfConnection
  <2>2. CASE Drained
    BY <1>1, <2>2 DEF Drained, IInv, ChannelIsOfConnection
  <2>3. CASE ~Connect /\ ~Drained
    <3>1. conn' = conn /\ (stage' \notin Alive => stage \notin Alive)
      BY <2>3 DEF Alive, ConnectFails, Snapshot, SetConnected, Watchdog, ReadFails,
          CloseDispatch, Disconnected
    <3> QED
      BY <1>1, <3>1 DEF IInv, ChannelIsOfConnection
  <2> QED
    BY <2>1, <2>2, <2>3
<1>6. ClockIsOfConnection'
  <2>1. CASE SetConnected
    BY <2>1 DEF SetConnected, ClockIsOfConnection
  <2>2. CASE ~SetConnected
    <3>1. stage' \in Alive => stage \in Alive /\ UNCHANGED <<seen, heard, conn>>
      BY <2>2 DEF Alive, Connect, ConnectFails, Snapshot, Watchdog, ReadFails,
          CloseDispatch, Drained, Disconnected
    <3> QED
      BY <3>1 DEF IInv, ClockIsOfConnection
  <2> QED
    BY <2>1, <2>2
<1>7. SnapshotIsComplete'
  <2>1. CASE Snapshot
    BY <2>1 DEF Snapshot, IInv, TypeOK, SnapshotIsComplete
  <2>2. CASE ~Snapshot
    <3>1. stage' \in Alive \cup {"subscribing"} =>
              stage \in Alive \cup {"subscribing"} /\ UNCHANGED <<known, syms>>
      BY <2>2 DEF Alive, Connect, ConnectFails, SetConnected, Watchdog, ReadFails,
          CloseDispatch, Drained, Disconnected
    <3> QED
      BY <3>1 DEF IInv, SnapshotIsComplete
  <2> QED
    BY <2>1, <2>2
<1> QED
  BY <1>2, <1>3, <1>4, <1>5, <1>6, <1>7 DEF IInv

\* Time, and the symbols that positionConsumer adds, disturb the types only.
LEMMA OthersKeep ==
    ASSUME IInv,
           Tick \/ (\E s \in Symbol : Subscribe(s)) \/ UNCHANGED vars
    PROVE  IInv'
<1> USE MarketAssumption DEF pipeline, status, history, vars
<1>1. UNCHANGED <<stage, seen, syms, failures, dispatchCh, bus, dropCount, busDrops,
                  quotes, connected, conn, known, received, applied, heard>>
  BY DEF Tick, Subscribe
<1>2. age' \in 0..StaleAfter
  <2>1. age' = age \/ (age < StaleAfter /\ age' = age + 1)
    BY DEF Tick, Subscribe
  <2> QED
    BY <2>1 DEF IInv, TypeOK
<1>3. symbols \subseteq symbols' /\ symbols' \subseteq Symbol
  BY DEF Tick, Subscribe, IInv, TypeOK
<1>4. TypeOK'
  BY <1>1, <1>2, <1>3 DEF IInv, TypeOK
<1> QED
  BY <1>1, <1>4 DEF IInv, NoQuoteLostSilently, AttemptsCounted,
      ChannelIsOfConnection, ClockIsOfConnection, SnapshotIsComplete

\* The invariant is inductive.
LEMMA NextIInv == IInv /\ [Next]_vars => IInv'
  BY ReceiveKeeps, DispatchKeeps, ApplyKeeps, LoopKeeps, OthersKeep DEF Next

-----------------------------------------------------------------------------

\* The inductive invariant holds in every reachable state.
THEOREM Invariance == Spec => []IInv
<1>1. Init => IInv
  BY InitIInv
<1>2. IInv /\ [Next]_vars => IInv'
  BY NextIInv
<1> QED
  BY <1>1, <1>2, PTL DEF Spec

\* The streamer's variables keep their types, and neither channel holds more
\* than its capacity.
THEOREM TypeCorrect == Spec => []TypeOK
<1>1. IInv => TypeOK
  BY DEF IInv
<1> QED
  BY <1>1, Invariance, PTL

\* Every quote that arrived is in the book, in a channel or counted as dropped,
\* for any sizes of the channels and any sequence of disconnections.
THEOREM QuotesAccounted == Spec => []NoQuoteLostSilently
<1>1. IInv => NoQuoteLostSilently
  BY DEF IInv
<1> QED
  BY <1>1, Invariance, PTL

\* A connection subscribes every symbol known when its attempt began.
THEOREM SymbolsSubscribed == Spec => []NoSymbolForgotten
<1>1. IInv => NoSymbolForgotten
  BY DEF IInv, SnapshotIsComplete, NoSymbolForgotten, Alive
<1> QED
  BY <1>1, Invariance, PTL

\* The watchdog spares every connection that has not delivered a quote yet.
THEOREM WatchdogIsFair == Spec => FreshConnectionIsSpared
<1>1. IInv => [Watchdog => heard = conn]_vars
  BY DEF IInv, ClockIsOfConnection, Watchdog, IsStale, Alive
<1> QED
  BY <1>1, Invariance, PTL DEF Spec, FreshConnectionIsSpared

-----------------------------------------------------------------------------
(***************************************************************************)
(* The order of the quotes, from the feed to the book.                     *)
(***************************************************************************)

\* The numbers of a queue rise from its head on.
Ascends(queue) ==
    \A i, j \in 1..Len(queue) : i < j => queue[i].number < queue[j].number

\* Nothing in a queue arrived before what the book holds, or has yet to arrive.
WithinBounds(queue) ==
    \A i \in 1..Len(queue) :
        /\ queue[i].number <= received
        /\ \A s \in Symbol : quotes[s] < queue[i].number

\* The book, the bus and the dispatch channel hold quotes that arrived later and
\* later: what the dispatcher publishes is younger than all that is on the bus.
Ordered ==
    /\ \A s \in Symbol : quotes[s] <= received
    /\ Ascends(dispatchCh) /\ WithinBounds(dispatchCh)
    /\ Ascends(bus) /\ WithinBounds(bus)
    /\ \A i \in 1..Len(bus), j \in 1..Len(dispatchCh) :
           bus[i].number < dispatchCh[j].number

\* The channels are empty when Start is called.
LEMMA InitOrdered == Init => Ordered
  BY DEF Init, Ordered, Ascends, WithinBounds

\* A quote that arrives is younger than everything that waits.
LEMMA ReceiveOrders ==
    ASSUME IInv, Ordered, NEW s \in Symbol, Receive(s)
    PROVE  Ordered'
<1> DEFINE quote == Arriving(s)
<1>1. /\ received \in Nat /\ received' = received + 1
      /\ UNCHANGED <<bus, quotes>>
  BY MarketAssumption DEF IInv, TypeOK, Receive, Arrives
<1>2. /\ dispatchCh \in Seq(Quote) /\ Len(dispatchCh) \in Nat
      /\ bus \in Seq(Quote) /\ Len(bus) \in Nat
      /\ quotes \in [Symbol -> Nat]
  BY DEF IInv, TypeOK
<1>3. /\ \A i \in 1..Len(dispatchCh) : dispatchCh[i].number \in Nat
      /\ \A i \in 1..Len(bus) : bus[i].number \in Nat
  <2>1. \A q \in Quote : q.number \in Nat
    BY MarketAssumption DEF Quote
  <2>2. /\ \A i \in 1..Len(dispatchCh) : dispatchCh[i] \in Quote
        /\ \A i \in 1..Len(bus) : bus[i] \in Quote
    BY <1>2
  <2> QED
    BY <2>1, <2>2
<1>4. /\ \A r \in Symbol : quotes'[r] <= received'
      /\ Ascends(bus)' /\ WithinBounds(bus)'
  BY <1>1, <1>2, <1>3 DEF Ordered, Ascends, WithinBounds
<1>5. CASE Len(dispatchCh) < DispatchSize
  <2>1. dispatchCh' = Append(dispatchCh, quote)
    BY <1>5 DEF Receive
  <2>2. quote \in Quote /\ quote.number = received + 1
    BY MarketAssumption DEF Arriving, Quote, IInv, TypeOK, AttemptsCounted,
        Receive, Arrives
  <2>3. /\ Len(dispatchCh') = Len(dispatchCh) + 1
        /\ \A i \in 1..Len(dispatchCh) : dispatchCh'[i] = dispatchCh[i]
        /\ dispatchCh'[Len(dispatchCh) + 1] = quote
    BY <1>2, <2>1, <2>2, AppendProperties, LenProperties
  <2>4. \A i \in 1..Len(dispatchCh') :
            \/ i \in 1..Len(dispatchCh) /\ dispatchCh'[i] = dispatchCh[i]
            \/ i = Len(dispatchCh) + 1 /\ dispatchCh'[i].number = received + 1
    BY <1>2, <2>2, <2>3
  <2>5. Ascends(dispatchCh)'
    <3> SUFFICES ASSUME NEW i \in 1..Len(dispatchCh'), NEW j \in 1..Len(dispatchCh'),
                        i < j
                 PROVE  dispatchCh'[i].number < dispatchCh'[j].number
      BY DEF Ascends
    <3>1. i \in 1..Len(dispatchCh) /\ dispatchCh'[i] = dispatchCh[i]
      BY <1>2, <2>3, <2>4
    <3>2. CASE j \in 1..Len(dispatchCh)
      BY <2>3, <3>1, <3>2 DEF Ordered, Ascends
    <3>3. CASE j = Len(dispatchCh) + 1
      BY <1>1, <1>3, <2>2, <2>3, <3>1, <3>3 DEF Ordered, WithinBounds
    <3> QED
      BY <2>4, <3>2, <3>3
  <2>6. WithinBounds(dispatchCh)'
    <3> SUFFICES ASSUME NEW i \in 1..Len(dispatchCh')
                 PROVE  /\ dispatchCh'[i].number <= received'
                        /\ \A r \in Symbol : quotes'[r] < dispatchCh'[i].number
      BY DEF WithinBounds
    <3>1. CASE i \in 1..Len(dispatchCh)
      BY <1>1, <1>3, <2>3, <3>1 DEF Ordered, WithinBounds
    <3>2. CASE dispatchCh'[i].number = received + 1
      BY <1>1, <1>2, <3>2 DEF Ordered
    <3> QED
      BY <2>4, <3>1, <3>2
  <2>7. \A i \in 1..Len(bus'), j \in 1..Len(dispatchCh') :
            bus'[i].number < dispatchCh'[j].number
    <3> SUFFICES ASSUME NEW i \in 1..Len(bus), NEW j \in 1..Len(dispatchCh')
                 PROVE  bus[i].number < dispatchCh'[j].number
      BY <1>1
    <3>1. CASE j \in 1..Len(dispatchCh)
      BY <2>3, <3>1 DEF Ordered
    <3>2. CASE dispatchCh'[j].number = received + 1
      BY <1>1, <1>3, <3>2 DEF Ordered, WithinBounds
    <3> QED
      BY <2>4, <3>1, <3>2
  <2> QED
    BY <1>4, <2>5, <2>6, <2>7 DEF Ordered
<1>6. CASE ~(Len(dispatchCh) < DispatchSize)
  <2>1. dispatchCh' = dispatchCh
    BY <1>6 DEF Receive
  <2> QED
    BY <1>1, <1>3, <1>4, <2>1 DEF Ordered, Ascends, WithinBounds
<1> QED
  BY <1>5, <1>6

\* The quote dispatched is older than the rest of the channel and younger than
\* the bus, whether it is published or dropped.
LEMMA DispatchOrders ==
    ASSUME IInv, Ordered, Dispatch
    PROVE  Ordered'
<1> DEFINE quote == Head(dispatchCh)
<1>1. dispatchCh' = Tail(dispatchCh) /\ UNCHANGED <<received, quotes>>
  BY DEF Dispatch, Publish
<1>2. bus \in Seq(Quote) /\ Len(bus) \in Nat
  BY DEF IInv, TypeOK
<1>3. /\ quote \in Quote
      /\ quote = dispatchCh[1]
      /\ Len(dispatchCh) \in Nat \ {0}
      /\ Len(dispatchCh') = Len(dispatchCh) - 1
      /\ \A i \in 1..Len(dispatchCh') : dispatchCh'[i] = dispatchCh[i + 1]
  BY <1>1, HeadTailProperties, EmptySeq DEF IInv, TypeOK, Dispatch
<1>4. \A i \in 1..Len(dispatchCh') :
          /\ i + 1 \in 1..Len(dispatchCh)
          /\ dispatchCh'[i].number = dispatchCh[i + 1].number
          /\ quote.number < dispatchCh'[i].number
  BY <1>3 DEF Ordered, Ascends
<1>5. Ascends(dispatchCh)'
  BY <1>3, <1>4 DEF Ordered, Ascends
<1>6. WithinBounds(dispatchCh)'
  BY <1>1, <1>4 DEF Ordered, WithinBounds
<1>7. CASE Len(bus) < BusSize
  <2>1. bus' = Append(bus, quote)
    BY <1>7 DEF Dispatch, Publish
  <2>2. /\ Len(bus') = Len(bus) + 1
        /\ \A i \in 1..Len(bus) : bus'[i] = bus[i]
        /\ bus'[Len(bus) + 1] = quote
    BY <1>2, <1>3, <2>1, AppendProperties, LenProperties
  <2>3. \A i \in 1..Len(bus') :
            \/ i \in 1..Len(bus) /\ bus'[i] = bus[i]
            \/ i = Len(bus) + 1 /\ bus'[i] = quote
    BY <1>2, <2>2
  <2>4. \A i \in 1..Len(bus) : bus[i].number < quote.number
    BY <1>3 DEF Ordered
  <2>5. Ascends(bus)'
    <3> SUFFICES ASSUME NEW i \in 1..Len(bus'), NEW j \in 1..Len(bus'), i < j
                 PROVE  bus'[i].number < bus'[j].number
      BY DEF Ascends
    <3>1. i \in 1..Len(bus) /\ bus'[i] = bus[i]
      BY <1>2, <2>2, <2>3
    <3> QED
      BY <2>3, <2>4, <3>1 DEF Ordered, Ascends
  <2>6. WithinBounds(bus)'
    BY <1>1, <1>3, <2>3 DEF Ordered, WithinBounds
  <2>7. \A i \in 1..Len(bus'), j \in 1..Len(dispatchCh') :
            bus'[i].number < dispatchCh'[j].number
    BY <1>4, <2>3 DEF Ordered
  <2> QED
    BY <1>1, <1>5, <1>6, <2>5, <2>6, <2>7 DEF Ordered
<1>8. CASE ~(Len(bus) < BusSize)
  <2>1. bus' = bus
    BY <1>8 DEF Dispatch, Publish
  <2>2. \A i \in 1..Len(bus'), j \in 1..Len(dispatchCh') :
            bus'[i].number < dispatchCh'[j].number
    BY <1>4, <2>1 DEF Ordered
  <2>3. Ascends(bus)' /\ WithinBounds(bus)'
    BY <1>1, <2>1 DEF Ordered, Ascends, WithinBounds
  <2> QED
    BY <1>1, <1>5, <1>6, <2>2, <2>3 DEF Ordered
<1> QED
  BY <1>7, <1>8

\* The quote applied is younger than the book and older than all that waits.
LEMMA ApplyOrders ==
    ASSUME IInv, Ordered, Apply
    PROVE  Ordered' /\ (\A s \in Symbol : quotes[s] <= quotes'[s])
<1> DEFINE quote == Head(bus)
<1>1. /\ quotes' = [quotes EXCEPT ![quote.symbol] = quote.number]
      /\ bus' = Tail(bus)
      /\ UNCHANGED <<received, dispatchCh>>
  BY DEF Apply
<1>2. /\ quotes \in [Symbol -> Nat]
      /\ dispatchCh \in Seq(Quote)
      /\ received \in Nat
  BY DEF IInv, TypeOK
<1>3. /\ quote \in Quote
      /\ quote = bus[1]
      /\ Len(bus) \in Nat \ {0}
      /\ Len(bus') = Len(bus) - 1
      /\ \A i \in 1..Len(bus') : bus'[i] = bus[i + 1]
  BY <1>1, HeadTailProperties, EmptySeq DEF IInv, TypeOK, Apply
<1>4. quote.number \in Nat /\ quote.symbol \in Symbol
  BY <1>3 DEF Quote
<1>5. \A s \in Symbol : quotes'[s] \in {quotes[s], quote.number}
  BY <1>1, <1>2
<1>6. quote.number <= received /\ \A s \in Symbol : quotes[s] < quote.number
  BY <1>3 DEF Ordered, WithinBounds
<1>7. \A s \in Symbol : quotes[s] <= quotes'[s]
  BY <1>2, <1>4, <1>5, <1>6
<1>8. \A i \in 1..Len(bus') :
          /\ i + 1 \in 1..Len(bus)
          /\ bus'[i].number = bus[i + 1].number
          /\ quote.number < bus'[i].number
  BY <1>3 DEF Ordered, Ascends
<1>9. Ascends(bus)'
  BY <1>3, <1>8 DEF Ordered, Ascends
<1>10. WithinBounds(bus)'
  <2> SUFFICES ASSUME NEW i \in 1..Len(bus')
               PROVE  /\ bus'[i].number <= received
                      /\ \A s \in Symbol : quotes'[s] < bus'[i].number
    BY <1>1 DEF WithinBounds
  <2> QED
    BY <1>5, <1>8 DEF Ordered, WithinBounds
<1>11. Ascends(dispatchCh)' /\ WithinBounds(dispatchCh)'
  <2>1. \A i \in 1..Len(dispatchCh) : quote.number < dispatchCh[i].number
    BY <1>3 DEF Ordered
  <2> QED
    BY <1>1, <1>5, <2>1 DEF Ordered, Ascends, WithinBounds
<1>12. \A i \in 1..Len(bus'), j \in 1..Len(dispatchCh') :
           bus'[i].number < dispatchCh'[j].number
  BY <1>1, <1>8 DEF Ordered
<1>13. \A s \in Symbol : quotes'[s] <= received'
  BY <1>1, <1>5, <1>6 DEF Ordered
<1> QED
  BY <1>7, <1>9, <1>10, <1>11, <1>12, <1>13 DEF Ordered

\* No other step touches a quote.
LEMMA OthersOrder ==
    ASSUME Ordered,
           \/ Connect \/ ConnectFails \/ Snapshot \/ SetConnected
           \/ Watchdog \/ ReadFails \/ CloseDispatch \/ Drained \/ Disconnected
           \/ Tick \/ (\E s \in Symbol : Subscribe(s)) \/ UNCHANGED vars
    PROVE  Ordered' /\ quotes' = quotes
<1>1. UNCHANGED <<dispatchCh, bus, quotes, received>>
  BY DEF Connect, ConnectFails, Snapshot, SetConnected, Watchdog, ReadFails,
      CloseDispatch, Drained, Disconnected, Tick, Subscribe, pipeline, history,
      vars
<1> QED
  BY <1>1 DEF Ordered, Ascends, WithinBounds

\* A step keeps the order and takes no symbol's quote back.
LEMMA NextOrders ==
    IInv /\ Ordered /\ [Next]_vars =>
        Ordered' /\ (\A s \in Symbol : quotes[s] <= quotes'[s])
<1> SUFFICES ASSUME IInv, Ordered, [Next]_vars
             PROVE  Ordered' /\ (\A s \in Symbol : quotes[s] <= quotes'[s])
  OBVIOUS
<1>1. quotes' = quotes => \A s \in Symbol : quotes[s] <= quotes'[s]
  <2>1. quotes \in [Symbol -> Nat]
    BY DEF IInv, TypeOK
  <2> QED
    BY <2>1
<1>2. (\E s \in Symbol : Receive(s)) => Ordered' /\ quotes' = quotes
  BY ReceiveOrders DEF Receive, Arrives
<1>3. Dispatch => Ordered' /\ quotes' = quotes
  BY DispatchOrders DEF Dispatch, Publish
<1> QED
  BY <1>1, <1>2, <1>3, ApplyOrders, OthersOrder DEF Next

\* The book's quote of a symbol is never replaced by an older one, for any sizes
\* of the channels, any drops and any sequence of disconnections.
THEOREM QuotesStayInOrder == Spec => AppliedInOrder
<1>1. Init => Ordered
  BY InitOrdered
<1>2. IInv /\ Ordered /\ [Next]_vars => Ordered'
  BY NextOrders
<1>3. IInv /\ Ordered /\ [Next]_vars =>
          [\A s \in Symbol : quotes[s] <= quotes'[s]]_vars
  BY NextOrders
<1> QED
  BY <1>1, <1>2, <1>3, Invariance, PTL DEF Spec, AppliedInOrder
=============================================================================
