-------------------------- MODULE EventBusesProofs --------------------------
(***************************************************************************)
(* Proofs about EventBuses, for channels of any size and any number of     *)
(* connections, messages and quotes.                                       *)
(***************************************************************************)
EXTENDS EventBuses, SequenceTheorems, TLAPS

\* Between connections nothing of the last one is left, the dispatch goroutine
\* outlives the dispatch channel's open end, and the heartbeat does not.
ConnectionIsOver ==
    /\ stage \notin {"receiving", "closing", "draining"} => dispatchCh = <<>> /\ DispatcherIdle
    /\ stage \notin {"receiving", "closing"} => ~dispatchOpen /\ heartbeat = "off"

\* A consumer ends when its bus is closed and empty, and it has nothing in hand.
ConsumersEndLast ==
    \A b \in Bus : consumer[b] = "done" => busClosed[b] /\ chan[b] = <<>> /\ held[b] = None

\* The shutdown starts behind the streamer, and its steps wait for each other.
ShutdownWaits ==
    /\ shutdown # "none" => stage \in {"stopped", "absent"}
    /\ shutdown \in {"store", "complete"} =>
          /\ \A b \in Bus : consumer[b] = "done"
          /\ recon \in {"absent", "done"}
    /\ storeOpen <=> shutdown \notin {"store", "complete"}
    /\ process = "clean" => shutdown = "complete"

\* The store outlives its writers because closed buses are quiet for good, which
\* is so because no send is under way and no connection is left to begin one.
IInv ==
    /\ TypeOK
    /\ NoSendOnClosedChannel
    /\ ConnectionIsOver
    /\ ConsumersEndLast
    /\ ShutdownWaits

-----------------------------------------------------------------------------

LEMMA InitIInv == Init => IInv
<1> SUFFICES ASSUME Init
             PROVE  IInv
    OBVIOUS
<1>1. TypeOK
    <2>1. \A S : <<>> \in Seq(S) /\ Len(<<>>) = 0
        OBVIOUS
    <2>2. /\ DOMAIN sending = Bus /\ DOMAIN held = Bus /\ DOMAIN chan = Bus
          /\ \A b \in Bus : sending[b] = None /\ held[b] = None /\ chan[b] = <<>>
        BY DEF Init
    <2>3. \A b \in Bus : /\ sending[b] \in EventOf(b) \cup {None}
                         /\ held[b] \in EventOf(b) \cup {None}
                         /\ chan[b] \in Seq(EventOf(b)) /\ Len(chan[b]) <= BusSize
        <3>1. 0 <= BusSize
            BY BusAssumption
        <3>2. ASSUME NEW b \in Bus
              PROVE  chan[b] \in Seq(EventOf(b)) /\ Len(chan[b]) = 0
            <4>1. <<>> \in Seq(EventOf(b)) /\ Len(<<>>) = 0
                BY <2>1
            <4>2. chan[b] = <<>>
                BY <2>2
            <4> QED
                BY <4>1, <4>2, Zenon
        <3> QED
            BY <2>2, <3>1, <3>2
    <2>4. dispatchCh \in Seq(Event) /\ Len(dispatchCh) <= DispatchSize
        BY <2>1, BusAssumption DEF Init
    <2>5. /\ busClosed \in [Bus -> BOOLEAN] /\ busDrops \in [Bus -> Nat]
          /\ dispatchDrops \in [AccountKind -> Nat] /\ failedWrites \in [AccountKind -> Nat]
          /\ consumer \in [Bus -> {"ranging", "done"}]
        BY DEF Init
    <2>6. conn \in 0..MaxConnects /\ received \in 0..MaxEvents /\ quotes \in 0..MaxQuotes
        BY BusAssumption DEF Init
    <2> QED
        BY <2>2, <2>3, <2>4, <2>5, <2>6 DEF Init, TypeOK
<1>2. NoSendOnClosedChannel /\ ConsumersEndLast /\ ShutdownWaits
    BY DEF Init, NoSendOnClosedChannel, ConsumersEndLast, ShutdownWaits
<1>3. ConnectionIsOver
    BY DEF Init, ConnectionIsOver, DispatcherIdle, Bus
<1> QED
    BY <1>1, <1>2, <1>3 DEF IInv

\* Start and runOnce: the teardown of a connection leaves nothing of it behind.
LEMMA StreamerKeeps ==
    ASSUME IInv, Streamer
    PROVE  IInv'
<1> USE BusAssumption DEF IInv, TypeOK, NoSendOnClosedChannel, ConnectionIsOver,
        ConsumersEndLast, ShutdownWaits, DispatcherIdle, dispatch, buses, consumers
<1>1. CASE Connect
    BY <1>1 DEF Connect
<1>2. CASE ConnectFails
    BY <1>2 DEF ConnectFails
<1>3. CASE Subscribed
    BY <1>3 DEF Subscribed
<1>4. CASE ReadFails
    BY <1>4 DEF ReadFails
<1>5. CASE HeartbeatEnds
    BY <1>5 DEF HeartbeatEnds
<1>6. CASE CloseDispatch
    <2>1. TypeOK'
        BY <1>6 DEF CloseDispatch
    <2>2. ConnectionIsOver'
        BY <1>6 DEF CloseDispatch
    <2>3. NoSendOnClosedChannel' /\ ConsumersEndLast' /\ ShutdownWaits'
        BY <1>6 DEF CloseDispatch
    <2> QED
        BY <2>1, <2>2, <2>3
<1>7. CASE DispatchDone
    BY <1>7 DEF DispatchDone
<1>8. CASE Disconnected
    BY <1>8 DEF Disconnected
<1>9. CASE StartReturns
    <2>1. TypeOK'
        BY <1>9 DEF StartReturns
    <2>2. ConnectionIsOver'
        BY <1>9 DEF StartReturns
    <2>3. NoSendOnClosedChannel' /\ ConsumersEndLast' /\ ShutdownWaits'
        BY <1>9 DEF StartReturns
    <2> QED
        BY <2>1, <2>2, <2>3
<1> QED
    BY <1>1, <1>2, <1>3, <1>4, <1>5, <1>6, <1>7, <1>8, <1>9 DEF Streamer

\* receiveLoop queues only while there is a connection.
LEMMA ReceiveKeeps ==
    ASSUME IInv, NEW kind \in AccountKind \cup {"other"}, NEW saved \in BOOLEAN,
           Receive(kind, saved)
    PROVE  IInv'
<1> USE BusAssumption DEF IInv, streamer, buses, consumers
<1>1. TypeOK'
    <2> DEFINE e == [kind |-> kind, number |-> received + 1, saved |-> saved]
    <2>1. received' \in 0..MaxEvents /\ e \in Event
        BY DEF Receive, TypeOK, Event
    <2>2. dispatchCh \in Seq(Event) /\ Len(dispatchCh) \in Nat
        BY DEF TypeOK
    <2>3. Append(dispatchCh, e) \in Seq(Event) /\ Len(Append(dispatchCh, e)) = Len(dispatchCh) + 1
        BY <2>1, <2>2, AppendProperties, LenProperties
    <2> HIDE DEF e
    <2>4. CASE Len(dispatchCh) < DispatchSize
        <3>1. dispatchCh' = Append(dispatchCh, e) /\ dispatchDrops' = dispatchDrops
            BY <2>4 DEF Receive, e
        <3>2. Len(dispatchCh') <= DispatchSize
            BY <2>2, <2>3, <2>4, <3>1
        <3> QED
            BY <2>1, <2>3, <3>1, <3>2 DEF Receive, TypeOK
    <2>5. CASE ~(Len(dispatchCh) < DispatchSize)
        <3>1. dispatchCh' = dispatchCh
            BY <2>5 DEF Receive
        <3>2. dispatchDrops' = IF kind \in AccountKind
                               THEN [dispatchDrops EXCEPT ![kind] = @ + 1]
                               ELSE dispatchDrops
            BY <2>5 DEF Receive
        <3>3. dispatchDrops' \in [AccountKind -> Nat]
            BY <3>2 DEF TypeOK
        <3> QED
            BY <2>1, <3>1, <3>3 DEF Receive, TypeOK
    <2> QED
        BY <2>4, <2>5
<1>2. NoSendOnClosedChannel' /\ ConsumersEndLast' /\ ShutdownWaits'
    BY DEF Receive, TypeOK, NoSendOnClosedChannel, ConsumersEndLast, ShutdownWaits
<1>3. ConnectionIsOver'
    BY DEF Receive, ConnectionIsOver
<1> QED
    BY <1>1, <1>2, <1>3

\* The dispatch goroutine takes a message.
LEMMA DispatchKeeps ==
    ASSUME IInv, Dispatch
    PROVE  IInv'
<1> USE DEF IInv, streamer, buses, consumers
<1>1. TypeOK'
    <2>1. /\ dispatchCh \in Seq(Event) /\ dispatchCh # <<>>
          /\ Len(dispatchCh) <= DispatchSize /\ DispatchSize \in Nat
        BY BusAssumption DEF Dispatch, TypeOK
    <2>2. /\ Head(dispatchCh) \in Event /\ Tail(dispatchCh) \in Seq(Event)
          /\ Len(Tail(dispatchCh)) <= DispatchSize
        BY <2>1, HeadTailProperties, EmptySeq
    <2> QED
        BY <2>2 DEF Dispatch, TypeOK
<1>2. NoSendOnClosedChannel' /\ ConsumersEndLast' /\ ShutdownWaits'
    BY DEF Dispatch, TypeOK, NoSendOnClosedChannel, ConsumersEndLast, ShutdownWaits
<1>3. ConnectionIsOver'
    BY DEF Dispatch, ConnectionIsOver
<1> QED
    BY <1>1, <1>2, <1>3

\* Publish begins: what is about to be sent found its bus open.
LEMMA PublishKeeps ==
    ASSUME IInv, PublishEvent \/ PublishQuote
    PROVE  IInv'
<1> USE BusAssumption DEF IInv, streamer, dispatch, consumers
<1>1. CASE PublishEvent
    <2> USE <1>1 DEF PublishEvent
    <2>1. TypeOK'
        <3>1. ASSUME NEW b \in Bus, b = handling.kind
              PROVE  handling \in EventOf(b)
            BY <3>1 DEF TypeOK, Event, EventOf, AccountKind
        <3>2. PICK event \in {None, handling} :
                  sending' = [sending EXCEPT ![handling.kind] = event]
            OBVIOUS
        <3>3. DOMAIN sending = Bus
            BY DEF TypeOK
        <3>4. /\ DOMAIN sending' = Bus
              /\ \A b \in Bus : IF b = handling.kind THEN sending'[b] = event
                               ELSE sending'[b] = sending[b]
            BY ONLY <3>2, <3>3
        <3>5. \A b \in Bus : sending'[b] \in EventOf(b) \cup {None}
            BY <3>1, <3>2, <3>4 DEF TypeOK
        <3> QED
            BY <3>4, <3>5 DEF TypeOK
    <2>2. ConnectionIsOver'
        BY DEF ConnectionIsOver, DispatcherIdle
    <2>3. NoSendOnClosedChannel' /\ ConsumersEndLast' /\ ShutdownWaits'
        BY DEF TypeOK, NoSendOnClosedChannel, ConsumersEndLast, ShutdownWaits
    <2> QED
        BY <2>1, <2>2, <2>3
<1>2. CASE PublishQuote
    <2> USE <1>2 DEF PublishQuote
    <2>1. [kind |-> "quote", number |-> quotes + 1, saved |-> FALSE] \in EventOf("quote")
        BY DEF TypeOK, EventOf, Quote
    <2>2. "quote" \in Bus /\ "quote" \notin AccountKind
        BY DEF Bus, AccountKind
    <2>3. TypeOK'
        <3>1. sending'["quote"] \in EventOf("quote") \cup {None}
            BY <2>1, <2>2 DEF TypeOK
        <3>2. \A b \in Bus : sending'[b] \in EventOf(b) \cup {None}
            BY <2>2, <3>1 DEF TypeOK
        <3>3. DOMAIN sending' = Bus /\ quotes' \in 0..MaxQuotes
            BY DEF TypeOK
        <3> HIDE <1>2 DEF PublishQuote
        <3>4. /\ UNCHANGED <<ctxDone, stage, heartbeat, connected, conn, dispatchCh,
                             dispatchOpen, handling, dispatchDrops, chan, busClosed,
                             busDrops, consumer, held, failedWrites, storeOpen>>
              /\ UNCHANGED <<recon, shutdown, process, received>>
            BY <1>2 DEF PublishQuote
        <3> QED
            BY <3>2, <3>3, <3>4 DEF TypeOK
    <2>4. ConnectionIsOver'
        BY <2>2 DEF ConnectionIsOver, DispatcherIdle, TypeOK, Bus
    <2>5. NoSendOnClosedChannel' /\ ConsumersEndLast' /\ ShutdownWaits'
        BY <2>2 DEF TypeOK, NoSendOnClosedChannel, ConsumersEndLast, ShutdownWaits
    <2> QED
        BY <2>3, <2>4, <2>5
<1> QED
    BY <1>1, <1>2

\* Publish ends: a bus that is sent to is open, and its consumer there.
LEMMA SendKeeps ==
    ASSUME IInv, NEW b \in Bus, Send(b)
    PROVE  IInv'
<1> USE BusAssumption DEF IInv, streamer, dispatch, consumers, Send
<1>1. TypeOK'
    <2>1. sending[b] \in EventOf(b) /\ chan[b] \in Seq(EventOf(b)) /\ Len(chan[b]) \in Nat
        BY DEF TypeOK
    <2>2. /\ Append(chan[b], sending[b]) \in Seq(EventOf(b))
          /\ Len(Append(chan[b], sending[b])) = Len(chan[b]) + 1
        BY <2>1, AppendProperties, LenProperties
    <2>3. DOMAIN sending' = Bus /\ \A d \in Bus : sending'[d] \in EventOf(d) \cup {None}
        BY DEF TypeOK
    <2>4. CASE Len(chan[b]) < BusSize
        <3>1. chan' = [chan EXCEPT ![b] = Append(chan[b], sending[b])] /\ busDrops' = busDrops
            BY <2>4
        <3>2. DOMAIN chan' = Bus /\ Len(Append(chan[b], sending[b])) <= BusSize
            BY <2>1, <2>2, <2>4, <3>1 DEF TypeOK
        <3>3. \A d \in Bus : chan'[d] \in Seq(EventOf(d)) /\ Len(chan'[d]) <= BusSize
            BY <2>2, <3>1, <3>2 DEF TypeOK
        <3> QED
            BY <2>3, <3>1, <3>2, <3>3 DEF TypeOK
    <2>5. CASE ~(Len(chan[b]) < BusSize)
        <3>1. chan' = chan /\ busDrops' = [busDrops EXCEPT ![b] = @ + 1]
            BY <2>5
        <3>2. busDrops' \in [Bus -> Nat]
            BY <3>1 DEF TypeOK
        <3> QED
            BY <2>3, <3>1, <3>2 DEF TypeOK
    <2> QED
        BY <2>4, <2>5
<1>2. NoSendOnClosedChannel' /\ ShutdownWaits'
    BY DEF TypeOK, NoSendOnClosedChannel, ShutdownWaits
<1>3. ConsumersEndLast'
    BY DEF TypeOK, NoSendOnClosedChannel, ConsumersEndLast
<1>4. ConnectionIsOver'
    BY DEF ConnectionIsOver, DispatcherIdle, TypeOK, Bus
<1> QED
    BY <1>1, <1>2, <1>3, <1>4

\* The consumers, each with its own bus, and the reconciler.
LEMMA ConsumersKeep ==
    ASSUME IInv, Consuming \/ ReconcilerPass \/ ReconcilerRests \/ ReconcilerStops
    PROVE  IInv'
<1> USE BusAssumption DEF IInv, TypeOK, NoSendOnClosedChannel, ConnectionIsOver,
        ConsumersEndLast, ShutdownWaits, DispatcherIdle, streamer, dispatch, buses, consumers
<1>1. ASSUME NEW b \in Bus, Consume(b)
      PROVE  IInv'
    BY <1>1 DEF Consume
<1>2. ASSUME NEW b \in Bus, Applied(b)
      PROVE  IInv'
    BY <1>2 DEF Applied
<1>3. ASSUME NEW b \in Bus, WriteFails(b)
      PROVE  IInv'
    BY <1>3 DEF WriteFails
<1>4. ASSUME NEW b \in Bus, RangeEnds(b)
      PROVE  IInv'
    BY <1>4 DEF RangeEnds
<1>5. CASE ReconcilerPass
    BY <1>5 DEF ReconcilerPass
<1>6. CASE ReconcilerRests
    BY <1>6 DEF ReconcilerRests
<1>7. CASE ReconcilerStops
    BY <1>7 DEF ReconcilerStops
<1> QED
    BY <1>1, <1>2, <1>3, <1>4, <1>5, <1>6, <1>7 DEF Consuming

\* The shutdown function, and what ends the process.
LEMMA ShutdownKeeps ==
    ASSUME IInv, Running, Shutdown \/ Process
    PROVE  IInv'
<1> USE BusAssumption DEF IInv, TypeOK, NoSendOnClosedChannel, ConnectionIsOver,
        ConsumersEndLast, ShutdownWaits, DispatcherIdle, streamer, dispatch, buses,
        consumers, Running
<1>1. CASE BeginShutdown
    BY <1>1 DEF BeginShutdown
<1>2. ASSUME NEW b \in Bus, CloseBus(b)
      PROVE  IInv'
    BY <1>2 DEF CloseBus, ClosesNext
<1>3. CASE CloseStore
    <2>1. TypeOK'
        BY <1>3 DEF CloseStore
    <2>2. ShutdownWaits'
        BY <1>3 DEF CloseStore
    <2>3. NoSendOnClosedChannel' /\ ConsumersEndLast' /\ ConnectionIsOver'
        BY <1>3 DEF CloseStore
    <2> QED
        BY <2>1, <2>2, <2>3
<1>4. CASE SignalWatch
    BY <1>4 DEF SignalWatch
<1>5. CASE Cancel
    BY <1>5 DEF Cancel
<1>6. CASE WatchReturns
    BY <1>6 DEF WatchReturns
<1>7. CASE WatchTimesOut
    BY <1>7 DEF WatchTimesOut
<1>8. CASE Interrupt
    BY <1>8 DEF Interrupt
<1> QED
    BY <1>1, <1>2, <1>3, <1>4, <1>5, <1>6, <1>7, <1>8 DEF Shutdown, Process

LEMMA NextIInv == IInv /\ [Next]_vars => IInv'
<1> SUFFICES ASSUME IInv, [Next]_vars
             PROVE  IInv'
    OBVIOUS
<1>1. ASSUME Incoming
      PROVE  IInv'
    <2>1. \E kind \in AccountKind \cup {"other"}, saved \in BOOLEAN : Receive(kind, saved)
        BY <1>1 DEF Incoming, AccountKind
    <2> QED
        BY <2>1, ReceiveKeeps
<1>2. ASSUME Publishing \/ PublishQuote
      PROVE  IInv'
    BY <1>2, DispatchKeeps, PublishKeeps, SendKeeps DEF Publishing
<1>3. CASE UNCHANGED vars
    BY <1>3 DEF vars, streamer, dispatch, buses, consumers, IInv, TypeOK,
       NoSendOnClosedChannel, ConnectionIsOver, ConsumersEndLast, ShutdownWaits,
       DispatcherIdle
<1> QED
    BY <1>1, <1>2, <1>3, StreamerKeeps, ConsumersKeep, ShutdownKeeps DEF Next, Others

THEOREM Invariance == Spec => []IInv
  BY InitIInv, NextIInv, PTL DEF Spec

-----------------------------------------------------------------------------

\* The runtime's variables keep their types, and no channel holds more than its
\* capacity, for every size (account.go:311, bus.go:97).
THEOREM TypeCorrect == Spec => []TypeOK
<1>1. IInv => TypeOK
    BY DEF IInv
<1> QED
    BY <1>1, Invariance, PTL

\* Publish and Close of a bus never meet on a closed channel, whoever publishes
\* while the buses are closed (bus.go:86-124).
THEOREM SendsAreSafe == Spec => []NoSendOnClosedChannel
<1>1. IInv => NoSendOnClosedChannel
    BY DEF IInv
<1> QED
    BY <1>1, Invariance, PTL

\* runOnce's teardown leaves no goroutine and no message of the connection to
\* the next one (account.go:272-280).
THEOREM TeardownIsComplete == Spec => []ConnectionsDoNotOverlap
<1>1. IInv => ConnectionsDoNotOverlap
    BY DEF IInv, ConnectionIsOver, ConnectionsDoNotOverlap
<1> QED
    BY <1>1, Invariance, PTL

\* The shutdown function closes the store behind its last writer, and watch says
\* "clean" when nothing is left (root.go:207-222, watch.go:66).
THEOREM ShutdownIsSafe == Spec => []ShutdownIsOrderly
<1>1. IInv => StoreOutlivesWriters
    BY DEF IInv, StoreOutlivesWriters, ShutdownWaits, ConsumersEndLast, None, TypeOK
<1>2. ASSUME IInv, process = "clean"
      PROVE  ~storeOpen /\ (\A b \in Bus : consumer[b] = "done") /\ Drained
    <2>1. shutdown = "complete"
        BY <1>2 DEF IInv, ShutdownWaits
    <2>2. ~storeOpen /\ (\A b \in Bus : consumer[b] = "done") /\ stage \in {"stopped", "absent"}
        BY <1>2, <2>1 DEF IInv, ShutdownWaits
    <2>3. \A b \in Bus : chan[b] = <<>> /\ held[b] = None /\ sending[b] = None
        BY <1>2, <2>2 DEF IInv, ConsumersEndLast, NoSendOnClosedChannel
    <2>4. dispatchCh = <<>> /\ handling = None
        BY <1>2, <2>2 DEF IInv, ConnectionIsOver, DispatcherIdle
    <2> QED
        BY <2>2, <2>3, <2>4 DEF Drained
<1>3. IInv => ShutdownIsOrderly
    BY <1>1, <1>2 DEF ShutdownIsOrderly, CleanMeansDrained
<1> QED
    BY <1>3, Invariance, PTL

-----------------------------------------------------------------------------
(***************************************************************************)
(* The chain of each account kind is a lossy queue.                        *)
(***************************************************************************)

\* What stands in a kind's line, other kinds in the shared places included.
Along(k) == {held[k], sending[k], handling} \cup ToSet(chan[k]) \cup ToSet(dispatchCh)

\* The lines, and what keeps them so: what stands in line has arrived, the
\* dispatch goroutine has one event in hand at most, and no bus is closed before
\* the shutdown begins.
Lines ==
    /\ \A k \in AccountKind : InLine(k)
    /\ \A k \in AccountKind : \A e \in Along(k) : e.number <= received
    /\ handling # None => \A k \in AccountKind : sending[k] = None
    /\ \A b \in Bus : busClosed[b] => shutdown # "none"

\* The abstract queues and losses.
Waiting == [k \in AccountKind |-> {e.number : e \in OnTheWay(k)}]
Losses == [k \in AccountKind |-> dispatchDrops[k] + busDrops[k] + failedWrites[k]]

\* One more at the end of a channel.
LEMMA Enqueued ==
    ASSUME NEW S, NEW s \in Seq(S), NEW e \in S
    PROVE  /\ ToSet(Append(s, e)) = ToSet(s) \cup {e}
           /\ Ascending(s) /\ (\A d \in ToSet(s) : d.number < e.number)
                => Ascending(Append(s, e))
<1> DEFINE t == Append(s, e)
<1>1. /\ Len(s) \in Nat /\ DOMAIN s = 1..Len(s) /\ DOMAIN t = 1..(Len(s) + 1)
      /\ \A i \in 1..Len(s) : t[i] = s[i]
      /\ t[Len(s) + 1] = e
    BY AppendProperties, LenProperties
<1> HIDE DEF t
<1>2. ToSet(t) = ToSet(s) \cup {e}
    BY <1>1 DEF ToSet
<1>3. ASSUME Ascending(s), \A d \in ToSet(s) : d.number < e.number
      PROVE  Ascending(t)
    <2>1. \A i \in 1..Len(s) : s[i].number < e.number
        BY <1>1, <1>3 DEF ToSet
    <2>2. ASSUME NEW i \in DOMAIN t, NEW j \in DOMAIN t, i < j
          PROVE  t[i].number < t[j].number
        <3>1. i \in 1..Len(s) /\ (j \in 1..Len(s) \/ j = Len(s) + 1)
            BY <1>1, <2>2
        <3> QED
            BY <1>1, <1>3, <2>1, <2>2, <3>1 DEF Ascending
    <2> QED
        BY <2>2 DEF Ascending
<1> QED
    BY <1>2, <1>3 DEF t

\* One less at its head.
LEMMA Dequeued ==
    ASSUME NEW S, NEW s \in Seq(S), s # <<>>
    PROVE  /\ Head(s) \in S
           /\ ToSet(s) = {Head(s)} \cup ToSet(Tail(s))
           /\ Ascending(s) => /\ Ascending(Tail(s))
                              /\ \A e \in ToSet(Tail(s)) : Head(s).number < e.number
<1> DEFINE t == Tail(s)
<1>1. /\ Len(s) \in Nat /\ Len(s) >= 1 /\ DOMAIN s = 1..Len(s) /\ DOMAIN t = 1..(Len(s) - 1)
      /\ \A i \in 1..(Len(s) - 1) : t[i] = s[i + 1]
      /\ Head(s) = s[1] /\ Head(s) \in S
    <2>1. Len(s) \in Nat \ {0} /\ DOMAIN s = 1..Len(s)
        BY EmptySeq, LenProperties
    <2>2. t \in Seq(S) /\ Len(t) = Len(s) - 1 /\ \A i \in 1..Len(t) : t[i] = s[i + 1]
        BY HeadTailProperties
    <2>3. DOMAIN t = 1..Len(t)
        BY <2>2, LenProperties
    <2>4. Head(s) = s[1] /\ Head(s) \in S
        BY HeadTailProperties
    <2> QED
        BY <2>1, <2>2, <2>3, <2>4
<1> HIDE DEF t
<1>2. ToSet(s) = {Head(s)} \cup ToSet(t)
    <2>1. ASSUME NEW x \in ToSet(s)
          PROVE  x \in {Head(s)} \cup ToSet(t)
        <3>1. PICK i \in 1..Len(s) : x = s[i]
            BY <1>1 DEF ToSet
        <3>2. CASE i = 1
            BY <1>1, <3>1, <3>2
        <3>3. CASE i # 1
            <4>1. i - 1 \in 1..(Len(s) - 1) /\ i = (i - 1) + 1
                BY <1>1, <3>1, <3>3
            <4>2. t[i - 1] = x
                BY <1>1, <3>1, <4>1
            <4> QED
                BY <1>1, <4>1, <4>2 DEF ToSet
        <3> QED
            BY <3>2, <3>3
    <2>2. ASSUME NEW x \in ToSet(t)
          PROVE  x \in ToSet(s)
        <3>1. PICK i \in 1..(Len(s) - 1) : x = t[i]
            BY <1>1 DEF ToSet
        <3>2. i + 1 \in 1..Len(s) /\ x = s[i + 1]
            BY <1>1, <3>1
        <3> QED
            BY <1>1, <3>2 DEF ToSet
    <2>3. Head(s) \in ToSet(s)
        BY <1>1 DEF ToSet
    <2> QED
        BY <2>1, <2>2, <2>3
<1>3. ASSUME Ascending(s)
      PROVE  Ascending(t) /\ \A e \in ToSet(t) : Head(s).number < e.number
    <2>1. ASSUME NEW i \in 1..(Len(s) - 1), NEW j \in 1..(Len(s) - 1), i < j
          PROVE  t[i].number < t[j].number
        <3>1. /\ i + 1 \in 1..Len(s) /\ j + 1 \in 1..Len(s) /\ i + 1 < j + 1
              /\ t[i] = s[i + 1] /\ t[j] = s[j + 1]
            BY <1>1, <2>1
        <3> QED
            BY <1>1, <1>3, <3>1 DEF Ascending
    <2>2. ASSUME NEW e \in ToSet(t)
          PROVE  Head(s).number < e.number
        <3>1. PICK i \in 1..(Len(s) - 1) : e = t[i]
            BY <1>1 DEF ToSet
        <3>2. i + 1 \in 1..Len(s) /\ 1 < i + 1 /\ 1 \in 1..Len(s) /\ e = s[i + 1]
            BY <1>1, <3>1
        <3> QED
            BY <1>1, <1>3, <3>2 DEF Ascending
    <2> QED
        BY <1>1, <2>1, <2>2 DEF Ascending
<1> QED
    BY <1>1, <1>2, <1>3 DEF t

LEMMA OfEmpty == ToSet(<<>>) = {} /\ Ascending(<<>>)
  BY DEF ToSet, Ascending

\* What the types say of a line: its own places hold its own kind or nothing.
LEMMA LineTypes ==
    ASSUME TypeOK, NEW k \in AccountKind
    PROVE  /\ k \in Bus /\ k # None.kind /\ k # "other"
           /\ held[k] # None => held[k] \in Event /\ held[k].kind = k
           /\ sending[k] # None => sending[k] \in Event /\ sending[k].kind = k
           /\ handling # None => handling \in Event
           /\ chan[k] \in Seq(Event) /\ \A e \in ToSet(chan[k]) : e \in Event /\ e.kind = k
           /\ dispatchCh \in Seq(Event) /\ \A e \in ToSet(dispatchCh) : e \in Event
           /\ \A e \in Along(k) : e.number \in Nat
<1>1. k \in Bus /\ k # None.kind /\ k # "other" /\ EventOf(k) = {e \in Event : e.kind = k}
    BY DEF Bus, AccountKind, None, EventOf
<1>2. /\ held[k] # None => held[k] \in Event /\ held[k].kind = k
      /\ sending[k] # None => sending[k] \in Event /\ sending[k].kind = k
      /\ handling # None => handling \in Event
    BY <1>1 DEF TypeOK
<1>3. chan[k] \in Seq(EventOf(k)) /\ dispatchCh \in Seq(Event)
    BY <1>1 DEF TypeOK
<1>4. chan[k] \in Seq(Event)
    BY <1>1, <1>3, SeqMonotonic
<1>5. \A e \in ToSet(chan[k]) : e \in Event /\ e.kind = k
    <2>1. \A i \in DOMAIN chan[k] : chan[k][i] \in EventOf(k)
        BY <1>3, ElementOfSeq, LenProperties
    <2> QED
        BY <1>1, <2>1 DEF ToSet
<1>6. \A e \in ToSet(dispatchCh) : e \in Event
    <2>1. \A i \in DOMAIN dispatchCh : dispatchCh[i] \in Event
        BY <1>3, ElementOfSeq, LenProperties
    <2> QED
        BY <2>1 DEF ToSet
<1>7. None.number \in Nat /\ \A e \in Event : e.number \in Nat
    BY BusAssumption DEF None, Event
<1>8. \A e \in Along(k) : e.number \in Nat
    BY <1>2, <1>5, <1>6, <1>7 DEF Along
<1> QED
    BY <1>1, <1>2, <1>3, <1>4, <1>5, <1>6, <1>8

\* A line changes only when one of its own places does.
LEMMA LineFrame ==
    ASSUME NEW k \in AccountKind,
           UNCHANGED <<held[k], sending[k], handling, chan[k], dispatchCh>>
    PROVE  /\ InLine(k) => InLine(k)'
           /\ Along(k)' = Along(k) /\ OnTheWay(k)' = OnTheWay(k)
  BY DEF InLine, Older, Ascending, Along, OnTheWay

\* While an event stands before the store, the store is open.
LEMMA OpenForEvents ==
    ASSUME IInv, NEW b \in Bus, sending[b] # None \/ chan[b] # <<>> \/ held[b] # None
    PROVE  storeOpen
  BY DEF IInv, ShutdownWaits, ConsumersEndLast, NoSendOnClosedChannel


-----------------------------------------------------------------------------
\* The abstract queues from one state to the next.

\* What moves up within its line stays on its way.
LEMMA Stutters ==
    ASSUME \A k \in AccountKind : /\ OnTheWay(k)' = OnTheWay(k)
                                  /\ busDrops'[k] = busDrops[k]
                                  /\ failedWrites'[k] = failedWrites[k],
           UNCHANGED <<received, dispatchDrops, storeOpen>>
    PROVE  UNCHANGED Queues!vars
<1>1. Waiting' = Waiting
    BY DEF Waiting
<1>2. Losses' = Losses
    BY DEF Losses
<1> QED
    BY <1>1, <1>2 DEF Queues!vars, Waiting, Losses

\* An event leaves its line.
LEMMA Leaves ==
    ASSUME NEW k \in AccountKind, NEW x \in OnTheWay(k),
           OnTheWay(k) = OnTheWay(k)' \cup {x},
           \A e \in OnTheWay(k)' : e.number # x.number,
           \A j \in AccountKind \ {k} : OnTheWay(j)' = OnTheWay(j)
    PROVE  /\ x.number \in Waiting[k]
           /\ Waiting' = [Waiting EXCEPT ![k] = @ \ {x.number}]
<1>1. {e.number : e \in OnTheWay(k)'} = {e.number : e \in OnTheWay(k)} \ {x.number}
    OBVIOUS
<1> QED
    BY <1>1 DEF Waiting

\* It leaves as the first of them, and is not counted: it was applied.
LEMMA AppliedFirst ==
    ASSUME IInv, NEW k \in AccountKind, NEW x \in OnTheWay(k), storeOpen,
           x \in Event,
           OnTheWay(k) = OnTheWay(k)' \cup {x},
           \A e \in OnTheWay(k)' : x.number < e.number /\ e.number \in Nat,
           \A j \in AccountKind \ {k} : OnTheWay(j)' = OnTheWay(j),
           UNCHANGED <<received, dispatchDrops, busDrops, failedWrites, storeOpen>>
    PROVE  Queues!Next
<1>1. x.number \in 1..MaxEvents /\ x.number \in Nat
    BY BusAssumption DEF Event
<1>2. /\ x.number \in Waiting[k]
      /\ Waiting' = [Waiting EXCEPT ![k] = @ \ {x.number}]
    BY <1>1, Leaves
<1>3. \A later \in Waiting[k] : x.number <= later
    BY <1>1 DEF Waiting
<1>4. Losses' = Losses
    BY DEF Losses
<1>5. Queues!Apply(k, x.number)
    BY <1>2, <1>3, <1>4 DEF Queues!Apply, Waiting, Losses
<1> QED
    BY <1>1, <1>5 DEF Queues!Next

\* It leaves and is counted: a full bus, or a write that failed.
LEMMA LostCounted ==
    ASSUME IInv, NEW k \in AccountKind, NEW x \in OnTheWay(k), storeOpen,
           x \in Event,
           OnTheWay(k) = OnTheWay(k)' \cup {x},
           \A e \in OnTheWay(k)' : e.number # x.number,
           \A j \in AccountKind \ {k} : OnTheWay(j)' = OnTheWay(j),
           Losses' = [Losses EXCEPT ![k] = @ + 1],
           UNCHANGED <<received, storeOpen>>
    PROVE  Queues!Next
<1>1. x.number \in 1..MaxEvents
    BY DEF Event
<1>2. /\ x.number \in Waiting[k]
      /\ Waiting' = [Waiting EXCEPT ![k] = @ \ {x.number}]
    BY Leaves
<1>3. Queues!Lose(k, x.number)
    BY <1>2 DEF Queues!Lose, Waiting, Losses
<1> QED
    BY <1>1, <1>3 DEF Queues!Next

-----------------------------------------------------------------------------
\* The steps.

\* receiveLoop: the newest event joins its line at the end, or is dropped.
LEMMA ReceiveQueues ==
    ASSUME IInv, Lines, NEW kind \in AccountKind \cup {"other"}, NEW saved \in BOOLEAN,
           Receive(kind, saved)
    PROVE  Lines' /\ Queues!Next
<1> DEFINE x == [kind |-> kind, number |-> received + 1, saved |-> saved]
<1>1. /\ received \in Nat /\ received' = received + 1 /\ received' \in 1..MaxEvents
      /\ x \in Event /\ x.kind = kind /\ x.number = received + 1
    BY BusAssumption DEF IInv, TypeOK, Receive, Event
<1> PICK n \in 1..MaxEvents : n = received'
    BY <1>1
<1>2. storeOpen
    BY DEF IInv, ShutdownWaits, Receive
<1>3. UNCHANGED <<held, sending, handling, chan, busDrops, failedWrites, storeOpen, busClosed,
                  shutdown>>
    BY DEF Receive, streamer, buses, consumers
<1>4. \A k \in AccountKind : \A e \in Along(k) : e.number \in Nat
    BY LineTypes DEF IInv
<1>5. CASE Len(dispatchCh) < DispatchSize
    <2>1. dispatchCh' = Append(dispatchCh, x) /\ dispatchDrops' = dispatchDrops
        BY <1>5 DEF Receive
    <2>2. dispatchCh \in Seq(Event)
        BY DEF IInv, TypeOK
    <2> HIDE DEF x
    <2>3. ToSet(dispatchCh') = ToSet(dispatchCh) \cup {x}
        BY <1>1, <2>1, <2>2, Enqueued
    <2>4. \A k \in AccountKind : \A e \in Along(k) : e.number < x.number
        BY <1>1, <1>4 DEF Lines
    <2>5. "order" \in AccountKind
        BY DEF AccountKind
    <2>6. Ascending(dispatchCh')
        <3>1. \A e \in ToSet(dispatchCh) : e.number < x.number
            BY <2>4, <2>5 DEF Along
        <3>2. Ascending(dispatchCh)
            BY <2>5 DEF Lines, InLine
        <3> QED
            BY <1>1, <2>1, <2>2, <3>1, <3>2, Enqueued
    <2>7. ASSUME NEW k \in AccountKind
          PROVE  InLine(k)' /\ \A e \in Along(k)' : e.number <= received'
        <3>1. Along(k)' = Along(k) \cup {x}
            BY <1>3, <2>3 DEF Along
        <3>2. \A e \in Along(k)' : e.number <= received'
            BY <1>1, <1>4, <2>4, <3>1
        <3>3. InLine(k)
            BY DEF Lines
        <3>4. Older({held[k]},
                    {sending[k], handling} \cup ToSet(chan[k]) \cup ToSet(dispatchCh), k)'
            BY <1>3, <2>3, <2>4, <3>3 DEF InLine, Older, Along
        <3>5. Older(ToSet(chan[k]), {sending[k], handling} \cup ToSet(dispatchCh), k)'
            BY <1>3, <2>3, <2>4, <3>3 DEF InLine, Older, Along
        <3>6. /\ Older({sending[k]}, {handling} \cup ToSet(dispatchCh), k)'
              /\ Older({handling}, ToSet(dispatchCh), k)'
            BY <1>3, <2>3, <2>4, <3>3 DEF InLine, Older, Along
        <3>7. Ascending(chan[k])'
            BY <1>3, <3>3 DEF InLine, Ascending
        <3> QED
            BY <2>6, <3>2, <3>4, <3>5, <3>6, <3>7 DEF InLine
    <2>8. Lines'
        BY <1>3, <2>7 DEF Lines
    <2>9. \A k \in AccountKind :
             OnTheWay(k)' = IF k = kind THEN OnTheWay(k) \cup {x} ELSE OnTheWay(k)
        BY <1>1, <1>3, <2>3 DEF OnTheWay
    <2>10. Losses' = Losses
        BY <1>3, <2>1 DEF Losses
    <2>11. CASE kind \in AccountKind
        <3>1. Waiting' = [Waiting EXCEPT ![kind] = @ \cup {n}]
            <4>1. ASSUME NEW k \in AccountKind
                  PROVE  Waiting'[k] = IF k = kind THEN Waiting[k] \cup {n}
                                       ELSE Waiting[k]
                BY <1>1, <2>9 DEF Waiting
            <4> QED
                BY <4>1 DEF Waiting
        <3>2. Queues!Receive(kind, n)
            <4>1. Queues!Arrives(n)
                BY <1>1, <1>2, <1>3 DEF Queues!Arrives
            <4> QED
                BY <2>10, <3>1, <4>1 DEF Queues!Receive, Waiting, Losses
        <3>3. Queues!Next
            BY <2>11, <3>2 DEF Queues!Next
        <3> QED
            BY <2>8, <3>3
    <2>12. CASE kind \notin AccountKind
        <3>1. Waiting' = Waiting
            BY <2>9, <2>12 DEF Waiting
        <3>2. Queues!Ignore(n)
            <4>1. Queues!Arrives(n)
                BY <1>1, <1>2, <1>3 DEF Queues!Arrives
            <4>2. UNCHANGED <<Waiting, Losses>>
                BY <2>10, <3>1
            <4> QED
                BY <4>1, <4>2 DEF Queues!Ignore, Waiting, Losses
        <3>3. Queues!Next
            BY <3>2 DEF Queues!Next
        <3> QED
            BY <2>8, <3>3
    <2> QED
        BY <2>11, <2>12
<1>6. CASE ~(Len(dispatchCh) < DispatchSize)
    <2>1. /\ dispatchCh' = dispatchCh
          /\ dispatchDrops' = IF kind \in AccountKind
                              THEN [dispatchDrops EXCEPT ![kind] = @ + 1]
                              ELSE dispatchDrops
        BY <1>6 DEF Receive
    <2>2. \A k \in AccountKind : /\ InLine(k) => InLine(k)'
                                 /\ Along(k)' = Along(k) /\ OnTheWay(k)' = OnTheWay(k)
        BY <1>3, <2>1, LineFrame
    <2>3. Lines'
        <3>1. \A k \in AccountKind : \A e \in Along(k)' : e.number <= received'
            BY <1>1, <1>4, <2>2 DEF Lines
        <3> QED
            BY <1>3, <2>2, <3>1 DEF Lines
    <2>4. Waiting' = Waiting
        BY <2>2 DEF Waiting
    <2>5. CASE kind \in AccountKind
        <3>1. Losses' = [Losses EXCEPT ![kind] = @ + 1]
            <4>1. /\ dispatchDrops \in [AccountKind -> Nat] /\ failedWrites \in [AccountKind -> Nat]
                  /\ \A k \in AccountKind : busDrops[k] \in Nat
                BY LineTypes DEF IInv, TypeOK
            <4>2. ASSUME NEW k \in AccountKind
                  PROVE  Losses'[k] = IF k = kind THEN Losses[k] + 1 ELSE Losses[k]
                BY <1>3, <2>1, <2>5, <4>1 DEF Losses
            <4> QED
                BY <4>2 DEF Losses
        <3>2. Queues!Refuse(kind, n)
            <4>1. Queues!Arrives(n)
                BY <1>1, <1>2, <1>3 DEF Queues!Arrives
            <4> QED
                BY <2>4, <3>1, <4>1 DEF Queues!Refuse, Waiting, Losses
        <3>3. Queues!Next
            BY <2>5, <3>2 DEF Queues!Next
        <3> QED
            BY <2>3, <3>3
    <2>6. CASE kind \notin AccountKind
        <3>1. Losses' = Losses
            BY <1>3, <2>1, <2>6 DEF Losses
        <3>2. Queues!Ignore(n)
            <4>1. Queues!Arrives(n)
                BY <1>1, <1>2, <1>3 DEF Queues!Arrives
            <4>2. UNCHANGED <<Waiting, Losses>>
                BY <2>4, <3>1
            <4> QED
                BY <4>1, <4>2 DEF Queues!Ignore, Waiting, Losses
        <3>3. Queues!Next
            BY <3>2 DEF Queues!Next
        <3> QED
            BY <2>3, <3>3
    <2> QED
        BY <2>5, <2>6
<1> QED
    BY <1>5, <1>6


\* dispatchLoop takes the first of the dispatch channel in hand; one of an unknown
\* type stood in no line.
LEMMA DispatchQueues ==
    ASSUME IInv, Lines, Dispatch
    PROVE  Lines' /\ UNCHANGED Queues!vars
<1> DEFINE x == Head(dispatchCh)
<1>1. /\ UNCHANGED <<held, sending, chan, busDrops, failedWrites, storeOpen, busClosed,
                     shutdown, received, dispatchDrops>>
      /\ handling = None /\ (\A k \in AccountKind : sending[k] = None)
      /\ dispatchCh # <<>> /\ dispatchCh' = Tail(dispatchCh)
      /\ handling' = IF x.kind = "other" THEN None ELSE x
    BY DEF Dispatch, DispatcherIdle, buses, consumers
<1>2. /\ x \in Event
      /\ ToSet(dispatchCh) = {x} \cup ToSet(dispatchCh')
      /\ Ascending(dispatchCh)
           => Ascending(dispatchCh') /\ \A e \in ToSet(dispatchCh') : x.number < e.number
    BY <1>1, Dequeued DEF IInv, TypeOK
<1> HIDE DEF x
<1>3. ASSUME NEW k \in AccountKind
      PROVE  /\ InLine(k)' /\ OnTheWay(k)' = OnTheWay(k)
             /\ \A e \in Along(k)' : e.number <= received
    <2>1. k # None.kind /\ k # "other" /\ None.number = 0
        BY LineTypes DEF IInv, None
    <2>2. InLine(k) /\ \A e \in Along(k) : e.number <= received
        BY DEF Lines
    <2>3. OnTheWay(k)' = OnTheWay(k)
        BY <1>1, <1>2, <2>1 DEF OnTheWay
    <2>4. Along(k)' \subseteq Along(k)
        BY <1>1, <1>2 DEF Along
    <2>5. Ascending(dispatchCh)
        BY <2>2 DEF InLine
    <2>6. Older({held[k]}, {sending[k], handling} \cup ToSet(chan[k]) \cup ToSet(dispatchCh), k)'
        BY <1>1, <1>2, <2>1, <2>2 DEF InLine, Older
    <2>7. Older(ToSet(chan[k]), {sending[k], handling} \cup ToSet(dispatchCh), k)'
        BY <1>1, <1>2, <2>1, <2>2 DEF InLine, Older
    <2>8. Older({sending[k]}, {handling} \cup ToSet(dispatchCh), k)'
        BY <1>1, <2>1 DEF Older
    <2>9. Older({handling}, ToSet(dispatchCh), k)'
        BY <1>1, <1>2, <2>1, <2>5 DEF Older
    <2>10. Ascending(chan[k])' /\ Ascending(dispatchCh)'
        BY <1>1, <1>2, <2>2, <2>5 DEF InLine, Ascending
    <2>11. InLine(k)'
        BY <2>6, <2>7, <2>8, <2>9, <2>10 DEF InLine
    <2> QED
        BY <2>2, <2>3, <2>4, <2>11
<1>4. Lines'
    BY <1>1, <1>3 DEF Lines
<1>5. UNCHANGED Queues!vars
    BY <1>1, <1>3, Stutters
<1> QED
    BY <1>4, <1>5

\* Publish takes the event under its bus's lock.  The bus is open, for the
\* shutdown has not begun.
LEMMA PublishQueues ==
    ASSUME IInv, Lines, PublishEvent
    PROVE  Lines' /\ UNCHANGED Queues!vars
<1> DEFINE b == handling.kind
<1>1. /\ UNCHANGED <<held, chan, busDrops, failedWrites, storeOpen, busClosed, dispatchCh,
                     shutdown, received, dispatchDrops>>
      /\ handling # None /\ handling' = None
      /\ sending' = [sending EXCEPT ![b] = IF busClosed[b] THEN None ELSE handling]
    BY DEF PublishEvent, consumers
<1>2. \A k \in AccountKind : k \in Bus /\ sending[k] = None
    BY <1>1, LineTypes DEF Lines, IInv
<1>3. \A k \in AccountKind : ~busClosed[k]
    BY <1>1, <1>2 DEF IInv, ConnectionIsOver, ShutdownWaits, DispatcherIdle, Lines
<1>4. \A k \in AccountKind : sending'[k] = IF k = b THEN handling ELSE None
    BY <1>1, <1>2, <1>3 DEF IInv, TypeOK
<1>5. \A d \in Bus : busClosed'[d] => shutdown' # "none"
    BY <1>1 DEF Lines
<1> HIDE DEF b
<1>6. ASSUME NEW k \in AccountKind
      PROVE  /\ InLine(k)' /\ OnTheWay(k)' = OnTheWay(k)
             /\ \A e \in Along(k)' : e.number <= received
    <2>1. k # None.kind /\ None.number = 0 /\ sending[k] = None
        BY <1>2, LineTypes DEF IInv, None
    <2>2. InLine(k) /\ \A e \in Along(k) : e.number <= received
        BY DEF Lines
    <2>3. OnTheWay(k)' = OnTheWay(k)
        BY <1>1, <1>4, <2>1 DEF OnTheWay, b
    <2>4. Along(k)' \subseteq Along(k)
        BY <1>1, <1>4, <2>1 DEF Along
    <2>5. Older({held[k]}, {sending[k], handling} \cup ToSet(chan[k]) \cup ToSet(dispatchCh), k)'
        BY <1>1, <1>4, <2>1, <2>2 DEF InLine, Older
    <2>6. Older(ToSet(chan[k]), {sending[k], handling} \cup ToSet(dispatchCh), k)'
        BY <1>1, <1>4, <2>1, <2>2 DEF InLine, Older
    <2>7. /\ Older({sending[k]}, {handling} \cup ToSet(dispatchCh), k)'
          /\ Older({handling}, ToSet(dispatchCh), k)'
        BY <1>1, <1>4, <2>1, <2>2 DEF InLine, Older
    <2>8. Ascending(chan[k])' /\ Ascending(dispatchCh)'
        BY <1>1, <2>2 DEF InLine, Ascending
    <2>9. InLine(k)'
        BY <2>5, <2>6, <2>7, <2>8 DEF InLine
    <2> QED
        BY <2>2, <2>3, <2>4, <2>9
<1>7. Lines'
    BY <1>1, <1>5, <1>6 DEF Lines
<1>8. UNCHANGED Queues!vars
    BY <1>1, <1>6, Stutters
<1> QED
    BY <1>7, <1>8


\* Whatever else happens does not touch the lines.
LEMMA OthersQueue ==
    ASSUME Lines,
           UNCHANGED <<handling, dispatchCh, received, dispatchDrops, storeOpen>>,
           \A k \in AccountKind : UNCHANGED <<held[k], sending[k], chan[k], busDrops[k],
                                              failedWrites[k]>>,
           \A b \in Bus : busClosed'[b] => shutdown' # "none"
    PROVE  Lines' /\ UNCHANGED Queues!vars
<1>1. \A k \in AccountKind : /\ InLine(k) => InLine(k)'
                             /\ Along(k)' = Along(k) /\ OnTheWay(k)' = OnTheWay(k)
    BY LineFrame
<1>2. Lines'
    BY <1>1 DEF Lines
<1>3. UNCHANGED Queues!vars
    BY <1>1, Stutters
<1> QED
    BY <1>2, <1>3

\* Publish lets the event go, to the end of the bus or, counted, nowhere.
LEMMA SendQueues ==
    ASSUME IInv, Lines, NEW b \in AccountKind, Send(b)
    PROVE  Lines' /\ (Queues!Next \/ UNCHANGED Queues!vars)
<1> DEFINE x == sending[b]
<1>1. /\ UNCHANGED <<held, handling, dispatchCh, busClosed, shutdown, received, failedWrites,
                     storeOpen, dispatchDrops>>
      /\ x # None
      /\ \A k \in AccountKind : sending'[k] = IF k = b THEN None ELSE sending[k]
    BY LineTypes DEF Send, dispatch, consumers, IInv, TypeOK
<1>2. /\ x \in Event /\ x.kind = b /\ chan[b] \in Seq(Event) /\ b \in Bus
      /\ b # None.kind /\ None.number = 0 /\ received \in Nat
      /\ \A e \in Along(b) : e.number \in Nat
    BY <1>1, LineTypes DEF IInv, TypeOK, None
<1>3. InLine(b) /\ \A e \in Along(b) : e.number <= received
    BY DEF Lines
<1>4. handling = None
    BY <1>1 DEF Lines
<1>5. CASE Len(chan[b]) < BusSize
    <2>1. /\ chan'[b] = Append(chan[b], x) /\ busDrops' = busDrops
          /\ \A k \in AccountKind \ {b} : chan'[k] = chan[k]
        BY <1>2, <1>5, LineTypes DEF Send, IInv, TypeOK
    <2> HIDE DEF x
    <2>2. ToSet(chan'[b]) = ToSet(chan[b]) \cup {x}
        BY <1>2, <2>1, Enqueued
    <2>3. \A d \in ToSet(chan[b]) : d.number < x.number
        <3>1. \A d \in ToSet(chan[b]) : d.kind = b
            BY LineTypes DEF IInv
        <3> QED
            BY <1>2, <1>3, <3>1 DEF InLine, Older, x
    <2>4. Ascending(chan'[b])
        BY <1>2, <1>3, <2>1, <2>3, Enqueued DEF InLine
    <2>5. InLine(b)'
        <3>1. \A e \in ToSet(dispatchCh) : e.kind = b => x.number < e.number
            BY <1>2, <1>3 DEF InLine, Older, x
        <3>2. held[b].kind = b => held[b].number < x.number
            BY <1>2, <1>3 DEF InLine, Older, x
        <3>3. Older({held[b]},
                    {sending[b], handling} \cup ToSet(chan[b]) \cup ToSet(dispatchCh), b)'
            BY <1>1, <1>2, <1>3, <2>2, <3>2 DEF InLine, Older
        <3>4. Older(ToSet(chan[b]), {sending[b], handling} \cup ToSet(dispatchCh), b)'
            BY <1>1, <1>2, <1>3, <1>4, <2>2, <3>1 DEF InLine, Older
        <3>5. /\ Older({sending[b]}, {handling} \cup ToSet(dispatchCh), b)'
              /\ Older({handling}, ToSet(dispatchCh), b)'
            BY <1>1, <1>2, <1>3 DEF InLine, Older
        <3>6. Ascending(dispatchCh)'
            BY <1>1, <1>3 DEF InLine, Ascending
        <3> QED
            BY <2>4, <3>3, <3>4, <3>5, <3>6 DEF InLine
    <2>6. OnTheWay(b)' = OnTheWay(b) /\ Along(b)' \subseteq Along(b) \cup {None}
        BY <1>1, <1>2, <2>2 DEF OnTheWay, Along, x
    <2>7. ASSUME NEW k \in AccountKind \ {b}
          PROVE  /\ InLine(k)' /\ OnTheWay(k)' = OnTheWay(k)
                 /\ \A e \in Along(k)' : e.number <= received
        BY <1>1, <2>1, LineFrame DEF Lines
    <2>8. Lines'
        BY <1>1, <1>2, <1>3, <2>5, <2>6, <2>7 DEF Lines
    <2>9. UNCHANGED Queues!vars
        BY <1>1, <2>1, <2>6, <2>7, Stutters
    <2> QED
        BY <2>8, <2>9
<1>6. CASE ~(Len(chan[b]) < BusSize)
    <2>1. chan' = chan /\ busDrops' = [busDrops EXCEPT ![b] = @ + 1]
        BY <1>6 DEF Send
    <2> HIDE DEF x
    <2>2. /\ x \in OnTheWay(b)
          /\ OnTheWay(b) = OnTheWay(b)' \cup {x}
          /\ Along(b)' \subseteq Along(b) \cup {None}
        BY <1>1, <1>2, <2>1 DEF OnTheWay, Along, x
    <2>3. \A e \in OnTheWay(b)' : e.number # x.number
        <3>1. /\ \A e \in {held[b]} \cup ToSet(chan[b]) : e.kind = b => e.number < x.number
              /\ \A e \in {handling} \cup ToSet(dispatchCh) : e.kind = b => x.number < e.number
            BY <1>2, <1>3 DEF InLine, Older, x
        <3>2. x.number \in Nat
            BY <1>2 DEF Along, x
        <3> QED
            BY <1>1, <1>2, <2>1, <3>1, <3>2 DEF OnTheWay, Along
    <2>4. InLine(b)'
        BY <1>1, <1>2, <1>3, <2>1 DEF InLine, Older, Ascending
    <2>5. ASSUME NEW k \in AccountKind \ {b}
          PROVE  /\ InLine(k)' /\ OnTheWay(k)' = OnTheWay(k)
                 /\ \A e \in Along(k)' : e.number <= received
        BY <1>1, <2>1, LineFrame DEF Lines
    <2>6. Lines'
        BY <1>1, <1>2, <1>3, <2>2, <2>4, <2>5 DEF Lines
    <2>7. Losses' = [Losses EXCEPT ![b] = @ + 1]
        <3>1. /\ dispatchDrops \in [AccountKind -> Nat] /\ failedWrites \in [AccountKind -> Nat]
              /\ \A k \in AccountKind : busDrops[k] \in Nat
              /\ \A k \in AccountKind : busDrops'[k] = IF k = b THEN busDrops[k] + 1
                                                       ELSE busDrops[k]
            BY <2>1, LineTypes DEF IInv, TypeOK
        <3>2. ASSUME NEW k \in AccountKind
              PROVE  Losses'[k] = IF k = b THEN Losses[k] + 1 ELSE Losses[k]
            BY <1>1, <3>1 DEF Losses
        <3> QED
            BY <3>2 DEF Losses
    <2>8. storeOpen
        BY <1>1, <1>2, OpenForEvents DEF x
    <2>9. Queues!Next
        BY <1>1, <1>2, <2>2, <2>3, <2>5, <2>7, <2>8, LostCounted
    <2> QED
        BY <2>6, <2>9
<1> QED
    BY <1>5, <1>6


\* What the consumer has in hand is the first of its line.
LEMMA HeldIsFirst ==
    ASSUME IInv, Lines, NEW b \in AccountKind, held[b] # None,
           UNCHANGED <<sending, handling, chan, dispatchCh, busClosed, shutdown, received,
                       storeOpen, dispatchDrops, busDrops>>,
           \A k \in AccountKind : held'[k] = IF k = b THEN None ELSE held[k]
    PROVE  /\ Lines'
           /\ held[b] \in Event /\ held[b] \in OnTheWay(b)
           /\ OnTheWay(b) = OnTheWay(b)' \cup {held[b]}
           /\ \A e \in OnTheWay(b)' : held[b].number < e.number /\ e.number \in Nat
           /\ \A k \in AccountKind \ {b} : OnTheWay(k)' = OnTheWay(k)
           /\ held[b].number \in Nat
<1> DEFINE x == held[b]
<1>1. /\ x \in Event /\ x.kind = b /\ b # None.kind /\ None.number = 0 /\ received \in Nat
      /\ \A e \in Along(b) : e.number \in Nat
    BY LineTypes DEF IInv, TypeOK, None
<1>2. InLine(b) /\ \A e \in Along(b) : e.number <= received
    BY DEF Lines
<1> HIDE DEF x
<1>3. /\ x \in OnTheWay(b)
      /\ OnTheWay(b) = OnTheWay(b)' \cup {x}
      /\ Along(b)' \subseteq Along(b) \cup {None}
    BY <1>1 DEF OnTheWay, Along, x
<1>4. \A e \in OnTheWay(b)' : x.number < e.number /\ e.number \in Nat
    <2>1. \A e \in {sending[b], handling} \cup ToSet(chan[b]) \cup ToSet(dispatchCh) :
             e.kind = b => x.number < e.number /\ e.number \in Nat
        BY <1>1, <1>2 DEF InLine, Older, Along, x
    <2> QED
        BY <1>1, <2>1 DEF OnTheWay
<1>5. InLine(b)'
    BY <1>1, <1>2 DEF InLine, Older, Ascending
<1>6. ASSUME NEW k \in AccountKind \ {b}
      PROVE  /\ InLine(k)' /\ OnTheWay(k)' = OnTheWay(k)
             /\ \A e \in Along(k)' : e.number <= received
    BY LineFrame DEF Lines
<1>7. Lines'
    BY <1>1, <1>2, <1>3, <1>5, <1>6 DEF Lines
<1>8. x.number \in Nat
    BY <1>1 DEF Along, x
<1> QED
    BY <1>1, <1>3, <1>4, <1>6, <1>7, <1>8 DEF x

\* The event is saved, or the book changed.
LEMMA AppliedQueues ==
    ASSUME IInv, Lines, NEW b \in AccountKind, Applied(b)
    PROVE  Lines' /\ Queues!Next
<1>1. /\ held[b] # None
      /\ UNCHANGED <<sending, handling, chan, dispatchCh, busClosed, shutdown, received,
                     storeOpen, dispatchDrops, busDrops, failedWrites>>
      /\ \A k \in AccountKind : held'[k] = IF k = b THEN None ELSE held[k]
    BY LineTypes DEF Applied, dispatch, buses, IInv, TypeOK
<1>2. storeOpen
    BY <1>1, OpenForEvents, LineTypes DEF IInv
<1> QED
    BY <1>1, <1>2, HeldIsFirst, AppliedFirst

\* The store refuses it.
LEMMA WriteFailsQueues ==
    ASSUME IInv, Lines, NEW b \in AccountKind, WriteFails(b)
    PROVE  Lines' /\ Queues!Next
<1>1. /\ held[b] # None
      /\ UNCHANGED <<sending, handling, chan, dispatchCh, busClosed, shutdown, received,
                     storeOpen, dispatchDrops, busDrops>>
      /\ \A k \in AccountKind : held'[k] = IF k = b THEN None ELSE held[k]
      /\ failedWrites' = [failedWrites EXCEPT ![b] = @ + 1]
    BY LineTypes DEF WriteFails, dispatch, buses, IInv, TypeOK, None
<1>2. storeOpen
    BY <1>1, OpenForEvents, LineTypes DEF IInv
<1>3. Losses' = [Losses EXCEPT ![b] = @ + 1]
    <2>1. /\ dispatchDrops \in [AccountKind -> Nat] /\ failedWrites \in [AccountKind -> Nat]
          /\ \A k \in AccountKind : busDrops[k] \in Nat
        BY LineTypes DEF IInv, TypeOK
    <2>2. ASSUME NEW k \in AccountKind
          PROVE  Losses'[k] = IF k = b THEN Losses[k] + 1 ELSE Losses[k]
        BY <1>1, <2>1 DEF Losses
    <2> QED
        BY <2>2 DEF Losses
<1>4. \A e \in OnTheWay(b)' : e.number # held[b].number
    BY <1>1, HeldIsFirst
<1> QED
    BY <1>1, <1>2, <1>3, <1>4, HeldIsFirst, LostCounted

\* A consumer receives.  An order that is not filled is through with that.
LEMMA ConsumeQueues ==
    ASSUME IInv, Lines, NEW b \in AccountKind, Consume(b)
    PROVE  Lines' /\ (Queues!Next \/ UNCHANGED Queues!vars)
<1> DEFINE x == Head(chan[b])
<1> DEFINE skipped == b = "order" /\ ~x.saved
<1>1. /\ UNCHANGED <<sending, handling, dispatchCh, busClosed, shutdown, received, failedWrites,
                     storeOpen, dispatchDrops, busDrops>>
      /\ held[b] = None /\ chan[b] # <<>>
    BY DEF Consume, dispatch
<1>2. /\ b \in Bus /\ chan[b] \in Seq(Event) /\ b # None.kind /\ None.number = 0
      /\ received \in Nat /\ \A e \in Along(b) : e.number \in Nat
    BY LineTypes DEF IInv, TypeOK, None
<1>3. /\ chan'[b] = Tail(chan[b]) /\ held'[b] = IF skipped THEN None ELSE x
      /\ \A k \in AccountKind \ {b} : chan'[k] = chan[k] /\ held'[k] = held[k]
    BY <1>2, LineTypes DEF Consume, IInv, TypeOK
<1>4. InLine(b) /\ \A e \in Along(b) : e.number <= received
    BY DEF Lines
<1>5. /\ x \in Event
      /\ ToSet(chan[b]) = {x} \cup ToSet(chan'[b])
      /\ Ascending(chan'[b]) /\ \A e \in ToSet(chan'[b]) : x.number < e.number
    BY <1>1, <1>2, <1>3, <1>4, Dequeued DEF InLine
<1> HIDE DEF x, skipped
<1>6. /\ x.kind = b /\ x.number \in Nat
      /\ \A e \in {sending[b], handling} \cup ToSet(chan'[b]) \cup ToSet(dispatchCh) :
            e.kind = b => x.number < e.number /\ e.number \in Nat
    <2>1. x.kind = b /\ x.number \in Nat
        BY <1>2, <1>5, LineTypes DEF Along, IInv
    <2>2. \A e \in {sending[b], handling} \cup ToSet(chan'[b]) \cup ToSet(dispatchCh) :
             e.number \in Nat
        BY <1>2, <1>5 DEF Along
    <2>3. \A e \in {sending[b], handling} \cup ToSet(dispatchCh) : e.kind = b => x.number < e.number
        BY <1>4, <1>5, <2>1 DEF InLine, Older
    <2> QED
        BY <1>5, <2>1, <2>2, <2>3
<1>7. InLine(b)'
    <2>1. Older({held[b]}, {sending[b], handling} \cup ToSet(chan[b]) \cup ToSet(dispatchCh), b)'
        BY <1>1, <1>2, <1>3, <1>6 DEF Older
    <2>2. /\ Older(ToSet(chan[b]), {sending[b], handling} \cup ToSet(dispatchCh), b)'
          /\ Older({sending[b]}, {handling} \cup ToSet(dispatchCh), b)'
          /\ Older({handling}, ToSet(dispatchCh), b)'
        BY <1>1, <1>4, <1>5 DEF InLine, Older
    <2>3. Ascending(chan[b])' /\ Ascending(dispatchCh)'
        BY <1>1, <1>4, <1>5 DEF InLine, Ascending
    <2> QED
        BY <2>1, <2>2, <2>3 DEF InLine
<1>8. \A e \in Along(b)' : e.number <= received
    <2>1. Along(b)' \subseteq Along(b) \cup {None}
        BY <1>1, <1>3, <1>5 DEF Along
    <2> QED
        BY <1>2, <1>4, <2>1
<1>9. ASSUME NEW k \in AccountKind \ {b}
      PROVE  /\ InLine(k)' /\ OnTheWay(k)' = OnTheWay(k)
             /\ \A e \in Along(k)' : e.number <= received
    BY <1>1, <1>3, LineFrame DEF Lines
<1>10. Lines'
    BY <1>1, <1>7, <1>8, <1>9 DEF Lines
<1>11. OnTheWay(b) = OnTheWay(b)' \cup {x} /\ x \in OnTheWay(b)
    BY <1>1, <1>2, <1>3, <1>5, <1>6 DEF OnTheWay
<1>12. CASE skipped
    <2>1. held'[b] = None
        BY <1>3, <1>12
    <2>2. \A e \in OnTheWay(b)' : x.number < e.number /\ e.number \in Nat
        BY <1>1, <1>2, <1>6, <2>1 DEF OnTheWay
    <2>3. storeOpen
        BY <1>1, <1>2, OpenForEvents
    <2> QED
        BY <1>1, <1>5, <1>9, <1>10, <1>11, <2>2, <2>3, AppliedFirst
<1>13. CASE ~skipped
    <2>1. x \in OnTheWay(b)'
        BY <1>3, <1>6, <1>13 DEF OnTheWay
    <2>2. OnTheWay(b)' = OnTheWay(b)
        BY <1>11, <2>1
    <2>3. UNCHANGED Queues!vars
        BY <1>1, <1>9, <2>2, Stutters
    <2> QED
        BY <1>10, <2>3
<1> QED
    BY <1>12, <1>13

\* The store is closed behind its last event.
LEMMA CloseStoreQueues ==
    ASSUME IInv, Lines, CloseStore
    PROVE  Lines' /\ Queues!Next
<1>1. /\ UNCHANGED <<handling, dispatchCh, received, dispatchDrops, held, sending, chan, busDrops,
                     failedWrites, busClosed>>
      /\ shutdown = "consumers" /\ shutdown' # "none" /\ storeOpen' = FALSE
    BY DEF CloseStore, streamer, dispatch, buses, consumers
<1>2. storeOpen
    BY <1>1 DEF IInv, ShutdownWaits
<1>3. dispatchCh = <<>> /\ handling = None
    BY <1>1 DEF IInv, ShutdownWaits, ConnectionIsOver, DispatcherIdle
<1>4. ASSUME NEW k \in AccountKind
      PROVE  OnTheWay(k) = {}
    <2>1. k \in Bus /\ k # None.kind
        BY LineTypes DEF IInv
    <2>2. held[k] = None /\ chan[k] = <<>> /\ sending[k] = None
        BY <2>1 DEF CloseStore, IInv, ConsumersEndLast, NoSendOnClosedChannel
    <2> QED
        BY <1>3, <2>1, <2>2, OfEmpty DEF OnTheWay
<1>5. \A k \in AccountKind : /\ InLine(k) => InLine(k)'
                             /\ Along(k)' = Along(k) /\ OnTheWay(k)' = OnTheWay(k)
    BY <1>1, LineFrame
<1>6. Lines'
    BY <1>1, <1>5 DEF Lines
<1>7. /\ \A k \in AccountKind : Waiting[k] = {}
      /\ Waiting' = Waiting /\ Losses' = Losses
    BY <1>1, <1>4, <1>5 DEF Waiting, Losses
<1>8. Queues!Close
    <2>1. \A k \in AccountKind : [j \in AccountKind |-> {e.number : e \in OnTheWay(j)}][k] = {}
        BY <1>7 DEF Waiting
    <2>2. UNCHANGED <<Waiting, received, Losses>>
        BY <1>1, <1>7
    <2> QED
        BY <1>1, <1>2, <2>1, <2>2 DEF Queues!Close, Waiting, Losses
<1> QED
    BY <1>6, <1>8 DEF Queues!Next


\* Connections come and go, and the shutdown goes on, beside the lines.
LEMMA StreamerQueues ==
    ASSUME Lines, Streamer
    PROVE  Lines' /\ UNCHANGED Queues!vars
<1>1. /\ UNCHANGED <<handling, dispatchCh, dispatchDrops>> /\ UNCHANGED buses
      /\ UNCHANGED consumers /\ UNCHANGED <<storeOpen, shutdown, received>>
    BY DEF Streamer, Connect, ConnectFails, Subscribed, ReadFails, HeartbeatEnds, CloseDispatch,
       DispatchDone, Disconnected, StartReturns, dispatch
<1>2. \A b \in Bus : busClosed'[b] => shutdown' # "none"
    BY <1>1 DEF buses, Lines
<1> QED
    BY <1>1, <1>2, OthersQueue DEF buses, consumers

LEMMA ShutdownQueues ==
    ASSUME Lines, BeginShutdown \/ SignalWatch \/ Process \/ \E b \in Bus : CloseBus(b)
    PROVE  Lines' /\ UNCHANGED Queues!vars
<1>1. /\ UNCHANGED <<handling, dispatchCh, dispatchDrops, storeOpen, received>>
      /\ UNCHANGED <<held, sending, chan, busDrops, failedWrites>>
    BY DEF BeginShutdown, SignalWatch, Process, Cancel, WatchReturns, WatchTimesOut, Interrupt,
       CloseBus, ClosesNext, dispatch, buses, consumers
<1>2. \A b \in Bus : busClosed'[b] => shutdown' # "none"
    <2>1. CASE \E b \in Bus : CloseBus(b)
        BY <2>1 DEF CloseBus, ClosesNext
    <2>2. CASE BeginShutdown \/ SignalWatch \/ Process
        <3>1. busClosed' = busClosed
            BY <2>2 DEF BeginShutdown, SignalWatch, Process, Cancel, WatchReturns, WatchTimesOut,
               Interrupt, buses
        <3>2. shutdown' # "none" \/ shutdown' = shutdown
            BY <2>2 DEF BeginShutdown, SignalWatch, Process, Cancel, WatchReturns, WatchTimesOut,
               Interrupt
        <3> QED
            BY <3>1, <3>2 DEF Lines
    <2> QED
        BY <2>1, <2>2
<1> QED
    BY <1>1, <1>2, OthersQueue

\* Quotes have a bus and a consumer of their own; the reconciler has neither.
LEMMA BesideQueues ==
    ASSUME IInv, Lines,
           \/ PublishQuote \/ ReconcilerPass \/ ReconcilerRests \/ ReconcilerStops
           \/ Send("quote") \/ Consume("quote") \/ Applied("quote")
           \/ \E b \in Bus : RangeEnds(b)
    PROVE  Lines' /\ UNCHANGED Queues!vars
<1>1. /\ "quote" \notin AccountKind /\ AccountKind \subseteq Bus
      /\ DOMAIN held = Bus /\ DOMAIN sending = Bus /\ DOMAIN chan = Bus /\ DOMAIN busDrops = Bus
    BY DEF AccountKind, Bus, IInv, TypeOK
<1>2. UNCHANGED <<handling, dispatchCh, dispatchDrops, storeOpen, shutdown, received, busClosed,
                  failedWrites>>
    BY DEF PublishQuote, ReconcilerPass, ReconcilerRests, ReconcilerStops, Send, Consume,
       Applied, RangeEnds, dispatch, buses, consumers
<1>3. \A k \in AccountKind : UNCHANGED <<held[k], sending[k], chan[k], busDrops[k]>>
    BY <1>1 DEF PublishQuote, ReconcilerPass, ReconcilerRests, ReconcilerStops, Send, Consume,
       Applied, RangeEnds, dispatch, buses, consumers
<1> QED
    BY <1>2, <1>3, OthersQueue DEF Lines

LEMMA NextQueues == IInv /\ Lines /\ [Next]_vars => Lines' /\ [Queues!Next]_(Queues!vars)
<1> SUFFICES ASSUME IInv, Lines, [Next]_vars
             PROVE  Lines' /\ (Queues!Next \/ UNCHANGED Queues!vars)
    OBVIOUS
<1>1. \A b \in Bus : b \in AccountKind \/ b = "quote"
    BY DEF Bus
<1>2. ASSUME Incoming
      PROVE  Lines' /\ Queues!Next
    <2>1. \E kind \in AccountKind \cup {"other"}, saved \in BOOLEAN : Receive(kind, saved)
        BY <1>2 DEF Incoming, AccountKind
    <2> QED
        BY <2>1, ReceiveQueues
<1>3. ASSUME Publishing
      PROVE  Lines' /\ (Queues!Next \/ UNCHANGED Queues!vars)
    BY <1>1, <1>3, DispatchQueues, PublishQueues, SendQueues, BesideQueues DEF Publishing
<1>4. ASSUME Consuming
      PROVE  Lines' /\ (Queues!Next \/ UNCHANGED Queues!vars)
    <2>1. ASSUME NEW b \in Bus, Consume(b)
          PROVE  Lines' /\ (Queues!Next \/ UNCHANGED Queues!vars)
        BY <1>1, <2>1, ConsumeQueues, BesideQueues
    <2>2. ASSUME NEW b \in Bus, Applied(b)
          PROVE  Lines' /\ (Queues!Next \/ UNCHANGED Queues!vars)
        BY <1>1, <2>2, AppliedQueues, BesideQueues
    <2>3. ASSUME NEW b \in Bus, WriteFails(b)
          PROVE  Lines' /\ Queues!Next
        BY <2>3, WriteFailsQueues DEF WriteFails
    <2>4. ASSUME NEW b \in Bus, RangeEnds(b)
          PROVE  Lines' /\ UNCHANGED Queues!vars
        BY <2>4, BesideQueues
    <2> QED
        BY <1>4, <2>1, <2>2, <2>3, <2>4 DEF Consuming
<1>5. ASSUME Others
      PROVE  Lines' /\ UNCHANGED Queues!vars
    BY <1>5, BesideQueues DEF Others
<1>6. ASSUME Shutdown \/ Process
      PROVE  Lines' /\ (Queues!Next \/ UNCHANGED Queues!vars)
    BY <1>6, ShutdownQueues, CloseStoreQueues DEF Shutdown
<1>7. CASE UNCHANGED vars
    <2>1. /\ UNCHANGED <<handling, dispatchCh, received, dispatchDrops, storeOpen>>
          /\ UNCHANGED <<held, sending, chan, busDrops, failedWrites, busClosed, shutdown>>
        BY <1>7 DEF vars, dispatch, buses, consumers
    <2> QED
        BY <2>1, OthersQueue DEF Lines
<1> QED
    BY <1>2, <1>3, <1>4, <1>5, <1>6, <1>7, StreamerQueues DEF Next

LEMMA InitQueues == Init => Lines /\ Queues!Init
<1> SUFFICES ASSUME Init
             PROVE  Lines /\ Queues!Init
    OBVIOUS
<1>1. ASSUME NEW k \in AccountKind
      PROVE  /\ k \in Bus /\ None.kind # k
             /\ Along(k) = {None} /\ OnTheWay(k) = {}
             /\ Ascending(chan[k]) /\ Ascending(dispatchCh)
             /\ dispatchDrops[k] + busDrops[k] + failedWrites[k] = 0
    <2>1. k \in Bus /\ None.kind # k
        BY DEF Bus, AccountKind, None
    <2>2. /\ held[k] = None /\ sending[k] = None /\ handling = None
          /\ chan[k] = <<>> /\ dispatchCh = <<>>
          /\ dispatchDrops[k] = 0 /\ busDrops[k] = 0 /\ failedWrites[k] = 0
        BY <2>1 DEF Init
    <2> QED
        BY <2>1, <2>2, OfEmpty DEF Along, OnTheWay
<1>2. \A k \in AccountKind : InLine(k)
    BY <1>1 DEF InLine, Older, Along
<1>3. Lines
    BY <1>1, <1>2 DEF Init, Lines, None
<1>4. Queues!Init
    BY <1>1 DEF Queues!Init, Init
<1> QED
    BY <1>3, <1>4

\* For every account kind dispatch channel, bus and consumer make up one queue
\* that loses events only where it counts them, keeps their order, holds none
\* twice, and is empty when the store is closed (account.go:272-311, bus.go:86-124,
\* root.go:207-222).
THEOREM RuntimeImplementsQueues == Spec => QueuesSpec
<1>1. Init => Queues!Init /\ Lines
    BY InitQueues
<1>2. Spec => []IInv
    BY Invariance
<1>3. IInv /\ Lines /\ [Next]_vars => Lines' /\ [Queues!Next]_(Queues!vars)
    BY NextQueues
<1>4. Spec => []Lines
    BY <1>1, <1>2, <1>3, PTL DEF Spec
<1>5. Lines => \A k \in AccountKind : InLine(k)
    BY DEF Lines
<1>6. Spec => Queues!Spec
    BY <1>1, <1>2, <1>3, <1>4, PTL DEF Spec, Queues!Spec
<1> QED
    BY <1>4, <1>5, <1>6, PTL DEF QueuesSpec
=============================================================================
