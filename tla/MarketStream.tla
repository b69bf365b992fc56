---------------------------- MODULE MarketStream ----------------------------
(***************************************************************************)
(* Live quotes: the DXLink streamer (internal/streamer/market.go) with its *)
(* reconnect loop, dispatch goroutine and stale watchdog, the quoteBus     *)
(* behind it and quoteConsumer, which applies each quote to the MarkBook.  *)
(*                                                                         *)
(* A quote is told from another by its symbol, the connection it came on   *)
(* and its place in the order of arrival.  The steps of the handshake up   *)
(* to FEED_SETUP are one: each either goes on or ends the attempt, and     *)
(* none of them has a time limit.  The keepalive loop and the metrics      *)
(* change nothing the others read and are left out.  The context is never  *)
(* cancelled by the program, so Start never returns.                       *)
(***************************************************************************)
EXTENDS Naturals, Sequences, SequencesExt

CONSTANTS
    Symbol,
    DispatchSize,  \* dxlinkDispatchSize
    BusSize,       \* capacity of the quoteBus subscription
    StaleAfter,    \* staleQuoteTimeout, in ticks
    MaxConnects,   \* bound on the calls of runOnce
    MaxQuotes      \* bound on the quotes the feed sends

ASSUME MarketAssumption ==
    /\ DispatchSize \in Nat \ {0}
    /\ BusSize \in Nat \ {0}
    /\ StaleAfter \in Nat \ {0}
    /\ MaxConnects \in Nat \ {0}
    /\ MaxQuotes \in Nat

VARIABLES
    stage,      \* where the reconnect loop is
    symbols,    \* marketStreamer.symbols
    syms,       \* the snapshot of symbols this connection subscribed
    connected,
    seen, age,  \* lastEventAt: whether it is set, and how long ago, in ticks
    dispatchCh, \* quotes received and not dispatched yet
    dropCount,
    failures,
    bus,        \* quotes published and not applied yet
    busDrops,
    quotes,     \* MarkBook.quotes: the arrival number of the last, 0 for none
    \* History, read by the bounds and the properties only:
    conn,       \* the number of this call of runOnce
    known,      \* symbols when it began
    received,   \* quotes that arrived
    applied,    \* quotes that reached the book
    heard       \* the connection of the last quote dispatched

status == <<connected, seen, age>>
pipeline == <<dispatchCh, dropCount, bus, busDrops, quotes>>
history == <<conn, known, received, applied, heard>>
vars == <<stage, symbols, syms, status, failures, pipeline, history>>

Stage == {"idle", "handshake", "subscribing", "receiving", "cancelled",
          "closing", "draining", "ended", "backoff"}
Quote == [symbol : Symbol, number : 1..MaxQuotes, conn : 1..MaxConnects]

TypeOK ==
    /\ stage \in Stage
    /\ symbols \subseteq Symbol
    /\ syms \subseteq symbols
    /\ connected \in BOOLEAN /\ seen \in BOOLEAN
    /\ age \in 0..StaleAfter
    /\ dispatchCh \in Seq(Quote) /\ Len(dispatchCh) <= DispatchSize
    /\ bus \in Seq(Quote) /\ Len(bus) <= BusSize
    /\ dropCount \in Nat /\ busDrops \in Nat
    /\ failures \in 0..MaxConnects
    /\ quotes \in [Symbol -> 0..MaxQuotes]
    /\ conn \in 0..MaxConnects
    /\ known \subseteq symbols
    /\ received \in 0..MaxQuotes
    /\ applied \in 0..MaxQuotes
    /\ heard \in 0..MaxConnects

\* Start, with the symbols that were seeded by REST.
Init ==
    /\ stage = "idle"
    /\ symbols \in SUBSET Symbol
    /\ syms = {}
    /\ connected = FALSE
    /\ seen = FALSE /\ age = 0
    /\ dispatchCh = <<>> /\ bus = <<>>
    /\ dropCount = 0 /\ busDrops = 0
    /\ failures = 0
    /\ quotes = [s \in Symbol |-> 0]
    /\ conn = 0
    /\ known = {}
    /\ received = 0 /\ applied = 0
    /\ heard = 0

-----------------------------------------------------------------------------
(***************************************************************************)
(* One call of runOnce, up to the connection.                              *)
(***************************************************************************)

\* The loop comes round, at once or after time.After(wait).
Connect ==
    /\ stage \in {"idle", "backoff"}
    /\ conn < MaxConnects
    /\ stage' = "handshake"
    /\ conn' = conn + 1
    /\ known' = symbols
    /\ UNCHANGED <<symbols, syms, status, failures, pipeline, received, applied,
                   heard>>

\* No quote token, no connection, an unexpected AUTH_STATE, a write or a read
\* that fails: runOnce returns before setConnected.
ConnectFails ==
    /\ stage \in {"handshake", "subscribing"}
    /\ stage' = "ended"
    /\ UNCHANGED <<symbols, syms, status, failures, pipeline, history>>

\* Fault: the first snapshot serves every later connection too.
SnapshotOnce ==
    /\ stage = "handshake"
    /\ stage' = "subscribing"
    /\ syms' = IF syms = {} THEN symbols ELSE syms
    /\ UNCHANGED <<symbols, status, failures, pipeline, history>>

\* The channel is open; currentSymbols is read for the FEED_SUBSCRIPTION.
Snapshot ==
    /\ stage = "handshake"
    /\ stage' = "subscribing"
    /\ syms' = symbols
    /\ UNCHANGED <<symbols, status, failures, pipeline, history>>

\* Fault: the quote clock runs on from the connection before.
SetConnectedKeepingClock ==
    /\ stage = "subscribing"
    /\ stage' = "receiving"
    /\ connected' = TRUE
    /\ UNCHANGED <<symbols, syms, seen, age, failures, pipeline, history>>

\* The subscription is sent; setConnected, and the connection's goroutines.
SetConnected ==
    /\ stage = "subscribing"
    /\ stage' = "receiving"
    /\ connected' = TRUE
    /\ seen' = FALSE
    /\ age' = 0
    /\ UNCHANGED <<symbols, syms, failures, pipeline, history>>

-----------------------------------------------------------------------------
(***************************************************************************)
(* The connection: receiveLoop, dispatchLoop and staleWatchdog.            *)
(***************************************************************************)

Arriving(s) == [symbol |-> s, number |-> received + 1, conn |-> conn]

\* A frame read before the connection was cancelled may be routed after it.
Arrives(s) ==
    /\ stage \in {"receiving", "cancelled"}
    /\ s \in syms
    /\ received < MaxQuotes
    /\ received' = received + 1
    /\ UNCHANGED <<stage, symbols, syms, status, failures, bus, busDrops, quotes,
                   conn, known, applied, heard>>

\* Fault: the channel grows with the backlog.
ReceiveUnbounded(s) ==
    /\ Arrives(s)
    /\ dispatchCh' = Append(dispatchCh, Arriving(s))
    /\ UNCHANGED dropCount

\* receiveLoop never waits for the dispatcher: a quote that finds the channel
\* full is dropped and counted.
Receive(s) ==
    /\ Arrives(s)
    /\ IF Len(dispatchCh) < DispatchSize
       THEN dispatchCh' = Append(dispatchCh, Arriving(s)) /\ UNCHANGED dropCount
       ELSE dropCount' = dropCount + 1 /\ UNCHANGED dispatchCh

\* What the dispatcher does with a quote: touchLastEvent, then OnQuote, which
\* publishes it or, when the consumer's channel is full, drops and counts it.
Publish(quote) ==
    /\ seen' = TRUE
    /\ age' = 0
    /\ heard' = quote.conn
    /\ IF Len(bus) < BusSize
       THEN bus' = Append(bus, quote) /\ UNCHANGED busDrops
       ELSE busDrops' = busDrops + 1 /\ UNCHANGED bus
    /\ UNCHANGED <<stage, symbols, syms, connected, failures, dropCount, quotes,
                   conn, known, received, applied>>

\* Fault: several goroutines dispatch from one channel.
DispatchByMany ==
    \E i \in DOMAIN dispatchCh :
        Publish(dispatchCh[i]) /\ dispatchCh' = RemoveAt(dispatchCh, i)

\* dispatchLoop takes the oldest quote.
Dispatch ==
    /\ dispatchCh # <<>>
    /\ Publish(Head(dispatchCh))
    /\ dispatchCh' = Tail(dispatchCh)

\* quoteConsumer: ApplyQuote.
Apply ==
    /\ bus # <<>>
    /\ quotes' = [quotes EXCEPT ![Head(bus).symbol] = Head(bus).number]
    /\ bus' = Tail(bus)
    /\ applied' = applied + 1
    /\ UNCHANGED <<stage, symbols, syms, status, failures, dispatchCh, dropCount,
                   busDrops, conn, known, received, heard>>

\* Time passes; what is past StaleAfter does not matter.
Tick ==
    /\ seen
    /\ age < StaleAfter
    /\ age' = age + 1
    /\ UNCHANGED <<stage, symbols, syms, connected, seen, failures, pipeline,
                   history>>

\* isStale: a connection without a first quote never is.
IsStale == symbols # {} /\ seen /\ age >= StaleAfter

\* staleWatchdog cancels the connection's context.
Watchdog ==
    /\ stage = "receiving"
    /\ IsStale
    /\ stage' = "cancelled"
    /\ UNCHANGED <<symbols, syms, status, failures, pipeline, history>>

\* Fault: receiveLoop is given the context of Start, not the connection's.
ReadFailsByPeerOnly ==
    /\ stage = "receiving"
    /\ stage' = "closing"
    /\ UNCHANGED <<symbols, syms, status, failures, pipeline, history>>

\* The read fails because the peer is gone or the context was cancelled.
ReadFails ==
    /\ stage \in {"receiving", "cancelled"}
    /\ stage' = "closing"
    /\ UNCHANGED <<symbols, syms, status, failures, pipeline, history>>

-----------------------------------------------------------------------------
(***************************************************************************)
(* The end of runOnce and of the turn of Start.                            *)
(***************************************************************************)

\* Fault: what is left in the channel goes with the connection.
CloseDispatchDiscarding ==
    /\ stage = "closing"
    /\ stage' = "draining"
    /\ dispatchCh' = <<>>
    /\ UNCHANGED <<symbols, syms, status, failures, dropCount, bus, busDrops,
                   quotes, history>>

\* The watchdog and the keepalive loop have ended, and the channel is closed.
CloseDispatch ==
    /\ stage = "closing"
    /\ stage' = "draining"
    /\ UNCHANGED <<symbols, syms, status, failures, pipeline, history>>

\* dispatchLoop has emptied the closed channel, and runOnce returns.
Drained ==
    /\ stage = "draining"
    /\ dispatchCh = <<>>
    /\ stage' = "ended"
    /\ UNCHANGED <<symbols, syms, status, failures, pipeline, history>>

\* setDisconnected; the wait is backoff.Next of all failures since Start: no
\* connection, however long it lasted, resets them.
Disconnected ==
    /\ stage = "ended"
    /\ stage' = "backoff"
    /\ connected' = FALSE
    /\ failures' = failures + 1
    /\ UNCHANGED <<symbols, syms, seen, age, pipeline, conn, known, received,
                   applied, heard>>

\* positionConsumer, at any time: a position opened or changed.
Subscribe(s) ==
    /\ s \notin symbols
    /\ symbols' = symbols \cup {s}
    /\ UNCHANGED <<stage, syms, status, failures, pipeline, history>>

Next ==
    \/ Connect
    \/ ConnectFails
    \/ Snapshot
    \/ SetConnected
    \/ \E s \in Symbol : Receive(s) \/ Subscribe(s)
    \/ Dispatch
    \/ Apply
    \/ Tick
    \/ Watchdog
    \/ ReadFails
    \/ CloseDispatch
    \/ Drained
    \/ Disconnected

Spec == Init /\ [][Next]_vars

(***************************************************************************)
(* Time passes, the goroutines of a connection keep running, and a read    *)
(* under a cancelled context returns.  The feed owes nothing: neither an   *)
(* answer to the handshake, nor a quote, nor an end of the connection.     *)
(***************************************************************************)
FairSpec ==
    /\ Spec
    /\ WF_vars(Tick)
    /\ WF_vars(Watchdog)
    /\ WF_vars(stage = "cancelled" /\ ReadFails)
    /\ WF_vars(Dispatch)
    /\ WF_vars(Apply)
    /\ WF_vars(CloseDispatch)
    /\ WF_vars(Drained)
    /\ WF_vars(Disconnected)

-----------------------------------------------------------------------------
(***************************************************************************)
(* Properties.                                                             *)
(***************************************************************************)

\* Every quote that arrived is in the book, on its way, or counted as dropped:
\* the end of a connection, at whatever point, loses none silently.
NoQuoteLostSilently ==
    received = applied + Len(dispatchCh) + Len(bus) + dropCount + busDrops

\* The book's quote of a symbol is never replaced by one that arrived before it,
\* across drops in both channels and across reconnects.
AppliedInOrder == [][\A s \in Symbol : quotes[s] <= quotes'[s]]_vars

\* The watchdog never cancels a connection that has not delivered a quote of its
\* own: neither the clock of the connection before, nor a quote of it that is
\* dispatched late, counts against the new one.
FreshConnectionIsSpared == [][Watchdog => heard = conn]_vars

\* A connection subscribes every symbol that was tracked when its attempt began,
\* whatever positionConsumer adds while the handshake is under way.
NoSymbolForgotten == stage = "receiving" => known \subseteq syms

\* When quotes have come on a connection and then stop, the connection is
\* dropped, whether or not the feed closes it.
StallIsNoticed == (connected /\ seen) ~> ~connected
=============================================================================
