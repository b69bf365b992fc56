----------------------------- MODULE EventBuses -----------------------------
(***************************************************************************)
(* The runtime that `tt watch` keeps alive: the account streamer           *)
(* (internal/streamer/account.go) with its reconnect loop, heartbeat and   *)
(* dispatch goroutines, the four event buses (internal/bus/bus.go), their  *)
(* consumers, the store, and the orderly shutdown of cmd/root.go and       *)
(* cmd/watch.go.  The market streamer and the reconciler are there as far  *)
(* as the shutdown must reckon with them: one publishes quotes until it    *)
(* notices the cancelled context, the other writes to the store.           *)
(*                                                                         *)
(* Events differ by their kind, their place in the order of arrival and    *)
(* whether the consumer saves them: an order event is saved only if its    *)
(* status is Filled.  A message of an unknown type, or one whose data does *)
(* not decode, has the kind "other".  Heartbeat acknowledgements are not   *)
(* queued and are left out.                                                *)
(*                                                                         *)
(* The command's context is cancelled by whoever embeds the command; as    *)
(* main.go runs it nobody does, and Ctrl+C is Interrupt.                   *)
(***************************************************************************)
EXTENDS Naturals, Sequences, SequencesExt

CONSTANTS
    DispatchSize,  \* dispatchBufSize
    BusSize,       \* capacity of each subscription
    MaxConnects,   \* bound on the calls of runOnce
    MaxEvents,     \* bound on the messages the broker sends
    MaxQuotes      \* bound on the quotes that are published

ASSUME BusAssumption ==
    /\ DispatchSize \in Nat \ {0}
    /\ BusSize \in Nat \ {0}
    /\ MaxConnects \in Nat \ {0}
    /\ MaxEvents \in Nat
    /\ MaxQuotes \in Nat

AccountKind == {"order", "balance", "position"}
Bus == AccountKind \cup {"quote"}
None == [kind |-> "none", number |-> 0, saved |-> FALSE]
Event == [kind : AccountKind \cup {"other"}, number : 1..MaxEvents, saved : BOOLEAN]
Quote == [kind : {"quote"}, number : 1..MaxQuotes, saved : {FALSE}]
EventOf(b) == IF b = "quote" THEN Quote ELSE {e \in Event : e.kind = b}

VARIABLES
    ctxDone,     \* the command's context is cancelled
    stage,       \* where the account streamer's Start is; "absent" without one
    heartbeat,   \* the heartbeat goroutine of this connection
    connected,   \* StreamerStatus.Connected
    dispatchCh, dispatchOpen,
    handling,    \* the message the dispatch goroutine is working on
    dispatchDrops, \* dropCount, by kind
    sending,     \* the event a publisher holds under the read lock of a bus
    chan,        \* the subscription of each bus
    busClosed,
    busDrops,
    consumer,    \* each consumer goroutine
    held,        \* the event it took from its channel
    failedWrites,\* events the store did not take, by kind
    storeOpen,
    recon,       \* the reconciler goroutine
    shutdown,    \* how far the shutdown function is
    process,
    \* Bounds:
    conn, received, quotes

streamer == <<stage, heartbeat, connected, conn>>
dispatch == <<dispatchCh, dispatchOpen, handling, dispatchDrops>>
buses == <<sending, chan, busClosed, busDrops>>
consumers == <<consumer, held, failedWrites>>
vars == <<ctxDone, streamer, dispatch, buses, consumers, storeOpen, recon,
          shutdown, process, received, quotes>>

TypeOK ==
    /\ ctxDone \in BOOLEAN /\ connected \in BOOLEAN /\ dispatchOpen \in BOOLEAN
    /\ stage \in {"absent", "idle", "dialing", "receiving", "closing", "draining",
                  "ended", "backoff", "stopped"}
    /\ heartbeat \in {"off", "ticking", "done"}
    /\ dispatchCh \in Seq(Event) /\ Len(dispatchCh) <= DispatchSize
    /\ handling \in Event \cup {None}
    /\ dispatchDrops \in [AccountKind -> Nat]
    /\ DOMAIN sending = Bus /\ DOMAIN held = Bus /\ DOMAIN chan = Bus
    /\ \A b \in Bus :
         /\ sending[b] \in EventOf(b) \cup {None}
         /\ held[b] \in EventOf(b) \cup {None}
         /\ chan[b] \in Seq(EventOf(b)) /\ Len(chan[b]) <= BusSize
    /\ busClosed \in [Bus -> BOOLEAN]
    /\ busDrops \in [Bus -> Nat]
    /\ consumer \in [Bus -> {"ranging", "done"}]
    /\ failedWrites \in [AccountKind -> Nat]
    /\ storeOpen \in BOOLEAN
    /\ recon \in {"absent", "waiting", "passing", "done"}
    /\ shutdown \in {"none", "buses", "consumers", "store", "complete"}
    /\ process \in {"running", "clean", "gone"}
    /\ conn \in 0..MaxConnects /\ received \in 0..MaxEvents /\ quotes \in 0..MaxQuotes

\* PersistentPreRunE has started everything; without an account ID there is
\* neither an account streamer nor a reconciler.
Init ==
    /\ \/ stage = "idle" /\ recon = "waiting"
       \/ stage = "absent" /\ recon = "absent"
    /\ ctxDone = FALSE
    /\ heartbeat = "off" /\ connected = FALSE
    /\ dispatchCh = <<>> /\ dispatchOpen = FALSE /\ handling = None
    /\ dispatchDrops = [k \in AccountKind |-> 0]
    /\ sending = [b \in Bus |-> None]
    /\ chan = [b \in Bus |-> <<>>]
    /\ busClosed = [b \in Bus |-> FALSE]
    /\ busDrops = [b \in Bus |-> 0]
    /\ consumer = [b \in Bus |-> "ranging"]
    /\ held = [b \in Bus |-> None]
    /\ failedWrites = [k \in AccountKind |-> 0]
    /\ storeOpen = TRUE
    /\ shutdown = "none"
    /\ process = "running"
    /\ conn = 0 /\ received = 0 /\ quotes = 0

\* The process has not ended.
Running == process = "running"

-----------------------------------------------------------------------------
(***************************************************************************)
(* Start and runOnce of the account streamer.                              *)
(***************************************************************************)

\* The loop comes round, at once or after time.After(wait).
Connect ==
    /\ stage \in {"idle", "backoff"}
    /\ ~ctxDone
    /\ conn < MaxConnects
    /\ stage' = "dialing"
    /\ conn' = conn + 1
    /\ UNCHANGED <<ctxDone, heartbeat, connected, dispatch, buses, consumers, storeOpen,
                   recon, shutdown, process, received, quotes>>

\* No token, no connection, or connect or account-subscribe cannot be written.
ConnectFails ==
    /\ stage = "dialing"
    /\ stage' = "ended"
    /\ UNCHANGED <<ctxDone, heartbeat, connected, conn, dispatch, buses, consumers,
                   storeOpen, recon, shutdown, process, received, quotes>>

\* account-subscribe is sent; no answer to it is awaited.
Subscribed ==
    /\ stage = "dialing"
    /\ stage' = "receiving"
    /\ connected' = TRUE
    /\ heartbeat' = "ticking"
    /\ dispatchOpen' = TRUE
    /\ UNCHANGED <<ctxDone, conn, dispatchCh, handling, dispatchDrops, buses, consumers,
                   storeOpen, recon, shutdown, process, received, quotes>>

\* receiveLoop gets a message and queues it, or drops it if the channel is
\* full.  The drop counter does not tell kinds apart; the properties do.
Receive(kind, saved) ==
    /\ stage = "receiving"
    /\ received < MaxEvents
    /\ received' = received + 1
    /\ IF Len(dispatchCh) < DispatchSize
       THEN /\ dispatchCh' = Append(dispatchCh, [kind |-> kind, number |-> received + 1,
                                                 saved |-> saved])
            /\ UNCHANGED dispatchDrops
       ELSE /\ dispatchDrops' = IF kind \in AccountKind
                                THEN [dispatchDrops EXCEPT ![kind] = @ + 1]
                                ELSE dispatchDrops
            /\ UNCHANGED dispatchCh
    /\ UNCHANGED <<ctxDone, streamer, dispatchOpen, handling, buses, consumers,
                   storeOpen, recon, shutdown, process, quotes>>

\* The read fails: the connection ended, the heartbeat failed, or the context
\* was cancelled.  runOnce cancels the heartbeat.
ReadFails ==
    /\ stage = "receiving"
    /\ stage' = "closing"
    /\ UNCHANGED <<ctxDone, heartbeat, connected, conn, dispatch, buses, consumers,
                   storeOpen, recon, shutdown, process, received, quotes>>

\* heartbeatLoop returns: a heartbeat could not be written, or it was cancelled.
HeartbeatEnds ==
    /\ heartbeat = "ticking"
    /\ stage \in {"receiving", "closing"}
    /\ heartbeat' = "done"
    /\ UNCHANGED <<ctxDone, stage, connected, conn, dispatch, buses, consumers,
                   storeOpen, recon, shutdown, process, received, quotes>>

\* Fault: runOnce does not wait for the heartbeat goroutine.
CloseDispatchAtOnce ==
    /\ stage = "closing"
    /\ stage' = "draining"
    /\ dispatchOpen' = FALSE
    /\ UNCHANGED <<ctxDone, heartbeat, connected, conn, dispatchCh, handling,
                   dispatchDrops, buses, consumers, storeOpen, recon, shutdown,
                   process, received, quotes>>

\* <-heartbeatDone; close(dispatchCh).
CloseDispatch ==
    /\ stage = "closing"
    /\ heartbeat = "done"
    /\ heartbeat' = "off"
    /\ stage' = "draining"
    /\ dispatchOpen' = FALSE
    /\ UNCHANGED <<ctxDone, connected, conn, dispatchCh, handling, dispatchDrops,
                   buses, consumers, storeOpen, recon, shutdown, process,
                   received, quotes>>

\* The dispatch goroutine has nothing in hand.
DispatcherIdle == handling = None /\ \A k \in AccountKind : sending[k] = None

\* Fault: runOnce returns without waiting for dispatchDone.
ReturnAtOnce ==
    /\ stage = "draining"
    /\ stage' = "ended"
    /\ UNCHANGED <<ctxDone, heartbeat, connected, conn, dispatch, buses, consumers,
                   storeOpen, recon, shutdown, process, received, quotes>>

\* <-dispatchDone: the goroutine has emptied the closed channel.
DispatchDone ==
    /\ stage = "draining"
    /\ dispatchCh = <<>> /\ DispatcherIdle
    /\ stage' = "ended"
    /\ UNCHANGED <<ctxDone, heartbeat, connected, conn, dispatch, buses, consumers,
                   storeOpen, recon, shutdown, process, received, quotes>>

\* setDisconnected, then the wait.
Disconnected ==
    /\ stage = "ended"
    /\ ~ctxDone
    /\ stage' = "backoff"
    /\ connected' = FALSE
    /\ UNCHANGED <<ctxDone, heartbeat, conn, dispatch, buses, consumers, storeOpen,
                   recon, shutdown, process, received, quotes>>

\* Start finds the context cancelled; the status is left as it is.
StartReturns ==
    /\ stage \in {"idle", "ended", "backoff"}
    /\ ctxDone
    /\ stage' = "stopped"
    /\ UNCHANGED <<ctxDone, heartbeat, connected, conn, dispatch, buses, consumers,
                   storeOpen, recon, shutdown, process, received, quotes>>

-----------------------------------------------------------------------------
(***************************************************************************)
(* Publishers.  Publish looks at closed and sends under the read lock.     *)
(***************************************************************************)

\* dispatchLoop takes a message.  One it cannot use is logged and forgotten.
Dispatch ==
    /\ dispatchCh # <<>> /\ DispatcherIdle
    /\ dispatchCh' = Tail(dispatchCh)
    /\ handling' = IF Head(dispatchCh).kind = "other" THEN None ELSE Head(dispatchCh)
    /\ UNCHANGED <<ctxDone, streamer, dispatchOpen, dispatchDrops, buses, consumers,
                   storeOpen, recon, shutdown, process, received, quotes>>

\* OnOrderEvent and its like: a closed bus swallows the event.
PublishEvent ==
    /\ handling # None
    /\ sending' = [sending EXCEPT ![handling.kind] =
                     IF busClosed[handling.kind] THEN None ELSE handling]
    /\ handling' = None
    /\ UNCHANGED <<ctxDone, streamer, dispatchCh, dispatchOpen, dispatchDrops, chan,
                   busClosed, busDrops, consumers, storeOpen, recon, shutdown,
                   process, received, quotes>>

\* OnQuote, from the market streamer's dispatch goroutine.
PublishQuote ==
    /\ sending["quote"] = None
    /\ quotes < MaxQuotes
    /\ quotes' = quotes + 1
    /\ sending' = [sending EXCEPT !["quote"] =
                     IF busClosed["quote"] THEN None
                     ELSE [kind |-> "quote", number |-> quotes + 1, saved |-> FALSE]]
    /\ UNCHANGED <<ctxDone, streamer, dispatch, chan, busClosed, busDrops, consumers,
                   storeOpen, recon, shutdown, process, received>>

\* Fault: the send does not look whether there is room.
SendAlways(b) ==
    /\ sending[b] # None
    /\ chan' = [chan EXCEPT ![b] = Append(@, sending[b])]
    /\ sending' = [sending EXCEPT ![b] = None]
    /\ UNCHANGED <<ctxDone, streamer, dispatch, busClosed, busDrops, consumers,
                   storeOpen, recon, shutdown, process, received, quotes>>

\* The send to the bus's one subscriber, or the drop, and the unlock.
Send(b) ==
    /\ sending[b] # None
    /\ IF Len(chan[b]) < BusSize
       THEN /\ chan' = [chan EXCEPT ![b] = Append(@, sending[b])]
            /\ UNCHANGED busDrops
       ELSE /\ busDrops' = [busDrops EXCEPT ![b] = @ + 1]
            /\ UNCHANGED chan
    /\ sending' = [sending EXCEPT ![b] = None]
    /\ UNCHANGED <<ctxDone, streamer, dispatch, busClosed, consumers, storeOpen, recon,
                   shutdown, process, received, quotes>>

-----------------------------------------------------------------------------
(***************************************************************************)
(* The consumer goroutines of root.go, and the reconciler.                 *)
(***************************************************************************)

\* A consumer receives.  orderConsumer goes on at once if nothing was filled.
Consume(b) ==
    /\ consumer[b] = "ranging" /\ held[b] = None
    /\ chan[b] # <<>>
    /\ chan' = [chan EXCEPT ![b] = Tail(@)]
    /\ held' = [held EXCEPT ![b] = IF b = "order" /\ ~Head(chan[b]).saved THEN None
                                   ELSE Head(chan[b])]
    /\ UNCHANGED <<ctxDone, streamer, dispatch, sending, busClosed, busDrops, consumer,
                   failedWrites, storeOpen, recon, shutdown, process, received,
                   quotes>>

\* WriteFill or WriteBalance returned, or the book was changed.
Applied(b) ==
    /\ held[b] # None
    /\ held' = [held EXCEPT ![b] = None]
    /\ UNCHANGED <<ctxDone, streamer, dispatch, buses, consumer, failedWrites, storeOpen,
                   recon, shutdown, process, received, quotes>>

\* The write fails: logged, and never tried again.
WriteFails(b) ==
    /\ b \in AccountKind /\ held[b].saved
    /\ held' = [held EXCEPT ![b] = None]
    /\ failedWrites' = [failedWrites EXCEPT ![b] = @ + 1]
    /\ UNCHANGED <<ctxDone, streamer, dispatch, buses, consumer, storeOpen, recon, shutdown,
                   process, received, quotes>>

\* The range over a closed and empty channel ends: wg.Done.
RangeEnds(b) ==
    /\ consumer[b] = "ranging" /\ held[b] = None
    /\ busClosed[b] /\ chan[b] = <<>>
    /\ consumer' = [consumer EXCEPT ![b] = "done"]
    /\ UNCHANGED <<ctxDone, streamer, dispatch, buses, held, failedWrites, storeOpen,
                   recon, shutdown, process, received, quotes>>

\* The ticker fires; the pass writes snapshots to the store.
ReconcilerPass ==
    /\ recon = "waiting"
    /\ recon' = "passing"
    /\ UNCHANGED <<ctxDone, streamer, dispatch, buses, consumers, storeOpen, shutdown,
                   process, received, quotes>>

ReconcilerRests ==
    /\ recon = "passing"
    /\ recon' = "waiting"
    /\ UNCHANGED <<ctxDone, streamer, dispatch, buses, consumers, storeOpen, shutdown,
                   process, received, quotes>>

ReconcilerStops ==
    /\ recon = "waiting" /\ ctxDone
    /\ recon' = "done"
    /\ UNCHANGED <<ctxDone, streamer, dispatch, buses, consumers, storeOpen, shutdown,
                   process, received, quotes>>

-----------------------------------------------------------------------------
(***************************************************************************)
(* The shutdown function of root.go and the watch command.                 *)
(***************************************************************************)

CloseOrder == <<"order", "balance", "position", "quote">>

\* The goroutine that ran Start, or waited for the context, calls shutdown.
BeginShutdown ==
    /\ shutdown = "none"
    /\ stage = "stopped" \/ (stage = "absent" /\ ctxDone)
    /\ shutdown' = "buses"
    /\ UNCHANGED <<ctxDone, streamer, dispatch, buses, consumers, storeOpen, recon, process,
                   received, quotes>>

\* Step 1 closes the buses one after the other.
ClosesNext(b) ==
    /\ shutdown = "buses"
    /\ \E i \in DOMAIN CloseOrder :
         /\ b = CloseOrder[i]
         /\ \A j \in DOMAIN CloseOrder : busClosed[CloseOrder[j]] <=> j < i
    /\ busClosed' = [busClosed EXCEPT ![b] = TRUE]
    /\ shutdown' = IF b = "quote" THEN "consumers" ELSE shutdown
    /\ UNCHANGED <<ctxDone, streamer, dispatch, sending, chan, busDrops, consumers,
                   storeOpen, recon, process, received, quotes>>

\* Fault: Close does not take the lock.
CloseUnlocked(b) == ClosesNext(b)

\* Close waits for publishers that hold the read lock.
CloseBus(b) == sending[b] = None /\ ClosesNext(b)

\* Fault: the reconciler is not in the wait group.
CloseStoreEarly ==
    /\ shutdown = "consumers"
    /\ \A b \in Bus : consumer[b] = "done"
    /\ shutdown' = "store"
    /\ storeOpen' = FALSE
    /\ UNCHANGED <<ctxDone, streamer, dispatch, buses, consumers, recon,
                   process, received, quotes>>

\* Fault: wg.Add(5), also when there is no reconciler.
CloseStoreForFive ==
    /\ recon = "done"
    /\ CloseStoreEarly

\* Steps 2 and 3: wg.Wait returned, then the store is closed.
CloseStore ==
    /\ shutdown = "consumers"
    /\ \A b \in Bus : consumer[b] = "done"
    /\ recon \in {"absent", "done"}
    /\ shutdown' = "store"
    /\ storeOpen' = FALSE
    /\ UNCHANGED <<ctxDone, streamer, dispatch, buses, consumers, recon,
                   process, received, quotes>>

\* Step 4: close(watchShutdown).
SignalWatch ==
    /\ shutdown = "store"
    /\ shutdown' = "complete"
    /\ UNCHANGED <<ctxDone, streamer, dispatch, buses, consumers, storeOpen, recon, process,
                   received, quotes>>

\* The context under which the command runs is cancelled.
Cancel ==
    /\ ~ctxDone
    /\ ctxDone' = TRUE
    /\ UNCHANGED <<streamer, dispatch, buses, consumers, storeOpen, recon,
                   shutdown, process, received, quotes>>

\* watch found the context done and its shutdown complete.
WatchReturns ==
    /\ ctxDone /\ shutdown = "complete"
    /\ process' = "clean"
    /\ UNCHANGED <<ctxDone, streamer, dispatch, buses, consumers, storeOpen, recon,
                   shutdown, received, quotes>>

\* watch gives up 15 seconds after the context was done.
WatchTimesOut ==
    /\ ctxDone
    /\ process' = "gone"
    /\ UNCHANGED <<ctxDone, streamer, dispatch, buses, consumers, storeOpen, recon,
                   shutdown, received, quotes>>

\* Ctrl+C or a kill: no handler is installed.  The end of another command's
\* RunE is the same to the goroutines.
Interrupt ==
    /\ ~ctxDone
    /\ process' = "gone"
    /\ UNCHANGED <<ctxDone, streamer, dispatch, buses, consumers, storeOpen, recon,
                   shutdown, received, quotes>>

-----------------------------------------------------------------------------
Streamer ==
    \/ Connect \/ ConnectFails \/ Subscribed \/ ReadFails \/ HeartbeatEnds
    \/ CloseDispatch \/ DispatchDone \/ Disconnected \/ StartReturns

Incoming ==
    \/ \E filled \in BOOLEAN : Receive("order", filled)
    \/ Receive("balance", TRUE)
    \/ \E kind \in {"position", "other"} : Receive(kind, FALSE)

Publishing == Dispatch \/ PublishEvent \/ \E b \in Bus : Send(b)

Consuming == \E b \in Bus : Consume(b) \/ Applied(b) \/ WriteFails(b) \/ RangeEnds(b)

Others == PublishQuote \/ ReconcilerPass \/ ReconcilerRests \/ ReconcilerStops

Shutdown == BeginShutdown \/ CloseStore \/ SignalWatch \/ \E b \in Bus : CloseBus(b)

Process == Cancel \/ WatchReturns \/ WatchTimesOut \/ Interrupt

Next == Running /\ (Streamer \/ Incoming \/ Publishing \/ Consuming \/ Others \/ Shutdown \/ Process)

Spec == Init /\ [][Next]_vars

\* The steps the program owes: goroutines are scheduled and calls return; a
\* cancelled context makes a dial or a read fail and the heartbeat end.
Due ==
    \/ ConnectFails \/ Subscribed \/ (ctxDone /\ ReadFails)
    \/ (stage = "closing" /\ HeartbeatEnds)
    \/ CloseDispatch \/ DispatchDone \/ Disconnected \/ StartReturns
    \/ Publishing \/ Consuming \/ Shutdown \/ WatchReturns

\* A pass of the reconciler ends, and of two ready cases its select does not
\* take the ticker for ever.  Neither a cancellation nor the 15 seconds nor
\* Ctrl+C is due.
Fairness ==
    /\ WF_vars(Running /\ Due)
    /\ WF_vars(Running /\ ReconcilerRests)
    /\ SF_vars(Running /\ ReconcilerStops)

FairSpec == Spec /\ Fairness

-----------------------------------------------------------------------------
(***************************************************************************)
(* Properties.                                                             *)
(***************************************************************************)

\* Events of a kind on their way: in the consumer's hand, on the bus, under its
\* lock, with the dispatcher, in the dispatch channel.
OnTheWay(k) ==
    {e \in {held[k], sending[k], handling} \cup ToSet(chan[k]) \cup ToSet(dispatchCh) :
        e.kind = k}

Queues == INSTANCE LossyQueues WITH
    Kind <- AccountKind,
    Event <- 1..MaxEvents,
    pending <- [k \in AccountKind |-> {e.number : e \in OnTheWay(k)}],
    latest <- received,
    lost <- [k \in AccountKind |-> dispatchDrops[k] + busDrops[k] + failedWrites[k]],
    open <- storeOpen

Older(S, T, k) == \A d \in S, e \in T : d.kind = k /\ e.kind = k => d.number < e.number
Ascending(es) == \A i, j \in DOMAIN es : i < j => es[i].number < es[j].number

\* The events of a kind stand in line, from the consumer back to the dispatch
\* channel, and none of them stands there twice.
InLine(k) ==
    /\ Older({held[k]}, {sending[k], handling} \cup ToSet(chan[k]) \cup ToSet(dispatchCh), k)
    /\ Older(ToSet(chan[k]), {sending[k], handling} \cup ToSet(dispatchCh), k)
    /\ Older({sending[k]}, {handling} \cup ToSet(dispatchCh), k)
    /\ Older({handling}, ToSet(dispatchCh), k)
    /\ Ascending(chan[k]) /\ Ascending(dispatchCh)

\* For account events the whole chain is a lossy queue per kind: no event
\* disappears without being counted or logged, none overtakes another or comes
\* twice, not even across a reconnect, and the store is closed only when none is
\* left.  This is what the order of runOnce's teardown and of shutdown's steps is
\* for: a publisher still at work when its bus is closed would lose events silently.
QueuesSpec == Queues!Spec /\ [](\A k \in AccountKind : InLine(k))

\* Nobody sends on a closed channel, which would panic: the market streamer
\* goes on publishing while shutdown closes the buses, and only the lock that
\* Publish and Close share keeps the send and the close apart.
NoSendOnClosedChannel == \A b \in Bus : sending[b] # None => ~busClosed[b]

\* The store is closed after its last writer is through: order and balance
\* consumers and a reconciler pass in progress (root.go:169-172).
StoreOutlivesWriters ==
    (\E b \in Bus : held[b].saved) \/ recon = "passing" => storeOpen

\* The goroutines of a connection are gone when the next one is dialed and
\* while there is none (runOnce's teardown): nothing of it is still queued, and
\* no heartbeat with the old token runs.
ConnectionsDoNotOverlap ==
    stage \in {"idle", "dialing", "backoff", "stopped"}
      => dispatchCh = <<>> /\ DispatcherIdle /\ ~dispatchOpen /\ heartbeat = "off"

\* Nothing is on its way, of whatever kind.
Drained ==
    /\ dispatchCh = <<>> /\ handling = None
    /\ \A b \in Bus : sending[b] = None /\ chan[b] = <<>> /\ held[b] = None

\* "clean shutdown complete" is said only when everything received was dealt
\* with, no consumer runs and the store is closed (watch.go:66).
CleanMeansDrained ==
    process = "clean" =>
      /\ ~storeOpen
      /\ \A b \in Bus : consumer[b] = "done"
      /\ Drained

\* The steps of the shutdown come in the order they need (root.go:207-222).
ShutdownIsOrderly == StoreOutlivesWriters /\ CleanMeansDrained

\* Once its context is cancelled the runtime winds itself up, with or without an
\* account streamer: no goroutine waits for another that will not end.
ShutdownEnds == ctxDone ~> process \in {"clean", "gone"}

\* watch.go:34 says of the command "Press Ctrl+C to trigger a clean shutdown":
\* whatever ends it by hand, the consumers were drained and the store closed.
CtrlCIsClean ==
    process = "gone" /\ ~ctxDone =>
      /\ ~storeOpen /\ Drained
=============================================================================
