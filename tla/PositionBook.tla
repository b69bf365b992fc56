---------------------------- MODULE PositionBook ----------------------------
(***************************************************************************)
(* The position side of the MarkBook and its two writers: the account      *)
(* streamer's events, which reach it through the positionBus and           *)
(* positionConsumer (cmd/root.go), and the reconciler (internal/           *)
(* reconciler), which fetches the positions by REST now and then, loads    *)
(* what is missing or differs and removes what was absent long enough.     *)
(*                                                                         *)
(* The book's lock covers one call, so a consumer's event may fall between *)
(* any two calls of a pass.  PositionLoadedAt matters only in comparison   *)
(* with the start of the pass: fresh holds the symbols loaded since.       *)
(*                                                                         *)
(* The answer of Exchange.Positions is put together from pages that are    *)
(* requested one after the other (Pagination): each position is as it was  *)
(* before or after what happened to it during the fetch, and one may be    *)
(* skipped for each that left the list meanwhile.                          *)
(***************************************************************************)
EXTENDS Naturals, Sequences, FiniteSets

CONSTANTS
    Symbol,
    Quantity,          \* what a position may count, without 0
    Price,             \* average open prices, without 0
    AbsenceThreshold,  \* Config.AbsenceThreshold
    Capacity,          \* of the consumer's channel
    MaxTrades          \* bound on what happens at the broker

ASSUME BookAssumption ==
    /\ Quantity \subseteq Nat \ {0}
    /\ Price \subseteq Nat \ {0}
    /\ AbsenceThreshold \in Nat \ {0}
    /\ Capacity \in Nat \ {0}
    /\ MaxTrades \in Nat

VARIABLES
    broker,         \* the account's positions at the broker
    trades,
    channel,        \* events published and not consumed yet
    positions,      \* MarkBook.positions
    phase,          \* where runOnce is
    departed,       \* how many positions closed since the fetch began
    rest,           \* restSymbols of this pass; the positions at the start of
                    \* the fetch until it has returned
    todo,           \* symbols the current loop has still to visit
    held,           \* the symbol between its Snapshot and its LoadPosition
    fresh,          \* symbols loaded since the pass started
    mismatched,     \* MismatchCount > 0
    writeFailed,    \* storeWriteErrors > 0
    absenceCounts,
    latest,         \* latestResult.Status
    absentRun       \* history: successive REST answers without the symbol

pass == <<departed, rest, todo, held, mismatched, writeFailed>>
vars == <<broker, trades, channel, positions, phase, pass, fresh, absenceCounts,
          latest, absentRun>>

\* A quantity of 0 stands for "no position"; streamed events carry no price.
Position == [qty : Quantity, avg : Price]
None == [qty |-> 0, avg |-> 0]
BookEntry == [qty : Quantity, avg : Price \cup {0}] \cup {None}
Event == [symbol : Symbol, qty : Quantity \cup {0}]
Status == {"ok", "drift_detected", "partial", "error"}

TypeOK ==
    /\ broker \in [Symbol -> Position \cup {None}]
    /\ trades \in 0..MaxTrades
    /\ channel \in Seq(Event) /\ Len(channel) <= Capacity
    /\ positions \in [Symbol -> BookEntry]
    /\ phase \in {"waiting", "fetching", "positions", "absences"}
    /\ departed \in 0..MaxTrades
    /\ rest \in [Symbol -> Position \cup {None}]
    /\ todo \subseteq Symbol
    /\ held \subseteq Symbol
    /\ fresh \subseteq Symbol
    /\ mismatched \in BOOLEAN
    /\ writeFailed \in BOOLEAN
    /\ absenceCounts \in [Symbol -> 0..AbsenceThreshold - 1]
    /\ latest \in Status \cup {"none"}
    /\ absentRun \in [Symbol -> 0..AbsenceThreshold]

\* seedMarkBookFromREST loaded what the broker had, or failed and loaded nothing.
Init ==
    /\ broker \in [Symbol -> Position \cup {None}]
    /\ trades = 0
    /\ channel = <<>>
    /\ positions \in {broker, [s \in Symbol |-> None]}
    /\ phase = "waiting"
    /\ departed = 0
    /\ rest = [s \in Symbol |-> None]
    /\ todo = {}
    /\ held = {}
    /\ fresh = {}
    /\ mismatched = FALSE
    /\ writeFailed = FALSE
    /\ absenceCounts = [s \in Symbol |-> 0]
    /\ latest = "none"
    /\ absentRun = [s \in Symbol |-> 0]

-----------------------------------------------------------------------------
(***************************************************************************)
(* The stream.                                                             *)
(***************************************************************************)

\* Fault: Publish queues beyond the channel's capacity.
PublishUnbounded(event) == channel' = Append(channel, event)

\* Broker.Publish: an event that finds the channel full is dropped.
Publish(event) ==
    channel' = IF Len(channel) < Capacity THEN Append(channel, event) ELSE channel

\* A position opens, changes or closes at the broker.  The event is published,
\* or lost because the streamer is not connected.
Trade(s, position) ==
    /\ trades < MaxTrades
    /\ position # broker[s]
    /\ trades' = trades + 1
    /\ broker' = [broker EXCEPT ![s] = position]
    /\ \/ Publish([symbol |-> s, qty |-> position.qty])
       \/ UNCHANGED channel
    /\ departed' = IF phase = "fetching" /\ position = None THEN departed + 1 ELSE departed
    /\ UNCHANGED <<positions, phase, rest, todo, held, fresh, mismatched, writeFailed,
                   absenceCounts, latest, absentRun>>

\* positionConsumer: Open and Change load the position without a price, Close
\* removes it.
Consume ==
    /\ channel # <<>>
    /\ LET event == Head(channel) IN
       /\ positions' = [positions EXCEPT ![event.symbol] =
                           IF event.qty = 0 THEN None ELSE [qty |-> event.qty, avg |-> 0]]
       /\ fresh' = IF event.qty = 0 THEN fresh \ {event.symbol}
                                    ELSE fresh \cup {event.symbol}
    /\ channel' = Tail(channel)
    /\ UNCHANGED <<broker, trades, phase, pass, absenceCounts, latest, absentRun>>

-----------------------------------------------------------------------------
(***************************************************************************)
(* A pass of the reconciler (runOnce).                                     *)
(***************************************************************************)

\* fetchedAt is taken and the request leaves.
StartPass ==
    /\ phase = "waiting"
    /\ phase' = "fetching"
    /\ departed' = 0
    /\ rest' = broker
    /\ fresh' = {}
    /\ mismatched' = FALSE
    /\ writeFailed' = FALSE
    /\ UNCHANGED <<broker, trades, channel, positions, todo, held,
                   absenceCounts, latest, absentRun>>

\* ex.Positions fails.
FetchFails ==
    /\ phase = "fetching"
    /\ phase' = "waiting"
    /\ latest' = "error"
    /\ departed' = 0
    /\ rest' = [s \in Symbol |-> None]
    /\ UNCHANGED <<broker, trades, channel, positions, todo, held, mismatched, writeFailed,
                   fresh, absenceCounts, absentRun>>

\* What the pages may add up to.
Answers ==
    {answer \in [Symbol -> {rest[s] : s \in Symbol} \cup {broker[s] : s \in Symbol} \cup {None}] :
        LET skipped == {s \in Symbol : answer[s] \notin {rest[s], broker[s]}} IN
        /\ \A s \in skipped : answer[s] = None
        /\ Cardinality(skipped) <= departed}

Successive(s) ==
    IF rest'[s] # None THEN 0
    ELSE IF absentRun[s] < AbsenceThreshold THEN absentRun[s] + 1 ELSE AbsenceThreshold

\* Fault: the absence counts live for one pass only.
FetchForgetting ==
    /\ phase = "fetching"
    /\ phase' = "positions"
    /\ rest' \in Answers
    /\ departed' = 0
    /\ todo' = {s \in Symbol : rest'[s] # None}
    /\ absentRun' = [s \in Symbol |-> Successive(s)]
    /\ absenceCounts' = [s \in Symbol |-> 0]
    /\ UNCHANGED <<broker, trades, channel, positions, held, mismatched, writeFailed,
                   fresh, latest>>

\* The last page has arrived.
Fetch ==
    /\ phase = "fetching"
    /\ phase' = "positions"
    /\ rest' \in Answers
    /\ departed' = 0
    /\ todo' = {s \in Symbol : rest'[s] # None}
    /\ absentRun' = [s \in Symbol |-> Successive(s)]
    /\ UNCHANGED <<broker, trades, channel, positions, held, mismatched, writeFailed,
                   fresh, absenceCounts, latest>>

\* Newer than the fetch, and priced: left as it is.
LeftIntact(s) == positions[s] # None /\ s \in fresh /\ positions[s].avg # 0

\* Missing in the book, or priced differently.  The quantity is not compared.
Differs(s) == positions[s] = None \/ positions[s].avg # rest[s].avg

\* Fault: an absence count outlives the symbol's return.
CompareKeepingCount(s) ==
    /\ phase = "positions" /\ held = {} /\ s \in todo
    /\ todo' = todo \ {s}
    /\ LET load == Differs(s) /\ ~LeftIntact(s) IN
       /\ held' = IF load THEN {s} ELSE {}
       /\ mismatched' = (mismatched \/ load)
    /\ writeFailed' \in {writeFailed, TRUE}
    /\ UNCHANGED <<broker, trades, channel, positions, phase, departed, rest, fresh,
                   absenceCounts, latest, absentRun>>

\* Snapshot of the next REST symbol and what follows from it, short of the call
\* of LoadPosition.
Compare(s) ==
    /\ phase = "positions" /\ held = {} /\ s \in todo
    /\ todo' = todo \ {s}
    /\ LET load == Differs(s) /\ ~LeftIntact(s) IN
       /\ held' = IF load THEN {s} ELSE {}
       /\ mismatched' = (mismatched \/ load)
    /\ absenceCounts' = [absenceCounts EXCEPT ![s] = 0]
    /\ writeFailed' \in {writeFailed, TRUE}
    /\ UNCHANGED <<broker, trades, channel, positions, phase, departed, rest, fresh, latest,
                   absentRun>>

LoadPosition ==
    \E s \in held :
        /\ positions' = [positions EXCEPT ![s] = rest[s]]
        /\ fresh' = fresh \cup {s}
        /\ held' = {}
        /\ UNCHANGED <<broker, trades, channel, phase, departed, rest, todo, mismatched,
                       writeFailed, absenceCounts, latest, absentRun>>

\* AllSnapshots: the symbols in the book that the answer did not have.
ListAbsent ==
    /\ phase = "positions" /\ held = {} /\ todo = {}
    /\ phase' = "absences"
    /\ todo' = {s \in Symbol : positions[s] # None /\ rest[s] = None}
    /\ UNCHANGED <<broker, trades, channel, positions, departed, rest, held, mismatched,
                   writeFailed, fresh, absenceCounts, latest, absentRun>>

\* One more pass without the symbol: it is removed, or awaits confirmation.
CountAbsence(s) ==
    /\ phase = "absences" /\ s \in todo
    /\ todo' = todo \ {s}
    /\ mismatched' = TRUE
    /\ IF absenceCounts[s] + 1 >= AbsenceThreshold
       THEN /\ positions' = [positions EXCEPT ![s] = None]
            /\ fresh' = fresh \ {s}
            /\ absenceCounts' = [absenceCounts EXCEPT ![s] = 0]
       ELSE /\ absenceCounts' = [absenceCounts EXCEPT ![s] = @ + 1]
            /\ UNCHANGED <<positions, fresh>>
    /\ UNCHANGED <<broker, trades, channel, phase, departed, rest, held, writeFailed,
                   latest, absentRun>>

EndPass ==
    /\ phase = "absences" /\ todo = {}
    /\ phase' = "waiting"
    /\ latest' = CASE writeFailed -> "partial"
                   [] mismatched /\ ~writeFailed -> "drift_detected"
                   [] OTHER -> "ok"
    /\ rest' = [s \in Symbol |-> None]
    /\ UNCHANGED <<broker, trades, channel, positions, departed, todo, held, mismatched,
                   writeFailed, fresh, absenceCounts, absentRun>>

PassStep ==
    \/ \E s \in Symbol : Compare(s) \/ CountAbsence(s)
    \/ LoadPosition
    \/ ListAbsent
    \/ EndPass

Next ==
    \/ \E s \in Symbol, position \in Position \cup {None} : Trade(s, position)
    \/ Consume
    \/ StartPass
    \/ FetchFails
    \/ Fetch
    \/ PassStep

Spec == Init /\ [][Next]_vars

(***************************************************************************)
(* The consumer and the reconciler keep running, and REST answers again    *)
(* and again.  Nothing makes the broker trade or the stream deliver.       *)
(***************************************************************************)
FairSpec ==
    /\ Spec
    /\ WF_vars(Consume)
    /\ WF_vars(StartPass)
    /\ WF_vars(PassStep)
    /\ SF_vars(Fetch)

-----------------------------------------------------------------------------
(***************************************************************************)
(* Properties.                                                             *)
(***************************************************************************)

\* "Position removal requires N consecutive REST passes where the symbol is
\* absent": whatever the stream adds or removes in between, the reconciler only
\* removes what the last N answers were without.  (An answer may be without a
\* position that the broker has: the pages skipped it.)
RemovalNeedsAbsences ==
    [][\A s \in Symbol :
          CountAbsence(s) /\ positions[s] # None /\ positions'[s] = None
              => absentRun[s] >= AbsenceThreshold]_vars

\* Once the account is quiet the book comes to hold the broker's symbols at the
\* broker's prices, whichever events were lost, late or dropped.
EventuallyAgrees ==
    <>[](\A s \in Symbol : positions[s].avg = broker[s].avg)
=============================================================================
