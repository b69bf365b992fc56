------------------------- MODULE PositionBookProofs -------------------------
(***************************************************************************)
(* Proofs about PositionBook, for any symbols, threshold, channel and      *)
(* number of trades.                                                       *)
(***************************************************************************)
EXTENDS PositionBook, SequenceTheorems, TLAPS

\* Between passes an absence count is at most the run of answers without the
\* symbol; in a pass it is less as long as the symbol is still to be counted, and
\* zero once an answer that has the symbol was compared.
CountsAreBacked ==
    \A s \in Symbol :
        IF phase \in {"waiting", "fetching"} THEN absenceCounts[s] <= absentRun[s]
        ELSE IF rest[s] # None
             THEN s \in todo \/ absenceCounts[s] = 0
             ELSE /\ absenceCounts[s] <= absentRun[s]
                  /\ phase = "positions" \/ s \in todo => absenceCounts[s] < absentRun[s]

\* The loops visit what they are for.
TodoIsOfPhase ==
    /\ phase \in {"waiting", "fetching"} => todo = {}
    /\ phase = "positions" => \A s \in todo : rest[s] # None
    /\ phase = "absences" => \A s \in todo : rest[s] = None
    /\ held # {} => phase = "positions"
    /\ \A s \in held : rest[s] # None

\* The positions that closed during a fetch are among the trades.
DeparturesAreTrades == departed <= trades

\* A removal is due because counts never run ahead of the answers, in whatever
\* place of a pass the stream changes the book.
IInv ==
    /\ TypeOK
    /\ DeparturesAreTrades
    /\ CountsAreBacked
    /\ TodoIsOfPhase

-----------------------------------------------------------------------------

LEMMA InitIInv == Init => IInv
<1> SUFFICES ASSUME Init
             PROVE  IInv
    OBVIOUS
<1>1. channel \in Seq(Event) /\ Len(channel) <= Capacity
    BY BookAssumption DEF Init
<1>2. positions \in [Symbol -> BookEntry]
    BY DEF Init, BookEntry, Position, None
<1>3. /\ 0 \in 0..MaxTrades /\ 0 \in 0..AbsenceThreshold - 1 /\ 0 \in 0..AbsenceThreshold
    BY BookAssumption
<1>4. TypeOK
    BY <1>1, <1>2, <1>3 DEF Init, TypeOK
<1>5. DeparturesAreTrades /\ CountsAreBacked /\ TodoIsOfPhase
    BY DEF Init, DeparturesAreTrades, CountsAreBacked, TodoIsOfPhase
<1> QED
    BY <1>4, <1>5 DEF IInv

\* The stream.
LEMMA TradeKeeps ==
    ASSUME IInv, NEW s \in Symbol, NEW position \in Position \cup {None}, Trade(s, position)
    PROVE  IInv'
<1> USE BookAssumption DEF IInv, pass
<1>1. TypeOK'
    <2>1. channel' \in Seq(Event) /\ Len(channel') <= Capacity
        <3>1. channel \in Seq(Event) /\ Len(channel) <= Capacity
            BY DEF TypeOK
        <3> DEFINE event == [symbol |-> s, qty |-> position.qty]
        <3>2. event \in Event
            BY DEF Event, Position, None
        <3>3. \/ channel' = channel
              \/ Len(channel) < Capacity /\ channel' = Append(channel, event)
            BY DEF Trade, Publish
        <3> HIDE DEF event
        <3> QED
            BY <3>1, <3>2, <3>3, AppendProperties, LenProperties
    <2>2. trades' \in 0..MaxTrades /\ departed' \in 0..MaxTrades
        BY DEF Trade, TypeOK, DeparturesAreTrades
    <2>3. broker' \in [Symbol -> Position \cup {None}]
        BY DEF Trade, TypeOK
    <2>4. UNCHANGED <<positions, phase, rest, todo, held, fresh, mismatched, writeFailed,
                      absenceCounts, latest, absentRun>>
        BY DEF Trade
    <2> QED
        BY <2>1, <2>2, <2>3, <2>4 DEF TypeOK
<1>2. DeparturesAreTrades'
    BY DEF Trade, TypeOK, DeparturesAreTrades
<1>3. CountsAreBacked'
    BY DEF Trade, TypeOK, CountsAreBacked, TodoIsOfPhase
<1>4. TodoIsOfPhase'
    BY DEF Trade, TypeOK, TodoIsOfPhase
<1> QED
    BY <1>1, <1>2, <1>3, <1>4

LEMMA ConsumeKeeps ==
    ASSUME IInv, Consume
    PROVE  IInv'
<1> USE BookAssumption DEF IInv, pass
<1>1. TypeOK'
    <2>1. channel' \in Seq(Event) /\ Len(channel') <= Capacity /\ Head(channel) \in Event
        <3>1. channel \in Seq(Event) /\ Len(channel) <= Capacity
            BY DEF TypeOK
        <3>2. channel # <<>> /\ channel' = Tail(channel)
            BY DEF Consume
        <3> QED
            BY <3>1, <3>2, HeadTailProperties, EmptySeq
    <2> DEFINE event == Head(channel)
    <2>2. /\ positions' = [positions EXCEPT ![event.symbol] =
                              IF event.qty = 0 THEN None ELSE [qty |-> event.qty, avg |-> 0]]
          /\ fresh' \subseteq fresh \cup {event.symbol}
        BY DEF Consume
    <2>3. event.symbol \in Symbol /\ event.qty \in Quantity \cup {0}
        BY <2>1 DEF Event
    <2> HIDE DEF event
    <2>4. None \in BookEntry /\ (event.qty # 0 => [qty |-> event.qty, avg |-> 0] \in BookEntry)
        BY <2>3 DEF BookEntry
    <2>5. positions' \in [Symbol -> BookEntry] /\ fresh' \subseteq Symbol
        BY <2>2, <2>3, <2>4 DEF TypeOK
    <2>6. UNCHANGED <<broker, trades, phase, pass, absenceCounts, latest, absentRun>>
        BY DEF Consume
    <2> QED
        BY <2>1, <2>5, <2>6 DEF TypeOK
<1>2. DeparturesAreTrades'
    BY DEF Consume, TypeOK, DeparturesAreTrades
<1>3. CountsAreBacked'
    BY DEF Consume, TypeOK, CountsAreBacked, TodoIsOfPhase
<1>4. TodoIsOfPhase'
    BY DEF Consume, TypeOK, TodoIsOfPhase
<1> QED
    BY <1>1, <1>2, <1>3, <1>4

\* A pass of the reconciler.
LEMMA StartPassKeeps ==
    ASSUME IInv, StartPass
    PROVE  IInv'
<1> USE BookAssumption DEF IInv, pass
<1>1. TypeOK'
    <2>1. departed' \in 0..MaxTrades /\ rest' \in [Symbol -> Position \cup {None}]
        BY DEF StartPass, TypeOK
    <2>2. phase' = "fetching" /\ fresh' = {} /\ mismatched' = FALSE /\ writeFailed' = FALSE
        BY DEF StartPass
    <2> QED
        BY <2>1, <2>2 DEF StartPass, TypeOK
<1>2. DeparturesAreTrades'
    BY DEF StartPass, TypeOK, DeparturesAreTrades
<1>3. CountsAreBacked'
    BY DEF StartPass, TypeOK, CountsAreBacked, TodoIsOfPhase
<1>4. TodoIsOfPhase'
    BY DEF StartPass, TypeOK, TodoIsOfPhase
<1> QED
    BY <1>1, <1>2, <1>3, <1>4

LEMMA FetchFailsKeeps ==
    ASSUME IInv, FetchFails
    PROVE  IInv'
<1> USE BookAssumption DEF IInv, pass
<1>1. TypeOK'
    <2>1. departed' \in 0..MaxTrades /\ rest' \in [Symbol -> Position \cup {None}]
        BY DEF FetchFails
    <2>2. phase' = "waiting" /\ latest' \in Status
        BY DEF FetchFails, Status
    <2> QED
        BY <2>1, <2>2 DEF FetchFails, TypeOK
<1>2. DeparturesAreTrades'
    BY DEF FetchFails, TypeOK, DeparturesAreTrades
<1>3. CountsAreBacked'
    BY DEF FetchFails, TypeOK, CountsAreBacked, TodoIsOfPhase
<1>4. TodoIsOfPhase'
    BY DEF FetchFails, TypeOK, TodoIsOfPhase
<1> QED
    BY <1>1, <1>2, <1>3, <1>4

LEMMA FetchKeeps ==
    ASSUME IInv, Fetch
    PROVE  IInv'
<1> USE BookAssumption DEF IInv, pass
<1>1. TypeOK'
    BY DEF Fetch, TypeOK, Answers, Successive
<1>2. DeparturesAreTrades'
    BY DEF Fetch, TypeOK, DeparturesAreTrades, Answers, Successive
<1>3. CountsAreBacked'
    BY DEF Fetch, TypeOK, CountsAreBacked, TodoIsOfPhase, Answers, Successive
<1>4. TodoIsOfPhase'
    BY DEF Fetch, TypeOK, TodoIsOfPhase, Answers, Successive
<1> QED
    BY <1>1, <1>2, <1>3, <1>4

LEMMA CompareKeeps ==
    ASSUME IInv, NEW s \in Symbol, Compare(s)
    PROVE  IInv'
<1> USE BookAssumption DEF IInv, pass
<1>1. TypeOK'
    <2>1. absenceCounts' \in [Symbol -> 0..AbsenceThreshold - 1]
        BY DEF Compare, TypeOK
    <2>2. /\ todo' \subseteq Symbol /\ held' \subseteq Symbol
          /\ mismatched' \in BOOLEAN /\ writeFailed' \in BOOLEAN
        BY DEF Compare, TypeOK
    <2> QED
        BY <2>1, <2>2 DEF Compare, TypeOK
<1>2. DeparturesAreTrades'
    BY DEF Compare, TypeOK, DeparturesAreTrades
<1>3. CountsAreBacked'
    BY DEF Compare, TypeOK, CountsAreBacked, TodoIsOfPhase
<1>4. TodoIsOfPhase'
    BY DEF Compare, TypeOK, TodoIsOfPhase
<1> QED
    BY <1>1, <1>2, <1>3, <1>4

LEMMA LoadPositionKeeps ==
    ASSUME IInv, LoadPosition
    PROVE  IInv'
<1> USE BookAssumption DEF IInv, pass
<1>1. TypeOK'
    BY DEF LoadPosition, TypeOK, BookEntry, Position
<1>2. DeparturesAreTrades'
    BY DEF LoadPosition, TypeOK, DeparturesAreTrades, BookEntry, Position
<1>3. CountsAreBacked'
    BY DEF LoadPosition, TypeOK, CountsAreBacked, TodoIsOfPhase, BookEntry, Position
<1>4. TodoIsOfPhase'
    BY DEF LoadPosition, TypeOK, TodoIsOfPhase, BookEntry, Position
<1> QED
    BY <1>1, <1>2, <1>3, <1>4

LEMMA ListAbsentKeeps ==
    ASSUME IInv, ListAbsent
    PROVE  IInv'
<1> USE BookAssumption DEF IInv, pass
<1>1. TypeOK'
    BY DEF ListAbsent, TypeOK
<1>2. DeparturesAreTrades'
    BY DEF ListAbsent, TypeOK, DeparturesAreTrades
<1>3. CountsAreBacked'
    BY DEF ListAbsent, TypeOK, CountsAreBacked, TodoIsOfPhase
<1>4. TodoIsOfPhase'
    BY DEF ListAbsent, TypeOK, TodoIsOfPhase
<1> QED
    BY <1>1, <1>2, <1>3, <1>4

LEMMA CountAbsenceKeeps ==
    ASSUME IInv, NEW s \in Symbol, CountAbsence(s)
    PROVE  IInv'
<1> USE BookAssumption DEF IInv, pass
<1>1. TypeOK'
    <2>1. absenceCounts' \in [Symbol -> 0..AbsenceThreshold - 1]
        <3>1. absenceCounts[s] \in 0..AbsenceThreshold - 1
            BY DEF TypeOK
        <3>2. CASE absenceCounts[s] + 1 >= AbsenceThreshold
            <4>1. absenceCounts' = [absenceCounts EXCEPT ![s] = 0] /\ 0 \in 0..AbsenceThreshold - 1
                BY <3>2 DEF CountAbsence
            <4> QED
                BY <4>1 DEF TypeOK
        <3>3. CASE absenceCounts[s] + 1 < AbsenceThreshold
            BY <3>1, <3>3 DEF CountAbsence, TypeOK
        <3> QED
            BY <3>1, <3>2, <3>3
    <2>2. positions' \in [Symbol -> BookEntry] /\ fresh' \subseteq Symbol
        BY DEF CountAbsence, TypeOK, BookEntry
    <2> QED
        BY <2>1, <2>2 DEF CountAbsence, TypeOK
<1>2. DeparturesAreTrades'
    BY DEF CountAbsence, TypeOK, DeparturesAreTrades
<1>3. CountsAreBacked'
    BY DEF CountAbsence, TypeOK, CountsAreBacked, TodoIsOfPhase
<1>4. TodoIsOfPhase'
    BY DEF CountAbsence, TypeOK, TodoIsOfPhase
<1> QED
    BY <1>1, <1>2, <1>3, <1>4

LEMMA EndPassKeeps ==
    ASSUME IInv, EndPass
    PROVE  IInv'
<1> USE BookAssumption DEF IInv, pass
<1>1. TypeOK'
    BY DEF EndPass, TypeOK, Status
<1>2. DeparturesAreTrades'
    BY DEF EndPass, TypeOK, DeparturesAreTrades, Status
<1>3. CountsAreBacked'
    BY DEF EndPass, TypeOK, CountsAreBacked, TodoIsOfPhase, Status
<1>4. TodoIsOfPhase'
    BY DEF EndPass, TypeOK, TodoIsOfPhase, Status
<1> QED
    BY <1>1, <1>2, <1>3, <1>4

-----------------------------------------------------------------------------

LEMMA NextKeeps ==
    ASSUME IInv, [Next]_vars
    PROVE  IInv'
<1>1. CASE UNCHANGED vars
    BY <1>1 DEF vars, pass, IInv, TypeOK, DeparturesAreTrades, CountsAreBacked,
        TodoIsOfPhase
<1> QED
    BY <1>1, TradeKeeps, ConsumeKeeps, StartPassKeeps, FetchFailsKeeps, FetchKeeps,
        CompareKeeps, LoadPositionKeeps, ListAbsentKeeps, CountAbsenceKeeps, EndPassKeeps
        DEF Next, PassStep

\* IInv holds whatever trades, lost events, failed fetches and passes follow each
\* other.
THEOREM Invariance == Spec => []IInv
<1>1. Init => IInv
    BY InitIInv
<1>2. IInv /\ [Next]_vars => IInv'
    BY NextKeeps
<1> QED
    BY <1>1, <1>2, PTL DEF Spec

\* Every variable keeps its type, the channel its capacity, and no absence count
\* reaches the threshold.
THEOREM TypeCorrect == Spec => []TypeOK
<1>1. IInv => TypeOK
    BY DEF IInv
<1> QED
    BY <1>1, Invariance, PTL

\* The reconciler removes a position only after AbsenceThreshold successive answers
\* without its symbol, whatever that threshold is.
THEOREM RemovalsAreBacked == Spec => RemovalNeedsAbsences
<1>1. ASSUME IInv, NEW s \in Symbol, CountAbsence(s), positions[s] # None, positions'[s] = None
      PROVE  absentRun[s] >= AbsenceThreshold
    <2>1. /\ absenceCounts[s] \in Nat /\ absentRun[s] \in Nat
          /\ absenceCounts[s] < absentRun[s]
        BY <1>1, BookAssumption DEF IInv, TypeOK, CountsAreBacked, TodoIsOfPhase,
            CountAbsence
    <2>2. absenceCounts[s] + 1 >= AbsenceThreshold
        BY <1>1 DEF CountAbsence
    <2> QED
        BY <2>1, <2>2, BookAssumption
<1>2. IInv /\ [Next]_vars =>
          [\A s \in Symbol : CountAbsence(s) /\ positions[s] # None /\ positions'[s] = None
              => absentRun[s] >= AbsenceThreshold]_vars
    BY <1>1
<1> QED
    BY <1>2, Invariance, PTL DEF Spec, RemovalNeedsAbsences
=============================================================================
