-------------------------- MODULE OrderSafetyProofs --------------------------
(***************************************************************************)
(* What holds of Client.CheckOrderSafety for every order limit, window,    *)
(* length of a run and number of processes.  TypeOK is inductive as it     *)
(* stands: its conjunct tripped = (count = MaxOrders + 1) is what stops    *)
(* the count at one past the limit, since Allow never counts once tripped. *)
(* What the breaker lets through is counted afterwards, from an invariant  *)
(* that tells the windows of the log of passed checks apart.               *)
(***************************************************************************)
EXTENDS OrderSafety, FiniteSetTheorems, SequenceTheorems, TLAPS

\* Allow on a breaker that has not tripped: the count it compares is between
\* one and one past the limit, and the window starts now or where it did.
LEMMA NextCountBounded ==
    ASSUME TypeOK, ~tripped
    PROVE  NextCount \in 1..(MaxOrders + 1)
<1>1. count \in 0..(MaxOrders + 1)
  BY DEF TypeOK
<1>2. count # MaxOrders + 1
  BY Zenon DEF TypeOK
<1> QED
  BY <1>1, <1>2, SafetyAssumption DEF NextCount

\* A count of zero is not one past the limit.
LEMMA UntrippedAtZero == FALSE = (0 = MaxOrders + 1)
<1>1. 0 # MaxOrders + 1
  BY SafetyAssumption
<1> QED
  BY <1>1, Zenon

\* The types, with the link between the count and the trip, hold initially.
LEMMA InitTypeOK == Init => TypeOK
<1> SUFFICES ASSUME Init PROVE TypeOK
  OBVIOUS
<1>1. count = 0 /\ tripped = FALSE
  BY DEF Init
<1>2. tripped = (count = MaxOrders + 1)
  BY <1>1, UntrippedAtZero
<1> QED
  BY <1>1, <1>2, SafetyAssumption DEF Init, TypeOK, Time

\* The entry that a check which passes adds to the log.
NewPass == [at |-> clock, process |-> restarts, window |-> windowStart',
            place |-> NextCount]

\* A check that passes adds its entry behind the others.
LEMMA PassIsLogged ==
    ASSUME TypeOK, NEW statFails \in BOOLEAN, CheckOrderSafety(statFails),
           ~(NextCount > MaxOrders)
    PROVE  /\ NewPass \in Pass
           /\ Len(passed) \in Nat
           /\ passed' \in Seq(Pass)
           /\ Len(passed') = Len(passed) + 1
           /\ \A i \in 1..Len(passed) : passed'[i] = passed[i]
           /\ passed'[Len(passed) + 1] = NewPass
<1>1. NextCount \in 1..MaxOrders
  BY NextCountBounded, SafetyAssumption DEF CheckOrderSafety
<1>2. NewPass \in Pass
  BY <1>1, SafetyAssumption DEF NewPass, Pass, TypeOK, Time, CheckOrderSafety
<1>3. passed' = Append(passed, NewPass)
  BY DEF CheckOrderSafety, CountOrder, NewPass
<1>4. passed \in Seq(Pass) /\ Len(passed) \in Nat
  BY DEF TypeOK
<1> QED
  BY <1>2, <1>3, <1>4, AppendProperties

\* Every step of the program, the operator or the clock keeps them.
LEMMA NextTypeOK == TypeOK /\ [Next]_vars => TypeOK'
<1> SUFFICES ASSUME TypeOK, [Next]_vars
             PROVE  TypeOK'
  OBVIOUS
<1>1. CASE Tick
  BY <1>1, SafetyAssumption DEF Tick, TypeOK, Time, breaker, switch
<1>2. ASSUME NEW statFails \in BOOLEAN, CheckOrderSafety(statFails)
      PROVE  TypeOK'
  <2>1. /\ ~tripped
        /\ count' = NextCount
        /\ tripped' = (NextCount > MaxOrders)
        /\ UNCHANGED <<clock, killFile, killEnv, shellEnv, restarts>>
    BY <1>2 DEF CheckOrderSafety, CountOrder, switch
  <2>2. NextCount \in 1..(MaxOrders + 1)
    BY <2>1, NextCountBounded
  <2>3. count' \in 0..(MaxOrders + 1) /\ tripped' = (count' = MaxOrders + 1)
    BY <2>1, <2>2, SafetyAssumption
  <2>4. windowStart' \in 0..clock'
    BY <1>2, <2>1, SafetyAssumption DEF CheckOrderSafety, TypeOK, Time
  <2>5. passed' \in Seq(Pass)
    <3>1. CASE NextCount > MaxOrders
      BY <1>2, <3>1 DEF CheckOrderSafety, CountOrder, TypeOK
    <3>2. CASE ~(NextCount > MaxOrders)
      BY <1>2, <3>2, PassIsLogged
    <3> QED
      BY <3>1, <3>2
  <2> QED
    BY <2>1, <2>3, <2>4, <2>5 DEF TypeOK
<1>3. CASE Reset
  <2>1. tripped' = (count' = MaxOrders + 1)
    BY <1>3, UntrippedAtZero, Zenon DEF Reset
  <2> QED
    BY <1>3, <2>1, SafetyAssumption DEF Reset, TypeOK, Time, switch
<1>4. CASE Kill
  BY <1>4 DEF Kill, TypeOK, breaker
<1>5. CASE Resume
  BY <1>5 DEF Resume, TypeOK, breaker
<1>6. CASE SetShellEnv
  BY <1>6 DEF SetShellEnv, TypeOK, breaker
<1>7. CASE Restart
  <2>1. tripped' = (count' = MaxOrders + 1)
    BY <1>7, UntrippedAtZero, Zenon DEF Restart
  <2> QED
    BY <1>7, <2>1, SafetyAssumption DEF Restart, TypeOK, Time
<1>8. CASE UNCHANGED vars
  BY <1>8 DEF vars, breaker, switch, TypeOK
<1> QED
  BY <1>1, <1>2, <1>3, <1>4, <1>5, <1>6, <1>7, <1>8 DEF Next

\* CheckOrderSafety keeps the breaker's state well formed: in particular it
\* counts at most one order past the limit, and is tripped exactly then.
THEOREM TypeCorrect == Spec => []TypeOK
<1>1. Init => TypeOK
  BY InitTypeOK
<1>2. TypeOK /\ [Next]_vars => TypeOK'
  BY NextTypeOK
<1> QED
  BY <1>1, <1>2, PTL DEF Spec

\* "Once tripped it requires manual reset": of all steps only Reset or another
\* process lets a tripped breaker pass an order again, at any limit and window.
THEOREM TrippedStays == Spec => TripIsFinal
<1> DEFINE Final == tripped => \/ tripped' /\ passed' = passed
                               \/ Reset
                               \/ Restart
<1>1. [Next]_vars => [Final]_vars
  <2> SUFFICES ASSUME [Next]_vars, tripped, ~Reset, ~Restart
               PROVE  tripped' /\ passed' = passed
    BY DEF vars
  <2>1. ~ \E statFails \in BOOLEAN : CheckOrderSafety(statFails)
    BY DEF CheckOrderSafety
  <2>2. CASE Tick \/ Kill \/ Resume \/ SetShellEnv
    BY <2>2 DEF Tick, Kill, Resume, SetShellEnv, breaker
  <2>3. CASE UNCHANGED vars
    BY <2>3 DEF vars, breaker
  <2> QED
    BY <2>1, <2>2, <2>3 DEF Next
<1> QED
  BY <1>1, PTL DEF Spec, TripIsFinal
-----------------------------------------------------------------------------
(***************************************************************************)
(* How many orders pass.  A window is told from others by its process and  *)
(* its start.                                                              *)
(***************************************************************************)

SameWindow(p, q) == p.process = q.process /\ p.window = q.window
InCurrentWindow(p) == p.process = restarts /\ p.window = windowStart

\* No entry of the log is newer than the clock, and an order passes in its window.
LogIsPast ==
    \A i \in 1..Len(passed) :
        /\ passed[i].window <= passed[i].at /\ passed[i].at <= clock
        /\ passed[i].process <= restarts

\* What is not of the breaker's present window passed before that began; what is
\* has one of the places counted so far.
CurrentIsLast ==
    \A i \in 1..Len(passed) :
        IF InCurrentWindow(passed[i]) THEN passed[i].place <= count
        ELSE passed[i].at <= windowStart

\* A process begins a window only when the one before it has run out.
WindowsApart ==
    /\ \A i \in 1..Len(passed) :
           passed[i].process = restarts =>
               \/ passed[i].window = windowStart
               \/ passed[i].window + Window < windowStart
    /\ \A i, j \in 1..Len(passed) :
           passed[i].process = passed[j].process =>
               \/ passed[i].window = passed[j].window
               \/ passed[i].window + Window < passed[j].window
               \/ passed[j].window + Window < passed[i].window

\* Of two windows one is over before the other begins.
WindowsInTurn ==
    \A i, j \in 1..Len(passed) :
        \/ SameWindow(passed[i], passed[j])
        \/ passed[i].at <= passed[j].window
        \/ passed[j].at <= passed[i].window

\* No two orders have the same place in the same window.
PlacesDiffer ==
    \A i, j \in 1..Len(passed) :
        SameWindow(passed[i], passed[j]) /\ passed[i].place = passed[j].place => i = j

\* What the breaker has counted did pass, and in time.
CountIsBacked ==
    \A k \in 1..MaxOrders :
        k <= count =>
            \E i \in 1..Len(passed) :
                /\ InCurrentWindow(passed[i]) /\ passed[i].place = k
                /\ passed[i].at <= windowStart + Window

\* The log is a row of windows, each with at most one order for each place.
LogInv ==
    /\ LogIsPast
    /\ CurrentIsLast
    /\ WindowsApart
    /\ WindowsInTurn
    /\ PlacesDiffer
    /\ CountIsBacked

\* The log is empty at first.
LEMMA InitLogInv == Init => LogInv
<1> SUFFICES ASSUME Init PROVE LogInv
  OBVIOUS
<1>1. Len(passed) = 0 /\ count = 0
  BY DEF Init
<1> QED
  BY <1>1 DEF LogInv, LogIsPast, CurrentIsLast, WindowsApart, WindowsInTurn,
      PlacesDiffer, CountIsBacked

\* An order that passes gets a new place, in the window or in one that begins
\* when the window has run out.
LEMMA PassKeepsLog ==
    ASSUME TypeOK, LogInv, NEW statFails \in BOOLEAN, CheckOrderSafety(statFails),
           ~(NextCount > MaxOrders)
    PROVE  LogInv'
<1> DEFINE n == Len(passed) + 1
<1>1. /\ n \in Nat
      /\ Len(passed') = n
      /\ \A i \in 1..Len(passed) : passed'[i] = passed[i]
      /\ passed'[n] = NewPass
      /\ n \in 1..Len(passed') /\ 1..Len(passed) \subseteq 1..Len(passed')
  BY PassIsLogged
<1>2. /\ NewPass.at = clock
      /\ NewPass.process = restarts
      /\ NewPass.window = windowStart'
      /\ NewPass.place = NextCount
  BY DEF NewPass
<1>3. \A i \in 1..Len(passed') :
          \/ i \in 1..Len(passed) /\ passed'[i] = passed[i]
          \/ i = n /\ passed'[i] = NewPass
  BY <1>1
<1>4. \A i \in 1..Len(passed) :
          /\ passed[i].at \in Nat /\ passed[i].window \in Nat
          /\ passed[i].process \in Nat /\ passed[i].place \in Nat
  <2>1. \A i \in 1..Len(passed) : passed[i] \in Pass
    BY DEF TypeOK
  <2>2. \A p \in Pass : /\ p.at \in Nat /\ p.window \in Nat
                        /\ p.process \in Nat /\ p.place \in Nat
    BY SafetyAssumption DEF Pass, Time
  <2> QED
    BY <2>1, <2>2
<1>5. /\ clock \in Nat /\ windowStart \in Nat /\ windowStart <= clock
      /\ restarts \in Nat /\ Window \in Nat /\ MaxOrders \in Nat /\ count \in Nat
      /\ UNCHANGED <<clock, restarts>>
  BY SafetyAssumption DEF TypeOK, Time, CheckOrderSafety, CountOrder
<1>6. /\ count' = NextCount
      /\ \/ /\ clock - windowStart > Window
            /\ windowStart' = clock /\ NextCount = 1
         \/ /\ ~(clock - windowStart > Window)
            /\ windowStart' = windowStart /\ NextCount = count + 1
  BY DEF CheckOrderSafety, CountOrder, NextCount, Expired
<1> HIDE DEF n
<1>7. LogIsPast'
  BY <1>1, <1>2, <1>3, <1>5, <1>6 DEF LogInv, LogIsPast
<1>8. CurrentIsLast'
  <2>1. \A i \in 1..Len(passed) :
            IF passed[i].process = restarts /\ passed[i].window = windowStart'
            THEN passed[i].place <= NextCount
            ELSE passed[i].at <= windowStart'
    <3> SUFFICES ASSUME NEW i \in 1..Len(passed)
                 PROVE  IF passed[i].process = restarts /\ passed[i].window = windowStart'
                        THEN passed[i].place <= NextCount
                        ELSE passed[i].at <= windowStart'
      OBVIOUS
    <3>1. /\ passed[i].at <= clock /\ passed[i].window <= passed[i].at
          /\ IF InCurrentWindow(passed[i]) THEN passed[i].place <= count
             ELSE passed[i].at <= windowStart
      BY DEF LogInv, LogIsPast, CurrentIsLast
    <3>2. CASE windowStart' = clock /\ clock - windowStart > Window
      <4>1. passed[i].process = restarts => passed[i].window # clock
        BY <1>4, <1>5, <3>1, <3>2 DEF InCurrentWindow
      <4> QED
        BY <3>1, <3>2, <4>1
    <3>3. CASE windowStart' = windowStart /\ NextCount = count + 1
      BY <1>4, <1>5, <3>1, <3>3 DEF InCurrentWindow
    <3> QED
      BY <1>6, <3>2, <3>3
  <2> QED
    BY <1>2, <1>3, <1>5, <1>6, <2>1 DEF CurrentIsLast, InCurrentWindow
<1>9. WindowsApart'
  <2>1. \A i \in 1..Len(passed) :
            passed[i].process = restarts =>
                \/ passed[i].window = windowStart'
                \/ passed[i].window + Window < windowStart'
    <3> SUFFICES ASSUME NEW i \in 1..Len(passed), passed[i].process = restarts
                 PROVE  \/ passed[i].window = windowStart'
                        \/ passed[i].window + Window < windowStart'
      OBVIOUS
    <3>1. passed[i].window = windowStart \/ passed[i].window + Window < windowStart
      BY DEF LogInv, WindowsApart
    <3>2. passed[i].window \in Nat
      BY <1>4
    <3> QED
      BY <1>5, <1>6, <3>1, <3>2
  <2> QED
    BY <1>2, <1>3, <1>5, <2>1 DEF LogInv, WindowsApart
<1>10. WindowsInTurn'
  <2>1. \A i \in 1..Len(passed) :
            SameWindow(passed[i], NewPass) \/ passed[i].at <= NewPass.window
    BY <1>2, <1>4, <1>5, <1>6
       DEF LogInv, LogIsPast, CurrentIsLast, InCurrentWindow, SameWindow
  <2> QED
    BY <1>3, <2>1 DEF LogInv, WindowsInTurn, SameWindow
<1>11. PlacesDiffer'
  <2>1. \A i \in 1..Len(passed) :
            SameWindow(passed[i], NewPass) => passed[i].place # NewPass.place
    BY <1>2, <1>4, <1>5, <1>6
       DEF LogInv, CurrentIsLast, WindowsApart, InCurrentWindow, SameWindow
  <2> QED
    BY <1>3, <2>1 DEF LogInv, PlacesDiffer, SameWindow
<1>12. CountIsBacked'
  <2> SUFFICES ASSUME NEW k \in 1..MaxOrders, k <= count'
               PROVE  \E i \in 1..Len(passed') :
                          /\ passed'[i].process = restarts'
                          /\ passed'[i].window = windowStart'
                          /\ passed'[i].place = k
                          /\ passed'[i].at <= windowStart' + Window
    BY <1>5 DEF CountIsBacked, InCurrentWindow
  <2>1. CASE k = NextCount
    <3>1. n \in 1..Len(passed')
      BY <1>1
    <3> QED
      BY <1>1, <1>2, <1>5, <1>6, <2>1, <3>1 DEF InCurrentWindow
  <2>2. CASE k # NextCount
    <3>1. windowStart' = windowStart /\ k <= count
      BY <1>5, <1>6, <2>2
    <3>2. PICK i \in 1..Len(passed) :
              /\ InCurrentWindow(passed[i]) /\ passed[i].place = k
              /\ passed[i].at <= windowStart + Window
      BY <3>1 DEF LogInv, CountIsBacked
    <3>3. i \in 1..Len(passed') /\ passed'[i] = passed[i]
      BY <1>1
    <3> QED
      BY <1>5, <3>1, <3>2, <3>3 DEF InCurrentWindow
  <2> QED
    BY <2>1, <2>2
<1> QED
  BY <1>7, <1>8, <1>9, <1>10, <1>11, <1>12 DEF LogInv

\* The order that trips the breaker changes neither the log nor the window.
LEMMA TripKeepsLog ==
    ASSUME TypeOK, LogInv, NEW statFails \in BOOLEAN, CheckOrderSafety(statFails),
           NextCount > MaxOrders
    PROVE  LogInv'
<1>1. /\ count \in Nat /\ MaxOrders \in Nat \ {0} /\ windowStart \in Nat
  BY SafetyAssumption DEF TypeOK, Time
<1>2. /\ UNCHANGED <<passed, clock, restarts, windowStart>>
      /\ count' = count + 1 /\ count >= MaxOrders
  BY <1>1 DEF CheckOrderSafety, CountOrder, NextCount
<1>3. \A i \in 1..Len(passed) : passed[i].place \in Nat
  <2>1. \A i \in 1..Len(passed) : passed[i] \in Pass
    BY DEF TypeOK
  <2>2. \A p \in Pass : p.place \in Nat
    BY SafetyAssumption DEF Pass
  <2> QED
    BY <2>1, <2>2
<1>4. CurrentIsLast'
  BY <1>1, <1>2, <1>3 DEF LogInv, CurrentIsLast, InCurrentWindow
<1>5. CountIsBacked'
  BY <1>1, <1>2 DEF LogInv, CountIsBacked, InCurrentWindow
<1> QED
  BY <1>2, <1>4, <1>5
     DEF LogInv, LogIsPast, WindowsApart, WindowsInTurn, PlacesDiffer, SameWindow

\* Another process begins with a window of its own; Reset empties the log.
LEMMA RestartKeepsLog ==
    ASSUME TypeOK, LogInv, Reset \/ Restart
    PROVE  LogInv'
<1>1. CASE Reset
  <2>1. Len(passed') = 0 /\ count' = 0
    BY <1>1 DEF Reset
  <2> QED
    BY <2>1 DEF LogInv, LogIsPast, CurrentIsLast, WindowsApart, WindowsInTurn,
        PlacesDiffer, CountIsBacked
<1>2. CASE Restart
  <2>1. /\ restarts' = restarts + 1 /\ restarts \in Nat
        /\ UNCHANGED <<passed, clock>> /\ windowStart' = clock /\ count' = 0
    BY <1>2 DEF Restart, TypeOK
  <2>2. \A i \in 1..Len(passed) :
            passed[i].process \in Nat /\ passed[i].process # restarts'
    <3>1. \A i \in 1..Len(passed) : passed[i].process \in Nat
      <4>1. \A i \in 1..Len(passed) : passed[i] \in Pass
        BY DEF TypeOK
      <4>2. \A p \in Pass : p.process \in Nat
        BY SafetyAssumption DEF Pass
      <4> QED
        BY <4>1, <4>2
    <3> QED
      BY <2>1, <3>1 DEF LogInv, LogIsPast
  <2>3. LogIsPast'
    BY <2>1, <2>2 DEF LogInv, LogIsPast
  <2>4. CurrentIsLast' /\ WindowsApart'
    BY <2>1, <2>2
       DEF LogInv, LogIsPast, CurrentIsLast, WindowsApart, InCurrentWindow
  <2>5. CountIsBacked'
    BY <2>1 DEF CountIsBacked
  <2> QED
    BY <2>1, <2>3, <2>4, <2>5 DEF LogInv, WindowsInTurn, PlacesDiffer, SameWindow
<1> QED
  BY <1>1, <1>2

\* The log's invariant is inductive, given the types.
LEMMA NextLogInv == TypeOK /\ LogInv /\ [Next]_vars => LogInv'
<1> SUFFICES ASSUME TypeOK, LogInv, [Next]_vars
             PROVE  LogInv'
  OBVIOUS
<1>1. CASE Tick
  <2>1. UNCHANGED <<windowStart, count, restarts, passed>> /\ clock' = clock + 1
    BY <1>1 DEF Tick, breaker
  <2>2. clock \in Nat
    BY DEF TypeOK, Time
  <2>3. \A i \in 1..Len(passed) : passed[i].at \in Nat
    <3>1. \A i \in 1..Len(passed) : passed[i] \in Pass
      BY DEF TypeOK
    <3>2. \A p \in Pass : p.at \in Nat
      BY SafetyAssumption DEF Pass, Time
    <3> QED
      BY <3>1, <3>2
  <2>4. LogIsPast'
    BY <2>1, <2>2, <2>3 DEF LogInv, LogIsPast
  <2> QED
    BY <2>1, <2>4 DEF LogInv, CurrentIsLast, WindowsApart, WindowsInTurn,
        PlacesDiffer, CountIsBacked, InCurrentWindow, SameWindow
<1>2. CASE Kill \/ Resume \/ SetShellEnv \/ UNCHANGED vars
  <2>1. UNCHANGED <<windowStart, count, restarts, passed, clock>>
    BY <1>2 DEF Kill, Resume, SetShellEnv, vars, breaker
  <2> QED
    BY <2>1 DEF LogInv, LogIsPast, CurrentIsLast, WindowsApart, WindowsInTurn,
        PlacesDiffer, CountIsBacked, InCurrentWindow, SameWindow
<1> QED
  BY <1>1, <1>2, PassKeepsLog, TripKeepsLog, RestartKeepsLog DEF Next

\* The log's invariant holds in every reachable state.
LEMMA LogInvariance == Spec => []LogInv
  BY InitLogInv, NextLogInv, TypeCorrect, PTL DEF Spec

\* Of the orders that pass within a span of Window no two share both their place
\* and their slot: slot 0 is the window that was under way when the span began,
\* and every process adds at most one that began within it.
LEMMA SpanBounded == TypeOK /\ LogInv => SpanIsBounded
<1> SUFFICES ASSUME TypeOK, LogInv, NEW t \in Time
             PROVE  Cardinality(PassedIn(t)) <= (2 + restarts) * MaxOrders
  BY DEF SpanIsBounded
<1> DEFINE Slot(i) == IF passed[i].window < t THEN 0 ELSE passed[i].process + 1
           Slots == (0..restarts + 1) \X (1..MaxOrders)
           place == [i \in PassedIn(t) |-> <<Slot(i), passed[i].place>>]
<1>1. restarts \in Nat /\ MaxOrders \in Nat /\ Window \in Nat /\ t \in Nat
  BY SafetyAssumption DEF TypeOK, Time
<1>2. \A i \in PassedIn(t) :
          /\ i \in 1..Len(passed)
          /\ t <= passed[i].at /\ passed[i].at <= t + Window
          /\ passed[i].window <= passed[i].at /\ passed[i].process <= restarts
  BY DEF PassedIn, LogInv, LogIsPast
<1>3. \A i \in PassedIn(t) :
          /\ passed[i].at \in Nat /\ passed[i].window \in Nat
          /\ passed[i].process \in Nat /\ passed[i].place \in 1..MaxOrders
  <2>1. \A i \in PassedIn(t) : passed[i] \in Pass
    BY DEF TypeOK, PassedIn
  <2>2. \A p \in Pass : /\ p.at \in Nat /\ p.window \in Nat
                        /\ p.process \in Nat /\ p.place \in 1..MaxOrders
    BY SafetyAssumption DEF Pass, Time
  <2> QED
    BY <2>1, <2>2
<1>4. \A i \in PassedIn(t) : Slot(i) \in 0..restarts + 1
  BY <1>1, <1>2, <1>3
<1>5. \A i, j \in PassedIn(t) :
          Slot(i) = Slot(j) => SameWindow(passed[i], passed[j])
  <2> SUFFICES ASSUME NEW i \in PassedIn(t), NEW j \in PassedIn(t),
                      Slot(i) = Slot(j)
               PROVE  SameWindow(passed[i], passed[j])
    OBVIOUS
  <2>1. CASE passed[i].window < t
    <3>1. passed[j].window < t
      BY <1>3, <2>1
    <3> QED
      BY <1>1, <1>2, <1>3, <2>1, <3>1 DEF LogInv, WindowsInTurn
  <2>2. CASE ~(passed[i].window < t)
    <3>1. ~(passed[j].window < t) /\ passed[i].process = passed[j].process
      BY <1>3, <2>2
    <3>2. \A k \in PassedIn(t) :
              ~(passed[k].window < t) =>
                  t <= passed[k].window /\ passed[k].window <= t + Window
      <4> SUFFICES ASSUME NEW k \in PassedIn(t), ~(passed[k].window < t)
                   PROVE  t <= passed[k].window /\ passed[k].window <= t + Window
        OBVIOUS
      <4>1. passed[k].at <= t + Window /\ passed[k].window <= passed[k].at
        BY <1>2
      <4>2. passed[k].at \in Nat /\ passed[k].window \in Nat
        BY <1>3
      <4> QED
        BY <1>1, <4>1, <4>2
    <3>3. ~(passed[i].window + Window < passed[j].window)
      BY <1>1, <1>3, <2>2, <3>1, <3>2
    <3>4. ~(passed[j].window + Window < passed[i].window)
      BY <1>1, <1>3, <2>2, <3>1, <3>2
    <3> QED
      BY <1>2, <3>1, <3>3, <3>4 DEF LogInv, WindowsApart, SameWindow
  <2> QED
    BY <2>1, <2>2
<1>6. place \in Injection(PassedIn(t), Slots)
  <2>1. place \in [PassedIn(t) -> Slots]
    BY <1>3, <1>4
  <2>2. \A i, j \in PassedIn(t) : place[i] = place[j] => i = j
    <3> SUFFICES ASSUME NEW i \in PassedIn(t), NEW j \in PassedIn(t),
                        place[i] = place[j]
                 PROVE  i = j
      OBVIOUS
    <3>1. Slot(i) = Slot(j) /\ passed[i].place = passed[j].place
      <4>1. <<Slot(i), passed[i].place>> = <<Slot(j), passed[j].place>>
        OBVIOUS
      <4> HIDE DEF Slot
      <4> QED
        BY <4>1
    <3> QED
      BY <1>2, <1>5, <3>1 DEF LogInv, PlacesDiffer
  <2> QED
    BY <2>1, <2>2 DEF Injection, IsInjective
<1>7. /\ IsFiniteSet(0..restarts + 1) /\ Cardinality(0..restarts + 1) = restarts + 2
      /\ IsFiniteSet(1..MaxOrders) /\ Cardinality(1..MaxOrders) = MaxOrders
  BY <1>1, FS_Interval
<1>8. IsFiniteSet(Slots) /\ Cardinality(Slots) = (restarts + 2) * MaxOrders
  <2>1. /\ IsFiniteSet(Slots)
        /\ Cardinality(Slots) = Cardinality(0..restarts + 1) * Cardinality(1..MaxOrders)
    BY <1>7, FS_Product
  <2> QED
    BY <1>7, <2>1, Zenon
<1>9. Cardinality(PassedIn(t)) <= Cardinality(Slots)
  BY <1>6, <1>8, FS_Injection
<1>10. (restarts + 2) * MaxOrders = (2 + restarts) * MaxOrders
  BY <1>1
<1> QED
  BY <1>8, <1>9, <1>10

\* A breaker trips at one past the limit, and each place up to the limit was
\* taken within the window.
LEMMA TripsInTime == TypeOK /\ LogInv => NeverTripsEarly
<1> SUFFICES ASSUME TypeOK, LogInv, tripped
             PROVE  Cardinality(PassedIn(windowStart)) >= MaxOrders
  BY DEF NeverTripsEarly
<1>1. MaxOrders \in Nat /\ windowStart \in Nat /\ Window \in Nat
  BY SafetyAssumption DEF TypeOK, Time
<1>2. count = MaxOrders + 1
  BY DEF TypeOK
<1> DEFINE Has(k, i) == i \in PassedIn(windowStart) /\ passed[i].place = k
           holder == [k \in 1..MaxOrders |-> CHOOSE i : Has(k, i)]
<1>3. ASSUME NEW k \in 1..MaxOrders
      PROVE  Has(k, holder[k])
  <2>1. PICK i \in 1..Len(passed) :
            /\ InCurrentWindow(passed[i]) /\ passed[i].place = k
            /\ passed[i].at <= windowStart + Window
    BY <1>1, <1>2 DEF LogInv, CountIsBacked
  <2>2. Has(k, i)
    BY <2>1 DEF LogInv, LogIsPast, InCurrentWindow, PassedIn
  <2> QED
    BY <2>2
<1>4. holder \in Injection(1..MaxOrders, PassedIn(windowStart))
  <2> HIDE DEF holder
  <2>1. DOMAIN holder = 1..MaxOrders /\ holder = [k \in 1..MaxOrders |-> holder[k]]
    BY DEF holder
  <2>2. holder \in [1..MaxOrders -> PassedIn(windowStart)]
    BY <1>3, <2>1
  <2>3. \A k, l \in 1..MaxOrders : holder[k] = holder[l] => k = l
    BY <1>3
  <2> QED
    BY <2>2, <2>3 DEF Injection, IsInjective
<1>5. IsFiniteSet(PassedIn(windowStart))
  <2>1. Len(passed) \in Nat /\ PassedIn(windowStart) \subseteq 1..Len(passed)
    BY DEF TypeOK, PassedIn
  <2>2. IsFiniteSet(1..Len(passed))
    BY <2>1, FS_Interval
  <2> QED
    BY <2>1, <2>2, FS_Subset
<1>6. Cardinality(1..MaxOrders) <= Cardinality(PassedIn(windowStart))
  BY <1>4, <1>5, FS_Injection
<1>7. Cardinality(1..MaxOrders) = MaxOrders
  BY <1>1, FS_Interval
<1>8. Cardinality(PassedIn(windowStart)) \in Nat
  BY <1>5, FS_CardinalityType
<1> QED
  BY <1>1, <1>6, <1>7, <1>8

\* For every limit, window and number of processes, the orders that pass within
\* one window's span are at most the limit for the two windows it may touch and
\* for each new process, and a breaker that has tripped let the limit through.
THEOREM BreakerExact == Spec => []BreakerIsExact
<1>1. TypeOK /\ LogInv => BreakerIsExact
  BY SpanBounded, TripsInTime DEF BreakerIsExact
<1> QED
  BY <1>1, TypeCorrect, LogInvariance, PTL
=============================================================================
