----------------------------- MODULE OrderSafety -----------------------------
(***************************************************************************)
(* Client.CheckOrderSafety (internal/client/client.go): the kill switch    *)
(* first, then the circuit breaker, with the commands `tt kill` and        *)
(* `tt resume` and with time.  One client is followed, and the clients of  *)
(* the processes that replace it: the breaker lives in a client's memory   *)
(* and a process's environment is fixed when it starts, while the kill     *)
(* file is shared by all.                                                  *)
(***************************************************************************)
EXTENDS Naturals, Sequences, FiniteSets

CONSTANTS
    MaxOrders,   \* TASTYTRADE_MAX_ORDERS_PER_HOUR
    Window,      \* the breaker's window, in ticks
    MaxTime,     \* bound on the clock
    MaxRestarts  \* bound on the processes that replace the first one

ASSUME SafetyAssumption ==
    /\ MaxOrders \in Nat \ {0}
    /\ Window \in Nat \ {0}
    /\ MaxTime \in Nat
    /\ MaxRestarts \in Nat

VARIABLES
    clock,
    windowStart, count, tripped,  \* the CircuitBreaker
    killFile,                     \* the KILL file is present
    killEnv,                      \* TASTYTRADE_KILL_SWITCH in the process
    shellEnv,                     \* TASTYTRADE_KILL_SWITCH in the operator's shell
    restarts,
    passed                        \* history: the orders that passed since Reset

breaker == <<windowStart, count, tripped>>
switch == <<killFile, killEnv, shellEnv>>
vars == <<clock, breaker, switch, restarts, passed>>

Time == 0..MaxTime

\* A check that passed: when, in which process and window, and as which of that
\* window's orders.
Pass == [at : Time, process : 0..MaxRestarts, window : Time, place : 1..MaxOrders]

TypeOK ==
    /\ clock \in Time
    /\ windowStart \in 0..clock
    /\ count \in 0..(MaxOrders + 1)
    /\ tripped = (count = MaxOrders + 1)
    /\ killFile \in BOOLEAN
    /\ killEnv \in BOOLEAN
    /\ shellEnv \in BOOLEAN
    /\ restarts \in 0..MaxRestarts
    /\ passed \in Seq(Pass)

Init ==
    /\ clock = 0
    /\ windowStart = 0
    /\ count = 0
    /\ tripped = FALSE
    /\ killFile \in BOOLEAN
    /\ shellEnv \in BOOLEAN
    /\ killEnv = shellEnv
    /\ restarts = 0
    /\ passed = <<>>

Tick ==
    /\ clock < MaxTime
    /\ clock' = clock + 1
    /\ UNCHANGED <<breaker, switch, restarts, passed>>

-----------------------------------------------------------------------------

\* KillSwitch in a process with the given environment.  A file that os.Stat
\* fails on, for any reason, counts as absent; so does one without a path.
KillSwitch(env, statFails) == env \/ (killFile /\ ~statFails)

\* The window has run out: time.Since(windowStart) > window.
Expired == clock - windowStart > Window

\* The count Allow compares with maxOrders.
NextCount == (IF Expired THEN 0 ELSE count) + 1

\* What Allow does with the count: the order passes, or it is the one too many.
CountOrder ==
    /\ count' = NextCount
    /\ tripped' = (NextCount > MaxOrders)
    /\ passed' = IF NextCount > MaxOrders
                 THEN passed
                 ELSE Append(passed, [at |-> clock, process |-> restarts,
                                      window |-> windowStart', place |-> NextCount])
    /\ UNCHANGED <<clock, switch, restarts>>

\* Fault: an expired window is rolled before tripped is looked at.
CheckOrderSafetyRecovering(statFails) ==
    /\ ~KillSwitch(killEnv, statFails)
    /\ ~tripped \/ Expired
    /\ windowStart' = IF Expired THEN clock ELSE windowStart
    /\ CountOrder

\* Fault: the count is cleared but the window keeps its old start.
CheckOrderSafetyOldWindow(statFails) ==
    /\ ~KillSwitch(killEnv, statFails)
    /\ ~tripped
    /\ windowStart' = windowStart
    /\ CountOrder

\* Fault: a tripped breaker goes on counting.
CheckOrderSafetyPastTrip(statFails) ==
    /\ ~KillSwitch(killEnv, statFails)
    /\ windowStart' = IF Expired THEN clock ELSE windowStart
    /\ CountOrder

\* CheckOrderSafety when it does not return early: neither halted nor tripped.
CheckOrderSafety(statFails) ==
    /\ ~KillSwitch(killEnv, statFails)
    /\ ~tripped
    /\ windowStart' = IF Expired THEN clock ELSE windowStart
    /\ CountOrder

\* CircuitBreaker.Reset.  No command calls it.
Reset ==
    /\ windowStart' = clock
    /\ count' = 0
    /\ tripped' = FALSE
    /\ passed' = <<>>
    /\ UNCHANGED <<clock, switch, restarts>>

\* `tt kill`
Kill ==
    /\ killFile' = TRUE
    /\ UNCHANGED <<clock, breaker, killEnv, shellEnv, restarts, passed>>

\* `tt resume` removes the file.  What it warns of is output, and left out.
Resume ==
    /\ killFile' = FALSE
    /\ UNCHANGED <<clock, breaker, killEnv, shellEnv, restarts, passed>>

\* The operator exports or unsets the variable, in the shell.
SetShellEnv ==
    /\ shellEnv' = ~shellEnv
    /\ UNCHANGED <<clock, breaker, killFile, killEnv, restarts, passed>>

\* The process ends and another `tt` starts: client.New makes a new breaker.
Restart ==
    /\ restarts < MaxRestarts
    /\ restarts' = restarts + 1
    /\ windowStart' = clock
    /\ count' = 0
    /\ tripped' = FALSE
    /\ killEnv' = shellEnv
    /\ UNCHANGED <<clock, killFile, shellEnv, passed>>

Next ==
    \/ Tick
    \/ \E statFails \in BOOLEAN : CheckOrderSafety(statFails)
    \/ Reset
    \/ Kill
    \/ Resume
    \/ SetShellEnv
    \/ Restart

Spec == Init /\ [][Next]_vars

-----------------------------------------------------------------------------
(***************************************************************************)
(* Properties.                                                             *)
(***************************************************************************)

\* The orders that passed within one window's span from t.
PassedIn(t) == {i \in 1..Len(passed) : t <= passed[i].at /\ passed[i].at <= t + Window}

\* The breaker's window is fixed, not rolling, and every process has a breaker
\* of its own; yet the orders that pass within any one window's span are at
\* most the limit, for the two breaker windows it may touch and for each new
\* process.
SpanIsBounded ==
    \A t \in Time : Cardinality(PassedIn(t)) <= (2 + restarts) * MaxOrders

\* A tripped breaker let MaxOrders through in the window it is in: it never
\* trips early, and a window that rolled over starts afresh.
NeverTripsEarly == tripped => Cardinality(PassedIn(windowStart)) >= MaxOrders

\* The breaker lets neither more nor fewer orders through than its windows allow
\* (circuit_breaker.go:44-59).
BreakerIsExact == SpanIsBounded /\ NeverTripsEarly

\* "Once tripped it requires manual reset - it will not auto-recover": neither
\* time, nor the kill switch, nor `tt resume` lets another order through, only
\* Reset or another process.
TripIsFinal ==
    [][tripped => \/ tripped' /\ passed' = passed
                  \/ Reset
                  \/ Restart]_vars
=============================================================================
