----------------------------- MODULE LiveSubmit -----------------------------
(***************************************************************************)
(* `tt submit` from its start to the broker (runSubmit, cmd/orders.go):    *)
(* the order-safety check, the decision gate read twice, approval,         *)
(* confirmation at the operator's pace, the pre-submit policy, and then    *)
(* the registry.  SubmitRegistry is the last part; this module puts the    *)
(* gates in front of its reserve, and beside them what changes while they  *)
(* are passed: the process's own reconciler, the kill file and the clock.  *)
(*                                                                         *)
(* A process that stops before reserve leaves nothing behind, so "blocked" *)
(* stands for every early return, for an operator who declines and for a   *)
(* kill of the process alike.                                              *)
(***************************************************************************)
EXTENDS Naturals, FiniteSets

CONSTANTS
    Submission, Clearing, Order, OrderOf, MaxAttempts, OneAtATime,
    Interval,  \* ReconcileInterval, in ticks
    MaxAge,    \* maxApprovalAge and maxConfirmationAge, in ticks
    MaxTime    \* bound on the clock

\* The first four are what SubmitRegistry assumes.
ASSUME LiveAssumption ==
    /\ OrderOf \in [Submission -> Order]
    /\ Submission \cap Clearing = {}
    /\ MaxAttempts \in Nat \ {0}
    /\ OneAtATime \in BOOLEAN
    /\ Interval \in Nat \ {0}
    /\ MaxAge \in Nat
    /\ MaxTime \in Nat

VARIABLES
    pc, mem, target, file, disk, attempts, sent, reserved, marked, cleared,
    clock,
    killFile,     \* the KILL file is present
    stage,        \* how far runSubmit of each submission is, up to reserve
    latest,       \* latestResult.Status of the reconciler in that process
    view,         \* the gate outcome runSubmit keeps, "unavailable" before a pass
    launchedAt,   \* when PersistentPreRunE started the reconciler
    approvedAt,
    confirmedAt,
    denyReasons,  \* what EvaluatePreSubmitPolicy returned
    \* History, read by the properties only:
    sawBlock,     \* submissions one of whose gate reads returned "blocked"
    killedSince   \* submissions started with the kill file there ever since

Registry == INSTANCE SubmitRegistry

registry == <<pc, mem, target, file, disk, attempts, sent, reserved, marked, cleared>>
times == <<launchedAt, approvedAt, confirmedAt>>
gates == <<latest, view, sawBlock>>
live == <<clock, killFile, stage, gates, times, denyReasons, killedSince>>
vars == <<registry, live>>

Time == 0..MaxTime
Stage == {"new", "launched", "safe", "viewed", "gated", "prompting",
          "confirmed", "allowed", "blocked"}
Running == {"launched", "safe", "viewed", "gated", "prompting", "confirmed", "allowed"}
Status == {"ok", "drift_detected", "partial", "error"}
View == {"unavailable", "allowed", "allowed_with_warning", "blocked"}
PreSubmitDenyReason == {"decision_gate_unavailable", "decision_gate_denied",
                        "approval_expired", "confirmation_expired"}

TypeOK ==
    /\ Registry!TypeOK
    /\ clock \in Time
    /\ killFile \in BOOLEAN
    /\ stage \in [Submission -> Stage]
    /\ latest \in [Submission -> Status \cup {"none"}]
    /\ view \in [Submission -> View]
    /\ launchedAt \in [Submission -> Time]
    /\ approvedAt \in [Submission -> Time]
    /\ confirmedAt \in [Submission -> Time]
    /\ denyReasons \in [Submission -> SUBSET PreSubmitDenyReason]
    /\ sawBlock \subseteq Submission
    /\ killedSince \subseteq Submission

Init ==
    /\ Registry!Init
    /\ clock = 0
    /\ killFile \in BOOLEAN
    /\ stage = [s \in Submission |-> "new"]
    /\ latest = [s \in Submission |-> "none"]
    /\ view = [s \in Submission |-> "unavailable"]
    /\ launchedAt = [s \in Submission |-> 0]
    /\ approvedAt = [s \in Submission |-> 0]
    /\ confirmedAt = [s \in Submission |-> 0]
    /\ denyReasons = [s \in Submission |-> {}]
    /\ sawBlock = {}
    /\ killedSince = {}

-----------------------------------------------------------------------------
(***************************************************************************)
(* The decision gate and the policy.                                       *)
(***************************************************************************)

\* GateDecisionForResult
GateOutcome(status) ==
    CASE status = "ok" -> "allowed"
      [] status \in {"drift_detected", "partial"} -> "allowed_with_warning"
      [] status = "error" -> "blocked"

\* currentDecisionGate: nothing available before the reconciler's first result.
GateView(s) == IF latest[s] = "none" THEN "unavailable" ELSE GateOutcome(latest[s])

\* Fault: the policy trusts enforceDecisionGate and skips the kept view.
DenyReasonsIgnoringView(s) ==
    LET expired(at) == clock - at > MaxAge IN
    {r \in PreSubmitDenyReason :
        \/ r = "decision_gate_unavailable" /\ view[s] = "unavailable"
        \/ r = "approval_expired" /\ expired(approvedAt[s])
        \/ r = "confirmation_expired" /\ expired(confirmedAt[s])}

\* Fault: the age of the approval is measured at the confirmation only.
DenyReasonsIgnoringApprovalAge(s) ==
    LET expired(at) == clock - at > MaxAge IN
    {r \in PreSubmitDenyReason :
        \/ r = "decision_gate_unavailable" /\ view[s] = "unavailable"
        \/ r = "decision_gate_denied" /\ view[s] = "blocked"
        \/ r = "confirmation_expired" /\ expired(confirmedAt[s])}

\* EvaluatePreSubmitPolicy on what runSubmit hands it.  The account, the intent
\* and the payload are the approval's own and config.Load makes LiveTrading imply
\* production, so these four reasons are the ones that are left.
DenyReasons(s) ==
    LET expired(at) == clock - at > MaxAge IN
    {r \in PreSubmitDenyReason :
        \/ r = "decision_gate_unavailable" /\ view[s] = "unavailable"
        \/ r = "decision_gate_denied" /\ view[s] = "blocked"
        \/ r = "approval_expired" /\ expired(approvedAt[s])
        \/ r = "confirmation_expired" /\ expired(confirmedAt[s])}

-----------------------------------------------------------------------------
(***************************************************************************)
(* runSubmit.                                                              *)
(***************************************************************************)

GoOn(s, from, to) ==
    /\ stage[s] = from
    /\ stage' = [stage EXCEPT ![s] = to]
    /\ UNCHANGED <<registry, clock, killFile>>

\* The process of submission s runs.
Alive(s) ==
    /\ stage[s] \in Running
    /\ stage[s] = "allowed" => pc[s] \in Registry!Active \cup {"idle"}

\* The process starts, and with it the reconciler of that process.
Launch(s) ==
    /\ OneAtATime => \A t \in Submission : ~Alive(t)
    /\ GoOn(s, "new", "launched")
    /\ launchedAt' = [launchedAt EXCEPT ![s] = clock]
    /\ killedSince' = IF killFile THEN killedSince \cup {s} ELSE killedSince
    /\ UNCHANGED <<gates, approvedAt, confirmedAt, denyReasons>>

\* Fault: the kill switch is left to the policy, which only sees its own error.
CheckOrderSafetyUnchecked(s) ==
    /\ GoOn(s, "launched", "safe")
    /\ UNCHANGED <<gates, times, denyReasons, killedSince>>

\* CheckOrderSafety passes: the new process's breaker allows its first order.
CheckOrderSafety(s) ==
    /\ ~killFile
    /\ GoOn(s, "launched", "safe")
    /\ UNCHANGED <<gates, times, denyReasons, killedSince>>

\* CheckOrderSafety fails.
KillSwitchBlocks(s) ==
    /\ killFile
    /\ GoOn(s, "launched", "blocked")
    /\ UNCHANGED <<gates, times, denyReasons, killedSince>>

\* Fault: waiting for the reconciler's first result.
ReadGateWaiting(s) ==
    /\ latest[s] # "none"
    /\ GoOn(s, "safe", "viewed")
    /\ view' = [view EXCEPT ![s] = GateView(s)]
    /\ sawBlock' = IF GateView(s) = "blocked" THEN sawBlock \cup {s} ELSE sawBlock
    /\ UNCHANGED <<latest, times, denyReasons, killedSince>>

\* gateView := currentDecisionGate, which the policy will look at.
ReadGate(s) ==
    /\ GoOn(s, "safe", "viewed")
    /\ view' = [view EXCEPT ![s] = GateView(s)]
    /\ sawBlock' = IF GateView(s) = "blocked" THEN sawBlock \cup {s} ELSE sawBlock
    /\ UNCHANGED <<latest, times, denyReasons, killedSince>>

\* enforceDecisionGate reads the gate again and fails on "blocked".
EnforceGate(s) ==
    /\ GoOn(s, "viewed", IF GateView(s) = "blocked" THEN "blocked" ELSE "gated")
    /\ sawBlock' = IF GateView(s) = "blocked" THEN sawBlock \cup {s} ELSE sawBlock
    /\ UNCHANGED <<latest, view, times, denyReasons, killedSince>>

\* approveLiveSubmit, and the prompt appears.
Approve(s) ==
    /\ GoOn(s, "gated", "prompting")
    /\ approvedAt' = [approvedAt EXCEPT ![s] = clock]
    /\ UNCHANGED <<gates, launchedAt, confirmedAt, denyReasons, killedSince>>

\* The operator types 'submit', or --json --yes stands for it.
Confirm(s) ==
    /\ GoOn(s, "prompting", "confirmed")
    /\ confirmedAt' = [confirmedAt EXCEPT ![s] = clock]
    /\ UNCHANGED <<gates, launchedAt, approvedAt, denyReasons, killedSince>>

EvaluatePolicy(s) ==
    /\ GoOn(s, "confirmed", IF DenyReasons(s) = {} THEN "allowed" ELSE "blocked")
    /\ denyReasons' = [denyReasons EXCEPT ![s] = DenyReasons(s)]
    /\ UNCHANGED <<gates, times, killedSince>>

\* Any other way out before reserve: no account or no live trading, an unreadable
\* order file, an operator who declines, a killed process.
Abandon(s) ==
    /\ stage[s] \in Running \ {"allowed"}
    /\ GoOn(s, stage[s], "blocked")
    /\ UNCHANGED <<gates, times, denyReasons, killedSince>>

\* reserve, transmission and everything after them; reserve comes after "allowed".
RegistryStep ==
    /\ Registry!Next
    /\ \A s \in Submission :
          pc[s] = "idle" /\ pc'[s] # "idle" => stage[s] = "allowed"
    /\ UNCHANGED live

-----------------------------------------------------------------------------
(***************************************************************************)
(* Beside runSubmit.                                                       *)
(***************************************************************************)

\* A pass of the process's reconciler ends; the first starts an Interval late.
ReconcilerPass(s, status) ==
    /\ stage[s] \in Running
    /\ clock - launchedAt[s] >= Interval
    /\ latest' = [latest EXCEPT ![s] = status]
    /\ UNCHANGED <<registry, clock, killFile, stage, view, sawBlock, times,
                   denyReasons, killedSince>>

\* `tt kill` and `tt resume`, from another terminal.
Kill ==
    /\ killFile' = TRUE
    /\ UNCHANGED <<registry, clock, stage, gates, times, denyReasons, killedSince>>

Resume ==
    /\ killFile' = FALSE
    /\ killedSince' = {}
    /\ UNCHANGED <<registry, clock, stage, gates, times, denyReasons>>

\* Time passes, at any moment: the prompt waits for its operator, and a process
\* may be suspended anywhere.
Tick ==
    /\ clock < MaxTime
    /\ clock' = clock + 1
    /\ UNCHANGED <<registry, killFile, stage, gates, times, denyReasons, killedSince>>

Program(s) ==
    \/ CheckOrderSafety(s)
    \/ KillSwitchBlocks(s)
    \/ ReadGate(s)
    \/ EnforceGate(s)
    \/ Approve(s)
    \/ EvaluatePolicy(s)

Next ==
    \/ \E s \in Submission : Launch(s) \/ Program(s) \/ Confirm(s) \/ Abandon(s)
    \/ \E s \in Submission, status \in Status : ReconcilerPass(s, status)
    \/ RegistryStep
    \/ Kill
    \/ Resume
    \/ Tick

Spec == Init /\ [][Next]_vars

\* The part of RegistryStep that submission s takes by itself.
RegistryOf(s) ==
    /\ \/ Registry!Reserve(s) \/ Registry!ReserveDenied(s)
       \/ Registry!Submit(s) \/ Registry!Save(s)
    /\ pc[s] = "idle" => stage[s] = "allowed"
    /\ UNCHANGED live

(***************************************************************************)
(* The program does not stop between two steps.  Nothing is assumed of the *)
(* operator at the prompt, nor of the reconciler's passes.                 *)
(***************************************************************************)
FairSpec ==
    /\ Spec
    /\ \A s \in Submission : WF_vars(Program(s)) /\ WF_vars(RegistryOf(s))

-----------------------------------------------------------------------------
(***************************************************************************)
(* Properties.                                                             *)
(***************************************************************************)

\* However long the prompt and the steps around it take, what goes to reserve
\* was confirmed while its approval was fresh.
ApprovalWasFresh ==
    \A s \in reserved : confirmedAt[s] - approvedAt[s] <= MaxAge

\* The gate is read twice and may change in between; a submission one of whose
\* reads said "blocked" never transmits.
BlockSeenIsFinal == reserved \cap sawBlock = {}

\* A submission started under an armed kill switch that nobody disarmed since
\* never transmits.
KilledSinceNeverTransmits == reserved \cap killedSince = {}

\* A submission ends or waits for its operator: no gate waits for the
\* reconciler, and a kill switch toggled at any pace does not hold it up.
EndsOrWaitsForOperator ==
    \A s \in Submission : Alive(s) ~> ~Alive(s) \/ stage[s] = "prompting"

\* "immediately halts all order submission ... blocking all order submission
\* until 'tt resume' is run" (cmd/kill.go, lines 12-13): nothing is let through
\* to the broker while the kill file is there.
KillHaltsSubmission == [][killFile => reserved' = reserved]_vars

\* "clean restart state allows normal submit flow" (restart-recovery record,
\* line 70): on a clean registry the policy denies only an operator who was too
\* late or a gate that was seen blocked.
CleanSubmitFlows ==
    \A s \in Submission :
        denyReasons[s] # {} =>
            \/ s \in sawBlock
            \/ denyReasons[s] \cap {"approval_expired", "confirmation_expired"} # {}
=============================================================================
