-------------------------- MODULE LiveSubmitProofs --------------------------
(***************************************************************************)
(* Proofs about LiveSubmit, for any number of submissions and terminals,   *)
(* any interval, age and pace of the operator, and whether or not          *)
(* processes overlap.                                                      *)
(***************************************************************************)
EXTENDS LiveSubmit, TLAPS

\* What the registry has seen went through every gate.
ReservedWasAllowed ==
    \A s \in Submission : pc[s] # "idle" \/ s \in reserved => stage[s] = "allowed"

\* Both readings of the clock lie in the past, and the policy compared the older
\* one with a time not before the younger.
ApprovalInTime ==
    \A s \in Submission :
        /\ approvedAt[s] <= clock
        /\ confirmedAt[s] <= clock
        /\ stage[s] = "allowed" => confirmedAt[s] - approvedAt[s] <= MaxAge

\* A "blocked" that was read ends the run at once or is the view the policy uses.
BlockIsKept ==
    \A s \in sawBlock :
        \/ stage[s] = "blocked"
        \/ /\ stage[s] \in {"viewed", "gated", "prompting", "confirmed"}
           /\ view[s] = "blocked"

\* Under a kill switch armed since its start a run passes no order-safety check.
KillIsKept ==
    \A s \in killedSince : killFile /\ stage[s] \in {"launched", "blocked"}

\* Every way to reserve leads through the policy, so what it looks at must be kept
\* until then, whatever the clock, the reconciler and the kill file do meanwhile.
IInv ==
    /\ TypeOK
    /\ ReservedWasAllowed
    /\ ApprovalInTime
    /\ BlockIsKept
    /\ KillIsKept

-----------------------------------------------------------------------------

LEMMA InitIInv == Init => IInv
<1> SUFFICES ASSUME Init
             PROVE  IInv
    OBVIOUS
<1>1. Registry!TypeOK
    BY LiveAssumption
       DEF Init, Registry!Init, Registry!TypeOK, Registry!Process, Registry!Records,
           Registry!NoRecords, Registry!RecordState, Registry!SubmitStep,
           Registry!ClearStep, Registry!FileState
<1>2. TypeOK
    BY <1>1, LiveAssumption DEF Init, TypeOK, Time, Stage, Status, View
<1>3. ReservedWasAllowed /\ ApprovalInTime /\ BlockIsKept /\ KillIsKept
    BY DEF Init, ReservedWasAllowed, Registry!Init, Registry!Process, ApprovalInTime,
        BlockIsKept, KillIsKept
<1> QED
    BY <1>2, <1>3 DEF IInv

-----------------------------------------------------------------------------
(***************************************************************************)
(* The registry's part of the types.  A theorem of a module that makes     *)
(* assumptions cannot be cited through INSTANCE, so the step is shown here *)
(* as SubmitRegistryProofs shows it there.                                 *)
(***************************************************************************)

\* What the three tables of saveLocked's continuations hold.
LEMMA SaveSteps ==
    /\ DOMAIN Registry!WriteStep = {"reserve_open", "mark_open", "clear_open"}
    /\ Registry!WriteStep["reserve_open"] = "reserve_write"
    /\ Registry!WriteStep["mark_open"] = "mark_write"
    /\ Registry!WriteStep["clear_open"] = "clear_write"
    /\ DOMAIN Registry!SavedStep = {"reserve_write", "mark_write", "clear_write"}
    /\ Registry!SavedStep["reserve_write"] = "transmit"
    /\ Registry!SavedStep["mark_write"] = "reported_submitted"
    /\ Registry!SavedStep["clear_write"] = "idle"
    /\ \A step \in {"reserve_open", "reserve_write"} : Registry!FailStep[step] = "denied"
    /\ \A step \in {"mark_open", "mark_write"} : Registry!FailStep[step] = "mark_denied"
    /\ \A step \in {"clear_open", "clear_write"} : Registry!FailStep[step] = "clear_denied"
BY DEF Registry!WriteStep, Registry!SavedStep, Registry!FailStep

LEMMA RegistryTypeStep ==
    ASSUME Registry!TypeOK, Registry!Next
    PROVE  Registry!TypeOK'
<1> USE LiveAssumption DEF Registry!TypeOK, Registry!Process, Registry!Records,
        Registry!NoRecords, Registry!RecordState, Registry!SubmitStep, Registry!ClearStep,
        Registry!FileState, Registry!Active, Registry!store, Registry!history
<1>1. ASSUME NEW s \in Submission,
             Registry!Reserve(s) \/ Registry!ReserveDenied(s) PROVE Registry!TypeOK'
    <2>1. CASE Registry!Reserve(s)
        BY <2>1 DEF Registry!Reserve
    <2>2. CASE Registry!ReserveDenied(s)
        BY <2>2 DEF Registry!ReserveDenied, Registry!Goto
    <2> QED
        BY <1>1, <2>1, <2>2
<1>2. ASSUME NEW s \in Submission, Registry!Submit(s) PROVE Registry!TypeOK'
    <2>1. CASE Registry!SubmitAccepted(s)
        BY <2>1 DEF Registry!SubmitAccepted, Registry!Transmitting
    <2>2. CASE Registry!SubmitRetried(s)
        BY <2>2 DEF Registry!SubmitRetried, Registry!Transmitting
    <2>3. CASE Registry!SubmitFails(s)
        BY <2>3 DEF Registry!SubmitFails, Registry!Transmitting, Registry!Goto
    <2>4. CASE Registry!SubmitNotSent(s)
        BY <2>4 DEF Registry!SubmitNotSent, Registry!Goto
    <2> QED
        BY <1>2, <2>1, <2>2, <2>3, <2>4 DEF Registry!Submit
<1>3. ASSUME NEW c \in Clearing, NEW key \in Submission,
             Registry!Clear(c, key) \/ Registry!ClearDenied(c, key) PROVE Registry!TypeOK'
    <2>1. CASE Registry!Clear(c, key)
        BY <2>1 DEF Registry!Clear
    <2>2. CASE Registry!ClearDenied(c, key)
        BY <2>2 DEF Registry!ClearDenied, Registry!Goto
    <2> QED
        BY <1>3, <2>1, <2>2
<1>4. ASSUME NEW p \in Registry!Process, Registry!WriteFile(p) PROVE Registry!TypeOK'
    <2>1. /\ disk' \in Registry!Records /\ file' \in Registry!FileState
          /\ file' # "valid" => disk' = Registry!NoRecords
        BY <1>4 DEF Registry!WriteFile
    <2>2. CASE pc[p] = "reserve_write"
        <3>1. p \in Submission
            BY <2>2
        <3>2. /\ pc' = [pc EXCEPT ![p] = "transmit"] /\ mem' = mem
              /\ reserved' = reserved \cup {p} /\ marked' = marked /\ cleared' = cleared
            BY <1>4, <2>2, SaveSteps
               DEF Registry!WriteFile, Registry!RecordSaved, Registry!Goto
        <3> QED
            BY <1>4, <2>1, <3>1, <3>2 DEF Registry!WriteFile, Registry!RecordSaved
    <2>3. CASE pc[p] = "mark_write"
        <3>1. p \in Submission
            BY <2>3
        <3>2. /\ pc' = [pc EXCEPT ![p] = "reported_submitted"]
              /\ mem' = [mem EXCEPT ![p] = Registry!NoRecords]
              /\ reserved' = reserved /\ marked' = marked \cup {p} /\ cleared' = cleared
            BY <1>4, <2>3, SaveSteps
               DEF Registry!WriteFile, Registry!RecordSaved, Registry!Goto
        <3> QED
            BY <1>4, <2>1, <3>1, <3>2 DEF Registry!WriteFile, Registry!RecordSaved
    <2>4. CASE pc[p] = "clear_write"
        <3>1. p \in Clearing /\ target[p] \in Submission
            BY <2>4
        <3>2. /\ pc' = [pc EXCEPT ![p] = "idle"]
              /\ mem' = [mem EXCEPT ![p] = Registry!NoRecords]
              /\ reserved' = reserved /\ marked' = marked
              /\ cleared' = cleared \cup {target[p]}
            BY <1>4, <2>4, SaveSteps
               DEF Registry!WriteFile, Registry!RecordSaved, Registry!Goto
        <3> QED
            BY <1>4, <2>1, <3>1, <3>2 DEF Registry!WriteFile, Registry!RecordSaved
    <2> QED
        BY <1>4, <2>2, <2>3, <2>4, SaveSteps DEF Registry!WriteFile
<1>5. ASSUME NEW p \in Registry!Process,
             Registry!SaveFailsAtOpen(p) \/ Registry!SaveFailsAtWrite(p)
      PROVE  Registry!TypeOK'
    <2>1. /\ disk' \in Registry!Records /\ file' \in Registry!FileState
          /\ file' # "valid" => disk' = Registry!NoRecords
        BY <1>5 DEF Registry!SaveFailsAtOpen, Registry!SaveFailsAtWrite
    <2>2. /\ Registry!Goto(p, Registry!FailStep[pc[p]])
          /\ UNCHANGED <<target, attempts, sent, reserved, marked, cleared>>
        BY <1>5 DEF Registry!SaveFailsAtOpen, Registry!SaveFailsAtWrite
    <2>3. pc[p] \in {"reserve_open", "reserve_write", "mark_open", "mark_write",
                     "clear_open", "clear_write"}
        BY <1>5, SaveSteps DEF Registry!SaveFailsAtOpen, Registry!SaveFailsAtWrite
    <2>4. /\ p \in Submission => Registry!FailStep[pc[p]] \in {"denied", "mark_denied"}
          /\ p \in Clearing => Registry!FailStep[pc[p]] = "clear_denied"
        BY <2>3, SaveSteps
    <2>5. /\ pc' = [pc EXCEPT ![p] = Registry!FailStep[pc[p]]]
          /\ mem' = [mem EXCEPT ![p] = Registry!NoRecords]
        BY <2>2, <2>4 DEF Registry!Goto
    <2> QED
        BY <2>1, <2>2, <2>4, <2>5
<1>6. ASSUME NEW p \in Registry!Process, Registry!Save(p) \/ Registry!Crash(p)
      PROVE  Registry!TypeOK'
    <2>1. CASE Registry!TruncateFile(p)
        BY <2>1, SaveSteps DEF Registry!TruncateFile, Registry!Goto
    <2>2. CASE Registry!Crash(p)
        BY <2>2 DEF Registry!Crash, Registry!Goto
    <2> QED
        BY <1>4, <1>5, <1>6, <2>1, <2>2 DEF Registry!Save
<1>7. CASE Registry!RemoveFileByHand
    BY <1>7 DEF Registry!RemoveFileByHand
<1> QED
    BY <1>1, <1>2, <1>3, <1>6, <1>7 DEF Registry!Next

-----------------------------------------------------------------------------
(***************************************************************************)
(* The inductive step.                                                     *)
(***************************************************************************)

\* Only the write of reserve adds a submission to those that are let through.
LEMMA ReservedByWrite ==
    ASSUME Registry!TypeOK, Registry!Next
    PROVE  \A s \in reserved' : s \in reserved \/ pc[s] # "idle"
<1>1. reserved' = reserved \/ \E p \in Registry!Process :
          pc[p] = "reserve_write" /\ reserved' = reserved \cup {p}
    BY DEF Registry!Next, Registry!Reserve, Registry!ReserveDenied, Registry!Submit,
        Registry!SubmitAccepted, Registry!SubmitRetried, Registry!SubmitFails,
        Registry!SubmitNotSent, Registry!Transmitting, Registry!Clear, Registry!ClearDenied,
        Registry!Save, Registry!TruncateFile, Registry!SaveFailsAtOpen, Registry!WriteFile,
        Registry!RecordSaved, Registry!SaveFailsAtWrite, Registry!Crash,
        Registry!RemoveFileByHand, Registry!history
<1> QED
    BY <1>1

LEMMA RegistryTypesStay ==
    ASSUME Registry!TypeOK, UNCHANGED registry
    PROVE  Registry!TypeOK'
BY DEF registry, Registry!TypeOK

LEMMA RegistryStepKeeps ==
    ASSUME IInv, RegistryStep
    PROVE  IInv'
<1> USE DEF RegistryStep, live, gates, times
<1>1. /\ Registry!TypeOK'
      /\ \A s \in reserved' : s \in reserved \/ pc[s] # "idle"
    BY RegistryTypeStep, ReservedByWrite DEF IInv, TypeOK
<1>2. TypeOK' /\ ApprovalInTime' /\ BlockIsKept' /\ KillIsKept'
    BY <1>1 DEF IInv, TypeOK, ApprovalInTime, BlockIsKept, KillIsKept
<1>3. ReservedWasAllowed'
    <2>1. reserved' \subseteq Submission
        BY <1>1 DEF Registry!TypeOK
    <2> QED
        BY <1>1, <2>1 DEF IInv, ReservedWasAllowed
<1> QED
    BY <1>1, <1>2, <1>3 DEF IInv

\* runSubmit up to reserve leaves the registry alone and never leaves "allowed".
LEMMA GateStepKeeps ==
    ASSUME IInv, NEW s \in Submission, Launch(s) \/ Program(s) \/ Confirm(s) \/ Abandon(s)
    PROVE  IInv'
<1> USE LiveAssumption DEF GoOn, times, gates, registry
<1>1. Registry!TypeOK'
    BY RegistryTypesStay DEF IInv, TypeOK, Program, Launch, CheckOrderSafety,
        KillSwitchBlocks, ReadGate, EnforceGate, Approve, Confirm, EvaluatePolicy, Abandon
<1>0. ReservedWasAllowed'
    BY DEF IInv, TypeOK, ReservedWasAllowed, Program, Launch,
        CheckOrderSafety, KillSwitchBlocks, ReadGate, EnforceGate, Approve, Confirm,
        EvaluatePolicy, Abandon, Running
<1>2. TypeOK'
    BY <1>1 DEF IInv, TypeOK, Time, Program, Launch, CheckOrderSafety, KillSwitchBlocks, ReadGate,
        EnforceGate, Approve, Confirm, EvaluatePolicy, Abandon, Running, Stage, View,
        Status, GateView, GateOutcome, DenyReasons
<1>3. ApprovalInTime'
    <2>1. clock \in Nat /\ clock' = clock
        BY DEF IInv, TypeOK, Time, Program, Launch, CheckOrderSafety, KillSwitchBlocks,
            ReadGate, EnforceGate, Approve, Confirm, EvaluatePolicy, Abandon
    <2>2. ASSUME NEW t \in Submission
          PROVE  /\ approvedAt'[t] \in {approvedAt[t], clock}
                 /\ confirmedAt'[t] \in {confirmedAt[t], clock}
        BY DEF IInv, TypeOK, Program, Launch, CheckOrderSafety, KillSwitchBlocks,
            ReadGate, EnforceGate, Approve, Confirm, EvaluatePolicy, Abandon
    <2>3. ASSUME NEW t \in Submission, stage'[t] = "allowed"
          PROVE  /\ confirmedAt'[t] = confirmedAt[t] /\ approvedAt'[t] = approvedAt[t]
                 /\ stage[t] = "allowed" \/ ~(clock - approvedAt[t] > MaxAge)
        BY <2>3 DEF IInv, TypeOK, Program, Launch, CheckOrderSafety, KillSwitchBlocks,
            ReadGate, EnforceGate, Approve, Confirm, EvaluatePolicy, Abandon, DenyReasons,
            PreSubmitDenyReason
    <2>4. \A t \in Submission : approvedAt[t] \in Nat /\ confirmedAt[t] \in Nat
        BY DEF IInv, TypeOK, Time
    <2> QED
        BY <2>1, <2>2, <2>3, <2>4 DEF IInv, ApprovalInTime
<1>4. BlockIsKept'
    BY DEF IInv, TypeOK, BlockIsKept, Program, Launch, CheckOrderSafety,
        KillSwitchBlocks, ReadGate, EnforceGate, Approve, Confirm, EvaluatePolicy, Abandon,
        DenyReasons, PreSubmitDenyReason
<1>5. KillIsKept'
    BY DEF IInv, TypeOK, KillIsKept, Program, Launch, CheckOrderSafety, KillSwitchBlocks,
        ReadGate, EnforceGate, Approve, Confirm, EvaluatePolicy, Abandon
<1> QED
    BY <1>0, <1>2, <1>3, <1>4, <1>5 DEF IInv

LEMMA EnvironmentKeeps ==
    ASSUME IInv,
           \/ \E s \in Submission, status \in Status : ReconcilerPass(s, status)
           \/ Kill \/ Resume \/ Tick \/ UNCHANGED vars
    PROVE  IInv'
<1> USE LiveAssumption DEF ReconcilerPass, Kill, Resume, Tick, vars, live, times, gates,
        registry
<1>0. Registry!TypeOK'
    BY RegistryTypesStay DEF IInv, TypeOK
<1>1. TypeOK'
    <2> USE <1>0
    <2>1. CASE Tick
        BY <2>1 DEF IInv, TypeOK, Time
    <2>2. CASE \E s \in Submission, status \in Status : ReconcilerPass(s, status)
        BY <2>2 DEF IInv, TypeOK
    <2>3. CASE Kill \/ Resume \/ UNCHANGED vars
        BY <2>3 DEF IInv, TypeOK
    <2> QED
        BY <2>1, <2>2, <2>3
<1>2. ReservedWasAllowed'
    BY DEF IInv, ReservedWasAllowed
<1>3. ApprovalInTime'
    BY DEF IInv, TypeOK, Time, ApprovalInTime
<1>4. BlockIsKept' /\ KillIsKept'
    BY DEF IInv, BlockIsKept, KillIsKept
<1> QED
    BY <1>1, <1>2, <1>3, <1>4 DEF IInv

\* IInv holds however the gates, the registry, the clock, the reconciler and the
\* kill file interleave.
THEOREM Invariance == Spec => []IInv
<1>1. Init => IInv
    BY InitIInv
<1>2. IInv /\ [Next]_vars => IInv'
    BY RegistryStepKeeps, GateStepKeeps, EnvironmentKeeps DEF Next
<1> QED
    BY <1>1, <1>2, PTL DEF Spec

\* The variables of the gates and of the registry behind them keep their types,
\* whether or not processes overlap.
THEOREM TypeCorrect == Spec => []TypeOK
BY Invariance, PTL DEF IInv

\* No order is let through to the broker whose confirmation came later than
\* MaxAge after its approval, however long the prompt waited.
THEOREM ApprovalsAreFresh == Spec => []ApprovalWasFresh
<1>1. IInv => ApprovalWasFresh
    BY DEF IInv, TypeOK, Registry!TypeOK, ReservedWasAllowed, ApprovalInTime,
        ApprovalWasFresh
<1> QED
    BY <1>1, Invariance, PTL

\* A submission that saw the gate blocked at either of its two reads is not let
\* through, whatever the reconciler finds in between and later.
THEOREM BlocksAreFinal == Spec => []BlockSeenIsFinal
<1>1. IInv => BlockSeenIsFinal
    BY DEF IInv, TypeOK, Registry!TypeOK, ReservedWasAllowed, BlockIsKept, BlockSeenIsFinal
<1> QED
    BY <1>1, Invariance, PTL

\* A kill switch that was armed before a submission started and is not released
\* keeps it from the broker.
THEOREM KillSwitchHolds == Spec => []KilledSinceNeverTransmits
<1>1. IInv => KilledSinceNeverTransmits
    BY DEF IInv, TypeOK, Registry!TypeOK, ReservedWasAllowed, KillIsKept,
        KilledSinceNeverTransmits
<1> QED
    BY <1>1, Invariance, PTL

\* What runSubmit puts in front of the registry takes nothing from it: the whole
\* submit path implements SubmitRegistry, so what is proved of the registry holds
\* of it.
THEOREM LiveImplementsRegistry == Spec => Registry!Spec
<1>1. Init => Registry!Init
    BY DEF Init
<1>2. [Next]_vars => [Registry!Next]_(Registry!vars)
    <2>1. RegistryStep => Registry!Next
        BY DEF RegistryStep
    <2>2. UNCHANGED registry => UNCHANGED Registry!vars
        BY DEF registry, Registry!vars, Registry!store, Registry!history
    <2>3. [Next]_vars => RegistryStep \/ UNCHANGED registry
        BY DEF Next, vars, Program, GoOn, Launch, CheckOrderSafety, KillSwitchBlocks,
            ReadGate, EnforceGate, Approve, Confirm, EvaluatePolicy, Abandon,
            ReconcilerPass, Kill, Resume, Tick
    <2> QED
        BY <2>1, <2>2, <2>3
<1> QED
    BY <1>1, <1>2, PTL DEF Spec, Registry!Spec
=============================================================================
