------------------------ MODULE SubmitRegistryProofs ------------------------
(***************************************************************************)
(* Proofs about SubmitRegistry, for any number of submissions, clearing    *)
(* terminals, orders and attempts.  Type correctness and the denial on a   *)
(* torn file hold without restriction; the others need OneAtATime, because *)
(* two processes that overlap do lose each other's records.                *)
(***************************************************************************)
EXTENDS SubmitRegistry, TLAPS

-----------------------------------------------------------------------------
(***************************************************************************)
(* The inductive invariant.                                                *)
(***************************************************************************)

\* The record of s in records says at least what the history says of s.
Kept(records, s) ==
    /\ records[s] # "none"
    /\ s \notin marked => records[s] = "in_flight"

Reserving == {"reserve_open", "reserve_write"}
Marking   == {"mark_open", "mark_write"}
Erasing   == {"clear_open", "clear_write"}
Saving    == Reserving \cup Marking \cup Erasing

\* The key whose record the process is changing.
Key(p) == IF p \in Submission THEN p ELSE target[p]

OnlyOneRuns ==
    \A p, q \in Process : pc[p] \in Active /\ pc[q] \in Active => p = q

\* A file that loads has every record it must have.
DiskIsComplete ==
    Loads => \A s \in reserved \ cleared : Kept(disk, s)

\* So has the copy that is about to replace it, the key in hand excepted.
CopyIsComplete ==
    \A p \in Process : pc[p] \in Saving =>
        \A s \in reserved \ cleared : s # Key(p) => Kept(mem[p], s)

\* What a reserving process saw: nobody else in flight for its order.
ReservingAlone ==
    \A s \in Submission : pc[s] \in Reserving =>
        /\ mem[s][s] = "in_flight"
        /\ \A t \in Submission \ {s} :
              OrderOf[t] = OrderOf[s] => mem[s][t] # "in_flight"
        /\ pc[s] = "reserve_write" => file = "empty"

TransmittingRecorded ==
    \A s \in Submission : pc[s] = "transmit" =>
        file = "valid" /\ disk = mem[s] /\ disk[s] = "in_flight"

MarkingSubmitted ==
    \A s \in Submission : pc[s] \in Marking => mem[s][s] = "submitted"

IInv ==
    /\ TypeOK
    /\ OnlyOneRuns
    /\ DiskIsComplete
    /\ CopyIsComplete
    /\ ReservingAlone
    /\ TransmittingRecorded
    /\ MarkingSubmitted
    /\ AtMostOneUnresolved

-----------------------------------------------------------------------------
(***************************************************************************)
(* Type correctness.                                                       *)
(***************************************************************************)

\* What the three tables of saveLocked's continuations hold.
LEMMA SaveSteps ==
    /\ DOMAIN WriteStep = {"reserve_open", "mark_open", "clear_open"}
    /\ WriteStep["reserve_open"] = "reserve_write"
    /\ WriteStep["mark_open"] = "mark_write"
    /\ WriteStep["clear_open"] = "clear_write"
    /\ DOMAIN SavedStep = {"reserve_write", "mark_write", "clear_write"}
    /\ SavedStep["reserve_write"] = "transmit"
    /\ SavedStep["mark_write"] = "reported_submitted"
    /\ SavedStep["clear_write"] = "idle"
    /\ \A step \in Reserving : FailStep[step] = "denied"
    /\ \A step \in Marking : FailStep[step] = "mark_denied"
    /\ \A step \in Erasing : FailStep[step] = "clear_denied"
BY DEF WriteStep, SavedStep, FailStep, Reserving, Marking, Erasing

LEMMA TypeStep == TypeOK /\ [Next]_vars => TypeOK'
<1> SUFFICES ASSUME TypeOK, [Next]_vars PROVE TypeOK'
    OBVIOUS
<1> USE RegistryAssumption DEF TypeOK, Process, Records, NoRecords, RecordState,
        SubmitStep, ClearStep, FileState, Active, store, history
<1>1. ASSUME NEW s \in Submission, Reserve(s) PROVE TypeOK'
    BY <1>1 DEF Reserve
<1>2. ASSUME NEW s \in Submission, ReserveDenied(s) PROVE TypeOK'
    BY <1>2 DEF ReserveDenied, Goto
<1>3. ASSUME NEW s \in Submission, SubmitAccepted(s) PROVE TypeOK'
    BY <1>3 DEF SubmitAccepted, Transmitting
<1>4. ASSUME NEW s \in Submission, SubmitRetried(s) PROVE TypeOK'
    BY <1>4 DEF SubmitRetried, Transmitting
<1>5. ASSUME NEW s \in Submission, SubmitFails(s) PROVE TypeOK'
    BY <1>5 DEF SubmitFails, Transmitting, Goto
<1>6. ASSUME NEW s \in Submission, SubmitNotSent(s) PROVE TypeOK'
    BY <1>6 DEF SubmitNotSent, Goto
<1>7. ASSUME NEW c \in Clearing, NEW key \in Submission, Clear(c, key) PROVE TypeOK'
    BY <1>7 DEF Clear
<1>8. ASSUME NEW c \in Clearing, NEW key \in Submission, ClearDenied(c, key) PROVE TypeOK'
    BY <1>8 DEF ClearDenied, Goto
<1>9. ASSUME NEW p \in Process, TruncateFile(p) PROVE TypeOK'
    BY <1>9, SaveSteps DEF TruncateFile, Goto
<1>10. ASSUME NEW p \in Process, SaveFailsAtOpen(p) PROVE TypeOK'
    BY <1>10, SaveSteps DEF SaveFailsAtOpen, Goto, Reserving, Marking, Erasing
<1>11. ASSUME NEW p \in Process, WriteFile(p) PROVE TypeOK'
    <2>1. disk' \in Records /\ file' \in FileState /\ (file' # "valid" => disk' = NoRecords)
        BY <1>11 DEF WriteFile
    <2>2. CASE pc[p] = "reserve_write"
        <3>1. p \in Submission
            BY <2>2
        <3>2. /\ pc' = [pc EXCEPT ![p] = "transmit"] /\ mem' = mem
              /\ reserved' = reserved \cup {p} /\ marked' = marked /\ cleared' = cleared
            BY <1>11, <2>2, SaveSteps DEF WriteFile, RecordSaved, Goto
        <3> QED
            BY <1>11, <3>1, <3>2 DEF WriteFile, RecordSaved
    <2>3. CASE pc[p] = "mark_write"
        BY <1>11, <2>1, <2>3, SaveSteps DEF WriteFile, RecordSaved, Goto
    <2>4. CASE pc[p] = "clear_write"
        <3>1. p \in Clearing /\ target[p] \in Submission
            BY <2>4
        <3>2. /\ pc' = [pc EXCEPT ![p] = "idle"]
              /\ mem' = [mem EXCEPT ![p] = NoRecords]
              /\ reserved' = reserved /\ marked' = marked
              /\ cleared' = cleared \cup {target[p]}
            BY <1>11, <2>4, SaveSteps DEF WriteFile, RecordSaved, Goto
        <3> QED
            BY <1>11, <3>1, <3>2 DEF WriteFile, RecordSaved
    <2> QED
        BY <1>11, <2>2, <2>3, <2>4, SaveSteps DEF WriteFile
<1>12. ASSUME NEW p \in Process, SaveFailsAtWrite(p) PROVE TypeOK'
    <2>1. disk' \in Records /\ file' \in FileState /\ (file' # "valid" => disk' = NoRecords)
        BY <1>12 DEF SaveFailsAtWrite
    <2>2. Goto(p, FailStep[pc[p]]) /\ UNCHANGED <<target, attempts, history>>
        BY <1>12 DEF SaveFailsAtWrite
    <2>3. pc[p] \in {"reserve_write", "mark_write", "clear_write"}
        BY <1>12, SaveSteps DEF SaveFailsAtWrite
    <2>4. /\ p \in Submission => FailStep[pc[p]] \in SubmitStep \ Active
          /\ p \in Clearing => FailStep[pc[p]] \in ClearStep \ Active
        BY <2>3, SaveSteps DEF Reserving, Marking, Erasing
    <2>5. /\ pc' = [pc EXCEPT ![p] = FailStep[pc[p]]]
          /\ mem' = [mem EXCEPT ![p] = NoRecords]
        BY <2>2, <2>4 DEF Goto
    <2> QED
        BY <2>1, <2>2, <2>4, <2>5
<1>13. ASSUME NEW p \in Process, Crash(p) PROVE TypeOK'
    BY <1>13 DEF Crash, Goto
<1>14. ASSUME RemoveFileByHand PROVE TypeOK'
    BY <1>14 DEF RemoveFileByHand
<1>15. CASE UNCHANGED vars
    BY <1>15 DEF vars
<1> QED
    BY <1>1, <1>2, <1>3, <1>4, <1>5, <1>6, <1>7, <1>8, <1>9, <1>10, <1>11, <1>12,
       <1>13, <1>14, <1>15
       DEF Next, Submit, Save

\* The variables keep their types: in particular a file that does not load has
\* no records, and client.Do never exceeds its attempts.
THEOREM TypeCorrect == Spec => []TypeOK
<1>1. Init => TypeOK
    BY RegistryAssumption
       DEF Init, TypeOK, Process, Records, NoRecords, RecordState, SubmitStep,
           ClearStep, FileState
<1> QED
    BY <1>1, TypeStep, PTL DEF Spec
-----------------------------------------------------------------------------
(***************************************************************************)
(* The inductive step.                                                     *)
(***************************************************************************)

LEMMA InductiveStep == OneAtATime /\ IInv /\ [Next]_vars => IInv'
<1> SUFFICES ASSUME OneAtATime, IInv, [Next]_vars PROVE IInv'
    OBVIOUS
<1>0. TypeOK'
    BY TypeStep DEF IInv
<1> USE RegistryAssumption, <1>0 DEF IInv, TypeOK, Process, Records, NoRecords, RecordState,
        SubmitStep, ClearStep, FileState, Active, Saving, Reserving, Marking, Erasing,
        store, history
<1>1. ASSUME NEW s \in Submission, Reserve(s) PROVE IInv'
    <2>1. OnlyOneRuns' /\ MarkingSubmitted'
        BY <1>1 DEF Reserve, OnlyOneRuns, MarkingSubmitted, MayStart, Running
    <2>2. DiskIsComplete'
        BY <1>1 DEF Reserve, DiskIsComplete, Kept
    <2>3. CopyIsComplete'
        BY <1>1 DEF Reserve, DiskIsComplete, CopyIsComplete, Kept, MayStart, Running
    <2>4. ReservingAlone' /\ TransmittingRecorded'
        BY <1>1 DEF Reserve, ReservingAlone, TransmittingRecorded, MayReserve
    <2>5. AtMostOneUnresolved'
        BY <1>1 DEF Reserve, AtMostOneUnresolved, Unresolved
    <2> QED
        BY <2>1, <2>2, <2>3, <2>4, <2>5
<1>2. ASSUME NEW s \in Submission, ReserveDenied(s) PROVE IInv'
    <2>1. OnlyOneRuns' /\ MarkingSubmitted'
        BY <1>2 DEF ReserveDenied, Goto, OnlyOneRuns, MarkingSubmitted
    <2>2. DiskIsComplete'
        BY <1>2 DEF ReserveDenied, DiskIsComplete, Kept, Loads
    <2>3. CopyIsComplete'
        BY <1>2 DEF ReserveDenied, Goto, CopyIsComplete, Kept, Key
    <2>4. ReservingAlone' /\ TransmittingRecorded'
        BY <1>2 DEF ReserveDenied, Goto, ReservingAlone, TransmittingRecorded
    <2>5. AtMostOneUnresolved'
        BY <1>2 DEF ReserveDenied, AtMostOneUnresolved, Unresolved
    <2> QED
        BY <2>1, <2>2, <2>3, <2>4, <2>5
<1>3. ASSUME NEW s \in Submission, SubmitAccepted(s) PROVE IInv'
    <2>1. OnlyOneRuns' /\ MarkingSubmitted'
        BY <1>3 DEF SubmitAccepted, Transmitting, OnlyOneRuns, MarkingSubmitted
    <2>2. DiskIsComplete'
        BY <1>3 DEF SubmitAccepted, Transmitting, DiskIsComplete, Kept, Loads
    <2>3. CopyIsComplete'
        BY <1>3
           DEF SubmitAccepted, Transmitting, DiskIsComplete, CopyIsComplete,
               TransmittingRecorded, Kept, Loads, Key
    <2>4. ReservingAlone' /\ TransmittingRecorded'
        BY <1>3
           DEF SubmitAccepted, Transmitting, ReservingAlone, TransmittingRecorded
    <2>5. AtMostOneUnresolved'
        BY <1>3 DEF SubmitAccepted, Transmitting, AtMostOneUnresolved, Unresolved
    <2> QED
        BY <2>1, <2>2, <2>3, <2>4, <2>5
<1>4. ASSUME NEW s \in Submission, SubmitRetried(s) PROVE IInv'
    <2>1. OnlyOneRuns' /\ MarkingSubmitted'
        BY <1>4 DEF SubmitRetried, OnlyOneRuns, MarkingSubmitted
    <2>2. DiskIsComplete'
        BY <1>4 DEF SubmitRetried, Transmitting, DiskIsComplete, Kept, Loads
    <2>3. CopyIsComplete'
        BY <1>4 DEF SubmitRetried, Transmitting, CopyIsComplete, Kept, Key
    <2>4. ReservingAlone' /\ TransmittingRecorded'
        BY <1>4
           DEF SubmitRetried, Transmitting, ReservingAlone, TransmittingRecorded
    <2>5. AtMostOneUnresolved'
        BY <1>4 DEF SubmitRetried, Transmitting, AtMostOneUnresolved, Unresolved
    <2> QED
        BY <2>1, <2>2, <2>3, <2>4, <2>5
<1>5. ASSUME NEW s \in Submission, SubmitFails(s) PROVE IInv'
    <2>1. OnlyOneRuns' /\ MarkingSubmitted'
        BY <1>5 DEF SubmitFails, Goto, OnlyOneRuns, MarkingSubmitted
    <2>2. DiskIsComplete'
        BY <1>5 DEF SubmitFails, Transmitting, DiskIsComplete, Kept, Loads
    <2>3. CopyIsComplete'
        BY <1>5 DEF SubmitFails, Transmitting, Goto, CopyIsComplete, Kept, Key
    <2>4. ReservingAlone' /\ TransmittingRecorded'
        BY <1>5
           DEF SubmitFails, Transmitting, Goto, ReservingAlone, TransmittingRecorded
    <2>5. AtMostOneUnresolved'
        BY <1>5 DEF SubmitFails, Transmitting, AtMostOneUnresolved, Unresolved
    <2> QED
        BY <2>1, <2>2, <2>3, <2>4, <2>5
<1>6. ASSUME NEW s \in Submission, SubmitNotSent(s) PROVE IInv'
    <2>1. OnlyOneRuns' /\ MarkingSubmitted'
        BY <1>6 DEF SubmitNotSent, Goto, OnlyOneRuns, MarkingSubmitted
    <2>2. DiskIsComplete'
        BY <1>6 DEF SubmitNotSent, DiskIsComplete, Kept, Loads
    <2>3. CopyIsComplete'
        BY <1>6 DEF SubmitNotSent, Goto, CopyIsComplete, Kept, Key
    <2>4. ReservingAlone' /\ TransmittingRecorded'
        BY <1>6 DEF SubmitNotSent, Goto, ReservingAlone, TransmittingRecorded
    <2>5. AtMostOneUnresolved'
        BY <1>6 DEF SubmitNotSent, AtMostOneUnresolved, Unresolved
    <2> QED
        BY <2>1, <2>2, <2>3, <2>4, <2>5
<1>7. ASSUME NEW c \in Clearing, NEW key \in Submission, Clear(c, key) PROVE IInv'
    <2>1. OnlyOneRuns' /\ MarkingSubmitted'
        BY <1>7 DEF Clear, OnlyOneRuns, MarkingSubmitted, MayStart, Running
    <2>2. DiskIsComplete'
        BY <1>7 DEF Clear, DiskIsComplete, Kept
    <2>3. CopyIsComplete'
        BY <1>7 DEF Clear, DiskIsComplete, CopyIsComplete, Kept, Key
    <2>4. ReservingAlone' /\ TransmittingRecorded'
        BY <1>7 DEF Clear, ReservingAlone, TransmittingRecorded
    <2>5. AtMostOneUnresolved'
        BY <1>7 DEF Clear, AtMostOneUnresolved, Unresolved
    <2> QED
        BY <2>1, <2>2, <2>3, <2>4, <2>5
<1>8. ASSUME NEW c \in Clearing, NEW key \in Submission, ClearDenied(c, key) PROVE IInv'
    <2>1. OnlyOneRuns' /\ MarkingSubmitted'
        BY <1>8 DEF ClearDenied, Goto, OnlyOneRuns, MarkingSubmitted
    <2>2. DiskIsComplete'
        BY <1>8 DEF ClearDenied, DiskIsComplete, Kept, Loads
    <2>3. CopyIsComplete'
        BY <1>8 DEF ClearDenied, Goto, CopyIsComplete, Kept, Key
    <2>4. ReservingAlone' /\ TransmittingRecorded'
        BY <1>8 DEF ClearDenied, Goto, ReservingAlone, TransmittingRecorded
    <2>5. AtMostOneUnresolved'
        BY <1>8 DEF ClearDenied, AtMostOneUnresolved, Unresolved
    <2> QED
        BY <2>1, <2>2, <2>3, <2>4, <2>5
<1>9. ASSUME NEW p \in Process, TruncateFile(p) PROVE IInv'
    <2>1. OnlyOneRuns' /\ MarkingSubmitted'
        BY <1>9, SaveSteps DEF TruncateFile, Goto, OnlyOneRuns, MarkingSubmitted
    <2>2. DiskIsComplete'
        BY <1>9 DEF TruncateFile, DiskIsComplete, Loads
    <2>3. CopyIsComplete'
        BY <1>9, SaveSteps DEF TruncateFile, Goto, CopyIsComplete, Kept, Key
    <2>4. ReservingAlone' /\ TransmittingRecorded'
        BY <1>9, SaveSteps
           DEF TruncateFile, Goto, OnlyOneRuns, ReservingAlone, TransmittingRecorded
    <2>5. AtMostOneUnresolved'
        BY <1>9 DEF TruncateFile, AtMostOneUnresolved, Unresolved
    <2> QED
        BY <2>1, <2>2, <2>3, <2>4, <2>5
<1>10. ASSUME NEW p \in Process, SaveFailsAtOpen(p) PROVE IInv'
    <2>1. OnlyOneRuns' /\ MarkingSubmitted'
        BY <1>10, SaveSteps DEF SaveFailsAtOpen, Goto, OnlyOneRuns, MarkingSubmitted
    <2>2. DiskIsComplete'
        BY <1>10 DEF SaveFailsAtOpen, DiskIsComplete, Kept, Loads
    <2>3. CopyIsComplete'
        BY <1>10, SaveSteps DEF SaveFailsAtOpen, Goto, CopyIsComplete, Kept, Key
    <2>4. ReservingAlone' /\ TransmittingRecorded'
        BY <1>10, SaveSteps
           DEF SaveFailsAtOpen, Goto, ReservingAlone, TransmittingRecorded
    <2>5. AtMostOneUnresolved'
        BY <1>10 DEF SaveFailsAtOpen, AtMostOneUnresolved, Unresolved
    <2> QED
        BY <2>1, <2>2, <2>3, <2>4, <2>5
<1>11. ASSUME NEW p \in Process, WriteFile(p) PROVE IInv'
    <2>1. OnlyOneRuns' /\ MarkingSubmitted'
        BY <1>11, SaveSteps DEF WriteFile, Goto, OnlyOneRuns, MarkingSubmitted
    <2>2. DiskIsComplete'
        <3> SUFFICES ASSUME NEW t \in reserved' \ cleared', disk' = mem[p]
                     PROVE  Kept(disk, t)'
            BY <1>11 DEF DiskIsComplete, Loads, WriteFile
        <3>1. CASE t # Key(p)
            BY <1>11, <3>1, SaveSteps
               DEF WriteFile, RecordSaved, CopyIsComplete, Kept, Key
        <3>2. CASE t = Key(p) /\ p \in Submission
            BY <1>11, <3>2, SaveSteps
               DEF WriteFile, RecordSaved, ReservingAlone, MarkingSubmitted, Kept,
                   Key
        <3>3. CASE t = Key(p) /\ p \notin Submission
            BY <1>11, <3>3, SaveSteps DEF WriteFile, RecordSaved, Key
        <3> QED
            BY <3>1, <3>2, <3>3
    <2>3. CopyIsComplete'
        BY <1>11, SaveSteps DEF WriteFile, Goto, OnlyOneRuns, CopyIsComplete
    <2>4. ReservingAlone' /\ TransmittingRecorded'
        BY <1>11, SaveSteps
           DEF WriteFile, Goto, OnlyOneRuns, ReservingAlone, TransmittingRecorded
    <2>5. AtMostOneUnresolved'
        BY <1>11
           DEF WriteFile, RecordSaved, AtMostOneUnresolved, Unresolved,
               CopyIsComplete, ReservingAlone, Kept, Key
    <2> QED
        BY <2>1, <2>2, <2>3, <2>4, <2>5
<1>12. ASSUME NEW p \in Process, SaveFailsAtWrite(p) PROVE IInv'
    <2>1. OnlyOneRuns' /\ MarkingSubmitted'
        BY <1>12, SaveSteps
           DEF SaveFailsAtWrite, Goto, OnlyOneRuns, MarkingSubmitted
    <2>2. DiskIsComplete'
        BY <1>12 DEF SaveFailsAtWrite, DiskIsComplete, Kept, Loads
    <2>3. CopyIsComplete'
        BY <1>12, SaveSteps DEF SaveFailsAtWrite, Goto, CopyIsComplete, Kept, Key
    <2>4. ReservingAlone' /\ TransmittingRecorded'
        BY <1>12, SaveSteps
           DEF SaveFailsAtWrite, Goto, OnlyOneRuns, ReservingAlone,
               TransmittingRecorded
    <2>5. AtMostOneUnresolved'
        BY <1>12 DEF SaveFailsAtWrite, AtMostOneUnresolved, Unresolved
    <2> QED
        BY <2>1, <2>2, <2>3, <2>4, <2>5
<1>13. ASSUME NEW p \in Process, Crash(p) PROVE IInv'
    <2>1. OnlyOneRuns' /\ MarkingSubmitted'
        BY <1>13 DEF Crash, Goto, OnlyOneRuns, MarkingSubmitted
    <2>2. DiskIsComplete'
        BY <1>13 DEF Crash, DiskIsComplete, Kept, Loads
    <2>3. CopyIsComplete'
        BY <1>13 DEF Crash, Goto, CopyIsComplete, Kept, Key
    <2>4. ReservingAlone' /\ TransmittingRecorded'
        BY <1>13 DEF Crash, Goto, ReservingAlone, TransmittingRecorded
    <2>5. AtMostOneUnresolved'
        BY <1>13 DEF Crash, AtMostOneUnresolved, Unresolved
    <2> QED
        BY <2>1, <2>2, <2>3, <2>4, <2>5
<1>14. ASSUME RemoveFileByHand PROVE IInv'
    <2>1. OnlyOneRuns' /\ MarkingSubmitted'
        BY <1>14 DEF RemoveFileByHand, OnlyOneRuns, MarkingSubmitted
    <2>2. DiskIsComplete'
        BY <1>14 DEF RemoveFileByHand, DiskIsComplete
    <2>3. CopyIsComplete'
        BY <1>14 DEF RemoveFileByHand, CopyIsComplete
    <2>4. ReservingAlone' /\ TransmittingRecorded'
        BY <1>14
           DEF RemoveFileByHand, ReservingAlone, TransmittingRecorded, MayStart,
               Running
    <2>5. AtMostOneUnresolved'
        BY <1>14 DEF RemoveFileByHand, AtMostOneUnresolved, Unresolved
    <2> QED
        BY <2>1, <2>2, <2>3, <2>4, <2>5
<1>15. CASE UNCHANGED vars
    BY <1>15
       DEF vars, OnlyOneRuns, DiskIsComplete, CopyIsComplete, ReservingAlone,
           TransmittingRecorded, MarkingSubmitted, AtMostOneUnresolved, Unresolved,
           Kept, Loads, Key
<1> QED
    BY <1>1, <1>2, <1>3, <1>4, <1>5, <1>6, <1>7, <1>8, <1>9, <1>10, <1>11, <1>12,
       <1>13, <1>14, <1>15
       DEF Next, Submit, Save

-----------------------------------------------------------------------------
(***************************************************************************)
(* The theorems.                                                           *)
(***************************************************************************)

LEMMA InitEstablishes == Init => IInv
BY RegistryAssumption
   DEF Init, IInv, TypeOK, Process, Records, NoRecords, RecordState, SubmitStep,
       ClearStep, FileState, Active, Reserving, Marking, OnlyOneRuns,
       DiskIsComplete, CopyIsComplete, ReservingAlone, TransmittingRecorded,
       MarkingSubmitted, AtMostOneUnresolved, Unresolved

\* reserve, markSubmitted and clear preserve the inductive invariant for every
\* set of processes that run one at a time.
THEOREM Invariance == OneAtATime => (Spec => []IInv)
<1> SUFFICES ASSUME OneAtATime PROVE Spec => []IInv
    OBVIOUS
<1>1. IInv /\ [Next]_vars => IInv'
    BY InductiveStep
<1> QED
    BY InitEstablishes, <1>1, PTL DEF Spec

\* No order is in doubt twice, across crashes, failed saves and torn files
\* (cmd/submit_idempotency.go).
THEOREM RegistrySafe == OneAtATime => (Spec => []AtMostOneUnresolved)
<1> SUFFICES ASSUME OneAtATime
             PROVE  Spec => []AtMostOneUnresolved
    OBVIOUS
<1>1. IInv => AtMostOneUnresolved
    BY DEF IInv
<1> QED
    BY Invariance, <1>1, PTL

\* What reserve let through is on disk while it is in transit, and no save of
\* another process's registry forgets it afterwards.
THEOREM RecordsAreKept == OneAtATime => (Spec => []OrdersAreOnRecord)
<1> SUFFICES ASSUME OneAtATime
             PROVE  Spec => []OrdersAreOnRecord
    OBVIOUS
<1>1. IInv => OrdersAreOnRecord
    BY DEF IInv, OrdersAreOnRecord, InTransitIsOnDisk, NoRecordForgotten, TransmittingRecorded,
           DiskIsComplete, Kept, Loads
<1> QED
    BY Invariance, <1>1, PTL

\* Nothing gets past a torn registry file, whatever overlaps: ensureLoaded's
\* errors deny reserve and clear.
THEOREM TornFileDenies == Spec => TornFileDeniesAll
<1>1. TypeOK /\ [Next]_vars
         => [(file \in {"empty", "corrupt"} /\ Running = {}) => Running' = {}]_vars
    <2> SUFFICES ASSUME TypeOK, Next, file \in {"empty", "corrupt"}, Running = {}
                 PROVE  Running' = {}
        OBVIOUS
    <2> USE DEF Active, Goto, Running
    <2>1. \A p \in Process : pc[p] \notin Active
        OBVIOUS
    <2>2. ASSUME NEW s \in Submission, Reserve(s) \/ ReserveDenied(s) \/ Submit(s)
          PROVE  Running' = {}
        BY <2>2
           DEF Reserve, ReserveDenied, Submit, SubmitAccepted, SubmitRetried,
               SubmitFails, SubmitNotSent, Transmitting, Loads, TypeOK
    <2>3. ASSUME NEW c \in Clearing, NEW key \in Submission,
                 Clear(c, key) \/ ClearDenied(c, key)
          PROVE  Running' = {}
        BY <2>3 DEF Clear, ClearDenied, Loads, TypeOK
    <2>4. ASSUME NEW p \in Process, Save(p) \/ Crash(p) PROVE Running' = {}
        BY <2>4, SaveSteps
           DEF Save, TruncateFile, SaveFailsAtOpen, WriteFile, SaveFailsAtWrite,
               Crash
    <2>5. CASE RemoveFileByHand
        BY <2>5 DEF RemoveFileByHand
    <2> QED
        BY <2>2, <2>3, <2>4, <2>5 DEF Next
<1> QED
    BY TypeCorrect, <1>1, PTL DEF Spec, TornFileDeniesAll

\* A step of the registry is a step of the ledger or leaves it alone.
LEMMA LedgerStep ==
    OneAtATime /\ IInv /\ IInv' /\ [Next]_vars => [Ledger!Next]_Unresolved
<1> SUFFICES ASSUME OneAtATime, IInv, IInv', [Next]_vars,
                    Unresolved' # Unresolved
             PROVE  Ledger!Next
    OBVIOUS
<1>1. ASSUME NEW s \in Submission, reserved' = reserved \cup {s},
             marked' = marked, cleared' = cleared
      PROVE  Ledger!Next
    <2>1. Ledger!Open(s)
        BY <1>1 DEF Ledger!Open, Unresolved, IInv, AtMostOneUnresolved
    <2> QED
        BY <2>1 DEF Ledger!Next
<1>2. ASSUME reserved' = reserved, marked \subseteq marked', cleared \subseteq cleared'
      PROVE  Ledger!Next
    <2>1. Ledger!Settle(Unresolved \ Unresolved')
        BY <1>2 DEF Ledger!Settle, Unresolved
    <2> QED
        BY <2>1 DEF Ledger!Next
<1>3. ASSUME NEW p \in Process, WriteFile(p) PROVE Ledger!Next
    <2>1. CASE pc[p] = "reserve_write"
        <3>1. p \in Submission
            BY <2>1 DEF IInv, TypeOK, ClearStep, Process
        <3> QED
            BY <1>1, <1>3, <2>1, <3>1 DEF WriteFile, RecordSaved
    <2>2. CASE pc[p] # "reserve_write"
        BY <1>2, <1>3, <2>2 DEF WriteFile, RecordSaved
    <2> QED
        BY <2>1, <2>2
<1>4. CASE RemoveFileByHand
    BY <1>2, <1>4 DEF RemoveFileByHand
<1>5. ASSUME reserved' = reserved, marked' = marked, cleared' = cleared
      PROVE  FALSE
    BY <1>5 DEF Unresolved
<1> QED
    BY <1>3, <1>4, <1>5
       DEF Next, Reserve, ReserveDenied, Submit, SubmitAccepted, SubmitRetried,
           SubmitFails, SubmitNotSent, Transmitting, Clear, ClearDenied, Save,
           TruncateFile, SaveFailsAtOpen, SaveFailsAtWrite, Crash, vars, history

\* The registry, with its file, its crashes and its failed saves, implements the
\* ledger that opens each order at most once.
THEOREM RegistryImplementsLedger == OneAtATime => (Spec => LedgerSpec)
<1> SUFFICES ASSUME OneAtATime PROVE Spec => LedgerSpec
    OBVIOUS
<1>1. Init => Ledger!Init
    BY DEF Init, Ledger!Init, Unresolved
<1>2. IInv /\ IInv' /\ [Next]_vars => [Ledger!Next]_Unresolved
    BY LedgerStep
<1>3. Spec => []IInv
    BY Invariance
<1> QED
    BY <1>1, <1>2, <1>3, PTL DEF Spec, LedgerSpec, Ledger!Spec
=============================================================================
