--------------------------- MODULE SubmitRegistry ---------------------------
(***************************************************************************)
(* The duplicate-submit registry of `tt submit` and `tt submit-state       *)
(* clear` (cmd/submit_idempotency.go, cmd/submit_state.go) together with   *)
(* the part of runSubmit that uses it (cmd/orders.go): reserve before the  *)
(* order is transmitted, markSubmitted after the broker answered.          *)
(*                                                                         *)
(* Every invocation of `tt` is an operating-system process of its own.  It *)
(* reads the registry file once (ensureLoaded), works on its own copy, and *)
(* writes the whole copy back (saveLocked) with os.WriteFile: open with    *)
(* O_TRUNC, then write.  There is no file lock and no rename.  A process   *)
(* may be killed between any two steps.                                    *)
(*                                                                         *)
(* A submission is one `tt submit` process.  Its intent ID is a fresh UUID,*)
(* so the identity key (SHA-256 of account, intent and order hash) is as   *)
(* unique as the process: the submission stands for its own key.  OrderOf  *)
(* gives its (account, canonical order hash) pair.  The gates runSubmit    *)
(* passes before reserve are in LiveSubmit; here a submission may always   *)
(* reach reserve, which is the worst case for this component.              *)
(***************************************************************************)
EXTENDS Naturals, FiniteSets

CONSTANTS
    Submission,   \* the `tt submit` processes, each one its own identity key
    Clearing,     \* operator terminals that run `tt submit-state clear`
    Order,        \* (account, order hash) pairs
    OrderOf,      \* the order each submission carries
    MaxAttempts,  \* maxAttempts of client.Do
    OneAtATime    \* TRUE: the operator runs one `tt` process at a time

ASSUME RegistryAssumption ==
    /\ OrderOf \in [Submission -> Order]
    /\ Submission \cap Clearing = {}
    /\ MaxAttempts \in Nat \ {0}
    /\ OneAtATime \in BOOLEAN

Process == Submission \cup Clearing

RecordState == {"none", "in_flight", "submitted"}

\* A registry: the state of each key, "none" when there is no such record.
Records == [Submission -> RecordState]
NoRecords == [s \in Submission |-> "none"]

\* saveLocked as its callers see it: the open, then the write, then what
\* follows when both succeeded and what follows when either returned an error.
WriteStep == [reserve_open |-> "reserve_write",
              mark_open    |-> "mark_write",
              clear_open   |-> "clear_write"]
SavedStep == [reserve_write |-> "transmit",
              mark_write    |-> "reported_submitted",
              clear_write   |-> "idle"]

\* Fault: a failed save is tried again.
FailStepRetrying ==
    [reserve_open |-> "reserve_open", reserve_write |-> "reserve_open",
     mark_open    |-> "mark_open",    mark_write    |-> "mark_open",
     clear_open   |-> "clear_open",   clear_write   |-> "clear_open"]

FailStep == [reserve_open |-> "denied",       reserve_write |-> "denied",
             mark_open    |-> "mark_denied",  mark_write    |-> "mark_denied",
             clear_open   |-> "clear_denied", clear_write   |-> "clear_denied"]

Active == {"reserve_open", "reserve_write", "transmit", "mark_open",
           "mark_write", "clear_open", "clear_write"}
SubmitStep == {"idle", "denied", "reserve_open", "reserve_write", "transmit",
               "send_failed", "mark_open", "mark_write", "mark_denied",
               "reported_submitted", "crashed"}
ClearStep == {"idle", "clear_open", "clear_write", "clear_denied"}

VARIABLES
    pc,        \* where each process is
    mem,       \* registry.records of each process, NoRecords when it has none
    target,    \* the --identity of each clearing process
    file,      \* what live_submit_identities.json holds, as a whole
    disk,      \* its records, NoRecords unless file = "valid"
    attempts,  \* HTTP attempts client.Do made for each submission
    \* History, read by the properties only:
    sent,      \* submissions whose request may have left the machine
    reserved,  \* submissions whose reserve returned Allowed
    marked,    \* submissions whose markSubmitted returned Allowed
    cleared    \* submissions whose record the operator removed

store == <<file, disk>>
history == <<sent, reserved, marked, cleared>>
vars == <<pc, mem, target, store, attempts, history>>

FileState == {"absent", "valid", "empty", "corrupt"}

TypeOK ==
    /\ pc \in [Process -> SubmitStep \cup ClearStep]
    /\ \A s \in Submission : pc[s] \in SubmitStep
    /\ \A c \in Clearing : pc[c] \in ClearStep
    /\ mem \in [Process -> Records]
    /\ target \in [Clearing -> Submission]
    /\ file \in FileState
    /\ disk \in Records
    /\ file # "valid" => disk = NoRecords
    /\ attempts \in [Submission -> 0..MaxAttempts]
    /\ sent \subseteq Submission
    /\ reserved \subseteq Submission
    /\ marked \subseteq Submission
    /\ cleared \subseteq Submission

Init ==
    /\ pc = [p \in Process |-> "idle"]
    /\ mem = [p \in Process |-> NoRecords]
    /\ target \in [Clearing -> Submission]
    /\ file = "absent"
    /\ disk = NoRecords
    /\ attempts = [s \in Submission |-> 0]
    /\ sent = {}
    /\ reserved = {}
    /\ marked = {}
    /\ cleared = {}

-----------------------------------------------------------------------------

Running == {p \in Process : pc[p] \in Active}
MayStart == OneAtATime => Running = {}

\* Process p goes to step, and its copy of the registry is gone if that ends it.
Goto(p, step) ==
    /\ pc' = [pc EXCEPT ![p] = step]
    /\ mem' = IF step \in Active THEN mem ELSE [mem EXCEPT ![p] = NoRecords]

\* Fault: an empty file taken for a registry without records.
LoadsEmptyFile == file # "corrupt"

\* ensureLoaded succeeds on a missing file and on well-formed JSON.  A file that
\* is empty or torn does not unmarshal.
Loads == file \in {"absent", "valid"}

\* Fault: no scan for another key's in_flight record.
MayReserveUnderKeyOnly(records, s) == records[s] = "none"

\* reserve's checks on the loaded records: no record under this key, and no
\* in_flight record for the same account and order hash under another key.
MayReserve(records, s) ==
    /\ records[s] = "none"
    /\ \A t \in Submission :
          OrderOf[t] = OrderOf[s] => records[t] # "in_flight"

\* Fault: reserve saves its own record only, not the ones it loaded.
ReserveForgetsLoaded(s) ==
    /\ pc[s] = "idle"
    /\ MayStart
    /\ Loads
    /\ MayReserve(disk, s)
    /\ pc' = [pc EXCEPT ![s] = "reserve_open"]
    /\ mem' = [mem EXCEPT ![s] = [NoRecords EXCEPT ![s] = "in_flight"]]
    /\ UNCHANGED <<target, store, attempts, history>>

\* reserve up to saveLocked.  Loading, the checks and the new record happen
\* under the registry's mutex; the read of the file is one os.ReadFile.
Reserve(s) ==
    /\ pc[s] = "idle"
    /\ MayStart
    /\ Loads
    /\ MayReserve(disk, s)
    /\ pc' = [pc EXCEPT ![s] = "reserve_open"]
    /\ mem' = [mem EXCEPT ![s] = [disk EXCEPT ![s] = "in_flight"]]
    /\ UNCHANGED <<target, store, attempts, history>>

\* reserve denies: a duplicate, a file that does not load, or a read error,
\* which may happen whatever the file holds.
ReserveDenied(s) ==
    /\ pc[s] = "idle"
    /\ MayStart
    /\ Goto(s, "denied")
    /\ UNCHANGED <<target, store, attempts, history>>

\* clear up to saveLocked: the key must be there.
Clear(c, key) ==
    /\ pc[c] \in {"idle", "clear_denied"}
    /\ MayStart
    /\ Loads
    /\ disk[key] # "none"
    /\ target' = [target EXCEPT ![c] = key]
    /\ pc' = [pc EXCEPT ![c] = "clear_open"]
    /\ mem' = [mem EXCEPT ![c] = [disk EXCEPT ![key] = "none"]]
    /\ UNCHANGED <<store, attempts, history>>

\* clear is denied: the file does not load, the key is unknown, or a read error.
ClearDenied(c, key) ==
    /\ pc[c] \in {"idle", "clear_denied"}
    /\ MayStart
    /\ target' = [target EXCEPT ![c] = key]
    /\ Goto(c, "clear_denied")
    /\ UNCHANGED <<store, attempts, history>>

-----------------------------------------------------------------------------
(***************************************************************************)
(* saveLocked: path and MkdirAll, then os.WriteFile.                       *)
(***************************************************************************)

\* The open with O_TRUNC succeeded: the old records are gone.
TruncateFile(p) ==
    /\ pc[p] \in DOMAIN WriteStep
    /\ file' = "empty"
    /\ disk' = NoRecords
    /\ Goto(p, WriteStep[pc[p]])
    /\ UNCHANGED <<target, attempts, history>>

\* No path, no directory or no open: an error, and the file is as it was.
SaveFailsAtOpen(p) ==
    /\ pc[p] \in DOMAIN WriteStep
    /\ Goto(p, FailStep[pc[p]])
    /\ UNCHANGED <<target, store, attempts, history>>

\* What a caller of saveLocked concludes from its success.
RecordSaved(p) ==
    /\ reserved' = IF pc[p] = "reserve_write" THEN reserved \cup {p} ELSE reserved
    /\ marked' = IF pc[p] = "mark_write" THEN marked \cup {p} ELSE marked
    /\ cleared' = IF pc[p] = "clear_write" THEN cleared \cup {target[p]} ELSE cleared
    /\ UNCHANGED sent

\* The whole copy is written at offset 0.  If another process wrote after this
\* one truncated, the longer of the two may show behind the shorter: torn JSON.
WriteFile(p) ==
    /\ pc[p] \in DOMAIN SavedStep
    /\ \/ /\ file' = "valid"
          /\ disk' = mem[p]
       \/ /\ file \in {"valid", "corrupt"}
          /\ file' = "corrupt"
          /\ disk' = NoRecords
    /\ RecordSaved(p)
    /\ Goto(p, SavedStep[pc[p]])
    /\ UNCHANGED <<target, attempts>>

\* The write returned an error, having written nothing or a part.
SaveFailsAtWrite(p) ==
    /\ pc[p] \in DOMAIN SavedStep
    /\ \/ UNCHANGED store
       \/ /\ file' = "corrupt"
          /\ disk' = NoRecords
    /\ Goto(p, FailStep[pc[p]])
    /\ UNCHANGED <<target, attempts, history>>

-----------------------------------------------------------------------------
(***************************************************************************)
(* exchange.Submit through client.Do: up to MaxAttempts requests under one *)
(* idempotency key.  Any attempt may have reached the broker, whatever     *)
(* client.Do returns.                                                      *)
(***************************************************************************)

Transmitting(s) ==
    /\ pc[s] = "transmit"
    /\ attempts[s] < MaxAttempts
    /\ attempts' = [attempts EXCEPT ![s] = @ + 1]
    /\ sent' = sent \cup {s}
    /\ UNCHANGED <<target, store, reserved, marked, cleared>>

\* 200 or 201: markSubmitted sets the state in memory and goes on to save.
SubmitAccepted(s) ==
    /\ Transmitting(s)
    /\ pc' = [pc EXCEPT ![s] = "mark_open"]
    /\ mem' = [mem EXCEPT ![s][s] = "submitted"]

\* Fault: client.Do retries without a limit.
SubmitRetriedWithoutLimit(s) ==
    /\ pc[s] = "transmit"
    /\ attempts' = [attempts EXCEPT ![s] = @ + 1]
    /\ sent' = sent \cup {s}
    /\ UNCHANGED <<pc, mem, target, store, reserved, marked, cleared>>

\* A network error, 401, 429 or 5xx, and attempts are left.
SubmitRetried(s) ==
    /\ Transmitting(s)
    /\ attempts[s] + 1 < MaxAttempts
    /\ UNCHANGED <<pc, mem>>

\* Out of attempts, another 4xx, or a response that does not parse: runSubmit
\* returns the error and the record stays in_flight.
SubmitFails(s) ==
    /\ Transmitting(s)
    /\ Goto(s, "send_failed")

\* No token or no rate-limiter slot: nothing was sent, the record stays too.
SubmitNotSent(s) ==
    /\ pc[s] = "transmit"
    /\ attempts[s] = 0
    /\ Goto(s, "send_failed")
    /\ UNCHANGED <<target, store, attempts, history>>

-----------------------------------------------------------------------------
(***************************************************************************)
(* The environment.                                                        *)
(***************************************************************************)

\* The process is killed (there is no signal handler), or the machine stops it.
Crash(p) ==
    /\ pc[p] \in Active
    /\ Goto(p, IF p \in Submission THEN "crashed" ELSE "idle")
    /\ UNCHANGED <<target, store, attempts, history>>

\* The operator removes the registry file by hand, having verified every order
\* with the broker.  No command of the program does this.
RemoveFileByHand ==
    /\ MayStart
    /\ file # "absent"
    /\ file' = "absent"
    /\ disk' = NoRecords
    /\ cleared' = cleared \cup reserved
    /\ UNCHANGED <<pc, mem, target, attempts, sent, reserved, marked>>

Save(p) ==
    \/ TruncateFile(p)
    \/ SaveFailsAtOpen(p)
    \/ WriteFile(p)
    \/ SaveFailsAtWrite(p)

Submit(s) ==
    \/ SubmitAccepted(s)
    \/ SubmitRetried(s)
    \/ SubmitFails(s)
    \/ SubmitNotSent(s)

Next ==
    \/ \E s \in Submission : Reserve(s) \/ ReserveDenied(s) \/ Submit(s)
    \/ \E c \in Clearing, key \in Submission : Clear(c, key) \/ ClearDenied(c, key)
    \/ \E p \in Process : Save(p) \/ Crash(p)
    \/ RemoveFileByHand

Spec == Init /\ [][Next]_vars

(***************************************************************************)
(* A started process keeps running: every system call returns, and         *)
(* client.Do bounds its attempts.  Nothing is assumed of the operator, who *)
(* may start nothing more, nor of crashes.                                 *)
(***************************************************************************)
FairSpec ==
    /\ Spec
    /\ \A p \in Process : WF_vars(Save(p))
    /\ \A s \in Submission : WF_vars(Submit(s))

-----------------------------------------------------------------------------
(***************************************************************************)
(* Properties.                                                             *)
(***************************************************************************)

\* The submissions that were allowed to transmit and whose outcome neither the
\* registry (markSubmitted) nor the operator (clear) has settled since.
Unresolved == reserved \ (marked \cup cleared)

\* An order is never in doubt twice: reserve refuses a second transmission of
\* the same account and order hash while an earlier one is unresolved, across
\* crashes, failed saves and torn files.  This is "no automatic resubmit when
\* prior persisted state for the same account/payload is still in_flight" (the
\* restart-recovery record, line 68).
AtMostOneUnresolved ==
    \A s, t \in Unresolved : OrderOf[s] = OrderOf[t] => s = t

\* While client.Do may be sending an order, its in_flight record is on disk, so
\* that a crash at this point leaves the trace the next process needs.
InTransitIsOnDisk ==
    \A s \in Submission :
        pc[s] = "transmit" => file = "valid" /\ disk[s] = "in_flight"

\* A file that loads still has the record of every submission that was ever
\* allowed to transmit and not cleared: rewriting the whole file on every save
\* forgets nobody.
NoRecordForgotten ==
    file \in {"absent", "valid"} =>
        \A s \in reserved \ cleared : disk[s] # "none"

\* What was let through is on record for the next process, in transit and after.
OrdersAreOnRecord == InTransitIsOnDisk /\ NoRecordForgotten

\* A torn file, left by a process that was killed or failed inside saveLocked,
\* denies every later reserve and clear: no process gets past the load.
TornFileDeniesAll ==
    [][(file \in {"empty", "corrupt"} /\ Running = {}) => Running' = {}]_vars

\* Every started process ends: it reports, is denied, fails or crashes.
EveryProcessEnds ==
    \A p \in Process : pc[p] \in Active ~> pc[p] \notin Active

\* The registry implements the ledger its documents promise.
Ledger == INSTANCE SubmitLedger WITH open <- Unresolved
LedgerSpec == Ledger!Spec

=============================================================================
