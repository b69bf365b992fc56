---------------------------- MODULE LossyQueues -----------------------------
(***************************************************************************)
(* What a chain of dispatch channel, event bus and consumer promises, with *)
(* the goroutines, channels and locks forgotten: for each kind of event a  *)
(* queue that may lose an event, but counts what it loses, that never      *)
(* reorders, and that ends only when it is empty, after which nothing      *)
(* arrives and nothing is applied.                                         *)
(*                                                                         *)
(* An event is a number, higher for a later one, so that a queue is a set  *)
(* whose head is its least element.                                        *)
(***************************************************************************)
EXTENDS Naturals

CONSTANTS Kind, Event

VARIABLES
    pending,  \* events that arrived and were neither applied nor lost
    latest,   \* the last event that arrived, of any kind
    lost,     \* how many were given up, and counted
    open      \* consumers and their store are there

vars == <<pending, latest, lost, open>>

Init ==
    /\ pending = [k \in Kind |-> {}]
    /\ latest = 0
    /\ lost = [k \in Kind |-> 0]
    /\ open = TRUE

Arrives(e) ==
    /\ open
    /\ e > latest
    /\ latest' = e
    /\ UNCHANGED open

Receive(k, e) ==
    /\ Arrives(e)
    /\ pending' = [pending EXCEPT ![k] = @ \cup {e}]
    /\ UNCHANGED lost

\* An event that finds the queue full is lost on arrival.
Refuse(k, e) ==
    /\ Arrives(e)
    /\ lost' = [lost EXCEPT ![k] = @ + 1]
    /\ UNCHANGED pending

\* An event that no queue is for.
Ignore(e) ==
    /\ Arrives(e)
    /\ UNCHANGED <<pending, lost>>

Lose(k, e) ==
    /\ open
    /\ e \in pending[k]
    /\ pending' = [pending EXCEPT ![k] = @ \ {e}]
    /\ lost' = [lost EXCEPT ![k] = @ + 1]
    /\ UNCHANGED <<latest, open>>

Apply(k, e) ==
    /\ open
    /\ e \in pending[k]
    /\ \A later \in pending[k] : e <= later
    /\ pending' = [pending EXCEPT ![k] = @ \ {e}]
    /\ UNCHANGED <<latest, lost, open>>

Close ==
    /\ open
    /\ \A k \in Kind : pending[k] = {}
    /\ open' = FALSE
    /\ UNCHANGED <<pending, latest, lost>>

Next ==
    \/ \E k \in Kind, e \in Event : Receive(k, e) \/ Refuse(k, e) \/ Lose(k, e) \/ Apply(k, e)
    \/ \E e \in Event : Ignore(e)
    \/ Close

Spec == Init /\ [][Next]_vars
=============================================================================
