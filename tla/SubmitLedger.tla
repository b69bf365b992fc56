---------------------------- MODULE SubmitLedger ----------------------------
(***************************************************************************)
(* What the duplicate-submit protection promises, without files, processes *)
(* or crashes: an order (account and payload) is open at most once.  A     *)
(* submission opens its order before it may transmit, and an open one is   *)
(* settled by the broker's answer or by the operator.  While it is open no *)
(* other submission of the same order may open.                            *)
(***************************************************************************)
CONSTANTS Submission, OrderOf

VARIABLE open

Init == open = {}

\* A submission is allowed to transmit.
Open(s) ==
    /\ s \notin open
    /\ \A t \in open : OrderOf[t] # OrderOf[s]
    /\ open' = open \cup {s}

\* Submissions are settled; by hand, several at once.
Settle(S) == open' = open \ S

Next ==
    \/ \E s \in Submission : Open(s)
    \/ \E S \in SUBSET open : Settle(S)

Spec == Init /\ [][Next]_open
=============================================================================
