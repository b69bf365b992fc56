------------------------------ MODULE MCClient ------------------------------
(***************************************************************************)
(* A small instance of Client: two calls in one process, one in another.   *)
(***************************************************************************)
EXTENDS Client

CONSTANTS a1, a2, b1, p, q

MCCall == {a1, a2, b1}
MCClientOf == [c \in MCCall |-> IF c = b1 THEN q ELSE p]
=============================================================================
