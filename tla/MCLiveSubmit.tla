---------------------------- MODULE MCLiveSubmit ----------------------------
(***************************************************************************)
(* Small instances of LiveSubmit: one or two submissions of one order.     *)
(***************************************************************************)
EXTENDS LiveSubmit

CONSTANTS s1, s2, buy

MCPair == {s1, s2}
MCPairOrderOf == [s \in MCPair |-> buy]
MCOne == {s1}
MCOneOrderOf == [s \in MCOne |-> buy]
=============================================================================
