-------------------------- MODULE MCSubmitRegistry --------------------------
(***************************************************************************)
(* Small instances of SubmitRegistry: two submissions of one order and one *)
(* of another, and one operator terminal.                                  *)
(***************************************************************************)
EXTENDS SubmitRegistry

CONSTANTS s1, s2, s3, buy, sell

MCSubmission == {s1, s2, s3}
MCOrder == {buy, sell}
MCOrderOf == [s \in MCSubmission |-> IF s = s3 THEN sell ELSE buy]

\* Two submissions of one order, for the runs that need no third.
MCPair == {s1, s2}
MCPairOrderOf == [s \in MCPair |-> buy]
=============================================================================
