----------------------------- MODULE MCChannel -----------------------------
(* Small instances of Channel for TLC. *)
EXTENDS Channel

CONSTANTS c1, c2, s1, s2

\* The c threads share endpoint "a", the s threads endpoint "b".
MCEnd == [t \in Threads |-> IF t \in {c1, c2} THEN "a" ELSE "b"]
=============================================================================
