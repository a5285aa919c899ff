----------------------------- MODULE MCResched -----------------------------
(* A small instance of Resched for TLC: a real-time task and two others on  *)
(* two CPUs.                                                                *)
EXTENDS Resched, TLC

CONSTANTS t1, t2, t3, c1, c2

MCRank == [t \in Tasks |-> IF t = t1 THEN 1 ELSE 0]
=============================================================================
