------------------------------ MODULE MCSched ------------------------------
(* Small instances of Sched for TLC. *)
EXTENDS Sched, TLC

CONSTANTS t1, t2, c1, c2

MCEqualRank == [t \in Tasks |-> 0]
MCRealtime == [t \in Tasks |-> IF t = t1 THEN 1 ELSE 0]
MCCpuSymmetry == Permutations(CPUs)
=============================================================================
