------------------------------- MODULE MCSync -------------------------------
(* Small instances of Sync for TLC. *)
EXTENDS Sync

CONSTANTS t1, t2, t3

MCUses == [t \in Threads |->
             CASE t = t1 -> {"mutex", "read", "write", "wait"}
               [] t = t2 -> {"mutex", "read", "wait", "complete"}
               [] t = t3 -> {"mutex", "trylock", "read", "write", "complete",
                             "complete_all"}]
=============================================================================
