------------------------------ MODULE ParkAbs ------------------------------
(***************************************************************************)
(* What the park API promises its callers (include/proc/park.h,            *)
(* A20_PARK_WAKE_PROTOCOL), with no CPU, run queue, lock or timer heap in  *)
(* sight.  A task has one wait at a time; a wait has a number, a mode and  *)
(* perhaps a deadline; it ends once, for one reason, and the reason is one *)
(* this very wait allows.  Sched implements this: see Sched!WaitSpec.      *)
(***************************************************************************)
EXTENDS Naturals

CONSTANT Tasks

VARIABLES
  wait,   \* per task: IDLE, PREPARING, PARKED or WOKEN
  number, \* per task: how many waits it has asked for
  mode,   \* per task: the mode of its wait
  due,    \* per task: NONE, AHEAD or PASSED, the deadline of its wait
  why     \* per task: the reason its wait ended for

vars == <<wait, number, mode, due, why>>

Init ==
  /\ wait = [t \in Tasks |-> "IDLE"]
  /\ number = [t \in Tasks |-> 0]
  /\ mode = [t \in Tasks |-> "UNINTERRUPTIBLE"]
  /\ due = [t \in Tasks |-> "NONE"]
  /\ why = [t \in Tasks |-> "NONE"]

\* The reasons the current wait of t may end for: an event always, a timeout
\* only after its own deadline, a signal or an exit only in a mode that lets it
\* in, a cancel only before the task sleeps.
MayEnd(t, r) ==
  \/ r = "EVENT"
  \/ r = "TIMEOUT" /\ due[t] = "PASSED"
  \/ r = "SIGNAL" /\ mode[t] = "INTERRUPTIBLE"
  \/ r \in {"FATAL", "EXIT"} /\ mode[t] # "UNINTERRUPTIBLE"
  \/ r = "CANCEL" /\ wait[t] = "PREPARING"

\* The task asks for a wait, with a deadline if d.
Begin(t, m, d) ==
  /\ wait[t] = "IDLE"
  /\ wait' = [wait EXCEPT ![t] = "PREPARING"]
  /\ number' = [number EXCEPT ![t] = @ + 1]
  /\ mode' = [mode EXCEPT ![t] = m]
  /\ due' = [due EXCEPT ![t] = IF d THEN "AHEAD" ELSE "NONE"]
  /\ UNCHANGED why

\* The wait is over before it begins: something the mode lets in was pending.
BeginOver(t, m, r) ==
  /\ wait[t] = "IDLE"
  /\ \/ r = "SIGNAL" /\ m = "INTERRUPTIBLE"
     \/ r \in {"FATAL", "EXIT"} /\ m # "UNINTERRUPTIBLE"
  /\ wait' = [wait EXCEPT ![t] = "WOKEN"]
  /\ number' = [number EXCEPT ![t] = @ + 1]
  /\ mode' = [mode EXCEPT ![t] = m]
  /\ why' = [why EXCEPT ![t] = r]
  /\ UNCHANGED due

\* No timer is left for the deadline: the number is used up, no wait begins.
Refuse(t) ==
  /\ wait[t] = "IDLE"
  /\ number' = [number EXCEPT ![t] = @ + 1]
  /\ UNCHANGED <<wait, mode, due, why>>

Sleep(t) ==
  /\ wait[t] = "PREPARING"
  /\ wait' = [wait EXCEPT ![t] = "PARKED"]
  /\ UNCHANGED <<number, mode, due, why>>

DeadlinePasses(t) ==
  /\ due[t] = "AHEAD"
  /\ due' = [due EXCEPT ![t] = "PASSED"]
  /\ UNCHANGED <<wait, number, mode, why>>

End(t, r) ==
  /\ wait[t] \in {"PREPARING", "PARKED"} /\ MayEnd(t, r)
  /\ wait' = [wait EXCEPT ![t] = "WOKEN"]
  /\ why' = [why EXCEPT ![t] = r]
  /\ due' = [due EXCEPT ![t] = "NONE"]
  /\ UNCHANGED <<number, mode>>

\* The task has read the reason and retires the wait.
Retire(t) ==
  /\ wait[t] = "WOKEN"
  /\ wait' = [wait EXCEPT ![t] = "IDLE"]
  /\ mode' = [mode EXCEPT ![t] = "UNINTERRUPTIBLE"]
  /\ why' = [why EXCEPT ![t] = "NONE"]
  /\ UNCHANGED <<number, due>>

WaitModes == {"UNINTERRUPTIBLE", "KILLABLE", "INTERRUPTIBLE"}
Reasons == {"EVENT", "TIMEOUT", "SIGNAL", "FATAL", "EXIT", "CANCEL"}

Next ==
  \E t \in Tasks :
    \/ \E m \in WaitModes, d \in BOOLEAN : Begin(t, m, d)
    \/ \E m \in WaitModes, r \in Reasons : BeginOver(t, m, r)
    \/ Refuse(t)
    \/ Sleep(t)
    \/ DeadlinePasses(t)
    \/ \E r \in Reasons : End(t, r)
    \/ Retire(t)

Spec == Init /\ [][Next]_vars
=============================================================================
