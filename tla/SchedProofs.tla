---------------------------- MODULE SchedProofs ----------------------------
(***************************************************************************)
(* Proofs about Sched for every set of tasks and CPUs, every bound and     *)
(* every configuration in which the donation window is harmless            *)
(* (SwitchWindowSafe).                                                     *)
(*                                                                         *)
(* SchedState and CpuSlots are what the kernel asserts, but they are not   *)
(* inductive: that the outgoing task may give its slot up needs to know    *)
(* where the CPU is in the switch (SlotPhases), that a RUNNING task may    *)
(* block, stop or exit needs to know where it is in the park API           *)
(* (TokenPhases), and that no READY task is lost needs to know that a task *)
(* somebody is going to publish is not preparing a wait (ReadyOwnedOrNew). *)
(***************************************************************************)
EXTENDS Sched, TLAPS

IInv == /\ SchedType /\ ParkType /\ EnvType /\ ControlType
        /\ SchedState /\ CpuSlots /\ SlotPhases /\ TokenPhases
        /\ ReadyOwnedOrNew

-----------------------------------------------------------------------------
(* The wake that every waker shares.                                       *)

\* proc_try_wake_locked_common() keeps the types of what it writes.
LEMMA TryWakeTypes ==
  ASSUME SchedType, ParkType, NEW t \in Tasks, NEW s, NEW r \in Reasons,
         TryWakeLocked(t, s, r)
  PROVE  /\ state' \in [Tasks -> States] /\ onrq' \in [Tasks -> BOOLEAN]
         /\ park' \in [Tasks -> {"IDLE", "PREPARING", "PARKED", "WOKEN"}]
         /\ reason' \in [Tasks -> Reasons] /\ timed' \in [Tasks -> BOOLEAN]
         /\ timer' \in [Tasks -> 0..MaxSeq]
<1>1. CASE CanWake(t, s, r)
  <2>1. Enqueued(t, "READY") \in BOOLEAN /\ Cancelled(t, s) \in 0..MaxSeq
    BY ConstAssumption DEF Enqueued, Cancelled, SchedType, ParkType
  <2>2. state' \in [Tasks -> States] /\ onrq' \in [Tasks -> BOOLEAN]
    BY <1>1, <2>1 DEF TryWakeLocked, SchedType, States
  <2>3. /\ park' \in [Tasks -> {"IDLE", "PREPARING", "PARKED", "WOKEN"}]
        /\ reason' \in [Tasks -> Reasons] /\ timed' \in [Tasks -> BOOLEAN]
    BY <1>1 DEF TryWakeLocked, ParkType
  <2>4. timer' \in [Tasks -> 0..MaxSeq]
    BY <1>1, <2>1 DEF TryWakeLocked, ParkType
  <2> QED BY <2>2, <2>3, <2>4
<1>2. CASE ~CanWake(t, s, r)
  BY <1>2 DEF TryWakeLocked, SchedType, ParkType
<1> QED BY <1>1, <1>2

\* It never leaves a READY task behind unqueued and unowned.
LEMMA TryWakeReady ==
  ASSUME IInv, NEW t \in Tasks, NEW s, NEW r, TryWakeLocked(t, s, r),
         UNCHANGED <<disp, oncpu, toready, thr>>
  PROVE  ReadyOwnedOrNew'
<1>1. CASE CanWake(t, s, r) /\ park[t] = "PARKED"
  <2>1. Enqueued(t, "READY") <=> onrq[t] \/ (~disp[t] /\ ~oncpu[t])
    BY DEF Enqueued
  <2>2. onrq' = [onrq EXCEPT ![t] = Enqueued(t, "READY")]
    BY <1>1 DEF TryWakeLocked
  <2>3. state' = [state EXCEPT ![t] = "READY"]
    BY <1>1 DEF TryWakeLocked
  <2>4. park' = [park EXCEPT ![t] = "WOKEN"]
    BY <1>1 DEF TryWakeLocked
  <2> QED BY <2>1, <2>2, <2>3, <2>4
          DEF IInv, SchedType, ParkType, ReadyOwnedOrNew
<1>2. CASE CanWake(t, s, r) /\ park[t] # "PARKED"
  <2>1. state' = state /\ onrq' = onrq
    BY <1>2 DEF TryWakeLocked, IInv, SchedType
  <2>2. park' = [park EXCEPT ![t] = "WOKEN"]
    BY <1>2 DEF TryWakeLocked
  <2> QED BY <2>1, <2>2 DEF IInv, ParkType, ReadyOwnedOrNew
<1>3. CASE ~CanWake(t, s, r)
  BY <1>3 DEF TryWakeLocked, IInv, ReadyOwnedOrNew
<1> QED BY <1>1, <1>2, <1>3

\* It keeps the kernel's scheduler assertion.
LEMMA TryWakeSched ==
  ASSUME IInv, NEW t \in Tasks, NEW s, NEW r, TryWakeLocked(t, s, r),
         UNCHANGED <<disp, oncpu, owner>>
  PROVE  SchedState'
<1>1. CASE CanWake(t, s, r) /\ park[t] = "PARKED"
  <2>1. /\ onrq' = [onrq EXCEPT ![t] = Enqueued(t, "READY")]
        /\ state' = [state EXCEPT ![t] = "READY"]
        /\ park' = [park EXCEPT ![t] = "WOKEN"]
    BY <1>1 DEF TryWakeLocked
  <2>2. state[t] = "BLOCKED" /\ ~onrq[t] /\ ~disp[t]
    BY <1>1 DEF IInv, SchedState, SchedType
  <2> QED BY <2>1, <2>2 DEF IInv, SchedType, ParkType, SchedState, Enqueued
<1>2. CASE CanWake(t, s, r) /\ park[t] # "PARKED"
  <2>1. state' = state /\ onrq' = onrq /\ park' = [park EXCEPT ![t] = "WOKEN"]
    BY <1>2 DEF TryWakeLocked, IInv, SchedType
  <2> QED BY <2>1 DEF IInv, ParkType, SchedState
<1>3. CASE ~CanWake(t, s, r)
  BY <1>3 DEF TryWakeLocked, IInv, SchedState
<1> QED BY <1>1, <1>2, <1>3

-----------------------------------------------------------------------------
(* One lemma per action: the step preserves the inductive invariant.       *)

\* Prepare preserves the invariant.
LEMMA PrepareStep ==
  ASSUME IInv, SwitchWindowSafe, NEW c \in CPUs, NEW t \in Tasks, NEW m \in Modes, NEW d \in BOOLEAN,
         Prepare(c, t, m, d)
  PROVE  IInv'
<1>1. SchedType' /\ EnvType' /\ CpuSlots'
  BY DEF IInv, SchedType, EnvType, CpuSlots, Prepare, schedVars, envVars,
         cpuVars
<1>2. ParkType'
  <2>1. PendingReason(t, m) \in Reasons
    BY DEF PendingReason, Reasons
  <2>2. seq[t] + 1 \in 0..MaxSeq /\ m \in {UNINT, KILL, INTR}
    BY ConstAssumption DEF Prepare, IInv, ParkType
  <2>3. seq' \in [Tasks -> 0..MaxSeq]
    BY <2>2 DEF Prepare, IInv, ParkType
  <2>4. CASE d /\ TimersInUse >= TimerCap
    BY <2>3, <2>4 DEF Prepare, IInv, ParkType, Reasons
  <2>5. CASE ~(d /\ TimersInUse >= TimerCap)
    <3>1. /\ park' \in [Tasks -> {"IDLE", "PREPARING", "PARKED", "WOKEN"}]
          /\ mode' \in [Tasks -> {UNINT, KILL, INTR}]
          /\ reason' \in [Tasks -> Reasons]
      BY <2>1, <2>2, <2>5 DEF Prepare, IInv, ParkType
    <3>2. timed' \in [Tasks -> BOOLEAN]
      BY <2>5 DEF Prepare, IInv, ParkType
    <3>3. timer' \in [Tasks -> 0..MaxSeq]
      BY <2>2, <2>5 DEF Prepare, IInv, ParkType
    <3> QED BY <2>3, <3>1, <3>2, <3>3 DEF ParkType
  <2> QED BY <2>4, <2>5
<1>3. ControlType'
  <2>1. pc' \in [Tasks -> PCs]
    <3>1. CASE d /\ TimersInUse >= TimerCap
      BY <3>1 DEF Prepare, IInv, ControlType
    <3>2. CASE ~(d /\ TimersInUse >= TimerCap)
      BY <3>2 DEF Prepare, IInv, ControlType, PCs
    <3> QED BY <3>1, <3>2
  <2> QED BY <2>1 DEF Prepare, IInv, ControlType, cpuVars
<1>4. SchedState'
  BY ConstAssumption DEF IInv, SchedType, ParkType, ControlType, SchedState,
         CpuSlots, SlotPhases, TokenPhases, Prepare, Executes, PendingReason,
         UNINT, KILL, INTR, schedVars, envVars, cpuVars
<1>5. SlotPhases'
  BY ConstAssumption DEF IInv, SchedType, ControlType, SchedState, CpuSlots,
         SlotPhases, TokenPhases, Prepare, Executes, PendingReason, UNINT,
         KILL, INTR, schedVars, envVars, cpuVars
<1>6. TokenPhases'
  BY ConstAssumption DEF IInv, SchedType, ParkType, ControlType, SchedState,
         CpuSlots, SlotPhases, TokenPhases, Prepare, Executes, PendingReason,
         UNINT, KILL, INTR, schedVars, envVars, cpuVars
<1>7. ReadyOwnedOrNew'
  BY ConstAssumption DEF IInv, SchedType, ParkType, EnvType, ControlType,
         SchedState, CpuSlots, SlotPhases, TokenPhases, ReadyOwnedOrNew,
         Prepare, Executes, PendingReason, UNINT, KILL, INTR, schedVars,
         envVars, cpuVars
<1> QED BY <1>1, <1>2, <1>3, <1>4, <1>5, <1>6, <1>7 DEF IInv

\* Cancel preserves the invariant.
LEMMA CancelStep ==
  ASSUME IInv, SwitchWindowSafe, NEW c \in CPUs, NEW t \in Tasks,
         Cancel(c, t)
  PROVE  IInv'
<1>1. SchedType' /\ EnvType' /\ CpuSlots'
  BY DEF IInv, SchedType, EnvType, CpuSlots, Cancel, schedVars, envVars,
         cpuVars
<1>2. ParkType'
  <2>1. Cancelled(t, seq[t]) \in 0..MaxSeq
    BY ConstAssumption DEF Cancelled, IInv, ParkType
  <2>2. CASE park[t] = "PREPARING"
    <3>1. park' \in [Tasks -> {"IDLE", "PREPARING", "PARKED", "WOKEN"}]
      BY <2>2 DEF Cancel, IInv, ParkType
    <3>2. reason' \in [Tasks -> Reasons]
      BY <2>2 DEF Cancel, IInv, ParkType, Reasons
    <3>3. timed' \in [Tasks -> BOOLEAN] /\ timer' \in [Tasks -> 0..MaxSeq]
      BY <2>1, <2>2 DEF Cancel, IInv, ParkType
    <3> QED BY <3>1, <3>2, <3>3 DEF Cancel, IInv, ParkType
  <2>3. CASE park[t] # "PREPARING"
    BY <2>3 DEF Cancel, IInv, ParkType
  <2> QED BY <2>2, <2>3
<1>3. ControlType'
  BY ConstAssumption DEF IInv, ControlType, ParkType, SchedType, SlotPhases,
         TokenPhases, PCs, Phases, Cancel, Executes, Cancelled, schedVars,
         envVars, cpuVars
<1>4. SchedState'
  BY ConstAssumption DEF IInv, SchedType, ParkType, ControlType, SchedState,
         CpuSlots, SlotPhases, TokenPhases, Cancel, Executes, Cancelled,
         schedVars, envVars, cpuVars
<1>5. SlotPhases'
  BY ConstAssumption DEF IInv, SchedType, ControlType, SchedState, CpuSlots,
         SlotPhases, TokenPhases, Cancel, Executes, Cancelled, schedVars,
         envVars, cpuVars
<1>6. TokenPhases'
  BY ConstAssumption DEF IInv, SchedType, ParkType, ControlType, SchedState,
         CpuSlots, SlotPhases, TokenPhases, Cancel, Executes, Cancelled,
         schedVars, envVars, cpuVars
<1>7. ReadyOwnedOrNew'
  BY ConstAssumption DEF IInv, SchedType, ParkType, EnvType, ControlType,
         SchedState, CpuSlots, SlotPhases, TokenPhases, ReadyOwnedOrNew,
         Cancel, Executes, Cancelled, schedVars, envVars, cpuVars
<1> QED BY <1>1, <1>2, <1>3, <1>4, <1>5, <1>6, <1>7 DEF IInv

\* Commit preserves the invariant.
LEMMA CommitStep ==
  ASSUME IInv, SwitchWindowSafe, NEW c \in CPUs, NEW t \in Tasks,
         Commit(c, t)
  PROVE  IInv'
<1>1. EnvType'
  BY DEF IInv, EnvType, Commit, envVars
<1>2. SchedType'
  BY ConstAssumption DEF IInv, SchedType, ControlType, SlotPhases,
         TokenPhases, CpuSlots, States, Commit, Executes, envVars
<1>3. ParkType'
  BY ConstAssumption DEF IInv, ParkType, SchedType, ControlType, Reasons,
         UNINT, KILL, INTR, Commit, Executes, envVars
<1>4. ControlType'
  BY ConstAssumption DEF IInv, ControlType, ParkType, SchedType, SlotPhases,
         TokenPhases, PCs, Phases, Commit, Executes, envVars
<1>5. SchedState'
  BY ConstAssumption DEF IInv, SchedType, ParkType, ControlType, SchedState,
         CpuSlots, SlotPhases, TokenPhases, Commit, Executes, envVars
<1>6. CpuSlots'
  BY ConstAssumption DEF IInv, SchedType, ControlType, SchedState, CpuSlots,
         SlotPhases, Commit, Executes, envVars
<1>7. SlotPhases'
  BY ConstAssumption DEF IInv, SchedType, ControlType, SchedState, CpuSlots,
         SlotPhases, TokenPhases, Commit, Executes, envVars
<1>8. TokenPhases'
  BY ConstAssumption DEF IInv, SchedType, ParkType, ControlType, SchedState,
         CpuSlots, SlotPhases, TokenPhases, Commit, Executes, envVars
<1>9. ReadyOwnedOrNew'
  BY ConstAssumption DEF IInv, SchedType, ParkType, EnvType, ControlType,
         SchedState, CpuSlots, SlotPhases, TokenPhases, ReadyOwnedOrNew,
         Commit, Executes, envVars
<1> QED BY <1>1, <1>2, <1>3, <1>4, <1>5, <1>6, <1>7, <1>8, <1>9 DEF IInv

\* DonatePeek preserves the invariant.
LEMMA DonatePeekStep ==
  ASSUME IInv, SwitchWindowSafe, NEW c \in CPUs, NEW t \in Tasks, NEW u \in Tasks,
         DonatePeek(c, t, u)
  PROVE  IInv'
<1>1. SchedType' /\ ParkType' /\ EnvType' /\ SchedState' /\ CpuSlots'
  BY DEF IInv, SchedType, ParkType, EnvType, SchedState, CpuSlots, DonatePeek,
         schedVars, parkVars, envVars, cpuVars
<1>2. ControlType'
  BY ConstAssumption DEF IInv, ControlType, ParkType, SchedType, SlotPhases,
         TokenPhases, PCs, Phases, DonatePeek, Executes, schedVars, parkVars,
         envVars, cpuVars
<1>3. SlotPhases'
  BY ConstAssumption DEF IInv, SchedType, ControlType, SchedState, CpuSlots,
         SlotPhases, TokenPhases, DonatePeek, Executes, schedVars, parkVars,
         envVars, cpuVars
<1>4. TokenPhases'
  BY ConstAssumption DEF IInv, SchedType, ParkType, ControlType, SchedState,
         CpuSlots, SlotPhases, TokenPhases, DonatePeek, Executes, schedVars,
         parkVars, envVars, cpuVars
<1>5. ReadyOwnedOrNew'
  BY ConstAssumption DEF IInv, SchedType, ParkType, EnvType, ControlType,
         SchedState, CpuSlots, SlotPhases, TokenPhases, ReadyOwnedOrNew,
         DonatePeek, Executes, schedVars, parkVars, envVars, cpuVars
<1> QED BY <1>1, <1>2, <1>3, <1>4, <1>5 DEF IInv

\* CommitDonate preserves the invariant.
LEMMA CommitDonateStep ==
  ASSUME IInv, SwitchWindowSafe, NEW c \in CPUs, NEW t \in Tasks,
         CommitDonate(c, t)
  PROVE  IInv'
<1>1. EnvType'
  BY DEF IInv, EnvType, CommitDonate, envVars
<1>2. SchedType'
  BY ConstAssumption DEF IInv, SchedType, ControlType, SlotPhases,
         TokenPhases, CpuSlots, States, CommitDonate, Executes, CanDonate,
         envVars
<1>3. ParkType'
  <2>1. park' \in [Tasks -> {"IDLE", "PREPARING", "PARKED", "WOKEN"}]
    BY DEF CommitDonate, IInv, ParkType
  <2> QED BY <2>1 DEF CommitDonate, IInv, ParkType
<1>4. ControlType'
  <2>1. pc' \in [Tasks -> PCs] /\ phase' \in [CPUs -> Phases]
    BY DEF CommitDonate, IInv, ControlType, PCs, Phases
  <2>2. donee' \in [Tasks -> Tasks \cup {None}]
    BY ConstAssumption DEF CommitDonate, IInv, ControlType
  <2> QED BY <2>1, <2>2 DEF CommitDonate, IInv, ControlType
<1>5. SchedState'
  BY ConstAssumption DEF IInv, SchedType, ParkType, ControlType, SchedState,
         CpuSlots, SlotPhases, TokenPhases, CommitDonate, Executes, CanDonate,
         envVars
<1>6. CpuSlots'
  BY ConstAssumption DEF IInv, SchedType, ControlType, SchedState, CpuSlots,
         SlotPhases, CommitDonate, Executes, CanDonate, envVars
<1>7. SlotPhases'
  BY ConstAssumption DEF IInv, SchedType, ControlType, SchedState, CpuSlots,
         SlotPhases, TokenPhases, CommitDonate, Executes, CanDonate, envVars
<1>8. TokenPhases'
  BY ConstAssumption DEF IInv, SchedType, ParkType, ControlType, SchedState,
         CpuSlots, SlotPhases, TokenPhases, CommitDonate, Executes, CanDonate,
         envVars
<1>9. ReadyOwnedOrNew'
  BY ConstAssumption DEF IInv, SchedType, ParkType, EnvType, ControlType,
         SchedState, CpuSlots, SlotPhases, TokenPhases, ReadyOwnedOrNew,
         CommitDonate, Executes, CanDonate, envVars
<1> QED BY <1>1, <1>2, <1>3, <1>4, <1>5, <1>6, <1>7, <1>8, <1>9 DEF IInv

\* DonateWake preserves the invariant.
LEMMA DonateWakeStep ==
  ASSUME IInv, SwitchWindowSafe, NEW c \in CPUs, NEW t \in Tasks,
         DonateWake(c, t)
  PROVE  IInv'
<1> DEFINE u == donee[t]
<1> u \in Tasks /\ u = donee[t]
  BY DEF DonateWake, IInv, TokenPhases
<1>1. EnvType'
  BY DEF IInv, EnvType, DonateWake, envVars
<1>2. SchedType'
  <2>1. CASE CanDonate(c, u)
    <3>1. state' \in [Tasks -> States]
      BY <2>1 DEF DonateWake, IInv, SchedType, States
    <3>2. disp' \in [Tasks -> BOOLEAN]
      BY <2>1 DEF DonateWake, IInv, SchedType
    <3>3. owner' \in [Tasks -> CPUs \cup {None}]
      BY <2>1 DEF DonateWake, IInv, SchedType
    <3> QED BY <3>1, <3>2, <3>3 DEF DonateWake, IInv, SchedType
  <2>2. CASE ~CanDonate(c, u)
    BY <2>2 DEF DonateWake, IInv, SchedType
  <2> QED BY <2>1, <2>2
<1>3. ParkType'
  <2>1. Cancelled(u, seq[u]) \in 0..MaxSeq
    BY ConstAssumption DEF Cancelled, IInv, ParkType
  <2>2. CASE CanDonate(c, u)
    BY <2>1, <2>2 DEF DonateWake, IInv, ParkType, Reasons
  <2>3. CASE ~CanDonate(c, u)
    BY <2>3 DEF DonateWake, IInv, ParkType
  <2> QED BY <2>2, <2>3
<1>4. ControlType'
  <2>1. pc' \in [Tasks -> PCs] /\ phase' \in [CPUs -> Phases]
    BY DEF DonateWake, IInv, ControlType, PCs, Phases
  <2>2. donee' \in [Tasks -> Tasks \cup {None}]
    BY ConstAssumption DEF DonateWake, IInv, ControlType
  <2>3. pick' \in [CPUs -> Tasks \cup {Idle, None}]
    BY DEF DonateWake, IInv, ControlType
  <2> QED BY <2>1, <2>2, <2>3 DEF DonateWake, IInv, ControlType
<1>5. SchedState'
  <2>1. CASE CanDonate(c, u)
    <3>1. /\ park' = [park EXCEPT ![u] = "WOKEN"]
          /\ state' = [state EXCEPT ![u] = "READY"]
          /\ disp' = [disp EXCEPT ![u] = TRUE]
          /\ owner' = [owner EXCEPT ![u] = c]
          /\ UNCHANGED <<onrq, oncpu>>
      BY <2>1 DEF DonateWake
    <3>2. ~oncpu[u] /\ ~onrq[u] /\ c # None
      BY <2>1, ConstAssumption DEF CanDonate
    <3> QED BY <3>1, <3>2 DEF IInv, SchedType, ParkType, SchedState
  <2>2. CASE ~CanDonate(c, u)
    BY <2>2 DEF DonateWake, IInv, SchedState
  <2> QED BY <2>1, <2>2
<1>6. CpuSlots'
  BY ConstAssumption DEF IInv, SchedType, ControlType, SchedState, CpuSlots,
         SlotPhases, DonateWake, Executes, CanDonate, Cancelled, envVars
<1>7. SlotPhases'
  <2>1. /\ oncpu[t] /\ owner[t] = c /\ swout[c] = None /\ pick[c] = None
        /\ current[c] = t /\ stack[c] = t /\ state[t] # "RUNNING"
    BY DEF IInv, CpuSlots, SlotPhases, TokenPhases, SchedState, DonateWake, Executes
  <2>2. CASE CanDonate(c, u)
    <3>1. u # t /\ state' = [state EXCEPT ![u] = "READY"]
      BY <2>1, <2>2 DEF DonateWake, CanDonate
    <3>2. /\ phase' = [phase EXCEPT ![c] = "switch"]
          /\ pick' = [pick EXCEPT ![c] = u]
          /\ pc' = [pc EXCEPT ![t] = "donated"]
      BY <2>2 DEF DonateWake
    <3> QED BY <2>1, <2>2, <3>1, <3>2, ConstAssumption
            DEF IInv, SchedType, ControlType, CpuSlots, SlotPhases, DonateWake,
                CanDonate
  <2>3. CASE ~CanDonate(c, u)
    <3>1. /\ phase' = [phase EXCEPT ![c] = "sched"]
          /\ pc' = [pc EXCEPT ![t] = "finish"]
          /\ state' = state /\ pick' = pick
      BY <2>3 DEF DonateWake
    <3> QED BY <2>1, <3>1, ConstAssumption
            DEF IInv, SchedType, ControlType, CpuSlots, SlotPhases, DonateWake
  <2> QED BY <2>2, <2>3
<1>8. TokenPhases'
  BY ConstAssumption DEF IInv, SchedType, ParkType, ControlType, SchedState,
         CpuSlots, SlotPhases, TokenPhases, DonateWake, Executes, CanDonate,
         Cancelled, envVars
<1>9. ReadyOwnedOrNew'
  <2>1. CASE CanDonate(c, u)
    <3>1. /\ park' = [park EXCEPT ![u] = "WOKEN"]
          /\ state' = [state EXCEPT ![u] = "READY"]
          /\ disp' = [disp EXCEPT ![u] = TRUE]
          /\ UNCHANGED <<onrq, oncpu, toready, thr>>
      BY <2>1 DEF DonateWake, envVars
    <3> QED BY <3>1 DEF IInv, SchedType, ParkType, ReadyOwnedOrNew
  <2>2. CASE ~CanDonate(c, u)
    BY <2>2 DEF DonateWake, IInv, ReadyOwnedOrNew, envVars
  <2> QED BY <2>1, <2>2
<1> QED BY <1>1, <1>2, <1>3, <1>4, <1>5, <1>6, <1>7, <1>8, <1>9 DEF IInv

\* Finish preserves the invariant.
LEMMA FinishStep ==
  ASSUME IInv, SwitchWindowSafe, NEW c \in CPUs, NEW t \in Tasks,
         Finish(c, t)
  PROVE  IInv'
<1>1. SchedType' /\ EnvType' /\ CpuSlots'
  BY DEF IInv, SchedType, EnvType, CpuSlots, Finish, schedVars, envVars,
         cpuVars
<1>2. ParkType'
  <2>1. Cancelled(t, seq[t]) \in 0..MaxSeq
    BY ConstAssumption DEF Cancelled, IInv, ParkType
  <2>2. CASE park[t] = "WOKEN"
    BY <2>1, <2>2 DEF Finish, IInv, ParkType, Reasons
  <2>3. CASE park[t] # "WOKEN"
    BY <2>3 DEF Finish, IInv, ParkType
  <2> QED BY <2>2, <2>3
<1>3. ControlType'
  BY ConstAssumption DEF IInv, ControlType, ParkType, SchedType, SlotPhases,
         TokenPhases, PCs, Phases, Finish, Executes, Cancelled, UNINT,
         schedVars, envVars, cpuVars
<1>4. SchedState'
  BY ConstAssumption DEF IInv, SchedType, ParkType, ControlType, SchedState,
         CpuSlots, SlotPhases, TokenPhases, Finish, Executes, Cancelled,
         UNINT, schedVars, envVars, cpuVars
<1>5. SlotPhases'
  BY ConstAssumption DEF IInv, SchedType, ControlType, SchedState, CpuSlots,
         SlotPhases, TokenPhases, Finish, Executes, Cancelled, UNINT,
         schedVars, envVars, cpuVars
<1>6. TokenPhases'
  BY ConstAssumption DEF IInv, SchedType, ParkType, ControlType, SchedState,
         CpuSlots, SlotPhases, TokenPhases, Finish, Executes, Cancelled,
         UNINT, schedVars, envVars, cpuVars
<1>7. ReadyOwnedOrNew'
  BY ConstAssumption DEF IInv, SchedType, ParkType, EnvType, ControlType,
         SchedState, CpuSlots, SlotPhases, TokenPhases, ReadyOwnedOrNew,
         Finish, Executes, Cancelled, UNINT, schedVars, envVars, cpuVars
<1> QED BY <1>1, <1>2, <1>3, <1>4, <1>5, <1>6, <1>7 DEF IInv

\* TryWake preserves the invariant.
LEMMA TryWakeStep ==
  ASSUME IInv, SwitchWindowSafe, NEW t \in Tasks, NEW s \in 1..MaxSeq,
         TryWake(t, s)
  PROVE  IInv'
<1>1. EnvType' /\ ControlType' /\ CpuSlots'
  BY DEF IInv, EnvType, ControlType, CpuSlots, TryWake, envVars, cpuVars
<1>2. SchedType'
  <2>1. SchedType /\ ParkType /\ "EVENT" \in Reasons
    BY DEF IInv, Reasons
  <2>2. TryWakeLocked(t, s, "EVENT")
    BY DEF TryWake
  <2> QED BY <2>1, <2>2, TryWakeTypes DEF TryWake, SchedType
<1>3. ParkType'
  <2>1. SchedType /\ ParkType /\ "EVENT" \in Reasons
    BY DEF IInv, Reasons
  <2>2. TryWakeLocked(t, s, "EVENT")
    BY DEF TryWake
  <2> QED BY <2>1, <2>2, TryWakeTypes DEF TryWake, ParkType
<1>4. SchedState'
  <2>1. TryWakeLocked(t, s, "EVENT") /\ UNCHANGED <<disp, oncpu, owner>>
    BY DEF TryWake
  <2> QED BY <2>1, TryWakeSched
<1>5. SlotPhases'
  BY ConstAssumption DEF IInv, SchedType, ControlType, SchedState, CpuSlots,
         SlotPhases, TokenPhases, TryWake, TryWakeLocked, CanWake, Enqueued,
         Cancelled, envVars, cpuVars
<1>6. TokenPhases'
  BY ConstAssumption DEF IInv, SchedType, ParkType, ControlType, SchedState,
         CpuSlots, SlotPhases, TokenPhases, TryWake, TryWakeLocked, CanWake,
         Enqueued, Cancelled, envVars, cpuVars
<1>7. ReadyOwnedOrNew'
  <2>1. TryWakeLocked(t, s, "EVENT")
    BY DEF TryWake
  <2>2. UNCHANGED <<disp, oncpu, toready, thr>>
    BY DEF TryWake, envVars
  <2> QED BY <2>1, <2>2, TryWakeReady
<1> QED BY <1>1, <1>2, <1>3, <1>4, <1>5, <1>6, <1>7 DEF IInv

\* TimerExpire preserves the invariant.
LEMMA TimerExpireStep ==
  ASSUME IInv, SwitchWindowSafe, NEW t \in Tasks,
         TimerExpire(t)
  PROVE  IInv'
<1>1. /\ SchedType'
      /\ ControlType'
      /\ SchedState'
      /\ CpuSlots'
      /\ SlotPhases'
      /\ TokenPhases'
      /\ ReadyOwnedOrNew'
  BY DEF IInv, SchedType, ControlType, SchedState, CpuSlots, SlotPhases,
         TokenPhases, ReadyOwnedOrNew, TimerExpire, schedVars, cpuVars
<1>2. ParkType'
  BY ConstAssumption DEF IInv, ParkType, SchedType, ControlType, Reasons,
         UNINT, KILL, INTR, TimerExpire, schedVars, cpuVars
<1>3. EnvType'
  BY ConstAssumption DEF IInv, EnvType, ParkType, TimerExpire, schedVars,
         cpuVars
<1> QED BY <1>1, <1>2, <1>3 DEF IInv

\* TimerWake preserves the invariant.
LEMMA TimerWakeStep ==
  ASSUME IInv, SwitchWindowSafe, NEW t \in Tasks, NEW s \in 1..MaxSeq,
         TimerWake(t, s)
  PROVE  IInv'
<1>1. ControlType' /\ CpuSlots'
  BY DEF IInv, ControlType, CpuSlots, TimerWake, cpuVars
<1>2. SchedType'
  <2>1. SchedType /\ ParkType /\ "TIMEOUT" \in Reasons
    BY DEF IInv, Reasons
  <2>2. TryWakeLocked(t, s, "TIMEOUT")
    BY DEF TimerWake
  <2> QED BY <2>1, <2>2, TryWakeTypes DEF TimerWake, SchedType
<1>3. ParkType'
  <2>1. SchedType /\ ParkType /\ "TIMEOUT" \in Reasons
    BY DEF IInv, Reasons
  <2>2. TryWakeLocked(t, s, "TIMEOUT")
    BY DEF TimerWake
  <2> QED BY <2>1, <2>2, TryWakeTypes DEF TimerWake, ParkType
<1>4. EnvType'
  BY ConstAssumption DEF IInv, EnvType, ParkType, TimerWake, TryWakeLocked,
         CanWake, Enqueued, Cancelled, cpuVars
<1>5. SchedState'
  <2>1. TryWakeLocked(t, s, "TIMEOUT") /\ UNCHANGED <<disp, oncpu, owner>>
    BY DEF TimerWake
  <2> QED BY <2>1, TryWakeSched
<1>6. SlotPhases'
  BY ConstAssumption DEF IInv, SchedType, ControlType, SchedState, CpuSlots,
         SlotPhases, TokenPhases, TimerWake, TryWakeLocked, CanWake, Enqueued,
         Cancelled, cpuVars
<1>7. TokenPhases'
  BY ConstAssumption DEF IInv, SchedType, ParkType, ControlType, SchedState,
         CpuSlots, SlotPhases, TokenPhases, TimerWake, TryWakeLocked, CanWake,
         Enqueued, Cancelled, cpuVars
<1>8. ReadyOwnedOrNew'
  <2>1. TryWakeLocked(t, s, "TIMEOUT")
    BY DEF TimerWake
  <2>2. UNCHANGED <<disp, oncpu, toready, thr>>
    BY DEF TimerWake, envVars
  <2> QED BY <2>1, <2>2, TryWakeReady
<1> QED BY <1>1, <1>2, <1>3, <1>4, <1>5, <1>6, <1>7, <1>8 DEF IInv

\* SendSignal preserves the invariant.
LEMMA SendSignalStep ==
  ASSUME IInv, SwitchWindowSafe, NEW t \in Tasks, NEW k \in Kinds,
         SendSignal(t, k)
  PROVE  IInv'
<1>1. /\ SchedType'
      /\ ParkType'
      /\ ControlType'
      /\ SchedState'
      /\ CpuSlots'
      /\ SlotPhases'
      /\ TokenPhases'
      /\ ReadyOwnedOrNew'
  BY DEF IInv, SchedType, ParkType, ControlType, SchedState, CpuSlots,
         SlotPhases, TokenPhases, ReadyOwnedOrNew, SendSignal, schedVars,
         parkVars, cpuVars
<1>2. EnvType'
  BY ConstAssumption DEF IInv, EnvType, ParkType, SendSignal, schedVars,
         parkVars, cpuVars
<1> QED BY <1>1, <1>2 DEF IInv

\* ResumeStopped preserves the invariant.
LEMMA ResumeStoppedStep ==
  ASSUME IInv, SwitchWindowSafe, NEW t \in Tasks, NEW k \in Kinds,
         ResumeStopped(t, k)
  PROVE  IInv'
<1>1. ParkType' /\ ControlType' /\ CpuSlots'
  BY DEF IInv, ParkType, ControlType, CpuSlots, ResumeStopped, parkVars,
         cpuVars
<1>2. SchedType'
  <2>1. Enqueued(t, "READY") \in BOOLEAN
    BY DEF Enqueued, IInv, SchedType
  <2>2. CASE state[t] = "STOPPED"
    BY <2>1, <2>2 DEF ResumeStopped, IInv, SchedType, States
  <2>3. CASE state[t] # "STOPPED"
    BY <2>3 DEF ResumeStopped, IInv, SchedType
  <2> QED BY <2>2, <2>3
<1>3. EnvType'
  BY ConstAssumption DEF IInv, EnvType, ParkType, ResumeStopped, Enqueued,
         parkVars, cpuVars
<1>4. SchedState'
  BY ConstAssumption DEF IInv, SchedType, ParkType, ControlType, SchedState,
         CpuSlots, SlotPhases, TokenPhases, ResumeStopped, Enqueued, parkVars,
         cpuVars
<1>5. SlotPhases'
  BY ConstAssumption DEF IInv, SchedType, ControlType, SchedState, CpuSlots,
         SlotPhases, TokenPhases, ResumeStopped, Enqueued, parkVars, cpuVars
<1>6. TokenPhases'
  BY ConstAssumption DEF IInv, SchedType, ParkType, ControlType, SchedState,
         CpuSlots, SlotPhases, TokenPhases, ResumeStopped, Enqueued, parkVars,
         cpuVars
<1>7. ReadyOwnedOrNew'
  <2>1. Enqueued(t, "READY") <=> onrq[t] \/ (~disp[t] /\ ~oncpu[t])
    BY DEF Enqueued
  <2>2. CASE state[t] = "STOPPED"
    <3>1. park[t] = "IDLE"
      BY <2>2 DEF IInv, TokenPhases
    <3> QED BY <2>1, <2>2, <3>1
            DEF ResumeStopped, IInv, SchedType, ReadyOwnedOrNew, parkVars
  <2>3. CASE state[t] # "STOPPED"
    BY <2>3 DEF ResumeStopped, IInv, ReadyOwnedOrNew, parkVars
  <2> QED BY <2>2, <2>3
<1> QED BY <1>1, <1>2, <1>3, <1>4, <1>5, <1>6, <1>7 DEF IInv

\* InterruptWait preserves the invariant.
LEMMA InterruptWaitStep ==
  ASSUME IInv, SwitchWindowSafe, NEW t \in Tasks, NEW k \in Kinds \cap {"SIGNAL", "FATAL"},
         InterruptWait(t, k)
  PROVE  IInv'
<1>1. ControlType' /\ CpuSlots'
  BY DEF IInv, ControlType, CpuSlots, InterruptWait, cpuVars
<1>2. SchedType'
  <2>1. SchedType /\ ParkType /\ k \in Reasons
    BY DEF IInv, Reasons
  <2>2. TryWakeLocked(t, seq[t], k)
    BY DEF InterruptWait
  <2> QED BY <2>1, <2>2, TryWakeTypes DEF InterruptWait, SchedType
<1>3. ParkType'
  <2>1. SchedType /\ ParkType /\ k \in Reasons
    BY DEF IInv, Reasons
  <2>2. TryWakeLocked(t, seq[t], k)
    BY DEF InterruptWait
  <2> QED BY <2>1, <2>2, TryWakeTypes DEF InterruptWait, ParkType
<1>4. EnvType'
  BY ConstAssumption DEF IInv, EnvType, ParkType, InterruptWait,
         TryWakeLocked, CanWake, Enqueued, Cancelled, cpuVars
<1>5. SchedState'
  <2>1. TryWakeLocked(t, seq[t], k) /\ UNCHANGED <<disp, oncpu, owner>>
    BY DEF InterruptWait
  <2> QED BY <2>1, TryWakeSched
<1>6. SlotPhases'
  BY ConstAssumption DEF IInv, SchedType, ControlType, SchedState, CpuSlots,
         SlotPhases, TokenPhases, InterruptWait, TryWakeLocked, CanWake,
         Enqueued, Cancelled, cpuVars
<1>7. TokenPhases'
  BY ConstAssumption DEF IInv, SchedType, ParkType, ControlType, SchedState,
         CpuSlots, SlotPhases, TokenPhases, InterruptWait, TryWakeLocked,
         CanWake, Enqueued, Cancelled, cpuVars
<1>8. ReadyOwnedOrNew'
  <2>1. TryWakeLocked(t, seq[t], k)
    BY DEF InterruptWait
  <2>2. UNCHANGED <<disp, oncpu, toready, thr>>
    BY DEF InterruptWait, envVars
  <2> QED BY <2>1, <2>2, TryWakeReady
<1> QED BY <1>1, <1>2, <1>3, <1>4, <1>5, <1>6, <1>7, <1>8 DEF IInv

\* ForceExit preserves the invariant.
LEMMA ForceExitStep ==
  ASSUME IInv, SwitchWindowSafe, NEW t \in Tasks,
         ForceExit(t)
  PROVE  IInv'
<1>1. ControlType' /\ CpuSlots'
  BY DEF IInv, ControlType, CpuSlots, ForceExit, cpuVars
<1>2. SchedType'
  <2>1. SchedType /\ ParkType /\ "EXIT" \in Reasons
    BY DEF IInv, Reasons
  <2>2. TryWakeLocked(t, seq[t], "EXIT")
    BY DEF ForceExit
  <2> QED BY <2>1, <2>2, TryWakeTypes DEF ForceExit, SchedType
<1>3. ParkType'
  <2>1. SchedType /\ ParkType /\ "EXIT" \in Reasons
    BY DEF IInv, Reasons
  <2>2. TryWakeLocked(t, seq[t], "EXIT")
    BY DEF ForceExit
  <2> QED BY <2>1, <2>2, TryWakeTypes DEF ForceExit, ParkType
<1>4. EnvType'
  BY ConstAssumption DEF IInv, EnvType, ParkType, ForceExit, TryWakeLocked,
         CanWake, Enqueued, Cancelled, cpuVars
<1>5. SchedState'
  <2>1. TryWakeLocked(t, seq[t], "EXIT") /\ UNCHANGED <<disp, oncpu, owner>>
    BY DEF ForceExit
  <2> QED BY <2>1, TryWakeSched
<1>6. SlotPhases'
  BY ConstAssumption DEF IInv, SchedType, ControlType, SchedState, CpuSlots,
         SlotPhases, TokenPhases, ForceExit, TryWakeLocked, CanWake, Enqueued,
         Cancelled, cpuVars
<1>7. TokenPhases'
  BY ConstAssumption DEF IInv, SchedType, ParkType, ControlType, SchedState,
         CpuSlots, SlotPhases, TokenPhases, ForceExit, TryWakeLocked, CanWake,
         Enqueued, Cancelled, cpuVars
<1>8. ReadyOwnedOrNew'
  <2>1. TryWakeLocked(t, seq[t], "EXIT")
    BY DEF ForceExit
  <2>2. UNCHANGED <<disp, oncpu, toready, thr>>
    BY DEF ForceExit, envVars
  <2> QED BY <2>1, <2>2, TryWakeReady
<1> QED BY <1>1, <1>2, <1>3, <1>4, <1>5, <1>6, <1>7, <1>8 DEF IInv

\* Charge preserves the invariant.
LEMMA ChargeStep ==
  ASSUME IInv, SwitchWindowSafe, NEW c \in CPUs,
         Charge(c)
  PROVE  IInv'
<1>1. /\ SchedType' /\ ParkType' /\ ControlType' /\ SchedState'
      /\ CpuSlots' /\ SlotPhases' /\ TokenPhases'
  BY DEF IInv, SchedType, ParkType, ControlType, SchedState, CpuSlots,
         SlotPhases, TokenPhases, Charge, schedVars, parkVars, cpuVars
<1>2. EnvType' /\ \A t \in Tasks : thr[t] => thr'[t]
  BY DEF IInv, EnvType, Charge
<1>3. ReadyOwnedOrNew'
  BY <1>2 DEF IInv, ControlType, EnvType, ReadyOwnedOrNew, Charge, schedVars,
              parkVars
<1> QED BY <1>1, <1>2, <1>3 DEF IInv

\* Unthrottle preserves the invariant: a member that was dropped from its
\* queue is READY, so the loop that clears the mark also publishes it.
LEMMA UnthrottleStep ==
  ASSUME IInv, SwitchWindowSafe, NEW c \in CPUs, NEW t \in Tasks,
         Unthrottle(c, t)
  PROVE  IInv'
<1>1. /\ SchedType' /\ ParkType' /\ ControlType' /\ SchedState'
      /\ CpuSlots' /\ SlotPhases' /\ TokenPhases'
  BY DEF IInv, SchedType, ParkType, ControlType, SchedState, CpuSlots,
         SlotPhases, TokenPhases, Unthrottle, schedVars, parkVars, cpuVars
<1>2. EnvType'
  BY DEF IInv, EnvType, Unthrottle
<1>3. ReadyOwnedOrNew'
  BY DEF IInv, EnvType, ReadyOwnedOrNew, Unthrottle, schedVars, parkVars
<1> QED BY <1>1, <1>2, <1>3 DEF IInv

\* MakeReady preserves the invariant.
LEMMA MakeReadyStep ==
  ASSUME IInv, SwitchWindowSafe, NEW t \in Tasks,
         MakeReady(t)
  PROVE  IInv'
<1>1. ControlType' /\ CpuSlots'
  BY DEF IInv, ControlType, CpuSlots, MakeReady, schedVars, cpuVars
<1>2. SchedType'
  <2>1. Enqueued(t, "READY") \in BOOLEAN
    BY DEF Enqueued, IInv, SchedType
  <2>2. SchedType /\ ParkType /\ "EVENT" \in Reasons
    BY DEF IInv, Reasons
  <2>3. CASE UNCHANGED schedVars
    BY <2>3 DEF IInv, SchedType, schedVars
  <2>4. CASE TryWakeLocked(t, seq[t], "EVENT") /\ UNCHANGED <<disp, oncpu, owner, cpuid>>
    BY <2>2, <2>4, TryWakeTypes DEF SchedType
  <2>5. CASE /\ state' = [state EXCEPT ![t] = "READY"]
             /\ \E c \in CPUs : cpuid' = [cpuid EXCEPT ![t] = c]
             /\ onrq' = [onrq EXCEPT ![t] = Enqueued(t, "READY")]
             /\ park[t] \in {"IDLE", "WOKEN"}
             /\ UNCHANGED <<disp, oncpu, owner, park>>
    BY <2>1, <2>5 DEF IInv, SchedType, States
  <2> QED BY <2>3, <2>4, <2>5 DEF MakeReady
<1>3. ParkType'
  <2>1. SchedType /\ ParkType /\ "EVENT" \in Reasons
    BY DEF IInv, Reasons
  <2>2. CASE UNCHANGED <<park, reason, timed, timer>>
    BY <2>2 DEF MakeReady, IInv, ParkType
  <2>3. CASE TryWakeLocked(t, seq[t], "EVENT")
    BY <2>1, <2>3, TryWakeTypes DEF MakeReady, ParkType
  <2> QED BY <2>2, <2>3 DEF MakeReady
<1>4. EnvType'
  BY ConstAssumption DEF IInv, EnvType, ParkType, MakeReady, TryWakeLocked,
         CanWake, Enqueued, Cancelled, schedVars, cpuVars
<1>5. SchedState'
  BY ConstAssumption DEF IInv, SchedType, ParkType, ControlType, SchedState,
         CpuSlots, SlotPhases, TokenPhases, MakeReady, TryWakeLocked, CanWake,
         Enqueued, Cancelled, schedVars, cpuVars
<1>6. SlotPhases'
  BY ConstAssumption DEF IInv, SchedType, ControlType, SchedState, CpuSlots,
         SlotPhases, TokenPhases, MakeReady, TryWakeLocked, CanWake, Enqueued,
         Cancelled, schedVars, cpuVars
<1>7. TokenPhases'
  BY ConstAssumption DEF IInv, SchedType, ParkType, ControlType, SchedState,
         CpuSlots, SlotPhases, TokenPhases, MakeReady, TryWakeLocked, CanWake,
         Enqueued, Cancelled, schedVars, cpuVars
<1>8. ReadyOwnedOrNew'
  <2>1. Enqueued(t, "READY") <=> onrq[t] \/ (~disp[t] /\ ~oncpu[t])
    BY DEF Enqueued
  <2>2. CASE /\ state[t] \in {"UNUSED", "ZOMBIE", "RUNNING"}
             /\ UNCHANGED <<schedVars, park>>
    BY <2>2 DEF MakeReady, IInv, ReadyOwnedOrNew, schedVars
  <2>3. CASE /\ park[t] \in {"PREPARING", "PARKED"}
             /\ TryWakeLocked(t, seq[t], "EVENT")
             /\ UNCHANGED <<disp, oncpu, owner, cpuid>>
    <3>3. CASE CanWake(t, seq[t], "EVENT") /\ park[t] = "PARKED"
      <4>1. onrq' = [onrq EXCEPT ![t] = Enqueued(t, "READY")]
        BY <2>3, <3>3 DEF TryWakeLocked
      <4>2. state' = [state EXCEPT ![t] = "READY"]
        BY <2>3, <3>3 DEF TryWakeLocked
      <4>3. park' = [park EXCEPT ![t] = "WOKEN"]
        BY <2>3, <3>3 DEF TryWakeLocked
      <4> QED BY <2>1, <2>3, <4>1, <4>2, <4>3
              DEF MakeReady, IInv, SchedType, ParkType, ReadyOwnedOrNew
    <3>4. CASE ~(CanWake(t, seq[t], "EVENT") /\ park[t] = "PARKED")
      <4>1. state' = state /\ onrq' = onrq
        BY <2>3, <3>4 DEF TryWakeLocked, IInv, SchedType
      <4>2. park' = park \/ park' = [park EXCEPT ![t] = "WOKEN"]
        BY <2>3, <3>4 DEF TryWakeLocked
      <4>3. park[t] = "PREPARING" \/ state[t] = "BLOCKED"
        BY <2>3 DEF IInv, SchedState
      <4> QED BY <2>3, <4>1, <4>2, <4>3
              DEF MakeReady, IInv, ParkType, ReadyOwnedOrNew
    <3> QED BY <3>3, <3>4
  <2>4. CASE /\ state' = [state EXCEPT ![t] = "READY"]
             /\ onrq' = [onrq EXCEPT ![t] = Enqueued(t, "READY")]
             /\ park[t] \in {"IDLE", "WOKEN"}
             /\ UNCHANGED <<disp, oncpu, owner, park>>
    BY <2>1, <2>4 DEF MakeReady, IInv, SchedType, ReadyOwnedOrNew
  <2> QED BY <2>2, <2>3, <2>4 DEF MakeReady
<1> QED BY <1>1, <1>2, <1>3, <1>4, <1>5, <1>6, <1>7, <1>8 DEF IInv

\* Yield preserves the invariant.
LEMMA YieldStep ==
  ASSUME IInv, SwitchWindowSafe, NEW c \in CPUs, NEW t \in Tasks,
         Yield(c, t)
  PROVE  IInv'
<1>1. ParkType' /\ EnvType'
  BY DEF IInv, ParkType, EnvType, Yield, parkVars, envVars
<1>2. SchedType'
  BY ConstAssumption DEF IInv, SchedType, ControlType, SlotPhases,
         TokenPhases, CpuSlots, States, Yield, Executes, parkVars, envVars
<1>3. ControlType'
  BY ConstAssumption DEF IInv, ControlType, ParkType, SchedType, SlotPhases,
         TokenPhases, PCs, Phases, Yield, Executes, parkVars, envVars
<1>4. SchedState'
  BY ConstAssumption DEF IInv, SchedType, ParkType, ControlType, SchedState,
         CpuSlots, SlotPhases, TokenPhases, Yield, Executes, parkVars, envVars
<1>5. CpuSlots'
  BY ConstAssumption DEF IInv, SchedType, ControlType, SchedState, CpuSlots,
         SlotPhases, Yield, Executes, parkVars, envVars
<1>6. SlotPhases'
  BY ConstAssumption DEF IInv, SchedType, ControlType, SchedState, CpuSlots,
         SlotPhases, TokenPhases, Yield, Executes, parkVars, envVars
<1>7. TokenPhases'
  BY ConstAssumption DEF IInv, SchedType, ParkType, ControlType, SchedState,
         CpuSlots, SlotPhases, TokenPhases, Yield, Executes, parkVars, envVars
<1>8. ReadyOwnedOrNew'
  BY ConstAssumption DEF IInv, SchedType, ParkType, EnvType, ControlType,
         SchedState, CpuSlots, SlotPhases, TokenPhases, ReadyOwnedOrNew,
         Yield, Executes, parkVars, envVars
<1> QED BY <1>1, <1>2, <1>3, <1>4, <1>5, <1>6, <1>7, <1>8 DEF IInv

\* StopCurrent preserves the invariant.
LEMMA StopCurrentStep ==
  ASSUME IInv, SwitchWindowSafe, NEW c \in CPUs, NEW t \in Tasks,
         StopCurrent(c, t)
  PROVE  IInv'
<1>1. ParkType' /\ EnvType'
  BY DEF IInv, ParkType, EnvType, StopCurrent, parkVars, envVars
<1>2. SchedType'
  BY ConstAssumption DEF IInv, SchedType, ControlType, SlotPhases,
         TokenPhases, CpuSlots, States, StopCurrent, Executes, parkVars,
         envVars
<1>3. ControlType'
  BY ConstAssumption DEF IInv, ControlType, ParkType, SchedType, SlotPhases,
         TokenPhases, PCs, Phases, StopCurrent, Executes, parkVars, envVars
<1>4. SchedState'
  BY ConstAssumption DEF IInv, SchedType, ParkType, ControlType, SchedState,
         CpuSlots, SlotPhases, TokenPhases, StopCurrent, Executes, parkVars,
         envVars
<1>5. CpuSlots'
  BY ConstAssumption DEF IInv, SchedType, ControlType, SchedState, CpuSlots,
         SlotPhases, StopCurrent, Executes, parkVars, envVars
<1>6. SlotPhases'
  BY ConstAssumption DEF IInv, SchedType, ControlType, SchedState, CpuSlots,
         SlotPhases, TokenPhases, StopCurrent, Executes, parkVars, envVars
<1>7. TokenPhases'
  BY ConstAssumption DEF IInv, SchedType, ParkType, ControlType, SchedState,
         CpuSlots, SlotPhases, TokenPhases, StopCurrent, Executes, parkVars,
         envVars
<1>8. ReadyOwnedOrNew'
  BY ConstAssumption DEF IInv, SchedType, ParkType, EnvType, ControlType,
         SchedState, CpuSlots, SlotPhases, TokenPhases, ReadyOwnedOrNew,
         StopCurrent, Executes, parkVars, envVars
<1> QED BY <1>1, <1>2, <1>3, <1>4, <1>5, <1>6, <1>7, <1>8 DEF IInv

\* DeliverSignals preserves the invariant.
LEMMA DeliverSignalsStep ==
  ASSUME IInv, SwitchWindowSafe, NEW c \in CPUs, NEW t \in Tasks,
         DeliverSignals(c, t)
  PROVE  IInv'
<1>1. /\ SchedType'
      /\ ParkType'
      /\ ControlType'
      /\ SchedState'
      /\ CpuSlots'
      /\ SlotPhases'
      /\ TokenPhases'
      /\ ReadyOwnedOrNew'
  BY DEF IInv, SchedType, ParkType, ControlType, SchedState, CpuSlots,
         SlotPhases, TokenPhases, ReadyOwnedOrNew, DeliverSignals, schedVars,
         parkVars, cpuVars
<1>2. EnvType'
  BY ConstAssumption DEF IInv, EnvType, ParkType, DeliverSignals, Executes,
         schedVars, parkVars, cpuVars
<1> QED BY <1>1, <1>2 DEF IInv

\* Exit preserves the invariant.
LEMMA ExitStep ==
  ASSUME IInv, SwitchWindowSafe, NEW c \in CPUs, NEW t \in Tasks,
         Exit(c, t)
  PROVE  IInv'
<1>1. ParkType' /\ EnvType'
  BY DEF IInv, ParkType, EnvType, Exit, parkVars, envVars
<1>2. SchedType'
  BY ConstAssumption DEF IInv, SchedType, ControlType, SlotPhases,
         TokenPhases, CpuSlots, States, Exit, Executes, parkVars, envVars
<1>3. ControlType'
  BY ConstAssumption DEF IInv, ControlType, ParkType, SchedType, SlotPhases,
         TokenPhases, PCs, Phases, Exit, Executes, parkVars, envVars
<1>4. SchedState'
  BY ConstAssumption DEF IInv, SchedType, ParkType, ControlType, SchedState,
         CpuSlots, SlotPhases, TokenPhases, Exit, Executes, parkVars, envVars
<1>5. CpuSlots'
  BY ConstAssumption DEF IInv, SchedType, ControlType, SchedState, CpuSlots,
         SlotPhases, Exit, Executes, parkVars, envVars
<1>6. SlotPhases'
  BY ConstAssumption DEF IInv, SchedType, ControlType, SchedState, CpuSlots,
         SlotPhases, TokenPhases, Exit, Executes, parkVars, envVars
<1>7. TokenPhases'
  BY ConstAssumption DEF IInv, SchedType, ParkType, ControlType, SchedState,
         CpuSlots, SlotPhases, TokenPhases, Exit, Executes, parkVars, envVars
<1>8. ReadyOwnedOrNew'
  BY ConstAssumption DEF IInv, SchedType, ParkType, EnvType, ControlType,
         SchedState, CpuSlots, SlotPhases, TokenPhases, ReadyOwnedOrNew, Exit,
         Executes, parkVars, envVars
<1> QED BY <1>1, <1>2, <1>3, <1>4, <1>5, <1>6, <1>7, <1>8 DEF IInv

\* Reap preserves the invariant.
LEMMA ReapStep ==
  ASSUME IInv, SwitchWindowSafe, NEW t \in Tasks,
         Reap(t)
  PROVE  IInv'
<1>1. ParkType' /\ EnvType' /\ ControlType' /\ CpuSlots'
  BY DEF IInv, ParkType, EnvType, ControlType, CpuSlots, Reap, parkVars,
         envVars, cpuVars
<1>2. SchedType'
  BY ConstAssumption DEF IInv, SchedType, ControlType, SlotPhases,
         TokenPhases, CpuSlots, States, Reap, parkVars, envVars, cpuVars
<1>3. SchedState'
  BY ConstAssumption DEF IInv, SchedType, ParkType, ControlType, SchedState,
         CpuSlots, SlotPhases, TokenPhases, Reap, parkVars, envVars, cpuVars
<1>4. SlotPhases'
  BY ConstAssumption DEF IInv, SchedType, ControlType, SchedState, CpuSlots,
         SlotPhases, TokenPhases, Reap, parkVars, envVars, cpuVars
<1>5. TokenPhases'
  BY ConstAssumption DEF IInv, SchedType, ParkType, ControlType, SchedState,
         CpuSlots, SlotPhases, TokenPhases, Reap, parkVars, envVars, cpuVars
<1>6. ReadyOwnedOrNew'
  BY ConstAssumption DEF IInv, SchedType, ParkType, EnvType, ControlType,
         SchedState, CpuSlots, SlotPhases, TokenPhases, ReadyOwnedOrNew, Reap,
         parkVars, envVars, cpuVars
<1> QED BY <1>1, <1>2, <1>3, <1>4, <1>5, <1>6 DEF IInv

\* DropThrottled preserves the invariant.
LEMMA DropThrottledStep ==
  ASSUME IInv, SwitchWindowSafe, NEW c \in CPUs, NEW t \in Tasks,
         DropThrottled(c, t)
  PROVE  IInv'
<1>1. ParkType' /\ EnvType' /\ ControlType' /\ CpuSlots' /\ SlotPhases'
      /\ TokenPhases'
  BY DEF IInv, ParkType, EnvType, ControlType, CpuSlots, SlotPhases,
         TokenPhases, DropThrottled, parkVars, envVars, cpuVars
<1>2. SchedType'
  BY DEF IInv, SchedType, DropThrottled
<1>3. SchedState'
  BY DEF IInv, SchedType, SchedState, DropThrottled, parkVars
<1>4. ReadyOwnedOrNew'
  <2>1. /\ onrq' = [onrq EXCEPT ![t] = FALSE]
        /\ UNCHANGED <<state, disp, oncpu, park, toready, thr>>
    BY DEF DropThrottled, parkVars, envVars
  <2>2. thr[t] /\ state[t] = "READY"
    BY DEF IInv, SchedState, DropThrottled, Best, Queued
  <2>3. t \in Throttled
    BY <2>2 DEF IInv, ReadyOwnedOrNew
  <2>4. ~KernelPreempt \/ Throttled = {} => park[t] # "PREPARING"
    BY <2>2, <2>3 DEF IInv, ReadyOwnedOrNew
  <2> QED BY <2>1, <2>2, <2>4 DEF IInv, SchedType, ReadyOwnedOrNew
<1> QED BY <1>1, <1>2, <1>3, <1>4 DEF IInv

\* PickTask preserves the invariant.
LEMMA PickTaskStep ==
  ASSUME IInv, SwitchWindowSafe, NEW c \in CPUs, NEW t \in Tasks,
         PickTask(c, t)
  PROVE  IInv'
<1>1. ParkType' /\ EnvType'
  BY DEF IInv, ParkType, EnvType, PickTask, parkVars, envVars
<1>2. SchedType'
  BY ConstAssumption DEF IInv, SchedType, ControlType, SlotPhases,
         TokenPhases, CpuSlots, States, PickTask, InSched, Queued, Best,
         Stealable, parkVars, envVars
<1>3. ControlType'
  BY ConstAssumption DEF IInv, ControlType, ParkType, SchedType, SlotPhases,
         TokenPhases, PCs, Phases, PickTask, InSched, Queued, Best, Stealable,
         parkVars, envVars
<1>4. SchedState'
  BY ConstAssumption DEF IInv, SchedType, ParkType, ControlType, SchedState,
         CpuSlots, SlotPhases, TokenPhases, PickTask, InSched, Queued, Best,
         Stealable, parkVars, envVars
<1>5. CpuSlots'
  BY ConstAssumption DEF IInv, SchedType, ControlType, SchedState, CpuSlots,
         SlotPhases, PickTask, InSched, Queued, Best, Stealable, parkVars,
         envVars
<1>6. SlotPhases'
  BY ConstAssumption DEF IInv, SchedType, ControlType, SchedState, CpuSlots,
         SlotPhases, TokenPhases, PickTask, InSched, Queued, Best, Stealable,
         parkVars, envVars
<1>7. TokenPhases'
  BY ConstAssumption DEF IInv, SchedType, ParkType, ControlType, SchedState,
         CpuSlots, SlotPhases, TokenPhases, PickTask, InSched, Queued, Best,
         Stealable, parkVars, envVars
<1>8. ReadyOwnedOrNew'
  BY ConstAssumption DEF IInv, SchedType, ParkType, EnvType, ControlType,
         SchedState, CpuSlots, SlotPhases, TokenPhases, ReadyOwnedOrNew,
         PickTask, InSched, Queued, Best, Stealable, parkVars, envVars
<1> QED BY <1>1, <1>2, <1>3, <1>4, <1>5, <1>6, <1>7, <1>8 DEF IInv

\* PickNothing preserves the invariant.
LEMMA PickNothingStep ==
  ASSUME IInv, SwitchWindowSafe, NEW c \in CPUs,
         PickNothing(c)
  PROVE  IInv'
<1>1. SchedType' /\ ParkType' /\ EnvType' /\ SchedState' /\ ReadyOwnedOrNew'
  BY DEF IInv, SchedType, ParkType, EnvType, SchedState, ReadyOwnedOrNew,
         PickNothing, schedVars, parkVars, envVars
<1>2. ControlType'
  BY ConstAssumption DEF IInv, ControlType, ParkType, SchedType, SlotPhases,
         TokenPhases, PCs, Phases, PickNothing, schedVars, parkVars, envVars
<1>3. CpuSlots'
  BY ConstAssumption DEF IInv, SchedType, ControlType, SchedState, CpuSlots,
         SlotPhases, PickNothing, schedVars, parkVars, envVars
<1>4. SlotPhases'
  BY ConstAssumption DEF IInv, SchedType, ControlType, SchedState, CpuSlots,
         SlotPhases, TokenPhases, PickNothing, schedVars, parkVars, envVars
<1>5. TokenPhases'
  BY ConstAssumption DEF IInv, SchedType, ParkType, ControlType, SchedState,
         CpuSlots, SlotPhases, TokenPhases, PickNothing, schedVars, parkVars,
         envVars
<1> QED BY <1>1, <1>2, <1>3, <1>4, <1>5 DEF IInv

\* Dispatch preserves the invariant.
LEMMA DispatchStep ==
  ASSUME IInv, SwitchWindowSafe, NEW c \in CPUs,
         Dispatch(c)
  PROVE  IInv'
<1>1. SchedType' /\ ParkType' /\ EnvType' /\ SchedState' /\ ReadyOwnedOrNew'
  BY DEF IInv, SchedType, ParkType, EnvType, SchedState, ReadyOwnedOrNew,
         Dispatch, schedVars, parkVars, envVars
<1>2. ControlType'
  BY ConstAssumption DEF IInv, ControlType, ParkType, SchedType, SlotPhases,
         TokenPhases, PCs, Phases, Dispatch, Publishable, schedVars, parkVars,
         envVars
<1>3. CpuSlots'
  BY ConstAssumption DEF IInv, SchedType, ControlType, SchedState, CpuSlots,
         SlotPhases, Dispatch, Publishable, schedVars, parkVars, envVars
<1>4. SlotPhases'
  BY ConstAssumption DEF IInv, SchedType, ControlType, SchedState, CpuSlots,
         SlotPhases, TokenPhases, Dispatch, Publishable, schedVars, parkVars,
         envVars
<1>5. TokenPhases'
  BY ConstAssumption DEF IInv, SchedType, ParkType, ControlType, SchedState,
         CpuSlots, SlotPhases, TokenPhases, Dispatch, Publishable, schedVars,
         parkVars, envVars
<1> QED BY <1>1, <1>2, <1>3, <1>4, <1>5 DEF IInv

\* GiveBack preserves the invariant.
LEMMA GiveBackStep ==
  ASSUME IInv, SwitchWindowSafe, NEW c \in CPUs,
         GiveBack(c)
  PROVE  IInv'
<1>1. ParkType' /\ EnvType'
  BY DEF IInv, ParkType, EnvType, GiveBack, parkVars, envVars
<1>2. SchedType'
  <2>1. /\ disp' \in [Tasks -> BOOLEAN] /\ onrq' \in [Tasks -> BOOLEAN]
        /\ owner' \in [Tasks -> CPUs \cup {None}] /\ cpuid' \in [Tasks -> CPUs]
    <3>1. owner[pick[c]] # None => owner[pick[c]] \in CPUs
      BY DEF GiveBack, IInv, SchedType, SlotPhases
    <3> QED BY <3>1 DEF GiveBack, Unpick, IInv, SchedType
  <2>2. state' \in [Tasks -> States]
    BY DEF GiveBack, Keepable, IInv, SchedType, States
  <2> QED BY <2>1, <2>2 DEF GiveBack, IInv, SchedType
<1>3. ControlType'
  BY ConstAssumption DEF IInv, ControlType, ParkType, SchedType, SlotPhases,
         TokenPhases, PCs, Phases, GiveBack, Unpick, Publishable, Keepable,
         MayOutrank, Outranks, parkVars, envVars
<1>4. SchedState'
  BY ConstAssumption DEF IInv, SchedType, ParkType, ControlType, SchedState,
         CpuSlots, SlotPhases, TokenPhases, GiveBack, Unpick, Publishable,
         Keepable, MayOutrank, Outranks, parkVars, envVars
<1>5. CpuSlots'
  BY ConstAssumption DEF IInv, SchedType, ControlType, SchedState, CpuSlots,
         SlotPhases, GiveBack, Unpick, Publishable, Keepable, MayOutrank,
         Outranks, parkVars, envVars
<1>6. SlotPhases'
  BY ConstAssumption DEF IInv, SchedType, ControlType, SchedState, CpuSlots,
         SlotPhases, TokenPhases, GiveBack, Unpick, Publishable, Keepable,
         MayOutrank, Outranks, parkVars, envVars
<1>7. TokenPhases'
  BY ConstAssumption DEF IInv, SchedType, ParkType, ControlType, SchedState,
         CpuSlots, SlotPhases, TokenPhases, GiveBack, Unpick, Publishable,
         Keepable, MayOutrank, Outranks, parkVars, envVars
<1>8. ReadyOwnedOrNew'
  <2>1. pick[c] \in Tasks /\ disp[pick[c]] /\ ~onrq[pick[c]] /\ ~oncpu[pick[c]]
        /\ owner[pick[c]] # None /\ state[pick[c]] = "READY"
    BY ConstAssumption
       DEF IInv, SchedType, SchedState, CpuSlots, SlotPhases, GiveBack
  <2>2. /\ onrq' = [onrq EXCEPT ![pick[c]] = TRUE]
        /\ disp' = [disp EXCEPT ![pick[c]] = FALSE]
        /\ UNCHANGED <<oncpu, park, toready, thr>>
    BY <2>1 DEF GiveBack, Unpick, parkVars, envVars
  <2>3. Publishable(pick[c])
    BY <2>1 DEF Publishable
  <2>4. state' = [state EXCEPT ![current[c]] = "RUNNING"]
    BY <2>3 DEF GiveBack
  <2> QED BY <2>1, <2>2, <2>4 DEF IInv, SchedType, ReadyOwnedOrNew
<1> QED BY <1>1, <1>2, <1>3, <1>4, <1>5, <1>6, <1>7, <1>8 DEF IInv

\* KeepCurrent preserves the invariant.
LEMMA KeepCurrentStep ==
  ASSUME IInv, SwitchWindowSafe, NEW c \in CPUs,
         KeepCurrent(c)
  PROVE  IInv'
<1>1. ParkType' /\ EnvType'
  BY DEF IInv, ParkType, EnvType, KeepCurrent, parkVars, envVars
<1>2. SchedType'
  BY ConstAssumption DEF IInv, SchedType, ControlType, SlotPhases,
         TokenPhases, CpuSlots, States, KeepCurrent, parkVars, envVars
<1>3. ControlType'
  BY ConstAssumption DEF IInv, ControlType, ParkType, SchedType, SlotPhases,
         TokenPhases, PCs, Phases, KeepCurrent, parkVars, envVars
<1>4. SchedState'
  BY ConstAssumption DEF IInv, SchedType, ParkType, ControlType, SchedState,
         CpuSlots, SlotPhases, TokenPhases, KeepCurrent, parkVars, envVars
<1>5. CpuSlots'
  BY ConstAssumption DEF IInv, SchedType, ControlType, SchedState, CpuSlots,
         SlotPhases, KeepCurrent, parkVars, envVars
<1>6. SlotPhases'
  BY ConstAssumption DEF IInv, SchedType, ControlType, SchedState, CpuSlots,
         SlotPhases, TokenPhases, KeepCurrent, parkVars, envVars
<1>7. TokenPhases'
  BY ConstAssumption DEF IInv, SchedType, ParkType, ControlType, SchedState,
         CpuSlots, SlotPhases, TokenPhases, KeepCurrent, parkVars, envVars
<1>8. ReadyOwnedOrNew'
  BY ConstAssumption DEF IInv, SchedType, ParkType, EnvType, ControlType,
         SchedState, CpuSlots, SlotPhases, TokenPhases, ReadyOwnedOrNew,
         KeepCurrent, parkVars, envVars
<1> QED BY <1>1, <1>2, <1>3, <1>4, <1>5, <1>6, <1>7, <1>8 DEF IInv

\* FallToIdle preserves the invariant.
LEMMA FallToIdleStep ==
  ASSUME IInv, SwitchWindowSafe, NEW c \in CPUs,
         FallToIdle(c)
  PROVE  IInv'
<1>1. SchedType' /\ ParkType' /\ EnvType' /\ SchedState' /\ ReadyOwnedOrNew'
  BY DEF IInv, SchedType, ParkType, EnvType, SchedState, ReadyOwnedOrNew,
         FallToIdle, schedVars, parkVars, envVars
<1>2. ControlType'
  BY ConstAssumption DEF IInv, ControlType, ParkType, SchedType, SlotPhases,
         TokenPhases, PCs, Phases, FallToIdle, schedVars, parkVars, envVars
<1>3. CpuSlots'
  BY ConstAssumption DEF IInv, SchedType, ControlType, SchedState, CpuSlots,
         SlotPhases, FallToIdle, schedVars, parkVars, envVars
<1>4. SlotPhases'
  BY ConstAssumption DEF IInv, SchedType, ControlType, SchedState, CpuSlots,
         SlotPhases, TokenPhases, FallToIdle, schedVars, parkVars, envVars
<1>5. TokenPhases'
  BY ConstAssumption DEF IInv, SchedType, ParkType, ControlType, SchedState,
         CpuSlots, SlotPhases, TokenPhases, FallToIdle, schedVars, parkVars,
         envVars
<1> QED BY <1>1, <1>2, <1>3, <1>4, <1>5 DEF IInv

\* FinishPending preserves the invariant.
LEMMA FinishPendingStep ==
  ASSUME IInv, SwitchWindowSafe, NEW c \in CPUs,
         FinishPending(c)
  PROVE  IInv'
<1>1. ParkType' /\ EnvType'
  BY DEF IInv, ParkType, EnvType, FinishPending, parkVars, envVars
<1>2. SchedType'
  <2> DEFINE old == swout[c]
  <2>1. CASE old \in Tasks
    <3>1. /\ oncpu' \in [Tasks -> BOOLEAN]
          /\ owner' \in [Tasks -> CPUs \cup {None}]
      BY <2>1 DEF FinishPending, SwitchCompleteLocked, IInv, SchedType
    <3>2. (onrq[old] \/ (state[old] = "READY" /\ ~disp[old])) \in BOOLEAN
      BY <2>1 DEF IInv, SchedType
    <3>3. onrq' \in [Tasks -> BOOLEAN]
      BY <2>1, <3>2 DEF FinishPending, SwitchCompleteLocked, IInv, SchedType
    <3> QED BY <3>1, <3>3 DEF FinishPending, IInv, SchedType
  <2>2. CASE old \notin Tasks
    BY <2>2 DEF FinishPending, SwitchCompleteLocked, IInv, SchedType
  <2> QED BY <2>1, <2>2
<1>3. ControlType'
  BY ConstAssumption DEF IInv, ControlType, ParkType, SchedType, SlotPhases,
         TokenPhases, PCs, Phases, FinishPending, SwitchCompleteLocked,
         parkVars, envVars
<1>4. SchedState'
  BY ConstAssumption DEF IInv, SchedType, ParkType, ControlType, SchedState,
         CpuSlots, SlotPhases, TokenPhases, FinishPending,
         SwitchCompleteLocked, parkVars, envVars
<1>5. CpuSlots'
  BY ConstAssumption DEF IInv, SchedType, ControlType, SchedState, CpuSlots,
         SlotPhases, FinishPending, SwitchCompleteLocked, parkVars, envVars
<1>6. SlotPhases'
  BY ConstAssumption DEF IInv, SchedType, ControlType, SchedState, CpuSlots,
         SlotPhases, TokenPhases, FinishPending, SwitchCompleteLocked,
         parkVars, envVars
<1>7. TokenPhases'
  BY ConstAssumption, SMTT(30) DEF IInv, SchedType, ParkType, ControlType, SchedState,
         CpuSlots, SlotPhases, TokenPhases, FinishPending,
         SwitchCompleteLocked, parkVars, envVars
<1>8. ReadyOwnedOrNew'
  <2> DEFINE old == swout[c]
  <2>1. CASE old \in Tasks
    <3>1. ~disp[old]
      BY <2>1 DEF IInv, SchedState, CpuSlots
    <3>2. onrq' = [onrq EXCEPT ![old] =
                     onrq[old] \/ (state[old] = "READY" /\ ~disp[old])]
      BY <2>1 DEF FinishPending, SwitchCompleteLocked
    <3>3. oncpu' = [oncpu EXCEPT ![old] = FALSE]
      BY <2>1 DEF FinishPending, SwitchCompleteLocked
    <3> QED BY <2>1, <3>1, <3>2, <3>3
            DEF FinishPending, IInv, SchedType, ReadyOwnedOrNew, parkVars, envVars
  <2>2. CASE old \notin Tasks
    BY <2>2 DEF FinishPending, SwitchCompleteLocked, IInv, ReadyOwnedOrNew,
                parkVars, envVars
  <2> QED BY <2>1, <2>2
<1> QED BY <1>1, <1>2, <1>3, <1>4, <1>5, <1>6, <1>7, <1>8 DEF IInv

\* SetCurrent preserves the invariant.
LEMMA SetCurrentStep ==
  ASSUME IInv, SwitchWindowSafe, NEW c \in CPUs,
         SetCurrent(c)
  PROVE  IInv'
<1>1. SchedType' /\ ParkType' /\ EnvType' /\ SchedState' /\ ReadyOwnedOrNew'
  BY DEF IInv, SchedType, ParkType, EnvType, SchedState, ReadyOwnedOrNew,
         SetCurrent, schedVars, parkVars, envVars
<1>2. ControlType'
  BY ConstAssumption DEF IInv, ControlType, ParkType, SchedType, SlotPhases,
         TokenPhases, PCs, Phases, SetCurrent, schedVars, parkVars, envVars
<1>3. CpuSlots'
  BY ConstAssumption DEF IInv, SchedType, ControlType, SchedState, CpuSlots,
         SlotPhases, SetCurrent, schedVars, parkVars, envVars
<1>4. SlotPhases'
  BY ConstAssumption DEF IInv, SchedType, ControlType, SchedState, CpuSlots,
         SlotPhases, TokenPhases, SetCurrent, schedVars, parkVars, envVars
<1>5. TokenPhases'
  BY ConstAssumption DEF IInv, SchedType, ParkType, ControlType, SchedState,
         CpuSlots, SlotPhases, TokenPhases, SetCurrent, schedVars, parkVars,
         envVars
<1> QED BY <1>1, <1>2, <1>3, <1>4, <1>5 DEF IInv

\* PublishNext preserves the invariant.
LEMMA PublishNextStep ==
  ASSUME IInv, SwitchWindowSafe, NEW c \in CPUs,
         PublishNext(c)
  PROVE  IInv'
<1>1. ParkType' /\ EnvType'
  BY DEF IInv, ParkType, EnvType, PublishNext, parkVars, envVars
<1>2. SchedType'
  <2>1. CASE pick[c] \in Tasks
    <3>1. state' \in [Tasks -> States] /\ owner' \in [Tasks -> CPUs \cup {None}]
      BY <2>1 DEF PublishNext, IInv, SchedType, States
    <3>2. /\ onrq' \in [Tasks -> BOOLEAN] /\ disp' \in [Tasks -> BOOLEAN]
          /\ oncpu' \in [Tasks -> BOOLEAN]
      BY <2>1 DEF PublishNext, IInv, SchedType
    <3> QED BY <3>1, <3>2 DEF PublishNext, IInv, SchedType
  <2>2. CASE pick[c] \notin Tasks
    BY <2>2 DEF PublishNext, IInv, SchedType
  <2> QED BY <2>1, <2>2
<1>3. ControlType'
  BY ConstAssumption DEF IInv, ControlType, ParkType, SchedType, SlotPhases,
         TokenPhases, PCs, Phases, PublishNext, parkVars, envVars
<1>4. SchedState'
  BY ConstAssumption DEF IInv, SchedType, ParkType, ControlType, SchedState,
         CpuSlots, SlotPhases, TokenPhases, PublishNext, parkVars, envVars
<1>5. CpuSlots'
  BY ConstAssumption DEF IInv, SchedType, ControlType, SchedState, CpuSlots,
         SlotPhases, PublishNext, parkVars, envVars
<1>6. SlotPhases'
  BY ConstAssumption DEF IInv, SchedType, ControlType, SchedState, CpuSlots,
         SlotPhases, TokenPhases, PublishNext, parkVars, envVars
<1>7. TokenPhases'
  BY ConstAssumption DEF IInv, SchedType, ParkType, ControlType, SchedState,
         CpuSlots, SlotPhases, TokenPhases, PublishNext, parkVars, envVars
<1>8. ReadyOwnedOrNew'
  BY ConstAssumption DEF IInv, SchedType, ParkType, EnvType, ControlType,
         SchedState, CpuSlots, SlotPhases, TokenPhases, ReadyOwnedOrNew,
         PublishNext, parkVars, envVars
<1> QED BY <1>1, <1>2, <1>3, <1>4, <1>5, <1>6, <1>7, <1>8 DEF IInv

\* Switch preserves the invariant.
LEMMA SwitchStep ==
  ASSUME IInv, SwitchWindowSafe, NEW c \in CPUs,
         Switch(c)
  PROVE  IInv'
<1>1. SchedType' /\ ParkType' /\ EnvType' /\ SchedState' /\ ReadyOwnedOrNew'
  BY DEF IInv, SchedType, ParkType, EnvType, SchedState, ReadyOwnedOrNew,
         Switch, schedVars, parkVars, envVars
<1>2. ControlType'
  BY ConstAssumption DEF IInv, ControlType, ParkType, SchedType, SlotPhases,
         TokenPhases, PCs, Phases, Switch, schedVars, parkVars, envVars
<1>3. CpuSlots'
  BY ConstAssumption DEF IInv, SchedType, ControlType, SchedState, CpuSlots,
         SlotPhases, Switch, schedVars, parkVars, envVars
<1>4. SlotPhases'
  BY ConstAssumption DEF IInv, SchedType, ControlType, SchedState, CpuSlots,
         SlotPhases, TokenPhases, Switch, schedVars, parkVars, envVars
<1>5. TokenPhases'
  BY ConstAssumption DEF IInv, SchedType, ParkType, ControlType, SchedState,
         CpuSlots, SlotPhases, TokenPhases, Switch, schedVars, parkVars,
         envVars
<1> QED BY <1>1, <1>2, <1>3, <1>4, <1>5 DEF IInv

\* SwitchComplete preserves the invariant.
LEMMA SwitchCompleteStep ==
  ASSUME IInv, SwitchWindowSafe, NEW c \in CPUs,
         SwitchComplete(c)
  PROVE  IInv'
<1>1. ParkType' /\ EnvType'
  BY DEF IInv, ParkType, EnvType, SwitchComplete, parkVars, envVars
<1>2. SchedType'
  <2> DEFINE old == swout[c]
  <2>1. CASE old \in Tasks
    <3>1. /\ oncpu' \in [Tasks -> BOOLEAN]
          /\ owner' \in [Tasks -> CPUs \cup {None}]
      BY <2>1 DEF SwitchComplete, SwitchCompleteLocked, IInv, SchedType
    <3>2. (onrq[old] \/ (state[old] = "READY" /\ ~disp[old])) \in BOOLEAN
      BY <2>1 DEF IInv, SchedType
    <3>3. onrq' \in [Tasks -> BOOLEAN]
      BY <2>1, <3>2 DEF SwitchComplete, SwitchCompleteLocked, IInv, SchedType
    <3> QED BY <3>1, <3>3 DEF SwitchComplete, IInv, SchedType
  <2>2. CASE old \notin Tasks
    BY <2>2 DEF SwitchComplete, SwitchCompleteLocked, IInv, SchedType
  <2> QED BY <2>1, <2>2
<1>3. ControlType'
  BY ConstAssumption DEF IInv, ControlType, ParkType, SchedType, SlotPhases,
         TokenPhases, PCs, Phases, SwitchComplete, SwitchCompleteLocked,
         parkVars, envVars
<1>4. SchedState'
  BY ConstAssumption DEF IInv, SchedType, ParkType, ControlType, SchedState,
         CpuSlots, SlotPhases, TokenPhases, SwitchComplete,
         SwitchCompleteLocked, parkVars, envVars
<1>5. CpuSlots'
  BY ConstAssumption DEF IInv, SchedType, ControlType, SchedState, CpuSlots,
         SlotPhases, SwitchComplete, SwitchCompleteLocked, parkVars, envVars
<1>6. SlotPhases'
  BY ConstAssumption DEF IInv, SchedType, ControlType, SchedState, CpuSlots,
         SlotPhases, TokenPhases, SwitchComplete, SwitchCompleteLocked,
         parkVars, envVars
<1>7. TokenPhases'
  BY ConstAssumption DEF IInv, SchedType, ParkType, ControlType, SchedState,
         CpuSlots, SlotPhases, TokenPhases, SwitchComplete,
         SwitchCompleteLocked, parkVars, envVars
<1>8. ReadyOwnedOrNew'
  <2> DEFINE old == swout[c]
  <2>1. CASE old \in Tasks
    <3>1. ~disp[old]
      BY <2>1 DEF IInv, SchedState, CpuSlots
    <3>2. onrq' = [onrq EXCEPT ![old] =
                     onrq[old] \/ (state[old] = "READY" /\ ~disp[old])]
      BY <2>1 DEF SwitchComplete, SwitchCompleteLocked
    <3>3. oncpu' = [oncpu EXCEPT ![old] = FALSE]
      BY <2>1 DEF SwitchComplete, SwitchCompleteLocked
    <3> QED BY <2>1, <3>1, <3>2, <3>3
            DEF SwitchComplete, IInv, SchedType, ReadyOwnedOrNew, parkVars, envVars
  <2>2. CASE old \notin Tasks
    BY <2>2 DEF SwitchComplete, SwitchCompleteLocked, IInv, ReadyOwnedOrNew,
                parkVars, envVars
  <2> QED BY <2>1, <2>2
<1> QED BY <1>1, <1>2, <1>3, <1>4, <1>5, <1>6, <1>7, <1>8 DEF IInv

\* PreemptInSwitch preserves the invariant.
LEMMA PreemptInSwitchStep ==
  ASSUME IInv, SwitchWindowSafe, NEW c \in CPUs,
         PreemptInSwitch(c)
  PROVE  IInv'
<1>1. ParkType' /\ EnvType'
  BY DEF IInv, ParkType, EnvType, PreemptInSwitch, parkVars, envVars
<1>2. SchedType'
  BY ConstAssumption DEF IInv, SchedType, ControlType, SlotPhases,
         TokenPhases, CpuSlots, States, PreemptInSwitch, IrqsOn,
         SwitchWindowSafe, parkVars, envVars
<1>3. ControlType'
  BY ConstAssumption DEF IInv, ControlType, ParkType, SchedType, SlotPhases,
         TokenPhases, PCs, Phases, PreemptInSwitch, IrqsOn, SwitchWindowSafe,
         parkVars, envVars
<1>4. SchedState'
  BY ConstAssumption DEF IInv, SchedType, ParkType, ControlType, SchedState,
         CpuSlots, SlotPhases, TokenPhases, PreemptInSwitch, IrqsOn,
         SwitchWindowSafe, parkVars, envVars
<1>5. CpuSlots'
  BY ConstAssumption DEF IInv, SchedType, ControlType, SchedState, CpuSlots,
         SlotPhases, PreemptInSwitch, IrqsOn, SwitchWindowSafe, parkVars,
         envVars
<1>6. SlotPhases'
  BY ConstAssumption DEF IInv, SchedType, ControlType, SchedState, CpuSlots,
         SlotPhases, TokenPhases, PreemptInSwitch, IrqsOn, SwitchWindowSafe,
         parkVars, envVars
<1>7. TokenPhases'
  BY ConstAssumption DEF IInv, SchedType, ParkType, ControlType, SchedState,
         CpuSlots, SlotPhases, TokenPhases, PreemptInSwitch, IrqsOn,
         SwitchWindowSafe, parkVars, envVars
<1>8. ReadyOwnedOrNew'
  BY ConstAssumption DEF IInv, SchedType, ParkType, EnvType, ControlType,
         SchedState, CpuSlots, SlotPhases, TokenPhases, ReadyOwnedOrNew,
         PreemptInSwitch, IrqsOn, SwitchWindowSafe, parkVars, envVars
<1> QED BY <1>1, <1>2, <1>3, <1>4, <1>5, <1>6, <1>7, <1>8 DEF IInv

-----------------------------------------------------------------------------
\* The boot state satisfies the invariant.
LEMMA InitInv == Init => IInv
<1> SUFFICES ASSUME Init PROVE IInv
  OBVIOUS
<1>1. SchedType /\ ControlType
  BY ConstAssumption DEF Init, SchedType, ControlType, States, PCs, Phases
<1>2. ParkType /\ EnvType
  BY ConstAssumption DEF Init, ParkType, EnvType, Reasons
<1>3. SchedState /\ CpuSlots
  BY ConstAssumption DEF Init, SchedState, CpuSlots
<1>4. SlotPhases /\ TokenPhases /\ ReadyOwnedOrNew
  BY ConstAssumption DEF Init, SlotPhases, TokenPhases, ReadyOwnedOrNew
<1> QED BY <1>1, <1>2, <1>3, <1>4 DEF IInv

\* Every step of the scheduler preserves the invariant.
LEMMA NextInv ==
  ASSUME IInv, SwitchWindowSafe, [Next]_vars
  PROVE  IInv'
<1>1. ASSUME NEW c \in CPUs, NEW t \in Tasks, TaskStep(c, t)
      PROVE  IInv'
  BY <1>1, PrepareStep, CancelStep, CommitStep, DonatePeekStep,
     CommitDonateStep, DonateWakeStep, FinishStep, YieldStep, StopCurrentStep,
     DeliverSignalsStep, ExitStep
     DEF TaskStep
<1>2. ASSUME NEW t \in Tasks, OtherStep(t)
      PROVE  IInv'
  BY <1>2, TryWakeStep, TimerExpireStep, TimerWakeStep, SendSignalStep,
     ResumeStoppedStep, InterruptWaitStep, ForceExitStep, MakeReadyStep,
     ReapStep
     DEF OtherStep
<1>3. ASSUME NEW c \in CPUs, CpuStep(c)
      PROVE  IInv'
  BY <1>3, DropThrottledStep, PickTaskStep, PickNothingStep, ChargeStep,
     UnthrottleStep, DispatchStep, GiveBackStep,
     KeepCurrentStep, FallToIdleStep, FinishPendingStep, SetCurrentStep,
     PublishNextStep, SwitchStep, SwitchCompleteStep, PreemptInSwitchStep
     DEF CpuStep
<1>4. CASE UNCHANGED vars
  BY <1>4 DEF IInv, SchedType, ParkType, EnvType, ControlType, SchedState,
              CpuSlots, SlotPhases, TokenPhases, ReadyOwnedOrNew, vars,
              schedVars, parkVars, envVars, cpuVars
<1> QED BY <1>1, <1>2, <1>3, <1>4 DEF Next

\* The inductive invariant holds throughout.
THEOREM Invariance == ASSUME SwitchWindowSafe PROVE Spec => []IInv
<1>1. Init => IInv
  BY InitInv
<1>2. IInv /\ [Next]_vars => IInv'
  BY NextInv
<1> QED BY <1>1, <1>2, PTL DEF Spec

\* Type correctness of the scheduler and park state.
THEOREM TypeCorrect == ASSUME SwitchWindowSafe PROVE Spec => []TypeOK
<1>1. IInv => TypeOK
  BY DEF IInv, TypeOK
<1> QED BY <1>1, Invariance, PTL

\* proc_sched_assert_task_locked() never fires: a task is queued, picked or on
\* a CPU, never two of them, and its flags agree with its state.
THEOREM SchedStateHolds == ASSUME SwitchWindowSafe PROVE Spec => []SchedState
<1>1. IInv => SchedState
  BY DEF IInv
<1> QED BY <1>1, Invariance, PTL

\* The per-CPU slots of current.c and the task flags never disagree.
THEOREM CpuSlotsHold == ASSUME SwitchWindowSafe PROVE Spec => []CpuSlots
<1>1. IInv => CpuSlots
  BY DEF IInv
<1> QED BY <1>1, Invariance, PTL

\* No wakeup is lost: a READY task is always on its way to a CPU or throttled,
\* where the kernel does not preempt itself or no cgroup has a quota.
THEOREM NoLostWakeup ==
  ASSUME SwitchWindowSafe, ThrottleWindowSafe
  PROVE  Spec => []ReadyIsOwned
<1>1. IInv => ReadyIsOwned
  BY DEF IInv, ReadyOwnedOrNew, ReadyIsOwned, ThrottleWindowSafe
<1> QED BY <1>1, Invariance, PTL

\* No stack is executed by a CPU that does not own its task.
THEOREM StackSafe == ASSUME SwitchWindowSafe PROVE Spec => []StackOwned
<1>1. IInv => StackOwned
  BY DEF IInv, CpuSlots, StackOwned
<1> QED BY <1>1, Invariance, PTL

\* A task returns from a wait only with a won token, and never nests waits.
THEOREM TokenSafe == ASSUME SwitchWindowSafe PROVE Spec => []TokenDiscipline
<1>1. IInv => TokenDiscipline
  BY DEF IInv, SchedState, TokenPhases, TokenDiscipline
<1> QED BY <1>1, Invariance, PTL

\* Reaping never frees a stack or a slot that is still in use.
THEOREM ReapSafe == ASSUME SwitchWindowSafe PROVE Spec => []ReapedIsQuiet
<1>1. IInv => ReapedIsQuiet
  BY DEF IInv, SchedState, CpuSlots, SlotPhases, ReapedIsQuiet
<1> QED BY <1>1, Invariance, PTL

-----------------------------------------------------------------------------
(***************************************************************************)
(* What the rest of the kernel may count on when it interrupts a task:     *)
(* deadlines fire, signals and forced exits reach a sleeping task, a       *)
(* continue reaches a stopped one, and a zombie never runs again.  For     *)
(* every set of tasks and CPUs, every bound and every configuration in     *)
(* which the donation window is harmless (SwitchWindowSafe).               *)
(*                                                                         *)
(* The three invariants are about messages still under way (an expired     *)
(* entry, a sender between the publication and the wake); each is kept     *)
(* only because the wake that consumes the message cannot fail.  That is   *)
(* what Wakeable says, and it rests on the scheduler's invariant IInv: a   *)
(* task with a live token is neither a zombie nor reaped, and its sequence *)
(* is not zero.                                                            *)
(***************************************************************************)

Asleep(t) == park[t] \in {"PREPARING", "PARKED"}

\* DeadlineCovered, with the wait the deadline belongs to.
DeadlineLive ==
  \A t \in Tasks : timed[t] =>
    Asleep(t) /\ (timer[t] = seq[t] \/ <<t, seq[t]>> \in fired)

SInv == DeadlineLive /\ InterruptNotLost /\ StopNotLost

\* A wake that names the current wait and that its mode admits always wins.
LEMMA Wakeable ==
  ASSUME IInv, NEW t \in Tasks, NEW r, Asleep(t), ModeAdmits(mode[t], r)
  PROVE  CanWake(t, seq[t], r)
<1>1. pc[t] # "user" /\ seq[t] # 0
  BY DEF IInv, TokenPhases, Asleep, ControlType
<1>2. state[t] \notin {"UNUSED", "ZOMBIE"}
  BY DEF IInv, SchedState, Asleep
<1> QED BY <1>1, <1>2 DEF CanWake, Asleep

\* What any wake does to the wait of t, and that it stops nobody.
LEMMA WakeEffect ==
  ASSUME IInv, NEW t \in Tasks, NEW s, NEW r, TryWakeLocked(t, s, r)
  PROVE  /\ \A u \in Tasks : u # t =>
              park'[u] = park[u] /\ timed'[u] = timed[u] /\ timer'[u] = timer[u]
         /\ \/ park'[t] = "WOKEN" /\ timed'[t] = FALSE
            \/ park'[t] = park[t] /\ timed'[t] = timed[t] /\ timer'[t] = timer[t]
         /\ CanWake(t, s, r) => park'[t] = "WOKEN" /\ timed'[t] = FALSE
         /\ \A u \in Tasks : state'[u] = "STOPPED" => state[u] = "STOPPED"
<1>1. CASE CanWake(t, s, r)
  <2>1. /\ park' = [park EXCEPT ![t] = "WOKEN"]
        /\ timed' = [timed EXCEPT ![t] = FALSE]
        /\ timer' = [timer EXCEPT ![t] = Cancelled(t, s)]
        /\ state' = [state EXCEPT ![t] =
                       IF park[t] = "PARKED" THEN "READY" ELSE @]
    BY <1>1 DEF TryWakeLocked
  <2>2. /\ park'[t] = "WOKEN" /\ timed'[t] = FALSE
        /\ \A u \in Tasks : u # t =>
             park'[u] = park[u] /\ timed'[u] = timed[u] /\ timer'[u] = timer[u]
    BY <2>1 DEF IInv, ParkType
  <2>3. \A u \in Tasks : state'[u] = "STOPPED" => state[u] = "STOPPED"
    BY <2>1 DEF IInv, SchedType
  <2> QED BY <2>2, <2>3
<1>2. CASE ~CanWake(t, s, r)
  BY <1>2 DEF TryWakeLocked
<1> QED BY <1>1, <1>2

-----------------------------------------------------------------------------
(* One lemma per kind of step.                                             *)

\* A step that touches no token, timer or signal, and stops nobody.
LEMMA Untouched ==
  ASSUME SInv, UNCHANGED <<parkVars, fired, pend, inflight>>,
         \A u \in Tasks : state'[u] = "STOPPED" => state[u] = "STOPPED"
  PROVE  SInv'
<1>1. UNCHANGED <<park, seq, mode, timed, timer, fired, pend, inflight>>
  BY DEF parkVars
<1>2. DeadlineLive'
  BY <1>1 DEF SInv, DeadlineLive, Asleep
<1>3. InterruptNotLost'
  BY <1>1 DEF SInv, InterruptNotLost
<1>4. StopNotLost'
  BY <1>1 DEF SInv, StopNotLost
<1> QED BY <1>2, <1>3, <1>4 DEF SInv

\* A step that ends waits (or commits them) and changes nothing else of them.
LEMMA EndsOnly ==
  ASSUME IInv, SInv, UNCHANGED <<seq, mode, fired, pend, inflight>>,
         \A u \in Tasks :
           \/ park'[u] \in {"WOKEN", "IDLE"} /\ timed'[u] = FALSE
           \/ /\ Asleep(u)' => Asleep(u)
              /\ timed[u] => Asleep(u)'
              /\ timed'[u] = timed[u] /\ timer'[u] = timer[u],
         \A u \in Tasks : state'[u] = "STOPPED" => state[u] = "STOPPED"
  PROVE  SInv'
<1>1. DeadlineLive'
  BY DEF SInv, DeadlineLive, Asleep
<1>2. \A u \in Tasks : Asleep(u)' => Asleep(u)
  BY DEF Asleep
<1>3. InterruptNotLost'
  BY <1>2 DEF SInv, InterruptNotLost, Asleep
<1>4. StopNotLost'
  BY DEF SInv, StopNotLost
<1> QED BY <1>1, <1>3, <1>4 DEF SInv

\* A wake with nothing consumed: TryWake and the wake of proc_make_ready().
LEMMA EventWake ==
  ASSUME IInv, SInv, NEW t \in Tasks, NEW s, NEW r, TryWakeLocked(t, s, r),
         UNCHANGED <<seq, mode, fired, pend, inflight>>
  PROVE  SInv'
<1>1. \A u \in Tasks :
        \/ park'[u] \in {"WOKEN", "IDLE"} /\ timed'[u] = FALSE
        \/ /\ Asleep(u)' => Asleep(u)
           /\ timed[u] => Asleep(u)'
           /\ timed'[u] = timed[u] /\ timer'[u] = timer[u]
  BY WakeEffect DEF Asleep, SInv, DeadlineLive
<1> QED BY <1>1, WakeEffect, EndsOnly

\* proc_park_prepare(): a pending signal the mode admits ends the wait at once.
LEMMA PrepareKeeps ==
  ASSUME IInv, SInv, NEW c \in CPUs, NEW t \in Tasks, NEW m \in Modes,
         NEW d \in BOOLEAN, Prepare(c, t, m, d)
  PROVE  SInv'
<1> DEFINE full == d /\ TimersInUse >= TimerCap
           r == PendingReason(t, m)
<1>1. /\ park[t] = "IDLE" /\ UNCHANGED <<fired, pend, inflight, state>>
      /\ seq' = [seq EXCEPT ![t] = @ + 1]
  BY DEF Prepare, envVars, schedVars
<1>2. ~timed[t]
  BY <1>1 DEF SInv, DeadlineLive, Asleep
<1>3. StopNotLost'
  BY <1>1 DEF SInv, StopNotLost
<1>4. CASE full
  <2>1. /\ mode' = [mode EXCEPT ![t] = UNINT]
        /\ park' = park /\ timed' = timed /\ timer' = timer
    BY <1>4 DEF Prepare
  <2>2. DeadlineLive'
    BY <1>1, <1>2, <2>1 DEF SInv, DeadlineLive, Asleep, IInv, ParkType
  <2>3. InterruptNotLost'
    BY <1>1, <2>1 DEF SInv, InterruptNotLost, IInv, ParkType
  <2> QED BY <1>3, <2>2, <2>3 DEF SInv
<1>5. CASE ~full
  <2>1. /\ mode' = [mode EXCEPT ![t] = m]
        /\ park' = [park EXCEPT ![t] = IF r # "NONE" THEN "WOKEN" ELSE "PREPARING"]
        /\ timed' = [timed EXCEPT ![t] = d /\ ~(r # "NONE")]
        /\ timer' = [timer EXCEPT ![t] =
                       IF d /\ ~(r # "NONE") THEN seq[t] + 1 ELSE @]
    BY <1>5 DEF Prepare
  <2>2. r = "NONE" => /\ m = INTR => "SIGNAL" \notin pend[t]
                      /\ m # UNINT => pend[t] \cap {"FATAL", "EXIT"} = {}
    BY DEF PendingReason
  <2> HIDE DEF r, full
  <2>3. DeadlineLive'
    BY <1>1, <1>2, <2>1 DEF SInv, DeadlineLive, Asleep, IInv, ParkType
  <2>4. InterruptNotLost'
    BY <1>1, <2>1, <2>2 DEF SInv, InterruptNotLost, IInv, ParkType
  <2> QED BY <1>3, <2>3, <2>4 DEF SInv
<1> QED BY <1>4, <1>5

\* proc_park_cancel(): the task ends its own wait, or finds it over.
LEMMA CancelKeeps ==
  ASSUME IInv, SInv, NEW c \in CPUs, NEW t \in Tasks, Cancel(c, t)
  PROVE  SInv'
<1>1. UNCHANGED <<seq, mode, fired, pend, inflight, state>>
  BY DEF Cancel, envVars, schedVars
<1>2. \A u \in Tasks :
        \/ park'[u] \in {"WOKEN", "IDLE"} /\ timed'[u] = FALSE
        \/ /\ Asleep(u)' => Asleep(u)
           /\ timed[u] => Asleep(u)'
           /\ timed'[u] = timed[u] /\ timer'[u] = timer[u]
  BY DEF Cancel, Asleep, SInv, DeadlineLive, IInv, ParkType
<1> QED BY <1>1, <1>2, EndsOnly

\* Committing a wait, plainly or with a donation: the token goes on waiting.
LEMMA CommitKeeps ==
  ASSUME IInv, SInv, NEW c \in CPUs, NEW t \in Tasks,
         Commit(c, t) \/ CommitDonate(c, t)
  PROVE  SInv'
<1>1. UNCHANGED <<seq, mode, timed, timer, fired, pend, inflight>>
  BY DEF Commit, CommitDonate, envVars
<1>2. IF park[t] = "PREPARING"
      THEN /\ park' = [park EXCEPT ![t] = "PARKED"]
           /\ state' = [state EXCEPT ![t] = "BLOCKED"]
      ELSE park' = park /\ state' = state
  BY DEF Commit, CommitDonate
<1>3. \A u \in Tasks : /\ Asleep(u)' <=> Asleep(u)
                       /\ state'[u] = "STOPPED" => state[u] = "STOPPED"
  BY <1>2 DEF Asleep, IInv, ParkType, SchedType
<1>4. \A u \in Tasks : /\ Asleep(u)' => Asleep(u)
                       /\ timed[u] => Asleep(u)'
                       /\ timed'[u] = timed[u] /\ timer'[u] = timer[u]
  BY <1>1, <1>3 DEF SInv, DeadlineLive
<1> QED BY <1>1, <1>3, <1>4, EndsOnly

\* proc_park_commit_donate(), second half: the target's wait ends.
LEMMA DonateWakeKeeps ==
  ASSUME IInv, SInv, NEW c \in CPUs, NEW t \in Tasks, DonateWake(c, t)
  PROVE  SInv'
<1> DEFINE u == donee[t]
<1>1. UNCHANGED <<seq, mode, fired, pend, inflight>>
  BY DEF DonateWake, envVars
<1>2. u \in Tasks
  BY DEF DonateWake, IInv, TokenPhases
<1>3. CASE CanDonate(c, u)
  <2>1. /\ park' = [park EXCEPT ![u] = "WOKEN"]
        /\ timed' = [timed EXCEPT ![u] = FALSE]
        /\ timer' = [timer EXCEPT ![u] = Cancelled(u, seq[u])]
        /\ state' = [state EXCEPT ![u] = "READY"]
    BY <1>3 DEF DonateWake
  <2> HIDE DEF u
  <2>2. \A v \in Tasks :
          \/ park'[v] \in {"WOKEN", "IDLE"} /\ timed'[v] = FALSE
          \/ /\ Asleep(v)' => Asleep(v)
             /\ timed[v] => Asleep(v)'
             /\ timed'[v] = timed[v] /\ timer'[v] = timer[v]
    BY <1>2, <2>1 DEF Asleep, SInv, DeadlineLive, IInv, ParkType
  <2>3. \A v \in Tasks : state'[v] = "STOPPED" => state[v] = "STOPPED"
    BY <2>1 DEF IInv, SchedType
  <2> QED BY <1>1, <2>2, <2>3, EndsOnly
<1>4. CASE ~CanDonate(c, u)
  <2>1. UNCHANGED <<park, reason, timed, timer, state>>
    BY <1>4 DEF DonateWake
  <2> QED BY <1>1, <2>1, Untouched DEF parkVars
<1> QED BY <1>3, <1>4

\* proc_park_finish(): a won wait is retired.
LEMMA FinishKeeps ==
  ASSUME IInv, SInv, NEW c \in CPUs, NEW t \in Tasks, Finish(c, t)
  PROVE  SInv'
<1>1. park[t] = "WOKEN"
  BY DEF Finish, IInv, TokenPhases, SchedState
<1>2. /\ park' = [park EXCEPT ![t] = "IDLE"]
      /\ mode' = [mode EXCEPT ![t] = UNINT]
      /\ timed' = [timed EXCEPT ![t] = FALSE]
      /\ timer' = [timer EXCEPT ![t] = Cancelled(t, seq[t])]
      /\ UNCHANGED <<seq, fired, pend, inflight, state>>
  BY <1>1 DEF Finish, envVars, schedVars
<1>3. DeadlineLive'
  BY <1>2 DEF SInv, DeadlineLive, Asleep, IInv, ParkType
<1>4. InterruptNotLost'
  BY <1>2 DEF SInv, InterruptNotLost, IInv, ParkType
<1>5. StopNotLost'
  BY <1>2 DEF SInv, StopNotLost
<1> QED BY <1>3, <1>4, <1>5 DEF SInv

\* proc_sched_expire_wait_timers(), under the heap lock: the entry moves from
\* the heap to the expired list.
LEMMA TimerExpireKeeps ==
  ASSUME IInv, SInv, NEW t \in Tasks, TimerExpire(t)
  PROVE  SInv'
<1>1. /\ fired' = fired \cup {<<t, timer[t]>>}
      /\ timer' = [timer EXCEPT ![t] = 0]
      /\ UNCHANGED <<park, seq, mode, timed, pend, inflight, state>>
  BY DEF TimerExpire, schedVars
<1>2. DeadlineLive'
  BY <1>1 DEF SInv, DeadlineLive, Asleep, IInv, ParkType
<1>3. InterruptNotLost' /\ StopNotLost'
  BY <1>1 DEF SInv, InterruptNotLost, StopNotLost
<1> QED BY <1>2, <1>3 DEF SInv

\* proc_sched_expire_wait_timers(), after the heap lock: the wake of the
\* current wait's own entry cannot miss.
LEMMA TimerWakeKeeps ==
  ASSUME IInv, SInv, NEW t \in Tasks, NEW s \in 1..MaxSeq, TimerWake(t, s)
  PROVE  SInv'
<1>1. /\ fired' = fired \ {<<t, s>>} /\ TryWakeLocked(t, s, "TIMEOUT")
      /\ UNCHANGED <<seq, mode, pend, inflight>>
  BY DEF TimerWake
<1>2. timed[t] /\ s = seq[t] => CanWake(t, s, "TIMEOUT")
  BY Wakeable DEF SInv, DeadlineLive, ModeAdmits
<1>3. DeadlineLive'
  <2> SUFFICES ASSUME NEW u \in Tasks, timed'[u]
               PROVE  Asleep(u)' /\ (timer'[u] = seq'[u] \/ <<u, seq'[u]>> \in fired')
    BY DEF DeadlineLive
  <2>1. CASE u = t
    <3>1. timed[t] /\ park'[t] = park[t] /\ timer'[t] = timer[t] /\ s # seq[t]
      BY <1>1, <1>2, <2>1, WakeEffect
    <3> QED BY <1>1, <2>1, <3>1 DEF SInv, DeadlineLive, Asleep
  <2>2. CASE u # t
    <3>1. timed[u] /\ park'[u] = park[u] /\ timer'[u] = timer[u]
      BY <1>1, <2>2, WakeEffect
    <3> QED BY <1>1, <2>2, <3>1 DEF SInv, DeadlineLive, Asleep
  <2> QED BY <2>1, <2>2
<1>4. \A u \in Tasks : Asleep(u)' => Asleep(u)
  BY <1>1, WakeEffect DEF Asleep
<1>5. InterruptNotLost'
  BY <1>1, <1>4 DEF SInv, InterruptNotLost, Asleep
<1>6. StopNotLost'
  BY <1>1, WakeEffect DEF SInv, StopNotLost
<1> QED BY <1>3, <1>5, <1>6 DEF SInv

\* signal_queue_task(): a published signal has its sender behind it.
LEMMA SendSignalKeeps ==
  ASSUME IInv, SInv, NEW t \in Tasks, NEW k \in Kinds, SendSignal(t, k)
  PROVE  SInv'
<1>1. /\ pend' = [pend EXCEPT ![t] = @ \cup {k}]
      /\ inflight' = inflight \cup
           {<<t, k, IF k = "SIGNAL" THEN "wake" ELSE "resume">>}
      /\ k # "EXIT"
      /\ UNCHANGED <<park, seq, mode, timed, timer, fired, state>>
  BY DEF SendSignal, schedVars, parkVars
<1>2. DeadlineLive'
  BY <1>1 DEF SInv, DeadlineLive, Asleep
<1>3. InterruptNotLost'
  BY <1>1 DEF SInv, InterruptNotLost, IInv, EnvType
<1>4. StopNotLost'
  BY <1>1 DEF SInv, StopNotLost, IInv, EnvType
<1> QED BY <1>2, <1>3, <1>4 DEF SInv

\* proc_sched_resume_stopped(): the sender goes on to the interrupt only after
\* the task has left STOPPED.
LEMMA ResumeStoppedKeeps ==
  ASSUME IInv, SInv, NEW t \in Tasks, NEW k \in Kinds, ResumeStopped(t, k)
  PROVE  SInv'
<1>1. /\ inflight' = (inflight \ {<<t, k, "resume">>}) \cup
                     (IF k = "FATAL" THEN {<<t, k, "wake">>} ELSE {})
      /\ UNCHANGED <<park, seq, mode, timed, timer, fired, pend>>
  BY DEF ResumeStopped, parkVars
<1>2. \A u \in Tasks : /\ state'[u] = "STOPPED" => state[u] = "STOPPED"
                       /\ u = t => state'[u] # "STOPPED"
  BY DEF ResumeStopped, IInv, SchedType
<1>3. DeadlineLive'
  BY <1>1 DEF SInv, DeadlineLive, Asleep
<1>4. InterruptNotLost'
  <2> SUFFICES ASSUME NEW u \in Tasks, Asleep(u)
               PROVE  /\ mode[u] = INTR /\ "SIGNAL" \in pend[u] =>
                           <<u, "SIGNAL", "wake">> \in inflight'
                      /\ mode[u] # UNINT /\ "FATAL" \in pend[u] =>
                           \E step \in {"resume", "wake"} :
                             <<u, "FATAL", step>> \in inflight'
                      /\ mode[u] # UNINT => "EXIT" \notin pend[u]
    BY <1>1 DEF InterruptNotLost, Asleep
  <2>1. /\ <<u, "SIGNAL", "wake">> \in inflight => <<u, "SIGNAL", "wake">> \in inflight'
        /\ <<u, "FATAL", "wake">> \in inflight => <<u, "FATAL", "wake">> \in inflight'
        /\ <<u, "FATAL", "resume">> \in inflight =>
             <<u, "FATAL", "resume">> \in inflight' \/ <<u, "FATAL", "wake">> \in inflight'
    BY <1>1
  <2> QED BY <2>1 DEF SInv, InterruptNotLost, Asleep
<1>5. StopNotLost'
  BY <1>1, <1>2 DEF SInv, StopNotLost
<1> QED BY <1>3, <1>4, <1>5 DEF SInv

\* proc_interrupt_wait(): the wake of a mode that admits it cannot miss.
LEMMA InterruptWaitKeeps ==
  ASSUME IInv, SInv, NEW t \in Tasks, NEW k \in Kinds \cap {"SIGNAL", "FATAL"},
         InterruptWait(t, k)
  PROVE  SInv'
<1>1. /\ inflight' = inflight \ {<<t, k, "wake">>}
      /\ TryWakeLocked(t, seq[t], k)
      /\ UNCHANGED <<seq, mode, fired, pend>>
  BY DEF InterruptWait
<1>2. DeadlineLive'
  BY <1>1, WakeEffect DEF SInv, DeadlineLive, Asleep
<1>3. \A u \in Tasks : Asleep(u)' => Asleep(u)
  BY <1>1, WakeEffect DEF Asleep
<1>4. Asleep(t)' => ~ModeAdmits(mode[t], k)
  <2> SUFFICES ASSUME Asleep(t)', ModeAdmits(mode[t], k) PROVE FALSE
    OBVIOUS
  <2>1. CanWake(t, seq[t], k)
    BY <1>3, Wakeable
  <2>2. park'[t] = "WOKEN"
    BY <1>1, <2>1, WakeEffect
  <2> QED BY <2>2 DEF Asleep
<1>5. InterruptNotLost'
  <2> SUFFICES ASSUME NEW u \in Tasks, Asleep(u)'
               PROVE  /\ mode[u] = INTR /\ "SIGNAL" \in pend[u] =>
                           <<u, "SIGNAL", "wake">> \in inflight'
                      /\ mode[u] # UNINT /\ "FATAL" \in pend[u] =>
                           \E step \in {"resume", "wake"} :
                             <<u, "FATAL", step>> \in inflight'
                      /\ mode[u] # UNINT => "EXIT" \notin pend[u]
    BY <1>1 DEF InterruptNotLost, Asleep
  <2>1. /\ mode[u] = INTR /\ "SIGNAL" \in pend[u] => <<u, "SIGNAL", "wake">> \in inflight
        /\ mode[u] # UNINT /\ "FATAL" \in pend[u] =>
             \E step \in {"resume", "wake"} : <<u, "FATAL", step>> \in inflight
        /\ mode[u] # UNINT => "EXIT" \notin pend[u]
    BY <1>3 DEF SInv, InterruptNotLost, Asleep
  <2>2. CASE u # t
    BY <1>1, <2>1, <2>2
  <2>3. CASE u = t /\ k = "SIGNAL"
    <3>1. mode[u] # INTR
      BY <1>4, <2>3 DEF ModeAdmits
    <3> QED BY <1>1, <2>1, <2>3, <3>1
  <2>4. CASE u = t /\ k = "FATAL"
    <3>1. mode[u] = UNINT
      BY <1>4, <2>4 DEF ModeAdmits
    <3> QED BY <1>1, <2>1, <2>4, <3>1 DEF UNINT, INTR
  <2> QED BY <2>2, <2>3, <2>4
<1>6. StopNotLost'
  BY <1>1, WakeEffect DEF SInv, StopNotLost
<1> QED BY <1>2, <1>5, <1>6 DEF SInv

\* proc_force_exit(): marking and waking are one critical section, and a
\* stopped task gets a resume of its own.
LEMMA ForceExitKeeps ==
  ASSUME IInv, SInv, NEW t \in Tasks, ForceExit(t)
  PROVE  SInv'
<1>1. /\ pend' = [pend EXCEPT ![t] = @ \cup {"EXIT"}]
      /\ TryWakeLocked(t, seq[t], "EXIT")
      /\ inflight \subseteq inflight'
      /\ state[t] = "STOPPED" => <<t, "EXIT", "resume">> \in inflight'
      /\ UNCHANGED <<seq, mode, fired>>
  BY DEF ForceExit
<1>2. DeadlineLive'
  BY <1>1, WakeEffect DEF SInv, DeadlineLive, Asleep
<1>3. \A u \in Tasks : Asleep(u)' => Asleep(u)
  BY <1>1, WakeEffect DEF Asleep
<1>4. Asleep(t)' => mode[t] = UNINT
  <2> SUFFICES ASSUME Asleep(t)', mode[t] # UNINT PROVE FALSE
    OBVIOUS
  <2>1. CanWake(t, seq[t], "EXIT")
    BY <1>3, Wakeable DEF ModeAdmits
  <2>2. park'[t] = "WOKEN"
    BY <1>1, <2>1, WakeEffect
  <2> QED BY <2>2 DEF Asleep
<1>5. InterruptNotLost'
  BY <1>1, <1>3, <1>4 DEF SInv, InterruptNotLost, Asleep, IInv, EnvType,
                          UNINT, INTR
<1>6. StopNotLost'
  BY <1>1, WakeEffect DEF SInv, StopNotLost, IInv, EnvType
<1> QED BY <1>2, <1>5, <1>6 DEF SInv

\* proc_make_ready(): a sleeping task is woken, another one only becomes READY.
LEMMA MakeReadyKeeps ==
  ASSUME IInv, SInv, NEW t \in Tasks, MakeReady(t)
  PROVE  SInv'
<1>1. UNCHANGED <<seq, mode, fired, pend, inflight>>
  BY DEF MakeReady
<1>2. CASE TryWakeLocked(t, seq[t], "EVENT")
  BY <1>1, <1>2, EventWake
<1>3. CASE /\ UNCHANGED <<park, reason, timed, timer>>
           /\ \/ state' = state
              \/ state' = [state EXCEPT ![t] = "READY"]
  <2>1. \A u \in Tasks : state'[u] = "STOPPED" => state[u] = "STOPPED"
    BY <1>3 DEF IInv, SchedType
  <2> QED BY <1>1, <1>3, <2>1, Untouched DEF parkVars
<1> QED BY <1>2, <1>3 DEF MakeReady, schedVars

\* proc_sched_stop_current(): no task stops over a pending resume.
LEMMA StopCurrentKeeps ==
  ASSUME IInv, SInv, NEW c \in CPUs, NEW t \in Tasks, StopCurrent(c, t)
  PROVE  SInv'
<1>1. /\ state' = [state EXCEPT ![t] = "STOPPED"]
      /\ pend[t] \cap {"EXIT", "FATAL", "CONT"} = {}
      /\ UNCHANGED <<park, seq, mode, timed, timer, fired, pend, inflight>>
  BY DEF StopCurrent, parkVars, envVars
<1>2. DeadlineLive' /\ InterruptNotLost'
  BY <1>1 DEF SInv, DeadlineLive, Asleep, InterruptNotLost
<1>3. StopNotLost'
  BY <1>1 DEF SInv, StopNotLost, IInv, SchedType
<1> QED BY <1>2, <1>3 DEF SInv

\* signal_deliver(): consuming signals leaves nobody waiting for a sender.
LEMMA DeliverSignalsKeeps ==
  ASSUME IInv, SInv, NEW c \in CPUs, NEW t \in Tasks, DeliverSignals(c, t)
  PROVE  SInv'
<1>1. /\ pend' = [pend EXCEPT ![t] = {}]
      /\ UNCHANGED <<park, seq, mode, timed, timer, fired, inflight, state>>
  BY DEF DeliverSignals, parkVars, schedVars
<1>2. \A u \in Tasks : pend'[u] \subseteq pend[u]
  BY <1>1 DEF IInv, EnvType
<1>3. DeadlineLive'
  BY <1>1 DEF SInv, DeadlineLive, Asleep
<1>4. InterruptNotLost' /\ StopNotLost'
  BY <1>1, <1>2 DEF SInv, InterruptNotLost, StopNotLost
<1> QED BY <1>3, <1>4 DEF SInv

\* A yield or an exit of the running task stops nobody.
LEMMA LeaveKeeps ==
  ASSUME IInv, SInv, NEW c \in CPUs, NEW t \in Tasks, Yield(c, t) \/ Exit(c, t)
  PROVE  SInv'
<1>1. UNCHANGED <<parkVars, fired, pend, inflight>>
  BY DEF Yield, Exit, envVars
<1>2. \A u \in Tasks : state'[u] = "STOPPED" => state[u] = "STOPPED"
  BY DEF Yield, Exit, IInv, SchedType
<1> QED BY <1>1, <1>2, Untouched

\* No step of sched() or of a switch touches a wait, or stops a task.
LEMMA CpuKeeps ==
  ASSUME IInv, SInv, NEW c \in CPUs, CpuStep(c)
  PROVE  SInv'
<1>1. UNCHANGED <<parkVars, fired, pend, inflight>>
  BY DEF CpuStep, DropThrottled, PickTask, PickNothing, Charge, Unthrottle,
         Dispatch, GiveBack, KeepCurrent, FallToIdle, FinishPending, SetCurrent,
         PublishNext, Switch, SwitchComplete, PreemptInSwitch, envVars
<1>2. \A u \in Tasks : state'[u] = "STOPPED" => state[u] = "STOPPED"
  BY DEF CpuStep, DropThrottled, PickTask, PickNothing, Charge, Unthrottle,
         Dispatch, GiveBack, KeepCurrent, FallToIdle, FinishPending, SetCurrent,
         PublishNext, Switch, SwitchComplete, PreemptInSwitch, schedVars,
         IInv, SchedType
<1> QED BY <1>1, <1>2, Untouched

-----------------------------------------------------------------------------
(* The theorems.                                                           *)

\* Every step of the scheduler keeps SInv.
LEMMA SNext ==
  ASSUME IInv, SInv, [Next]_vars
  PROVE  SInv'
<1>1. ASSUME NEW c \in CPUs, NEW t \in Tasks, TaskStep(c, t)
      PROVE  SInv'
  <2>1. ASSUME NEW u \in Tasks, DonatePeek(c, t, u)
        PROVE  SInv'
    BY <2>1, Untouched DEF DonatePeek, schedVars, envVars
  <2> QED BY <1>1, <2>1, PrepareKeeps, CancelKeeps, CommitKeeps,
             DonateWakeKeeps, FinishKeeps, LeaveKeeps, StopCurrentKeeps,
             DeliverSignalsKeeps DEF TaskStep
<1>2. ASSUME NEW t \in Tasks, OtherStep(t)
      PROVE  SInv'
  <2>1. ASSUME NEW s \in 1..MaxSeq, TryWake(t, s)
        PROVE  SInv'
    BY <2>1, EventWake DEF TryWake, envVars
  <2>2. ASSUME Reap(t)
        PROVE  SInv'
    <3>1. \A u \in Tasks : state'[u] = "STOPPED" => state[u] = "STOPPED"
      BY <2>2 DEF Reap, IInv, SchedType
    <3> QED BY <2>2, <3>1, Untouched DEF Reap, envVars
  <2> QED BY <1>2, <2>1, <2>2, TimerExpireKeeps, TimerWakeKeeps,
             SendSignalKeeps, ResumeStoppedKeeps, InterruptWaitKeeps,
             ForceExitKeeps, MakeReadyKeeps DEF OtherStep
<1>3. ASSUME NEW c \in CPUs, CpuStep(c)
      PROVE  SInv'
  BY <1>3, CpuKeeps
<1>4. CASE UNCHANGED vars
  BY <1>4, Untouched DEF vars, schedVars, envVars
<1> QED BY <1>1, <1>2, <1>3, <1>4 DEF Next

\* The three invariants together hold throughout.
THEOREM SignalInvariance == ASSUME SwitchWindowSafe PROVE Spec => []SInv
<1>1. Init => SInv
  BY DEF Init, SInv, DeadlineLive, InterruptNotLost, StopNotLost
<1>2. IInv /\ SInv /\ [Next]_vars => SInv'
  BY SNext
<1> QED BY <1>1, <1>2, Invariance, PTL DEF Spec

\* A wait with a deadline is always going to time out: its entry is in the heap
\* or proc_sched_expire_wait_timers() still holds it.
THEOREM DeadlinesCovered ==
  ASSUME SwitchWindowSafe PROVE Spec => []DeadlineCovered
<1>1. SInv => DeadlineCovered
  BY DEF SInv, DeadlineLive, DeadlineCovered
<1> QED BY <1>1, SignalInvariance, PTL

\* A signal, a fatal signal or proc_force_exit() never leaves a task asleep in a
\* wait that admits it with no wake under way.
THEOREM InterruptsArrive ==
  ASSUME SwitchWindowSafe PROVE Spec => []InterruptNotLost
<1>1. SInv => InterruptNotLost
  BY DEF SInv
<1> QED BY <1>1, SignalInvariance, PTL

\* No task stays STOPPED over a SIGCONT, a fatal signal or an exit whose sender
\* has already passed proc_sched_resume_stopped().
THEOREM StopsEnd ==
  ASSUME SwitchWindowSafe PROVE Spec => []StopNotLost
<1>1. SInv => StopNotLost
  BY DEF SInv
<1> QED BY <1>1, SignalInvariance, PTL

\* One step of the scheduler never gives a zombie a state to run in: wakes find
\* no live token, proc_make_ready() and the resume decline, and no queue, pick
\* or CPU slot that could publish it names it.
LEMMA ZombieStep ==
  ASSUME IInv, [Next]_vars, NEW z \in Tasks, state[z] = "ZOMBIE"
  PROVE  state'[z] \in {"ZOMBIE", "UNUSED"}
<1>1. /\ park[z] = "IDLE" /\ pc[z] = "user" /\ ~onrq[z] /\ ~disp[z]
      /\ \A c \in CPUs : pick[c] # z
  BY DEF IInv, TokenPhases, SchedState, CpuSlots, SchedType
<1>2. ASSUME NEW t \in Tasks, NEW s, NEW r, TryWakeLocked(t, s, r)
      PROVE  state'[z] = state[z]
  <2>1. CASE t # z
    BY <1>2, <2>1 DEF TryWakeLocked, IInv, SchedType
  <2>2. CASE t = z
    BY <1>1, <1>2, <2>2 DEF TryWakeLocked, CanWake
  <2> QED BY <2>1, <2>2
<1>3. ASSUME NEW c \in CPUs, NEW t \in Tasks, TaskStep(c, t)
      PROVE  state'[z] \in {"ZOMBIE", "UNUSED"}
  <2>1. CASE DonateWake(c, t)
    <3>1. state' = state \/ state' = [state EXCEPT ![donee[t]] = "READY"]
      BY <2>1 DEF DonateWake
    <3>2. state' # state => donee[t] # z
      BY <1>1, <2>1 DEF DonateWake, CanDonate
    <3> QED BY <3>1, <3>2 DEF IInv, SchedType
  <2>2. CASE ~DonateWake(c, t)
    BY <1>1, <1>3, <2>2
       DEF TaskStep, Prepare, Cancel, Commit, DonatePeek, CommitDonate, Finish,
           Yield, StopCurrent, DeliverSignals, Exit, schedVars, IInv, SchedType
  <2> QED BY <2>1, <2>2
<1>4. ASSUME NEW t \in Tasks, OtherStep(t)
      PROVE  state'[z] \in {"ZOMBIE", "UNUSED"}
  <2>1. CASE \E k \in Kinds : ResumeStopped(t, k)
    BY <2>1 DEF ResumeStopped, IInv, SchedType
  <2>2. CASE MakeReady(t)
    BY <1>2, <2>2 DEF MakeReady, schedVars, IInv, SchedType
  <2>3. CASE TimerExpire(t) \/ (\E k \in Kinds : SendSignal(t, k)) \/ Reap(t)
    BY <2>3 DEF TimerExpire, SendSignal, Reap, schedVars, IInv, SchedType
  <2>4. CASE \/ \E s \in 1..MaxSeq : TryWake(t, s) \/ TimerWake(t, s)
             \/ \E k \in Kinds : InterruptWait(t, k)
             \/ ForceExit(t)
    BY <1>2, <2>4 DEF TryWake, TimerWake, InterruptWait, ForceExit
  <2> QED BY <1>4, <2>1, <2>2, <2>3, <2>4 DEF OtherStep
<1>5. ASSUME NEW c \in CPUs, CpuStep(c)
      PROVE  state'[z] \in {"ZOMBIE", "UNUSED"}
  BY <1>1, <1>5
     DEF CpuStep, DropThrottled, PickTask, PickNothing, Charge, Unthrottle,
         Dispatch, GiveBack, Keepable, KeepCurrent, FallToIdle, FinishPending,
         SetCurrent, PublishNext, Switch, SwitchComplete, PreemptInSwitch,
         schedVars, IInv, SchedType
<1>6. CASE UNCHANGED vars
  BY <1>6 DEF vars, schedVars
<1> QED BY <1>3, <1>4, <1>5, <1>6 DEF Next

\* proc_exit() never returns: a zombie is only ever reaped.
THEOREM ZombiesStay == ASSUME SwitchWindowSafe PROVE Spec => ZombieStays
<1>1. IInv /\ [Next]_vars =>
        [\A t \in Tasks : state[t] = "ZOMBIE" => state'[t] \in {"ZOMBIE", "UNUSED"}]_vars
  BY ZombieStep
<1> QED BY <1>1, Invariance, PTL DEF Spec, ZombieStays
=============================================================================
