----------------------------- MODULE ParkProofs -----------------------------
(***************************************************************************)
(* The scheduler implements the wait its callers were promised: Spec       *)
(* implies ParkAbs!Spec under the mapping Wait of Sched, for every set of  *)
(* tasks and CPUs, every bound and every configuration (the donation       *)
(* window included: it never touches a token).                             *)
(*                                                                         *)
(* The refinement needs one fact the tokens alone do not give: that an     *)
(* expired heap entry which still names the current sequence belongs to a  *)
(* wait that has a deadline and no other entry (TimerInv).                 *)
(***************************************************************************)
EXTENDS Sched, TLAPS

Waiting(t) == park[t] \in {"PREPARING", "PARKED"}

\* The heap and the expired list against the waits they were made for.
TimerInv ==
  \A t \in Tasks :
    /\ timer[t] # 0 => timer[t] = seq[t] /\ timed[t]
    /\ timed[t] => Waiting(t) /\ seq[t] # 0
    /\ \A s \in 1..MaxSeq : <<t, s>> \in fired =>
         /\ s <= seq[t] /\ timer[t] # s
         /\ s = seq[t] /\ Waiting(t) => timed[t]

\* A task without a wait keeps nothing of its last one.
IdleClean ==
  \A t \in Tasks : park[t] = "IDLE" => reason[t] = "NONE" /\ mode[t] = UNINT

FiredType == fired \subseteq Tasks \X (1..MaxSeq)

PInv == ParkType /\ FiredType /\ TimerInv /\ IdleClean

pvars == <<parkVars, fired>>

\* The deadline of the wait of t, as Wait maps it.
Due(t) == IF ~timed[t] THEN "NONE"
          ELSE IF timer[t] = seq[t] THEN "AHEAD" ELSE "PASSED"

-----------------------------------------------------------------------------
(* One lemma per kind of step: it keeps PInv and is a step of ParkAbs.     *)

\* A step that touches neither tokens nor timers keeps PInv and the wait.
LEMMA Quiet ==
  ASSUME PInv, UNCHANGED pvars
  PROVE  PInv' /\ UNCHANGED Wait!vars
<1>1. UNCHANGED <<park, seq, mode, reason, timed, timer, fired>>
  BY DEF pvars, parkVars
<1>2. PInv'
  BY <1>1 DEF PInv, ParkType, FiredType, TimerInv, IdleClean, Waiting
<1>3. UNCHANGED Wait!vars
  BY <1>1 DEF Wait!vars
<1> QED BY <1>2, <1>3

\* proc_try_wake_locked_common(): the one place where a wait ends from outside.
LEMMA WakeEnds ==
  ASSUME PInv, NEW t \in Tasks, NEW s \in 0..MaxSeq, NEW r \in Wait!Reasons,
         TryWakeLocked(t, s, r), UNCHANGED <<seq, mode>>, r # "CANCEL",
         \/ r # "TIMEOUT" /\ fired' = fired
         \/ r = "TIMEOUT" /\ <<t, s>> \in fired /\ fired' = fired \ {<<t, s>>}
  PROVE  PInv' /\ [Wait!Next]_(Wait!vars)
<1>1. CASE CanWake(t, s, r)
  <2>1. /\ park' = [park EXCEPT ![t] = "WOKEN"]
        /\ reason' = [reason EXCEPT ![t] = r]
        /\ timed' = [timed EXCEPT ![t] = FALSE]
        /\ timer' = [timer EXCEPT ![t] = Cancelled(t, s)]
        /\ seq' = seq /\ mode' = mode
    BY <1>1 DEF TryWakeLocked
  <2>2. s = seq[t] /\ s \in 1..MaxSeq /\ Waiting(t) /\ ModeAdmits(mode[t], r)
    BY <1>1, ConstAssumption DEF CanWake, Waiting
  <2>3. Cancelled(t, s) = 0
    BY <2>2 DEF Cancelled, PInv, TimerInv
  <2>4. ParkType'
    BY <2>1, <2>3, ConstAssumption
       DEF PInv, ParkType, Reasons, Wait!Reasons
  <2>5. FiredType' /\ fired' \subseteq fired
    BY DEF PInv, FiredType
  <2>6. TimerInv'
    <3> SUFFICES ASSUME NEW u \in Tasks
                 PROVE  /\ timer'[u] # 0 => timer'[u] = seq'[u] /\ timed'[u]
                        /\ timed'[u] => Waiting(u)' /\ seq'[u] # 0
                        /\ \A v \in 1..MaxSeq : <<u, v>> \in fired' =>
                             /\ v <= seq'[u] /\ timer'[u] # v
                             /\ v = seq'[u] /\ Waiting(u)' => timed'[u]
      BY DEF TimerInv
    <3>1. CASE u = t
      <4>1. timer'[u] = 0 /\ timed'[u] = FALSE /\ park'[u] = "WOKEN"
        BY <2>1, <2>3, <3>1 DEF PInv, ParkType
      <4>2. ~Waiting(u)'
        BY <4>1 DEF Waiting
      <4>3. \A v \in 1..MaxSeq : <<u, v>> \in fired' => v <= seq'[u]
        BY <2>1, <2>5 DEF PInv, TimerInv
      <4> QED BY <4>1, <4>2, <4>3
    <3>2. CASE u # t
      <4>1. /\ timer'[u] = timer[u] /\ timed'[u] = timed[u]
            /\ seq'[u] = seq[u] /\ park'[u] = park[u]
        BY <2>1, <3>2 DEF PInv, ParkType
      <4>2. \A v : <<u, v>> \in fired' <=> <<u, v>> \in fired
        BY <3>2
      <4> QED BY <4>1, <4>2 DEF PInv, TimerInv, Waiting
    <3> QED BY <3>1, <3>2
  <2>7. IdleClean'
    BY <2>1 DEF PInv, ParkType, IdleClean
  <2>8. Wait!End(t, r)
    <3>1. Wait!MayEnd(t, r)
      <4>1. CASE r = "TIMEOUT"
        <5>1. timed[t] /\ timer[t] # seq[t]
          BY <2>2, <4>1 DEF PInv, TimerInv
        <5> QED BY <4>1, <5>1 DEF Wait!MayEnd
      <4>2. CASE r # "TIMEOUT"
        BY <2>2, <4>2
           DEF Wait!MayEnd, Wait!Reasons, ModeAdmits, UNINT, INTR, PInv, ParkType
      <4> QED BY <4>1, <4>2
    <3>2. [u \in Tasks |-> Due(u)]' = [[u \in Tasks |-> Due(u)] EXCEPT ![t] = "NONE"]
      BY <2>1 DEF Due, PInv, ParkType
    <3> QED BY <2>1, <2>2, <3>1, <3>2 DEF Wait!End, Waiting, Due
  <2> QED BY <2>4, <2>5, <2>6, <2>7, <2>8 DEF PInv, Wait!Next
<1>2. CASE ~CanWake(t, s, r)
  <2>1. UNCHANGED <<park, reason, timed, timer, seq, mode>>
    BY <1>2 DEF TryWakeLocked
  <2>2. UNCHANGED Wait!vars
    BY <2>1 DEF Wait!vars
  <2>3. ParkType' /\ FiredType' /\ IdleClean'
    BY <2>1 DEF PInv, ParkType, FiredType, IdleClean
  <2>4. TimerInv'
    BY <2>1 DEF PInv, TimerInv, Waiting
  <2> QED BY <2>2, <2>3, <2>4 DEF PInv
<1> QED BY <1>1, <1>2

\* proc_park_prepare(): a wait begins, is over at once, or is refused.
LEMMA PrepareBegins ==
  ASSUME PInv, NEW c \in CPUs, NEW t \in Tasks, NEW m \in Modes,
         NEW d \in BOOLEAN, Prepare(c, t, m, d)
  PROVE  PInv' /\ [Wait!Next]_(Wait!vars)
<1> DEFINE full == d /\ TimersInUse >= TimerCap
           r == PendingReason(t, m)
<1>1. /\ park[t] = "IDLE" /\ seq[t] < MaxSeq /\ fired' = fired
      /\ seq' = [seq EXCEPT ![t] = @ + 1]
  BY DEF Prepare, envVars
<1>2. /\ ~timed[t] /\ timer[t] = 0 /\ reason[t] = "NONE" /\ mode[t] = UNINT
      /\ seq[t] + 1 \in 1..MaxSeq
  BY <1>1, ConstAssumption DEF PInv, ParkType, TimerInv, IdleClean, Waiting
<1>3. m \in Wait!WaitModes
  BY ConstAssumption DEF Wait!WaitModes, UNINT, KILL, INTR
<1>4. CASE full
  <2>1. /\ mode' = [mode EXCEPT ![t] = UNINT]
        /\ reason' = [reason EXCEPT ![t] = "NONE"]
        /\ park' = park /\ timed' = timed /\ timer' = timer
    BY <1>4 DEF Prepare
  <2>2. mode' = mode /\ reason' = reason
    BY <1>2, <2>1 DEF PInv, ParkType
  <2>3. PInv'
    BY <1>1, <1>2, <2>1, <2>2
       DEF PInv, ParkType, FiredType, TimerInv, IdleClean, Waiting
  <2>4. [u \in Tasks |-> Due(u)]' = [u \in Tasks |-> Due(u)]
    BY <1>1, <1>2, <2>1 DEF Due, PInv, ParkType
  <2>5. Wait!Refuse(t)
    BY <1>1, <2>1, <2>2, <2>4 DEF Wait!Refuse, Due
  <2> QED BY <2>3, <2>5 DEF Wait!Next
<1>5. CASE ~full
  <2>1. /\ mode' = [mode EXCEPT ![t] = m]
        /\ park' = [park EXCEPT ![t] = IF r # "NONE" THEN "WOKEN" ELSE "PREPARING"]
        /\ reason' = [reason EXCEPT ![t] = r]
        /\ timed' = [timed EXCEPT ![t] = d /\ ~(r # "NONE")]
        /\ timer' = [timer EXCEPT ![t] =
                       IF d /\ ~(r # "NONE") THEN seq[t] + 1 ELSE @]
    BY <1>5 DEF Prepare
  <2>2. /\ r \in Reasons
        /\ r # "NONE" => \/ r = "SIGNAL" /\ m = INTR
                         \/ r \in {"FATAL", "EXIT"} /\ m # UNINT
    BY DEF PendingReason, Reasons
  <2> HIDE DEF r, full
  <2>3. ParkType'
    BY <1>1, <1>2, <2>1, <2>2, ConstAssumption DEF PInv, ParkType
  <2>4. FiredType' /\ IdleClean'
    BY <1>1, <2>1 DEF PInv, ParkType, FiredType, IdleClean
  <2>5. TimerInv'
    <3> SUFFICES ASSUME NEW u \in Tasks
                 PROVE  /\ timer'[u] # 0 => timer'[u] = seq'[u] /\ timed'[u]
                        /\ timed'[u] => Waiting(u)' /\ seq'[u] # 0
                        /\ \A v \in 1..MaxSeq : <<u, v>> \in fired' =>
                             /\ v <= seq'[u] /\ timer'[u] # v
                             /\ v = seq'[u] /\ Waiting(u)' => timed'[u]
      BY DEF TimerInv
    <3>1. CASE u = t
      BY <1>1, <1>2, <2>1, <3>1 DEF PInv, ParkType, TimerInv, Waiting
    <3>2. CASE u # t
      BY <1>1, <2>1, <3>2 DEF PInv, ParkType, TimerInv, Waiting
    <3> QED BY <3>1, <3>2
  <2>6. CASE r = "NONE"
    <3>1. [u \in Tasks |-> Due(u)]' =
            [[u \in Tasks |-> Due(u)] EXCEPT ![t] = IF d THEN "AHEAD" ELSE "NONE"]
      BY <1>1, <1>2, <2>1, <2>6 DEF Due, PInv, ParkType
    <3>2. reason' = reason
      BY <1>2, <2>1, <2>6 DEF PInv, ParkType
    <3>3. Wait!Begin(t, m, d)
      BY <1>1, <2>1, <2>6, <3>1, <3>2 DEF Wait!Begin, Due
    <3> QED BY <1>3, <2>3, <2>4, <2>5, <3>3 DEF PInv, Wait!Next
  <2>7. CASE r # "NONE"
    <3>1. [u \in Tasks |-> Due(u)]' = [u \in Tasks |-> Due(u)]
      BY <1>1, <1>2, <2>1, <2>7 DEF Due, PInv, ParkType
    <3>2. Wait!BeginOver(t, m, r) /\ r \in Wait!Reasons
      BY <1>1, <2>1, <2>2, <2>7, <3>1
         DEF Wait!BeginOver, Wait!Reasons, Due, UNINT, INTR
    <3> QED BY <1>3, <2>3, <2>4, <2>5, <3>2 DEF PInv, Wait!Next
  <2> QED BY <2>6, <2>7
<1> QED BY <1>4, <1>5

\* proc_park_cancel(): the task ends its own wait before it sleeps.
LEMMA CancelEnds ==
  ASSUME PInv, NEW c \in CPUs, NEW t \in Tasks, Cancel(c, t)
  PROVE  PInv' /\ [Wait!Next]_(Wait!vars)
<1>1. fired' = fired /\ seq' = seq /\ mode' = mode
  BY DEF Cancel, envVars
<1>2. CASE park[t] = "PREPARING"
  <2>1. /\ park' = [park EXCEPT ![t] = "WOKEN"]
        /\ reason' = [reason EXCEPT ![t] = "CANCEL"]
        /\ timed' = [timed EXCEPT ![t] = FALSE]
        /\ timer' = [timer EXCEPT ![t] = 0]
    BY <1>2 DEF Cancel, Cancelled, PInv, ParkType, TimerInv
  <2>2. PInv'
    BY <1>1, <2>1, ConstAssumption
       DEF PInv, ParkType, FiredType, TimerInv, IdleClean, Waiting, Reasons
  <2>3. [u \in Tasks |-> Due(u)]' = [[u \in Tasks |-> Due(u)] EXCEPT ![t] = "NONE"]
    BY <1>1, <2>1 DEF Due, PInv, ParkType
  <2>4. Wait!End(t, "CANCEL")
    BY <1>1, <1>2, <2>1, <2>3 DEF Wait!End, Wait!MayEnd, Due
  <2> QED BY <2>2, <2>4 DEF Wait!Next, Wait!Reasons
<1>3. CASE park[t] # "PREPARING"
  BY <1>1, <1>3, Quiet DEF Cancel, pvars, parkVars
<1> QED BY <1>2, <1>3

\* Committing a wait, plainly or with a donation: the task sleeps, or finds its
\* wait over.
LEMMA CommitSleeps ==
  ASSUME PInv, NEW t \in Tasks,
         UNCHANGED <<seq, mode, reason, timed, timer, fired>>,
         IF park[t] = "PREPARING" THEN park' = [park EXCEPT ![t] = "PARKED"]
                                  ELSE park' = park
  PROVE  PInv' /\ [Wait!Next]_(Wait!vars)
<1>1. CASE park[t] = "PREPARING"
  <2>1. park' = [park EXCEPT ![t] = "PARKED"]
    BY <1>1
  <2>2. PInv'
    BY <1>1, <2>1 DEF PInv, ParkType, FiredType, TimerInv, IdleClean, Waiting
  <2>3. Wait!Sleep(t)
    BY <1>1, <2>1 DEF Wait!Sleep
  <2> QED BY <2>2, <2>3 DEF Wait!Next
<1>2. CASE park[t] # "PREPARING"
  BY <1>2, Quiet DEF pvars, parkVars
<1> QED BY <1>1, <1>2

\* proc_park_commit_donate(), second half: an event for whatever wait the
\* target is in.
LEMMA DonateWakeEnds ==
  ASSUME PInv, NEW c \in CPUs, NEW t \in Tasks, DonateWake(c, t),
         donee[t] \in Tasks
  PROVE  PInv' /\ [Wait!Next]_(Wait!vars)
<1> DEFINE u == donee[t]
<1>1. fired' = fired /\ seq' = seq /\ mode' = mode
  BY DEF DonateWake, envVars
<1>2. CASE CanDonate(c, u)
  <2>1. /\ park' = [park EXCEPT ![u] = "WOKEN"]
        /\ reason' = [reason EXCEPT ![u] = "EVENT"]
        /\ timed' = [timed EXCEPT ![u] = FALSE]
        /\ timer' = [timer EXCEPT ![u] = 0]
    BY <1>2 DEF DonateWake, Cancelled, PInv, ParkType, TimerInv
  <2> HIDE DEF u
  <2>2. u \in Tasks /\ park[u] = "PARKED"
    BY <1>2 DEF CanDonate, u
  <2>3. PInv'
    BY <1>1, <2>1, <2>2, ConstAssumption
       DEF PInv, ParkType, FiredType, TimerInv, IdleClean, Waiting, Reasons
  <2>4. [v \in Tasks |-> Due(v)]' = [[v \in Tasks |-> Due(v)] EXCEPT ![u] = "NONE"]
    BY <1>1, <2>1, <2>2 DEF Due, PInv, ParkType
  <2>5. Wait!End(u, "EVENT")
    BY <1>1, <2>1, <2>2, <2>4 DEF Wait!End, Wait!MayEnd, Due
  <2> QED BY <2>2, <2>3, <2>5 DEF Wait!Next, Wait!Reasons
<1>3. CASE ~CanDonate(c, u)
  BY <1>1, <1>3, Quiet DEF DonateWake, pvars, parkVars
<1> QED BY <1>2, <1>3

\* proc_park_finish(): the task retires its wait.
LEMMA FinishRetires ==
  ASSUME PInv, NEW c \in CPUs, NEW t \in Tasks, Finish(c, t)
  PROVE  PInv' /\ [Wait!Next]_(Wait!vars)
<1>1. fired' = fired /\ seq' = seq
  BY DEF Finish, envVars
<1>2. CASE park[t] = "WOKEN"
  <2>1. /\ park' = [park EXCEPT ![t] = "IDLE"]
        /\ reason' = [reason EXCEPT ![t] = "NONE"]
        /\ mode' = [mode EXCEPT ![t] = UNINT]
        /\ timed' = [timed EXCEPT ![t] = FALSE]
        /\ timer' = [timer EXCEPT ![t] = Cancelled(t, seq[t])]
    BY <1>2 DEF Finish
  <2>2. ~timed[t] /\ timer[t] = 0
    BY <1>2 DEF PInv, TimerInv, Waiting
  <2>3. timer' = timer
    BY <2>1, <2>2 DEF Cancelled, PInv, ParkType
  <2>4. timed' = timed
    <3>1. timed \in [Tasks -> BOOLEAN]
      BY DEF PInv, ParkType
    <3>2. timed[t] = FALSE
      BY <2>2, <3>1
    <3> QED BY <2>1, <3>1, <3>2
  <2>5. PInv'
    BY <1>1, <1>2, <2>1, <2>2, <2>3, <2>4
       DEF PInv, ParkType, FiredType, TimerInv, IdleClean, Waiting, Reasons
  <2>6. Wait!Retire(t)
    BY <1>1, <1>2, <2>1, <2>3, <2>4 DEF Wait!Retire, UNINT
  <2> QED BY <2>5, <2>6 DEF Wait!Next
<1>3. CASE park[t] # "WOKEN"
  BY <1>1, <1>3, Quiet DEF Finish, pvars, parkVars
<1> QED BY <1>2, <1>3

\* proc_sched_expire_wait_timers(): the deadline of the wait has passed.
LEMMA ExpirePasses ==
  ASSUME PInv, NEW t \in Tasks, TimerExpire(t)
  PROVE  PInv' /\ [Wait!Next]_(Wait!vars)
<1>1. /\ timer[t] # 0 /\ timer[t] = seq[t] /\ timed[t]
      /\ fired' = fired \cup {<<t, timer[t]>>}
      /\ timer' = [timer EXCEPT ![t] = 0]
      /\ UNCHANGED <<park, seq, mode, reason, timed>>
  BY DEF TimerExpire, PInv, TimerInv
<1>2. timer[t] \in 1..MaxSeq
  BY <1>1, ConstAssumption DEF PInv, ParkType
<1>3. ParkType' /\ FiredType' /\ IdleClean'
  BY <1>1, <1>2, ConstAssumption DEF PInv, ParkType, FiredType, IdleClean
<1>4. TimerInv'
  BY <1>1, <1>2 DEF PInv, ParkType, TimerInv, Waiting
<1>5. [u \in Tasks |-> Due(u)]' = [[u \in Tasks |-> Due(u)] EXCEPT ![t] = "PASSED"]
  BY <1>1, <1>2 DEF Due, PInv, ParkType
<1>6. Wait!DeadlinePasses(t)
  BY <1>1, <1>5 DEF Wait!DeadlinePasses, Due
<1> QED BY <1>3, <1>4, <1>6 DEF PInv, Wait!Next
-----------------------------------------------------------------------------
\* A donating receive that has peeked a receiver names a task.
DoneeInv ==
  /\ pc \in [Tasks -> PCs] /\ DOMAIN donee = Tasks
  /\ donee = [t \in Tasks |-> donee[t]]
  /\ \A t \in Tasks : pc[t] \in {"peeked", "donate"} => donee[t] \in Tasks

\* Only the donating receive itself gets into the states that use the target.
LEMMA DoneeStep ==
  ASSUME DoneeInv, [Next]_vars
  PROVE  DoneeInv'
<1>1. ASSUME NEW c \in CPUs, NEW t \in Tasks, TaskStep(c, t)
      PROVE  DoneeInv'
  <2>1. CASE \E m \in Modes, d \in BOOLEAN : Prepare(c, t, m, d)
    <3> PICK m \in Modes, d \in BOOLEAN : Prepare(c, t, m, d)
      BY <2>1
    <3>1. donee' = donee /\ (pc' = pc \/ pc' = [pc EXCEPT ![t] = "token"])
      BY DEF Prepare
    <3> QED BY <3>1 DEF DoneeInv, PCs
  <2>2. CASE Cancel(c, t) \/ Commit(c, t) \/ Finish(c, t) \/ Yield(c, t)
    <3>1. /\ donee' = donee
          /\ \/ pc' = [pc EXCEPT ![t] = "finish"]
             \/ pc' = [pc EXCEPT ![t] = "user"]
             \/ pc' = [pc EXCEPT ![t] = IF @ = "donated" THEN "finish" ELSE @]
      BY <2>2 DEF Cancel, Commit, Finish, Yield
    <3> QED BY <3>1 DEF DoneeInv, PCs
  <2>3. CASE \E u \in Tasks : DonatePeek(c, t, u)
    BY <2>3 DEF DonatePeek, DoneeInv, PCs
  <2>4. CASE CommitDonate(c, t)
    <3>1. CASE pc' = [pc EXCEPT ![t] = "donate"] /\ donee' = donee
      BY <2>4, <3>1 DEF CommitDonate, DoneeInv, PCs
    <3>2. CASE /\ pc' = [pc EXCEPT ![t] = "finish"]
               /\ donee' = [donee EXCEPT ![t] = None]
      BY <3>2 DEF DoneeInv, PCs
    <3> QED BY <2>4, <3>1, <3>2 DEF CommitDonate
  <2>5. CASE DonateWake(c, t)
    <3>1. /\ donee' = [donee EXCEPT ![t] = None]
          /\ \/ pc' = [pc EXCEPT ![t] = "donated"]
             \/ pc' = [pc EXCEPT ![t] = "finish"]
      BY <2>5 DEF DonateWake
    <3> QED BY <3>1 DEF DoneeInv, PCs
  <2>6. CASE StopCurrent(c, t) \/ DeliverSignals(c, t) \/ Exit(c, t)
    BY <2>6 DEF StopCurrent, DeliverSignals, Exit, DoneeInv
  <2> QED BY <1>1, <2>1, <2>2, <2>3, <2>4, <2>5, <2>6 DEF TaskStep
<1>2. ASSUME NEW t \in Tasks, OtherStep(t)
      PROVE  DoneeInv'
  <2>1. UNCHANGED <<pc, donee>>
    BY <1>2 DEF OtherStep, TryWake, TimerExpire, TimerWake, SendSignal,
                ResumeStopped, InterruptWait, ForceExit, MakeReady, Reap
  <2> QED BY <2>1 DEF DoneeInv
<1>3. ASSUME NEW c \in CPUs, CpuStep(c)
      PROVE  DoneeInv'
  <2>1. CASE KeepCurrent(c) \/ PreemptInSwitch(c)
    <3>1. /\ donee' = donee
          /\ \/ pc' = pc
             \/ pc' = [pc EXCEPT ![stack[c]] = "donated"]
             \/ pc' = [pc EXCEPT ![stack[c]] = "finish"]
      BY <2>1 DEF KeepCurrent, PreemptInSwitch
    <3> QED BY <3>1 DEF DoneeInv, PCs
  <2>2. CASE ~(KeepCurrent(c) \/ PreemptInSwitch(c))
    <3>1. UNCHANGED <<pc, donee>>
      BY <1>3, <2>2 DEF CpuStep, DropThrottled, PickTask, PickNothing, Charge,
           Unthrottle, Dispatch, GiveBack, FallToIdle, FinishPending,
           SetCurrent, PublishNext, Switch, SwitchComplete
    <3> QED BY <3>1 DEF DoneeInv
  <2> QED BY <2>1, <2>2
<1>4. CASE UNCHANGED vars
  BY <1>4 DEF DoneeInv, vars
<1> QED BY <1>1, <1>2, <1>3, <1>4 DEF Next

\* Every step of the scheduler keeps PInv and is a step of the abstract wait,
\* or leaves it as it is.
LEMMA StepImplements ==
  ASSUME PInv, DoneeInv, [Next]_vars
  PROVE  PInv' /\ [Wait!Next]_(Wait!vars)
<1>1. ASSUME NEW c \in CPUs, NEW t \in Tasks, TaskStep(c, t)
      PROVE  PInv' /\ [Wait!Next]_(Wait!vars)
  <2>1. CASE \E m \in Modes, d \in BOOLEAN : Prepare(c, t, m, d)
    BY <2>1, PrepareBegins
  <2>2. CASE Cancel(c, t)
    BY <2>2, CancelEnds
  <2>3. CASE Commit(c, t) \/ CommitDonate(c, t)
    <3>1. /\ UNCHANGED <<seq, mode, reason, timed, timer, fired>>
          /\ IF park[t] = "PREPARING" THEN park' = [park EXCEPT ![t] = "PARKED"]
                                      ELSE park' = park
      BY <2>3 DEF Commit, CommitDonate, envVars
    <3> QED BY <3>1, CommitSleeps
  <2>4. CASE DonateWake(c, t)
    <3>1. donee[t] \in Tasks
      BY <2>4 DEF DonateWake, DoneeInv
    <3> QED BY <2>4, <3>1, DonateWakeEnds
  <2>5. CASE Finish(c, t)
    BY <2>5, FinishRetires
  <2>6. CASE \/ \E u \in Tasks : DonatePeek(c, t, u)
             \/ Yield(c, t) \/ StopCurrent(c, t) \/ DeliverSignals(c, t)
             \/ Exit(c, t)
    <3>1. UNCHANGED pvars
      BY <2>6 DEF DonatePeek, Yield, StopCurrent, DeliverSignals, Exit, pvars,
                  parkVars, envVars
    <3> QED BY <3>1, Quiet
  <2> QED BY <1>1, <2>1, <2>2, <2>3, <2>4, <2>5, <2>6 DEF TaskStep
<1>2. ASSUME NEW t \in Tasks, OtherStep(t)
      PROVE  PInv' /\ [Wait!Next]_(Wait!vars)
  <2>1. seq[t] \in 0..MaxSeq /\ 1..MaxSeq \subseteq 0..MaxSeq
    BY ConstAssumption DEF PInv, ParkType
  <2>2. CASE \E s \in 1..MaxSeq : s <= seq[t] /\ TryWake(t, s)
    <3> PICK s \in 1..MaxSeq : TryWake(t, s)
      BY <2>2
    <3>1. TryWakeLocked(t, s, "EVENT") /\ UNCHANGED <<seq, mode, fired>>
      BY DEF TryWake, envVars
    <3> QED BY <2>1, <3>1, WakeEnds DEF Wait!Reasons
  <2>3. CASE TimerExpire(t)
    BY <2>3, ExpirePasses
  <2>4. CASE \E s \in 1..MaxSeq : TimerWake(t, s)
    <3> PICK s \in 1..MaxSeq : TimerWake(t, s)
      BY <2>4
    <3>1. /\ TryWakeLocked(t, s, "TIMEOUT") /\ UNCHANGED <<seq, mode>>
          /\ <<t, s>> \in fired /\ fired' = fired \ {<<t, s>>}
      BY DEF TimerWake
    <3> QED BY <2>1, <3>1, WakeEnds DEF Wait!Reasons
  <2>5. CASE \E k \in Kinds \cap {"SIGNAL", "FATAL"} : InterruptWait(t, k)
    <3> PICK k \in {"SIGNAL", "FATAL"} : InterruptWait(t, k)
      BY <2>5
    <3>1. TryWakeLocked(t, seq[t], k) /\ UNCHANGED <<seq, mode, fired>>
      BY DEF InterruptWait
    <3> QED BY <2>1, <3>1, WakeEnds DEF Wait!Reasons
  <2>6. CASE ForceExit(t)
    <3>1. TryWakeLocked(t, seq[t], "EXIT") /\ UNCHANGED <<seq, mode, fired>>
      BY <2>6 DEF ForceExit
    <3> QED BY <2>1, <3>1, WakeEnds DEF Wait!Reasons
  <2>7. CASE MakeReady(t)
    <3>1. UNCHANGED <<seq, mode, fired>>
      BY <2>7 DEF MakeReady
    <3>2. CASE TryWakeLocked(t, seq[t], "EVENT")
      BY <2>1, <3>1, <3>2, WakeEnds DEF Wait!Reasons
    <3>3. CASE UNCHANGED <<park, reason, timed, timer>>
      BY <3>1, <3>3, Quiet DEF pvars, parkVars
    <3> QED BY <2>7, <3>2, <3>3 DEF MakeReady
  <2>8. CASE \/ \E k \in Kinds : SendSignal(t, k) \/ ResumeStopped(t, k)
             \/ Reap(t)
    <3>1. UNCHANGED pvars
      BY <2>8 DEF SendSignal, ResumeStopped, Reap, pvars, parkVars, envVars
    <3> QED BY <3>1, Quiet
  <2> QED BY <1>2, <2>2, <2>3, <2>4, <2>5, <2>6, <2>7, <2>8 DEF OtherStep
<1>3. ASSUME NEW c \in CPUs, CpuStep(c)
      PROVE  PInv' /\ [Wait!Next]_(Wait!vars)
  <2>1. UNCHANGED pvars
    BY <1>3 DEF CpuStep, DropThrottled, PickTask, PickNothing, Charge,
         Unthrottle, Dispatch, GiveBack, KeepCurrent, FallToIdle,
         FinishPending, SetCurrent, PublishNext, Switch, SwitchComplete,
         PreemptInSwitch, pvars, parkVars, envVars
  <2> QED BY <2>1, Quiet
<1>4. CASE UNCHANGED vars
  BY <1>4, Quiet DEF vars, pvars, parkVars, envVars
<1> QED BY <1>1, <1>2, <1>3, <1>4 DEF Next

\* A task at boot has no wait, no timer and nothing expired.
LEMMA InitImplements == Init => PInv /\ DoneeInv /\ Wait!Init
<1> SUFFICES ASSUME Init PROVE PInv /\ DoneeInv /\ Wait!Init
  OBVIOUS
<1>1. ParkType /\ FiredType
  BY ConstAssumption DEF Init, ParkType, FiredType, Reasons
<1>2. TimerInv /\ IdleClean
  BY DEF Init, TimerInv, IdleClean, Waiting
<1>3. DoneeInv
  BY DEF Init, DoneeInv, PCs
<1>4. Wait!Init
  BY DEF Init, Wait!Init, UNINT
<1> QED BY <1>1, <1>2, <1>3, <1>4 DEF PInv

\* The park protocol of sched.c, park.c and timer_heap.c implements the wait
\* promised in park.h: no late, repeated or stale wake, expired timer or signal
\* ever ends a wait it was not meant for or changes the reason it ended for.
THEOREM WaitImplemented == Spec => WaitSpec
<1>1. Init => PInv /\ DoneeInv /\ Wait!Init
  BY InitImplements
<1>2. PInv /\ DoneeInv /\ [Next]_vars
        => PInv' /\ DoneeInv' /\ [Wait!Next]_(Wait!vars)
  BY StepImplements, DoneeStep
<1> QED BY <1>1, <1>2, PTL DEF Spec, WaitSpec, Wait!Spec

\* The timer heap names only live waits.
THEOREM TimersLive == Spec => []TimerIsLive
<1>1. Init => PInv /\ DoneeInv
  BY InitImplements
<1>2. PInv /\ DoneeInv /\ [Next]_vars => PInv' /\ DoneeInv'
  BY StepImplements, DoneeStep
<1>3. PInv => TimerIsLive
  BY DEF PInv, TimerInv, TimerIsLive, Waiting
<1> QED BY <1>1, <1>2, <1>3, PTL DEF Spec
=============================================================================
