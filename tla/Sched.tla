------------------------------- MODULE Sched -------------------------------
(***************************************************************************)
(* The park/wake protocol and the scheduler's ownership protocol of the    *)
(* A20OS kernel: kernel/proc/park.c, kernel/proc/sched.c,                  *)
(* kernel/proc/current.c, the wait timers of kernel/proc/timer_heap.c and  *)
(* the signal, stop and exit paths that meet them.                         *)
(*                                                                         *)
(* One action is one critical section (task->park_lock, a runqueue lock,   *)
(* the timer-heap lock) or one step between two of them, so every          *)
(* interleaving the locks allow is a behaviour of the model.  A CPU is a   *)
(* process whose phase says where in sched()/context_switch() it is; a     *)
(* task is a process whose pc says where in the park API it is.            *)
(***************************************************************************)
EXTENDS Integers, FiniteSets

CONSTANTS
  Tasks,          \* task_t objects, the per-CPU idle tasks excluded
  CPUs,           \* online CPUs
  Idle,           \* the executing CPU's own idle task
  None,           \* NULL, PROC_CPU_NONE
  Rank,           \* [Tasks -> Nat]: the order of sched_task_strictly_preempts
  Modes,          \* the wait modes the tasks use
  MaxSeq,         \* bound on the park sequence numbers issued per task
  TimerCap,       \* WAIT_TIMER_HEAP_MAX; 0 = no wait has a deadline
  Kinds,          \* what other tasks send: SIGNAL, FATAL, CONT, EXIT
  Stoppers,       \* tasks that take a default-stop signal
  Mortal,         \* tasks that may exit by themselves
  Donors,         \* tasks that use the donating receive of channel_call
  Throttled,      \* the members of a cgroup with a CPU quota
  KernelPreempt,  \* CONFIG_KERNEL_PREEMPT
  FastCurrent     \* ARCH_FAST_CURRENT: proc_current() follows the stack

UNINT == "UNINTERRUPTIBLE"
KILL  == "KILLABLE"
INTR  == "INTERRUPTIBLE"

ASSUME ConstAssumption ==
  /\ Idle \notin Tasks /\ None \notin Tasks /\ None # Idle
  /\ None \notin CPUs
  /\ Rank \in [Tasks -> Nat]
  /\ Modes \subseteq {UNINT, KILL, INTR}
  /\ MaxSeq \in Nat /\ TimerCap \in Nat
  /\ Kinds \subseteq {"SIGNAL", "FATAL", "CONT", "EXIT"}
  /\ Stoppers \subseteq Tasks /\ Mortal \subseteq Tasks
  /\ Donors \subseteq Tasks /\ Throttled \subseteq Tasks
  /\ KernelPreempt \in BOOLEAN /\ FastCurrent \in BOOLEAN

VARIABLES
  \* task_t, scheduling half (include/proc/proc.h)
  state,     \* PROC_READY, RUNNING, BLOCKED, STOPPED, ZOMBIE, UNUSED
  onrq,      \* on_rq: queued on the runqueue of cpu_id
  disp,      \* dispatching: picked, not yet on a CPU
  oncpu,     \* on_cpu: owns a CPU slot
  owner,     \* owner_cpu
  cpuid,     \* cpu_id
  \* task_t, park half
  park,      \* park_state
  seq,       \* wait_seq
  mode,      \* wait_mode
  reason,    \* wake_reason
  timed,     \* wait_deadline # 0
  timer,     \* sequence of the task's entry in the wait-timer heap, or 0
  \* delayed work that names a task
  fired,     \* <<task, seq>> taken off the timer heap, wake still to come
  pend,      \* pending signals and exit_pending
  inflight,  \* <<task, kind, step>> of signal_queue_task()/proc_force_exit()
  toready,   \* tasks whose creator or unthrottler will call proc_make_ready()
  thr,       \* cg_throttled
  \* control
  pc,        \* per task: where it is in the park API
  donee,     \* per task: the target a donating receive has peeked
  current,   \* g_cpu_current[]
  swout,     \* g_cpu_switching_out[]
  stack,     \* per CPU: the task whose kernel stack it executes on
  phase,     \* per CPU: where it is in sched()/context_switch_locked()
  pick       \* per CPU: sched()'s local variable next

schedVars == <<state, onrq, disp, oncpu, owner, cpuid>>
parkVars  == <<park, seq, mode, reason, timed, timer>>
envVars   == <<fired, pend, inflight, toready, thr>>
cpuVars   == <<current, swout, stack, phase, pick>>
vars == <<schedVars, parkVars, envVars, pc, donee, cpuVars>>

Phases == {"run", "sched", "picked", "recheck", "late", "switch", "setcur",
           "publish", "published", "complete"}
PCs == {"user", "token", "peeked", "donate", "donated", "finish"}
States == {"READY", "RUNNING", "BLOCKED", "STOPPED", "ZOMBIE", "UNUSED"}
Reasons == {"NONE", "EVENT", "TIMEOUT", "SIGNAL", "FATAL", "EXIT", "CANCEL"}

(* A task is allocated READY but unpublished; its creator then calls       *)
(* proc_make_ready().  Every CPU starts in its idle task.                  *)
Init ==
  /\ state = [t \in Tasks |-> "READY"]
  /\ onrq  = [t \in Tasks |-> FALSE]
  /\ disp  = [t \in Tasks |-> FALSE]
  /\ oncpu = [t \in Tasks |-> FALSE]
  /\ owner = [t \in Tasks |-> None]
  /\ cpuid \in [Tasks -> CPUs]
  /\ park  = [t \in Tasks |-> "IDLE"]
  /\ seq   = [t \in Tasks |-> 0]
  /\ mode  = [t \in Tasks |-> UNINT]
  /\ reason = [t \in Tasks |-> "NONE"]
  /\ timed = [t \in Tasks |-> FALSE]
  /\ timer = [t \in Tasks |-> 0]
  /\ fired = {}
  /\ pend  = [t \in Tasks |-> {}]
  /\ inflight = {}
  /\ toready = Tasks
  /\ thr   = [t \in Tasks |-> FALSE]
  /\ pc    = [t \in Tasks |-> "user"]
  /\ donee = [t \in Tasks |-> None]
  /\ current = [c \in CPUs |-> Idle]
  /\ swout = [c \in CPUs |-> None]
  /\ stack = [c \in CPUs |-> Idle]
  /\ phase = [c \in CPUs |-> "run"]
  /\ pick  = [c \in CPUs |-> None]

-----------------------------------------------------------------------------
(* Helpers that stand for functions called under a lock already held.      *)

\* The CPU executes t's own kernel code, outside sched().
Executes(c, t) == phase[c] = "run" /\ current[c] = t /\ stack[c] = t

(* A definition named Bug... is the definition after it with a plausible   *)
(* mistake; no specification uses it.  It shows that a property notices.   *)

BugEnqueuedOwned(t, st) == onrq[t] \/ st = "READY"

\* proc_runq_enqueue_locked(): only an unowned READY task is queued.  st is
\* the state the same critical section has just given the task.
Enqueued(t, st) ==
  onrq[t] \/ (st = "READY" /\ ~disp[t] /\ ~oncpu[t])

BugCancelledNever(t, s) == timer[t]

\* proc_wait_timer_cancel(): only the entry of this very wait is removed.
Cancelled(t, s) == IF timer[t] = s THEN 0 ELSE timer[t]

BugModeAdmitsKillable(m, r) == r \in {"SIGNAL", "FATAL", "EXIT"} => m # UNINT

\* PARK_SIGNAL_MODE_PROTOCOL: which reasons a wait mode admits.
ModeAdmits(m, r) ==
  /\ r = "SIGNAL" => m = INTR
  /\ r \in {"FATAL", "EXIT"} => m # UNINT

CanWake(t, s, r) ==
  /\ s # 0 /\ seq[t] = s
  /\ state[t] \notin {"UNUSED", "ZOMBIE"}
  /\ ModeAdmits(mode[t], r)
  /\ park[t] \in {"PREPARING", "PARKED"}

\* proc_try_wake_locked_common(): a wake that wins turns the token WOKEN,
\* cancels its timer, and makes a PARKED task READY and, if nobody owns it,
\* queued.  A wake that does not match is a no-op.
TryWakeLocked(t, s, r) ==
  IF CanWake(t, s, r)
  THEN /\ park' = [park EXCEPT ![t] = "WOKEN"]
       /\ reason' = [reason EXCEPT ![t] = r]
       /\ timed' = [timed EXCEPT ![t] = FALSE]
       /\ timer' = [timer EXCEPT ![t] = Cancelled(t, s)]
       /\ state' = [state EXCEPT ![t] =
                      IF park[t] = "PARKED" THEN "READY" ELSE @]
       /\ onrq' = [onrq EXCEPT ![t] =
                      IF park[t] = "PARKED" THEN Enqueued(t, "READY") ELSE @]
  ELSE UNCHANGED <<park, reason, timed, timer, state, onrq>>

BugPendingReasonIgnored(t, m) == "NONE"

\* What proc_park_prepare_locked() finds pending for a wait of mode m.
PendingReason(t, m) ==
  IF "EXIT" \in pend[t] /\ m # UNINT THEN "EXIT"
  ELSE IF "FATAL" \in pend[t] /\ m # UNINT THEN "FATAL"
  ELSE IF "SIGNAL" \in pend[t] /\ m = INTR THEN "SIGNAL"
  ELSE "NONE"

TimersInUse == Cardinality({u \in Tasks : timer[u] # 0})

\* sched_task_strictly_preempts(): the classes are ordered by Rank (0 is the
\* normal class); inside the normal class the virtual deadlines decide, which
\* are data the model leaves open.
Outranks(t, u) == t # u /\ Rank[t] > Rank[u]
MayOutrank(t, u) == Outranks(t, u) \/ (t # u /\ Rank[t] = 0 /\ Rank[u] = 0)

\* sched_runq_unpick_locked(): dispatching goes back to queued.  A task that
\* is not READY is left as it is (the kernel counts a violation).
Unpick(t) ==
  IF disp[t] /\ ~onrq[t] /\ ~oncpu[t] /\ owner[t] # None
     /\ state[t] = "READY"
  THEN /\ disp' = [disp EXCEPT ![t] = FALSE]
       /\ cpuid' = [cpuid EXCEPT ![t] = owner[t]]
       /\ owner' = [owner EXCEPT ![t] = None]
       /\ onrq' = [onrq EXCEPT ![t] = TRUE]
  ELSE UNCHANGED <<disp, cpuid, owner, onrq>>

BugSwitchCompleteNoEnqueue(c) ==
  LET old == swout[c] IN
  /\ swout' = [swout EXCEPT ![c] = None]
  /\ oncpu' = [t \in Tasks |-> t # old /\ oncpu[t]]
  /\ owner' = [t \in Tasks |-> IF t = old THEN None ELSE owner[t]]
  /\ UNCHANGED onrq

BugSwitchCompleteKeepsCpu(c) ==
  /\ swout' = [swout EXCEPT ![c] = None]
  /\ UNCHANGED <<oncpu, owner, onrq>>

\* proc_switch_complete_locked(): the outgoing task gives its CPU slot up;
\* if it is READY by now it is queued.
SwitchCompleteLocked(c) ==
  LET old == swout[c] IN
  /\ swout' = [swout EXCEPT ![c] = None]
  /\ IF old \in Tasks
     THEN /\ oncpu' = [oncpu EXCEPT ![old] = FALSE]
          /\ owner' = [owner EXCEPT ![old] = None]
          /\ onrq' = [onrq EXCEPT ![old] =
                        @ \/ (state[old] = "READY" /\ ~disp[old])]
     ELSE UNCHANGED <<oncpu, owner, onrq>>

-----------------------------------------------------------------------------
(* The park API, executed by the current task t of CPU c.                  *)

\* proc_park_prepare(): issue a new sequence; a deadline is registered in the
\* heap, whose failure undoes the token but not the sequence.  A signal or an
\* exit already pending wins the token at once.
Prepare(c, t, m, d) ==
  LET full == d /\ TimersInUse >= TimerCap
      r == PendingReason(t, m)
      woken == r # "NONE" IN
  /\ Executes(c, t) /\ pc[t] = "user" /\ state[t] = "RUNNING"
  /\ d => TimerCap > 0
  /\ seq[t] < MaxSeq
  /\ park[t] = "IDLE"
  /\ seq' = [seq EXCEPT ![t] = @ + 1]
  /\ IF full
     THEN /\ mode' = [mode EXCEPT ![t] = UNINT]
          /\ reason' = [reason EXCEPT ![t] = "NONE"]
          /\ UNCHANGED <<park, timed, timer, pc>>
     ELSE /\ mode' = [mode EXCEPT ![t] = m]
          /\ park' = [park EXCEPT ![t] = IF woken THEN "WOKEN" ELSE "PREPARING"]
          /\ reason' = [reason EXCEPT ![t] = r]
          /\ timed' = [timed EXCEPT ![t] = d /\ ~woken]
          /\ timer' = [timer EXCEPT ![t] = IF d /\ ~woken THEN seq[t] + 1 ELSE @]
          /\ pc' = [pc EXCEPT ![t] = "token"]
  /\ UNCHANGED <<schedVars, envVars, donee, cpuVars>>

\* proc_park_cancel(): the condition became true before the commit.  A token
\* that was already won stays WOKEN with its reason.
Cancel(c, t) ==
  /\ Executes(c, t) /\ pc[t] = "token"
  /\ IF park[t] = "PREPARING"
     THEN /\ park' = [park EXCEPT ![t] = "WOKEN"]
          /\ reason' = [reason EXCEPT ![t] = "CANCEL"]
          /\ timed' = [timed EXCEPT ![t] = FALSE]
          /\ timer' = [timer EXCEPT ![t] = Cancelled(t, seq[t])]
     ELSE UNCHANGED <<park, reason, timed, timer>>
  /\ pc' = [pc EXCEPT ![t] = "finish"]
  /\ UNCHANGED <<schedVars, seq, mode, envVars, donee, cpuVars>>

\* proc_park_commit(): a won token returns at once, otherwise the task blocks
\* and enters sched().
Commit(c, t) ==
  /\ Executes(c, t) /\ pc[t] = "token"
  /\ IF park[t] = "PREPARING"
     THEN /\ park' = [park EXCEPT ![t] = "PARKED"]
          /\ state' = [state EXCEPT ![t] = "BLOCKED"]
          /\ phase' = [phase EXCEPT ![c] = "sched"]
     ELSE UNCHANGED <<park, state, phase>>
  /\ pc' = [pc EXCEPT ![t] = "finish"]
  /\ UNCHANGED <<onrq, disp, oncpu, owner, cpuid, seq, mode, reason, timed,
                 timer, envVars, donee, current, swout, stack, pick>>

\* a20_channel_recv_begin_donate(): peek the peer's queued receiver u, a task
\* whose wait-queue entry is still linked.
DonatePeek(c, t, u) ==
  /\ Executes(c, t) /\ pc[t] = "token" /\ t \in Donors /\ u # t
  /\ pc[u] # "user"
  /\ donee' = [donee EXCEPT ![t] = u]
  /\ pc' = [pc EXCEPT ![t] = "peeked"]
  /\ UNCHANGED <<schedVars, parkVars, envVars, cpuVars>>

\* The eligibility test of proc_park_commit_donate().
CanDonate(c, u) ==
  /\ park[u] = "PARKED" /\ state[u] = "BLOCKED"
  /\ ~oncpu[u] /\ ~onrq[u] /\ ~disp[u] /\ cpuid[u] = c

\* proc_park_commit_donate(), first half: commit under the caller's own lock
\* and filter the target on a snapshot.
CommitDonate(c, t) ==
  LET u == donee[t] IN
  /\ Executes(c, t) /\ pc[t] = "peeked"
  /\ IF park[t] = "PREPARING"
     THEN /\ park' = [park EXCEPT ![t] = "PARKED"]
          /\ state' = [state EXCEPT ![t] = "BLOCKED"]
          /\ IF CanDonate(c, u)
             THEN /\ pc' = [pc EXCEPT ![t] = "donate"]
                  /\ UNCHANGED <<phase, donee>>
             ELSE /\ pc' = [pc EXCEPT ![t] = "finish"]
                  /\ donee' = [donee EXCEPT ![t] = None]
                  /\ phase' = [phase EXCEPT ![c] = "sched"]
     ELSE /\ pc' = [pc EXCEPT ![t] = "finish"]
          /\ donee' = [donee EXCEPT ![t] = None]
          /\ UNCHANGED <<park, state, phase>>
  /\ UNCHANGED <<onrq, disp, oncpu, owner, cpuid, seq, mode, reason, timed,
                 timer, envVars, current, swout, stack, pick>>

\* proc_park_commit_donate(), second half: revalidate under the target's lock,
\* wake it and switch to it directly, with interrupts enabled.
DonateWake(c, t) ==
  LET u == donee[t] IN
  /\ Executes(c, t) /\ pc[t] = "donate"
  /\ donee' = [donee EXCEPT ![t] = None]
  /\ IF CanDonate(c, u)
     THEN /\ park' = [park EXCEPT ![u] = "WOKEN"]
          /\ reason' = [reason EXCEPT ![u] = "EVENT"]
          /\ timed' = [timed EXCEPT ![u] = FALSE]
          /\ timer' = [timer EXCEPT ![u] = Cancelled(u, seq[u])]
          /\ state' = [state EXCEPT ![u] = "READY"]
          /\ disp' = [disp EXCEPT ![u] = TRUE]
          /\ owner' = [owner EXCEPT ![u] = c]
          /\ pick' = [pick EXCEPT ![c] = u]
          /\ phase' = [phase EXCEPT ![c] = "switch"]
          /\ pc' = [pc EXCEPT ![t] = "donated"]
     ELSE /\ phase' = [phase EXCEPT ![c] = "sched"]
          /\ pc' = [pc EXCEPT ![t] = "finish"]
          /\ UNCHANGED <<park, reason, timed, timer, state, disp, owner, pick>>
  /\ UNCHANGED <<onrq, oncpu, cpuid, seq, mode, envVars, current, swout, stack>>

BugFinishKeepsToken(c, t) ==
  /\ Executes(c, t) /\ pc[t] \in {"finish", "donated"} /\ state[t] = "RUNNING"
  /\ pc' = [pc EXCEPT ![t] = "user"]
  /\ UNCHANGED <<schedVars, parkVars, envVars, donee, cpuVars>>

\* proc_park_finish(): the task is running again; a WOKEN token is retired.
Finish(c, t) ==
  /\ Executes(c, t) /\ pc[t] \in {"finish", "donated"} /\ state[t] = "RUNNING"
  /\ IF park[t] = "WOKEN"
     THEN /\ park' = [park EXCEPT ![t] = "IDLE"]
          /\ reason' = [reason EXCEPT ![t] = "NONE"]
          /\ mode' = [mode EXCEPT ![t] = UNINT]
          /\ timed' = [timed EXCEPT ![t] = FALSE]
          /\ timer' = [timer EXCEPT ![t] = Cancelled(t, seq[t])]
     ELSE UNCHANGED <<park, reason, mode, timed, timer>>
  /\ pc' = [pc EXCEPT ![t] = "user"]
  /\ UNCHANGED <<schedVars, seq, envVars, donee, cpuVars>>

-----------------------------------------------------------------------------
(* Wakers.                                                                 *)

\* proc_try_wake() by whoever holds a token of t: any sequence ever issued,
\* so wakes may be delayed past the wait they were meant for, or repeated.
TryWake(t, s) ==
  /\ TryWakeLocked(t, s, "EVENT")
  /\ UNCHANGED <<disp, oncpu, owner, cpuid, seq, mode, envVars, pc, donee,
                 cpuVars>>

BugTimerExpireForgets(t) ==
  /\ timer[t] # 0
  /\ timer' = [timer EXCEPT ![t] = 0]
  /\ UNCHANGED <<schedVars, park, seq, mode, reason, timed, envVars, pc, donee,
                 cpuVars>>

\* proc_sched_expire_wait_timers(), under the heap lock: take an entry off.
TimerExpire(t) ==
  /\ timer[t] # 0
  /\ fired' = fired \cup {<<t, timer[t]>>}
  /\ timer' = [timer EXCEPT ![t] = 0]
  /\ UNCHANGED <<schedVars, park, seq, mode, reason, timed, pend, inflight,
                 toready, thr, pc, donee, cpuVars>>

BugTimerWakeCurrent(t, s) ==
  /\ <<t, s>> \in fired
  /\ fired' = fired \ {<<t, s>>}
  /\ TryWakeLocked(t, seq[t], "TIMEOUT")
  /\ UNCHANGED <<disp, oncpu, owner, cpuid, seq, mode, pend, inflight, toready,
                 thr, pc, donee, cpuVars>>

\* proc_sched_expire_wait_timers(), after the heap lock: wake its task.
TimerWake(t, s) ==
  /\ <<t, s>> \in fired
  /\ fired' = fired \ {<<t, s>>}
  /\ TryWakeLocked(t, s, "TIMEOUT")
  /\ UNCHANGED <<disp, oncpu, owner, cpuid, seq, mode, pend, inflight, toready,
                 thr, pc, donee, cpuVars>>

\* signal_queue_task() under ss->lock: publish the pending signal.  What the
\* sender still has to do is recorded in inflight.  (Left out: a stop signal
\* discards a pending SIGCONT, which only takes away what StopNotLost asks for;
\* a pending stop signal, which SIGCONT discards, is StopCurrent's own choice.)
SendSignal(t, k) ==
  /\ k \in Kinds \ {"EXIT"} /\ k \notin pend[t]
  /\ state[t] \notin {"UNUSED", "ZOMBIE"}
  /\ pend' = [pend EXCEPT ![t] = @ \cup {k}]
  /\ inflight' = inflight \cup
        {<<t, k, IF k = "SIGNAL" THEN "wake" ELSE "resume">>}
  /\ UNCHANGED <<schedVars, parkVars, fired, toready, thr, pc, donee, cpuVars>>

\* proc_sched_resume_stopped(), then (for a fatal signal) the interrupt.
ResumeStopped(t, k) ==
  /\ <<t, k, "resume">> \in inflight
  /\ inflight' = (inflight \ {<<t, k, "resume">>}) \cup
                 (IF k = "FATAL" THEN {<<t, k, "wake">>} ELSE {})
  /\ IF state[t] = "STOPPED"
     THEN /\ state' = [state EXCEPT ![t] = "READY"]
          /\ \E c \in CPUs :
               /\ oncpu[t] => c = owner[t]
               /\ (~oncpu[t] /\ (disp[t] \/ onrq[t])) => c = cpuid[t]
               /\ cpuid' = [cpuid EXCEPT ![t] = c]
          /\ onrq' = [onrq EXCEPT ![t] = Enqueued(t, "READY")]
     ELSE UNCHANGED <<state, cpuid, onrq>>
  /\ UNCHANGED <<disp, oncpu, owner, parkVars, fired, pend, toready, thr, pc,
                 donee, cpuVars>>

\* proc_interrupt_wait(): wake whatever wait the task is in now.
InterruptWait(t, k) ==
  /\ <<t, k, "wake">> \in inflight
  /\ inflight' = inflight \ {<<t, k, "wake">>}
  /\ TryWakeLocked(t, seq[t], k)
  /\ UNCHANGED <<disp, oncpu, owner, cpuid, seq, mode, fired, pend, toready,
                 thr, pc, donee, cpuVars>>

\* proc_force_exit() of another task: mark, wake, and resume if it is stopped.
ForceExit(t) ==
  /\ "EXIT" \in Kinds /\ "EXIT" \notin pend[t]
  /\ state[t] \notin {"UNUSED", "ZOMBIE"}
  /\ pend' = [pend EXCEPT ![t] = @ \cup {"EXIT"}]
  /\ TryWakeLocked(t, seq[t], "EXIT")
  /\ inflight' = IF state[t] = "STOPPED"
                 THEN inflight \cup {<<t, "EXIT", "resume">>} ELSE inflight
  /\ UNCHANGED <<disp, oncpu, owner, cpuid, seq, mode, fired, toready, thr,
                 pc, donee, cpuVars>>

\* context_switch_locked() charges the outgoing member of a cgroup first; how
\* much it has used is clock data.  Over its quota, it is marked throttled.
Charge(c) ==
  /\ phase[c] = "switch" /\ current[c] \in Throttled
  /\ thr' = [thr EXCEPT ![current[c]] = TRUE]
  /\ UNCHANGED <<schedVars, parkVars, fired, pend, inflight, toready, pc, donee,
                 cpuVars>>

\* cg_cpu_check_unthrottle(), in the same place once the period is over: one
\* member t of the loop.  A READY member is observed without a lock; its
\* proc_make_ready() call comes after that.
Unthrottle(c, t) ==
  /\ phase[c] = "switch" /\ current[c] \in Throttled /\ t \in Throttled
  /\ thr' = [thr EXCEPT ![t] = FALSE]
  /\ toready' = IF state[t] = "READY" THEN toready \cup {t} ELSE toready
  /\ UNCHANGED <<schedVars, parkVars, fired, pend, inflight, pc, donee, cpuVars>>

\* proc_make_ready() by another task.
MakeReady(t) ==
  /\ t \in toready
  /\ toready' = toready \ {t}
  /\ \/ /\ state[t] \in {"UNUSED", "ZOMBIE"}
        /\ UNCHANGED <<schedVars, park, reason, timed, timer>>
     \/ /\ state[t] \notin {"UNUSED", "ZOMBIE"}
        /\ park[t] \in {"PREPARING", "PARKED"}
        /\ TryWakeLocked(t, seq[t], "EVENT")
        /\ UNCHANGED <<disp, oncpu, owner, cpuid>>
     \/ /\ state[t] = "RUNNING" /\ park[t] \in {"IDLE", "WOKEN"}
        /\ UNCHANGED <<schedVars, park, reason, timed, timer>>
     \/ /\ state[t] \in {"READY", "BLOCKED", "STOPPED"}
        /\ park[t] \in {"IDLE", "WOKEN"}
        /\ state' = [state EXCEPT ![t] = "READY"]
        /\ \E c \in CPUs :
             /\ oncpu[t] => c = owner[t]
             /\ (~oncpu[t] /\ (disp[t] \/ onrq[t] \/ state[t] = "BLOCKED"))
                   => c = cpuid[t]
             /\ cpuid' = [cpuid EXCEPT ![t] = c]
        /\ onrq' = [onrq EXCEPT ![t] = Enqueued(t, "READY")]
        /\ UNCHANGED <<disp, oncpu, owner, park, reason, timed, timer>>
  /\ UNCHANGED <<seq, mode, fired, pend, inflight, thr, pc, donee, cpuVars>>

-----------------------------------------------------------------------------
(* What a running task does besides waiting.                               *)

\* proc_yield(): at a safe point of its own, or, with kernel preemption, at
\* an interrupt return anywhere in its kernel code.  The token is untouched.
Yield(c, t) ==
  /\ Executes(c, t) /\ state[t] = "RUNNING"
  /\ pc[t] = "user" \/ KernelPreempt
  /\ state' = [state EXCEPT ![t] = "READY"]
  /\ cpuid' = [cpuid EXCEPT ![t] = c]
  /\ phase' = [phase EXCEPT ![c] = "sched"]
  /\ pc' = [pc EXCEPT ![t] = IF @ = "donated" THEN "finish" ELSE @]
  /\ UNCHANGED <<onrq, disp, oncpu, owner, parkVars, envVars, donee,
                 current, swout, stack, pick>>

BugStopCurrentUnchecked(c, t) ==
  /\ Executes(c, t) /\ pc[t] = "user" /\ state[t] = "RUNNING" /\ t \in Stoppers
  /\ state' = [state EXCEPT ![t] = "STOPPED"]
  /\ phase' = [phase EXCEPT ![c] = "sched"]
  /\ UNCHANGED <<onrq, disp, oncpu, owner, cpuid, parkVars, envVars, pc, donee,
                 current, swout, stack, pick>>

\* proc_sched_stop_current(): declines when SIGCONT, a fatal signal or an
\* exit is already pending.
StopCurrent(c, t) ==
  /\ Executes(c, t) /\ pc[t] = "user" /\ state[t] = "RUNNING" /\ t \in Stoppers
  /\ pend[t] \cap {"EXIT", "FATAL", "CONT"} = {}
  /\ state' = [state EXCEPT ![t] = "STOPPED"]
  /\ phase' = [phase EXCEPT ![c] = "sched"]
  /\ UNCHANGED <<onrq, disp, oncpu, owner, cpuid, parkVars, envVars, pc, donee,
                 current, swout, stack, pick>>

\* signal_deliver_user() at the return to user mode consumes what is pending.
DeliverSignals(c, t) ==
  /\ Executes(c, t) /\ pc[t] = "user" /\ state[t] = "RUNNING"
  /\ pend[t] # {} /\ pend[t] \cap {"EXIT", "FATAL"} = {}
  /\ pend' = [pend EXCEPT ![t] = {}]
  /\ UNCHANGED <<schedVars, parkVars, fired, inflight, toready, thr, pc,
                 donee, cpuVars>>

\* proc_exit(): publish ZOMBIE and leave the CPU for good.
Exit(c, t) ==
  /\ Executes(c, t) /\ pc[t] = "user" /\ state[t] = "RUNNING"
  /\ t \in Mortal \/ pend[t] \cap {"EXIT", "FATAL"} # {}
  /\ state' = [state EXCEPT ![t] = "ZOMBIE"]
  /\ onrq' = [onrq EXCEPT ![t] = FALSE]
  /\ phase' = [phase EXCEPT ![c] = "sched"]
  /\ UNCHANGED <<disp, oncpu, owner, cpuid, parkVars, envVars, pc, donee,
                 current, swout, stack, pick>>

BugReapSwitchingOut(t) ==
  /\ state[t] = "ZOMBIE"
  /\ \A c \in CPUs : current[c] # t
  /\ state' = [state EXCEPT ![t] = "UNUSED"]
  /\ UNCHANGED <<onrq, disp, oncpu, owner, cpuid, parkVars, envVars, pc, donee,
                 cpuVars>>

\* sched_reap_zombies(): a zombie that no CPU runs or is switching out.
Reap(t) ==
  /\ state[t] = "ZOMBIE"
  /\ \A c \in CPUs : current[c] # t /\ swout[c] # t
  /\ state' = [state EXCEPT ![t] = "UNUSED"]
  /\ UNCHANGED <<onrq, disp, oncpu, owner, cpuid, parkVars, envVars, pc, donee,
                 cpuVars>>

-----------------------------------------------------------------------------
(* sched() and context_switch_locked() on CPU c.                           *)

Queued(c) == {t \in Tasks : onrq[t] /\ cpuid[t] = c}

\* Highest rank first; the order among equals (EEVDF deadlines) is left open.
Best(S) == {t \in S : \A u \in S : ~Outranks(u, t)}

\* sched_runq_steal_locked(): only a surplus of a remote CPU is stolen, and
\* only normal-class tasks.
Stealable(c) ==
  {t \in Tasks : /\ onrq[t] /\ cpuid[t] # c /\ Rank[t] = 0 /\ ~thr[t]
                 /\ Cardinality(Queued(cpuid[t])) >= 2}

\* sched() starts, from a task that gave its CPU up or from the idle loop.
InSched(c) ==
  \/ phase[c] = "sched"
  \/ phase[c] = "run" /\ current[c] = Idle

\* proc_runq_pick_local() unlinks the best task and, if it is throttled, drops
\* it and takes the next one: the task is READY and on no queue.
DropThrottled(c, t) ==
  /\ InSched(c) /\ t \in Best(Queued(c)) /\ thr[t]
  /\ onrq' = [onrq EXCEPT ![t] = FALSE]
  /\ UNCHANGED <<state, disp, oncpu, owner, cpuid, parkVars, envVars, pc, donee,
                 cpuVars>>

\* proc_runq_pick_local(): on_rq -> dispatching under the runqueue lock; an
\* empty queue tries to steal.
PickTask(c, t) ==
  /\ InSched(c) /\ ~thr[t]
  /\ t \in Best(Queued(c)) \/ (Queued(c) = {} /\ t \in Stealable(c))
  /\ onrq' = [onrq EXCEPT ![t] = FALSE]
  /\ disp' = [disp EXCEPT ![t] = TRUE]
  /\ owner' = [owner EXCEPT ![t] = c]
  /\ cpuid' = [cpuid EXCEPT ![t] = c]
  /\ pick' = [pick EXCEPT ![c] = t]
  /\ phase' = [phase EXCEPT ![c] = "picked"]
  /\ UNCHANGED <<state, oncpu, parkVars, envVars, pc, donee,
                 current, swout, stack>>

\* Nothing is queued here; stealing may fail whatever the other queues hold,
\* since it only tries their locks.
PickNothing(c) ==
  /\ phase[c] = "sched" /\ Queued(c) = {}
  /\ phase' = [phase EXCEPT ![c] = "recheck"]
  /\ UNCHANGED <<schedVars, parkVars, envVars, pc, donee,
                 current, swout, stack, pick>>

\* sched(), under the locks of the picked and the current task.  Keepable: a
\* yielding current task that may keep its CPU against the pick t.
Publishable(t) == state[t] = "READY" /\ ~oncpu[t]
Keepable(c) ==
  LET cur == current[c] IN
  cur \in Tasks /\ state[cur] = "READY" /\ oncpu[cur] /\ owner[cur] = c

Dispatch(c) ==
  /\ phase[c] = "picked" /\ Publishable(pick[c])
  /\ ~(Keepable(c) /\ Outranks(current[c], pick[c]))
  /\ phase' = [phase EXCEPT ![c] = "switch"]
  /\ UNCHANGED <<schedVars, parkVars, envVars, pc, donee, current, swout, stack,
                 pick>>

\* The pick is given back: it is no longer publishable, or the current task
\* outranks it and stays RUNNING.
GiveBack(c) ==
  LET keep == Keepable(c) /\ MayOutrank(current[c], pick[c]) IN
  /\ phase[c] = "picked"
  /\ Publishable(pick[c]) => keep
  /\ Unpick(pick[c])
  /\ pick' = [pick EXCEPT ![c] = None]
  /\ state' = IF Publishable(pick[c])
              THEN [state EXCEPT ![current[c]] = "RUNNING"] ELSE state
  /\ phase' = [phase EXCEPT ![c] = "recheck"]
  /\ UNCHANGED <<oncpu, parkVars, envVars, pc, donee, current, swout, stack>>

BugKeepCurrentAny(c) ==
  /\ phase[c] \in {"recheck", "late"} /\ current[c] \in Tasks
  /\ state' = [state EXCEPT ![current[c]] = "RUNNING"]
  /\ onrq' = [onrq EXCEPT ![current[c]] = FALSE]
  /\ phase' = [phase EXCEPT ![c] = "run"]
  /\ UNCHANGED <<disp, oncpu, owner, cpuid, parkVars, envVars, pc, donee,
                 current, swout, stack, pick>>

\* sched() without a pick: a current task that is READY (a wake raced the
\* empty pick) keeps the CPU.  sched() returns to its caller, which is an
\* interrupted switch if one is pending.
KeepCurrent(c) ==
  LET cur == current[c] IN
  /\ phase[c] \in {"recheck", "late"}
  /\ cur \in Tasks /\ state[cur] \in {"READY", "RUNNING"}
  /\ state' = [state EXCEPT ![cur] = "RUNNING"]
  /\ onrq' = [onrq EXCEPT ![cur] = FALSE]
  /\ phase' = [phase EXCEPT ![c] = IF swout[c] = None THEN "run"
                                   ELSE IF stack[c] = cur THEN "complete"
                                   ELSE "published"]
  /\ pc' = IF swout[c] = None \/ stack[c] = Idle THEN pc
           ELSE [pc EXCEPT ![stack[c]] = "donated"]
  /\ UNCHANGED <<disp, oncpu, owner, cpuid, parkVars, envVars, donee,
                 current, swout, stack, pick>>

BugFallToNull(c) ==
  /\ phase[c] \in {"recheck", "late"}
  /\ current[c] = Idle \/ state[current[c]] \notin {"READY", "RUNNING"}
  /\ phase' = [phase EXCEPT ![c] = IF current[c] = Idle THEN "run" ELSE "switch"]
  /\ pick' = [pick EXCEPT ![c] = None]
  /\ UNCHANGED <<schedVars, parkVars, envVars, pc, donee, current, swout, stack>>

\* The check is made twice before the CPU switches to its idle task.
FallToIdle(c) ==
  LET cur == current[c] IN
  /\ phase[c] \in {"recheck", "late"}
  /\ cur = Idle \/ state[cur] \notin {"READY", "RUNNING"}
  /\ phase' = [phase EXCEPT ![c] = IF cur = Idle THEN "run"
                                   ELSE IF @ = "recheck" THEN "late" ELSE "switch"]
  /\ pick' = [pick EXCEPT ![c] =
                  IF cur # Idle /\ phase[c] = "late" THEN Idle ELSE None]
  /\ UNCHANGED <<schedVars, parkVars, envVars, pc, donee, current, swout, stack>>

\* context_switch_locked(), window 1: proc_switch_out_finish_pending().
FinishPending(c) ==
  /\ phase[c] = "switch"
  /\ SwitchCompleteLocked(c)
  /\ phase' = [phase EXCEPT ![c] = "setcur"]
  /\ UNCHANGED <<state, disp, cpuid, parkVars, envVars, pc, donee,
                 current, stack, pick>>

\* proc_set_current()
SetCurrent(c) ==
  /\ phase[c] = "setcur"
  /\ swout' = [swout EXCEPT ![c] = current[c]]
  /\ current' = [current EXCEPT ![c] = pick[c]]
  /\ phase' = [phase EXCEPT ![c] = "publish"]
  /\ UNCHANGED <<schedVars, parkVars, envVars, pc, donee, stack, pick>>

\* context_switch_locked(), window 2: dispatching -> on_cpu.
PublishNext(c) ==
  LET n == pick[c] IN
  /\ phase[c] = "publish"
  /\ IF n \in Tasks
     THEN /\ state' = [state EXCEPT ![n] = "RUNNING"]
          /\ onrq' = [onrq EXCEPT ![n] = FALSE]
          /\ disp' = [disp EXCEPT ![n] = FALSE]
          /\ oncpu' = [oncpu EXCEPT ![n] = TRUE]
          /\ owner' = [owner EXCEPT ![n] = c]
     ELSE UNCHANGED <<state, onrq, disp, oncpu, owner>>
  /\ pick' = [pick EXCEPT ![c] = None]
  /\ phase' = [phase EXCEPT ![c] = "published"]
  /\ UNCHANGED <<cpuid, parkVars, envVars, pc, donee, current, swout, stack>>

\* __switch(): the CPU continues on the stack of its new current task.
Switch(c) ==
  /\ phase[c] = "published"
  /\ stack' = [stack EXCEPT ![c] = current[c]]
  /\ phase' = [phase EXCEPT ![c] = "complete"]
  /\ UNCHANGED <<schedVars, parkVars, envVars, pc, donee, current, swout, pick>>

\* proc_switch_complete() on the new stack.
SwitchComplete(c) ==
  /\ phase[c] = "complete"
  /\ SwitchCompleteLocked(c)
  /\ phase' = [phase EXCEPT ![c] = "run"]
  /\ UNCHANGED <<state, disp, cpuid, parkVars, envVars, pc, donee,
                 current, stack, pick>>

\* Interrupts are enabled in a switch only on the stack of a donor: sched()
\* masks them, proc_park_commit_donate() does not, and __switch() restores
\* the flags the incoming task was switched out with.
IrqsOn(c) == stack[c] \in Tasks /\ pc[stack[c]] = "donated"

\* kernel_preempt_at_irq_return() between the publication of the new current
\* task and the end of the switch.  It yields proc_current(), which the fast
\* architectures take from the stack and the others from g_cpu_current[].
PreemptInSwitch(c) ==
  LET cur == IF FastCurrent THEN stack[c] ELSE current[c] IN
  /\ KernelPreempt /\ IrqsOn(c)
  /\ phase[c] \in {"published", "complete"}
  /\ cur \in Tasks /\ state[cur] = "RUNNING"
  /\ state' = [state EXCEPT ![cur] = "READY"]
  /\ cpuid' = [cpuid EXCEPT ![cur] = c]
  /\ phase' = [phase EXCEPT ![c] = "sched"]
  /\ pc' = [pc EXCEPT ![stack[c]] = "finish"]
  /\ UNCHANGED <<onrq, disp, oncpu, owner, parkVars, envVars, donee,
                 current, swout, stack, pick>>

-----------------------------------------------------------------------------
TaskStep(c, t) ==
  \/ \E m \in Modes, d \in BOOLEAN : Prepare(c, t, m, d)
  \/ Cancel(c, t)
  \/ Commit(c, t)
  \/ \E u \in Tasks : DonatePeek(c, t, u)
  \/ CommitDonate(c, t)
  \/ DonateWake(c, t)
  \/ Finish(c, t)
  \/ Yield(c, t)
  \/ StopCurrent(c, t)
  \/ DeliverSignals(c, t)
  \/ Exit(c, t)

OtherStep(t) ==
  \/ \E s \in 1..MaxSeq : s <= seq[t] /\ TryWake(t, s)
  \/ TimerExpire(t)
  \/ \E s \in 1..MaxSeq : TimerWake(t, s)
  \/ \E k \in Kinds : SendSignal(t, k)
  \/ \E k \in Kinds : ResumeStopped(t, k)
  \/ \E k \in Kinds \cap {"SIGNAL", "FATAL"} : InterruptWait(t, k)
  \/ ForceExit(t)
  \/ MakeReady(t)
  \/ Reap(t)

CpuStep(c) ==
  \/ \E t \in Tasks : DropThrottled(c, t)
  \/ \E t \in Tasks : PickTask(c, t)
  \/ PickNothing(c)
  \/ Charge(c)
  \/ \E t \in Tasks : Unthrottle(c, t)
  \/ Dispatch(c)
  \/ GiveBack(c)
  \/ KeepCurrent(c)
  \/ FallToIdle(c)
  \/ FinishPending(c)
  \/ SetCurrent(c)
  \/ PublishNext(c)
  \/ Switch(c)
  \/ SwitchComplete(c)
  \/ PreemptInSwitch(c)

Next ==
  \/ \E c \in CPUs, t \in Tasks : TaskStep(c, t)
  \/ \E t \in Tasks : OtherStep(t)
  \/ \E c \in CPUs : CpuStep(c)

Spec == Init /\ [][Next]_vars

-----------------------------------------------------------------------------
(* Fairness the code's scheduling justifies.                               *)
(*  - sched() and the switch run with interrupts masked and never wait, so *)
(*    a CPU inside them goes on;                                           *)
(*  - the picker is fair inside a class: EEVDF deadlines advance with the  *)
(*    time a task runs, so a queued task is not passed over for ever and   *)
(*    the current task does not keep its CPU for ever (Rank is constant in *)
(*    the liveness runs);                                                  *)
(*  - the tick ends a time slice, and a task that gets the CPU again and   *)
(*    again continues with the park call it is in;                         *)
(*  - a caller that has taken work off a list (an expired timer, a queued  *)
(*    signal, a task to publish) finishes its own loop.                    *)
CpuGoesOn(c) ==
  \/ PickNothing(c) \/ \E t \in Tasks : PickTask(c, t)
  \/ Dispatch(c) \/ GiveBack(c) \/ KeepCurrent(c) \/ FallToIdle(c)
  \/ FinishPending(c) \/ SetCurrent(c) \/ PublishNext(c) \/ Switch(c)
  \/ SwitchComplete(c)

TaskGoesOn(t) ==
  \E c \in CPUs : \/ Cancel(c, t) \/ Commit(c, t) \/ CommitDonate(c, t)
                  \/ DonateWake(c, t) \/ Finish(c, t)

SenderGoesOn(t) ==
  \/ MakeReady(t) \/ TimerExpire(t)
  \/ \E s \in 1..MaxSeq : TimerWake(t, s)
  \/ \E k \in Kinds : ResumeStopped(t, k)
  \/ \E k \in Kinds \cap {"SIGNAL", "FATAL"} : InterruptWait(t, k)

Fairness ==
  /\ \A c \in CPUs :
       /\ WF_vars(CpuGoesOn(c))
       /\ \A t \in Tasks :
            /\ SF_vars(PickTask(c, t))
            /\ SF_vars(pick[c] = t /\ Dispatch(c))
            /\ WF_vars(Yield(c, t))
  /\ \A t \in Tasks : SF_vars(TaskGoesOn(t)) /\ WF_vars(SenderGoesOn(t))

FairSpec == Spec /\ Fairness
-----------------------------------------------------------------------------
(* Properties.                                                             *)

SchedType ==
  /\ state \in [Tasks -> States]
  /\ onrq \in [Tasks -> BOOLEAN] /\ disp \in [Tasks -> BOOLEAN]
  /\ oncpu \in [Tasks -> BOOLEAN]
  /\ owner \in [Tasks -> CPUs \cup {None}] /\ cpuid \in [Tasks -> CPUs]

ParkType ==
  /\ park \in [Tasks -> {"IDLE", "PREPARING", "PARKED", "WOKEN"}]
  /\ seq \in [Tasks -> 0..MaxSeq] /\ mode \in [Tasks -> {UNINT, KILL, INTR}]
  /\ reason \in [Tasks -> Reasons] /\ timed \in [Tasks -> BOOLEAN]
  /\ timer \in [Tasks -> 0..MaxSeq]

EnvType ==
  /\ fired \subseteq Tasks \X (1..MaxSeq)
  /\ pend \in [Tasks -> SUBSET Kinds]
  /\ inflight \subseteq Tasks \X Kinds \X {"resume", "wake"}
  /\ toready \subseteq Tasks /\ thr \in [Tasks -> BOOLEAN]

ControlType ==
  /\ pc \in [Tasks -> PCs]
  /\ donee \in [Tasks -> Tasks \cup {None}]
  /\ current \in [CPUs -> Tasks \cup {Idle}]
  /\ swout \in [CPUs -> Tasks \cup {Idle, None}]
  /\ stack \in [CPUs -> Tasks \cup {Idle}]
  /\ phase \in [CPUs -> Phases]
  /\ pick \in [CPUs -> Tasks \cup {Idle, None}]

\* Every variable has the type of the field or slot it stands for.
TypeOK == SchedType /\ ParkType /\ EnvType /\ ControlType

\* proc_sched_assert_task_locked(): a task is queued, picked or on a CPU, never
\* two of them; it has an owner CPU exactly when it is picked or on a CPU; a
\* queued or picked task is READY, a RUNNING one is on a CPU and a reaped one is
\* not; a PARKED task is BLOCKED and a PREPARING one can run.
SchedState ==
  \A t \in Tasks :
    /\ ~(onrq[t] /\ (disp[t] \/ oncpu[t])) /\ ~(disp[t] /\ oncpu[t])
    /\ (disp[t] \/ oncpu[t]) <=> owner[t] # None
    /\ (onrq[t] \/ disp[t]) => state[t] = "READY"
    /\ state[t] = "RUNNING" => oncpu[t]
    /\ state[t] = "UNUSED" => ~oncpu[t]
    /\ park[t] = "PARKED" => state[t] = "BLOCKED"
    /\ park[t] = "PREPARING" => state[t] \in {"RUNNING", "READY"}

\* The CPU slots of current.c agree with the task flags: a task that owns a
\* CPU is that CPU's current task or the one it is switching out, a picked
\* task is the pick of its owner, and nobody else claims either.
CpuSlots ==
  \A t \in Tasks :
    /\ oncpu[t] => swout[owner[t]] = t \/ current[owner[t]] = t
    /\ disp[t] => pick[owner[t]] = t
    /\ \A c \in CPUs :
         /\ swout[c] = t \/ stack[c] = t => oncpu[t] /\ owner[t] = c
         /\ current[c] = t => owner[t] = c /\ (oncpu[t] \/ phase[c] = "publish")
         /\ pick[c] = t => disp[t] /\ owner[t] = c

\* No lost wakeup: a READY task is queued, picked, on a CPU, about to be
\* published by proc_make_ready(), or marked throttled, so that the unthrottle
\* of its cgroup will publish it.
ReadyIsOwned ==
  \A t \in Tasks : state[t] = "READY" =>
     onrq[t] \/ disp[t] \/ oncpu[t] \/ t \in toready \/ thr[t]

\* A task never executes on a stack whose CPU ownership it has given up, and
\* no two CPUs execute on one stack: the "switch window is invisible to
\* interrupts" rule of sched() (kernel/proc/sched.c, above the pick).
StackOwned ==
  \A c \in CPUs : stack[c] \in Tasks => oncpu[stack[c]] /\ owner[stack[c]] = c

\* The window rule of sched(): donation is the one switch that is not masked,
\* and it is harmless without preemption or where proc_current() follows the
\* stack.
SwitchWindowSafe == ~KernelPreempt \/ Donors = {} \/ FastCurrent

\* What each phase of a switch knows about the CPU's slots.  A current task
\* that has entered sched() is not RUNNING until the same CPU decides to keep
\* it, and the outgoing task is never the current one: this is why releasing
\* the outgoing task's ownership can never release the stack in use.
SlotPhases ==
  \A c \in CPUs :
    /\ phase[c] \in {"run", "sched", "recheck", "late", "published", "complete"}
         => pick[c] = None
    /\ phase[c] = "picked" => pick[c] \in Tasks
    /\ phase[c] \in {"switch", "setcur", "publish"} => pick[c] # None
    /\ phase[c] \in {"run", "setcur"} => swout[c] = None
    /\ phase[c] \in {"publish", "published"} => swout[c] = stack[c]
    /\ phase[c] \notin {"publish", "published"} => stack[c] = current[c]
    /\ phase[c] = "publish" => current[c] = pick[c]
    /\ phase[c] \in {"sched", "picked", "late", "switch", "setcur"}
          /\ current[c] \in Tasks => state[current[c]] # "RUNNING"
    /\ swout[c] \in Tasks => swout[c] # current[c] /\ state[swout[c]] # "RUNNING"
    /\ phase[c] \in {"sched", "picked", "recheck", "late", "switch"}
          /\ swout[c] # None => stack[c] \in Donors /\ pc[stack[c]] = "finish"

\* Where a task is in the park API determines what its token can be.
TokenPhases ==
  \A t \in Tasks :
    /\ pc[t] = "user" => park[t] = "IDLE"
    /\ pc[t] \in {"token", "peeked"} => park[t] \in {"PREPARING", "WOKEN"}
    /\ pc[t] \in {"donate", "donated", "finish"} => park[t] \in {"PARKED", "WOKEN"}
    /\ pc[t] \in {"peeked", "donate", "donated"} => t \in Donors
    /\ pc[t] \in {"peeked", "donate"} => donee[t] \in Tasks
    /\ pc[t] = "donate" => /\ state[t] # "RUNNING" /\ oncpu[t]
                          /\ current[owner[t]] = t /\ phase[owner[t]] = "run"
    /\ state[t] = "BLOCKED" <=> park[t] = "PARKED"
    /\ state[t] \in {"STOPPED", "ZOMBIE", "UNUSED"} => pc[t] = "user"
    /\ pc[t] # "user" => seq[t] # 0

\* Only members of a cgroup with a quota are ever throttled off their queue,
\* and unless the kernel preempts itself none of them is then between the
\* prepare and the commit of a wait.
ThrottleWindowSafe == ~KernelPreempt \/ Throttled = {}

\* ReadyIsOwned, strengthened where it holds: a wake of a PREPARING token queues
\* nobody, so a task that waits to be published must not have one.
ReadyOwnedOrNew ==
  /\ \A t \in Tasks : thr[t] => t \in Throttled
  /\ \A t \in Tasks :
       ~KernelPreempt /\ park[t] = "PREPARING" => state[t] = "RUNNING"
  /\ ~KernelPreempt \/ Throttled = {} =>
       \A t \in Tasks :
         state[t] = "READY" /\ ~onrq[t] /\ ~disp[t] /\ ~oncpu[t]
           => park[t] # "PREPARING" /\ (t \in toready \/ thr[t])

\* A reaped task's stack is in no CPU's use and no queue or slot names it.
ReapedIsQuiet ==
  \A t \in Tasks : state[t] = "UNUSED" =>
    /\ ~onrq[t] /\ ~disp[t] /\ ~oncpu[t]
    /\ \A c \in CPUs : stack[c] # t /\ current[c] # t /\ swout[c] # t

\* The token discipline the debug panics of park.c check: a task in user code
\* has no live token (no nested prepare), and a task that came back from the
\* commit finds its token WOKEN, never still waiting.
TokenDiscipline ==
  \A t \in Tasks :
    /\ pc[t] = "user" => park[t] = "IDLE"
    /\ pc[t] \in {"finish", "donated"} /\ state[t] = "RUNNING"
         => park[t] = "WOKEN"

\* The timer heap names only live waits, so a finished wait leaves no entry
\* behind that would make the next registration a duplicate.
TimerIsLive ==
  \A t \in Tasks : timer[t] # 0 =>
     timer[t] = seq[t] /\ park[t] \in {"PREPARING", "PARKED"}

\* A wait with a deadline is always going to time out: its entry is in the
\* heap, or has been taken off and its wake is still to come.
DeadlineCovered ==
  \A t \in Tasks : timed[t] => timer[t] = seq[t] \/ <<t, seq[t]>> \in fired

\* A signal or forced exit never finds a task asleep in a wait it may
\* interrupt without its sender still being about to wake it.
InterruptNotLost ==
  \A t \in Tasks : park[t] \in {"PREPARING", "PARKED"} =>
    /\ mode[t] = INTR /\ "SIGNAL" \in pend[t] => <<t, "SIGNAL", "wake">> \in inflight
    /\ mode[t] # UNINT /\ "FATAL" \in pend[t] =>
          \E step \in {"resume", "wake"} : <<t, "FATAL", step>> \in inflight
    /\ mode[t] # UNINT => "EXIT" \notin pend[t]

\* SIGCONT versus stop: a task is never STOPPED with a continue, a fatal signal
\* or an exit pending unless the resume is still to come.
StopNotLost ==
  \A t \in Tasks, k \in {"CONT", "FATAL", "EXIT"} :
    state[t] = "STOPPED" /\ k \in pend[t] => <<t, k, "resume">> \in inflight

\* A zombie never runs again (proc_exit panics if sched() returns).
ZombieStays ==
  [][\A t \in Tasks : state[t] = "ZOMBIE" => state'[t] \in {"ZOMBIE", "UNUSED"}]_vars

\* A wait that was won, that has a deadline, or that a signal may interrupt
\* and has been sent one, comes to its end: the task runs and retires it.
WaitEnds ==
  \A t \in Tasks :
    (\/ park[t] = "WOKEN"
     \/ timed[t]
     \/ park[t] = "PARKED" /\ mode[t] = INTR /\ "SIGNAL" \in pend[t])
    ~> park[t] = "IDLE"

\* The wait each task is in, as its caller sees it: the heap entry and the
\* expired list together are its deadline.
Wait == INSTANCE ParkAbs WITH
  wait <- park, number <- seq, why <- reason,
  due <- [t \in Tasks |-> IF ~timed[t] THEN "NONE"
                          ELSE IF timer[t] = seq[t] THEN "AHEAD" ELSE "PASSED"]

\* The scheduler implements the promise of park.h: "Every wake carries
\* wait_seq, so a delayed event or timeout cannot wake a later wait by the same
\* task".  A wait ends once, for a reason it admits; it ends with a timeout
\* only when its own deadline has passed, however late the expired entry of an
\* earlier wait is processed, and the reason stays until the task retires it.
WaitSpec == Wait!Spec
=============================================================================
