------------------------------ MODULE Resched ------------------------------
(***************************************************************************)
(* Reschedule requests and idle sleep of the A20OS kernel: need_resched,   *)
(* the reschedule IPI and its coalescing, and the idle loop, in            *)
(* kernel/proc/sched.c, kernel/proc/proc.c and kernel/core/smp.c.          *)
(*                                                                         *)
(* Sched verifies who owns a task; this module asks whether a CPU that has *)
(* been given work ever notices it.  A wake is made in steps, by a task or *)
(* by an interrupt handler: queue the task, decide whether its CPU must be *)
(* told, mark need_resched, send the IPI.  A task that does this may be    *)
(* preempted between any two of them and go on elsewhere.                  *)
(***************************************************************************)
EXTENDS Integers, FiniteSets

CONSTANTS
  Tasks, CPUs,
  Idle,        \* the executing CPU's own idle task
  None,        \* NULL
  Rank,        \* [Tasks -> Nat]: 0 for an EEVDF task, else its RT priority
  Wakers       \* the tasks, and the CPUs whose interrupt handlers, that wake

Contexts == Tasks \cup CPUs
Wakes == [stage : {"decide", "request", "send"}, cpu : CPUs, prio : BOOLEAN]

ASSUME ReschedAssumption ==
  /\ Idle \notin Tasks /\ None \notin Tasks \cup {Idle} \cup Wakes
  /\ Tasks \cap CPUs = {}
  /\ Rank \in [Tasks -> Nat] /\ Wakers \subseteq Contexts

VARIABLES
  st,    \* the task's state: see States
  on,    \* cpu_id: the CPU a task is queued on, picked by or runs on
  cur,   \* g_cpu_current[]
  out,   \* g_cpu_switching_out[]
  need,  \* sched_cpu[].need_resched
  ipi,   \* a reschedule IPI is pending at the CPU
  mode,  \* where the CPU is: see Modes
  wake   \* the wake that a context is making, or None

\* "ready": READY but still owned by the CPU it ran on; "queued": on_rq;
\* "picked": dispatching.
States == {"blocked", "ready", "queued", "picked", "running"}

\* "run": task code; "loop": the idle loop before sched(); "sched": inside
\* sched(), interrupts enabled; "picked", "switch": the masked part, before and
\* after g_cpu_current[] is replaced; "idle": the idle loop after sched();
\* "prep": interrupts off, decided to sleep; "asleep": arch_idle_wait().
Modes == {"run", "loop", "sched", "picked", "switch", "idle", "prep", "asleep"}

vars == <<st, on, cur, out, need, ipi, mode, wake>>

\* Every CPU is in its idle loop; every task is still to be made ready, on the
\* CPU that was selected for it.
Init ==
  /\ st = [t \in Tasks |-> "blocked"]
  /\ on \in [Tasks -> CPUs]
  /\ cur = [c \in CPUs |-> Idle]
  /\ out = [c \in CPUs |-> None]
  /\ need = [c \in CPUs |-> FALSE]
  /\ ipi = [c \in CPUs |-> FALSE]
  /\ mode = [c \in CPUs |-> "loop"]
  /\ wake = [x \in Contexts |-> None]

-----------------------------------------------------------------------------
Queue(c) == {t \in Tasks : st[t] = "queued" /\ on[t] = c}
Picked(c) == {t \in Tasks : st[t] = "picked" /\ on[t] = c}
OnCpu(t) == \E c \in CPUs : t \in {cur[c], out[c]}

\* sched_task_strictly_preempts(): the answers it may give.  Two EEVDF tasks
\* are ordered by virtual deadlines, which move with the time they have run.
StrictlyPreempts(t, u) ==
  IF Rank[t] = 0 /\ Rank[u] = 0 THEN BOOLEAN ELSE {Rank[t] > Rank[u]}
Best(S) == {t \in S : \A u \in S : Rank[u] <= Rank[t]}

\* proc_sched_should_preempt_locked()
ShouldPreempt(t, c) ==
  IF cur[c] = Idle THEN {TRUE}
  ELSE IF cur[c] = t \/ st[cur[c]] # "running" THEN {FALSE}
  ELSE StrictlyPreempts(t, cur[c])

\* Context x executes on CPU e: a running task whose CPU is in no interrupt
\* handler, or the interrupt handler of e.
Executes(x, e) ==
  \/ x = e
  \/ x \in Tasks /\ cur[e] = x /\ mode[e] = "run" /\ wake[e] = None

\* The CPU takes interrupts and is not in one.
Open(c) == mode[c] \in {"run", "loop", "sched", "idle"} /\ wake[c] = None

-----------------------------------------------------------------------------
(* A wake.                                                                 *)

(* A definition named Bug... is the definition after it with a plausible   *)
(* mistake; no specification uses it.  It shows that a property notices.   *)

\* proc_try_wake_locked_common() or proc_make_ready(), under park_lock and the
\* runqueue lock: the task is queued on its CPU and compared with what that CPU
\* runs.  A task that is still on a CPU only becomes READY: its own sched()
\* keeps it or the end of its switch queues it.
Enqueue(x, e, t) ==
  /\ x \in Wakers /\ Executes(x, e) /\ wake[x] = None /\ (x = e => Open(e))
  /\ st[t] = "blocked"
  /\ IF OnCpu(t)
     THEN st' = [st EXCEPT ![t] = "ready"] /\ UNCHANGED wake
     ELSE /\ st' = [st EXCEPT ![t] = "queued"]
          /\ \E p \in ShouldPreempt(t, on[t]) :
               wake' = [wake EXCEPT ![x] =
                          [stage |-> "decide", cpu |-> on[t], prio |-> p]]
  /\ UNCHANGED <<on, cur, out, need, ipi, mode>>

BugDecideBetterOnly(x, e) ==
  LET w == wake[x] IN
  /\ Executes(x, e) /\ w # None /\ w.stage = "decide"
  /\ wake' = [wake EXCEPT ![x] =
                IF w.prio THEN [w EXCEPT !.stage = "request"] ELSE None]
  /\ UNCHANGED <<st, on, cur, out, need, ipi, mode>>

\* A remote CPU is always told; the local one only for a better task.
Decide(x, e) ==
  LET w == wake[x] IN
  /\ Executes(x, e) /\ w # None /\ w.stage = "decide"
  /\ wake' = [wake EXCEPT ![x] =
                IF w.cpu # e \/ w.prio THEN [w EXCEPT !.stage = "request"] ELSE None]
  /\ UNCHANGED <<st, on, cur, out, need, ipi, mode>>

\* proc_sched_request_cpu(): the exchange.  A request that finds one pending
\* relies on that one's IPI.
Request(x, e) ==
  LET w == wake[x] IN
  /\ Executes(x, e) /\ w # None /\ w.stage = "request"
  /\ need' = [need EXCEPT ![w.cpu] = TRUE]
  /\ wake' = [wake EXCEPT ![x] =
                IF need[w.cpu] THEN None ELSE [w EXCEPT !.stage = "send"]]
  /\ UNCHANGED <<st, on, cur, out, ipi, mode>>

\* smp_send_reschedule(), unless the CPU is the one it executes on by now.
Send(x, e) ==
  LET w == wake[x] IN
  /\ Executes(x, e) /\ w # None /\ w.stage = "send"
  /\ ipi' = [ipi EXCEPT ![w.cpu] = @ \/ w.cpu # e]
  /\ wake' = [wake EXCEPT ![x] = None]
  /\ UNCHANGED <<st, on, cur, out, need, mode>>

-----------------------------------------------------------------------------
(* A CPU.                                                                  *)

\* proc_sched_tick(): the slice of the running task is over.
Tick(c) ==
  /\ mode[c] = "run" /\ Open(c)
  /\ need' = [need EXCEPT ![c] = TRUE]
  /\ UNCHANGED <<st, on, cur, out, ipi, mode, wake>>

\* sched() is entered from the idle loop, from a task that gives way at a safe
\* point or an interrupt return because need_resched is set, or from one that
\* blocks, which is not in the middle of a wake.  It consumes the request.
EnterSched(c) ==
  /\ Open(c)
  /\ \/ mode[c] = "loop" /\ UNCHANGED st
     \/ /\ mode[c] = "run" /\ need[c]
        /\ st' = [st EXCEPT ![cur[c]] = "ready"]
     \/ /\ mode[c] = "run" /\ wake[cur[c]] = None
        /\ st' = [st EXCEPT ![cur[c]] = "blocked"]
  /\ mode' = [mode EXCEPT ![c] = "sched"]
  /\ need' = [need EXCEPT ![c] = FALSE]
  /\ UNCHANGED <<on, cur, out, ipi, wake>>

\* What sched_runq_steal_locked() may take from another CPU.
Stealable(c) ==
  {t \in Tasks : /\ st[t] = "queued" /\ on[t] # c /\ Rank[t] = 0
                 /\ Cardinality(Queue(on[t])) >= 2}

\* proc_runq_pick_local(), interrupts masked: the best queued task or, when
\* there is none, a stolen one or (a remote queue is only tried) nothing.
Pick(c) ==
  /\ mode[c] = "sched" /\ wake[c] = None
  /\ mode' = [mode EXCEPT ![c] = "picked"]
  /\ \/ /\ Queue(c) = {} /\ UNCHANGED <<st, on>>
     \/ \E t \in IF Queue(c) = {} THEN Stealable(c) ELSE Best(Queue(c)) :
          /\ st' = [st EXCEPT ![t] = "picked"]
          /\ on' = [on EXCEPT ![t] = c]
  /\ UNCHANGED <<cur, out, need, ipi, wake>>

\* sched() keeps the task it runs on if that is READY and strictly outranks the
\* picked one, which goes back, or if nothing was picked.
Keep(c) ==
  /\ mode[c] = "picked"
  /\ cur[c] # Idle => st[cur[c]] = "ready"
  /\ \A t \in Picked(c) : cur[c] # Idle /\ TRUE \in StrictlyPreempts(cur[c], t)
  /\ st' = [u \in Tasks |-> IF u = cur[c] THEN "running"
                            ELSE IF u \in Picked(c) THEN "queued" ELSE st[u]]
  /\ mode' = [mode EXCEPT ![c] = IF cur[c] = Idle THEN "idle" ELSE "run"]
  /\ UNCHANGED <<on, cur, out, need, ipi, wake>>

BugSwitchToNull(c) ==
  /\ mode[c] = "picked"
  /\ cur[c] # Idle /\ st[cur[c]] = "ready" =>
       Picked(c) # {} /\ \A t \in Picked(c) : FALSE \in StrictlyPreempts(cur[c], t)
  /\ cur[c] = Idle => Picked(c) # {}
  /\ cur' = [cur EXCEPT ![c] = IF Picked(c) = {} THEN None
                               ELSE CHOOSE t \in Picked(c) : TRUE]
  /\ out' = [out EXCEPT ![c] = cur[c]]
  /\ st' = [u \in Tasks |-> IF u \in Picked(c) THEN "running" ELSE st[u]]
  /\ mode' = [mode EXCEPT ![c] = "switch"]
  /\ UNCHANGED <<on, need, ipi, wake>>

\* Otherwise the picked task, or idle, is published in g_cpu_current[].
Switch(c) ==
  /\ mode[c] = "picked"
  /\ cur[c] # Idle /\ st[cur[c]] = "ready" =>
       Picked(c) # {} /\ \A t \in Picked(c) : FALSE \in StrictlyPreempts(cur[c], t)
  /\ cur[c] = Idle => Picked(c) # {}
  /\ cur' = [cur EXCEPT ![c] = IF Picked(c) = {} THEN Idle
                               ELSE CHOOSE t \in Picked(c) : TRUE]
  /\ out' = [out EXCEPT ![c] = cur[c]]
  /\ st' = [u \in Tasks |-> IF u \in Picked(c) THEN "running" ELSE st[u]]
  /\ mode' = [mode EXCEPT ![c] = "switch"]
  /\ UNCHANGED <<on, need, ipi, wake>>

\* proc_switch_complete(): a task that yielded, or that was woken while it was
\* being switched out, is queued now and compared with its successor.
SwitchComplete(c) ==
  LET old == out[c] IN
  /\ mode[c] = "switch"
  /\ out' = [out EXCEPT ![c] = None]
  /\ mode' = [mode EXCEPT ![c] = IF cur[c] = Idle THEN "idle" ELSE "run"]
  /\ IF old # Idle /\ st[old] = "ready"
     THEN /\ st' = [st EXCEPT ![old] = "queued"]
          /\ \E p \in ShouldPreempt(old, c) : need' = [need EXCEPT ![c] = @ \/ p]
     ELSE UNCHANGED <<st, need>>
  /\ UNCHANGED <<on, cur, ipi, wake>>

BugIdlePrepareForgets(c) ==
  /\ mode[c] = "idle" /\ wake[c] = None
  /\ mode' = [mode EXCEPT ![c] = IF Queue(c) = {} THEN "prep" ELSE "loop"]
  /\ UNCHANGED <<st, on, cur, out, need, ipi, wake>>

\* proc_sched_idle_prepare(), with interrupts off, under the runqueue lock.
IdlePrepare(c) ==
  /\ mode[c] = "idle" /\ wake[c] = None
  /\ mode' = [mode EXCEPT ![c] = IF Queue(c) = {} /\ ~need[c] THEN "prep"
                                 ELSE "loop"]
  /\ UNCHANGED <<st, on, cur, out, need, ipi, wake>>

\* A pending interrupt keeps arch_idle_wait() from sleeping.
IdleWait(c) ==
  /\ mode[c] = "prep" /\ ~ipi[c]
  /\ mode' = [mode EXCEPT ![c] = "asleep"]
  /\ UNCHANGED <<st, on, cur, out, need, ipi, wake>>

\* An IPI, a device or the timer ends the wait; a due timer, the preparation.
IdleWakes(c) ==
  /\ mode[c] \in {"prep", "asleep"}
  /\ mode' = [mode EXCEPT ![c] = "loop"]
  /\ UNCHANGED <<st, on, cur, out, need, ipi, wake>>

\* proc_sched_handle_reschedule_ipi() only acknowledges.
HandleIpi(c) ==
  /\ Open(c) /\ ipi[c]
  /\ ipi' = [ipi EXCEPT ![c] = FALSE]
  /\ UNCHANGED <<st, on, cur, out, need, mode, wake>>

-----------------------------------------------------------------------------
WakeStep(x, e) ==
  \/ \E t \in Tasks : Enqueue(x, e, t)
  \/ Decide(x, e) \/ Request(x, e) \/ Send(x, e)

CpuStep(c) ==
  \/ Tick(c) \/ EnterSched(c) \/ Pick(c) \/ Keep(c) \/ Switch(c)
  \/ SwitchComplete(c) \/ IdlePrepare(c) \/ IdleWait(c) \/ IdleWakes(c)
  \/ HandleIpi(c)

Next == (\E x \in Contexts, e \in CPUs : WakeStep(x, e)) \/ \E c \in CPUs : CpuStep(c)

Spec == Init /\ [][Next]_vars

-----------------------------------------------------------------------------
(* Properties.                                                             *)

\* Every variable has the type of the field it stands for.
TypeOK ==
  /\ st \in [Tasks -> States] /\ on \in [Tasks -> CPUs]
  /\ cur \in [CPUs -> Tasks \cup {Idle}]
  /\ out \in [CPUs -> Tasks \cup {Idle, None}]
  /\ need \in [CPUs -> BOOLEAN] /\ ipi \in [CPUs -> BOOLEAN]
  /\ mode \in [CPUs -> Modes] /\ wake \in [Contexts -> Wakes \cup {None}]

\* Context x will still send c an IPI or mark it, from a place where it does
\* not itself depend on c.
Telling(x, c, stages) ==
  /\ wake[x] # None /\ wake[x].cpu = c /\ wake[x].stage \in stages
  /\ x # c /\ (x \in Tasks => on[x] # c)

\* "An enqueue after this snapshot must send a reschedule IPI before the
\* target can remain idle" (proc_sched_idle_prepare): a CPU that has decided to
\* sleep while work is queued for it has an IPI pending, or somebody elsewhere
\* is on the way to sending it one.
IdleSeesWork ==
  \A c \in CPUs : mode[c] \in {"prep", "asleep"} /\ Queue(c) # {} =>
     ipi[c] \/ \E x \in Contexts : Telling(x, c, {"decide", "request", "send"})

\* A running task is never left alone with a task of a better class or priority
\* queued behind it: the CPU is marked, or the context that queued the better
\* task is about to do it.
PreemptionRequested ==
  \A c \in CPUs :
    mode[c] = "run" /\ (\E t \in Queue(c) : Rank[t] > Rank[cur[c]]) =>
     \/ need[c]
     \/ \E x \in Contexts : /\ wake[x] # None /\ wake[x].cpu = c
                            /\ wake[x].stage \in {"decide", "request"}
=============================================================================
