--------------------------- MODULE ReschedProofs ---------------------------
(***************************************************************************)
(* Proofs about Resched: a CPU that goes to sleep with work queued for it  *)
(* is told, and a running task is never left alone with a better one       *)
(* behind it, for every number of tasks, CPUs and priorities.              *)
(***************************************************************************)
EXTENDS Resched, TLAPS

\* A task that a CPU runs or is switching out is placed on that CPU and in no
\* queue.
Placed ==
  \A c \in CPUs, t \in Tasks : t \in {cur[c], out[c]} =>
    on[t] = c /\ st[t] \notin {"queued", "picked"}

\* What a CPU runs, and whether it takes interrupts, follow from where it is in
\* sched() and the idle loop.
Modal ==
  \A c \in CPUs :
    /\ mode[c] = "run" => cur[c] # Idle
    /\ mode[c] \in {"run", "switch"} /\ cur[c] # Idle => st[cur[c]] = "running"
    /\ mode[c] \in {"loop", "idle", "prep", "asleep"} => cur[c] = Idle
    /\ mode[c] = "switch" <=> out[c] # None
    /\ wake[c] # None => mode[c] \in {"run", "loop", "sched", "idle"}

\* A CPU picks one task at a time, in the masked part of sched().
Picks ==
  \A t, u \in Tasks : st[t] = "picked" =>
    /\ mode[on[t]] = "picked"
    /\ st[u] = "picked" /\ on[u] = on[t] => u = t

PInv == TypeOK /\ Placed /\ Modal /\ Picks

\* Who makes a wake is on the CPU it executes on; that CPU takes interrupts.
LEMMA WakerPlaced ==
  ASSUME PInv, NEW x \in Contexts, NEW e \in CPUs, Executes(x, e),
         wake[x] # None \/ (x = e => Open(e))
  PROVE  /\ mode[e] \in {"run", "loop", "sched", "idle"}
         /\ x \in Tasks => on[x] = e /\ st[x] = "running" /\ x # e
         /\ x \notin Tasks => x = e
<1>1. CASE x \in Tasks
  <2>1. x # e /\ cur[e] = x /\ mode[e] = "run" /\ x # Idle
    BY <1>1, ReschedAssumption DEF Executes
  <2> QED BY <1>1, <2>1 DEF PInv, Placed, Modal
<1>2. CASE x \notin Tasks
  BY <1>2 DEF Executes, PInv, Modal, Open
<1> QED BY <1>1, <1>2

\* A step that moves no task and no CPU.
LEMMA WakeP ==
  ASSUME PInv, NEW x \in Contexts, NEW e \in CPUs,
         Decide(x, e) \/ Request(x, e) \/ Send(x, e)
  PROVE  PInv'
<1> DEFINE w == wake[x]
<1>1. /\ w \in Wakes /\ UNCHANGED <<st, on, cur, out, mode>>
      /\ wake \in [Contexts -> Wakes \cup {None}] /\ w # None
      /\ need \in [CPUs -> BOOLEAN] /\ ipi \in [CPUs -> BOOLEAN]
  BY DEF Decide, Request, Send, PInv, TypeOK
<1>2. /\ [w EXCEPT !.stage = "request"] \in Wakes
      /\ [w EXCEPT !.stage = "send"] \in Wakes /\ w.cpu \in CPUs
  BY <1>1 DEF Wakes
<1>3. \/ wake' = [wake EXCEPT ![x] = None]
      \/ wake' = [wake EXCEPT ![x] = [w EXCEPT !.stage = "request"]]
      \/ wake' = [wake EXCEPT ![x] = [w EXCEPT !.stage = "send"]]
  BY DEF Decide, Request, Send
<1>4. need' \in [CPUs -> BOOLEAN] /\ ipi' \in [CPUs -> BOOLEAN]
  BY <1>1, <1>2 DEF Decide, Request, Send
<1>5. TypeOK'
  <2>1. wake' \in [Contexts -> Wakes \cup {None}]
    BY <1>1, <1>2, <1>3
  <2> QED BY <1>1, <1>4, <2>1 DEF PInv, TypeOK
<1>6. Placed' /\ Picks'
  BY <1>1 DEF PInv, Placed, Picks
<1>7. Modal'
  <2>1. \A c \in CPUs : wake'[c] # None => wake[c] # None
    BY <1>1, <1>3 DEF Contexts
  <2> QED BY <1>1, <2>1 DEF PInv, Modal
<1> QED BY <1>5, <1>6, <1>7 DEF PInv

\* The answers of sched_task_strictly_preempts() are Booleans, and a better
\* rank is always a yes and never holds for the other side.
LEMMA PreemptAnswers ==
  ASSUME NEW t \in Tasks, NEW u \in Tasks
  PROVE  /\ StrictlyPreempts(t, u) \subseteq BOOLEAN
         /\ Rank[t] > Rank[u] => \A p \in StrictlyPreempts(t, u) : p
         /\ TRUE \in StrictlyPreempts(t, u) => Rank[u] <= Rank[t]
         /\ FALSE \in StrictlyPreempts(t, u) => Rank[t] <= Rank[u]
<1>1. Rank[t] \in Nat /\ Rank[u] \in Nat
  BY ReschedAssumption
<1>2. CASE Rank[t] = 0 /\ Rank[u] = 0
  BY <1>2 DEF StrictlyPreempts
<1>3. CASE ~(Rank[t] = 0 /\ Rank[u] = 0) /\ Rank[t] > Rank[u]
  <2>1. StrictlyPreempts(t, u) = {TRUE}
    BY <1>3 DEF StrictlyPreempts
  <2> QED BY <1>1, <1>3, <2>1
<1>4. CASE ~(Rank[t] = 0 /\ Rank[u] = 0) /\ ~(Rank[t] > Rank[u])
  <2>1. (Rank[t] > Rank[u]) = FALSE
    BY <1>4
  <2>2. StrictlyPreempts(t, u) = {FALSE}
    BY <1>4, <2>1 DEF StrictlyPreempts
  <2> QED BY <1>1, <1>4, <2>2
<1> QED BY <1>2, <1>3, <1>4

\* proc_sched_should_preempt_locked() answers yes for a task that is better than
\* the one that runs.
LEMMA ShouldPreemptAnswers ==
  ASSUME PInv, NEW t \in Tasks, NEW c \in CPUs
  PROVE  /\ ShouldPreempt(t, c) \subseteq BOOLEAN
         /\ cur[c] # Idle /\ cur[c] # t /\ st[cur[c]] = "running"
              /\ Rank[t] > Rank[cur[c]] => \A p \in ShouldPreempt(t, c) : p
<1>1. CASE cur[c] = Idle \/ cur[c] = t \/ st[cur[c]] # "running"
  BY <1>1 DEF ShouldPreempt
<1>2. CASE ~(cur[c] = Idle \/ cur[c] = t \/ st[cur[c]] # "running")
  <2>1. cur[c] \in Tasks /\ ShouldPreempt(t, c) = StrictlyPreempts(t, cur[c])
    BY <1>2 DEF ShouldPreempt, PInv, TypeOK
  <2> QED BY <2>1, PreemptAnswers
<1> QED BY <1>1, <1>2

\* A wake queues a task that no CPU holds, or makes READY one that a CPU does.
LEMMA EnqueueP ==
  ASSUME PInv, NEW x \in Contexts, NEW e \in CPUs, NEW t \in Tasks, Enqueue(x, e, t)
  PROVE  /\ PInv' /\ UNCHANGED <<on, cur, out, need, ipi, mode>>
         /\ \/ st' = [st EXCEPT ![t] = "ready"] /\ wake' = wake
            \/ /\ st' = [st EXCEPT ![t] = "queued"] /\ \A c \in CPUs : cur[c] # t
               /\ \E p \in ShouldPreempt(t, on[t]) :
                    wake' = [wake EXCEPT ![x] =
                               [stage |-> "decide", cpu |-> on[t], prio |-> p]]
<1>1. /\ st[t] = "blocked" /\ UNCHANGED <<on, cur, out, need, ipi, mode>>
      /\ Executes(x, e) /\ (x = e => Open(e))
  BY DEF Enqueue
<1>2. st \in [Tasks -> States] /\ wake \in [Contexts -> Wakes \cup {None}]
      /\ on[t] \in CPUs
  BY DEF PInv, TypeOK
<1>3. CASE OnCpu(t)
  <2>1. st' = [st EXCEPT ![t] = "ready"] /\ wake' = wake
    BY <1>3 DEF Enqueue
  <2>2. TypeOK' /\ Placed' /\ Picks'
    BY <1>1, <1>2, <2>1 DEF PInv, TypeOK, Placed, Picks, States
  <2>3. Modal'
    BY <1>1, <1>2, <2>1 DEF PInv, Modal, TypeOK
  <2> QED BY <1>1, <2>1, <2>2, <2>3 DEF PInv
<1>4. CASE ~OnCpu(t)
  <2>1. st' = [st EXCEPT ![t] = "queued"]
    BY <1>4 DEF Enqueue
  <2>2. PICK p \in ShouldPreempt(t, on[t]) :
          wake' = [wake EXCEPT ![x] = [stage |-> "decide", cpu |-> on[t], prio |-> p]]
    BY <1>4 DEF Enqueue
  <2>3. p \in BOOLEAN
    BY ShouldPreemptAnswers, <1>2
  <2>4. [stage |-> "decide", cpu |-> on[t], prio |-> p] \in Wakes
    BY <1>2, <2>3 DEF Wakes
  <2>5. wake' \in [Contexts -> Wakes \cup {None}]
    BY <1>2, <2>2, <2>4
  <2>6. \A c \in CPUs : t # cur[c] /\ t # out[c]
    BY <1>4 DEF OnCpu
  <2>7. TypeOK' /\ Placed' /\ Picks'
    BY <1>1, <1>2, <2>1, <2>5, <2>6 DEF PInv, TypeOK, Placed, Picks, States
  <2>8. \A c \in CPUs : wake'[c] # None => mode[c] \in {"run", "loop", "sched", "idle"}
    <3>1. \A c \in CPUs : c # x => wake'[c] = wake[c]
      BY <1>2, <2>2 DEF Contexts
    <3>2. x \in CPUs => mode[x] \in {"run", "loop", "sched", "idle"}
      BY <1>1, WakerPlaced, ReschedAssumption
    <3> QED BY <3>1, <3>2 DEF PInv, Modal
  <2>9. Modal'
    BY <1>1, <1>2, <2>1, <2>6, <2>8 DEF PInv, Modal, TypeOK
  <2> QED BY <1>1, <2>1, <2>2, <2>6, <2>7, <2>9 DEF PInv
<1> QED BY <1>3, <1>4

\* The steps of a CPU that move no task.
LEMMA QuietP ==
  ASSUME PInv, NEW c \in CPUs,
         \/ Tick(c) \/ IdlePrepare(c) \/ IdleWait(c) \/ IdleWakes(c) \/ HandleIpi(c)
  PROVE  PInv'
<1>1. UNCHANGED <<st, on, cur, out, wake>>
  BY DEF Tick, IdlePrepare, IdleWait, IdleWakes, HandleIpi
<1>2. /\ mode \in [CPUs -> Modes] /\ need \in [CPUs -> BOOLEAN]
      /\ ipi \in [CPUs -> BOOLEAN]
  BY DEF PInv, TypeOK
<1>3. /\ need' \in [CPUs -> BOOLEAN] /\ ipi' \in [CPUs -> BOOLEAN]
      /\ mode' \in [CPUs -> Modes]
  BY <1>2 DEF Tick, IdlePrepare, IdleWait, IdleWakes, HandleIpi, Modes
<1>4. TypeOK'
  BY <1>1, <1>3 DEF PInv, TypeOK
<1>5. /\ \A d \in CPUs : d # c => mode'[d] = mode[d]
      /\ \/ mode'[c] = mode[c]
         \/ /\ mode[c] \in {"idle", "prep", "asleep"} /\ wake[c] = None
            /\ mode'[c] \in {"loop", "prep", "asleep"}
  BY <1>2 DEF Tick, IdlePrepare, IdleWait, IdleWakes, HandleIpi, PInv, Modal
<1>6. Placed' /\ Picks'
  BY <1>1, <1>5 DEF PInv, TypeOK, Placed, Picks
<1>7. Modal'
  BY <1>1, <1>5 DEF PInv, Modal
<1> QED BY <1>4, <1>6, <1>7 DEF PInv

\* sched() is entered.
LEMMA EnterP ==
  ASSUME PInv, NEW c \in CPUs, EnterSched(c)
  PROVE  PInv'
<1>1. /\ mode' = [mode EXCEPT ![c] = "sched"] /\ need' = [need EXCEPT ![c] = FALSE]
      /\ UNCHANGED <<on, cur, out, ipi, wake>> /\ mode[c] \in {"run", "loop"}
      /\ \/ st' = st
         \/ mode[c] = "run" /\ st' = [st EXCEPT ![cur[c]] = "ready"]
         \/ mode[c] = "run" /\ st' = [st EXCEPT ![cur[c]] = "blocked"]
  BY DEF EnterSched, Open
<1>2. TypeOK
  BY DEF PInv
<1>3. mode[c] = "run" => cur[c] \in Tasks
  BY <1>2 DEF PInv, Modal, TypeOK
<1>4. TypeOK'
  BY <1>1, <1>2, <1>3 DEF TypeOK, States, Modes
<1>5. \A u \in Tasks : \/ st'[u] = st[u]
                       \/ mode[c] = "run" /\ u = cur[c] /\ st'[u] \in {"ready", "blocked"}
  BY <1>1, <1>2 DEF TypeOK
<1>6. Placed' /\ Picks'
  BY <1>1, <1>2, <1>5 DEF PInv, Placed, Picks, TypeOK
<1>7. Modal'
  <2>1. \A d \in CPUs : d # c => mode'[d] = mode[d]
    BY <1>1, <1>2 DEF TypeOK
  <2>2. mode'[c] = "sched" /\ out[c] = None
    BY <1>1, <1>2 DEF TypeOK, PInv, Modal
  <2>3. \A d \in CPUs : d # c /\ cur[d] # Idle => st'[cur[d]] = st[cur[d]]
    <3> SUFFICES ASSUME NEW d \in CPUs, d # c, cur[d] # Idle
                 PROVE  st'[cur[d]] = st[cur[d]]
      OBVIOUS
    <3>1. cur[d] \in Tasks /\ on[cur[d]] = d
      BY <1>2 DEF TypeOK, PInv, Placed
    <3>2. cur[d] # cur[c]
      BY <3>1 DEF PInv, Placed
    <3> QED BY <1>5, <3>1, <3>2
  <2> QED BY <1>1, <2>1, <2>2, <2>3 DEF PInv, Modal
<1> QED BY <1>4, <1>6, <1>7 DEF PInv

\* The pick takes a queued task, its own or a stolen one.
LEMMA PickP ==
  ASSUME PInv, NEW c \in CPUs, Pick(c)
  PROVE  PInv'
<1>1. /\ mode[c] = "sched" /\ wake[c] = None /\ mode' = [mode EXCEPT ![c] = "picked"]
      /\ UNCHANGED <<cur, out, need, ipi, wake>>
  BY DEF Pick
<1>2. TypeOK
  BY DEF PInv
<1>3. \A u \in Tasks : st[u] = "picked" => on[u] # c
  BY <1>1 DEF PInv, Picks
<1>4. CASE UNCHANGED <<st, on>>
  <2>1. TypeOK'
    BY <1>1, <1>2, <1>4 DEF TypeOK, Modes
  <2>2. Placed' /\ Picks'
    BY <1>1, <1>2, <1>3, <1>4 DEF PInv, Placed, Picks, TypeOK
  <2>3. Modal'
    BY <1>1, <1>2, <1>4 DEF PInv, Modal, TypeOK
  <2> QED BY <2>1, <2>2, <2>3 DEF PInv
<1>5. ASSUME NEW t \in Tasks, st[t] = "queued", st' = [st EXCEPT ![t] = "picked"],
             on' = [on EXCEPT ![t] = c]
      PROVE  PInv'
  <2>1. TypeOK'
    BY <1>1, <1>2, <1>5 DEF TypeOK, Modes, States
  <2>2. \A d \in CPUs : t # cur[d] /\ t # out[d]
    BY <1>5 DEF PInv, Placed
  <2>3. Placed'
    BY <1>1, <1>2, <1>5, <2>2 DEF PInv, Placed, TypeOK
  <2>4. Picks'
    BY <1>1, <1>2, <1>3, <1>5 DEF PInv, Picks, TypeOK
  <2>5. Modal'
    BY <1>1, <1>2, <1>5, <2>2 DEF PInv, Modal, TypeOK
  <2> QED BY <2>1, <2>3, <2>4, <2>5 DEF PInv
<1>6. UNCHANGED <<st, on>> \/ \E t \in Tasks : /\ st[t] = "queued"
                                               /\ st' = [st EXCEPT ![t] = "picked"]
                                               /\ on' = [on EXCEPT ![t] = c]
  BY DEF Pick, Queue, Best, Stealable
<1> QED BY <1>4, <1>5, <1>6

\* sched() goes on with the task it came from.
LEMMA KeepP ==
  ASSUME PInv, NEW c \in CPUs, Keep(c)
  PROVE  PInv'
<1>1. /\ mode[c] = "picked" /\ (cur[c] # Idle => st[cur[c]] = "ready")
      /\ st' = [u \in Tasks |-> IF u = cur[c] THEN "running"
                                ELSE IF u \in Picked(c) THEN "queued" ELSE st[u]]
      /\ mode' = [mode EXCEPT ![c] = IF cur[c] = Idle THEN "idle" ELSE "run"]
      /\ UNCHANGED <<on, cur, out, need, ipi, wake>>
  BY DEF Keep
<1>2. TypeOK
  BY DEF PInv
<1>3. \A u \in Tasks : st'[u] = IF u = cur[c] THEN "running"
                                ELSE IF st[u] = "picked" /\ on[u] = c THEN "queued"
                                ELSE st[u]
  BY <1>1 DEF Picked
<1>4. TypeOK'
  <2>1. st' \in [Tasks -> States]
    BY <1>1, <1>2 DEF TypeOK, States
  <2> QED BY <1>1, <1>2, <2>1 DEF TypeOK, Modes
<1>5. Placed' /\ Picks'
  BY <1>1, <1>2, <1>3 DEF PInv, Placed, Picks, TypeOK
<1>6. Modal'
  <2>1. \A d \in CPUs : d # c => mode'[d] = mode[d]
    BY <1>1, <1>2 DEF TypeOK
  <2>2. \A d \in CPUs : d # c /\ cur[d] # Idle => st'[cur[d]] = st[cur[d]]
    BY <1>2, <1>3 DEF PInv, Placed, TypeOK
  <2>3. mode'[c] = (IF cur[c] = Idle THEN "idle" ELSE "run") /\ out[c] = None
    BY <1>1, <1>2 DEF TypeOK, PInv, Modal
  <2>4. cur[c] # Idle => st'[cur[c]] = "running"
    BY <1>2, <1>3 DEF TypeOK
  <2>5. wake[c] = None
    BY <1>1 DEF PInv, Modal
  <2> QED BY <1>1, <2>1, <2>2, <2>3, <2>4, <2>5 DEF PInv, Modal
<1> QED BY <1>4, <1>5, <1>6 DEF PInv

\* The successor is published: the picked task, now running, or idle.
LEMMA SwitchP ==
  ASSUME PInv, NEW c \in CPUs, Switch(c)
  PROVE  /\ PInv'
         /\ cur'[c] # Idle => cur'[c] \in Picked(c)
         /\ Picked(c) # {} => cur'[c] \in Picked(c)
<1>1. /\ mode[c] = "picked" /\ cur' = [cur EXCEPT ![c] = IF Picked(c) = {} THEN Idle
                                          ELSE CHOOSE t \in Picked(c) : TRUE]
      /\ out' = [out EXCEPT ![c] = cur[c]]
      /\ st' = [u \in Tasks |-> IF u \in Picked(c) THEN "running" ELSE st[u]]
      /\ mode' = [mode EXCEPT ![c] = "switch"] /\ UNCHANGED <<on, need, ipi, wake>>
  BY DEF Switch
<1>2. TypeOK
  BY DEF PInv
<1>3. (cur'[c] = Idle /\ Picked(c) = {}) \/ cur'[c] \in Picked(c)
  <2>1. cur'[c] = IF Picked(c) = {} THEN Idle ELSE CHOOSE t \in Picked(c) : TRUE
    BY <1>1, <1>2 DEF TypeOK
  <2>2. Picked(c) # {} => (CHOOSE t \in Picked(c) : TRUE) \in Picked(c)
    OBVIOUS
  <2> QED BY <2>1, <2>2
<1>4. /\ Picked(c) \subseteq Tasks
      /\ \A u \in Tasks : u \in Picked(c) <=> st[u] = "picked" /\ on[u] = c
  BY DEF Picked
<1>5. \A u \in Tasks : st'[u] = IF u \in Picked(c) THEN "running" ELSE st[u]
  BY <1>1
<1>6. /\ \A d \in CPUs : d # c => cur'[d] = cur[d] /\ out'[d] = out[d] /\ mode'[d] = mode[d]
      /\ out'[c] = cur[c] /\ mode'[c] = "switch"
  BY <1>1, <1>2 DEF TypeOK
<1>7. TypeOK'
  <2>1. st' \in [Tasks -> States]
    BY <1>1, <1>2 DEF TypeOK, States
  <2>2. cur' \in [CPUs -> Tasks \cup {Idle}]
    BY <1>1, <1>2, <1>3, <1>4, <1>6 DEF TypeOK
  <2> QED BY <1>1, <1>2, <2>1, <2>2 DEF TypeOK, Modes
<1>8. Placed'
  <2> SUFFICES ASSUME NEW d \in CPUs, NEW t \in Tasks, t \in {cur'[d], out'[d]}
               PROVE  on'[t] = d /\ st'[t] \notin {"queued", "picked"}
    BY DEF Placed
  <2>1. CASE d # c
    BY <1>1, <1>4, <1>5, <1>6, <2>1 DEF PInv, Placed
  <2>2. CASE d = c /\ t = cur'[c]
    BY <1>1, <1>3, <1>4, <1>5, <2>2, ReschedAssumption
  <2>3. CASE d = c /\ t = out'[c]
    BY <1>1, <1>4, <1>5, <1>6, <2>3 DEF PInv, Placed
  <2> QED BY <2>1, <2>2, <2>3
<1>9. Picks'
  BY <1>1, <1>2, <1>4, <1>5, <1>6 DEF PInv, Picks, TypeOK
<1>10. Modal'
  <2>1. \A d \in CPUs : d # c /\ cur[d] # Idle => st'[cur[d]] = st[cur[d]]
    BY <1>2, <1>4, <1>5 DEF PInv, Placed, TypeOK
  <2>2. cur'[c] # Idle => st'[cur'[c]] = "running"
    BY <1>3, <1>4, <1>5
  <2>3. out'[c] # None /\ wake[c] = None
    BY <1>1, <1>2, <1>6, ReschedAssumption DEF TypeOK, PInv, Modal
  <2>4. ASSUME NEW d \in CPUs
        PROVE  /\ mode'[d] = "run" => cur'[d] # Idle
               /\ mode'[d] \in {"run", "switch"} /\ cur'[d] # Idle => st'[cur'[d]] = "running"
               /\ mode'[d] \in {"loop", "idle", "prep", "asleep"} => cur'[d] = Idle
               /\ mode'[d] = "switch" <=> out'[d] # None
               /\ wake'[d] # None => mode'[d] \in {"run", "loop", "sched", "idle"}
    <3>1. CASE d = c
      BY <1>1, <1>6, <2>2, <2>3, <3>1
    <3>2. CASE d # c
      BY <1>1, <1>6, <2>1, <3>2 DEF PInv, Modal
    <3> QED BY <3>1, <3>2
  <2> QED BY <2>4 DEF Modal
<1> QED BY <1>3, <1>7, <1>8, <1>9, <1>10 DEF PInv

\* The old task is let go: queued if it is READY.
LEMMA SwitchedP ==
  ASSUME PInv, NEW c \in CPUs, SwitchComplete(c)
  PROVE  PInv'
<1>1. /\ mode[c] = "switch" /\ out' = [out EXCEPT ![c] = None]
      /\ mode' = [mode EXCEPT ![c] = IF cur[c] = Idle THEN "idle" ELSE "run"]
      /\ UNCHANGED <<on, cur, ipi, wake>>
  BY DEF SwitchComplete
<1>2. TypeOK
  BY DEF PInv
<1>3. out[c] \in Tasks \cup {Idle}
  BY <1>1, <1>2 DEF PInv, Modal, TypeOK
<1>4. \/ UNCHANGED <<st, need>>
      \/ /\ out[c] \in Tasks /\ st[out[c]] = "ready"
         /\ st' = [st EXCEPT ![out[c]] = "queued"]
         /\ \E p \in ShouldPreempt(out[c], c) : need' = [need EXCEPT ![c] = @ \/ p]
  BY <1>3 DEF SwitchComplete
<1>5. need' \in [CPUs -> BOOLEAN]
  BY <1>2, <1>4, ShouldPreemptAnswers DEF TypeOK
<1>6. TypeOK'
  BY <1>1, <1>2, <1>4, <1>5 DEF TypeOK, States, Modes
<1>7. /\ \A d \in CPUs : d # c => out'[d] = out[d] /\ mode'[d] = mode[d]
      /\ out'[c] = None /\ mode'[c] = IF cur[c] = Idle THEN "idle" ELSE "run"
  BY <1>1, <1>2 DEF TypeOK
<1>8. \A u \in Tasks : \/ st'[u] = st[u]
                       \/ u = out[c] /\ st[u] = "ready" /\ st'[u] = "queued"
  BY <1>2, <1>4 DEF TypeOK
<1>9. \A d \in CPUs : cur[d] # Idle /\ cur[d] = out[c] => st[cur[d]] # "ready"
  BY <1>1, <1>2 DEF PInv, Placed, Modal, TypeOK
<1>10. Placed'
  <2> SUFFICES ASSUME NEW d \in CPUs, NEW t \in Tasks, t \in {cur'[d], out'[d]}
               PROVE  on'[t] = d /\ st'[t] \notin {"queued", "picked"}
    BY DEF Placed
  <2>1. t = cur[d] \/ (d # c /\ t = out[d])
    BY <1>1, <1>7, ReschedAssumption
  <2>2. on[t] = d /\ st[t] \notin {"queued", "picked"}
    BY <2>1 DEF PInv, Placed
  <2>3. st'[t] = st[t]
    <3>1. CASE t = cur[d]
      BY <1>8, <1>9, <3>1, ReschedAssumption
    <3>2. CASE d # c /\ t = out[d]
      BY <1>8, <2>2, <3>2 DEF PInv, Placed
    <3> QED BY <2>1, <3>1, <3>2
  <2> QED BY <1>1, <2>2, <2>3
<1>11. Picks'
  BY <1>1, <1>2, <1>7, <1>8 DEF PInv, Picks, TypeOK
<1>12. Modal'
  <2>1. \A d \in CPUs : cur[d] # Idle => st'[cur[d]] = st[cur[d]]
    BY <1>2, <1>8, <1>9 DEF TypeOK
  <2>2. wake[c] = None
    BY <1>1 DEF PInv, Modal
  <2> QED BY <1>1, <1>7, <2>1, <2>2 DEF PInv, Modal
<1> QED BY <1>6, <1>10, <1>11, <1>12 DEF PInv

\* Every CPU starts in its idle loop.
LEMMA PInit == Init => PInv
<1> SUFFICES ASSUME Init PROVE PInv
  OBVIOUS
<1>1. TypeOK
  BY DEF Init, TypeOK, States, Modes, Wakes, Contexts
<1>2. Placed /\ Modal /\ Picks
  BY ReschedAssumption DEF Init, Placed, Modal, Picks, Contexts
<1> QED BY <1>1, <1>2 DEF PInv

\* No step of a wake, of sched() or of the idle loop breaks the placement.
LEMMA PNext == PInv /\ [Next]_vars => PInv'
<1> SUFFICES ASSUME PInv, [Next]_vars PROVE PInv'
  OBVIOUS
<1>1. CASE UNCHANGED vars
  BY <1>1 DEF vars, PInv, TypeOK, Placed, Modal, Picks
<1>2. ASSUME NEW x \in Contexts, NEW e \in CPUs, WakeStep(x, e) PROVE PInv'
  BY <1>2, EnqueueP, WakeP DEF WakeStep
<1>3. ASSUME NEW c \in CPUs, CpuStep(c) PROVE PInv'
  BY <1>3, QuietP, EnterP, PickP, KeepP, SwitchP, SwitchedP DEF CpuStep
<1> QED BY <1>1, <1>2, <1>3 DEF Next

\* Tasks stay placed, CPUs and their modes agree, in every reachable state.
THEOREM PlacementInvariance == Spec => []PInv
BY PInit, PNext, PTL DEF Spec

\* TypeOK of Resched: sched_cpu[], g_cpu_current[], the IPIs and the wakes in
\* progress keep their types; in particular no CPU ever runs NULL.
THEOREM Types == Spec => []TypeOK
<1>1. PInv => TypeOK
  BY DEF PInv
<1> QED BY <1>1, PlacementInvariance, PTL

-----------------------------------------------------------------------------
(* A CPU that decided to sleep.  IdleSeesWork alone is not inductive: a    *)
(* request that finds need_resched set drops its own IPI and relies on the *)
(* one of the request before it, which Marked says is pending or coming.   *)

Marked ==
  \A c \in CPUs : mode[c] \in {"prep", "asleep"} /\ need[c] =>
    ipi[c] \/ \E x \in Contexts : Telling(x, c, {"send"})

AllStages == {"decide", "request", "send"}

IdleInv == Marked /\ IdleSeesWork

\* Both parts survive a step that neither marks nor feeds a CPU that is about
\* to sleep, keeps its IPI and leaves who was telling it telling it.
LEMMA IdleKept ==
  ASSUME PInv, PInv', IdleInv,
         \A c \in CPUs : mode'[c] \in {"prep", "asleep"} =>
           \/ ~need'[c] /\ Queue(c)' = {}
           \/ /\ mode[c] \in {"prep", "asleep"} /\ (ipi[c] => ipi'[c])
              /\ \A x \in Contexts : \A S \in {{"send"}, AllStages} :
                   Telling(x, c, S) => Telling(x, c, S)' \/ ipi'[c]
              /\ need'[c] => need[c] \/ \E x \in Contexts : Telling(x, c, {"send"})'
              /\ Queue(c)' # {} =>
                   Queue(c) # {} \/ \E x \in Contexts : Telling(x, c, AllStages)'
  PROVE  IdleInv'
<1>1. ASSUME NEW c \in CPUs, mode'[c] \in {"prep", "asleep"}, need'[c]
      PROVE  ipi'[c] \/ \E x \in Contexts : Telling(x, c, {"send"})'
  BY <1>1 DEF IdleInv, Marked
<1>2. ASSUME NEW c \in CPUs, mode'[c] \in {"prep", "asleep"}, Queue(c)' # {}
      PROVE  ipi'[c] \/ \E x \in Contexts : Telling(x, c, AllStages)'
  <2>1. CASE \E x \in Contexts : Telling(x, c, AllStages)'
    BY <2>1
  <2>2. CASE ~\E x \in Contexts : Telling(x, c, AllStages)'
    <3>1. mode[c] \in {"prep", "asleep"} /\ Queue(c) # {}
      BY <1>2, <2>2
    <3>2. ipi[c] \/ \E x \in Contexts : Telling(x, c, AllStages)
      BY <3>1 DEF IdleInv, IdleSeesWork, AllStages
    <3> QED BY <1>2, <2>2, <3>2
  <2> QED BY <2>1, <2>2
<1> QED BY <1>1, <1>2 DEF IdleInv, Marked, IdleSeesWork, AllStages

\* A waker is not on a CPU that is about to sleep, so its wake will tell it.
LEMMA WakerElsewhere ==
  ASSUME PInv, NEW x \in Contexts, NEW e \in CPUs, Executes(x, e),
         wake[x] # None \/ (x = e => Open(e)),
         NEW c \in CPUs, mode[c] \in {"prep", "asleep", "picked", "switch"}
  PROVE  c # e /\ x # c /\ (x \in Tasks => on[x] # c)
<1>1. c # e
  BY WakerPlaced
<1> QED BY <1>1, WakerPlaced, ReschedAssumption

\* The steps of a wake.
LEMMA WakeI ==
  ASSUME PInv, PInv', IdleInv, NEW x \in Contexts, NEW e \in CPUs, WakeStep(x, e)
  PROVE  IdleInv'
<1>1. TypeOK /\ TypeOK'
  BY DEF PInv
<1>2. ASSUME NEW t \in Tasks, Enqueue(x, e, t) PROVE IdleInv'
  <2>1. /\ UNCHANGED <<on, cur, out, need, ipi, mode>> /\ wake[x] = None
        /\ Executes(x, e) /\ (x = e => Open(e))
    BY <1>2 DEF Enqueue
  <2>2. CASE st' = [st EXCEPT ![t] = "ready"] /\ wake' = wake
    <3>1. \A c \in CPUs : Queue(c)' \subseteq Queue(c)
      BY <1>1, <2>1, <2>2 DEF Queue, TypeOK
    <3>2. \A y \in Contexts, c \in CPUs : \A S \in {{"send"}, AllStages} :
            Telling(y, c, S) => Telling(y, c, S)'
      BY <2>1, <2>2 DEF Telling
    <3> QED BY <2>1, <3>1, <3>2, IdleKept
  <2>3. ASSUME st' = [st EXCEPT ![t] = "queued"], NEW p \in ShouldPreempt(t, on[t]),
               wake' = [wake EXCEPT ![x] =
                          [stage |-> "decide", cpu |-> on[t], prio |-> p]]
        PROVE  IdleInv'
    <3>1. \A y \in Contexts : y # x => wake'[y] = wake[y]
      BY <1>1, <2>3 DEF TypeOK
    <3>2. /\ wake'[x].stage = "decide" /\ wake'[x].cpu = on[t] /\ wake'[x] # None
      <4>1. wake'[x] = [stage |-> "decide", cpu |-> on[t], prio |-> p]
        BY <1>1, <2>3 DEF TypeOK
      <4>2. wake'[x] \in Wakes
        BY <1>1, <4>1, ShouldPreemptAnswers DEF Wakes, TypeOK
      <4> QED BY <4>1, <4>2, ReschedAssumption
    <3>3. \A y \in Contexts, c \in CPUs : \A S \in {{"send"}, AllStages} :
            Telling(y, c, S) => Telling(y, c, S)'
      BY <2>1, <3>1 DEF Telling
    <3>4. \A c \in CPUs : c # on[t] => Queue(c)' = Queue(c)
      BY <1>1, <2>1, <2>3 DEF Queue, TypeOK
    <3>5. mode[on[t]] \in {"prep", "asleep"} => Telling(x, on[t], AllStages)'
      BY <1>1, <2>1, <3>2, WakerElsewhere DEF Telling, AllStages, TypeOK
    <3> QED BY <2>1, <3>3, <3>4, <3>5, IdleKept
  <2> QED BY <1>2, <2>2, <2>3, EnqueueP
<1>3. CASE Decide(x, e)
  <2>1. /\ UNCHANGED <<st, on, cur, out, need, ipi, mode>> /\ wake[x] # None
        /\ Executes(x, e) /\ wake[x].stage = "decide"
        /\ wake' = [wake EXCEPT ![x] = IF wake[x].cpu # e \/ wake[x].prio
                                       THEN [wake[x] EXCEPT !.stage = "request"] ELSE None]
    BY <1>3 DEF Decide
  <2>2. \A y \in Contexts : y # x => wake'[y] = wake[y]
    BY <1>1, <2>1 DEF TypeOK
  <2>3. wake[x].cpu # e => /\ wake'[x].stage = "request" /\ wake'[x].cpu = wake[x].cpu
                           /\ wake'[x] # None
    <3>1. wake[x] \in Wakes
      BY <1>1, <2>1 DEF TypeOK
    <3>2. wake[x].cpu # e => wake'[x] = [wake[x] EXCEPT !.stage = "request"]
      BY <1>1, <2>1 DEF TypeOK
    <3>3. /\ [wake[x] EXCEPT !.stage = "request"] \in Wakes
          /\ [wake[x] EXCEPT !.stage = "request"].stage = "request"
          /\ [wake[x] EXCEPT !.stage = "request"].cpu = wake[x].cpu
      BY <3>1 DEF Wakes
    <3> QED BY <3>2, <3>3, ReschedAssumption
  <2>4. \A c \in CPUs : mode[c] \in {"prep", "asleep"} => c # e
    BY <2>1, WakerElsewhere
  <2>5. ASSUME NEW y \in Contexts, NEW c \in CPUs, NEW S \in {{"send"}, AllStages},
               mode[c] \in {"prep", "asleep"}, Telling(y, c, S)
        PROVE  Telling(y, c, S)'
    <3>1. CASE y # x
      BY <2>1, <2>2, <2>5, <3>1 DEF Telling
    <3>2. CASE y = x
      BY <2>1, <2>3, <2>4, <2>5, <3>2 DEF Telling, AllStages
    <3> QED BY <3>1, <3>2
  <2>6. \A c \in CPUs : Queue(c)' = Queue(c)
    BY <2>1 DEF Queue
  <2> QED BY <2>1, <2>5, <2>6, IdleKept
<1>4. CASE Request(x, e)
  <2>1. /\ UNCHANGED <<st, on, cur, out, ipi, mode>> /\ wake[x] # None
        /\ Executes(x, e) /\ wake[x].stage = "request"
        /\ need' = [need EXCEPT ![wake[x].cpu] = TRUE]
        /\ wake' = [wake EXCEPT ![x] = IF need[wake[x].cpu] THEN None
                                       ELSE [wake[x] EXCEPT !.stage = "send"]]
    BY <1>4 DEF Request
  <2>0. wake[x] \in Wakes /\ wake[x].cpu \in CPUs
    BY <1>1, <2>1 DEF TypeOK, Wakes
  <2>2. PICK k \in CPUs : wake[x].cpu = k
    BY <2>0
  <2>3. /\ \A y \in Contexts : y # x => wake'[y] = wake[y]
        /\ \A c \in CPUs : c # k => need'[c] = need[c]
    BY <1>1, <2>1, <2>2 DEF TypeOK
  <2>4. ~need[k] => /\ wake'[x].stage = "send" /\ wake'[x].cpu = k /\ wake'[x] # None
    <3>1. ~need[k] => wake'[x] = [wake[x] EXCEPT !.stage = "send"]
      BY <1>1, <2>1, <2>2 DEF TypeOK
    <3>2. /\ [wake[x] EXCEPT !.stage = "send"] \in Wakes
          /\ [wake[x] EXCEPT !.stage = "send"].stage = "send"
          /\ [wake[x] EXCEPT !.stage = "send"].cpu = k
      BY <2>0, <2>2 DEF Wakes
    <3> QED BY <3>1, <3>2, ReschedAssumption
  <2>5. \A c \in CPUs : Queue(c)' = Queue(c)
    BY <2>1 DEF Queue
  <2>6. \A y \in Contexts, c \in CPUs : Telling(y, c, {"send"}) => Telling(y, c, {"send"})'
    BY <2>1, <2>3 DEF Telling
  <2>7. mode[k] \in {"prep", "asleep"} =>
          ipi[k] \/ \E y \in Contexts : Telling(y, k, {"send"})'
    <3>1. CASE need[k]
      BY <2>2, <2>6, <3>1 DEF IdleInv, Marked
    <3>2. CASE ~need[k] /\ mode[k] \in {"prep", "asleep"}
      <4>1. Telling(x, k, {"send"})'
        BY <2>1, <2>2, <2>4, <3>2, WakerElsewhere DEF Telling
      <4> QED BY <4>1
    <3> QED BY <3>1, <3>2
  <2>8. ASSUME NEW c \in CPUs, mode'[c] \in {"prep", "asleep"}, need'[c]
        PROVE  ipi'[c] \/ \E y \in Contexts : Telling(y, c, {"send"})'
    <3>1. CASE c = k
      BY <2>1, <2>7, <2>8, <3>1
    <3>2. CASE c # k
      BY <2>1, <2>3, <2>6, <2>8, <3>2 DEF IdleInv, Marked
    <3> QED BY <3>1, <3>2
  <2>9. ASSUME NEW c \in CPUs, mode'[c] \in {"prep", "asleep"}, Queue(c)' # {}
        PROVE  ipi'[c] \/ \E y \in Contexts : Telling(y, c, AllStages)'
    <3>1. CASE c = k
      BY <2>1, <2>7, <2>9, <3>1 DEF Telling, AllStages
    <3>2. CASE c # k
      <4>1. ipi[c] \/ \E y \in Contexts : Telling(y, c, AllStages)
        BY <2>1, <2>5, <2>9 DEF IdleInv, IdleSeesWork, AllStages
      <4>2. \A y \in Contexts : Telling(y, c, AllStages) => Telling(y, c, AllStages)'
        BY <2>1, <2>2, <2>3, <3>2 DEF Telling
      <4> QED BY <2>1, <4>1, <4>2
    <3> QED BY <3>1, <3>2
  <2> QED BY <2>8, <2>9 DEF IdleInv, Marked, IdleSeesWork, AllStages
<1>5. CASE Send(x, e)
  <2>1. /\ UNCHANGED <<st, on, cur, out, need, mode>> /\ wake[x] # None
        /\ Executes(x, e)
        /\ ipi' = [ipi EXCEPT ![wake[x].cpu] = @ \/ wake[x].cpu # e]
        /\ wake' = [wake EXCEPT ![x] = None]
    BY <1>5 DEF Send
  <2>2. \A y \in Contexts : y # x => wake'[y] = wake[y]
    BY <1>1, <2>1 DEF TypeOK
  <2>3. \A c \in CPUs : /\ ipi[c] => ipi'[c]
                        /\ wake[x].cpu = c /\ c # e => ipi'[c]
    BY <1>1, <2>1 DEF TypeOK
  <2>4. \A c \in CPUs : mode[c] \in {"prep", "asleep"} => c # e
    BY <2>1, WakerElsewhere
  <2>5. \A c \in CPUs : Queue(c)' = Queue(c)
    BY <2>1 DEF Queue
  <2>6. ASSUME NEW y \in Contexts, NEW c \in CPUs, NEW S \in {{"send"}, AllStages},
               mode[c] \in {"prep", "asleep"}, Telling(y, c, S)
        PROVE  Telling(y, c, S)' \/ ipi'[c]
    <3>1. CASE y # x
      BY <2>1, <2>2, <2>6, <3>1 DEF Telling
    <3>2. CASE y = x
      BY <2>3, <2>4, <2>6, <3>2 DEF Telling
    <3> QED BY <3>1, <3>2
  <2> QED BY <2>1, <2>3, <2>5, <2>6, IdleKept
<1> QED BY <1>2, <1>3, <1>4, <1>5 DEF WakeStep

\* The steps of a CPU: the others are left alone, and it decides to sleep only
\* with an empty queue and no request.
LEMMA CpuI ==
  ASSUME PInv, PInv', IdleInv, NEW c \in CPUs, CpuStep(c)
  PROVE  IdleInv'
<1>1. TypeOK /\ TypeOK'
  BY DEF PInv
<1>2. /\ wake' = wake
      /\ \A d \in CPUs : d # c => /\ mode'[d] = mode[d] /\ need'[d] = need[d]
                                  /\ ipi'[d] = ipi[d]
  <2>1. CASE SwitchComplete(c)
    <3>1. /\ mode' = [mode EXCEPT ![c] = IF cur[c] = Idle THEN "idle" ELSE "run"]
          /\ UNCHANGED <<ipi, wake>>
          /\ need' = need \/ \E p : need' = [need EXCEPT ![c] = need[c] \/ p]
      BY <2>1 DEF SwitchComplete
    <3> QED BY <1>1, <3>1 DEF TypeOK
  <2>2. CASE Keep(c) \/ Switch(c) \/ Pick(c) \/ EnterSched(c)
    <3>1. /\ UNCHANGED <<ipi, wake>> /\ \E m : mode' = [mode EXCEPT ![c] = m]
          /\ need' = need \/ need' = [need EXCEPT ![c] = FALSE]
      BY <2>2 DEF Keep, Switch, Pick, EnterSched
    <3> QED BY <1>1, <3>1 DEF TypeOK
  <2>3. CASE Tick(c) \/ IdlePrepare(c) \/ IdleWait(c) \/ IdleWakes(c) \/ HandleIpi(c)
    BY <1>1, <2>3 DEF Tick, IdlePrepare, IdleWait, IdleWakes, HandleIpi, TypeOK
  <2> QED BY <2>1, <2>2, <2>3 DEF CpuStep
<1>3. \A t \in Tasks : on'[t] \in {on[t], c}
  BY <1>1 DEF CpuStep, Tick, EnterSched, Pick, Keep, Switch, SwitchComplete,
              IdlePrepare, IdleWait, IdleWakes, HandleIpi, TypeOK
<1>4. \A t \in Tasks : st'[t] = "queued" => \/ st[t] = "queued" /\ on'[t] = on[t]
                                           \/ on'[t] = c
  <2>1. CASE UNCHANGED <<st, on>>
    BY <2>1
  <2>2. CASE EnterSched(c)
    BY <1>1, <2>2 DEF EnterSched, TypeOK
  <2>3. CASE Pick(c)
    BY <1>1, <2>3 DEF Pick, TypeOK
  <2>4. CASE Keep(c)
    BY <1>1, <2>4 DEF Keep, Picked, TypeOK
  <2>5. CASE Switch(c)
    BY <1>1, <2>5 DEF Switch, TypeOK
  <2>6. CASE SwitchComplete(c)
    BY <1>1, <2>6 DEF SwitchComplete, PInv, Placed, TypeOK
  <2> QED BY <2>1, <2>2, <2>3, <2>4, <2>5, <2>6
          DEF CpuStep, Tick, IdlePrepare, IdleWait, IdleWakes, HandleIpi
<1>5. ASSUME NEW d \in CPUs, d # c
      PROVE  /\ Queue(d)' \subseteq Queue(d)
             /\ \A x \in Contexts : \A S \in {{"send"}, AllStages} :
                  Telling(x, d, S) => Telling(x, d, S)'
  <2>1. Queue(d)' \subseteq Queue(d)
    BY <1>4, <1>5 DEF Queue
  <2>2. \A x \in Contexts : \A S \in {{"send"}, AllStages} :
          Telling(x, d, S) => Telling(x, d, S)'
    BY <1>2, <1>3, <1>5 DEF Telling
  <2> QED BY <2>1, <2>2
<1>6. ASSUME mode'[c] \in {"prep", "asleep"}
      PROVE  \/ ~need'[c] /\ Queue(c)' = {}
             \/ IdleWait(c)
  <2>1. IdlePrepare(c) \/ IdleWait(c)
    BY <1>1, <1>6 DEF CpuStep, Tick, EnterSched, Pick, Keep, Switch, SwitchComplete,
                      IdleWakes, HandleIpi, TypeOK, Open
  <2>2. CASE IdlePrepare(c)
    BY <1>1, <1>6, <2>2 DEF IdlePrepare, Queue, TypeOK
  <2> QED BY <2>1, <2>2
<1>7. CASE IdleWait(c)
  <2>1. /\ UNCHANGED <<st, on, cur, out, need, ipi, wake>>
        /\ mode[c] = "prep" /\ mode' = [mode EXCEPT ![c] = "asleep"]
    BY <1>7 DEF IdleWait
  <2>2. /\ \A d \in CPUs : Queue(d)' = Queue(d)
        /\ \A x \in Contexts, d \in CPUs : \A S \in {{"send"}, AllStages} :
             Telling(x, d, S) => Telling(x, d, S)'
    BY <2>1 DEF Queue, Telling
  <2>3. \A d \in CPUs : mode'[d] \in {"prep", "asleep"} => mode[d] \in {"prep", "asleep"}
    BY <1>1, <2>1 DEF TypeOK
  <2> QED BY <2>1, <2>2, <2>3, IdleKept
<1>8. CASE ~IdleWait(c)
  <2>1. \A d \in CPUs : d # c => /\ Queue(d)' # {} => Queue(d) # {}
                                 /\ \A x \in Contexts : \A S \in {{"send"}, AllStages} :
                                      Telling(x, d, S) => Telling(x, d, S)'
    BY <1>5
  <2>2. mode'[c] \in {"prep", "asleep"} => ~need'[c] /\ Queue(c)' = {}
    BY <1>6, <1>8
  <2> QED BY <1>2, <2>1, <2>2, IdleKept
<1> QED BY <1>7, <1>8

\* At the start no CPU has decided to sleep.
LEMMA IdleInit == Init => IdleInv
BY DEF Init, IdleInv, Marked, IdleSeesWork

\* Every step keeps both parts.
LEMMA IdleNext == PInv /\ PInv' /\ IdleInv /\ [Next]_vars => IdleInv'
<1> SUFFICES ASSUME PInv, PInv', IdleInv, [Next]_vars PROVE IdleInv'
  OBVIOUS
<1>1. CASE UNCHANGED vars
  BY <1>1 DEF vars, IdleInv, Marked, IdleSeesWork, Telling, Queue
<1>2. ASSUME NEW x \in Contexts, NEW e \in CPUs, WakeStep(x, e) PROVE IdleInv'
  BY <1>2, WakeI
<1>3. ASSUME NEW c \in CPUs, CpuStep(c) PROVE IdleInv'
  BY <1>3, CpuI
<1> QED BY <1>1, <1>2, <1>3 DEF Next

\* IdleSeesWork: a CPU that proc_sched_idle_prepare() let go to sleep and that
\* has been given work has an IPI pending or somebody elsewhere sending one.
THEOREM SleepersAreTold == Spec => []IdleSeesWork
<1>1. Spec => []IdleInv
  BY PlacementInvariance, IdleInit, IdleNext, PTL DEF Spec
<1>2. IdleInv => IdleSeesWork
  BY DEF IdleInv
<1> QED BY <1>1, <1>2, PTL

-----------------------------------------------------------------------------
(* Preemption.  PreemptionRequested alone is not inductive: a wake that    *)
(* was judged "not better" is dropped when its waker executes on the same  *)
(* CPU, and a switch in progress has to publish the best task.  What is    *)
(* inductive asks of the wake that it will mark the CPU, and covers the    *)
(* masked part of sched() as well.                                         *)

Elsewhere(x, c) == x # c /\ (x \in Tasks => on[x] # c)

\* Context x is going to mark CPU c.
WillMark(x, c) ==
  /\ wake[x] # None /\ wake[x].cpu = c
  /\ \/ wake[x].stage = "request"
     \/ wake[x].stage = "decide" /\ (wake[x].prio \/ Elsewhere(x, c))

Served(c) == need[c] \/ \E x \in Contexts : WillMark(x, c)

\* Queued on c, t is no better than what c has picked or runs.
Fits(t, c) ==
  /\ mode[c] = "picked" => \E p \in Picked(c) : Rank[t] <= Rank[p]
  /\ mode[c] \in {"run", "switch"} /\ cur[c] # Idle => Rank[t] <= Rank[cur[c]]

Ordered == \A c \in CPUs : Served(c) \/ \A t \in Queue(c) : Fits(t, c)

\* The steps of a wake.
LEMMA WakeO ==
  ASSUME PInv, PInv', Ordered, NEW x \in Contexts, NEW e \in CPUs, WakeStep(x, e)
  PROVE  Ordered'
<1>1. TypeOK /\ TypeOK'
  BY DEF PInv
<1>2. ASSUME NEW t \in Tasks, Enqueue(x, e, t) PROVE Ordered'
  <2>1. /\ UNCHANGED <<on, cur, out, need, ipi, mode>> /\ wake[x] = None
        /\ Executes(x, e) /\ (x = e => Open(e)) /\ st[t] = "blocked"
    BY <1>2 DEF Enqueue
  <2>2. CASE st' = [st EXCEPT ![t] = "ready"] /\ wake' = wake
    <3>1. \A c \in CPUs : Queue(c)' = Queue(c) /\ Picked(c)' = Picked(c)
      BY <1>1, <2>1, <2>2 DEF Queue, Picked, TypeOK
    <3>2. \A c \in CPUs : Served(c) => Served(c)'
      BY <2>1, <2>2 DEF Served, WillMark, Elsewhere
    <3> QED BY <2>1, <3>1, <3>2 DEF Ordered, Fits
  <2>3. ASSUME st' = [st EXCEPT ![t] = "queued"], NEW p \in ShouldPreempt(t, on[t]),
               \A c \in CPUs : cur[c] # t,
               wake' = [wake EXCEPT ![x] =
                          [stage |-> "decide", cpu |-> on[t], prio |-> p]]
        PROVE  Ordered'
    <3>0. PICK k \in CPUs : on[t] = k
      BY <1>1 DEF TypeOK
    <3>1. \A y \in Contexts : y # x => wake'[y] = wake[y]
      BY <1>1, <2>3 DEF TypeOK
    <3>2. /\ wake'[x].stage = "decide" /\ wake'[x].cpu = k /\ wake'[x].prio = p
          /\ wake'[x] # None
      <4>1. wake'[x] = [stage |-> "decide", cpu |-> k, prio |-> p]
        BY <1>1, <2>3, <3>0 DEF TypeOK
      <4>2. wake'[x] \in Wakes
        BY <1>1, <3>0, <4>1, ShouldPreemptAnswers DEF Wakes, TypeOK
      <4> QED BY <4>1, <4>2, ReschedAssumption
    <3>3. \A c \in CPUs : Served(c) => Served(c)'
      BY <2>1, <3>1 DEF Served, WillMark, Elsewhere
    <3>4. /\ \A c \in CPUs : Picked(c)' = Picked(c) /\ (c # k => Queue(c)' = Queue(c))
          /\ Queue(k)' \subseteq Queue(k) \cup {t}
      BY <1>1, <2>1, <2>3, <3>0 DEF Queue, Picked, TypeOK
    <3>5. \A c \in CPUs, u \in Tasks : Fits(u, c) => Fits(u, c)'
      BY <2>1, <3>4 DEF Fits
    <3>6. Served(k)' \/ Fits(t, k)'
      <4>1. CASE mode[k] \in {"picked", "switch"}
        <5>1. WillMark(x, k)'
          BY <2>1, <3>2, <4>1, WakerElsewhere DEF WillMark, Elsewhere
        <5> QED BY <5>1 DEF Served
      <4>2. CASE mode[k] = "run" /\ Rank[t] > Rank[cur[k]]
        <5>1. cur[k] # Idle /\ cur[k] # t /\ st[cur[k]] = "running"
          BY <2>3, <4>2 DEF PInv, Modal
        <5>2. p = TRUE
          BY <2>3, <3>0, <4>2, <5>1, ShouldPreemptAnswers
        <5>3. WillMark(x, k)'
          BY <3>2, <5>2 DEF WillMark
        <5> QED BY <5>3 DEF Served
      <4>3. CASE mode[k] = "run" /\ ~(Rank[t] > Rank[cur[k]])
        <5>1. cur[k] \in Tasks
          BY <1>1, <4>3 DEF PInv, Modal, TypeOK
        <5>2. Rank[t] <= Rank[cur[k]]
          BY <4>3, <5>1, ReschedAssumption
        <5> QED BY <2>1, <4>3, <5>2 DEF Fits
      <4>4. CASE mode[k] \notin {"picked", "switch", "run"}
        BY <2>1, <4>4 DEF Fits
      <4> QED BY <4>1, <4>2, <4>3, <4>4
    <3>7. ASSUME NEW c \in CPUs, ~Served(c)', NEW u \in Queue(c)'
          PROVE  Fits(u, c)'
      <4>1. u \in Tasks /\ (u \in Queue(c) \/ (c = k /\ u = t))
        BY <3>4, <3>7 DEF Queue
      <4>2. CASE u \in Queue(c)
        BY <3>3, <3>5, <3>7, <4>1, <4>2 DEF Ordered
      <4>3. CASE c = k /\ u = t
        BY <3>6, <3>7, <4>3
      <4> QED BY <4>1, <4>2, <4>3
    <3> QED BY <3>7 DEF Ordered
  <2> QED BY <1>2, <2>2, <2>3, EnqueueP
<1>3. CASE Decide(x, e) \/ Request(x, e) \/ Send(x, e)
  <2>1. /\ UNCHANGED <<st, on, cur, out, mode>> /\ wake[x] # None /\ Executes(x, e)
    BY <1>3 DEF Decide, Request, Send
  <2>2. /\ \A y \in Contexts : y # x => wake'[y] = wake[y]
        /\ wake[x] \in Wakes /\ wake[x].cpu \in CPUs
    BY <1>1, <1>3, <2>1 DEF Decide, Request, Send, TypeOK, Wakes
  <2>3. \A c \in CPUs : need[c] => need'[c]
    BY <1>1, <1>3, <2>2 DEF Decide, Request, Send, TypeOK
  <2>4. ASSUME NEW c \in CPUs, WillMark(x, c) PROVE WillMark(x, c)' \/ need'[c]
    <3>1. CASE Decide(x, e)
      <4>1. /\ wake[x].stage = "decide" /\ wake[x].cpu = c
            /\ wake[x].prio \/ Elsewhere(x, c)
        BY <2>4, <3>1 DEF Decide, WillMark
      <4>2. wake[x].prio \/ c # e
        BY <2>1, <4>1, WakerPlaced DEF Elsewhere
      <4>3. wake'[x] = [wake[x] EXCEPT !.stage = "request"]
        BY <1>1, <3>1, <4>1, <4>2 DEF Decide, TypeOK
      <4>4. wake'[x] \in Wakes /\ wake'[x].stage = "request" /\ wake'[x].cpu = c
        BY <2>2, <4>1, <4>3 DEF Wakes
      <4>5. wake'[x] # None
        BY <4>4, ReschedAssumption
      <4> QED BY <4>4, <4>5 DEF WillMark
    <3>2. CASE Request(x, e)
      BY <1>1, <2>2, <2>4, <3>2 DEF Request, WillMark, TypeOK
    <3>3. CASE Send(x, e)
      BY <2>4, <3>3 DEF Send, WillMark
    <3> QED BY <1>3, <3>1, <3>2, <3>3
  <2>5. \A y \in Contexts, c \in CPUs : y # x /\ WillMark(y, c) => WillMark(y, c)'
    BY <2>1, <2>2 DEF WillMark, Elsewhere
  <2>6. \A c \in CPUs : Served(c) => Served(c)'
    BY <2>3, <2>4, <2>5 DEF Served
  <2>7. \A c \in CPUs : Queue(c)' = Queue(c) /\ Picked(c)' = Picked(c)
    BY <2>1 DEF Queue, Picked
  <2> QED BY <2>1, <2>6, <2>7 DEF Ordered, Fits
<1> QED BY <1>2, <1>3 DEF WakeStep

\* What a step of CPU c leaves of the other CPUs.
LEMMA CpuOthers ==
  ASSUME PInv, NEW c \in CPUs, CpuStep(c), NEW d \in CPUs, d # c
  PROVE  /\ mode'[d] = mode[d] /\ need'[d] = need[d] /\ cur'[d] = cur[d]
         /\ Queue(d)' \subseteq Queue(d) /\ Picked(d)' = Picked(d)
         /\ \A x \in Contexts : WillMark(x, d) => WillMark(x, d)'
<1>1. TypeOK
  BY DEF PInv
<1>2. CASE Tick(c) \/ IdlePrepare(c) \/ IdleWait(c) \/ IdleWakes(c) \/ HandleIpi(c)
  <2>1. /\ UNCHANGED <<st, on, cur, wake>>
        /\ mode'[d] = mode[d] /\ need'[d] = need[d]
    BY <1>1, <1>2 DEF Tick, IdlePrepare, IdleWait, IdleWakes, HandleIpi, TypeOK
  <2> QED BY <2>1 DEF Queue, Picked, WillMark, Elsewhere
<1>3. CASE EnterSched(c)
  <2>1. /\ UNCHANGED <<on, cur, wake>> /\ mode'[d] = mode[d] /\ need'[d] = need[d]
    BY <1>1, <1>3 DEF EnterSched, TypeOK
  <2>2. \A u \in Tasks : st'[u] = st[u] \/ (u = cur[c] /\ st'[u] \in {"ready", "blocked"})
    BY <1>1, <1>3 DEF EnterSched, TypeOK
  <2>3. \A u \in Tasks : u = cur[c] => st[u] \notin {"queued", "picked"}
    BY DEF PInv, Placed
  <2> QED BY <2>1, <2>2, <2>3 DEF Queue, Picked, WillMark, Elsewhere
<1>4. CASE Pick(c)
  <2>1. /\ UNCHANGED <<cur, wake, need>> /\ mode'[d] = mode[d]
    BY <1>1, <1>4 DEF Pick, TypeOK
  <2>2. \/ UNCHANGED <<st, on>>
        \/ \E t \in Tasks : /\ st[t] = "queued" /\ st' = [st EXCEPT ![t] = "picked"]
                            /\ on' = [on EXCEPT ![t] = c]
    BY <1>4 DEF Pick, Queue, Best, Stealable
  <2>3. \A u \in Tasks : \/ st'[u] = st[u] /\ on'[u] = on[u]
                         \/ st[u] = "queued" /\ st'[u] = "picked" /\ on'[u] = c
    BY <1>1, <2>2 DEF TypeOK
  <2> QED BY <2>1, <2>3 DEF Queue, Picked, WillMark, Elsewhere
<1>5. CASE Keep(c)
  <2>1. /\ UNCHANGED <<on, cur, wake, need>> /\ mode'[d] = mode[d]
    BY <1>1, <1>5 DEF Keep, TypeOK
  <2>2. \A u \in Tasks : st'[u] = IF u = cur[c] THEN "running"
                                  ELSE IF u \in Picked(c) THEN "queued" ELSE st[u]
    BY <1>5 DEF Keep
  <2>3. \A u \in Tasks : u = cur[c] => st[u] \notin {"queued", "picked"}
    BY DEF PInv, Placed
  <2> QED BY <2>1, <2>2, <2>3 DEF Queue, Picked, WillMark, Elsewhere
<1>6. CASE Switch(c)
  <2>1. /\ UNCHANGED <<on, wake, need>> /\ mode'[d] = mode[d] /\ cur'[d] = cur[d]
    BY <1>1, <1>6 DEF Switch, TypeOK
  <2>2. \A u \in Tasks : st'[u] = IF u \in Picked(c) THEN "running" ELSE st[u]
    BY <1>6 DEF Switch
  <2> QED BY <2>1, <2>2 DEF Queue, Picked, WillMark, Elsewhere
<1>7. CASE SwitchComplete(c)
  <2>1. /\ UNCHANGED <<on, cur, wake>> /\ mode'[d] = mode[d]
    BY <1>1, <1>7 DEF SwitchComplete, TypeOK
  <2>2. need'[d] = need[d]
    <3>1. need' = need \/ \E p : need' = [need EXCEPT ![c] = need[c] \/ p]
      BY <1>7 DEF SwitchComplete
    <3> QED BY <1>1, <3>1 DEF TypeOK
  <2>3. \A u \in Tasks : st'[u] = st[u] \/ (u = out[c] /\ st'[u] = "queued")
    BY <1>1, <1>7 DEF SwitchComplete, TypeOK
  <2>4. \A u \in Tasks : u = out[c] => st[u] \notin {"queued", "picked"} /\ on[u] = c
    BY DEF PInv, Placed
  <2> QED BY <2>1, <2>2, <2>3, <2>4 DEF Queue, Picked, WillMark, Elsewhere
<1> QED BY <1>2, <1>3, <1>4, <1>5, <1>6, <1>7 DEF CpuStep

\* The steps of a CPU: the pick takes the best task, and what is published is
\* no worse than what was picked.
LEMMA CpuO ==
  ASSUME PInv, PInv', Ordered, NEW c \in CPUs, CpuStep(c)
  PROVE  Ordered'
<1>1. TypeOK /\ TypeOK'
  BY DEF PInv
<1>2. ASSUME NEW d \in CPUs, d # c
      PROVE  Served(d)' \/ \A t \in Queue(d)' : Fits(t, d)'
  <2>1. Served(d) => Served(d)'
    BY <1>2, CpuOthers DEF Served
  <2>2. \A t \in Queue(d)' : t \in Queue(d) /\ (Fits(t, d) => Fits(t, d)')
    BY <1>2, CpuOthers DEF Fits
  <2> QED BY <2>1, <2>2 DEF Ordered
<1>3. Served(c)' \/ \A t \in Queue(c)' : Fits(t, c)'
  <2>1. CASE mode'[c] \notin {"picked", "run", "switch"}
    BY <2>1 DEF Fits
  <2>2. CASE Tick(c)
    BY <1>1, <2>2 DEF Tick, Served, TypeOK
  <2>3. CASE HandleIpi(c)
    <3>1. UNCHANGED <<st, on, cur, need, mode, wake>>
      BY <2>3 DEF HandleIpi
    <3> QED BY <3>1 DEF Ordered, Served, WillMark, Elsewhere, Fits, Queue, Picked
  <2>4. CASE Pick(c)
    <3>1. mode'[c] = "picked" /\ cur' = cur
      BY <1>1, <2>4 DEF Pick, TypeOK
    <3>2. CASE UNCHANGED <<st, on>> /\ Queue(c) = {}
      BY <3>2 DEF Queue
    <3>3. ASSUME NEW t \in IF Queue(c) = {} THEN Stealable(c) ELSE Best(Queue(c)),
                 st' = [st EXCEPT ![t] = "picked"], on' = [on EXCEPT ![t] = c]
          PROVE  \A u \in Queue(c)' : Fits(u, c)'
      <4>1. t \in Tasks /\ st[t] = "queued" /\ \A u \in Queue(c) : Rank[u] <= Rank[t]
        BY <3>3 DEF Stealable, Best, Queue
      <4>2. t \in Picked(c)' /\ Queue(c)' \subseteq Queue(c)
        BY <1>1, <3>3, <4>1 DEF Queue, Picked, TypeOK
      <4> QED BY <3>1, <4>1, <4>2 DEF Fits
    <3> QED BY <2>4, <3>2, <3>3 DEF Pick
  <2>5. CASE Keep(c)
    <3>1. /\ mode[c] = "picked" /\ (cur[c] # Idle => st[cur[c]] = "ready")
          /\ \A t \in Picked(c) : cur[c] # Idle /\ TRUE \in StrictlyPreempts(cur[c], t)
          /\ UNCHANGED <<on, cur, out, need, ipi, wake>>
          /\ \A u \in Tasks : st'[u] = IF u = cur[c] THEN "running"
                                       ELSE IF u \in Picked(c) THEN "queued" ELSE st[u]
      BY <2>5 DEF Keep
    <3>2. mode'[c] = IF cur[c] = Idle THEN "idle" ELSE "run"
      BY <1>1, <2>5 DEF Keep, TypeOK
    <3>3. Served(c) => Served(c)'
      BY <3>1 DEF Served, WillMark, Elsewhere
    <3>4. Queue(c)' \subseteq Queue(c) \cup Picked(c) /\ Picked(c) \subseteq Tasks
      BY <3>1 DEF Queue, Picked
    <3>5. ASSUME cur[c] # Idle, NEW p \in Picked(c) PROVE Rank[p] <= Rank[cur[c]]
      <4>1. cur[c] \in Tasks /\ p \in Tasks
        BY <1>1, <3>4, <3>5 DEF TypeOK
      <4> QED BY <3>1, <3>5, <4>1, PreemptAnswers
    <3>6. ASSUME ~Served(c), cur[c] # Idle, NEW t \in Queue(c)
          PROVE  Rank[t] <= Rank[cur[c]]
      <4>1. PICK p \in Picked(c) : Rank[t] <= Rank[p]
        BY <3>1, <3>6 DEF Ordered, Fits
      <4>2. t \in Tasks /\ p \in Tasks /\ cur[c] \in Tasks
        BY <1>1, <3>4, <3>6 DEF Queue, TypeOK
      <4>3. Rank[t] \in Nat /\ Rank[p] \in Nat /\ Rank[cur[c]] \in Nat
        BY <4>2, ReschedAssumption
      <4> QED BY <3>5, <3>6, <4>1, <4>3
    <3> QED BY <3>1, <3>2, <3>3, <3>4, <3>5, <3>6 DEF Fits
  <2>6. CASE Switch(c)
    <3>1. /\ mode[c] = "picked" /\ UNCHANGED <<on, need, ipi, wake>>
          /\ \A u \in Tasks : st'[u] = IF u \in Picked(c) THEN "running" ELSE st[u]
      BY <2>6 DEF Switch
    <3>2. mode'[c] = "switch"
      BY <1>1, <2>6 DEF Switch, TypeOK
    <3>3. cur'[c] # Idle => cur'[c] \in Picked(c)
      BY <2>6, SwitchP
    <3>4. Served(c) => Served(c)'
      BY <3>1 DEF Served, WillMark, Elsewhere
    <3>5. Queue(c)' \subseteq Queue(c)
      BY <3>1 DEF Queue
    <3>6. ASSUME ~Served(c), cur'[c] # Idle, NEW t \in Queue(c)
          PROVE  Rank[t] <= Rank[cur'[c]]
      <4>1. PICK p \in Picked(c) : Rank[t] <= Rank[p]
        BY <3>1, <3>6 DEF Ordered, Fits
      <4>2. p = cur'[c]
        BY <3>3, <3>6 DEF PInv, Picks, Picked
      <4> QED BY <4>1, <4>2
    <3> QED BY <3>2, <3>4, <3>5, <3>6 DEF Fits
  <2>7. CASE SwitchComplete(c)
    <3>1. /\ mode[c] = "switch" /\ UNCHANGED <<on, cur, ipi, wake>>
      BY <2>7 DEF SwitchComplete
    <3>2. mode'[c] = IF cur[c] = Idle THEN "idle" ELSE "run"
      BY <1>1, <2>7 DEF SwitchComplete, TypeOK
    <3>3. CASE UNCHANGED <<st, need>>
      BY <3>1, <3>2, <3>3 DEF Ordered, Served, WillMark, Elsewhere, Fits, Queue
    <3>4. CASE ~UNCHANGED <<st, need>>
      <4>0. out[c] \in Tasks \cup {Idle}
        BY <1>1, <3>1 DEF PInv, Modal, TypeOK
      <4>1. /\ out[c] \in Tasks /\ st[out[c]] = "ready"
            /\ st' = [st EXCEPT ![out[c]] = "queued"]
            /\ \E p \in ShouldPreempt(out[c], c) : need' = [need EXCEPT ![c] = @ \/ p]
        BY <2>7, <3>4, <4>0 DEF SwitchComplete
      <4>2. PICK p \in ShouldPreempt(out[c], c) : need' = [need EXCEPT ![c] = @ \/ p]
        BY <4>1
      <4>3. need'[c] = (need[c] \/ p)
        BY <1>1, <4>2 DEF TypeOK
      <4>4. Served(c) => Served(c)'
        BY <3>1, <4>3 DEF Served, WillMark, Elsewhere
      <4>5. Queue(c)' \subseteq Queue(c) \cup {out[c]}
        BY <1>1, <3>1, <4>1 DEF Queue, TypeOK
      <4>6. ASSUME cur[c] # Idle, ~Served(c)' PROVE Rank[out[c]] <= Rank[cur[c]]
        <5>1. cur[c] \in Tasks /\ st[cur[c]] = "running" /\ cur[c] # out[c]
          BY <1>1, <3>1, <4>1, <4>6 DEF PInv, Modal, TypeOK
        <5>2. ~p
          BY <4>3, <4>6 DEF Served
        <5>3. ~(Rank[out[c]] > Rank[cur[c]])
          BY <4>1, <4>6, <5>1, <5>2, ShouldPreemptAnswers
        <5> QED BY <4>1, <5>1, <5>3, ReschedAssumption
      <4>7. ASSUME ~Served(c)', NEW t \in Queue(c)' PROVE Fits(t, c)'
        <5>1. CASE t \in Queue(c)
          BY <3>1, <3>2, <4>4, <4>7, <5>1 DEF Ordered, Fits
        <5>2. CASE t = out[c]
          BY <3>1, <3>2, <4>6, <4>7, <5>2 DEF Fits
        <5> QED BY <4>5, <4>7, <5>1, <5>2
      <4> QED BY <4>7
    <3> QED BY <3>3, <3>4
  <2>8. EnterSched(c) \/ IdlePrepare(c) \/ IdleWait(c) \/ IdleWakes(c) =>
          mode'[c] \notin {"picked", "run", "switch"}
    BY <1>1 DEF EnterSched, IdlePrepare, IdleWait, IdleWakes, TypeOK
  <2> QED BY <2>1, <2>2, <2>3, <2>4, <2>5, <2>6, <2>7, <2>8 DEF CpuStep
<1> QED BY <1>2, <1>3 DEF Ordered

\* Nothing is queued at the start.
LEMMA OrderedInit == Init => Ordered
BY DEF Init, Ordered, Queue

\* Every step keeps the order.
LEMMA OrderedNext == PInv /\ PInv' /\ Ordered /\ [Next]_vars => Ordered'
<1> SUFFICES ASSUME PInv, PInv', Ordered, [Next]_vars PROVE Ordered'
  OBVIOUS
<1>1. CASE UNCHANGED vars
  BY <1>1 DEF vars, Ordered, Served, WillMark, Elsewhere, Fits, Queue, Picked
<1>2. ASSUME NEW x \in Contexts, NEW e \in CPUs, WakeStep(x, e) PROVE Ordered'
  BY <1>2, WakeO
<1>3. ASSUME NEW c \in CPUs, CpuStep(c) PROVE Ordered'
  BY <1>3, CpuO
<1> QED BY <1>1, <1>2, <1>3 DEF Next

\* PreemptionRequested: with a better task queued behind the running one the
\* CPU has need_resched set, or a wake that will set it is in progress.
THEOREM PreemptionIsRequested == Spec => []PreemptionRequested
<1>1. Spec => []Ordered
  BY PlacementInvariance, OrderedInit, OrderedNext, PTL DEF Spec
<1>2. PInv /\ Ordered => PreemptionRequested
  <2> SUFFICES ASSUME PInv, Ordered, NEW c \in CPUs, mode[c] = "run",
                      NEW t \in Queue(c), Rank[t] > Rank[cur[c]]
               PROVE  \/ need[c]
                      \/ \E x \in Contexts : /\ wake[x] # None /\ wake[x].cpu = c
                                             /\ wake[x].stage \in {"decide", "request"}
    BY DEF PreemptionRequested
  <2>1. t \in Tasks /\ cur[c] \in Tasks /\ cur[c] # Idle
    BY DEF PInv, Modal, TypeOK, Queue
  <2>2. Rank[t] \in Nat /\ Rank[cur[c]] \in Nat
    BY <2>1, ReschedAssumption
  <2>3. ~Fits(t, c)
    BY <2>1, <2>2 DEF Fits
  <2>4. Served(c)
    BY <2>3 DEF Ordered
  <2> QED BY <2>4 DEF Served, WillMark
<1> QED BY <1>1, <1>2, PlacementInvariance, PTL
=============================================================================
