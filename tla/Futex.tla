------------------------------- MODULE Futex -------------------------------
(***************************************************************************)
(* The user futex engine (kernel/ipc/futex.c): wait, wake, requeue,        *)
(* wake-op, the PI lock protocol and the robust list of an exiting owner,  *)
(* over the shared wait queues of core/sync.c.                             *)
(*                                                                         *)
(* Its waits are waits of ParkAbs, the specification the scheduler is      *)
(* shown to implement: a step that parks, wakes or finishes conjoins the   *)
(* ParkAbs action.  One action is one critical section of a bucket lock,   *)
(* one user-memory access or one wake of a collected waiter.               *)
(*                                                                         *)
(* A word is an (address space, virtual address) pair; two words share a   *)
(* futex when they map the same physical page.  Words stay resident.       *)
(***************************************************************************)
EXTENDS WaitList, Integers, Sequences, FiniteSets

CONSTANTS
  Tasks,
  None,       \* NULL
  Words,      \* the futex words the tasks use
  Programs,   \* per task, the words it waits on and the words it writes
  PageOf,     \* [Words -> Pages]: the page table at the start
  Pages,
  Bucket,     \* [Pages -> Nat]: futex_bucket_index()
  CowWords,   \* words whose page is shared copy-on-write with a forked child
  PiWords,    \* words used as PI locks; the others are event counters
  Targets,    \* words waiters are requeued to
  Batch,      \* FUTEX_WAKE_BATCH
  MaxVal,     \* [Words -> Nat]: bound on the count in a word
  MaxWaits,   \* bound on the waits of a task
  Timed,      \* tasks whose waits may have a timeout
  Mortal,     \* tasks that may exit
  Signalled,  \* tasks that may get a signal
  MaxSignals  \* bound on the signals sent

\* The contents of a word: a count, or the parts of a PI lock word.
Free == [n |-> 0, tid |-> None, wtr |-> FALSE, died |-> FALSE]
All == -1   \* a count no wake exhausts (INT_MAX)
INTR == "INTERRUPTIBLE"

\* g_futex_buckets[], by index, and what a futex_node_t holds: the word it waits
\* on and its physical key, the sequence of the wait, and the bucket it is in.
Buckets == {Bucket[p] : p \in Pages}
Nodes == [w : Words, p : Pages \cup {None}, seq : Nat, at : Buckets \cup {None}]

ASSUME FutexAssumption ==
  /\ None \notin Tasks /\ None \notin Words /\ None \notin Pages
  /\ Programs \subseteq [Tasks -> [waits: SUBSET Words, writes: SUBSET Words]]
  /\ PageOf \in [Words -> Pages] /\ Bucket \in [Pages -> Nat]
  /\ UNION {Timed, Mortal, Signalled} \subseteq Tasks
  /\ CowWords \subseteq Words /\ PiWords \subseteq Words /\ Targets \subseteq Words
  /\ None \notin Buckets /\ None \notin Nodes /\ Targets \cap PiWords = {}
  /\ \A v, w \in Words : PageOf[v] = PageOf[w] =>
       (v \in PiWords <=> w \in PiWords) /\ (v \in Targets <=> w \in Targets)
  /\ {Batch, MaxWaits, MaxSignals} \subseteq Nat /\ Batch > 0
  /\ MaxVal \in [Words -> Nat]

VARIABLES
  wait, number, mode, due, why,  \* the tasks' waits: see ParkAbs
  sig,     \* tasks with an unblocked signal pending
  kick,    \* tasks whose signal sender has yet to interrupt their wait
  sent,    \* signals sent so far
  uses,    \* the program being run, chosen at the start
  page,    \* the page table: word -> physical page
  cow,     \* words whose page is still shared copy-on-write
  val,     \* contents of the futex word on each page
  queue,   \* g_futex_buckets[]: the tasks of the linked nodes, head first
  node,    \* per task: its futex_node_t, or None when it is freed
  pc,      \* per task: where it is in user code or in the engine
  arg,     \* per task: arguments and locals of its call
  out,     \* per task: its proc_wake_q, <<task, wait_seq>> in order
  held     \* per task: the PI locks its user code believes it holds

parkVars == <<wait, number, mode, due, why>>
sigVars  == <<sig, kick, sent>>
memVars  == <<uses, page, cow, val>>
callVars == <<pc, arg, out, held>>
vars == <<parkVars, sigVars, memVars, queue, node, callVars>>

Park == INSTANCE ParkAbs

NoCall == [w |-> None, exp |-> None, timed |-> FALSE, ret |-> "NONE",
           own |-> None, nr |-> 0, retry |-> FALSE, priv |-> FALSE,
           key |-> None, then |-> "user", try |-> FALSE, w2 |-> None, key2 |-> None]

Init ==
  /\ Park!Init
  /\ sig = {} /\ kick = {} /\ sent = 0
  /\ uses \in Programs /\ page = PageOf /\ cow = CowWords
  /\ val = [p \in Pages |-> Free]
  /\ queue = [b \in Buckets |-> <<>>]
  /\ node = [t \in Tasks |-> None]
  /\ pc = [t \in Tasks |-> "user"]
  /\ arg = [t \in Tasks |-> NoCall]
  /\ out = [t \in Tasks |-> <<>>]
  /\ held = [t \in Tasks |-> {}]

Goto(t, where) == pc' = [pc EXCEPT ![t] = where]

\* The call ends; a PI lock call that was woken tries again.
WaitReturns(t, ok) ==
  LET again == ok /\ arg[t].w \in PiWords IN
  /\ Goto(t, IF again THEN "lock" ELSE "user")
  /\ arg' = [arg EXCEPT ![t] = IF again THEN [NoCall EXCEPT !.w = arg[t].w] ELSE NoCall]

Waiting(t) == wait[t] \in {"PREPARING", "PARKED"}

-----------------------------------------------------------------------------
(* futex_wait_ticks().                                                     *)

\* A user thread reads the word and calls futex_wait() with what it read.
WaitCall(t, w, d) ==
  /\ pc[t] = "user" /\ w \in uses[t].waits \ PiWords
  /\ d => t \in Timed
  /\ number[t] < MaxWaits
  /\ arg' = [arg EXCEPT ![t] =
               [NoCall EXCEPT !.w = w, !.exp = val[page[w]], !.timed = d]]
  /\ Goto(t, "prepare")
  /\ UNCHANGED <<parkVars, sigVars, memVars, queue, node, out, held>>

\* The first look at the word, which returns -EAGAIN if it has changed, and
\* proc_park_prepare(): a pending signal wins at once; the timer heap may be
\* full, and then the call returns -EAGAIN too.
Prepare(t) ==
  /\ pc[t] = "prepare"
  /\ \/ /\ val[page[arg[t].w]] # arg[t].exp
        /\ WaitReturns(t, FALSE) /\ UNCHANGED parkVars
     \/ /\ t \notin sig /\ Park!Begin(t, INTR, arg[t].timed)
        /\ Goto(t, "link") /\ UNCHANGED arg
     \/ /\ t \in sig /\ Park!BeginOver(t, INTR, "SIGNAL")
        /\ Goto(t, "link") /\ UNCHANGED arg
     \/ /\ arg[t].timed /\ Park!Refuse(t)
        /\ WaitReturns(t, FALSE)
  /\ UNCHANGED <<sigVars, memVars, queue, node, out, held>>

\* wait_queue_purge_task_locked()
Without(q, t) == Entries(q, {i \in 1..Len(q) : q[i] # t})

\* A definition whose name begins with Bug is what the one after it would be
\* with a plausible mistake; no specification uses it.
BugLinkUnchecked(t) ==
  LET w == arg[t].w  p == page[w]  b == Bucket[p] IN
  /\ pc[t] = "link"
  /\ queue' = [queue EXCEPT ![b] = <<t>> \o Without(@, t)]
  /\ node' = [node EXCEPT ![t] = [w |-> w, p |-> p, seq |-> number[t], at |-> b]]
  /\ Goto(t, "commit")
  /\ UNCHANGED <<parkVars, sigVars, memVars, arg, out, held>>

\* Under mm->lock and the lock of the word's bucket: the value is read again,
\* and only if it is still the expected one, no signal is pending and a node can
\* be allocated is the waiter linked at the head of the bucket.
Link(t) ==
  LET w == arg[t].w  p == page[w]  b == Bucket[p] IN
  /\ pc[t] = "link"
  /\ \/ /\ val[p] = arg[t].exp /\ t \notin sig
        /\ queue' = [queue EXCEPT ![b] = <<t>> \o Without(@, t)]
        /\ node' = [node EXCEPT ![t] =
                      [w |-> w, p |-> p, seq |-> number[t], at |-> b]]
        /\ Goto(t, "commit")
     \/ /\ Goto(t, "cancel") /\ UNCHANGED <<queue, node>>
  /\ UNCHANGED <<parkVars, sigVars, memVars, arg, out, held>>

\* proc_park_cancel() of a wait that was not linked.
Cancel(t) ==
  /\ pc[t] = "cancel"
  /\ IF wait[t] = "PREPARING" THEN Park!End(t, "CANCEL") ELSE UNCHANGED parkVars
  /\ Goto(t, "asleep")
  /\ UNCHANGED <<sigVars, memVars, queue, node, arg, out, held>>

\* proc_park_commit()
Commit(t) ==
  /\ pc[t] = "commit"
  /\ IF wait[t] = "PREPARING" THEN Park!Sleep(t) ELSE UNCHANGED parkVars
  /\ Goto(t, "asleep")
  /\ UNCHANGED <<sigVars, memVars, queue, node, arg, out, held>>

\* proc_park_finish().  A wait that was never linked is over; its call returns
\* an error.
Finish(t) ==
  /\ pc[t] = "asleep" /\ Park!Retire(t)
  /\ IF node[t] = None THEN WaitReturns(t, FALSE)
     ELSE /\ Goto(t, "unlink")
          /\ arg' = [arg EXCEPT ![t].ret = why[t]]
  /\ UNCHANGED <<sigVars, memVars, queue, node, out, held>>

\* -ERESTARTSYS for a signal, else success or -ETIMEDOUT (which the PI lock
\* takes for a reason to try again).
WaitSucceeds(t) == arg[t].ret \in {"EVENT", "TIMEOUT"} /\ t \notin sig

\* wait_queue_unlink(): the owner queue is read without a lock.  NULL: a waker
\* has detached the entry, and the node is freed at once.
Unlink(t) ==
  /\ pc[t] = "unlink"
  /\ IF node[t].at = None
     THEN /\ node' = [node EXCEPT ![t] = None]
          /\ WaitReturns(t, WaitSucceeds(t))
     ELSE /\ arg' = [arg EXCEPT ![t].own = node[t].at]
          /\ Goto(t, "relock") /\ UNCHANGED node
  /\ UNCHANGED <<parkVars, sigVars, memVars, queue, out, held>>

BugUnlinkLockedTrusting(t) ==
  /\ pc[t] = "relock"
  /\ queue' = [queue EXCEPT ![arg[t].own] = Unlinked(@, t)]
  /\ node' = [node EXCEPT ![t] = None]
  /\ WaitReturns(t, WaitSucceeds(t))
  /\ UNCHANGED <<parkVars, sigVars, memVars, out, held>>

\* ... and revalidated under the owner's lock, since a requeue may have moved
\* the entry meanwhile.
UnlinkLocked(t) ==
  /\ pc[t] = "relock"
  /\ IF node[t].at = arg[t].own
     THEN /\ queue' = [queue EXCEPT ![arg[t].own] = Unlinked(@, t)]
          /\ node' = [node EXCEPT ![t] = None]
          /\ WaitReturns(t, WaitSucceeds(t))
     ELSE /\ Goto(t, "unlink") /\ UNCHANGED <<queue, node, arg>>
  /\ UNCHANGED <<parkVars, sigVars, memVars, out, held>>

-----------------------------------------------------------------------------
(* Notifiers.  A user thread changes the word and then makes its call.     *)

\* A store to a word whose page another mm shares copy-on-write moves the word
\* to a page of its own first (handle_cow_fault_locked()).
Store(w, x) ==
  LET shared == w \in cow /\ \E v \in Words \ {w} : page[v] = page[w] IN
  /\ UNCHANGED uses
  /\ \/ /\ ~shared
        /\ val' = [val EXCEPT ![page[w]] = x]
        /\ UNCHANGED <<page, cow>>
     \/ /\ shared
        /\ \E p \in Pages \ {page[v] : v \in Words} :
             /\ page' = [page EXCEPT ![w] = p]
             /\ val' = [val EXCEPT ![p] = x]
        /\ cow' = cow \ {w}

Incremented(x) == [x EXCEPT !.n = @ + 1]

\* A call may be private only on a futex that no other mm shares.
Private(w) == w \in CowWords \/ \A v \in Words \ {w} : PageOf[v] # PageOf[w]

\* The calls of a notifier: wake all waiters of w (one, if w is the lock of a
\* condition variable); wake one and requeue the others to w2; wake-op on both.
Notify(t, w, call, w2, priv) ==
  /\ pc[t] = "user" /\ w \in uses[t].writes \ PiWords
  /\ IF call = "WAKE" THEN w2 = None
     ELSE w2 \in uses[t].writes \cap Targets /\ w \notin Targets
  /\ priv => \A v \in {w, w2} \ {None} : Private(v)
  /\ val[page[w]].n < MaxVal[w]
  /\ Store(w, Incremented(val[page[w]]))
  /\ arg' = [arg EXCEPT ![t] = [NoCall EXCEPT
               !.w = w, !.w2 = w2, !.priv = priv, !.exp = Incremented(val[page[w]]),
               !.nr = IF call = "REQUEUE" \/ w \in Targets THEN 1 ELSE All,
               !.retry = call # "WAKE",
               !.then = CASE call = "WAKE" -> "user" [] call = "REQUEUE" -> "requeue"
                          [] call = "WAKE_OP" -> "wake2"]]
  /\ Goto(t, IF call = "WAKE_OP" THEN "opread" ELSE "key")
  /\ UNCHANGED <<parkVars, sigVars, queue, node, out, held>>

\* futex_wake_op(): the operation on the second word is a read ...
WakeOpRead(t) ==
  /\ pc[t] = "opread"
  /\ arg' = [arg EXCEPT ![t].exp = val[page[arg[t].w2]]]
  /\ Goto(t, "opwrite")
  /\ UNCHANGED <<parkVars, sigVars, memVars, queue, node, out, held>>

\* ... and a later write.
WakeOpWrite(t) ==
  /\ pc[t] = "opwrite" /\ arg[t].exp.n < MaxVal[arg[t].w2]
  /\ Store(arg[t].w2, Incremented(arg[t].exp))
  /\ Goto(t, "key")
  /\ UNCHANGED <<parkVars, sigVars, queue, node, arg, out, held>>

\* futex_phys_key() of the words of the call, without a lock.  A comparing
\* requeue first finds the word changed (-EAGAIN) or not.
Key(t) ==
  LET a == arg[t] IN
  /\ pc[t] = "key"
  /\ \/ /\ arg' = [arg EXCEPT ![t].key = page[a.w],
                               ![t].key2 = IF a.w2 = None THEN None ELSE page[a.w2]]
        /\ Goto(t, "collect")
     \/ /\ a.then = "requeue" /\ val[page[a.w]] # a.exp
        /\ arg' = [arg EXCEPT ![t] = NoCall]
        /\ Goto(t, "user")
  /\ UNCHANGED <<parkVars, sigVars, memVars, queue, node, out, held>>

\* futex_wake_match(): the same mm and address, or the same physical page.
Match(t, u) ==
  \/ node[u].w = arg[t].w
  \/ ~arg[t].priv /\ node[u].p = arg[t].key

\* Where the matching waiters are in bucket b.
Matching(t, b) == {i \in 1..Len(queue[b]) : Match(t, queue[b][i])}

\* wait_queue_collect_matching(): detach a batch under the bucket lock.  A wake
\* stops after a short batch; requeue and wake-op ask again until none is left.
Collect(t) ==
  LET a == arg[t]
      b == Bucket[a.key]
      want == IF a.nr = All \/ a.nr > Batch THEN Batch ELSE a.nr
      hits == Nearest(Matching(t, b), want)
      got == Entries(queue[b], hits)
      left == IF Len(got) < want /\ ~a.retry THEN 0
              ELSE IF a.nr = All THEN All ELSE a.nr - Len(got) IN
  /\ pc[t] = "collect"
  /\ queue' = [queue EXCEPT ![b] = Entries(@, 1..Len(@) \ hits)]
  /\ node' = [u \in Tasks |-> IF OnList(u, got) THEN [node[u] EXCEPT !.at = None]
                              ELSE node[u]]
  /\ out' = [out EXCEPT ![t] = [i \in DOMAIN got |-> <<got[i], node[got[i]].seq>>]]
  /\ arg' = [arg EXCEPT ![t].nr = IF got = <<>> THEN 0 ELSE left]
  /\ Goto(t, IF got = <<>> THEN "phase" ELSE "flush")
  /\ UNCHANGED <<parkVars, sigVars, memVars, held>>

\* proc_wake_q_flush(), outside the bucket lock: one proc_try_wake(), which the
\* sequence number makes a no-op if the waiter has gone on.
Flush(t) ==
  LET u == out[t][1][1]  s == out[t][1][2] IN
  /\ pc[t] = "flush"
  /\ IF number[u] = s /\ Waiting(u) THEN Park!End(u, "EVENT") ELSE UNCHANGED parkVars
  /\ out' = [out EXCEPT ![t] = Tail(@)]
  /\ Goto(t, IF Len(out[t]) > 1 THEN "flush"
             ELSE IF arg[t].nr # 0 THEN "collect" ELSE "phase")
  /\ UNCHANGED <<sigVars, memVars, queue, node, arg, held>>

\* What follows the wakes: the requeue, the second wake of wake-op if its
\* comparison holds (data), or the return to the caller.
Phase(t) ==
  /\ pc[t] = "phase"
  /\ \/ /\ arg[t].then = "wake2"
        /\ arg' = [arg EXCEPT ![t].w = arg[t].w2, ![t].key = arg[t].key2,
                              ![t].then = "user", ![t].nr = All]
        /\ Goto(t, "collect")
     \/ /\ arg[t].then = "requeue"
        /\ Goto(t, "requeue") /\ UNCHANGED arg
     \/ /\ arg[t].then # "requeue"
        /\ arg' = [arg EXCEPT ![t] = NoCall]
        /\ Goto(t, IF arg[t].then = "exit" THEN "exit" ELSE "user")
  /\ UNCHANGED <<parkVars, sigVars, memVars, queue, node, out, held>>

\* wait_queue_requeue_matching() under both bucket locks: the remaining waiters
\* move to the head of the target's bucket and take its key.
Requeue(t) ==
  LET a == arg[t]
      from == Bucket[a.key]
      to == Bucket[a.key2]
      hits == Matching(t, from)
      moved == Entries(queue[from], hits)
      back == [i \in DOMAIN moved |-> moved[Len(moved) + 1 - i]] IN
  /\ pc[t] = "requeue"
  /\ queue' = IF from = to THEN queue
              ELSE [queue EXCEPT ![from] = Entries(@, 1..Len(@) \ hits),
                                 ![to] = back \o @]
  /\ node' = [u \in Tasks |->
                IF OnList(u, moved)
                THEN [node[u] EXCEPT !.w = a.w2, !.at = to,
                                     !.p = IF a.priv THEN None ELSE a.key2]
                ELSE node[u]]
  /\ arg' = [arg EXCEPT ![t] = NoCall]
  /\ Goto(t, "user")
  /\ UNCHANGED <<parkVars, sigVars, memVars, out, held>>

-----------------------------------------------------------------------------
(* PI locks.  The word holds the owner's tid, FUTEX_WAITERS and            *)
(* FUTEX_OWNER_DIED; without contention user code changes it alone.        *)

Owner(t) == [Free EXCEPT !.tid = t]

\* The uncontended lock and unlock of the C library (musl pthread_mutex_*).
UserLock(t, w) ==
  /\ pc[t] = "user" /\ w \in uses[t].writes \cap PiWords /\ val[page[w]] = Free
  /\ Store(w, Owner(t))
  /\ held' = [held EXCEPT ![t] = @ \cup {w}]
  /\ UNCHANGED <<parkVars, sigVars, queue, node, pc, arg, out>>

UserUnlock(t, w) ==
  /\ pc[t] = "user" /\ w \in held[t] /\ val[page[w]] = Owner(t)
  /\ Store(w, Free)
  /\ held' = [held EXCEPT ![t] = @ \ {w}]
  /\ UNCHANGED <<parkVars, sigVars, queue, node, pc, arg, out>>

\* The FUTEX_LOCK_PI and FUTEX_TRYLOCK_PI calls.
LockCall(t, w, try) ==
  /\ pc[t] = "user" /\ w \in uses[t].writes \cap PiWords /\ val[page[w]] # Free
  /\ number[t] < MaxWaits
  /\ arg' = [arg EXCEPT ![t] = [NoCall EXCEPT !.w = w, !.try = try]]
  /\ Goto(t, "lock")
  /\ UNCHANGED <<parkVars, sigVars, memVars, queue, node, out, held>>

BugClaimable(v) == v = Free \/ v.died

\* Free, or left by an owner that died.
Claimable(v) == v.tid = None /\ (v = Free \/ v.died)

\* futex_pi_acquire(), one round under mm->lock and the bucket lock: claim the
\* lock, keeping the flags; or give up (-EDEADLK, -EAGAIN); or set
\* FUTEX_WAITERS and wait for that value to change.
PiAcquire(t) ==
  LET w == arg[t].w  v == val[page[w]]  flagged == [v EXCEPT !.wtr = TRUE] IN
  /\ pc[t] = "lock"
  /\ \/ /\ Claimable(v)
        /\ Store(w, [v EXCEPT !.tid = t])
        /\ held' = [held EXCEPT ![t] = @ \cup {w}]
        /\ arg' = [arg EXCEPT ![t] = NoCall] /\ Goto(t, "user")
     \/ /\ ~Claimable(v) /\ (v.tid = t \/ arg[t].try)
        /\ arg' = [arg EXCEPT ![t] = NoCall] /\ Goto(t, "user")
        /\ UNCHANGED <<memVars, held>>
     \/ /\ ~Claimable(v) /\ v.tid # t /\ ~arg[t].try /\ number[t] < MaxWaits
        /\ Store(w, flagged)
        /\ arg' = [arg EXCEPT ![t] = [NoCall EXCEPT !.w = w, !.exp = flagged]]
        /\ Goto(t, "prepare") /\ UNCHANGED held
  /\ UNCHANGED <<parkVars, sigVars, queue, node, out>>

\* A shared futex_wake() of one waiter of w, for the kernel's own releases.
WakeOne(t, w, then) ==
  /\ arg' = [arg EXCEPT ![t] = [NoCall EXCEPT !.w = w, !.nr = 1, !.then = then]]
  /\ Goto(t, "key")

BugReleased(v) == [v EXCEPT !.tid = None]

\* What futex_pi_release() stores: 0, whatever flags the word had.
Released(v) == Free

\* futex_pi_release(): one waiter is woken if FUTEX_WAITERS was set.  Not the owner: -EPERM, nothing changes.
PiRelease(t, w) ==
  /\ pc[t] = "user" /\ w \in held[t] /\ val[page[w]].tid = t
  /\ Store(w, Released(val[page[w]]))
  /\ held' = [held EXCEPT ![t] = @ \ {w}]
  /\ IF val[page[w]].wtr THEN WakeOne(t, w, "user") ELSE UNCHANGED <<pc, arg>>
  /\ UNCHANGED <<parkVars, sigVars, queue, node, out>>

\* proc_exit(): the task walks its robust list (without a lock on it the exit
\* changes nothing here) ...
Exit(t) ==
  /\ pc[t] = "user" /\ t \in Mortal /\ held[t] # {} /\ Goto(t, "exit")
  /\ UNCHANGED <<parkVars, sigVars, memVars, queue, node, arg, out, held>>

\* ... reads each word it holds, until none is left ...
RobustRead(t) ==
  /\ pc[t] = "exit"
  /\ \/ \E w \in held[t] :
          /\ arg' = [arg EXCEPT ![t] = [NoCall EXCEPT !.w = w, !.exp = val[page[w]]]]
          /\ Goto(t, "robust")
     \/ held[t] = {} /\ Goto(t, "dead") /\ UNCHANGED arg
  /\ UNCHANGED <<parkVars, sigVars, memVars, queue, node, out, held>>

\* ... and marks the owner dead with a plain store of what it read.  (The code
\* skips a word that does not name the task; here the store happens anyway.)
RobustWrite(t) ==
  LET w == arg[t].w  was == arg[t].exp IN
  /\ pc[t] = "robust"
  /\ Store(w, [was EXCEPT !.tid = None, !.died = TRUE])
  /\ held' = [held EXCEPT ![t] = @ \ {w}]
  /\ IF was.wtr THEN WakeOne(t, w, "exit")
     ELSE Goto(t, "exit") /\ arg' = [arg EXCEPT ![t] = NoCall]
  /\ UNCHANGED <<parkVars, sigVars, queue, node, out>>

-----------------------------------------------------------------------------
(* Signals and timeouts.                                                   *)

\* A signal becomes pending during a call (user code would take it at once) ...
SigSend(t) ==
  /\ sent < MaxSignals /\ t \in Signalled \ sig /\ pc[t] \notin {"user", "dead"}
  /\ sig' = sig \cup {t} /\ kick' = kick \cup {t} /\ sent' = sent + 1
  /\ UNCHANGED <<parkVars, memVars, queue, node, callVars>>

\* ... and then interrupts the target's wait, if it is waiting.
SigKick(t) ==
  /\ t \in kick /\ kick' = kick \ {t}
  /\ IF Waiting(t) THEN Park!End(t, "SIGNAL") ELSE UNCHANGED parkVars
  /\ UNCHANGED <<sig, sent, memVars, queue, node, callVars>>

\* The handler runs on the way back to user code.
SigTake(t) ==
  /\ t \in sig /\ pc[t] = "user" /\ sig' = sig \ {t}
  /\ UNCHANGED <<parkVars, kick, sent, memVars, queue, node, callVars>>

DeadlinePasses(t) ==
  /\ Park!DeadlinePasses(t)
  /\ UNCHANGED <<sigVars, memVars, queue, node, callVars>>

Timeout(t) ==
  /\ Park!End(t, "TIMEOUT")
  /\ UNCHANGED <<sigVars, memVars, queue, node, callVars>>

Calls == {"WAKE", "REQUEUE", "WAKE_OP"}

Step(t) ==
  \/ \E w \in uses[t].waits, d \in BOOLEAN : WaitCall(t, w, d)
  \/ \E w \in uses[t].writes :
       \/ UserLock(t, w) \/ UserUnlock(t, w) \/ PiRelease(t, w)
       \/ \E try \in BOOLEAN : LockCall(t, w, try)
       \/ \E c \in Calls, w2 \in uses[t].writes \cup {None}, priv \in BOOLEAN :
            Notify(t, w, c, w2, priv)
  \/ Prepare(t) \/ Link(t) \/ Cancel(t) \/ Commit(t) \/ Finish(t)
  \/ Unlink(t) \/ UnlinkLocked(t)
  \/ WakeOpRead(t) \/ WakeOpWrite(t) \/ Key(t) \/ Collect(t) \/ Flush(t)
  \/ Phase(t) \/ Requeue(t)
  \/ PiAcquire(t) \/ Exit(t) \/ RobustRead(t) \/ RobustWrite(t)
  \/ SigSend(t) \/ SigKick(t) \/ SigTake(t) \/ DeadlinePasses(t) \/ Timeout(t)

Next == \E t \in Tasks : Step(t)

Spec == Init /\ [][Next]_vars

-----------------------------------------------------------------------------
(* Properties.                                                             *)

\* Every variable keeps its type; in particular a PI word is never left with
\* FUTEX_WAITERS alone, a value futex_pi_acquire() would wait on for ever.
TypeOK ==
  /\ wait \in [Tasks -> {"IDLE", "PREPARING", "PARKED", "WOKEN"}]
  /\ sig \subseteq Tasks /\ kick \subseteq Tasks /\ sent \in 0..MaxSignals
  /\ page \in [Words -> Pages] /\ cow \subseteq CowWords
  /\ \A p \in Pages : /\ val[p].n \in Nat /\ val[p].tid \in Tasks \cup {None}
                      /\ val[p].wtr /\ val[p].tid = None => val[p].died
  /\ \A t \in Tasks : /\ number[t] \in 0..MaxWaits
                      /\ Len(out[t]) <= Batch
                      /\ held[t] \subseteq uses[t].writes \cap PiWords

\* Every entry of a bucket is the live node of the task it names, linked once
\* and in the bucket it says it is in: no wake or requeue walks over a node
\* futex_wait_ticks() has freed, and no unlink takes it off the wrong bucket.
NodesAreLive ==
  /\ \A b \in DOMAIN queue :
       /\ \A i \in DOMAIN queue[b] :
            node[queue[b][i]] # None /\ node[queue[b][i]].at = b
       /\ \A i, j \in DOMAIN queue[b] : queue[b][i] = queue[b][j] => i = j
  /\ \A t \in Tasks : node[t] # None /\ node[t].at # None => OnList(t, queue[node[t].at])

\* The page notifier n derives its bucket from, and whether its call will yet
\* pass over all waiters of its word, the node of u among them.
KeyOf(n) == IF pc[n] \in {"opread", "opwrite", "key"} THEN page[arg[n].w] ELSE arg[n].key
WillReach(n, u) ==
  /\ \/ pc[n] \in {"opread", "opwrite", "key", "collect", "flush"}
        /\ (arg[n].nr = All \/ arg[n].then = "requeue")
     \/ pc[n] \in {"phase", "requeue"} /\ arg[n].then = "requeue"
  /\ Bucket[KeyOf(n)] = node[u].at
  /\ node[u].w = arg[n].w \/ (~arg[n].priv /\ node[u].p = KeyOf(n))

\* Task t waits on a word that no longer holds the value it waits for.
Outdated(t) ==
  /\ Waiting(t) /\ node[t] # None /\ node[t].at # None
  /\ val[page[node[t].w]] # arg[t].exp

\* FUTEX_WAIT_RECHECK_PROTOCOL: a waiter on an event counter whose word has
\* changed is in the way of a notifier that has still to search its bucket, and
\* a waiter taken off its bucket is on the wake list of whoever took it off.
\* (A word whose page was moved by a copy-on-write break is left out here: see
\* SleepersReachable.)
SleeperHasWaker ==
  \A t \in Tasks :
    /\ Outdated(t) /\ node[t].w \notin Targets \cup PiWords /\ page[node[t].w] = node[t].p
         => \E n \in Tasks : WillReach(n, t)
    /\ Waiting(t) /\ node[t] # None /\ node[t].at = None
         => \E n \in Tasks : OnList(<<t, number[t]>>, out[n])

\* The same with copy-on-write: whatever page the word is on by now, a waiter
\* whose word has changed is reached by the notifier that changed it.
SleepersReachable ==
  \A t \in Tasks :
    Outdated(t) /\ node[t].w \notin Targets \cup PiWords => \E n \in Tasks : WillReach(n, t)

\* futex_pi_acquire(), user code and exit_robust_list() never give one PI lock
\* to two tasks, and a holder is named by the word until it lets go.
PiExclusion ==
  \A t \in Tasks : \A w \in held[t] : val[page[w]].tid = t

\* While a task sleeps on a PI lock the word has FUTEX_WAITERS set (so that no
\* unlock bypasses the kernel), or somebody is about to wake a waiter of it.
PiSleepersPublished ==
  \A t \in Tasks :
    wait[t] = "PARKED" /\ node[t] # None /\ node[t].w \in PiWords =>
      LET w == node[t].w IN
      \/ val[page[w]].wtr
      \/ \E n \in Tasks \ {t} :
           \/ arg[n].w = w /\ pc[n] \in {"key", "collect", "flush", "lock"}
           \/ node[n] # None /\ node[n].w = w /\ ~Waiting(n)
=============================================================================
