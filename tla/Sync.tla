-------------------------------- MODULE Sync --------------------------------
(***************************************************************************)
(* The sleeping locks of kernel/core/sync.c: mutex_t, rw_mutex_t and       *)
(* completion_t, over the wait queues of the same file and the wake batch  *)
(* of kernel/proc/park.c.                                                  *)
(*                                                                         *)
(* The four waiting calls are one loop with different conditions, and are  *)
(* modelled once: an operation is what a thread waits for.  One action is  *)
(* one critical section of an object's or a queue's spinlock.  The park    *)
(* protocol is used through the contract that Sched verifies: a wake       *)
(* carries its wait's sequence, so it never reaches a later wait.          *)
(***************************************************************************)
EXTENDS WaitList, Integers, Sequences, FiniteSets

CONSTANTS
  Threads,
  None,          \* NULL
  Uses,          \* [Threads -> SUBSET Calls]: the calls each thread makes
  MaxDepth,      \* bound on the recursion of the mutex
  DoneAll,       \* COMPLETION_DONE_ALL, the largest value of the counter
  MaxCompletes,  \* bound on the calls of complete() and complete_all()
  Batch,         \* PROC_WAKE_Q_CAPACITY
  Strays         \* threads whose waits something else may end early

Waits == {"mutex", "read", "write", "wait"}
Calls == Waits \cup {"trylock", "complete", "complete_all"}

ASSUME SyncAssumption ==
  /\ None \notin Threads /\ IsFiniteSet(Threads)
  /\ None \notin Waits /\ None \notin Waits \X BOOLEAN
  /\ Uses \in [Threads -> SUBSET Calls] /\ Strays \subseteq Threads
  /\ MaxDepth \in Nat \ {0} /\ DoneAll \in Nat \ {0}
  /\ MaxCompletes \in Nat /\ Batch \in Nat \ {0}

VARIABLES
  \* mutex_t: locked iff it has an owner
  owner, depth,
  \* rw_mutex_t
  readers, waitingWriters, writer,
  \* completion_t, and the calls that completed it
  done, completes,
  \* wait_queue_t per waiting call: threads, newest first
  queue,
  \* the threads: park token, place in the call, the call
  token, pc, op,
  \* a waker's local state: <<queue, every>> while it still has to collect one
  \* or every waiter of a queue, and its wake batch
  owes, batch

lockVars == <<owner, depth, readers, waitingWriters, writer, done, completes>>
vars == <<lockVars, queue, token, pc, op, owes, batch>>

Init ==
  /\ owner = None /\ depth = 0
  /\ readers = 0 /\ waitingWriters = 0 /\ writer = None
  /\ done = 0 /\ completes = 0
  /\ queue = [o \in Waits |-> <<>>]
  /\ token = [t \in Threads |-> "idle"]
  /\ pc = [t \in Threads |-> "idle"]
  /\ op = [t \in Threads |-> None]
  /\ owes = [t \in Threads |-> None]
  /\ batch = [t \in Threads |-> <<>>]

-----------------------------------------------------------------------------
(* The conditions and effects of the waiting calls.                        *)

(* A definition named Bug... is the definition after it with a plausible   *)
(* mistake; no specification uses it.  It shows that a property notices.   *)

BugCanTakeNoReaders(o) ==
  /\ o = "mutex" => owner = None
  /\ o = "read"  => writer = None /\ waitingWriters = 0
  /\ o = "write" => writer = None
  /\ o = "wait"  => done > 0

BugCanTakeBarging(o) ==
  /\ o = "mutex" => owner = None
  /\ o = "read"  => writer = None
  /\ o = "write" => writer = None /\ readers = 0
  /\ o = "wait"  => done > 0

\* What each call waits for.
CanTake(o) ==
  /\ o = "mutex" => owner = None
  /\ o = "read"  => writer = None /\ waitingWriters = 0
  /\ o = "write" => writer = None /\ readers = 0
  /\ o = "wait"  => done > 0

BugTakeStillWaiting(t, o) ==
  /\ owner' = IF o = "mutex" THEN t ELSE owner
  /\ depth' = IF o = "mutex" THEN 1 ELSE depth
  /\ readers' = IF o = "read" THEN readers + 1 ELSE readers
  /\ writer' = IF o = "write" THEN t ELSE writer
  /\ done' = IF o = "wait" /\ done # DoneAll THEN done - 1 ELSE done
  /\ UNCHANGED <<completes, waitingWriters>>

\* What each call does once it need not wait.  DONE_ALL is never used up.
Take(t, o) ==
  /\ owner' = IF o = "mutex" THEN t ELSE owner
  /\ depth' = IF o = "mutex" THEN 1 ELSE depth
  /\ readers' = IF o = "read" THEN readers + 1 ELSE readers
  /\ waitingWriters' = IF o = "write" THEN waitingWriters - 1 ELSE waitingWriters
  /\ writer' = IF o = "write" THEN t ELSE writer
  /\ done' = IF o = "wait" /\ done # DoneAll THEN done - 1 ELSE done
  /\ UNCHANGED completes

\* A thread that returns to its caller with nothing held is in no call.
Goto(t, p) ==
  /\ pc' = [pc EXCEPT ![t] = p]
  /\ op' = [op EXCEPT ![t] = IF p \in {"idle", "collect"} THEN None ELSE @]

\* A lock is held until it is released; a completion is only consumed.
After(o) == IF o = "wait" THEN "idle" ELSE "held"

-----------------------------------------------------------------------------
(* mutex_lock(), rw_mutex_read_lock(), rw_mutex_write_lock() and           *)
(* wait_for_completion().                                                  *)

\* Entry.  A writer announces itself first.
Enter(t, o) ==
  /\ pc[t] = "idle" /\ o \in Uses[t] \cap Waits
  /\ waitingWriters' = IF o = "write" THEN waitingWriters + 1 ELSE waitingWriters
  /\ op' = [op EXCEPT ![t] = o]
  /\ pc' = [pc EXCEPT ![t] = "try"]
  /\ UNCHANGED <<owner, depth, readers, writer, done, completes, queue, token,
                 owes, batch>>

\* The first check of the loop, without a token.
Try(t) ==
  /\ pc[t] = "try"
  /\ IF CanTake(op[t])
     THEN Take(t, op[t]) /\ Goto(t, After(op[t]))
     ELSE Goto(t, "prepare") /\ UNCHANGED lockVars
  /\ UNCHANGED <<queue, token, owes, batch>>

\* proc_park_prepare(UNINTERRUPTIBLE)
Prepare(t) ==
  /\ pc[t] = "prepare"
  /\ token' = [token EXCEPT ![t] = "preparing"]
  /\ pc' = [pc EXCEPT ![t] = "recheck"]
  /\ UNCHANGED <<lockVars, queue, op, owes, batch>>

\* The second check, with the token in hand: take the object and retire the
\* token, or link the waiter under the same lock.
Recheck(t) ==
  /\ pc[t] = "recheck"
  /\ IF CanTake(op[t])
     THEN /\ Take(t, op[t])
          /\ token' = [token EXCEPT ![t] = "idle"]
          /\ Goto(t, After(op[t]))
          /\ UNCHANGED queue
     ELSE /\ queue' = [queue EXCEPT ![op[t]] = <<t>> \o @]
          /\ Goto(t, "commit")
          /\ UNCHANGED <<lockVars, token>>
  /\ UNCHANGED <<owes, batch>>

\* proc_park_commit(): sleep unless the token is already won.
Commit(t) ==
  /\ pc[t] = "commit"
  /\ token' = [token EXCEPT ![t] = IF @ = "preparing" THEN "parked" ELSE @]
  /\ pc' = [pc EXCEPT ![t] = "asleep"]
  /\ UNCHANGED <<lockVars, queue, op, owes, batch>>

BugResumeLinked(t) ==
  /\ pc[t] = "asleep" /\ token[t] = "woken"
  /\ token' = [token EXCEPT ![t] = "idle"]
  /\ batch' = [u \in Threads |-> Unlinked(batch[u], t)]
  /\ pc' = [pc EXCEPT ![t] = "try"]
  /\ UNCHANGED <<lockVars, queue, op, owes>>

\* Back from the sleep: wait_queue_unlink(), proc_park_finish(), and round the
\* loop.  A wake of this wait that is still in a batch has become stale.
Resume(t) ==
  /\ pc[t] = "asleep" /\ token[t] = "woken"
  /\ queue' = [queue EXCEPT ![op[t]] = Unlinked(@, t)]
  /\ token' = [token EXCEPT ![t] = "idle"]
  /\ batch' = [u \in Threads |-> Unlinked(batch[u], t)]
  /\ pc' = [pc EXCEPT ![t] = "try"]
  /\ UNCHANGED <<lockVars, op, owes>>

\* mutex_lock() by its owner, and mutex_trylock(), which the owner's own hold
\* makes fail like anyone else's.
Relock(t) ==
  /\ pc[t] = "held" /\ op[t] = "mutex" /\ owner = t /\ depth < MaxDepth
  /\ depth' = depth + 1
  /\ UNCHANGED <<owner, readers, waitingWriters, writer, done, completes, queue,
                 token, pc, op, owes, batch>>

TryLock(t) ==
  /\ pc[t] = "idle" /\ "trylock" \in Uses[t] /\ CanTake("mutex")
  /\ Take(t, "mutex")
  /\ op' = [op EXCEPT ![t] = "mutex"]
  /\ pc' = [pc EXCEPT ![t] = "held"]
  /\ UNCHANGED <<queue, token, owes, batch>>

-----------------------------------------------------------------------------
(* The releasing calls: each changes the object under its lock, drops the  *)
(* lock and only then wakes.                                               *)

\* The thread goes on to wake one (or every) waiter of call o.
WakeNext(t, o, every) ==
  /\ owes' = [owes EXCEPT ![t] = <<o, every>>]
  /\ Goto(t, "collect")

NothingToWake(t) == Goto(t, "idle") /\ UNCHANGED owes

MutexUnlock(t) ==
  /\ pc[t] = "held" /\ op[t] = "mutex"
  /\ IF depth > 1
     THEN depth' = depth - 1 /\ UNCHANGED <<owner, pc, op, owes>>
     ELSE depth' = 0 /\ owner' = None /\ WakeNext(t, "mutex", FALSE)
  /\ UNCHANGED <<readers, waitingWriters, writer, done, completes, queue, token,
                 batch>>

ReadUnlock(t) ==
  /\ pc[t] = "held" /\ op[t] = "read"
  /\ readers' = readers - 1
  /\ IF readers = 1 /\ waitingWriters > 0
     THEN WakeNext(t, "write", FALSE) ELSE NothingToWake(t)
  /\ UNCHANGED <<owner, depth, waitingWriters, writer, done, completes, queue,
                 token, batch>>

BugWriteUnlockOneReader(t) ==
  /\ pc[t] = "held" /\ op[t] = "write"
  /\ writer' = None
  /\ WakeNext(t, IF waitingWriters > 0 THEN "write" ELSE "read", FALSE)
  /\ UNCHANGED <<owner, depth, readers, waitingWriters, done, completes, queue,
                 token, batch>>

WriteUnlock(t) ==
  /\ pc[t] = "held" /\ op[t] = "write"
  /\ writer' = None
  /\ IF waitingWriters > 0 THEN WakeNext(t, "write", FALSE)
     ELSE WakeNext(t, "read", TRUE)
  /\ UNCHANGED <<owner, depth, readers, waitingWriters, done, completes, queue,
                 token, batch>>

BugCompleteUnbounded(t) ==
  /\ pc[t] = "idle" /\ "complete" \in Uses[t] /\ completes < MaxCompletes
  /\ done' = done + 1
  /\ completes' = completes + 1
  /\ WakeNext(t, "wait", FALSE)
  /\ UNCHANGED <<owner, depth, readers, waitingWriters, writer, queue, token,
                 batch>>

\* complete(): the counter wraps, also from DONE_ALL.
Complete(t) ==
  /\ pc[t] = "idle" /\ "complete" \in Uses[t] /\ completes < MaxCompletes
  /\ done' = (done + 1) % (DoneAll + 1)
  /\ completes' = completes + 1
  /\ WakeNext(t, "wait", FALSE)
  /\ UNCHANGED <<owner, depth, readers, waitingWriters, writer, queue, token,
                 batch>>

CompleteAll(t) ==
  /\ pc[t] = "idle" /\ "complete_all" \in Uses[t] /\ completes < MaxCompletes
  /\ done' = DoneAll
  /\ completes' = completes + 1
  /\ WakeNext(t, "wait", TRUE)
  /\ UNCHANGED <<owner, depth, readers, waitingWriters, writer, queue, token,
                 batch>>

\* wait_queue_collect_one() and wait_queue_collect_all(): under the queue's
\* lock the newest waiters move into the batch.
Collected(t) ==
  LET q == queue[owes[t][1]]
      room == IF owes[t][2] THEN Batch ELSE 1 IN
  IF Len(q) <= room THEN Len(q) ELSE room

Collect(t) ==
  LET q == queue[owes[t][1]]
      n == Collected(t)
      again == owes[t][2] /\ n < Len(q) IN
  /\ pc[t] = "collect"
  /\ batch' = [batch EXCEPT ![t] = SubSeq(q, 1, n)]
  /\ queue' = [queue EXCEPT ![owes[t][1]] = SubSeq(q, n + 1, Len(q))]
  /\ pc' = [pc EXCEPT ![t] = IF n = 0 THEN "idle" ELSE "flush"]
  /\ owes' = [owes EXCEPT ![t] = IF again THEN @ ELSE None]
  /\ UNCHANGED <<lockVars, token, op>>

\* proc_wake_q_flush(), one task at a time.
Flush(t) ==
  LET u == Head(batch[t]) IN
  /\ pc[t] = "flush" /\ batch[t] # <<>>
  /\ token' = [token EXCEPT ![u] = IF @ \in {"preparing", "parked"} THEN "woken"
                                   ELSE @]
  /\ batch' = [batch EXCEPT ![t] = Tail(@)]
  /\ UNCHANGED <<lockVars, queue, pc, op, owes>>

\* The batch is done; wait_queue_wake_all() goes round until the queue is
\* drained.
Flushed(t) ==
  /\ pc[t] = "flush" /\ batch[t] = <<>>
  /\ pc' = [pc EXCEPT ![t] = IF owes[t] = None THEN "idle" ELSE "collect"]
  /\ UNCHANGED <<lockVars, queue, token, op, owes, batch>>

\* An EVENT wake that is not meant for this object: the unthrottle of a cgroup
\* and a donation to a stale target both end whatever wait the task is in.
Stray(t) ==
  /\ t \in Strays /\ token[t] \in {"preparing", "parked"}
  /\ token' = [token EXCEPT ![t] = "woken"]
  /\ UNCHANGED <<lockVars, queue, pc, op, owes, batch>>

Call(t) ==
  \/ \E o \in Waits : Enter(t, o)
  \/ TryLock(t) \/ Complete(t) \/ CompleteAll(t) \/ Relock(t)

Proceed(t) ==
  \/ Try(t) \/ Prepare(t) \/ Recheck(t) \/ Commit(t) \/ Resume(t)
  \/ MutexUnlock(t) \/ ReadUnlock(t) \/ WriteUnlock(t)
  \/ Collect(t) \/ Flush(t) \/ Flushed(t)

Next == \E t \in Threads : Call(t) \/ Proceed(t) \/ Stray(t)

Spec == Init /\ [][Next]_vars

\* A thread inside a call, and the holder of a lock, goes on: a woken thread
\* runs again (WaitEnds of Sched), nothing here spins, and no caller keeps a
\* lock for ever.  Nothing obliges a thread to call again or to relock.
FairSpec == Spec /\ \A t \in Threads : WF_vars(Proceed(t))

-----------------------------------------------------------------------------
(* Properties.                                                             *)

PCs == {"idle", "try", "prepare", "recheck", "commit", "asleep", "held",
        "collect", "flush"}

\* Every variable has the type of the field or local variable it stands for.
TypeOK ==
  /\ owner \in Threads \cup {None} /\ depth \in 0..MaxDepth
  /\ readers \in Nat /\ waitingWriters \in Nat
  /\ writer \in Threads \cup {None}
  /\ done \in 0..DoneAll /\ completes \in 0..MaxCompletes
  /\ queue \in [Waits -> Seq(Threads)]
  /\ token \in [Threads -> {"idle", "preparing", "parked", "woken"}]
  /\ pc \in [Threads -> PCs] /\ op \in [Threads -> Waits \cup {None}]
  /\ owes \in [Threads -> (Waits \X BOOLEAN) \cup {None}]
  /\ batch \in [Threads -> Seq(Threads)]

Holders(o) == {t \in Threads : pc[t] = "held" /\ op[t] = o}

\* Mutual exclusion as the callers see it: the mutex is held by its owner and
\* nobody else, a writer is alone, and the reader count is the number of
\* threads that are reading.
MutualExclusion ==
  /\ Holders("mutex") = {owner} \ {None} /\ (depth = 0 <=> owner = None)
  /\ Holders("write") = {writer} \ {None}
  /\ readers = Cardinality(Holders("read"))
  /\ writer # None => readers = 0

Trying(o) == {t \in Threads : op[t] = o /\
                 pc[t] \in {"try", "prepare", "recheck", "commit", "asleep"}}

\* The announced writers are exactly those still in rw_mutex_write_lock(), so
\* readers are never shut out by a writer that has gone.
WritersCounted == waitingWriters = Cardinality(Trying("write"))

\* A waiter that will look at its condition again by itself.
Awake(o) == {t \in Trying(o) : ~(pc[t] \in {"commit", "asleep"} /\ token[t] # "woken")}

\* A waiter whose wake is on its way: in a batch, or in the queue of a waker
\* that is going to collect it.
InBatch(o) == {t \in Trying(o) : \E u \in Threads : \E i \in 1..Len(batch[u]) :
                                    batch[u][i] = t}
Wakers(o) == {u \in Threads : owes[u] \in {<<o, TRUE>>, <<o, FALSE>>}}
WakersOfAll(o) == {u \in Threads : owes[u] = <<o, TRUE>>}

Sleepers(o) == Trying(o) \ (Awake(o) \cup InBatch(o))

\* No lost wake: while a waiter sleeps on an object it could have, somebody is
\* about to wake one of its kind or is about to look itself; every sleeping
\* reader is due, and every completion that is left has a taker.
NobodyLeftBehind ==
  /\ \A o \in {"mutex", "write"} : CanTake(o) /\ Sleepers(o) # {} =>
        Awake(o) # {} \/ InBatch(o) # {} \/ Wakers(o) # {}
  /\ CanTake("read") /\ Sleepers("read") # {} =>
        WakersOfAll("read") # {}
  /\ Sleepers("wait") # {} /\ WakersOfAll("wait") = {} =>
        done <= Cardinality(Awake("wait")) + Cardinality(InBatch("wait"))
                + Cardinality(Wakers("wait"))

\* A wait-queue entry lives on its thread's stack: it is queued once, for the
\* wait its thread is in.
EntriesAreLive ==
  \A o \in Waits : \A i \in 1..Len(queue[o]) :
    LET t == queue[o][i] IN
    /\ op[t] = o /\ pc[t] \in {"commit", "asleep"}
    /\ \A j \in 1..Len(queue[o]) : queue[o][j] = t => i = j

\* "Waiting writers stop new readers so a sustained read stream cannot starve
\* writeback or eviction" (include/core/sync.h).
WriterGetsIn == waitingWriters > 0 ~> writer # None
=============================================================================
