----------------------------- MODULE SyncProofs -----------------------------
(***************************************************************************)
(* Mutual exclusion of the sleeping locks, for any number of threads, any  *)
(* mix of calls, any recursion depth and any size of the wake batch.       *)
(*                                                                         *)
(* The locks are safe because both checks of the waiting loop and every    *)
(* release are made under the object's spinlock; how waiters are queued    *)
(* and woken matters for progress only, so the invariant LInv does not     *)
(* mention the queues, the batches or the tokens.  The second half proves  *)
(* that nobody is left behind; there they are what matters.                *)
(***************************************************************************)
EXTENDS Sync, WaitListProofs, FiniteSetTheorems, TLAPS

InCall == {"try", "prepare", "recheck", "commit", "asleep", "held"}

LockType ==
  /\ owner \in Threads \cup {None} /\ writer \in Threads \cup {None}
  /\ depth \in Nat /\ readers \in Nat /\ waitingWriters \in Nat
  /\ pc \in [Threads -> PCs] /\ op \in [Threads -> Waits \cup {None}]

\* A thread inside a call knows which one, and nobody holds a completion.
CallShape ==
  \A t \in Threads : pc[t] \in InCall =>
     op[t] \in Waits /\ (pc[t] = "held" => op[t] # "wait")

LInv == LockType /\ CallShape /\ MutualExclusion /\ WritersCounted

\* A set of threads is finite, and counting it follows one thread's coming
\* and going.
LEMMA CountJoin ==
  ASSUME NEW S \in SUBSET Threads, NEW t \in Threads, t \notin S
  PROVE  Cardinality(S) \in Nat /\ Cardinality(S \cup {t}) = Cardinality(S) + 1
<1>1. IsFiniteSet(S)
  BY FS_Subset, SyncAssumption
<1> QED BY <1>1, FS_AddElement, FS_CardinalityType

\* One thread fewer.
LEMMA CountLeave ==
  ASSUME NEW S \in SUBSET Threads, NEW t \in S
  PROVE  /\ Cardinality(S) \in Nat \ {0}
         /\ Cardinality(S \ {t}) = Cardinality(S) - 1
<1>1. IsFiniteSet(S)
  BY FS_Subset, SyncAssumption
<1>2. Cardinality(S) \in Nat /\ Cardinality(S) # 0
  BY <1>1, FS_CardinalityType, FS_EmptySet
<1> QED BY <1>1, <1>2, FS_RemoveElement

\* A step that changes no lock and moves no thread into or out of a hold or a
\* write_lock() keeps the invariant.
LEMMA Neutral ==
  ASSUME LInv, UNCHANGED <<owner, depth, readers, waitingWriters, writer>>,
         (pc \in [Threads -> PCs] /\ op \in [Threads -> Waits \cup {None}])',
         CallShape',
         \A o \in Waits : Holders(o)' = Holders(o),
         Trying("write")' = Trying("write")
  PROVE  LInv'
<1> USE DEF LInv
<1>1. LockType'
  BY DEF LockType
<1>2. MutualExclusion'
  BY DEF MutualExclusion, Waits
<1>3. WritersCounted'
  BY DEF WritersCounted
<1> QED BY <1>1, <1>2, <1>3

\* Taking an object at either check of the loop.
LEMMA TakeStep ==
  ASSUME LInv, NEW t \in Threads, pc[t] \in {"try", "recheck"}, CanTake(op[t]),
         Take(t, op[t]), Goto(t, After(op[t]))
  PROVE  LInv'
<1> DEFINE o == op[t]
<1> USE DEF LInv
<1>1. o \in Waits /\ pc[t] # "held"
  BY DEF CallShape, InCall
<1>2. /\ pc' = [pc EXCEPT ![t] = After(o)]
      /\ op' = [op EXCEPT ![t] = IF o = "wait" THEN None ELSE o]
  BY <1>1 DEF Goto, After, LockType
<1>3. \A p \in Waits : Holders(p)' = IF p = o /\ o # "wait"
                                    THEN Holders(p) \cup {t} ELSE Holders(p)
  BY <1>1, <1>2 DEF Holders, After, LockType, Waits
<1>4. Trying("write")' = IF o = "write" THEN Trying("write") \ {t}
                         ELSE Trying("write")
  BY <1>1, <1>2 DEF Trying, After, LockType
<1>5. \A p \in Waits : t \notin Holders(p) /\ Holders(p) \in SUBSET Threads
  BY <1>1 DEF Holders
<1>6. Trying("write") \in SUBSET Threads /\ (o = "write" => t \in Trying("write"))
  BY DEF Trying
<1>7. CallShape'
  BY <1>1, <1>2 DEF CallShape, After, InCall, LockType
<1>8. (pc \in [Threads -> PCs] /\ op \in [Threads -> Waits \cup {None}])'
  BY <1>1, <1>2 DEF LockType, After, PCs
<1>9. CASE o = "mutex"
  <2>1. owner = None /\ owner' = t /\ depth' = 1
        /\ UNCHANGED <<readers, waitingWriters, writer>>
    BY <1>9 DEF CanTake, Take
  <2>2. LockType'
    BY <1>8, <2>1 DEF LockType
  <2>3. MutualExclusion'
    BY <1>3, <1>9, <2>1, SyncAssumption DEF MutualExclusion, Waits
  <2>4. WritersCounted'
    BY <1>4, <1>9, <2>1 DEF WritersCounted
  <2> QED BY <1>7, <2>2, <2>3, <2>4
<1>10. CASE o = "read"
  <2>1. writer = None /\ readers' = readers + 1
        /\ UNCHANGED <<owner, depth, waitingWriters, writer>>
    BY <1>10 DEF CanTake, Take
  <2>2. Cardinality(Holders("read")') = Cardinality(Holders("read")) + 1
    BY <1>3, <1>5, <1>10, CountJoin DEF Waits
  <2>3. LockType'
    BY <1>8, <2>1 DEF LockType
  <2>4. MutualExclusion'
    BY <1>3, <1>10, <2>1, <2>2, SyncAssumption DEF MutualExclusion, Waits, LockType
  <2>5. WritersCounted'
    BY <1>4, <1>10, <2>1 DEF WritersCounted
  <2> QED BY <1>7, <2>3, <2>4, <2>5
<1>11. CASE o = "write"
  <2>1. /\ writer = None /\ readers = 0 /\ writer' = t
        /\ waitingWriters' = waitingWriters - 1
        /\ UNCHANGED <<owner, depth, readers>>
    BY <1>11 DEF CanTake, Take
  <2>2. /\ Cardinality(Trying("write")) \in Nat \ {0}
        /\ Cardinality(Trying("write")') = Cardinality(Trying("write")) - 1
    BY <1>4, <1>6, <1>11, CountLeave
  <2>3. WritersCounted'
    BY <2>1, <2>2 DEF WritersCounted
  <2>4. LockType'
    BY <1>8, <2>1, <2>2 DEF LockType, WritersCounted
  <2>5. MutualExclusion'
    BY <1>3, <1>11, <2>1, SyncAssumption DEF MutualExclusion, Waits
  <2> QED BY <1>7, <2>3, <2>4, <2>5
<1>12. CASE o = "wait"
  <2>1. UNCHANGED <<owner, depth, readers, waitingWriters, writer>>
    BY <1>12 DEF Take
  <2>2. Trying("write")' = Trying("write") /\ \A p \in Waits : Holders(p)' = Holders(p)
    BY <1>3, <1>4, <1>12
  <2> QED BY <1>7, <1>8, <2>1, <2>2, Neutral
<1> QED BY <1>1, <1>9, <1>10, <1>11, <1>12 DEF Waits

\* Entering a call: only an announced writer counts.
LEMMA EnterStep ==
  ASSUME LInv, NEW t \in Threads, NEW o \in Waits, Enter(t, o)
  PROVE  LInv'
<1> USE DEF LInv
<1>1. /\ pc[t] = "idle" /\ pc' = [pc EXCEPT ![t] = "try"]
      /\ op' = [op EXCEPT ![t] = o]
      /\ UNCHANGED <<owner, depth, readers, writer>>
      /\ waitingWriters' = IF o = "write" THEN waitingWriters + 1 ELSE waitingWriters
  BY DEF Enter
<1>2. \A p \in Waits : Holders(p)' = Holders(p)
  BY <1>1 DEF Holders, LockType
<1>3. t \notin Trying("write") /\ Trying("write") \in SUBSET Threads
  BY <1>1 DEF Trying
<1>4. Trying("write")' = IF o = "write" THEN Trying("write") \cup {t}
                         ELSE Trying("write")
  BY <1>1 DEF Trying, LockType
<1>5. LockType' /\ CallShape'
  BY <1>1 DEF LockType, CallShape, InCall, PCs, Waits
<1>6. MutualExclusion'
  BY <1>1, <1>2 DEF MutualExclusion, Waits
<1>7. WritersCounted'
  BY <1>1, <1>3, <1>4, CountJoin DEF WritersCounted
<1> QED BY <1>5, <1>6, <1>7

\* The steps of the loop that take nothing, and all of the waking.
LEMMA PrepareStep ==
  ASSUME LInv, NEW t \in Threads,
         pc[t] \in {"try", "prepare", "recheck", "commit", "asleep"},
         NEW p \in {"try", "prepare", "recheck", "commit", "asleep"},
         pc' = [pc EXCEPT ![t] = p], op' = op,
         UNCHANGED <<owner, depth, readers, waitingWriters, writer>>
  PROVE  LInv'
<1> USE DEF LInv
<1>1. (pc \in [Threads -> PCs] /\ op \in [Threads -> Waits \cup {None}])' /\ CallShape'
  BY DEF LockType, CallShape, InCall, PCs
<1>2. \A o \in Waits : Holders(o)' = Holders(o)
  BY DEF Holders, LockType
<1>3. Trying("write")' = Trying("write")
  BY DEF Trying, LockType
<1> QED BY <1>1, <1>2, <1>3, Neutral

\* A step of a thread that is idle or waking others touches no lock.
LEMMA WakerStep ==
  ASSUME LInv, NEW t \in Threads, pc[t] \in {"idle", "collect", "flush"},
         NEW p \in {"idle", "collect", "flush"},
         pc' = [pc EXCEPT ![t] = p],
         op' = op \/ op' = [op EXCEPT ![t] = None],
         UNCHANGED <<owner, depth, readers, waitingWriters, writer>>
  PROVE  LInv'
<1> USE DEF LInv
<1>1. (pc \in [Threads -> PCs] /\ op \in [Threads -> Waits \cup {None}])' /\ CallShape'
  BY DEF LockType, CallShape, InCall, PCs
<1>2. \A o \in Waits : Holders(o)' = Holders(o)
  BY DEF Holders, LockType
<1>3. Trying("write")' = Trying("write")
  BY DEF Trying, LockType
<1> QED BY <1>1, <1>2, <1>3, Neutral

\* Releasing a held lock: the thread leaves its hold for p.
LEMMA ReleaseStep ==
  ASSUME LInv, NEW t \in Threads, pc[t] = "held",
         NEW p \in {"idle", "collect"}, Goto(t, p),
         UNCHANGED waitingWriters,
         \/ /\ op[t] = "mutex" /\ owner' = None /\ depth' = 0
            /\ UNCHANGED <<readers, writer>>
         \/ /\ op[t] = "read" /\ readers' = readers - 1
            /\ UNCHANGED <<owner, depth, writer>>
         \/ /\ op[t] = "write" /\ writer' = None
            /\ UNCHANGED <<owner, depth, readers>>
  PROVE  LInv'
<1> DEFINE o == op[t]
<1> USE DEF LInv
<1>1. pc' = [pc EXCEPT ![t] = p] /\ op' = [op EXCEPT ![t] = None]
  BY DEF Goto, LockType
<1>2. o \in Waits /\ t \in Holders(o)
  BY DEF CallShape, InCall, Holders
<1>3. \A q \in Waits : Holders(q)' = IF q = o THEN Holders(q) \ {t} ELSE Holders(q)
  BY <1>1, <1>2 DEF Holders, LockType
<1>4. Trying("write")' = Trying("write")
  BY <1>1 DEF Trying, LockType
<1>5. CallShape'
  BY <1>1 DEF CallShape, InCall, LockType
<1>6. (pc \in [Threads -> PCs] /\ op \in [Threads -> Waits \cup {None}])'
  BY <1>1 DEF LockType, PCs
<1>7. WritersCounted'
  BY <1>4 DEF WritersCounted
<1>8. Holders("read") \in SUBSET Threads
  BY DEF Holders
<1>9. CASE o = "mutex" /\ owner' = None /\ depth' = 0 /\ UNCHANGED <<readers, writer>>
  <2>1. owner = t
    BY <1>2, <1>9 DEF MutualExclusion
  <2>2. MutualExclusion'
    BY <1>3, <1>9, <2>1 DEF MutualExclusion, Waits
  <2> QED BY <1>5, <1>6, <1>7, <1>9, <2>2 DEF LockType
<1>10. CASE o = "read" /\ readers' = readers - 1 /\ UNCHANGED <<owner, depth, writer>>
  <2>1. /\ Cardinality(Holders("read")) \in Nat \ {0}
        /\ Cardinality(Holders("read")') = Cardinality(Holders("read")) - 1
    BY <1>2, <1>3, <1>8, <1>10, CountLeave
  <2>2. readers \in Nat \ {0}
    BY <2>1 DEF MutualExclusion
  <2>3. MutualExclusion'
    BY <1>3, <1>10, <2>1, <2>2 DEF MutualExclusion, Waits
  <2> QED BY <1>5, <1>6, <1>7, <1>10, <2>2, <2>3 DEF LockType
<1>11. CASE o = "write" /\ writer' = None /\ UNCHANGED <<owner, depth, readers>>
  <2>1. writer = t
    BY <1>2, <1>11 DEF MutualExclusion
  <2>2. MutualExclusion'
    BY <1>3, <1>11, <2>1 DEF MutualExclusion, Waits
  <2> QED BY <1>5, <1>6, <1>7, <1>11, <2>2 DEF LockType
<1> QED BY <1>9, <1>10, <1>11

\* Freshly initialised objects: nobody holds or waits.
LEMMA LInit == Init => LInv
<1> SUFFICES ASSUME Init PROVE LInv
  OBVIOUS
<1>1. \A o \in Waits : Holders(o) = {}
  BY DEF Init, Holders
<1>2. Trying("write") = {}
  BY DEF Init, Trying
<1>3. MutualExclusion /\ WritersCounted
  BY <1>1, <1>2, FS_EmptySet DEF Init, MutualExclusion, WritersCounted, Waits
<1>4. LockType /\ CallShape
  BY DEF Init, LockType, CallShape, InCall, PCs
<1> QED BY <1>3, <1>4 DEF LInv

\* Every call and every step of the waiting loop and the wakers keeps LInv.
LEMMA LNext == LInv /\ [Next]_vars => LInv'
<1> SUFFICES ASSUME LInv, [Next]_vars PROVE LInv'
  OBVIOUS
<1>1. CASE UNCHANGED vars
  BY <1>1 DEF vars, lockVars, LInv, LockType, CallShape, MutualExclusion,
              WritersCounted, Holders, Trying
<1>2. CASE \E t \in Threads : Call(t) \/ Proceed(t) \/ Stray(t)
  <2> PICK t \in Threads : Call(t) \/ Proceed(t) \/ Stray(t)
    BY <1>2
  <2>1. CASE \E o \in Waits : Enter(t, o)
    BY <2>1, EnterStep
  <2>2. CASE TryLock(t)
    <3>1. /\ pc[t] = "idle" /\ owner = None /\ owner' = t /\ depth' = 1
          /\ UNCHANGED <<readers, waitingWriters, writer>>
          /\ op' = [op EXCEPT ![t] = "mutex"] /\ pc' = [pc EXCEPT ![t] = "held"]
      BY <2>2 DEF TryLock, Take, CanTake
    <3>2. \A p \in Waits : Holders(p)' = IF p = "mutex" THEN Holders(p) \cup {t}
                                         ELSE Holders(p)
      BY <3>1 DEF Holders, LInv, LockType
    <3>3. Trying("write")' = Trying("write")
      BY <3>1 DEF Trying, LInv, LockType
    <3>4. LockType' /\ CallShape'
      BY <3>1 DEF LInv, LockType, CallShape, InCall, PCs, Waits
    <3>5. MutualExclusion'
      BY <3>1, <3>2, SyncAssumption DEF LInv, MutualExclusion, Waits
    <3>6. WritersCounted'
      BY <3>1, <3>3 DEF LInv, WritersCounted
    <3> QED BY <3>4, <3>5, <3>6 DEF LInv
  <2>3. CASE Complete(t) \/ CompleteAll(t)
    BY <2>3, WakerStep DEF Complete, CompleteAll, WakeNext, Goto
  <2>4. CASE Relock(t)
    <3>1. owner = t /\ depth' = depth + 1
          /\ UNCHANGED <<owner, readers, waitingWriters, writer, pc, op>>
      BY <2>4 DEF Relock
    <3> QED BY <3>1, SyncAssumption DEF LInv, LockType, CallShape,
              MutualExclusion, WritersCounted, Holders, Trying
  <2>5. CASE Try(t)
    <3>1. CASE CanTake(op[t])
      BY <2>5, <3>1, TakeStep DEF Try
    <3>2. CASE ~CanTake(op[t])
      <4>1. pc[t] = "try" /\ pc' = [pc EXCEPT ![t] = "prepare"] /\ op' = op
            /\ UNCHANGED <<owner, depth, readers, waitingWriters, writer>>
        BY <2>5, <3>2 DEF Try, Goto, lockVars, LInv, LockType
      <4> QED BY <4>1, PrepareStep
    <3> QED BY <3>1, <3>2
  <2>6. CASE Prepare(t)
    BY <2>6, PrepareStep DEF Prepare, lockVars
  <2>7. CASE Recheck(t)
    <3>1. CASE CanTake(op[t])
      BY <2>7, <3>1, TakeStep DEF Recheck
    <3>2. CASE ~CanTake(op[t])
      <4>1. pc[t] = "recheck" /\ pc' = [pc EXCEPT ![t] = "commit"] /\ op' = op
            /\ UNCHANGED <<owner, depth, readers, waitingWriters, writer>>
        BY <2>7, <3>2 DEF Recheck, Goto, lockVars, LInv, LockType
      <4> QED BY <4>1, PrepareStep
    <3> QED BY <3>1, <3>2
  <2>8. CASE Commit(t)
    BY <2>8, PrepareStep DEF Commit, lockVars
  <2>9. CASE Resume(t)
    BY <2>9, PrepareStep DEF Resume, lockVars
  <2>10. CASE MutexUnlock(t)
    <3>1. CASE depth > 1
      <4>1. owner = t
        BY <2>10 DEF MutexUnlock, LInv, MutualExclusion, Holders
      <4>2. depth' = depth - 1 /\ UNCHANGED <<owner, readers, waitingWriters, writer, pc, op>>
        BY <2>10, <3>1 DEF MutexUnlock
      <4> QED BY <3>1, <4>1, <4>2, SyncAssumption DEF LInv, LockType, CallShape,
                MutualExclusion, WritersCounted, Holders, Trying
    <3>2. CASE ~(depth > 1)
      BY <2>10, <3>2, ReleaseStep DEF MutexUnlock, WakeNext
    <3> QED BY <3>1, <3>2
  <2>11. CASE ReadUnlock(t)
    BY <2>11, ReleaseStep DEF ReadUnlock, WakeNext, NothingToWake
  <2>12. CASE WriteUnlock(t)
    BY <2>12, ReleaseStep DEF WriteUnlock, WakeNext
  <2>13. CASE Collect(t)
    BY <2>13, WakerStep DEF Collect, lockVars
  <2>14. CASE Flush(t) \/ Stray(t)
    <3>1. UNCHANGED <<owner, depth, readers, waitingWriters, writer, pc, op>>
      BY <2>14 DEF Flush, Stray, lockVars
    <3> QED BY <3>1 DEF LInv, LockType, CallShape, MutualExclusion, WritersCounted,
                        Holders, Trying
  <2>15. CASE Flushed(t)
    BY <2>15, WakerStep DEF Flushed, lockVars
  <2> QED BY <2>1, <2>2, <2>3, <2>4, <2>5, <2>6, <2>7, <2>8, <2>9, <2>10, <2>11,
             <2>12, <2>13, <2>14, <2>15 DEF Call, Proceed
<1> QED BY <1>1, <1>2 DEF Next

\* The fields of mutex_t and rw_mutex_t agree with where the threads are in the
\* calls of sync.c, in every reachable state.
THEOREM LockInvariance == Spec => []LInv
BY LInit, LNext, PTL DEF Spec

\* MutualExclusion: the mutex, the reader count and the writer of sync.c say
\* exactly who holds what, and a writer is alone.
THEOREM Exclusion == Spec => []MutualExclusion
<1>1. LInv => MutualExclusion
  BY DEF LInv
<1> QED BY <1>1, LockInvariance, PTL

\* WritersCounted: waiting_writers counts the threads in rw_mutex_write_lock().
THEOREM CountedWriters == Spec => []WritersCounted
<1>1. LInv => WritersCounted
  BY DEF LInv
<1> QED BY <1>1, LockInvariance, PTL

-----------------------------------------------------------------------------
(* The wait queues: entries are live, and nobody is left behind.           *)
(*                                                                         *)
(* NobodyLeftBehind is not inductive: it counts a woken waiter that is     *)
(* still queued as one that will look again, and the next wake of its      *)
(* queue may be spent on that very entry.  What is inductive counts the    *)
(* waiters outside the queue, whatever their tokens say (Supply,           *)
(* Completions); the tokens come in only to say that a waiter outside the  *)
(* queue is awake or in a batch (WokenOrDue).                              *)

Linked(o) == {t \in Threads : OnList(t, queue[o])}
Outside(o) == Trying(o) \ Linked(o)

QueueType ==
  /\ depth <= MaxDepth
  /\ done \in 0..DoneAll /\ completes \in 0..MaxCompletes
  /\ queue \in [Waits -> Seq(Threads)]
  /\ token \in [Threads -> {"idle", "preparing", "parked", "woken"}]
  /\ owes \in [Threads -> (Waits \X BOOLEAN) \cup {None}]
  /\ batch \in [Threads -> Seq(Threads)]

\* A thread collects only while it owes a wake, has a batch only while it
\* flushes it, and waits with a token.
WakeShape ==
  \A t \in Threads :
    /\ pc[t] = "collect" => owes[t] # None
    /\ pc[t] \notin {"collect", "flush"} => owes[t] = None
    /\ pc[t] # "flush" => batch[t] = <<>>
    /\ pc[t] \in {"recheck", "commit", "asleep"} => token[t] # "idle"

\* The entries of a queue are distinct and belong to sleeping callers.
QueueShape ==
  \A o \in Waits :
    /\ Distinct(queue[o])
    /\ \A t \in Threads : OnList(t, queue[o]) =>
         op[t] = o /\ pc[t] \in {"commit", "asleep"}

\* A waiter that is neither queued nor in a batch has been woken.
WokenOrDue ==
  \A t \in Threads : pc[t] \in {"commit", "asleep"} /\ token[t] # "woken" =>
    OnList(t, queue[op[t]]) \/ \E u \in Threads : OnList(t, batch[u])

\* While a free lock has queued waiters, somebody outside the queue is still in
\* the call or a waker is still to come; for readers, one that wakes them all.
Supply ==
  /\ \A o \in {"mutex", "write"} : CanTake(o) /\ queue[o] # <<>> =>
       Outside(o) # {} \/ Wakers(o) # {}
  /\ CanTake("read") /\ queue["read"] # <<>> => WakersOfAll("read") # {}

QInv == QueueType /\ WakeShape /\ QueueShape /\ WokenOrDue /\ Supply

\* Supply survives a step that frees no lock, links nobody, takes nobody from
\* outside the queues and drops no waker.
LEMMA SupplyKept ==
  ASSUME Supply,
         \A o \in {"mutex", "read", "write"} :
           /\ queue'[o] # <<>> /\ CanTake(o)' => queue[o] # <<>> /\ CanTake(o)
           /\ Outside(o) \subseteq Outside(o)'
           /\ Wakers(o) \subseteq Wakers(o)'
           /\ WakersOfAll(o) \subseteq WakersOfAll(o)'
  PROVE  Supply'
<1>1. ASSUME NEW o \in {"mutex", "write"}, CanTake(o)', queue'[o] # <<>>
      PROVE  Outside(o)' # {} \/ Wakers(o)' # {}
  BY <1>1 DEF Supply
<1>2. ASSUME CanTake("read")', queue'["read"] # <<>>
      PROVE  WakersOfAll("read")' # {}
  BY <1>2 DEF Supply
<1> QED BY <1>1, <1>2 DEF Supply

\* Entering a call: one more waiter outside the queue.
LEMMA EnterQ ==
  ASSUME LInv, QInv, NEW t \in Threads, NEW o \in Waits, Enter(t, o)
  PROVE  QInv'
<1>1. /\ pc[t] = "idle" /\ pc' = [pc EXCEPT ![t] = "try"]
      /\ op' = [op EXCEPT ![t] = o]
      /\ UNCHANGED <<owner, depth, readers, writer, done, completes, queue, token,
                     owes, batch>>
      /\ waitingWriters' = IF o = "write" THEN waitingWriters + 1 ELSE waitingWriters
  BY DEF Enter
<1>2. pc \in [Threads -> PCs] /\ op \in [Threads -> Waits \cup {None}]
      /\ waitingWriters \in Nat
  BY DEF LInv, LockType
<1>3. QueueType'
  BY <1>1 DEF QInv, QueueType
<1>4. WakeShape' /\ QueueShape' /\ WokenOrDue'
  BY <1>1, <1>2 DEF QInv, WakeShape, QueueShape, WokenOrDue
<1>5. Supply'
  <2>1. \A p \in Waits : Trying(p) \subseteq Trying(p)' /\ Linked(p)' = Linked(p)
    BY <1>1, <1>2 DEF Trying, Linked
  <2>2. \A p \in Waits : CanTake(p)' => CanTake(p)
    BY <1>1, <1>2 DEF CanTake
  <2>3. \A p \in Waits : Wakers(p)' = Wakers(p) /\ WakersOfAll(p)' = WakersOfAll(p)
    BY <1>1 DEF Wakers, WakersOfAll
  <2> QED BY <1>1, <2>1, <2>2, <2>3, SupplyKept DEF QInv, Outside, Waits
<1> QED BY <1>3, <1>4, <1>5 DEF QInv

\* Taking an object at either check makes it unavailable to the others that
\* wait for it, or leaves their condition alone.
LEMMA TakeSupply ==
  ASSUME LInv, QInv, NEW t \in Threads, NEW o \in Waits, CanTake(o), Take(t, o),
         UNCHANGED <<queue, owes>>,
         \A p \in Waits : p # o => Trying(p) \subseteq Trying(p)'
  PROVE  Supply'
<1>1. /\ owner' = IF o = "mutex" THEN t ELSE owner
      /\ readers' = IF o = "read" THEN readers + 1 ELSE readers
      /\ waitingWriters' = IF o = "write" THEN waitingWriters - 1 ELSE waitingWriters
      /\ writer' = IF o = "write" THEN t ELSE writer
  BY DEF Take
<1>2. t # None /\ readers \in Nat /\ waitingWriters \in Nat
  BY SyncAssumption DEF LInv, LockType
<1>3. \A p \in {"mutex", "read", "write"} :
        CanTake(p)' => CanTake(p) /\ (p # o \/ p = "read")
  BY <1>1, <1>2 DEF CanTake
<1>4. \A p \in Waits : /\ Linked(p)' = Linked(p) /\ queue'[p] = queue[p]
                       /\ Wakers(p)' = Wakers(p) /\ WakersOfAll(p)' = WakersOfAll(p)
  BY DEF Linked, Wakers, WakersOfAll
<1>5. ASSUME NEW p \in {"mutex", "write"}, CanTake(p)', queue'[p] # <<>>
      PROVE  Outside(p)' # {} \/ Wakers(p)' # {}
  <2>1. p # o /\ CanTake(p) /\ queue[p] # <<>>
    BY <1>3, <1>4, <1>5 DEF Waits
  <2>2. Outside(p) \subseteq Outside(p)' /\ Wakers(p)' = Wakers(p)
    BY <1>4, <2>1 DEF Outside, Waits
  <2> QED BY <2>1, <2>2 DEF QInv, Supply
<1>6. ASSUME CanTake("read")', queue'["read"] # <<>>
      PROVE  WakersOfAll("read")' # {}
  BY <1>3, <1>4, <1>6 DEF QInv, Supply, Waits
<1> QED BY <1>5, <1>6 DEF Supply

\* A check that succeeds: the thread leaves the loop and its queue stays.
LEMMA TakeQ ==
  ASSUME LInv, QInv, NEW t \in Threads, pc[t] \in {"try", "recheck"},
         CanTake(op[t]), Take(t, op[t]), Goto(t, After(op[t])),
         UNCHANGED <<queue, owes, batch>>,
         token' = token \/ token' = [token EXCEPT ![t] = "idle"]
  PROVE  QInv'
<1> DEFINE o == op[t]
<1>1. o \in Waits /\ pc \in [Threads -> PCs] /\ op \in [Threads -> Waits \cup {None}]
  BY DEF LInv, LockType, CallShape, InCall
<1>2. /\ pc' = [pc EXCEPT ![t] = After(o)]
      /\ op' = [op EXCEPT ![t] = IF o = "wait" THEN None ELSE o]
      /\ After(o) \in {"idle", "held"}
  BY <1>1 DEF Goto, After
<1>3. QueueType'
  <2>1. done' \in 0..DoneAll /\ completes' = completes
    BY SyncAssumption DEF QInv, QueueType, Take, CanTake
  <2>2. depth' <= MaxDepth
    BY SyncAssumption DEF QInv, QueueType, Take, LInv, LockType
  <2>3. token' \in [Threads -> {"idle", "preparing", "parked", "woken"}]
    BY DEF QInv, QueueType
  <2> QED BY <2>1, <2>2, <2>3 DEF QInv, QueueType
<1>4. WakeShape' /\ QueueShape'
  BY <1>1, <1>2 DEF QInv, QueueType, WakeShape, QueueShape
<1>5. WokenOrDue'
  BY <1>1, <1>2 DEF QInv, QueueType, WokenOrDue
<1>6. \A p \in Waits : p # o => Trying(p) \subseteq Trying(p)'
  BY <1>1, <1>2 DEF Trying
<1> QED BY <1>1, <1>3, <1>4, <1>5, <1>6, TakeSupply DEF QInv

\* A step of the waiting loop that touches no queue, batch or lock.
LEMMA LoopQ ==
  ASSUME LInv, QInv, NEW t \in Threads,
         NEW p \in {"prepare", "recheck", "asleep"},
         \/ pc[t] = "try" /\ p = "prepare" /\ token' = token
         \/ /\ pc[t] = "prepare" /\ p = "recheck"
            /\ token' = [token EXCEPT ![t] = "preparing"]
         \/ /\ pc[t] = "commit" /\ p = "asleep"
            /\ token' = [token EXCEPT ![t] =
                           IF @ = "preparing" THEN "parked" ELSE @],
         pc' = [pc EXCEPT ![t] = p], op' = op, UNCHANGED lockVars,
         UNCHANGED <<queue, owes, batch>>
  PROVE  QInv'
<1>1. pc \in [Threads -> PCs] /\ op \in [Threads -> Waits \cup {None}]
  BY DEF LInv, LockType
<1>2. token \in [Threads -> {"idle", "preparing", "parked", "woken"}]
  BY DEF QInv, QueueType
<1>3. QueueType'
  BY <1>2 DEF QInv, QueueType, lockVars
<1>4. WakeShape' /\ QueueShape'
  BY <1>1, <1>2 DEF QInv, WakeShape, QueueShape
<1>5. WokenOrDue'
  BY <1>1, <1>2 DEF QInv, WokenOrDue
<1>6. \A o \in Waits : /\ Trying(o)' = Trying(o) /\ Linked(o)' = Linked(o)
                       /\ Wakers(o)' = Wakers(o) /\ WakersOfAll(o)' = WakersOfAll(o)
                       /\ CanTake(o)' <=> CanTake(o)
  BY <1>1 DEF Trying, Linked, Wakers, WakersOfAll, CanTake, lockVars
<1>7. Supply'
  BY <1>6, SupplyKept DEF QInv, Outside, Waits
<1> QED BY <1>3, <1>4, <1>5, <1>7 DEF QInv

\* The second check fails: the waiter is linked while the object's lock still
\* shows that it cannot be taken.
LEMMA LinkQ ==
  ASSUME LInv, QInv, NEW t \in Threads, pc[t] = "recheck", ~CanTake(op[t]),
         queue' = [queue EXCEPT ![op[t]] = <<t>> \o @],
         pc' = [pc EXCEPT ![t] = "commit"], op' = op,
         UNCHANGED lockVars, UNCHANGED <<token, owes, batch>>
  PROVE  QInv'
<1> DEFINE o == op[t]
<1>1. o \in Waits /\ pc \in [Threads -> PCs] /\ op \in [Threads -> Waits \cup {None}]
  BY DEF LInv, LockType, CallShape, InCall
<1>2. queue \in [Waits -> Seq(Threads)] /\ ~OnList(t, queue[o]) /\ Distinct(queue[o])
  BY <1>1 DEF QInv, QueueType, QueueShape
<1>3. queue'[o] = <<t>> \o queue[o] /\ \A p \in Waits : p # o => queue'[p] = queue[p]
  BY <1>1, <1>2
<1> HIDE DEF o
<1>4. /\ queue'[o] \in Seq(Threads) /\ Distinct(queue'[o])
      /\ \A u : OnList(u, queue'[o]) <=> u = t \/ OnList(u, queue[o])
  BY <1>1, <1>2, <1>3, LinkHead
<1>5. QueueType'
  BY <1>1, <1>4 DEF QInv, QueueType, lockVars, o
<1>6. WakeShape'
  BY <1>1 DEF QInv, WakeShape
<1>7. QueueShape'
  <2> SUFFICES ASSUME NEW p \in Waits
               PROVE  /\ Distinct(queue'[p])
                      /\ \A u \in Threads : OnList(u, queue'[p]) =>
                           op'[u] = p /\ pc'[u] \in {"commit", "asleep"}
    BY DEF QueueShape
  <2>1. CASE p = o
    BY <1>1, <1>4, <2>1 DEF QInv, QueueShape, o
  <2>2. CASE p # o
    BY <1>1, <1>3, <2>2 DEF QInv, QueueShape
  <2> QED BY <2>1, <2>2
<1>8. \A u \in Threads, p \in Waits : OnList(u, queue[p]) => OnList(u, queue'[p])
  BY <1>3, <1>4
<1>9. WokenOrDue'
  <2>1. OnList(t, queue'[op[t]])
    BY <1>4 DEF o
  <2>2. \A u \in Threads : pc'[u] \in {"commit", "asleep"} => op[u] \in Waits
    BY <1>1 DEF LInv, CallShape, InCall, o
  <2> QED BY <1>1, <1>8, <2>1, <2>2 DEF QInv, WokenOrDue
<1>10. Supply'
  <2>1. \A p \in Waits : /\ Trying(p)' = Trying(p)
                         /\ Wakers(p)' = Wakers(p) /\ WakersOfAll(p)' = WakersOfAll(p)
                         /\ CanTake(p)' <=> CanTake(p)
    BY <1>1 DEF Trying, Wakers, WakersOfAll, CanTake, lockVars
  <2>2. \A p \in Waits : CanTake(p)' => p # o
    BY <2>1 DEF o
  <2>3. \A p \in Waits : p # o => Linked(p)' = Linked(p)
    BY <1>3 DEF Linked
  <2>4. ASSUME NEW p \in {"mutex", "write"}, CanTake(p)', queue'[p] # <<>>
        PROVE  Outside(p)' # {} \/ Wakers(p)' # {}
    <3>1. p \in Waits /\ p # o
      BY <2>2, <2>4 DEF Waits
    <3>2. Outside(p)' = Outside(p) /\ queue'[p] = queue[p] /\ CanTake(p)
      BY <1>3, <2>1, <2>3, <2>4, <3>1 DEF Outside
    <3> QED BY <2>1, <2>4, <3>1, <3>2 DEF QInv, Supply
  <2>5. ASSUME CanTake("read")', queue'["read"] # <<>>
        PROVE  WakersOfAll("read")' # {}
    <3>1. "read" \in Waits /\ "read" # o
      BY <2>2, <2>5 DEF Waits
    <3> QED BY <1>3, <2>1, <2>5, <3>1 DEF QInv, Supply
  <2> QED BY <2>4, <2>5 DEF Supply
<1> QED BY <1>5, <1>6, <1>7, <1>9, <1>10 DEF QInv

\* Back from the sleep: the entry is unlinked and stale wakes are dropped.
LEMMA ResumeQ ==
  ASSUME LInv, QInv, NEW t \in Threads, Resume(t)
  PROVE  QInv'
<1> DEFINE o == op[t]
<1>1. o \in Waits /\ pc \in [Threads -> PCs] /\ op \in [Threads -> Waits \cup {None}]
  BY DEF LInv, LockType, CallShape, InCall, Resume
<1>2. /\ pc[t] = "asleep" /\ pc' = [pc EXCEPT ![t] = "try"] /\ op' = op
      /\ token' = [token EXCEPT ![t] = "idle"]
      /\ UNCHANGED lockVars /\ owes' = owes
      /\ queue' = [queue EXCEPT ![o] = Unlinked(@, t)]
      /\ batch' = [u \in Threads |-> Unlinked(batch[u], t)]
  BY DEF Resume
<1>3. /\ queue \in [Waits -> Seq(Threads)] /\ batch \in [Threads -> Seq(Threads)]
      /\ \A p \in Waits : Distinct(queue[p])
  BY DEF QInv, QueueType, QueueShape
<1>4. queue'[o] = Unlinked(queue[o], t) /\ \A p \in Waits : p # o => queue'[p] = queue[p]
  BY <1>1, <1>2, <1>3
<1>5. /\ queue'[o] \in Seq(Threads) /\ Distinct(queue'[o]) /\ ~OnList(t, queue'[o])
      /\ \A u : u # t => (OnList(u, queue'[o]) <=> OnList(u, queue[o]))
  BY <1>1, <1>3, <1>4, UnlinkEntry
<1>6. \A v \in Threads :
        /\ batch'[v] \in Seq(Threads)
        /\ \A u : u # t => (OnList(u, batch'[v]) <=> OnList(u, batch[v]))
  <2> SUFFICES ASSUME NEW v \in Threads
               PROVE  /\ batch'[v] \in Seq(Threads)
                      /\ \A u : u # t => (OnList(u, batch'[v]) <=> OnList(u, batch[v]))
    OBVIOUS
  <2>1. batch'[v] = Unlinked(batch[v], t) /\ batch[v] \in Seq(Threads)
    BY <1>2, <1>3
  <2> QED BY <2>1, UnlinkEntry
<1> HIDE DEF o
<1>7. QueueType'
  <2>1. queue' \in [Waits -> Seq(Threads)]
    BY <1>1, <1>2, <1>3, <1>4, <1>5
  <2>2. batch' \in [Threads -> Seq(Threads)]
    BY <1>2, <1>6
  <2>3. token' \in [Threads -> {"idle", "preparing", "parked", "woken"}]
    BY <1>2 DEF QInv, QueueType
  <2> QED BY <1>2, <2>1, <2>2, <2>3 DEF QInv, QueueType, lockVars
<1>8. WakeShape'
  <2>1. Unlinked(<<>>, t) = <<>>
    BY DEF Unlinked, OnList
  <2> QED BY <1>1, <1>2, <2>1 DEF QInv, QueueType, WakeShape
<1>9. \A p \in Waits : \A u \in Threads :
        OnList(u, queue'[p]) <=> OnList(u, queue[p]) /\ u # t
  <2> SUFFICES ASSUME NEW p \in Waits, NEW u \in Threads
               PROVE  OnList(u, queue'[p]) <=> OnList(u, queue[p]) /\ u # t
    OBVIOUS
  <2>1. CASE p = o
    BY <1>5, <2>1
  <2>2. CASE p # o
    <3>1. ~OnList(t, queue[p])
      BY <1>1, <2>2 DEF QInv, QueueShape, o
    <3> QED BY <1>4, <2>2, <3>1
  <2> QED BY <2>1, <2>2
<1>10. QueueShape'
  <2>1. \A p \in Waits : Distinct(queue'[p])
    BY <1>3, <1>4, <1>5
  <2> QED BY <1>1, <1>2, <1>9, <2>1 DEF QInv, QueueShape
<1>11. WokenOrDue'
  <2> SUFFICES ASSUME NEW u \in Threads, pc'[u] \in {"commit", "asleep"},
                      token'[u] # "woken"
               PROVE  OnList(u, queue'[op'[u]]) \/ \E v \in Threads : OnList(u, batch'[v])
    BY DEF WokenOrDue
  <2>1. u # t /\ pc[u] \in {"commit", "asleep"} /\ token[u] # "woken" /\ op'[u] = op[u]
    BY <1>1, <1>2 DEF QInv, QueueType
  <2>2. op[u] \in Waits
    BY <2>1 DEF LInv, CallShape, InCall
  <2>3. OnList(u, queue[op[u]]) \/ \E v \in Threads : OnList(u, batch[v])
    BY <2>1 DEF QInv, WokenOrDue
  <2> QED BY <1>6, <1>9, <2>1, <2>2, <2>3
<1>12. Supply'
  <2>1. \A p \in Waits : /\ Trying(p)' = Trying(p) /\ Linked(p)' \subseteq Linked(p)
                         /\ Wakers(p)' = Wakers(p) /\ WakersOfAll(p)' = WakersOfAll(p)
                         /\ CanTake(p)' <=> CanTake(p)
    BY <1>1, <1>2, <1>9 DEF Trying, Linked, Wakers, WakersOfAll, CanTake, lockVars
  <2>2. \A p \in Waits : queue'[p] # <<>> => queue[p] # <<>>
    <3> SUFFICES ASSUME NEW p \in Waits, queue[p] = <<>> PROVE queue'[p] = <<>>
      OBVIOUS
    <3>1. CASE p = o
      BY <1>4, <3>1 DEF Unlinked, OnList
    <3> QED BY <1>4, <3>1
  <2> QED BY <2>1, <2>2, SupplyKept DEF QInv, Outside, Waits
<1> QED BY <1>7, <1>8, <1>10, <1>11, <1>12 DEF QInv

\* What every releasing call does to the queues: nothing; it only comes to owe
\* a wake, or returns.
LEMMA OweQ ==
  ASSUME LInv, QInv, NEW t \in Threads, pc[t] \in {"held", "idle"},
         NEW p \in {"idle", "collect"}, Goto(t, p),
         \/ p = "idle" /\ owes' = owes
         \/ /\ p = "collect"
            /\ \E o \in Waits, e \in BOOLEAN : owes' = [owes EXCEPT ![t] = <<o, e>>],
         UNCHANGED <<queue, token, batch>>,
         depth' <= MaxDepth, done' \in 0..DoneAll, completes' \in 0..MaxCompletes
  PROVE  /\ QueueType' /\ WakeShape' /\ QueueShape' /\ WokenOrDue'
         /\ \A o \in Waits : /\ Outside(o)' = Outside(o) /\ queue'[o] = queue[o]
                             /\ Wakers(o) \subseteq Wakers(o)'
                             /\ WakersOfAll(o) \subseteq WakersOfAll(o)'
<1>1. /\ pc \in [Threads -> PCs] /\ op \in [Threads -> Waits \cup {None}]
      /\ pc' = [pc EXCEPT ![t] = p] /\ op' = [op EXCEPT ![t] = None]
  BY DEF LInv, LockType, Goto
<1>2. /\ owes[t] = None /\ owes \in [Threads -> (Waits \X BOOLEAN) \cup {None}]
      /\ \A o \in Waits, e \in BOOLEAN : <<o, e>> \in Waits \X BOOLEAN /\ <<o, e>> # None
  BY SyncAssumption DEF QInv, QueueType, WakeShape
<1>3. /\ owes' \in [Threads -> (Waits \X BOOLEAN) \cup {None}]
      /\ p = "collect" <=> owes'[t] # None
      /\ \A u \in Threads : u # t => owes'[u] = owes[u]
  <2>1. CASE p = "idle"
    BY <1>2, <2>1
  <2>2. CASE p = "collect"
    <3> PICK o \in Waits, e \in BOOLEAN : owes' = [owes EXCEPT ![t] = <<o, e>>]
      BY <2>2
    <3>1. <<o, e>> \in (Waits \X BOOLEAN) \cup {None} /\ <<o, e>> # None
      BY <1>2
    <3> HIDE DEF Waits
    <3> QED BY <1>2, <2>2, <3>1
  <2> QED BY <2>1, <2>2
<1>4. QueueType'
  BY <1>3 DEF QInv, QueueType
<1>5. WakeShape'
  BY <1>1, <1>3 DEF QInv, WakeShape
<1>6. QueueShape' /\ WokenOrDue'
  BY <1>1 DEF QInv, QueueShape, WokenOrDue
<1>7. \A o \in Waits : Trying(o)' = Trying(o) /\ Linked(o)' = Linked(o)
  BY <1>1, SyncAssumption DEF Trying, Linked
<1>8. \A o \in Waits : Wakers(o) \subseteq Wakers(o)' /\ WakersOfAll(o) \subseteq WakersOfAll(o)'
  <2>1. \A o \in Waits : <<o, TRUE>> # None /\ <<o, FALSE>> # None
    BY <1>2
  <2> QED BY <1>2, <1>3, <2>1 DEF Wakers, WakersOfAll
<1> QED BY <1>4, <1>5, <1>6, <1>7, <1>8 DEF Outside

\* The releases: whoever could take the lock now has a waker, or nobody waits.
LEMMA ReleaseQ ==
  ASSUME LInv, QInv, NEW t \in Threads,
         MutexUnlock(t) \/ ReadUnlock(t) \/ WriteUnlock(t)
  PROVE  QInv'
<1>1. /\ queue \in [Waits -> Seq(Threads)] /\ readers \in Nat /\ waitingWriters \in Nat
      /\ owes \in [Threads -> (Waits \X BOOLEAN) \cup {None}]
      /\ depth \in Nat /\ pc[t] = "held"
  BY DEF QInv, QueueType, LInv, LockType, MutexUnlock, ReadUnlock, WriteUnlock
<1>2. ASSUME queue["write"] # <<>> PROVE waitingWriters > 0
  <2>1. queue["write"][1] \in Threads /\ OnList(queue["write"][1], queue["write"])
    BY <1>1, <1>2 DEF OnList, Waits
  <2>2. queue["write"][1] \in Trying("write") /\ Trying("write") \in SUBSET Threads
    BY <2>1 DEF QInv, QueueShape, Trying, Waits
  <2>3. Cardinality(Trying("write")) \in Nat \ {0}
    BY <2>2, CountLeave
  <2> QED BY <2>3 DEF LInv, WritersCounted
<1>3. CASE MutexUnlock(t) /\ depth > 1
  <2>1. /\ depth' = depth - 1
        /\ UNCHANGED <<owner, readers, waitingWriters, writer, done, completes,
                       queue, token, pc, op, owes, batch>>
    BY <1>3 DEF MutexUnlock
  <2>2. QueueType' /\ WakeShape' /\ QueueShape' /\ WokenOrDue'
    BY <1>1, <1>3, <2>1, SyncAssumption
       DEF QInv, QueueType, WakeShape, QueueShape, WokenOrDue
  <2>3. Supply'
    BY <2>1 DEF QInv, Supply, CanTake, Outside, Trying, Linked, Wakers, WakersOfAll
  <2> QED BY <2>2, <2>3 DEF QInv
<1>4. CASE MutexUnlock(t) /\ ~(depth > 1)
  <2>1. /\ depth' = 0 /\ owner' = None /\ owes' = [owes EXCEPT ![t] = <<"mutex", FALSE>>]
        /\ Goto(t, "collect")
        /\ UNCHANGED <<readers, waitingWriters, writer, done, completes, queue,
                       token, batch>>
    BY <1>4 DEF MutexUnlock, WakeNext
  <2>2. /\ QueueType' /\ WakeShape' /\ QueueShape' /\ WokenOrDue'
        /\ \A o \in Waits : /\ Outside(o)' = Outside(o) /\ queue'[o] = queue[o]
                            /\ Wakers(o) \subseteq Wakers(o)'
                            /\ WakersOfAll(o) \subseteq WakersOfAll(o)'
    <3>1. /\ depth' <= MaxDepth /\ done' \in 0..DoneAll
          /\ completes' \in 0..MaxCompletes /\ "mutex" \in Waits
      BY <2>1, SyncAssumption DEF QInv, QueueType, Waits
    <3> QED BY <1>1, <2>1, <3>1, OweQ
  <2>3. t \in Wakers("mutex")'
    BY <1>1, <2>1 DEF Wakers
  <2>4. (CanTake("read")' <=> CanTake("read")) /\ (CanTake("write")' <=> CanTake("write"))
    BY <2>1 DEF CanTake
  <2> QED BY <2>2, <2>3, <2>4 DEF QInv, Supply, Waits
<1>5. CASE ReadUnlock(t)
  <2>1. /\ readers' = readers - 1
        /\ UNCHANGED <<owner, depth, waitingWriters, writer, done, completes, queue,
                       token, batch>>
    BY <1>5 DEF ReadUnlock
  <2>2. \/ /\ readers = 1 /\ waitingWriters > 0 /\ Goto(t, "collect")
           /\ owes' = [owes EXCEPT ![t] = <<"write", FALSE>>]
        \/ ~(readers = 1 /\ waitingWriters > 0) /\ Goto(t, "idle") /\ owes' = owes
    BY <1>5 DEF ReadUnlock, WakeNext, NothingToWake
  <2>3. /\ QueueType' /\ WakeShape' /\ QueueShape' /\ WokenOrDue'
        /\ \A o \in Waits : /\ Outside(o)' = Outside(o) /\ queue'[o] = queue[o]
                            /\ Wakers(o) \subseteq Wakers(o)'
                            /\ WakersOfAll(o) \subseteq WakersOfAll(o)'
    BY <1>1, <2>1, <2>2, OweQ DEF QInv, QueueType, Waits
  <2>4. (CanTake("read")' <=> CanTake("read")) /\ (CanTake("mutex")' <=> CanTake("mutex"))
    BY <2>1 DEF CanTake
  <2>5. ASSUME CanTake("write")', queue'["write"] # <<>>
        PROVE  Wakers("write")' # {}
    <3>1. waitingWriters > 0 /\ readers = 1
      BY <1>1, <1>2, <2>1, <2>3, <2>5 DEF CanTake, Waits
    <3>2. t \in Wakers("write")'
      BY <1>1, <2>2, <3>1 DEF Wakers
    <3> QED BY <3>2
  <2> QED BY <2>3, <2>4, <2>5 DEF QInv, Supply, Waits
<1>6. CASE WriteUnlock(t)
  <2>1. /\ writer' = None
        /\ UNCHANGED <<owner, depth, readers, waitingWriters, done, completes, queue,
                       token, batch>>
    BY <1>6 DEF WriteUnlock
  <2>2. /\ Goto(t, "collect")
        /\ waitingWriters > 0 => owes' = [owes EXCEPT ![t] = <<"write", FALSE>>]
        /\ ~(waitingWriters > 0) => owes' = [owes EXCEPT ![t] = <<"read", TRUE>>]
    BY <1>6 DEF WriteUnlock, WakeNext
  <2>3. /\ QueueType' /\ WakeShape' /\ QueueShape' /\ WokenOrDue'
        /\ \A o \in Waits : /\ Outside(o)' = Outside(o) /\ queue'[o] = queue[o]
                            /\ Wakers(o) \subseteq Wakers(o)'
                            /\ WakersOfAll(o) \subseteq WakersOfAll(o)'
    BY <1>1, <2>1, <2>2, OweQ DEF QInv, QueueType, Waits
  <2>4. CanTake("mutex")' <=> CanTake("mutex")
    BY <2>1 DEF CanTake
  <2>5. ASSUME queue'["write"] # <<>>
        PROVE  Wakers("write")' # {}
    <3>1. waitingWriters > 0
      BY <1>2, <2>1, <2>5
    <3>2. t \in Wakers("write")'
      BY <1>1, <2>2, <3>1 DEF Wakers
    <3> QED BY <3>2
  <2>6. ASSUME CanTake("read")'
        PROVE  WakersOfAll("read")' # {}
    <3>1. ~(waitingWriters > 0)
      BY <2>1, <2>6 DEF CanTake
    <3>2. t \in WakersOfAll("read")'
      <4>1. owes'[t] = <<"read", TRUE>>
        <5>1. owes' = [owes EXCEPT ![t] = <<"read", TRUE>>]
          BY <2>2, <3>1
        <5> QED BY <1>1, <5>1
      <4> QED BY <4>1 DEF WakersOfAll
    <3> QED BY <3>2
  <2> QED BY <2>3, <2>4, <2>5, <2>6 DEF QInv, Supply, Waits
<1> QED BY <1>3, <1>4, <1>5, <1>6

\* The wrap of the counter in complete().
LEMMA ModRange ==
  ASSUME NEW n \in Nat, NEW a \in Nat
  PROVE  a % (n + 1) \in 0..n
OBVIOUS

\* Below COMPLETION_DONE_ALL complete() only counts up ...
LEMMA ModSmall ==
  ASSUME NEW n \in Nat, NEW a \in 0..n
  PROVE  a % (n + 1) = a
OBVIOUS

\* ... and from it complete() wraps to zero.
LEMMA ModSelf ==
  ASSUME NEW n \in Nat
  PROVE  (n + 1) % (n + 1) = 0
OBVIOUS

\* complete() and complete_all() free no lock.
LEMMA CompleteQ ==
  ASSUME LInv, QInv, NEW t \in Threads, Complete(t) \/ CompleteAll(t)
  PROVE  QInv'
<1>1. /\ pc[t] = "idle" /\ Goto(t, "collect") /\ completes' = completes + 1
      /\ completes < MaxCompletes
      /\ \E e \in BOOLEAN : owes' = [owes EXCEPT ![t] = <<"wait", e>>]
      /\ UNCHANGED <<owner, depth, readers, waitingWriters, writer, queue, token, batch>>
  BY DEF Complete, CompleteAll, WakeNext
<1>2. done' \in 0..DoneAll
  <2>1. done \in 0..DoneAll /\ DoneAll \in Nat
    BY SyncAssumption DEF QInv, QueueType
  <2>2. CASE Complete(t)
    <3>1. done' = (done + 1) % (DoneAll + 1)
      BY <2>2 DEF Complete
    <3> QED BY <2>1, <3>1, ModRange
  <2>3. CASE CompleteAll(t)
    BY <2>1, <2>3 DEF CompleteAll
  <2> QED BY <2>2, <2>3
<1>3. completes' \in 0..MaxCompletes
  BY <1>1, SyncAssumption DEF QInv, QueueType
<1>4. /\ QueueType' /\ WakeShape' /\ QueueShape' /\ WokenOrDue'
      /\ \A o \in Waits : /\ Outside(o)' = Outside(o) /\ queue'[o] = queue[o]
                          /\ Wakers(o) \subseteq Wakers(o)'
                          /\ WakersOfAll(o) \subseteq WakersOfAll(o)'
  BY <1>1, <1>2, <1>3, OweQ DEF QInv, QueueType, Waits
<1>5. \A o \in {"mutex", "read", "write"} : CanTake(o)' <=> CanTake(o)
  BY <1>1 DEF CanTake
<1>6. Supply'
  BY <1>4, <1>5, SupplyKept DEF QInv, Waits
<1> QED BY <1>4, <1>6 DEF QInv

\* mutex_lock() by the owner changes only the depth.
LEMMA RelockQ ==
  ASSUME LInv, QInv, NEW t \in Threads, Relock(t)
  PROVE  QInv'
<1>1. /\ depth < MaxDepth /\ depth' = depth + 1 /\ depth \in Nat
      /\ UNCHANGED <<owner, readers, waitingWriters, writer, done, completes,
                     queue, token, pc, op, owes, batch>>
  BY DEF Relock, LInv, LockType
<1>2. QueueType' /\ WakeShape' /\ QueueShape' /\ WokenOrDue'
  BY <1>1, SyncAssumption DEF QInv, QueueType, WakeShape, QueueShape, WokenOrDue
<1>3. Supply'
  BY <1>1 DEF QInv, Supply, CanTake, Outside, Trying, Linked, Wakers, WakersOfAll
<1> QED BY <1>2, <1>3 DEF QInv

\* mutex_trylock() takes a free mutex and never waits.
LEMMA TryLockQ ==
  ASSUME LInv, QInv, NEW t \in Threads, TryLock(t)
  PROVE  QInv'
<1>1. /\ pc[t] = "idle" /\ CanTake("mutex") /\ Take(t, "mutex")
      /\ op' = [op EXCEPT ![t] = "mutex"] /\ pc' = [pc EXCEPT ![t] = "held"]
      /\ UNCHANGED <<queue, token, owes, batch>>
  BY DEF TryLock
<1>2. "mutex" \in Waits /\ pc \in [Threads -> PCs]
      /\ op \in [Threads -> Waits \cup {None}]
  BY DEF LInv, LockType, Waits
<1>3. QueueType'
  BY <1>1, SyncAssumption DEF QInv, QueueType, Take
<1>4. WakeShape' /\ QueueShape' /\ WokenOrDue'
  BY <1>1, <1>2 DEF QInv, WakeShape, QueueShape, WokenOrDue
<1>5. \A p \in Waits : p # "mutex" => Trying(p) \subseteq Trying(p)'
  BY <1>1, <1>2 DEF Trying
<1>6. Supply'
  BY <1>1, <1>2, <1>5, TakeSupply
<1> QED BY <1>3, <1>4, <1>6 DEF QInv

\* What a waker owes is a pair: a queue and whether to drain it.
LEMMA PairParts ==
  ASSUME NEW a, NEW b, NEW c, NEW d, <<a, b>> = <<c, d>>
  PROVE  a = c /\ b = d
OBVIOUS

\* What the waker t, that owes o a wake of one waiter or (e) of every waiter,
\* does to the waiters by collecting: nobody comes into a queue; while waiters
\* are left, one that was linked is outside now, and t goes on owing if e.
CollectEffect(t, o, e) ==
  /\ owes[t] = <<o, e>>
  /\ \A p \in Waits :
       /\ Outside(p) \subseteq Outside(p)'
       /\ queue'[p] # <<>> => queue[p] # <<>>
       /\ p # o => Wakers(p) \subseteq Wakers(p)' /\ WakersOfAll(p) \subseteq WakersOfAll(p)'
  /\ queue'[o] # <<>> => \E u \in Linked(o) : u \in Outside(o)'
  /\ queue'[o] # <<>> /\ e => t \in WakersOfAll(o)'
  /\ ~e => WakersOfAll(o) \subseteq WakersOfAll(o)'
  /\ Wakers(o) \ {t} \subseteq Wakers(o)'

\* wait_queue_collect_one() and wait_queue_collect_all() move waiters from the
\* queue to the batch, and nobody but the releasing thread notices.
LEMMA CollectQ ==
  ASSUME LInv, QInv, NEW t \in Threads, Collect(t)
  PROVE  QInv' /\ \E o \in Waits, e \in BOOLEAN : CollectEffect(t, o, e)
<1>1. /\ pc \in [Threads -> PCs] /\ op \in [Threads -> Waits \cup {None}]
      /\ queue \in [Waits -> Seq(Threads)] /\ batch \in [Threads -> Seq(Threads)]
      /\ owes \in [Threads -> (Waits \X BOOLEAN) \cup {None}]
  BY DEF LInv, LockType, QInv, QueueType
<1>2. owes[t] # None /\ batch[t] = <<>>
  BY DEF QInv, WakeShape, Collect
<1>3. PICK o \in Waits, e \in BOOLEAN : owes[t] = <<o, e>>
  BY <1>1, <1>2
<1> DEFINE q == queue[o]
           n == Collected(t)
           front == SubSeq(q, 1, n)
           rest == SubSeq(q, n + 1, Len(q))
           again == e /\ n < Len(q)
<1>0. /\ pc[t] = "collect" /\ UNCHANGED lockVars /\ token' = token /\ op' = op
      /\ batch' = [batch EXCEPT ![t] = front]
      /\ queue' = [queue EXCEPT ![o] = rest]
      /\ pc' = [pc EXCEPT ![t] = IF n = 0 THEN "idle" ELSE "flush"]
      /\ owes' = [owes EXCEPT ![t] = IF again THEN @ ELSE None]
  BY <1>3 DEF Collect
<1>4. q \in Seq(Threads) /\ Distinct(q) /\ Len(q) \in Nat
  BY <1>1, <1>3 DEF QInv, QueueShape
<1>5. n \in 0..Len(q) /\ (n = 0 => Len(q) = 0)
  <2>1. n = IF Len(q) <= (IF e THEN Batch ELSE 1) THEN Len(q) ELSE (IF e THEN Batch ELSE 1)
    BY <1>3 DEF Collected
  <2>2. CASE e
    <3>1. n = IF Len(q) <= Batch THEN Len(q) ELSE Batch
      BY <2>1, <2>2
    <3> HIDE DEF n, q
    <3> QED BY <1>4, <3>1, SyncAssumption
  <2>3. CASE ~e
    <3>1. n = IF Len(q) <= 1 THEN Len(q) ELSE 1
      BY <2>1, <2>3
    <3> HIDE DEF n, q
    <3> QED BY <1>4, <3>1
  <2> QED BY <2>2, <2>3
<1> HIDE DEF n
<1>6. /\ front \in Seq(Threads) /\ rest \in Seq(Threads)
      /\ Len(front) = n /\ Len(rest) = Len(q) - n
      /\ \A y : OnList(y, q) <=> OnList(y, front) \/ OnList(y, rest)
      /\ Distinct(rest)
      /\ \A y : ~(OnList(y, front) /\ OnList(y, rest))
  BY <1>4, <1>5, SplitList
<1> HIDE DEF q, front, rest
<1>7. queue'[o] = rest /\ \A p \in Waits : p # o => queue'[p] = queue[p]
  BY <1>0, <1>1, <1>3
<1>8. batch'[t] = front /\ \A u \in Threads : u # t => batch'[u] = batch[u]
  BY <1>0, <1>1
<1>9. owes'[t] = (IF again THEN owes[t] ELSE None)
      /\ \A u \in Threads : u # t => owes'[u] = owes[u]
  BY <1>0, <1>1
<1>10. QueueType'
  <2>1. queue' \in [Waits -> Seq(Threads)] /\ batch' \in [Threads -> Seq(Threads)]
    BY <1>0, <1>1, <1>6
  <2>2. owes' \in [Threads -> (Waits \X BOOLEAN) \cup {None}]
    BY <1>0, <1>1
  <2> QED BY <1>0, <2>1, <2>2 DEF QInv, QueueType, lockVars
<1>11. WakeShape'
  <2>1. n = 0 => ~again /\ front = <<>>
    BY <1>4, <1>5, <1>6, EmptySeq
  <2> QED BY <1>0, <1>1, <1>8, <1>9, <2>1 DEF QInv, WakeShape
<1>12. \A p \in Waits : \A u \in Threads :
         OnList(u, queue'[p]) => OnList(u, queue[p])
  BY <1>6, <1>7 DEF q
<1>13. QueueShape'
  <2>1. \A p \in Waits : Distinct(queue'[p])
    BY <1>6, <1>7 DEF QInv, QueueShape
  <2> QED BY <1>0, <1>1, <1>12, <2>1 DEF QInv, QueueShape
<1>14. WokenOrDue'
  <2> SUFFICES ASSUME NEW u \in Threads, pc'[u] \in {"commit", "asleep"},
                      token'[u] # "woken"
               PROVE  OnList(u, queue'[op'[u]]) \/ \E v \in Threads : OnList(u, batch'[v])
    BY DEF WokenOrDue
  <2>1. u # t /\ pc[u] \in {"commit", "asleep"} /\ token[u] # "woken" /\ op'[u] = op[u]
    BY <1>0, <1>1
  <2>2. op[u] \in Waits
    BY <2>1 DEF LInv, CallShape, InCall
  <2>3. CASE OnList(u, queue[op[u]])
    <3>1. OnList(u, queue'[op[u]]) \/ OnList(u, front)
      BY <1>6, <1>7, <2>2, <2>3 DEF q
    <3> QED BY <1>8, <2>1, <3>1
  <2>4. CASE \E v \in Threads : OnList(u, batch[v])
    <3> PICK v \in Threads : OnList(u, batch[v])
      BY <2>4
    <3>1. v # t
      BY <1>2 DEF OnList
    <3> QED BY <1>8, <3>1
  <2> QED BY <2>1, <2>3, <2>4 DEF QInv, WokenOrDue
<1>15. \A p \in Waits : Trying(p)' = Trying(p) /\ (CanTake(p)' <=> CanTake(p))
  BY <1>0, <1>1 DEF Trying, CanTake, lockVars
<1>16. \A p \in Waits : Outside(p) \subseteq Outside(p)'
  BY <1>12, <1>15 DEF Outside, Linked
<1>17. \A p \in Waits : p # o =>
        Wakers(p) \subseteq Wakers(p)' /\ WakersOfAll(p) \subseteq WakersOfAll(p)'
  <2>1. \A p \in Waits : p # o => owes[t] # <<p, TRUE>> /\ owes[t] # <<p, FALSE>>
    BY <1>3, PairParts
  <2> QED BY <1>9, <2>1 DEF Wakers, WakersOfAll
<1>18. \A p \in Waits : queue'[p] # <<>> => queue[p] # <<>>
  <2>1. queue'[o] # <<>> => q # <<>>
    BY <1>4, <1>5, <1>6, <1>7, EmptySeq
  <2> QED BY <1>7, <2>1 DEF q
<1>19. ASSUME queue'[o] # <<>> PROVE \E u \in Linked(o) : u \in Outside(o)'
  <2>1. q # <<>> /\ n # 0
    BY <1>4, <1>5, <1>18, <1>19, EmptySeq DEF q
  <2>2. front[1] \in Threads /\ OnList(front[1], front)
    BY <1>5, <1>6, <2>1 DEF OnList
  <2>3. front[1] \in Trying(o)
    BY <1>3, <1>6, <2>2 DEF QInv, QueueShape, Trying, q
  <2>4. ~OnList(front[1], queue'[o])
    BY <1>6, <1>7, <2>2
  <2>5. front[1] \in Linked(o)
    BY <1>6, <2>2 DEF Linked, q
  <2>6. front[1] \in Outside(o)'
    BY <1>3, <1>15, <2>2, <2>3, <2>4 DEF Outside, Linked
  <2> QED BY <2>5, <2>6
<1>20. ASSUME queue'[o] # <<>>, e PROVE t \in WakersOfAll(o)'
  <2>1. n < Len(q)
    BY <1>4, <1>5, <1>6, <1>7, <1>20, EmptySeq
  <2>2. e = TRUE
    BY <1>3, <1>20
  <2>3. owes'[t] = <<o, TRUE>>
    BY <1>3, <1>9, <2>1, <2>2
  <2> QED BY <2>3 DEF WakersOfAll
<1>21. ASSUME ~e PROVE WakersOfAll(o) \subseteq WakersOfAll(o)'
  <2>1. e # TRUE
    BY <1>21
  <2>2. owes[t] # <<o, TRUE>>
    BY <1>3, <2>1, PairParts
  <2> QED BY <1>9, <2>2 DEF WakersOfAll
<1>22. Supply'
  <2>1. ASSUME NEW p \in {"mutex", "write"}, CanTake(p)', queue'[p] # <<>>
        PROVE  Outside(p)' # {} \/ Wakers(p)' # {}
    <3>1. CASE p = o
      <4>1. \E u \in Linked(o) : u \in Outside(o)'
        BY <1>19, <2>1, <3>1
      <4> QED BY <3>1, <4>1
    <3>2. CASE p # o
      BY <1>15, <1>16, <1>17, <1>18, <2>1, <3>2 DEF QInv, Supply, Waits
    <3> QED BY <3>1, <3>2
  <2>2. ASSUME CanTake("read")', queue'["read"] # <<>>
        PROVE  WakersOfAll("read")' # {}
    <3>1. WakersOfAll("read") # {}
      BY <1>15, <1>18, <2>2 DEF QInv, Supply, Waits
    <3>2. CASE "read" = o /\ e
      BY <1>20, <2>2, <3>2
    <3>3. CASE "read" # o \/ ~e
      BY <1>17, <1>21, <3>1, <3>3 DEF Waits
    <3> QED BY <3>2, <3>3
  <2> QED BY <2>1, <2>2 DEF Supply
<1>23. QInv'
  BY <1>10, <1>11, <1>13, <1>14, <1>22 DEF QInv
<1>24. Wakers(o) \ {t} \subseteq Wakers(o)'
  BY <1>9 DEF Wakers
<1>25. CollectEffect(t, o, e)
  BY <1>3, <1>16, <1>17, <1>18, <1>19, <1>20, <1>21, <1>24 DEF CollectEffect
<1> QED BY <1>23, <1>25

\* proc_wake_q_flush() takes a waiter from the batch by waking it.
LEMMA FlushQ ==
  ASSUME LInv, QInv, NEW t \in Threads, Flush(t)
  PROVE  QInv'
<1>1. /\ pc \in [Threads -> PCs] /\ op \in [Threads -> Waits \cup {None}]
      /\ batch \in [Threads -> Seq(Threads)]
      /\ token \in [Threads -> {"idle", "preparing", "parked", "woken"}]
  BY DEF LInv, LockType, QInv, QueueType
<1> DEFINE u == Head(batch[t])
<1>2. /\ pc[t] = "flush" /\ batch[t] # <<>>
      /\ token' = [token EXCEPT ![u] = IF @ \in {"preparing", "parked"} THEN "woken" ELSE @]
      /\ batch' = [batch EXCEPT ![t] = Tail(@)]
      /\ UNCHANGED lockVars /\ UNCHANGED <<queue, pc, op, owes>>
  BY DEF Flush
<1>3. /\ u \in Threads /\ Tail(batch[t]) \in Seq(Threads)
      /\ \A y : OnList(y, batch[t]) <=> y = u \/ OnList(y, Tail(batch[t]))
  BY <1>1, <1>2, PopHead
<1> HIDE DEF u
<1>4. QueueType'
  <2>1. batch' \in [Threads -> Seq(Threads)]
    BY <1>1, <1>2, <1>3
  <2>2. token' \in [Threads -> {"idle", "preparing", "parked", "woken"}]
    BY <1>1, <1>2, <1>3
  <2> QED BY <1>2, <2>1, <2>2 DEF QInv, QueueType, lockVars
<1>5. WakeShape'
  BY <1>1, <1>2 DEF QInv, WakeShape
<1>6. QueueShape'
  BY <1>2 DEF QInv, QueueShape
<1>7. WokenOrDue'
  <2> SUFFICES ASSUME NEW w \in Threads, pc'[w] \in {"commit", "asleep"},
                      token'[w] # "woken"
               PROVE  OnList(w, queue'[op'[w]]) \/ \E v \in Threads : OnList(w, batch'[v])
    BY DEF WokenOrDue
  <2>1. pc[w] \in {"commit", "asleep"} /\ token[w] # "idle"
    BY <1>2 DEF QInv, WakeShape
  <2>2. w # u /\ token[w] # "woken"
    BY <1>1, <1>2, <1>3, <2>1
  <2>3. OnList(w, queue[op[w]]) \/ \E v \in Threads : OnList(w, batch[v])
    BY <2>1, <2>2 DEF QInv, WokenOrDue
  <2>4. \A v \in Threads : OnList(w, batch[v]) => OnList(w, batch'[v])
    BY <1>1, <1>2, <1>3, <2>2
  <2> QED BY <1>2, <2>3, <2>4
<1>8. Supply'
  BY <1>2 DEF QInv, Supply, CanTake, Outside, Trying, Linked, Wakers, WakersOfAll,
              lockVars
<1> QED BY <1>4, <1>5, <1>6, <1>7, <1>8 DEF QInv

\* The batch is done: the waker returns, or goes round when it owes more.
LEMMA FlushedQ ==
  ASSUME LInv, QInv, NEW t \in Threads, Flushed(t)
  PROVE  QInv'
<1>1. pc \in [Threads -> PCs] /\ op \in [Threads -> Waits \cup {None}]
  BY DEF LInv, LockType
<1>2. /\ pc[t] = "flush" /\ batch[t] = <<>>
      /\ pc' = [pc EXCEPT ![t] = IF owes[t] = None THEN "idle" ELSE "collect"]
      /\ UNCHANGED lockVars /\ UNCHANGED <<queue, token, op, owes, batch>>
  BY DEF Flushed
<1>3. QueueType' /\ QueueShape' /\ WokenOrDue'
  BY <1>1, <1>2 DEF QInv, QueueType, QueueShape, WokenOrDue, lockVars
<1>4. WakeShape'
  BY <1>1, <1>2 DEF QInv, WakeShape
<1>5. \A o \in Waits : Trying(o)' = Trying(o)
  BY <1>1, <1>2 DEF Trying
<1>6. Supply'
  BY <1>2, <1>5 DEF QInv, Supply, CanTake, Outside, Linked, Wakers, WakersOfAll,
                    lockVars, Waits
<1> QED BY <1>3, <1>4, <1>6 DEF QInv

\* A stray wake ends a wait and leaves its entry where it is.
LEMMA StrayQ ==
  ASSUME LInv, QInv, NEW t \in Threads, Stray(t)
  PROVE  QInv'
<1>1. /\ token' = [token EXCEPT ![t] = "woken"]
      /\ UNCHANGED lockVars /\ UNCHANGED <<queue, pc, op, owes, batch>>
  BY DEF Stray
<1>2. QueueType' /\ WakeShape' /\ QueueShape' /\ WokenOrDue'
  BY <1>1 DEF QInv, QueueType, WakeShape, QueueShape, WokenOrDue, lockVars
<1>3. Supply'
  BY <1>1 DEF QInv, Supply, CanTake, Outside, Trying, Linked, Wakers, WakersOfAll,
              lockVars
<1> QED BY <1>2, <1>3 DEF QInv

\* Fresh objects have empty queues.
LEMMA QInit == Init => QInv
<1> SUFFICES ASSUME Init PROVE QInv
  OBVIOUS
<1>1. QueueType /\ WakeShape
  BY SyncAssumption DEF Init, QueueType, WakeShape
<1>2. \A o \in Waits : queue[o] = <<>> /\ \A t : ~OnList(t, queue[o])
  BY DEF Init, OnList
<1>3. QueueShape
  BY <1>2 DEF QueueShape, Distinct
<1>4. WokenOrDue
  BY DEF Init, WokenOrDue
<1>5. Supply
  BY <1>2 DEF Supply, Waits
<1> QED BY <1>1, <1>3, <1>4, <1>5 DEF QInv

\* Every step of every call of sync.c keeps the queues in order.
LEMMA QNext == LInv /\ QInv /\ [Next]_vars => QInv'
<1> SUFFICES ASSUME LInv, QInv, [Next]_vars PROVE QInv'
  OBVIOUS
<1>1. CASE UNCHANGED vars
  <2>1. QueueType' /\ WakeShape' /\ QueueShape' /\ WokenOrDue'
    BY <1>1 DEF vars, lockVars, QInv, QueueType, WakeShape, QueueShape, WokenOrDue
  <2>2. Supply'
    BY <1>1 DEF vars, lockVars, QInv, Supply, CanTake, Outside, Trying, Linked,
                Wakers, WakersOfAll
  <2> QED BY <2>1, <2>2 DEF QInv
<1>2. ASSUME NEW t \in Threads, Call(t) \/ Proceed(t) \/ Stray(t)
      PROVE  QInv'
  <2>1. ASSUME NEW o \in Waits, Enter(t, o) PROVE QInv'
    BY <2>1, EnterQ
  <2>2. CASE TryLock(t)
    BY <2>2, TryLockQ
  <2>3. CASE Complete(t) \/ CompleteAll(t)
    BY <2>3, CompleteQ
  <2>4. CASE Relock(t)
    BY <2>4, RelockQ
  <2>5. CASE Try(t)
    <3>1. CASE CanTake(op[t])
      BY <2>5, <3>1, TakeQ DEF Try
    <3>2. CASE ~CanTake(op[t])
      <4>1. op' = op /\ pc' = [pc EXCEPT ![t] = "prepare"] /\ UNCHANGED lockVars
        BY <2>5, <3>2 DEF Try, Goto, LInv, LockType
      <4> QED BY <2>5, <4>1, LoopQ DEF Try
    <3> QED BY <3>1, <3>2
  <2>6. CASE Prepare(t)
    BY <2>6, LoopQ DEF Prepare
  <2>7. CASE Recheck(t)
    <3>1. CASE CanTake(op[t])
      BY <2>7, <3>1, TakeQ DEF Recheck
    <3>2. CASE ~CanTake(op[t])
      <4>1. /\ op' = op /\ pc' = [pc EXCEPT ![t] = "commit"] /\ UNCHANGED lockVars
            /\ queue' = [queue EXCEPT ![op[t]] = <<t>> \o @] /\ token' = token
        BY <2>7, <3>2 DEF Recheck, Goto, LInv, LockType
      <4> QED BY <2>7, <3>2, <4>1, LinkQ DEF Recheck
    <3> QED BY <3>1, <3>2
  <2>8. CASE Commit(t)
    BY <2>8, LoopQ DEF Commit
  <2>9. CASE Resume(t)
    BY <2>9, ResumeQ
  <2>10. CASE MutexUnlock(t) \/ ReadUnlock(t) \/ WriteUnlock(t)
    BY <2>10, ReleaseQ
  <2>11. CASE Collect(t)
    BY <2>11, CollectQ
  <2>12. CASE Flush(t)
    BY <2>12, FlushQ
  <2>13. CASE Flushed(t)
    BY <2>13, FlushedQ
  <2>14. CASE Stray(t)
    BY <2>14, StrayQ
  <2> QED BY <1>2, <2>1, <2>2, <2>3, <2>4, <2>5, <2>6, <2>7, <2>8, <2>9, <2>10,
             <2>11, <2>12, <2>13, <2>14 DEF Call, Proceed
<1> QED BY <1>1, <1>2 DEF Next

\* The wait queues, the batches and the debts of the wakers fit together in
\* every reachable state.
THEOREM QueueInvariance == Spec => []QInv
BY LockInvariance, QInit, QNext, PTL DEF Spec

\* TypeOK of Sync: no field or local variable leaves its type; in particular
\* the depth of the mutex and the count of the completion stay in range.
THEOREM Types == Spec => []TypeOK
<1>1. LInv /\ QInv => TypeOK
  BY SyncAssumption DEF LInv, LockType, QInv, QueueType, TypeOK
<1> QED BY <1>1, LockInvariance, QueueInvariance, PTL

\* EntriesAreLive: a wait_queue_entry_t is linked once, and only during the
\* wait that placed it on its thread's stack.
THEOREM LiveEntries == Spec => []EntriesAreLive
<1>1. QInv => EntriesAreLive
  <2> SUFFICES ASSUME QInv, NEW o \in Waits, NEW i \in 1..Len(queue[o])
               PROVE  /\ op[queue[o][i]] = o
                      /\ pc[queue[o][i]] \in {"commit", "asleep"}
                      /\ \A j \in 1..Len(queue[o]) : queue[o][j] = queue[o][i] => i = j
    BY DEF EntriesAreLive
  <2>1. queue[o][i] \in Threads /\ OnList(queue[o][i], queue[o])
    BY DEF QInv, QueueType, OnList
  <2>2. Distinct(queue[o])
    BY DEF QInv, QueueShape
  <2> QED BY <2>1, <2>2 DEF QInv, QueueShape, Distinct
<1> QED BY <1>1, QueueInvariance, PTL

-----------------------------------------------------------------------------
(* Completions.  A completion that is left over while waiters are queued   *)
(* has a taker: a caller outside the queue, or a waker still to come.      *)

\* The count of complete() stays below COMPLETION_DONE_ALL, which only
\* complete_all() is meant to reach: in the code, fewer than 2^32 - 1 calls.
CompletionsBounded == MaxCompletes < DoneAll

Completions ==
  /\ done # DoneAll => done <= completes
  /\ queue["wait"] # <<>> /\ WakersOfAll("wait") = {} =>
       /\ done # DoneAll
       /\ done <= Cardinality(Outside("wait")) + Cardinality(Wakers("wait"))

\* Sets of threads are counted monotonically.
LEMMA CountSubset ==
  ASSUME NEW T \in SUBSET Threads, NEW S \in SUBSET T
  PROVE  /\ Cardinality(S) \in Nat /\ Cardinality(T) \in Nat
         /\ Cardinality(S) <= Cardinality(T)
<1>1. IsFiniteSet(T)
  BY FS_Subset, SyncAssumption
<1>2. IsFiniteSet(S) /\ Cardinality(S) <= Cardinality(T)
  BY <1>1, FS_Subset
<1> QED BY <1>1, <1>2, FS_CardinalityType

\* The callers outside a queue and the wakers are threads.
LEMMA TakersAreThreads ==
  /\ Outside("wait") \in SUBSET Threads /\ Wakers("wait") \in SUBSET Threads
  /\ Outside("wait")' \in SUBSET Threads /\ Wakers("wait")' \in SUBSET Threads
BY DEF Outside, Trying, Wakers

\* A step that completes nothing and takes no caller from outside and no waker
\* away leaves every completion its taker.
LEMMA CompletionsKept ==
  ASSUME QInv, Completions, UNCHANGED <<done, completes>>,
         queue'["wait"] # <<>> => queue["wait"] # <<>>,
         Outside("wait") \subseteq Outside("wait")',
         Wakers("wait") \subseteq Wakers("wait")',
         WakersOfAll("wait") \subseteq WakersOfAll("wait")'
  PROVE  Completions'
<1>1. /\ Cardinality(Outside("wait")) \in Nat /\ Cardinality(Outside("wait")') \in Nat
      /\ Cardinality(Wakers("wait")) \in Nat /\ Cardinality(Wakers("wait")') \in Nat
      /\ Cardinality(Outside("wait")) <= Cardinality(Outside("wait")')
      /\ Cardinality(Wakers("wait")) <= Cardinality(Wakers("wait")')
  BY TakersAreThreads, CountSubset
<1>2. done \in Nat
  BY SyncAssumption DEF QInv, QueueType
<1>3. ASSUME queue'["wait"] # <<>>, WakersOfAll("wait")' = {}
      PROVE  /\ done' # DoneAll
             /\ done' <= Cardinality(Outside("wait")') + Cardinality(Wakers("wait")')
  <2>1. /\ done # DoneAll
        /\ done <= Cardinality(Outside("wait")) + Cardinality(Wakers("wait"))
    BY <1>3 DEF Completions
  <2> QED BY <1>1, <1>2, <2>1
<1> QED BY <1>3 DEF Completions

\* wait_for_completion() returns: one completion and one caller less.
LEMMA CompletionsTake ==
  ASSUME LInv, QInv, Completions, NEW t \in Threads, pc[t] \in {"try", "recheck"},
         op[t] = "wait", CanTake("wait"), Take(t, "wait"), Goto(t, "idle"),
         UNCHANGED <<queue, owes>>
  PROVE  Completions'
<1>1. /\ done > 0 /\ done' = (IF done # DoneAll THEN done - 1 ELSE done)
      /\ completes' = completes /\ done \in 0..DoneAll /\ completes \in Nat
      /\ DoneAll \in Nat
  BY SyncAssumption DEF CanTake, Take, QInv, QueueType
<1>2. /\ pc \in [Threads -> PCs] /\ op \in [Threads -> Waits \cup {None}]
      /\ pc' = [pc EXCEPT ![t] = "idle"] /\ op' = [op EXCEPT ![t] = None]
  BY DEF LInv, LockType, Goto
<1>3. Trying("wait")' = Trying("wait") \ {t} /\ t \in Trying("wait")
  BY <1>2, SyncAssumption DEF Trying, Waits
<1>4. Linked("wait")' = Linked("wait") /\ t \notin Linked("wait")
  BY DEF Linked, QInv, QueueShape, Waits
<1>5. t \in Outside("wait") /\ Outside("wait")' = Outside("wait") \ {t}
  BY <1>3, <1>4 DEF Outside
<1>6. /\ Cardinality(Outside("wait")) \in Nat
      /\ Cardinality(Outside("wait")') = Cardinality(Outside("wait")) - 1
  BY <1>5, TakersAreThreads, CountLeave
<1>7. /\ Wakers("wait")' = Wakers("wait") /\ Cardinality(Wakers("wait")) \in Nat
      /\ WakersOfAll("wait")' = WakersOfAll("wait")
  BY TakersAreThreads, CountSubset DEF Wakers, WakersOfAll
<1>8. done' # DoneAll => done' <= completes'
  BY <1>1 DEF Completions
<1>9. ASSUME queue'["wait"] # <<>>, WakersOfAll("wait")' = {}
      PROVE  /\ done' # DoneAll
             /\ done' <= Cardinality(Outside("wait")') + Cardinality(Wakers("wait")')
  <2>1. /\ done # DoneAll
        /\ done <= Cardinality(Outside("wait")) + Cardinality(Wakers("wait"))
    BY <1>7, <1>9 DEF Completions
  <2>2. Cardinality(Wakers("wait")') = Cardinality(Wakers("wait"))
    BY <1>7
  <2> QED BY <1>1, <1>6, <1>7, <2>1, <2>2
<1> QED BY <1>8, <1>9 DEF Completions

\* complete() brings a completion and a waker; complete_all() a waker of all.
LEMMA CompletionsMore ==
  ASSUME CompletionsBounded, LInv, QInv, QInv', Completions, NEW t \in Threads,
         Complete(t) \/ CompleteAll(t)
  PROVE  Completions'
<1>1. /\ pc[t] = "idle" /\ Goto(t, "collect") /\ UNCHANGED <<queue, token, batch>>
      /\ completes' = completes + 1
  BY DEF Complete, CompleteAll, WakeNext
<1>2. /\ done \in 0..DoneAll /\ DoneAll \in Nat \ {0} /\ completes \in Nat
      /\ completes' <= MaxCompletes /\ MaxCompletes \in Nat /\ MaxCompletes < DoneAll
      /\ owes[t] = None /\ owes \in [Threads -> (Waits \X BOOLEAN) \cup {None}]
  BY <1>1, SyncAssumption DEF QInv, QueueType, CompletionsBounded, WakeShape
<1>5. <<"wait", FALSE>> # None /\ <<"wait", TRUE>> # None
  <2>1. <<"wait", FALSE>> \in Waits \X BOOLEAN /\ <<"wait", TRUE>> \in Waits \X BOOLEAN
    BY DEF Waits
  <2> QED BY <2>1, SyncAssumption
<1>3. CASE CompleteAll(t)
  <2>1. done' = DoneAll /\ owes' = [owes EXCEPT ![t] = <<"wait", TRUE>>]
    BY <1>3 DEF CompleteAll, WakeNext
  <2>2. owes'[t] = <<"wait", TRUE>>
    BY <1>2, <2>1
  <2>3. t \in WakersOfAll("wait")'
    BY <2>2 DEF WakersOfAll
  <2> QED BY <2>1, <2>3 DEF Completions
<1>4. CASE Complete(t)
  <2>1. /\ done' = (done + 1) % (DoneAll + 1)
        /\ owes' = [owes EXCEPT ![t] = <<"wait", FALSE>>]
    BY <1>4 DEF Complete, WakeNext
  <2>2. CASE done = DoneAll
    <3>1. done' = 0
      BY <1>2, <2>1, <2>2, ModSelf
    <3>2. Cardinality(Outside("wait")') \in Nat /\ Cardinality(Wakers("wait")') \in Nat
      BY TakersAreThreads, CountSubset
    <3> QED BY <1>1, <1>2, <3>1, <3>2 DEF Completions
  <2>3. CASE done # DoneAll
    <3>1. done' = done + 1 /\ done <= completes
      BY <1>2, <2>1, <2>3, ModSmall DEF Completions
    <3>2. done' # DoneAll /\ done' <= completes'
      BY <1>1, <1>2, <3>1
    <3>3. Outside("wait")' = Outside("wait")
      <4>1. /\ pc \in [Threads -> PCs] /\ op \in [Threads -> Waits \cup {None}]
            /\ pc' = [pc EXCEPT ![t] = "collect"] /\ op' = [op EXCEPT ![t] = None]
        BY <1>1 DEF LInv, LockType, Goto
      <4> QED BY <1>1, <4>1, SyncAssumption DEF Outside, Trying, Linked, Waits
    <3>4. owes'[t] = <<"wait", FALSE>> /\ \A u \in Threads : u # t => owes'[u] = owes[u]
      BY <1>2, <2>1
    <3>5. Wakers("wait")' = Wakers("wait") \cup {t} /\ t \notin Wakers("wait")
      <4>1. owes[t] # <<"wait", FALSE>> /\ owes[t] # <<"wait", TRUE>>
        BY <1>2, <1>5
      <4>2. t \in Wakers("wait")' /\ t \notin Wakers("wait")
        BY <3>4, <4>1 DEF Wakers
      <4>3. \A u \in Threads : u # t => (u \in Wakers("wait")' <=> u \in Wakers("wait"))
        BY <3>4 DEF Wakers
      <4> QED BY <4>2, <4>3, TakersAreThreads
    <3>6. WakersOfAll("wait") \subseteq WakersOfAll("wait")'
      BY <1>2, <1>5, <3>4 DEF WakersOfAll
    <3>7. /\ Cardinality(Wakers("wait")) \in Nat
          /\ Cardinality(Wakers("wait")') = Cardinality(Wakers("wait")) + 1
      BY <3>5, TakersAreThreads, CountJoin
    <3>8. /\ Cardinality(Outside("wait")) \in Nat
          /\ Cardinality(Outside("wait")') = Cardinality(Outside("wait"))
      BY <3>3, TakersAreThreads, CountSubset
    <3>9. ASSUME queue'["wait"] # <<>>, WakersOfAll("wait")' = {}
          PROVE  done' <= Cardinality(Outside("wait")') + Cardinality(Wakers("wait")')
      <4>1. done <= Cardinality(Outside("wait")) + Cardinality(Wakers("wait"))
        BY <1>1, <3>6, <3>9 DEF Completions
      <4> QED BY <1>2, <3>1, <3>7, <3>8, <4>1
    <3> QED BY <3>2, <3>9 DEF Completions
  <2> QED BY <2>2, <2>3
<1> QED BY <1>3, <1>4

\* A waker collects one waiter: it is no longer due, its waiter is outside.
LEMMA CompletionsCollect ==
  ASSUME LInv, QInv, Completions, NEW t \in Threads, Collect(t)
  PROVE  Completions'
<1>1. PICK o \in Waits, e \in BOOLEAN : CollectEffect(t, o, e)
  BY CollectQ
<1>2. UNCHANGED <<done, completes>> /\ "wait" \in Waits
  BY DEF Collect, lockVars, Waits
<1>3. CASE o # "wait"
  BY <1>1, <1>2, <1>3, CompletionsKept DEF CollectEffect
<1>4. CASE o = "wait" /\ (queue'["wait"] = <<>> \/ e)
  <2>1. ~(queue'["wait"] # <<>> /\ WakersOfAll("wait")' = {})
    BY <1>1, <1>4 DEF CollectEffect
  <2> QED BY <1>2, <2>1 DEF Completions
<1>5. CASE o = "wait" /\ queue'["wait"] # <<>> /\ ~e
  <2>1. PICK u \in Linked("wait") : u \in Outside("wait")'
    BY <1>1, <1>5 DEF CollectEffect
  <2>2. u \in Threads /\ u \notin Outside("wait")
    BY DEF Linked, Outside
  <2>3. Outside("wait") \cup {u} \subseteq Outside("wait")'
    BY <1>1, <1>2, <2>1 DEF CollectEffect
  <2>4. /\ Cardinality(Outside("wait")) \in Nat /\ Cardinality(Outside("wait")') \in Nat
        /\ Cardinality(Outside("wait")) + 1 <= Cardinality(Outside("wait")')
    <3>1. /\ Cardinality(Outside("wait")) \in Nat
          /\ Cardinality(Outside("wait") \cup {u}) = Cardinality(Outside("wait")) + 1
      BY <2>2, TakersAreThreads, CountJoin
    <3>2. /\ Cardinality(Outside("wait")') \in Nat
          /\ Cardinality(Outside("wait") \cup {u}) <= Cardinality(Outside("wait")')
      BY <2>3, TakersAreThreads, CountSubset
    <3> QED BY <3>1, <3>2
  <2>5. t \in Wakers("wait")
    <3>1. e = FALSE /\ owes[t] = <<"wait", e>>
      BY <1>1, <1>5 DEF CollectEffect
    <3> QED BY <3>1 DEF Wakers
  <2>6. /\ Cardinality(Wakers("wait")) \in Nat /\ Cardinality(Wakers("wait")') \in Nat
        /\ Cardinality(Wakers("wait")) - 1 <= Cardinality(Wakers("wait")')
    <3>1. /\ Cardinality(Wakers("wait")) \in Nat
          /\ Cardinality(Wakers("wait") \ {t}) = Cardinality(Wakers("wait")) - 1
      BY <2>5, TakersAreThreads, CountLeave
    <3>2. Wakers("wait") \ {t} \subseteq Wakers("wait")'
      BY <1>1, <1>5 DEF CollectEffect
    <3>3. /\ Cardinality(Wakers("wait")') \in Nat
          /\ Cardinality(Wakers("wait") \ {t}) <= Cardinality(Wakers("wait")')
      BY <3>2, TakersAreThreads, CountSubset
    <3> QED BY <3>1, <3>3
  <2>7. done \in Nat
    BY SyncAssumption DEF QInv, QueueType
  <2>8. ASSUME WakersOfAll("wait")' = {}
        PROVE  /\ done' # DoneAll
               /\ done' <= Cardinality(Outside("wait")') + Cardinality(Wakers("wait")')
    <3>1. queue["wait"] # <<>> /\ WakersOfAll("wait") = {}
      BY <1>1, <1>2, <1>5, <2>8 DEF CollectEffect
    <3>2. /\ done # DoneAll
          /\ done <= Cardinality(Outside("wait")) + Cardinality(Wakers("wait"))
      BY <3>1 DEF Completions
    <3> QED BY <1>2, <2>4, <2>6, <2>7, <3>2
  <2> QED BY <1>2, <2>8 DEF Completions
<1> QED BY <1>3, <1>4, <1>5

\* A check that fails: nothing is left over when the waiter is linked.
LEMMA CompletionsLink ==
  ASSUME LInv, QInv, Completions, NEW t \in Threads, pc[t] = "recheck",
         ~CanTake(op[t]), queue' = [queue EXCEPT ![op[t]] = <<t>> \o @],
         pc' = [pc EXCEPT ![t] = "commit"], op' = op,
         UNCHANGED lockVars, UNCHANGED owes
  PROVE  Completions'
<1>1. /\ pc \in [Threads -> PCs] /\ op \in [Threads -> Waits \cup {None}]
      /\ queue \in [Waits -> Seq(Threads)] /\ op[t] \in Waits /\ "wait" \in Waits
  BY DEF LInv, LockType, CallShape, InCall, QInv, QueueType, Waits
<1>2. Wakers("wait")' = Wakers("wait") /\ WakersOfAll("wait")' = WakersOfAll("wait")
  BY DEF Wakers, WakersOfAll
<1>3. CASE op[t] = "wait"
  <2>1. done = 0 /\ done' = 0 /\ completes' = completes
    BY <1>3, SyncAssumption DEF CanTake, lockVars, QInv, QueueType
  <2>2. Cardinality(Outside("wait")') \in Nat /\ Cardinality(Wakers("wait")') \in Nat
    BY TakersAreThreads, CountSubset
  <2>3. completes \in Nat /\ DoneAll \in Nat \ {0}
    BY SyncAssumption DEF QInv, QueueType
  <2> QED BY <2>1, <2>2, <2>3 DEF Completions
<1>4. CASE op[t] # "wait"
  <2>1. queue'["wait"] = queue["wait"]
    BY <1>1, <1>4
  <2>2. Outside("wait")' = Outside("wait")
    BY <1>1, <2>1 DEF Outside, Trying, Linked
  <2> QED BY <1>2, <2>1, <2>2, CompletionsKept DEF lockVars
<1> QED BY <1>3, <1>4

\* The steps that touch no completion: the locks, the loop and the wakes.
LEMMA CompletionsIdle ==
  ASSUME LInv, QInv, Completions, NEW t \in Threads,
         UNCHANGED <<queue, done, completes>>,
         \A u \in Threads \ {t} : /\ pc'[u] = pc[u] /\ op'[u] = op[u]
                                  /\ owes'[u] = owes[u],
         t \in Trying("wait") => t \in Trying("wait")',
         owes'[t] = owes[t] \/ owes[t] = None
  PROVE  Completions'
<1>1. Linked("wait")' = Linked("wait")
  BY DEF Linked
<1>2. Trying("wait") \subseteq Trying("wait")'
  BY DEF Trying
<1>3. <<"wait", TRUE>> # None /\ <<"wait", FALSE>> # None
  <2>1. <<"wait", FALSE>> \in Waits \X BOOLEAN /\ <<"wait", TRUE>> \in Waits \X BOOLEAN
    BY DEF Waits
  <2> QED BY <2>1, SyncAssumption
<1>4. WakersOfAll("wait") \subseteq WakersOfAll("wait")'
  BY <1>3 DEF WakersOfAll
<1>5. Wakers("wait") \subseteq Wakers("wait")'
  BY <1>3 DEF Wakers
<1> QED BY <1>1, <1>2, <1>4, <1>5, CompletionsKept DEF Outside

\* Back from the sleep a waiter is outside the queue again.
LEMMA CompletionsResume ==
  ASSUME LInv, QInv, Completions, NEW t \in Threads, Resume(t)
  PROVE  Completions'
<1>1. /\ pc \in [Threads -> PCs] /\ op \in [Threads -> Waits \cup {None}]
      /\ op[t] \in Waits /\ "wait" \in Waits /\ queue \in [Waits -> Seq(Threads)]
      /\ Distinct(queue[op[t]])
  BY DEF LInv, LockType, CallShape, InCall, Resume, QInv, QueueType, QueueShape, Waits
<1>2. /\ pc[t] = "asleep" /\ pc' = [pc EXCEPT ![t] = "try"] /\ op' = op
      /\ queue' = [queue EXCEPT ![op[t]] = Unlinked(@, t)]
      /\ UNCHANGED <<done, completes, owes>>
  BY DEF Resume, lockVars
<1>3. /\ Trying("wait")' = Trying("wait") /\ Wakers("wait")' = Wakers("wait")
      /\ WakersOfAll("wait")' = WakersOfAll("wait")
  BY <1>1, <1>2 DEF Trying, Wakers, WakersOfAll
<1>4. CASE op[t] # "wait"
  <2>1. queue'["wait"] = queue["wait"]
    BY <1>1, <1>2, <1>4
  <2> QED BY <1>2, <1>3, <2>1, CompletionsKept DEF Outside, Linked
<1>5. CASE op[t] = "wait"
  <2>1. queue'["wait"] = Unlinked(queue["wait"], t)
    BY <1>1, <1>2, <1>5
  <2>2. queue'["wait"] # <<>> => queue["wait"] # <<>>
    BY <2>1 DEF Unlinked, OnList
  <2>3. \A u : OnList(u, queue'["wait"]) => OnList(u, queue["wait"])
    BY <1>1, <1>5, <2>1, UnlinkEntry
  <2>4. Outside("wait") \subseteq Outside("wait")'
    BY <1>3, <2>3 DEF Outside, Linked
  <2> QED BY <1>2, <1>3, <2>2, <2>4, CompletionsKept
<1> QED BY <1>4, <1>5

\* Every step leaves the completions that are left their takers.
LEMMA CompletionsNext ==
  ASSUME CompletionsBounded
  PROVE  LInv /\ QInv /\ QInv' /\ Completions /\ [Next]_vars => Completions'
<1> SUFFICES ASSUME LInv, QInv, QInv', Completions, [Next]_vars PROVE Completions'
  OBVIOUS
<1>1. CASE UNCHANGED vars
  BY <1>1 DEF vars, lockVars, Completions, Outside, Trying, Linked, Wakers, WakersOfAll
<1>2. ASSUME NEW t \in Threads, Call(t) \/ Proceed(t) \/ Stray(t)
      PROVE  Completions'
  <2>0. /\ pc \in [Threads -> PCs] /\ op \in [Threads -> Waits \cup {None}]
        /\ owes \in [Threads -> (Waits \X BOOLEAN) \cup {None}]
        /\ pc[t] \in {"idle", "held"} => owes[t] = None
    BY DEF LInv, LockType, QInv, QueueType, WakeShape
  <2>1. ASSUME NEW o \in Waits, Enter(t, o) PROVE Completions'
    BY <2>0, <2>1, CompletionsIdle DEF Enter, Trying
  <2>2. CASE TryLock(t)
    BY <2>0, <2>2, CompletionsIdle DEF TryLock, Take, Trying
  <2>3. CASE Complete(t) \/ CompleteAll(t)
    BY <2>3, CompletionsMore
  <2>4. CASE Relock(t)
    BY <2>0, <2>4, CompletionsIdle DEF Relock, Trying
  <2>5. ASSUME pc[t] \in {"try", "recheck"}, CanTake(op[t]), Take(t, op[t]),
               Goto(t, After(op[t])), UNCHANGED <<queue, owes>>
        PROVE  Completions'
    <3>1. CASE op[t] = "wait"
      BY <2>5, <3>1, CompletionsTake DEF After
    <3>2. CASE op[t] # "wait"
      <4>1. UNCHANGED <<queue, done, completes, owes>> /\ t \notin Trying("wait")
        BY <2>5, <3>2 DEF Take, Trying
      <4>2. \A u \in Threads \ {t} : pc'[u] = pc[u] /\ op'[u] = op[u]
        BY <2>0, <2>5 DEF Goto
      <4> QED BY <4>1, <4>2, CompletionsIdle
    <3> QED BY <3>1, <3>2
  <2>6. CASE Try(t)
    <3>1. CASE CanTake(op[t])
      BY <2>5, <2>6, <3>1 DEF Try
    <3>2. CASE ~CanTake(op[t])
      BY <2>0, <2>6, <3>2, CompletionsIdle DEF Try, Goto, Trying, lockVars
    <3> QED BY <3>1, <3>2
  <2>7. CASE Prepare(t)
    BY <2>0, <2>7, CompletionsIdle DEF Prepare, Trying, lockVars
  <2>8. CASE Recheck(t)
    <3>1. CASE CanTake(op[t])
      BY <2>5, <2>8, <3>1 DEF Recheck
    <3>2. CASE ~CanTake(op[t])
      <4>1. /\ op' = op /\ pc' = [pc EXCEPT ![t] = "commit"] /\ UNCHANGED lockVars
            /\ queue' = [queue EXCEPT ![op[t]] = <<t>> \o @]
        BY <2>0, <2>8, <3>2 DEF Recheck, Goto
      <4> QED BY <2>8, <3>2, <4>1, CompletionsLink DEF Recheck
    <3> QED BY <3>1, <3>2
  <2>9. CASE Commit(t)
    BY <2>0, <2>9, CompletionsIdle DEF Commit, Trying, lockVars
  <2>10. CASE Resume(t)
    BY <2>10, CompletionsResume
  <2>11. CASE MutexUnlock(t) \/ ReadUnlock(t) \/ WriteUnlock(t)
    <3>1. UNCHANGED <<queue, done, completes>> /\ t \notin Trying("wait") /\ owes[t] = None
      BY <2>0, <2>11 DEF MutexUnlock, ReadUnlock, WriteUnlock, Trying
    <3>2. \A u \in Threads \ {t} : pc'[u] = pc[u] /\ op'[u] = op[u] /\ owes'[u] = owes[u]
      BY <2>0, <2>11 DEF MutexUnlock, ReadUnlock, WriteUnlock, WakeNext,
                         NothingToWake, Goto
    <3> QED BY <3>1, <3>2, CompletionsIdle
  <2>12. CASE Collect(t)
    BY <2>12, CompletionsCollect
  <2>13. CASE Flush(t) \/ Stray(t)
    BY <2>13, CompletionsIdle DEF Flush, Stray, Trying, lockVars
  <2>14. CASE Flushed(t)
    BY <2>0, <2>14, CompletionsIdle DEF Flushed, Trying, lockVars
  <2> QED BY <1>2, <2>1, <2>2, <2>3, <2>4, <2>6, <2>7, <2>8, <2>9, <2>10, <2>11,
             <2>12, <2>13, <2>14 DEF Call, Proceed
<1> QED BY <1>1, <1>2 DEF Next

\* Nothing is left over at the start.
LEMMA CompletionsInit == Init => Completions
BY SyncAssumption DEF Init, Completions, Waits

\* While waiters are queued, every completion that is left has a taker outside
\* the queue or on its way (complete(), wait_for_completion()).
THEOREM CompletionsTaken ==
  ASSUME CompletionsBounded
  PROVE  Spec => []Completions
BY LockInvariance, QueueInvariance, CompletionsInit, CompletionsNext, PTL DEF Spec

\* A sleeping waiter is queued, and a waiter outside the queue is awake or in a
\* batch.
LEMMA SleepersQueued ==
  ASSUME QInv, NEW o \in Waits
  PROVE  /\ Sleepers(o) # {} => queue[o] # <<>>
         /\ Outside(o) \subseteq Awake(o) \cup InBatch(o)
<1>1. ASSUME NEW t \in Trying(o), t \notin Awake(o), t \notin InBatch(o)
      PROVE  t \in Threads /\ OnList(t, queue[o])
  <2>1. /\ t \in Threads /\ op[t] = o /\ pc[t] \in {"commit", "asleep"}
        /\ token[t] # "woken"
    BY <1>1 DEF Trying, Awake
  <2>2. \A u \in Threads : ~OnList(t, batch[u])
    BY <1>1 DEF InBatch, OnList
  <2> QED BY <2>1, <2>2 DEF QInv, WokenOrDue
<1>2. queue[o] = <<>> => \A t : ~OnList(t, queue[o])
  BY DEF OnList
<1>3. Sleepers(o) # {} => queue[o] # <<>>
  BY <1>1, <1>2 DEF Sleepers
<1>4. Outside(o) \subseteq Awake(o) \cup InBatch(o)
  BY <1>1 DEF Outside, Linked
<1> QED BY <1>3, <1>4

\* NobodyLeftBehind: no wake of a mutex, an rw_mutex or a completion is lost.
THEOREM NobodyIsLeftBehind ==
  ASSUME CompletionsBounded
  PROVE  Spec => []NobodyLeftBehind
<1>1. QInv /\ Completions => NobodyLeftBehind
  <2> SUFFICES ASSUME QInv, Completions PROVE NobodyLeftBehind
    OBVIOUS
  <2>1. ASSUME NEW o \in {"mutex", "write"}, CanTake(o), Sleepers(o) # {}
        PROVE  Awake(o) # {} \/ InBatch(o) # {} \/ Wakers(o) # {}
    <3>1. queue[o] # <<>> /\ Outside(o) \subseteq Awake(o) \cup InBatch(o)
      BY <2>1, SleepersQueued DEF Waits
    <3>2. Outside(o) # {} \/ Wakers(o) # {}
      BY <2>1, <3>1 DEF QInv, Supply
    <3> QED BY <3>1, <3>2
  <2>2. ASSUME CanTake("read"), Sleepers("read") # {}
        PROVE  WakersOfAll("read") # {}
    BY <2>2, SleepersQueued DEF Waits, QInv, Supply
  <2>3. ASSUME Sleepers("wait") # {}, WakersOfAll("wait") = {}
        PROVE  done <= Cardinality(Awake("wait")) + Cardinality(InBatch("wait"))
                       + Cardinality(Wakers("wait"))
    <3>1. /\ queue["wait"] # <<>>
          /\ Outside("wait") \subseteq Awake("wait") \cup InBatch("wait")
      BY <2>3, SleepersQueued DEF Waits
    <3>2. done <= Cardinality(Outside("wait")) + Cardinality(Wakers("wait"))
      BY <2>3, <3>1 DEF Completions
    <3>3. Awake("wait") \in SUBSET Threads /\ InBatch("wait") \in SUBSET Threads
      BY DEF Awake, InBatch, Trying
    <3>4. /\ Cardinality(Outside("wait")) \in Nat /\ Cardinality(Wakers("wait")) \in Nat
          /\ Cardinality(Outside("wait")) <= Cardinality(Awake("wait") \cup InBatch("wait"))
          /\ Cardinality(Awake("wait") \cup InBatch("wait")) \in Nat
      BY <3>1, <3>3, TakersAreThreads, CountSubset
    <3>5. /\ Cardinality(Awake("wait")) \in Nat /\ Cardinality(InBatch("wait")) \in Nat
          /\ Cardinality(Awake("wait") \cup InBatch("wait"))
               <= Cardinality(Awake("wait")) + Cardinality(InBatch("wait"))
      <4>1. IsFiniteSet(Awake("wait")) /\ IsFiniteSet(InBatch("wait"))
        BY <3>3, FS_Subset, SyncAssumption
      <4>2. Cardinality(Awake("wait") \cup InBatch("wait")) =
              Cardinality(Awake("wait")) + Cardinality(InBatch("wait"))
              - Cardinality(Awake("wait") \cap InBatch("wait"))
        BY <4>1, FS_Union
      <4>3. /\ Cardinality(Awake("wait")) \in Nat /\ Cardinality(InBatch("wait")) \in Nat
            /\ Cardinality(Awake("wait") \cap InBatch("wait")) \in Nat
        BY <3>3, CountSubset
      <4> QED BY <4>2, <4>3
    <3>6. done \in Nat
      BY SyncAssumption DEF QInv, QueueType
    <3> QED BY <3>2, <3>4, <3>5, <3>6
  <2> QED BY <2>1, <2>2, <2>3 DEF NobodyLeftBehind
<1> QED BY <1>1, QueueInvariance, CompletionsTaken, PTL
=============================================================================
