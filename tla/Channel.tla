------------------------------ MODULE Channel ------------------------------
(***************************************************************************)
(* The channel endpoints of the native ABI: kernel/ipc/a20_channel.c, with *)
(* the wait queues of kernel/core/sync.c it sleeps on and the channel_call *)
(* system call of kernel/abi/native/sys_native_ipc.c.                      *)
(*                                                                         *)
(* A channel is a pair of endpoints.  A thread sends through its own       *)
(* endpoint into the peer's queue and receives from its own queue.  One    *)
(* action is one critical section of g_ch_lock/ep->lock, or one step       *)
(* between two of them.  The park protocol, verified in Sched, is used     *)
(* through its contract: the first wake of a token wins it.                *)
(***************************************************************************)
EXTENDS WaitList, FiniteSets

CONSTANTS
  Threads,
  None,         \* NULL
  End,          \* [Threads -> EPs]: the endpoint each thread has a handle of
  Cap,          \* msg_cap
  MaxSends,     \* bound on the messages sent
  NonBlocking,  \* threads that pass A20_MSG_NONBLOCK
  Callers,      \* threads that send with channel_call
  Mistyped,     \* threads whose messages the typed receiver must refuse
  Short,        \* threads that may receive into too small a buffer
  Signalled,    \* threads that may be sent a signal
  Shutdown      \* endpoints whose owner uses a20_channel_ep_peer_shutdown()

EPs == {"a", "b"}

ASSUME ChannelAssumption ==
  /\ IsFiniteSet(Threads) /\ End \in [Threads -> EPs]
  /\ None \notin EPs /\ None \notin Threads /\ None \notin {"ok", "mistyped"}
  /\ Cap \in Nat \ {0} /\ MaxSends \in Nat
  /\ NonBlocking \subseteq Threads /\ Callers \subseteq Threads
  /\ Mistyped \subseteq Threads /\ Short \subseteq Threads
  /\ Signalled \subseteq Threads /\ Shutdown \subseteq EPs

VARIABLES
  \* a20_channel_ep_t
  refcount,  \* refcount
  peer,      \* peer
  pclosed,   \* peer_closed
  queue,     \* msg_head .. msg_tail; a message is "ok" or "mistyped"
  waiters,   \* waiters: threads, newest first; the key follows from End
  alive,     \* not yet kfree()d
  handle,    \* a handle table still names the endpoint
  \* task_t: the park token and the pending signal
  token, reason, sig,
  \* the system call of each thread
  pc,
  msg,       \* the message the sender holds, or None
  ptr,       \* local variable peer, with its reference
  target,    \* local variable target of the donating receive
  donate,    \* donating receive: "first" wait, "later" one; "no": plain receive
  rel,       \* endpoint whose last reference the thread has just dropped
  \* references
  xfer,      \* references that messages hold on transferred objects
  got,       \* references handed to receivers
  sent       \* messages sent so far

epVars   == <<refcount, peer, pclosed, queue, waiters, alive, handle>>
parkVars == <<token, reason, sig>>
refVars  == <<xfer, got, sent>>
vars == <<epVars, parkVars, pc, msg, ptr, target, donate, rel, refVars>>

\* a20_channel_create(): both endpoints, one handle on each.
Init ==
  /\ refcount = [e \in EPs |-> 1]
  /\ peer = [e \in EPs |-> IF e = "a" THEN "b" ELSE "a"]
  /\ pclosed = [e \in EPs |-> FALSE]
  /\ queue = [e \in EPs |-> <<>>]
  /\ waiters = [e \in EPs |-> <<>>]
  /\ alive = [e \in EPs |-> TRUE]
  /\ handle = [e \in EPs |-> TRUE]
  /\ token = [t \in Threads |-> "idle"]
  /\ reason = [t \in Threads |-> "none"]
  /\ sig = [t \in Threads |-> FALSE]
  /\ pc = [t \in Threads |-> "user"]
  /\ msg = [t \in Threads |-> None]
  /\ ptr = [t \in Threads |-> None]
  /\ target = [t \in Threads |-> None]
  /\ donate = [t \in Threads |-> "no"]
  /\ rel = [t \in Threads |-> None]
  /\ xfer = 0 /\ got = 0 /\ sent = 0

-----------------------------------------------------------------------------
(* Helpers.                                                                *)

\* The thread is at p, and not in the middle of destroying an endpoint.
At(t, p) == pc[t] = p /\ rel[t] = None

Goto(t, p) == pc' = [pc EXCEPT ![t] = p]

\* A20_CH_WAIT_RECV or A20_CH_WAIT_SEND: the key t waits with on e's queue.
Key(t, e) == IF End[t] = e THEN "RECV" ELSE "SEND"

\* Where the waiters with the key are in e's queue.
Waiting(e, k) == {i \in 1..Len(waiters[e]) : Key(waiters[e][i], e) = k}

\* wait_queue_collect_one(): the newest of them.
Newest(e, k) == waiters[e][First(Waiting(e, k))]

\* proc_try_wake() of the current waits of the threads in S: the first wake of
\* a token wins it.
Woken(S) == {u \in S : token[u] \in {"preparing", "parked"}}
TryWake(S, r) ==
  /\ token' = [u \in Threads |-> IF u \in Woken(S) THEN "woken" ELSE token[u]]
  /\ reason' = [u \in Threads |-> IF u \in Woken(S) THEN r ELSE reason[u]]

(* A definition named Bug... is the definition after it with a plausible   *)
(* mistake; no specification uses it.  It shows that a property notices.   *)

BugWakeOneNoSender(e, k) ==
  IF k = "SEND" \/ Waiting(e, k) = {} THEN UNCHANGED <<waiters, token, reason>>
  ELSE /\ waiters' = [waiters EXCEPT ![e] = Unlinked(@, Newest(e, k))]
       /\ TryWake({Newest(e, k)}, "EVENT")

\* wait_queue_wake_one(): the waiter leaves the queue whether or not the wake
\* wins its token.
WakeOne(e, k) ==
  IF Waiting(e, k) = {}
  THEN UNCHANGED <<waiters, token, reason>>
  ELSE /\ waiters' = [waiters EXCEPT ![e] = Unlinked(@, Newest(e, k))]
       /\ TryWake({Newest(e, k)}, "EVENT")

\* wait_queue_wake_all(e, 0)
WakeAll(e) ==
  /\ waiters' = [waiters EXCEPT ![e] = <<>>]
  /\ TryWake({waiters[e][i] : i \in 1..Len(waiters[e])}, "EVENT")

BugPeerOfAny(e) == peer[e]

\* refcount_inc_not_zero() of the peer, read under g_ch_lock.
PeerOf(e) ==
  IF peer[e] # None /\ refcount[peer[e]] > 0 THEN peer[e] ELSE None

BugReleaseOldValue(t, e) ==
  /\ refcount' = [refcount EXCEPT ![e] = @ - 1]
  /\ rel' = [rel EXCEPT ![t] = IF refcount[e] = 0 THEN e ELSE None]

\* a20_channel_ep_release(): the thread that drops the last reference goes on
\* with Teardown before anything else.
Release(t, e) ==
  /\ refcount' = [refcount EXCEPT ![e] = @ - 1]
  /\ rel' = [rel EXCEPT ![t] = IF refcount[e] = 1 THEN e ELSE None]

\* proc_park_prepare(INTERRUPTIBLE): a pending signal wins the token at once.
ParkPrepare(t) ==
  /\ token' = [token EXCEPT ![t] = IF sig[t] THEN "woken" ELSE "preparing"]
  /\ reason' = [reason EXCEPT ![t] = IF sig[t] THEN "SIGNAL" ELSE "none"]

\* proc_park_cancel() and proc_park_finish()
ParkFinish(t) ==
  /\ token' = [token EXCEPT ![t] = "idle"]
  /\ reason' = [reason EXCEPT ![t] = "none"]

BugMsgFreeKeepsRefs(t) == msg' = [msg EXCEPT ![t] = None] /\ UNCHANGED xfer

\* ch_msg_free(msg, 1): the message's references are released with it.
MsgFree(t) == msg' = [msg EXCEPT ![t] = None] /\ xfer' = xfer - 1

-----------------------------------------------------------------------------
(* a20_channel_send_dwc()                                                  *)

\* Entry: a reference on the endpoint for the length of the call, one on the
\* object the message carries.  A refused argument or a failed allocation
\* returns without effect and is not an action.
SendBegin(t) ==
  /\ At(t, "user") /\ handle[End[t]] /\ sent < MaxSends
  /\ refcount' = [refcount EXCEPT ![End[t]] = @ + 1]
  /\ msg' = [msg EXCEPT ![t] = IF t \in Mistyped THEN "mistyped" ELSE "ok"]
  /\ xfer' = xfer + 1 /\ sent' = sent + 1
  /\ Goto(t, "send")
  /\ UNCHANGED <<peer, pclosed, queue, waiters, alive, handle, parkVars, ptr,
                 target, donate, rel, got>>

\* ch_try_enqueue() up to its unlock.  channel_call defers the wake.
TryEnqueue(t) ==
  LET p == PeerOf(End[t]) IN
  /\ At(t, "send")
  /\ IF p = None
     THEN /\ MsgFree(t) /\ Goto(t, "out")
          /\ UNCHANGED <<refcount, queue, waiters, token, reason, ptr>>
     ELSE /\ refcount' = [refcount EXCEPT ![p] = @ + 1]
          /\ ptr' = [ptr EXCEPT ![t] = p]
          /\ \/ /\ pclosed[p]
                /\ Goto(t, "enqueue_dead")
                /\ UNCHANGED <<queue, waiters, token, reason, msg, xfer>>
             \/ /\ ~pclosed[p] /\ Len(queue[p]) >= Cap
                /\ Goto(t, "enqueue_full")
                /\ UNCHANGED <<queue, waiters, token, reason, msg, xfer>>
             \/ /\ ~pclosed[p] /\ Len(queue[p]) < Cap
                /\ queue' = [queue EXCEPT ![p] = Append(@, msg[t])]
                /\ msg' = [msg EXCEPT ![t] = None]
                /\ IF t \in Callers THEN UNCHANGED <<waiters, token, reason>>
                   ELSE WakeOne(p, "RECV")
                /\ Goto(t, "enqueued")
                /\ UNCHANGED xfer
  /\ UNCHANGED <<peer, pclosed, alive, handle, sig, target, donate, rel, got,
                 sent>>

BugFreesMsgSent(t) == pc[t] # "enqueue_full" \/ t \in NonBlocking

\* The results of ch_try_enqueue() that end the call without the message.
FreesMsg(t) ==
  pc[t] = "enqueue_dead" \/ (pc[t] = "enqueue_full" /\ t \in NonBlocking)

\* ch_try_enqueue() drops its reference; its caller acts on the result.
\* channel_call goes on with the donating receive.
EnqueueReturn(t) ==
  /\ At(t, "enqueued") \/ At(t, "enqueue_full") \/ At(t, "enqueue_dead")
  /\ Release(t, ptr[t])
  /\ ptr' = [ptr EXCEPT ![t] = None]
  /\ IF FreesMsg(t) THEN MsgFree(t) ELSE UNCHANGED <<msg, xfer>>
  /\ Goto(t, IF pc[t] = "enqueued" /\ t \in Callers THEN "recv"
             ELSE IF pc[t] = "enqueue_full" /\ t \notin NonBlocking
             THEN "send_park" ELSE "out")
  /\ donate' = [donate EXCEPT ![t] =
                  IF pc[t] = "enqueued" /\ t \in Callers THEN "first" ELSE @]
  /\ UNCHANGED <<peer, pclosed, queue, waiters, alive, handle, parkVars, target,
                 got, sent>>

SendPark(t) ==
  /\ At(t, "send_park")
  /\ ParkPrepare(t) /\ Goto(t, "send_link")
  /\ UNCHANGED <<epVars, sig, msg, ptr, target, donate, rel, refVars>>

\* The queue is checked again with the token in hand; the sleeper keeps its
\* reference on the peer.
SendLink(t) ==
  LET p == PeerOf(End[t]) IN
  /\ At(t, "send_link")
  /\ IF p = None
     THEN /\ ParkFinish(t) /\ MsgFree(t) /\ Goto(t, "out")
          /\ UNCHANGED <<refcount, waiters, ptr>>
     ELSE /\ refcount' = [refcount EXCEPT ![p] = @ + 1]
          /\ ptr' = [ptr EXCEPT ![t] = p]
          /\ IF ~pclosed[p] /\ Len(queue[p]) >= Cap
             THEN /\ waiters' = [waiters EXCEPT ![p] = <<t>> \o @]
                  /\ Goto(t, "send_sleep")
             ELSE /\ Goto(t, "send_retry") /\ UNCHANGED waiters
          /\ UNCHANGED <<token, reason, msg, xfer>>
  /\ UNCHANGED <<peer, pclosed, queue, alive, handle, sig, target, donate, rel,
                 got, sent>>

\* Space appeared or the peer closed while preparing.
SendRetry(t) ==
  /\ At(t, "send_retry")
  /\ Release(t, ptr[t]) /\ ptr' = [ptr EXCEPT ![t] = None]
  /\ ParkFinish(t) /\ Goto(t, "send")
  /\ UNCHANGED <<peer, pclosed, queue, waiters, alive, handle, sig, msg, target,
                 donate, refVars>>

\* proc_park_commit(): sleep unless the token is already won.
ParkCommit(t) ==
  /\ At(t, "send_sleep") \/ At(t, "recv_sleep")
  /\ token[t] = "preparing"
  /\ token' = [token EXCEPT ![t] = "parked"]
  /\ UNCHANGED <<epVars, reason, sig, pc, msg, ptr, target, donate, rel, refVars>>

BugUnlinkNothing(t) == UNCHANGED waiters

\* wait_queue_unlink() of t's entry, wherever it still is.
Unlink(t) ==
  waiters' = [e \in EPs |-> Unlinked(waiters[e], t)]

SendWoken(t) ==
  /\ At(t, "send_sleep") /\ token[t] = "woken"
  /\ Unlink(t) /\ ParkFinish(t)
  /\ Release(t, ptr[t]) /\ ptr' = [ptr EXCEPT ![t] = None]
  /\ IF reason[t] = "SIGNAL"
     THEN MsgFree(t) /\ Goto(t, "out")
     ELSE Goto(t, "send") /\ UNCHANGED <<msg, xfer>>
  /\ UNCHANGED <<peer, pclosed, queue, alive, handle, sig, target, donate, got,
                 sent>>

-----------------------------------------------------------------------------
(* a20_channel_recv_begin()/_begin_donate() up to _finish()/_abort()       *)

RecvBegin(t) ==
  /\ At(t, "user") \/ At(t, "short")
  /\ handle[End[t]]
  /\ refcount' = [refcount EXCEPT ![End[t]] = @ + 1]
  /\ Goto(t, "recv")
  /\ UNCHANGED <<peer, pclosed, queue, waiters, alive, handle, parkVars, msg,
                 ptr, target, donate, rel, refVars>>

\* ep->lock is held from the check to the dequeue, so both are one step.  A
\* message of a refused type is discarded; a buffer that is too small leaves
\* the message queued and the call returns NO_SPACE.
RecvCheck(t) ==
  LET e == End[t]
      Dequeue == /\ queue' = [queue EXCEPT ![e] = Tail(@)]
                 /\ WakeOne(e, "SEND") IN
  /\ At(t, "recv")
  /\ \/ /\ queue[e] # <<>> /\ Head(queue[e]) = "mistyped"
        /\ Dequeue /\ xfer' = xfer - 1 /\ Goto(t, "out")
        /\ UNCHANGED got
     \/ /\ queue[e] # <<>> /\ Head(queue[e]) = "ok"
        /\ Dequeue /\ xfer' = xfer - 1 /\ got' = got + 1 /\ Goto(t, "out")
     \/ /\ queue[e] # <<>> /\ Head(queue[e]) = "ok"
        /\ t \in Short
        /\ Goto(t, "out_short")
        /\ UNCHANGED <<queue, waiters, token, reason, xfer, got>>
     \/ /\ queue[e] = <<>>
        /\ Goto(t, IF pclosed[e] \/ t \in NonBlocking THEN "out"
                   ELSE "recv_park")
        /\ UNCHANGED <<queue, waiters, token, reason, xfer, got>>
  /\ UNCHANGED <<refcount, peer, pclosed, alive, handle, sig, msg, ptr, target,
                 donate, rel, sent>>

RecvPark(t) ==
  /\ At(t, "recv_park")
  /\ ParkPrepare(t) /\ Goto(t, "recv_link")
  /\ UNCHANGED <<epVars, sig, msg, ptr, target, donate, rel, refVars>>

\* The queue is checked again under ep->lock with the token in hand.
RecvLink(t) ==
  LET e == End[t] IN
  /\ At(t, "recv_link")
  /\ IF queue[e] = <<>> /\ ~pclosed[e]
     THEN /\ waiters' = [waiters EXCEPT ![e] = <<t>> \o @]
          /\ Goto(t, IF donate[t] = "no" THEN "recv_sleep" ELSE "peek")
          /\ UNCHANGED <<token, reason>>
     ELSE /\ ParkFinish(t) /\ Goto(t, "recv")
          /\ UNCHANGED waiters
  /\ UNCHANGED <<refcount, peer, pclosed, queue, alive, handle, sig, msg, ptr,
                 target, donate, rel, refVars>>

\* wait_queue_peek_key() on the peer, in the first wait of the call only.
Peek(t) ==
  LET p == peer[End[t]]
      found == donate[t] = "first" /\ p # None /\ ~pclosed[p] 
               /\ Waiting(p, "RECV") # {} IN
  /\ At(t, "peek")
  /\ donate' = [donate EXCEPT ![t] = "later"]
  /\ target' = [target EXCEPT ![t] =
                  IF found THEN Newest(p, "RECV") ELSE None]
  /\ Goto(t, IF found THEN "handoff" ELSE "deferred")
  /\ UNCHANGED <<epVars, parkVars, msg, ptr, rel, refVars>>

\* proc_park_commit_donate(): a token already won returns at once; otherwise
\* the caller parks and the target, if it is parked and its CPU is this one,
\* is woken and switched to.
Handoff(t) ==
  /\ At(t, "handoff")
  /\ \/ /\ token[t] = "woken"
        /\ UNCHANGED <<token, reason>>
     \/ /\ token[t] = "preparing"
        /\ \/ /\ token' = [token EXCEPT ![t] = "parked"]
              /\ UNCHANGED reason
           \/ /\ token[target[t]] = "parked"
              /\ token' = [token EXCEPT ![t] = "parked",
                                        ![target[t]] = "woken"]
              /\ reason' = [reason EXCEPT ![target[t]] = "EVENT"]
  /\ target' = [target EXCEPT ![t] = None]
  /\ Goto(t, "recv_sleep")
  /\ UNCHANGED <<epVars, sig, msg, ptr, donate, rel, refVars>>

\* No target: deliver the wake the send stage deferred.
DeferredWake(t) ==
  LET p == peer[End[t]] IN
  /\ At(t, "deferred")
  /\ IF p # None /\ ~pclosed[p] THEN WakeOne(p, "RECV")
     ELSE UNCHANGED <<waiters, token, reason>>
  /\ Goto(t, "recv_sleep")
  /\ UNCHANGED <<refcount, peer, pclosed, queue, alive, handle, sig, msg, ptr,
                 target, donate, rel, refVars>>

RecvWoken(t) ==
  /\ At(t, "recv_sleep") /\ token[t] = "woken"
  /\ Unlink(t) /\ ParkFinish(t)
  /\ Goto(t, IF reason[t] = "SIGNAL" THEN "out" ELSE "recv")
  /\ UNCHANGED <<refcount, peer, pclosed, queue, alive, handle, sig, msg, ptr,
                 target, donate, rel, refVars>>

-----------------------------------------------------------------------------
(* The end of a call, signals, and the end of an endpoint.                 *)

\* The call's reference is dropped; a signal is delivered on the way out.
Return(t) ==
  /\ At(t, "out") \/ At(t, "out_short")
  /\ Release(t, End[t])
  /\ sig' = [sig EXCEPT ![t] = FALSE]
  /\ donate' = [donate EXCEPT ![t] = "no"]
  /\ Goto(t, IF pc[t] = "out" THEN "user" ELSE "short")
  /\ UNCHANGED <<peer, pclosed, queue, waiters, alive, handle, token, reason,
                 msg, ptr, target, refVars>>

Signal(t) ==
  /\ t \in Signalled /\ ~sig[t]
  /\ sig' = [sig EXCEPT ![t] = TRUE]
  /\ TryWake({t}, "SIGNAL")
  /\ UNCHANGED <<epVars, pc, msg, ptr, target, donate, rel, refVars>>

\* handle_close() of the endpoint's handle by one of the threads that share it.
HandleClose(t) ==
  /\ At(t, "user") /\ handle[End[t]]
  /\ handle' = [handle EXCEPT ![End[t]] = FALSE]
  /\ Release(t, End[t])
  /\ UNCHANGED <<peer, pclosed, queue, waiters, alive, parkVars, pc, msg, ptr,
                 target, donate, refVars>>

\* a20_channel_ep_peer_shutdown()
PeerShutdown(t) ==
  LET e == End[t] p == peer[e] IN
  /\ At(t, "user") /\ handle[e] /\ e \in Shutdown /\ p # None
  /\ pclosed' = [pclosed EXCEPT ![p] = TRUE]
  /\ WakeAll(p)
  /\ UNCHANGED <<refcount, peer, queue, alive, handle, sig, pc, msg, ptr, target,
                 donate, rel, refVars>>

\* a20_channel_ep_release() once the count is zero: under g_ch_lock the peer
\* is told and the pair comes apart; then the queue and the endpoint are freed.
Teardown(t) ==
  LET e == rel[t] p == peer[e] IN
  /\ e # None
  /\ IF p = None
     THEN UNCHANGED <<pclosed, waiters, token, reason, peer>>
     ELSE /\ pclosed' = [pclosed EXCEPT ![p] = TRUE]
          /\ peer' = [peer EXCEPT ![p] = None, ![e] = None]
          /\ WakeAll(p)
  /\ xfer' = xfer - Len(queue[e])
  /\ queue' = [queue EXCEPT ![e] = <<>>]
  /\ alive' = [alive EXCEPT ![e] = FALSE]
  /\ rel' = [rel EXCEPT ![t] = None]
  /\ UNCHANGED <<refcount, handle, sig, pc, msg, ptr, target, donate, got, sent>>

Step(t) ==
  \/ SendBegin(t) \/ TryEnqueue(t) \/ EnqueueReturn(t) \/ SendPark(t)
  \/ SendLink(t) \/ SendRetry(t) \/ ParkCommit(t) \/ SendWoken(t)
  \/ RecvBegin(t) \/ RecvCheck(t) \/ RecvPark(t) \/ RecvLink(t)
  \/ Peek(t) \/ Handoff(t) \/ DeferredWake(t) \/ RecvWoken(t)
  \/ Return(t) \/ Signal(t) \/ HandleClose(t) \/ PeerShutdown(t)
  \/ Teardown(t)

Next == \E t \in Threads : Step(t)

Spec == Init /\ [][Next]_vars

-----------------------------------------------------------------------------
(* Properties.                                                             *)

PCs == {"user", "short", "send", "enqueued", "enqueue_full", "enqueue_dead",
        "send_park", "send_link", "send_retry", "send_sleep", "recv",
        "recv_park", "recv_link", "peek", "handoff", "deferred", "recv_sleep",
        "out", "out_short"}

\* Every variable has the type of the field or local variable it stands for.
TypeOK ==
  /\ refcount \in [EPs -> Nat] /\ peer \in [EPs -> EPs \cup {None}]
  /\ pclosed \in [EPs -> BOOLEAN] /\ alive \in [EPs -> BOOLEAN]
  /\ handle \in [EPs -> BOOLEAN]
  /\ queue \in [EPs -> Seq({"ok", "mistyped"})]
  /\ waiters \in [EPs -> Seq(Threads)]
  /\ token \in [Threads -> {"idle", "preparing", "parked", "woken"}]
  /\ reason \in [Threads -> {"none", "EVENT", "SIGNAL"}]
  /\ sig \in [Threads -> BOOLEAN] /\ pc \in [Threads -> PCs]
  /\ msg \in [Threads -> {"ok", "mistyped", None}]
  /\ ptr \in [Threads -> EPs \cup {None}]
  /\ target \in [Threads -> Threads \cup {None}]
  /\ donate \in [Threads -> {"no", "first", "later"}]
  /\ rel \in [Threads -> EPs \cup {None}]
  /\ xfer \in Nat /\ got \in Nat /\ sent \in 0..MaxSends

\* CH_PEER_TEARDOWN_PROTOCOL: whatever endpoint a call, a local peer pointer,
\* a handle, a peer link or a wait queue still reaches has not been freed.
NoUseAfterFree ==
  /\ \A t \in Threads :
       /\ pc[t] \notin {"user", "short"} => alive[End[t]]
       /\ ptr[t] # None => alive[ptr[t]]
       /\ rel[t] # None => alive[rel[t]]
  /\ \A e \in EPs :
       /\ handle[e] => alive[e]
       /\ alive[e] /\ peer[e] # None => alive[peer[e]]
       /\ ~alive[e] => waiters[e] = <<>> /\ queue[e] = <<>>

\* An endpoint lives exactly as long as somebody refers to it: when its last
\* user is gone somebody is tearing it down or it has been freed.
Unused(e) ==
  /\ ~handle[e]
  /\ \A t \in Threads : ptr[t] # e
  /\ \A t \in Threads : End[t] = e => pc[t] \in {"user", "short"}
NoEndpointLeak ==
  \A e \in EPs : Unused(e) <=> ~alive[e] \/ \E t \in Threads : rel[t] = e

\* "Handle references taken at send time travel with the message": on every
\* path, errors, interrupts and teardown included, each undelivered message
\* holds exactly one reference, and a freed message holds none.
HandleRefsTravel ==
  xfer = Len(queue["a"]) + Len(queue["b"])
           + Cardinality({t \in Threads : msg[t] # None})

\* A wait-queue entry belongs to a thread that is in the wait it linked it for:
\* the entry is on that thread's stack.
EntriesAreLive ==
  \A e \in EPs : \A i \in 1..Len(waiters[e]) :
    LET t == waiters[e][i] IN
    /\ pc[t] \in (IF End[t] = e THEN {"peek", "handoff", "deferred", "recv_sleep"}
                  ELSE {"send_sleep"})
    /\ End[t] # e => ptr[t] = e
    /\ \A j \in 1..Len(waiters[e]) : waiters[e][j] = t => i = j

EndOf(e) == {t \in Threads : End[t] = e}

\* Receivers of e that will look at the queue again; a thread that was told
\* NO_SPACE knows of the message and owes the next receive.
WillReceive(e) ==
  {t \in EndOf(e) :
     \/ pc[t] \in {"recv", "recv_park", "recv_link", "out_short", "short"}
     \/ /\ pc[t] \in {"peek", "handoff", "deferred", "recv_sleep"}
        /\ token[t] = "woken" /\ reason[t] = "EVENT"}

\* Nobody sleeps on a message: while a receiver of e is parked, every queued
\* message has a receiver that is going to look.
ReceiverServed(e) ==
  (\E t \in Threads : pc[t] = "recv_sleep" /\ End[t] = e /\ token[t] = "parked")
    => Len(queue[e]) <= Cardinality(WillReceive(e))

\* Senders into e that will look at the queue again.
WillSend(e) ==
  {t \in Threads \ EndOf(e) :
     \/ pc[t] \in {"send", "send_park", "send_link", "send_retry"}
     \/ pc[t] = "enqueue_full" /\ t \notin NonBlocking
     \/ pc[t] = "send_sleep" /\ token[t] = "woken" /\ reason[t] = "EVENT"}

\* Nobody sleeps on free space: while a sender into e is parked, every free
\* slot has a sender that is going to look.
SenderServed(e) ==
  (\E t \in Threads : pc[t] = "send_sleep" /\ ptr[t] = e /\ token[t] = "parked")
    => Cap - Len(queue[e]) <= Cardinality(WillSend(e))

Quiet(S) == S \cap Signalled = {}

\* The two wake rules, wherever no caller defers its wake and no signal can
\* take a waiter off the queue.
PlainWaitersServed ==
  \A e \in EPs :
    /\ Quiet(EndOf(e)) /\ (Threads \ EndOf(e)) \cap Callers = {}
         => ReceiverServed(e)
    /\ Quiet(Threads \ EndOf(e)) => SenderServed(e)

\* "defer_wake skips the RECV wait-queue wake (channel_call donation path); the
\* caller then owns delivering the wake or a direct handoff": once a caller has
\* gone to sleep or has its reply, nobody sleeps on its request
\* (kernel/ipc/a20_channel.c).
DeferredWakeDelivered ==
  (\A t \in Callers : pc[t] \in {"recv_sleep", "out", "user"})
    => \A e \in EPs : ReceiverServed(e)
=============================================================================
