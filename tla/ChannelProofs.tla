--------------------------- MODULE ChannelProofs ---------------------------
(***************************************************************************)
(* Proofs about Channel, for any finite set of threads on the two ends,    *)
(* any capacity and any choice of callers, non-blocking senders and        *)
(* signalled threads.  The inductive invariant CInv counts every reference *)
(* an endpoint and a message can have, and ties every wait-queue entry to  *)
(* the call and the token of the thread that owns it.                      *)
(***************************************************************************)
EXTENDS Channel, WaitListProofs

Other(e) == IF e = "a" THEN "b" ELSE "a"

\* Where a call holds its message, where it holds a reference on the peer, and
\* where a receiver sleeps.
Sending == {"send", "enqueue_full", "enqueue_dead", "send_park", "send_link",
            "send_retry", "send_sleep"}
Holding == {"enqueued", "enqueue_full", "enqueue_dead", "send_retry",
            "send_sleep"}
RecvWait == {"peek", "handoff", "deferred", "recv_sleep"}

\* Where a thread has an entry, and where it has a token.
Asleep == RecvWait \cup {"send_sleep"}
Tokened == Asleep \cup {"send_link", "recv_link"}

\* The types of the wait queues and the park tokens.
ParkType ==
  /\ waiters \in [EPs -> Seq(Threads)]
  /\ token \in [Threads -> {"idle", "preparing", "parked", "woken"}]
  /\ reason \in [Threads -> {"none", "EVENT", "SIGNAL"}]

\* The types of a system call's own variables.
CallType ==
  /\ sig \in [Threads -> BOOLEAN] /\ pc \in [Threads -> PCs]
  /\ msg \in [Threads -> {"ok", "mistyped", None}]
  /\ ptr \in [Threads -> EPs \cup {None}]
  /\ target \in [Threads -> Threads \cup {None}]
  /\ donate \in [Threads -> {"no", "first", "later"}]
  /\ rel \in [Threads -> EPs \cup {None}]

\* The types of the endpoints, before it is known that no count goes below zero.
EndType ==
  /\ refcount \in [EPs -> Int] /\ peer \in [EPs -> EPs \cup {None}]
  /\ pclosed \in [EPs -> BOOLEAN] /\ alive \in [EPs -> BOOLEAN]
  /\ handle \in [EPs -> BOOLEAN]
  /\ queue \in [EPs -> Seq({"ok", "mistyped"})]
  /\ xfer \in Int /\ got \in Nat /\ sent \in 0..MaxSends

\* What a thread holds follows from where it is in its call.
CallOf(t) ==
  /\ msg[t] # None <=> pc[t] \in Sending
  /\ ptr[t] = IF pc[t] \in Holding THEN Other(End[t]) ELSE None
  /\ target[t] # None <=> pc[t] = "handoff"
  /\ target[t] # None => End[target[t]] # End[t]
  /\ donate[t] # "no" => t \in Callers
  /\ pc[t] \in {"peek", "handoff", "deferred"} => donate[t] # "no"
CallShape == \A t \in Threads : CallOf(t)

\* The two endpoints point at each other exactly while both exist; a freed one
\* has no messages, and nobody waits on one whose peer has closed.
Pair ==
  \A e \in EPs :
    /\ peer[e] = IF alive["a"] /\ alive["b"] THEN Other(e) ELSE None
    /\ ~alive[e] => queue[e] = <<>>
    /\ pclosed[e] => waiters[e] = <<>>

\* Who holds a reference on e besides its handle.
Calls(e) == {t \in Threads : End[t] = e /\ pc[t] \notin {"user", "short"}}
Ptrs(e) == {t \in Threads : ptr[t] = e}

\* refcount counts the handle, the calls in progress and the peer pointers.
Counted ==
  \A e \in EPs :
    refcount[e] = (IF handle[e] THEN 1 ELSE 0)
                    + Cardinality(Calls(e)) + Cardinality(Ptrs(e))

\* A count of zero means that exactly one thread is tearing the endpoint down,
\* or has done so.
Dying ==
  \A e \in EPs :
    /\ refcount[e] = 0 <=> (~alive[e] \/ \E t \in Threads : rel[t] = e)
    /\ \A t, u \in Threads : rel[t] = e /\ rel[u] = e => t = u
    /\ \A t \in Threads : rel[t] = e => alive[e]

\* An entry is linked once, by a thread in the wait it belongs to.
LinkedOf(t) ==
  \A e \in EPs : OnList(t, waiters[e]) =>
    pc[t] \in IF End[t] = e THEN RecvWait ELSE {"send_sleep"}
Linked ==
  /\ \A e \in EPs : Distinct(waiters[e])
  /\ \A t \in Threads : LinkedOf(t)

\* The endpoint whose queue a sleeping thread is on.
WaitsOn(t) == IF pc[t] = "send_sleep" THEN Other(End[t]) ELSE End[t]

\* A sleeper that is off the queue has been woken, and only a signal says so.
TokenOf(t) ==
  /\ pc[t] \in Tokened => token[t] # "idle"
  /\ pc[t] \in Asleep => OnList(t, waiters[WaitsOn(t)]) \/ token[t] = "woken"
  /\ token[t] = "woken" => reason[t] # "none"
  /\ t \notin Signalled => ~sig[t] /\ reason[t] # "SIGNAL"
Tokens == \A t \in Threads : TokenOf(t)

CInv ==
  /\ ParkType /\ CallType /\ EndType /\ CallShape /\ Pair /\ Counted /\ Dying
  /\ Linked /\ Tokens /\ HandleRefsTravel

-----------------------------------------------------------------------------
(* What waking and unlinking do to the queues.                             *)

\* wait_queue_wake_one() of a queue with u's entry on it.
Takes(e, u) ==
  /\ waiters' = [waiters EXCEPT ![e] = Unlinked(@, u)]
  /\ TryWake({u}, "EVENT")

\* wait_queue_wake_one() takes a waiter with the key if there is one.
LEMMA WakeOneTakes ==
  ASSUME ParkType, NEW e \in EPs, NEW k, WakeOne(e, k)
  PROVE  \/ Waiting(e, k) = {} /\ UNCHANGED <<waiters, token, reason>>
         \/ \E u \in Threads : OnList(u, waiters[e]) /\ Key(u, e) = k /\ Takes(e, u)
<1> SUFFICES ASSUME Waiting(e, k) # {}
             PROVE  \E u \in Threads : /\ OnList(u, waiters[e]) /\ Key(u, e) = k
                                       /\ Takes(e, u)
  BY DEF WakeOne
<1>1. waiters[e] \in Seq(Threads) /\ Len(waiters[e]) \in Nat
  BY LenProperties DEF ParkType
<1>2. Waiting(e, k) \in SUBSET (1..Len(waiters[e]))
  BY DEF Waiting
<1>3. First(Waiting(e, k)) \in Waiting(e, k)
  BY <1>1, <1>2, FirstEntry
<1>4. Newest(e, k) \in Threads /\ OnList(Newest(e, k), waiters[e])
      /\ Key(Newest(e, k), e) = k
  <2> DEFINE i == First(Waiting(e, k))
  <2>1. i \in 1..Len(waiters[e]) /\ Key(waiters[e][i], e) = k
    BY <1>3 DEF Waiting
  <2>2. waiters[e][i] \in Threads
    BY <1>1, <2>1, ElementOfSeq
  <2> QED BY <2>1, <2>2 DEF Newest, OnList
<1>5. Takes(e, Newest(e, k))
  BY DEF WakeOne, Takes
<1> QED BY <1>4, <1>5

\* The entry is off the queue and its owner is woken; nobody else notices.
LEMMA TakesEffect ==
  ASSUME ParkType, NEW e \in EPs, NEW u \in Threads, Takes(e, u),
         \A f \in EPs : Distinct(waiters[f])
  PROVE  /\ ParkType'
         /\ \A f \in EPs : Distinct(waiters'[f])
         /\ \A f \in EPs : \A v : OnList(v, waiters'[f])
              <=> OnList(v, waiters[f]) /\ ~(f = e /\ v = u)
         /\ token[u] # "idle" => token'[u] = "woken"
         /\ \A v \in Threads : token'[v] # token[v] =>
              v = u /\ token'[v] = "woken" /\ reason'[v] = "EVENT"
         /\ \A v \in Threads : reason'[v] # reason[v] =>
              reason'[v] = "EVENT" /\ token'[v] = "woken"
<1>1. /\ Unlinked(waiters[e], u) \in Seq(Threads)
      /\ \A y : y # u => (OnList(y, Unlinked(waiters[e], u)) <=> OnList(y, waiters[e]))
      /\ Distinct(Unlinked(waiters[e], u)) /\ ~OnList(u, Unlinked(waiters[e], u))
  BY UnlinkEntry DEF ParkType
<1>2. /\ waiters' \in [EPs -> Seq(Threads)]
      /\ waiters'[e] = Unlinked(waiters[e], u)
      /\ \A f \in EPs : f # e => waiters'[f] = waiters[f]
  BY <1>1 DEF Takes, ParkType
<1>3. /\ \A f \in EPs : Distinct(waiters'[f])
      /\ \A f \in EPs : \A v : OnList(v, waiters'[f])
           <=> OnList(v, waiters[f]) /\ ~(f = e /\ v = u)
  BY <1>1, <1>2
<1>4. /\ token' = [v \in Threads |-> IF v \in Woken({u}) THEN "woken" ELSE token[v]]
      /\ reason' = [v \in Threads |-> IF v \in Woken({u}) THEN "EVENT" ELSE reason[v]]
      /\ \A v : v \in Woken({u}) <=> v = u /\ token[u] \in {"preparing", "parked"}
  BY DEF Takes, TryWake, Woken
<1>5. /\ token[u] # "idle" => token'[u] = "woken"
      /\ \A v \in Threads : token'[v] # token[v] =>
              v = u /\ token'[v] = "woken" /\ reason'[v] = "EVENT"
      /\ \A v \in Threads : reason'[v] # reason[v] =>
              reason'[v] = "EVENT" /\ token'[v] = "woken"
  BY <1>4 DEF ParkType
<1>6. ParkType'
  BY <1>2, <1>4 DEF ParkType
<1> QED BY <1>3, <1>5, <1>6

\* wait_queue_wake_all(): the queue is empty and everyone on it is woken.
LEMMA WakeAllEffect ==
  ASSUME ParkType, NEW e \in EPs, WakeAll(e), \A f \in EPs : Distinct(waiters[f])
  PROVE  /\ ParkType'
         /\ \A f \in EPs : Distinct(waiters'[f])
         /\ waiters' = [waiters EXCEPT ![e] = <<>>]
         /\ \A f \in EPs : \A v : OnList(v, waiters'[f])
              <=> OnList(v, waiters[f]) /\ f # e
         /\ \A v \in Threads : OnList(v, waiters[e]) /\ token[v] # "idle"
              => token'[v] = "woken"
         /\ \A v \in Threads : token'[v] # token[v] =>
              OnList(v, waiters[e]) /\ token'[v] = "woken" /\ reason'[v] = "EVENT"
         /\ \A v \in Threads : reason'[v] # reason[v] =>
              reason'[v] = "EVENT" /\ token'[v] = "woken"
<1>1. <<>> \in Seq(Threads) /\ Distinct(<<>>) /\ \A v : ~OnList(v, <<>>)
  BY EmptySeq DEF Distinct, OnList
<1>2. /\ waiters' = [waiters EXCEPT ![e] = <<>>]
      /\ waiters' \in [EPs -> Seq(Threads)]
      /\ waiters'[e] = <<>>
      /\ \A f \in EPs : f # e => waiters'[f] = waiters[f]
  BY <1>1 DEF WakeAll, ParkType
<1>3. /\ \A f \in EPs : Distinct(waiters'[f])
      /\ \A f \in EPs : \A v : OnList(v, waiters'[f])
           <=> OnList(v, waiters[f]) /\ f # e
  BY <1>1, <1>2
<1> DEFINE W == Woken({waiters[e][i] : i \in 1..Len(waiters[e])})
<1>4. /\ token' = [v \in Threads |-> IF v \in W THEN "woken" ELSE token[v]]
      /\ reason' = [v \in Threads |-> IF v \in W THEN "EVENT" ELSE reason[v]]
  BY DEF WakeAll, TryWake
<1>5. \A v : v \in W <=> OnList(v, waiters[e]) /\ token[v] \in {"preparing", "parked"}
  BY DEF Woken, OnList
<1> HIDE DEF W
<1>6. /\ \A v \in Threads : OnList(v, waiters[e]) /\ token[v] # "idle"
           => token'[v] = "woken"
      /\ \A v \in Threads : token'[v] # token[v] =>
              OnList(v, waiters[e]) /\ token'[v] = "woken" /\ reason'[v] = "EVENT"
      /\ \A v \in Threads : reason'[v] # reason[v] =>
              reason'[v] = "EVENT" /\ token'[v] = "woken"
  BY <1>4, <1>5 DEF ParkType
<1>7. ParkType'
  BY <1>2, <1>4 DEF ParkType
<1> QED BY <1>2, <1>3, <1>6, <1>7

\* wait_queue_unlink() of the thread's own entry.
LEMMA UnlinkEffect ==
  ASSUME waiters \in [EPs -> Seq(Threads)], NEW t \in Threads, Unlink(t),
         \A f \in EPs : Distinct(waiters[f])
  PROVE  /\ waiters' \in [EPs -> Seq(Threads)]
         /\ \A f \in EPs : Distinct(waiters'[f])
         /\ \A f \in EPs : \A v : OnList(v, waiters'[f])
              <=> OnList(v, waiters[f]) /\ v # t
<1>1. \A f \in EPs : waiters'[f] = Unlinked(waiters[f], t)
  BY DEF Unlink
<1>2. ASSUME NEW f \in EPs
      PROVE  /\ Unlinked(waiters[f], t) \in Seq(Threads)
             /\ \A y : y # t => (OnList(y, Unlinked(waiters[f], t)) <=> OnList(y, waiters[f]))
             /\ Distinct(Unlinked(waiters[f], t)) /\ ~OnList(t, Unlinked(waiters[f], t))
  BY UnlinkEntry
<1>3. waiters' \in [EPs -> Seq(Threads)]
  BY <1>2 DEF Unlink
<1> QED BY <1>1, <1>2, <1>3

\* wait_queue_link() of the thread's entry.
LEMMA LinkEffect ==
  ASSUME waiters \in [EPs -> Seq(Threads)], NEW e \in EPs, NEW t \in Threads,
         waiters' = [waiters EXCEPT ![e] = <<t>> \o @],
         \A f \in EPs : Distinct(waiters[f]), ~OnList(t, waiters[e])
  PROVE  /\ waiters' \in [EPs -> Seq(Threads)]
         /\ \A f \in EPs : Distinct(waiters'[f])
         /\ \A f \in EPs : \A v : OnList(v, waiters'[f])
              <=> OnList(v, waiters[f]) \/ (f = e /\ v = t)
<1>1. waiters'[e] = <<t>> \o waiters[e] /\ \A f \in EPs : f # e => waiters'[f] = waiters[f]
  OBVIOUS
<1>2. /\ <<t>> \o waiters[e] \in Seq(Threads)
      /\ \A y : OnList(y, <<t>> \o waiters[e]) <=> y = t \/ OnList(y, waiters[e])
      /\ Distinct(<<t>> \o waiters[e])
  BY LinkHead
<1>3. waiters' \in [EPs -> Seq(Threads)]
  BY <1>2
<1>4. \A f \in EPs : Distinct(waiters'[f])
  BY <1>1, <1>2
<1>5. ASSUME NEW f \in EPs, NEW v
      PROVE  OnList(v, waiters'[f]) <=> OnList(v, waiters[f]) \/ (f = e /\ v = t)
  <2>1. CASE f = e
    BY <1>1, <1>2, <2>1
  <2>2. CASE f # e
    BY <1>1, <2>2
  <2> QED BY <2>1, <2>2
<1> QED BY <1>3, <1>4, <1>5

-----------------------------------------------------------------------------
(* The calls.                                                              *)

\* The steps, one by one.
LEMMA StepCases ==
  ASSUME NEW t \in Threads, Step(t), NEW G,
         SendBegin(t) => G, TryEnqueue(t) => G, EnqueueReturn(t) => G,
         SendPark(t) => G, SendLink(t) => G, SendRetry(t) => G,
         ParkCommit(t) => G, SendWoken(t) => G, RecvBegin(t) => G,
         RecvCheck(t) => G, RecvPark(t) => G, RecvLink(t) => G, Peek(t) => G,
         Handoff(t) => G, DeferredWake(t) => G, RecvWoken(t) => G,
         Return(t) => G, Signal(t) => G, HandleClose(t) => G,
         PeerShutdown(t) => G, Teardown(t) => G
  PROVE  G
BY DEF Step

Locals(u) == <<pc[u], msg[u], ptr[u], target[u], donate[u], rel[u]>>

\* A step of one thread leaves the others' calls where they are.
LEMMA OthersStay ==
  ASSUME CallType, NEW t \in Threads, Step(t), NEW u \in Threads, u # t
  PROVE  /\ pc'[u] = pc[u] /\ msg'[u] = msg[u] /\ ptr'[u] = ptr[u]
         /\ target'[u] = target[u] /\ donate'[u] = donate[u] /\ rel'[u] = rel[u]
<1> USE DEF CallType, Goto, Release, MsgFree
<1>1. ASSUME SendBegin(t) \/ TryEnqueue(t) \/ EnqueueReturn(t) \/ SendPark(t)
      PROVE  Locals(u)' = Locals(u)
  BY <1>1 DEF SendBegin, TryEnqueue, EnqueueReturn, SendPark, Locals
<1>2. ASSUME SendLink(t) \/ SendRetry(t) \/ ParkCommit(t) \/ SendWoken(t) \/ RecvBegin(t)
      PROVE  Locals(u)' = Locals(u)
  BY <1>2 DEF SendLink, SendRetry, ParkCommit, SendWoken, RecvBegin, Locals
<1>3. ASSUME RecvCheck(t) \/ RecvPark(t) \/ RecvLink(t) \/ Peek(t) \/ Handoff(t)
      PROVE  Locals(u)' = Locals(u)
  BY <1>3 DEF RecvCheck, RecvPark, RecvLink, Peek, Handoff, Locals
<1>4. ASSUME DeferredWake(t) \/ RecvWoken(t) \/ Return(t) \/ Signal(t)
      PROVE  Locals(u)' = Locals(u)
  BY <1>4 DEF DeferredWake, RecvWoken, Return, Signal, Locals
<1>5. ASSUME HandleClose(t) \/ PeerShutdown(t) \/ Teardown(t)
      PROVE  Locals(u)' = Locals(u)
  BY <1>5 DEF HandleClose, PeerShutdown, Teardown, Locals
<1>6. Locals(u)' = Locals(u)
  BY <1>1, <1>2, <1>3, <1>4, <1>5 DEF Step
<1> QED BY <1>6 DEF Locals

\* A peer that is found is the other end.
LEMMA PeerIsOther ==
  ASSUME Pair, NEW e \in EPs
  PROVE  /\ peer[e] # None => peer[e] = Other(e)
         /\ PeerOf(e) # None => /\ PeerOf(e) = Other(e) /\ peer[e] = Other(e)
                                /\ refcount[Other(e)] > 0
         /\ Other(e) \in EPs /\ Other(e) # e /\ Other(Other(e)) = e
BY DEF Pair, PeerOf, Other, EPs

\* Every step keeps what a call holds in line with where it is.
LEMMA CallStep ==
  ASSUME CInv, NEW t \in Threads, Step(t)
  PROVE  CallType' /\ CallShape'
<1> USE ChannelAssumption
<1>0. /\ ParkType /\ CallType /\ EndType /\ Pair /\ CallOf(t)
      /\ End[t] \in EPs /\ Other(End[t]) \in EPs
  BY DEF CInv, CallShape, Other, EPs
<1>1. ASSUME CallType', CallOf(t)' PROVE CallShape'
  <2> SUFFICES ASSUME NEW u \in Threads PROVE CallOf(u)'
    BY DEF CallShape
  <2>1. CASE u = t
    BY <1>1, <2>1
  <2>2. CASE u # t
    <3>1. CallOf(u)
      BY DEF CInv, CallShape
    <3>2. /\ pc'[u] = pc[u] /\ msg'[u] = msg[u] /\ ptr'[u] = ptr[u]
          /\ target'[u] = target[u] /\ donate'[u] = donate[u]
      BY <1>0, <2>2, OthersStay
    <3> QED BY <3>1, <3>2 DEF CallOf
  <2> QED BY <2>1, <2>2
<1>2. CallType' /\ CallOf(t)'
  <2> USE <1>0 DEF CallType, Goto, At, Release, MsgFree, CallOf, PCs, Sending, Holding
  <2>1. CASE SendBegin(t)
    BY <2>1 DEF SendBegin, parkVars
  <2>2. CASE TryEnqueue(t)
    <3>1. PeerOf(End[t]) # None => PeerOf(End[t]) = Other(End[t])
      BY PeerIsOther
    <3>2. /\ pc[t] = "send"
          /\ UNCHANGED <<sig, target, donate, rel>>
          /\ \/ /\ msg' = [msg EXCEPT ![t] = None] /\ UNCHANGED ptr
                /\ pc' = [pc EXCEPT ![t] = "out"]
             \/ /\ ptr' = [ptr EXCEPT ![t] = Other(End[t])] /\ UNCHANGED msg
                /\ \/ pc' = [pc EXCEPT ![t] = "enqueue_dead"]
                   \/ pc' = [pc EXCEPT ![t] = "enqueue_full"]
             \/ /\ ptr' = [ptr EXCEPT ![t] = Other(End[t])]
                /\ msg' = [msg EXCEPT ![t] = None]
                /\ pc' = [pc EXCEPT ![t] = "enqueued"]
      BY <2>2, <3>1 DEF TryEnqueue
    <3> QED BY <3>2
  <2>3. CASE EnqueueReturn(t)
    <3>1. /\ ptr' = [ptr EXCEPT ![t] = None]
          /\ UNCHANGED <<sig, target>>
          /\ rel' = [rel EXCEPT ![t] = IF refcount[ptr[t]] = 1 THEN ptr[t] ELSE None]
          /\ \/ /\ pc[t] = "enqueued" /\ t \in Callers /\ UNCHANGED msg
                /\ donate' = [donate EXCEPT ![t] = "first"]
                /\ pc' = [pc EXCEPT ![t] = "recv"]
             \/ /\ pc[t] = "enqueued" /\ t \notin Callers
                /\ UNCHANGED msg /\ donate' = [donate EXCEPT ![t] = @]
                /\ pc' = [pc EXCEPT ![t] = "out"]
             \/ /\ pc[t] = "enqueue_full" /\ t \notin NonBlocking /\ UNCHANGED msg
                /\ donate' = [donate EXCEPT ![t] = @]
                /\ pc' = [pc EXCEPT ![t] = "send_park"]
             \/ /\ FreesMsg(t)
                /\ msg' = [msg EXCEPT ![t] = None]
                /\ donate' = [donate EXCEPT ![t] = @]
                /\ pc' = [pc EXCEPT ![t] = "out"]
      BY <2>3 DEF EnqueueReturn, FreesMsg, parkVars
    <3>2. ptr[t] \in EPs
      BY <2>3 DEF EnqueueReturn
    <3> QED BY <3>1, <3>2 DEF FreesMsg
  <2>4. CASE SendPark(t)
    BY <2>4 DEF SendPark
  <2>5. CASE SendLink(t)
    <3>1. PeerOf(End[t]) # None => PeerOf(End[t]) = Other(End[t])
      BY PeerIsOther
    <3> QED BY <2>5, <3>1 DEF SendLink
  <2>6. CASE SendRetry(t)
    BY <2>6 DEF SendRetry
  <2>7. CASE ParkCommit(t)
    BY <2>7 DEF ParkCommit
  <2>8. CASE SendWoken(t)
    BY <2>8 DEF SendWoken
  <2>9. CASE RecvBegin(t)
    BY <2>9 DEF RecvBegin, parkVars
  <2>10. CASE RecvCheck(t)
    <3>1. /\ pc[t] = "recv" /\ UNCHANGED <<sig, msg, ptr, target, donate, rel>>
          /\ \E p \in {"out", "out_short", "recv_park"} : pc' = [pc EXCEPT ![t] = p]
      BY <2>10 DEF RecvCheck
    <3> QED BY <3>1
  <2>11. CASE RecvPark(t)
    BY <2>11 DEF RecvPark
  <2>12. CASE RecvLink(t)
    <3>1. /\ pc[t] = "recv_link" /\ UNCHANGED <<sig, msg, ptr, target, donate, rel>>
          /\ \/ pc' = [pc EXCEPT ![t] = "recv"]
             \/ donate[t] = "no" /\ pc' = [pc EXCEPT ![t] = "recv_sleep"]
             \/ donate[t] # "no" /\ pc' = [pc EXCEPT ![t] = "peek"]
      BY <2>12 DEF RecvLink
    <3> QED BY <3>1
  <2>13. CASE Peek(t)
    <3> DEFINE p == peer[End[t]]
    <3>1. /\ pc[t] = "peek" /\ UNCHANGED <<sig, msg, ptr, rel>>
          /\ donate' = [donate EXCEPT ![t] = "later"]
          /\ \/ /\ p # None /\ Waiting(p, "RECV") # {}
                /\ target' = [target EXCEPT ![t] = Newest(p, "RECV")]
                /\ pc' = [pc EXCEPT ![t] = "handoff"]
             \/ /\ target' = [target EXCEPT ![t] = None]
                /\ pc' = [pc EXCEPT ![t] = "deferred"]
      BY <2>13 DEF Peek, parkVars
    <3>2. ASSUME p # None, Waiting(p, "RECV") # {}
          PROVE  Newest(p, "RECV") \in Threads /\ End[Newest(p, "RECV")] # End[t]
      <4>1. p \in EPs /\ p # End[t]
        BY <3>2, PeerIsOther
      <4> HIDE DEF p
      <4>2. waiters[p] \in Seq(Threads) /\ Len(waiters[p]) \in Nat
        BY <4>1, LenProperties DEF ParkType
      <4>3. Waiting(p, "RECV") \in SUBSET (1..Len(waiters[p]))
        BY DEF Waiting
      <4>4. First(Waiting(p, "RECV")) \in Waiting(p, "RECV")
        BY <3>2, <4>2, <4>3, FirstEntry
      <4>5. Newest(p, "RECV") \in Threads /\ Key(Newest(p, "RECV"), p) = "RECV"
        <5> DEFINE i == First(Waiting(p, "RECV"))
        <5>1. i \in 1..Len(waiters[p]) /\ Key(waiters[p][i], p) = "RECV"
          BY <4>4 DEF Waiting
        <5>2. waiters[p][i] \in Threads
          BY <4>2, <5>1, ElementOfSeq
        <5> QED BY <5>1, <5>2 DEF Newest
      <4> QED BY <4>1, <4>5 DEF Key
    <3> HIDE DEF p
    <3> QED BY <3>1, <3>2
  <2>14. CASE Handoff(t)
    BY <2>14 DEF Handoff
  <2>15. CASE DeferredWake(t)
    BY <2>15 DEF DeferredWake
  <2>16. CASE RecvWoken(t)
    BY <2>16 DEF RecvWoken
  <2>17. CASE Return(t)
    BY <2>17 DEF Return
  <2>18. CASE Signal(t)
    BY <2>18 DEF Signal
  <2>19. CASE HandleClose(t)
    BY <2>19 DEF HandleClose, parkVars
  <2>20. CASE PeerShutdown(t)
    BY <2>20 DEF PeerShutdown
  <2>21. CASE Teardown(t)
    BY <2>21 DEF Teardown
  <2> HIDE DEF CallType, CallOf
  <2> QED BY <2>1, <2>2, <2>3, <2>4, <2>5, <2>6, <2>7, <2>8, <2>9, <2>10, <2>11,
             <2>12, <2>13, <2>14, <2>15, <2>16, <2>17, <2>18, <2>19, <2>20, <2>21
          DEF Step
<1> QED BY <1>1, <1>2

-----------------------------------------------------------------------------
(* The wait queues and the tokens.                                         *)

\* The thread's call stays in the same wait, or stays out of all of them.
Settled(t) ==
  \/ pc'[t] = pc[t]
  \/ pc[t] \in RecvWait /\ pc'[t] \in RecvWait
  \/ pc[t] \notin Tokened /\ pc'[t] \notin Tokened

\* A wait survives a step that takes no entry without waking its owner.
LEMMA WaitKept ==
  ASSUME CInv, NEW t \in Threads, Step(t), NEW u \in Threads, u = t => Settled(t),
         \A e \in EPs : OnList(u, waiters'[e]) => OnList(u, waiters[e]),
         \A e \in EPs : OnList(u, waiters[e]) =>
                          OnList(u, waiters'[e]) \/ token'[u] = "woken",
         token[u] # "idle" => token'[u] # "idle",
         token[u] = "woken" => token'[u] = "woken",
         token'[u] = "woken" => reason'[u] # "none",
         u \notin Signalled => ~sig'[u] /\ reason'[u] # "SIGNAL"
  PROVE  LinkedOf(u)' /\ TokenOf(u)'
<1>1. /\ pc'[u] = pc[u] \/ (pc[u] \in RecvWait /\ pc'[u] \in RecvWait)
           \/ (pc[u] \notin Tokened /\ pc'[u] \notin Tokened)
  <2>1. CASE u = t
    BY <2>1 DEF Settled
  <2>2. CASE u # t
    BY <2>2, OthersStay DEF CInv
  <2> QED BY <2>1, <2>2
<1>2. LinkedOf(u) /\ TokenOf(u)
  BY DEF CInv, Linked, Tokens
<1>3. LinkedOf(u)'
  BY <1>1, <1>2 DEF LinkedOf, Tokened, Asleep, RecvWait
<1>4. End[u] \in EPs /\ Other(End[u]) \in EPs
  BY ChannelAssumption DEF Other, EPs
<1>5. WaitsOn(u)' \in EPs /\ (pc'[u] \in Asleep => pc[u] \in Asleep /\ WaitsOn(u)' = WaitsOn(u))
  BY <1>1, <1>4 DEF WaitsOn, Asleep, Tokened, RecvWait
<1>6. pc'[u] \in Tokened => token'[u] # "idle"
  BY <1>1, <1>2 DEF TokenOf, Tokened, Asleep, RecvWait
<1>7. ASSUME pc'[u] \in Asleep
      PROVE  OnList(u, waiters'[WaitsOn(u)']) \/ token'[u] = "woken"
  <2>1. OnList(u, waiters[WaitsOn(u)]) \/ token[u] = "woken"
    BY <1>2, <1>5, <1>7 DEF TokenOf
  <2> QED BY <1>5, <1>7, <2>1
<1>8. TokenOf(u)'
  BY <1>6, <1>7 DEF TokenOf
<1> QED BY <1>3, <1>8

\* A step that wakes nobody and does not end or begin a wait.
LEMMA Undisturbed ==
  ASSUME CInv, NEW t \in Threads, Step(t), Settled(t),
         UNCHANGED <<waiters, token, reason>>, \A u \in Threads : sig'[u] => sig[u]
  PROVE  ParkType' /\ Linked' /\ Tokens'
<1>1. ParkType'
  BY DEF CInv, ParkType
<1>2. ASSUME NEW u \in Threads PROVE LinkedOf(u)' /\ TokenOf(u)'
  <2>1. TokenOf(u)
    BY DEF CInv, Tokens
  <2>2. /\ token'[u] = "woken" => reason'[u] # "none"
        /\ u \notin Signalled => ~sig'[u] /\ reason'[u] # "SIGNAL"
    BY <2>1 DEF TokenOf
  <2> QED BY <2>2, WaitKept
<1>3. \A e \in EPs : Distinct(waiters'[e])
  BY DEF CInv, Linked
<1> QED BY <1>1, <1>2, <1>3 DEF Linked, Tokens

\* An event wakes owners of entries that it takes off the queues.
LEMMA EventWakes ==
  ASSUME CInv, NEW t \in Threads, Step(t), Settled(t), UNCHANGED sig,
         ParkType', \A e \in EPs : Distinct(waiters'[e]),
         \A e \in EPs : \A u \in Threads :
           OnList(u, waiters'[e]) => OnList(u, waiters[e]),
         \A e \in EPs : \A u \in Threads : OnList(u, waiters[e]) /\ token[u] # "idle" =>
           OnList(u, waiters'[e]) \/ token'[u] = "woken",
         \A u \in Threads : token'[u] # token[u] =>
           token'[u] = "woken" /\ reason'[u] = "EVENT",
         \A u \in Threads : reason'[u] # reason[u] =>
           reason'[u] = "EVENT" /\ token'[u] = "woken"
  PROVE  Linked' /\ Tokens'
<1>1. ASSUME NEW u \in Threads PROVE LinkedOf(u)' /\ TokenOf(u)'
  <2>1. TokenOf(u) /\ LinkedOf(u)
    BY DEF CInv, Tokens, Linked
  <2>2. /\ token'[u] = "woken" => reason'[u] # "none"
        /\ u \notin Signalled => ~sig'[u] /\ reason'[u] # "SIGNAL"
        /\ token[u] # "idle" => token'[u] # "idle"
        /\ token[u] = "woken" => token'[u] = "woken"
    BY <2>1 DEF TokenOf
  <2>3. ASSUME NEW e \in EPs, OnList(u, waiters[e])
        PROVE  OnList(u, waiters'[e]) \/ token'[u] = "woken"
    <3>1. pc[u] \in Tokened
      BY <2>1, <2>3 DEF LinkedOf, Tokened, Asleep
    <3> QED BY <2>1, <2>3, <3>1 DEF TokenOf
  <2> QED BY <2>2, <2>3, WaitKept
<1> QED BY <1>1 DEF Linked, Tokens

\* wait_queue_wake_one() in a step that does not end or begin a wait.
LEMMA WakesOne ==
  ASSUME CInv, NEW t \in Threads, Step(t), Settled(t), UNCHANGED sig,
         NEW e \in EPs, NEW k, WakeOne(e, k)
  PROVE  ParkType' /\ Linked' /\ Tokens'
<1>1. ParkType /\ \A f \in EPs : Distinct(waiters[f])
  BY DEF CInv, Linked
<1>2. CASE UNCHANGED <<waiters, token, reason>>
  BY <1>2, Undisturbed
<1>3. CASE \E u \in Threads : OnList(u, waiters[e]) /\ Takes(e, u)
  <2> PICK u \in Threads : OnList(u, waiters[e]) /\ Takes(e, u)
    BY <1>3
  <2>1. /\ ParkType'
        /\ \A f \in EPs : Distinct(waiters'[f])
        /\ \A f \in EPs : \A v : OnList(v, waiters'[f])
             <=> OnList(v, waiters[f]) /\ ~(f = e /\ v = u)
        /\ token[u] # "idle" => token'[u] = "woken"
        /\ \A v \in Threads : token'[v] # token[v] =>
             v = u /\ token'[v] = "woken" /\ reason'[v] = "EVENT"
        /\ \A v \in Threads : reason'[v] # reason[v] =>
             reason'[v] = "EVENT" /\ token'[v] = "woken"
    BY <1>1, TakesEffect
  <2> QED BY <2>1, EventWakes
<1> QED BY <1>1, <1>2, <1>3, WakeOneTakes

\* wait_queue_wake_all() in a step that does not end or begin a wait.
LEMMA WakesAll ==
  ASSUME CInv, NEW t \in Threads, Step(t), Settled(t), UNCHANGED sig,
         NEW e \in EPs, WakeAll(e)
  PROVE  ParkType' /\ Linked' /\ Tokens'
<1>1. ParkType /\ \A f \in EPs : Distinct(waiters[f])
  BY DEF CInv, Linked
<1>2. /\ ParkType'
      /\ \A f \in EPs : Distinct(waiters'[f])
      /\ \A f \in EPs : \A v : OnList(v, waiters'[f])
           <=> OnList(v, waiters[f]) /\ f # e
      /\ \A v \in Threads : OnList(v, waiters[e]) /\ token[v] # "idle"
           => token'[v] = "woken"
      /\ \A v \in Threads : token'[v] # token[v] =>
           OnList(v, waiters[e]) /\ token'[v] = "woken" /\ reason'[v] = "EVENT"
      /\ \A v \in Threads : reason'[v] # reason[v] =>
           reason'[v] = "EVENT" /\ token'[v] = "woken"
  BY <1>1, WakeAllEffect
<1> QED BY <1>2, EventWakes

\* A step that changes the stepping thread's token, and leaves its wait or has
\* not begun it.
LEMMA OwnToken ==
  ASSUME CInv, NEW t \in Threads, Step(t), pc'[t] \notin Asleep,
         ParkType', \A e \in EPs : Distinct(waiters'[e]),
         \A e \in EPs : \A u \in Threads :
           OnList(u, waiters'[e]) <=> OnList(u, waiters[e]) /\ u # t,
         \A u \in Threads \ {t} :
           token'[u] = token[u] /\ reason'[u] = reason[u] /\ sig'[u] = sig[u],
         token'[t] = "idle" => pc'[t] \notin Tokened,
         token'[t] = "woken" => reason'[t] # "none",
         t \notin Signalled => ~sig'[t] /\ reason'[t] # "SIGNAL"
  PROVE  Linked' /\ Tokens'
<1>1. ASSUME NEW u \in Threads, u # t PROVE LinkedOf(u)' /\ TokenOf(u)'
  <2>1. TokenOf(u)
    BY DEF CInv, Tokens
  <2>2. /\ token'[u] = token[u] /\ reason'[u] = reason[u] /\ sig'[u] = sig[u]
        /\ token'[u] = "woken" => reason'[u] # "none"
        /\ u \notin Signalled => ~sig'[u] /\ reason'[u] # "SIGNAL"
    BY <1>1, <2>1 DEF TokenOf
  <2> QED BY <1>1, <2>2, WaitKept
<1>2. LinkedOf(t)' /\ TokenOf(t)'
  BY DEF LinkedOf, TokenOf
<1> QED BY <1>1, <1>2 DEF Linked, Tokens

\* A step that links the stepping thread's entry.
LEMMA OwnEntry ==
  ASSUME CInv, NEW t \in Threads, Step(t), NEW e \in EPs,
         pc[t] \in {"send_link", "recv_link"},
         waiters' = [waiters EXCEPT ![e] = <<t>> \o @],
         UNCHANGED <<token, reason, sig>>,
         \/ e = End[t] /\ pc'[t] \in RecvWait
         \/ e = Other(End[t]) /\ pc'[t] = "send_sleep"
  PROVE  ParkType' /\ Linked' /\ Tokens'
<1>1. ParkType /\ (\A f \in EPs : Distinct(waiters[f])) /\ LinkedOf(t) /\ TokenOf(t)
  BY DEF CInv, Linked, Tokens
<1>2. \A f \in EPs : ~OnList(t, waiters[f])
  BY <1>1 DEF LinkedOf, RecvWait
<1>3. /\ waiters' \in [EPs -> Seq(Threads)]
      /\ \A f \in EPs : Distinct(waiters'[f])
      /\ \A f \in EPs : \A v : OnList(v, waiters'[f])
           <=> OnList(v, waiters[f]) \/ (f = e /\ v = t)
  BY <1>1, <1>2, LinkEffect DEF ParkType
<1>4. ASSUME NEW u \in Threads, u # t PROVE LinkedOf(u)' /\ TokenOf(u)'
  <2>1. TokenOf(u)
    BY DEF CInv, Tokens
  <2>2. /\ token'[u] = "woken" => reason'[u] # "none"
        /\ u \notin Signalled => ~sig'[u] /\ reason'[u] # "SIGNAL"
    BY <2>1 DEF TokenOf
  <2> QED BY <1>3, <1>4, <2>2, WaitKept
<1>5. LinkedOf(t)' /\ TokenOf(t)'
  <2>1. End[t] \in EPs /\ Other(End[t]) # End[t]
    BY ChannelAssumption DEF Other, EPs
  <2>2. LinkedOf(t)'
    BY <1>2, <1>3, <2>1 DEF LinkedOf
  <2>3. OnList(t, waiters'[WaitsOn(t)'])
    BY <1>3 DEF WaitsOn, RecvWait
  <2> QED BY <1>1, <2>2, <2>3 DEF TokenOf, Tokened
<1> QED BY <1>1, <1>3, <1>4, <1>5 DEF Linked, Tokens, ParkType

\* Every step keeps entries with sleepers and sleepers with entries or wakes.
LEMMA QueueStep ==
  ASSUME CInv, NEW t \in Threads, Step(t)
  PROVE  ParkType' /\ Linked' /\ Tokens'
<1> USE ChannelAssumption
<1>0. /\ ParkType /\ CallType /\ EndType /\ Pair /\ CallOf(t) /\ LinkedOf(t)
      /\ TokenOf(t) /\ End[t] \in EPs /\ Other(End[t]) \in EPs
      /\ \A f \in EPs : Distinct(waiters[f])
  BY DEF CInv, CallShape, Linked, Tokens, Other, EPs
<1>1. pc[t] \notin Asleep => \A e \in EPs : ~OnList(t, waiters[e])
  BY <1>0 DEF LinkedOf, Asleep
<1>2. ASSUME pc'[t] \notin Asleep, UNCHANGED sig,
             \/ Unlink(t)
             \/ UNCHANGED waiters /\ pc[t] \notin Asleep,
             \/ ParkFinish(t) /\ pc'[t] \notin Tokened
             \/ ParkPrepare(t)
      PROVE  ParkType' /\ Linked' /\ Tokens'
  <2>1. /\ waiters' \in [EPs -> Seq(Threads)]
        /\ \A e \in EPs : Distinct(waiters'[e])
        /\ \A e \in EPs : \A u \in Threads :
             OnList(u, waiters'[e]) <=> OnList(u, waiters[e]) /\ u # t
    <3>1. CASE Unlink(t)
      BY <1>0, <3>1, UnlinkEffect DEF ParkType
    <3>2. CASE UNCHANGED waiters /\ pc[t] \notin Asleep
      BY <1>0, <1>1, <3>2 DEF ParkType
    <3> QED BY <1>2, <3>1, <3>2
  <2>2. /\ \A u \in Threads \ {t} : token'[u] = token[u] /\ reason'[u] = reason[u]
        /\ token' \in [Threads -> {"idle", "preparing", "parked", "woken"}]
        /\ reason' \in [Threads -> {"none", "EVENT", "SIGNAL"}]
        /\ token'[t] = "idle" => pc'[t] \notin Tokened
        /\ token'[t] = "woken" => reason'[t] # "none"
        /\ t \notin Signalled => ~sig'[t] /\ reason'[t] # "SIGNAL"
    <3>1. CASE ParkFinish(t) /\ pc'[t] \notin Tokened
      BY <1>0, <1>2, <3>1 DEF ParkFinish, ParkType, TokenOf
    <3>2. CASE ParkPrepare(t)
      BY <1>0, <1>2, <3>2 DEF ParkPrepare, ParkType, TokenOf, CallType
    <3> QED BY <1>2, <3>1, <3>2
  <2>3. ParkType'
    BY <2>1, <2>2 DEF ParkType
  <2> QED BY <1>2, <2>1, <2>2, <2>3, OwnToken
<1>3. ASSUME pc[t] \notin Tokened, pc'[t] \notin Tokened PROVE Settled(t)
  BY <1>3 DEF Settled
<1>4. ASSUME pc[t] \in RecvWait, pc'[t] \in RecvWait PROVE Settled(t)
  BY <1>4 DEF Settled
<1> USE DEF Goto, At
<1>5. CASE SendBegin(t) \/ EnqueueReturn(t) \/ RecvBegin(t) \/ Peek(t) \/ Return(t)
           \/ HandleClose(t)
  <2>1. /\ UNCHANGED <<waiters, token, reason>>
        /\ \A u \in Threads : sig'[u] => sig[u]
    BY <1>0, <1>5 DEF SendBegin, EnqueueReturn, RecvBegin, Peek, Return, HandleClose,
              epVars, parkVars, CallType
  <2>2. Settled(t)
    <3>1. CASE SendBegin(t) \/ RecvBegin(t)
      BY <1>0, <3>1 DEF Settled, SendBegin, RecvBegin, Tokened, Asleep, RecvWait, CallType
    <3>2. CASE EnqueueReturn(t)
      BY <1>0, <3>2 DEF Settled, EnqueueReturn, Tokened, Asleep, RecvWait, CallType
    <3>3. CASE Peek(t)
      BY <1>0, <3>3 DEF Settled, Peek, RecvWait, CallType
    <3>4. CASE Return(t) \/ HandleClose(t)
      BY <1>0, <3>4 DEF Settled, Return, HandleClose, Tokened, Asleep, RecvWait, CallType
    <3> QED BY <1>5, <3>1, <3>2, <3>3, <3>4
  <2> QED BY <2>1, <2>2, Undisturbed
<1>6. CASE TryEnqueue(t)
  <2>1. /\ pc[t] = "send" /\ UNCHANGED sig
        /\ \E p \in {"out", "enqueue_dead", "enqueue_full", "enqueued"} :
             pc' = [pc EXCEPT ![t] = p]
        /\ \/ UNCHANGED <<waiters, token, reason>>
           \/ PeerOf(End[t]) # None /\ WakeOne(PeerOf(End[t]), "RECV")
    BY <1>6 DEF TryEnqueue
  <2>2. Settled(t)
    BY <1>0, <2>1 DEF Settled, Tokened, Asleep, RecvWait, CallType
  <2>3. CASE UNCHANGED <<waiters, token, reason>>
    BY <2>1, <2>2, <2>3, Undisturbed
  <2>4. CASE PeerOf(End[t]) # None /\ WakeOne(PeerOf(End[t]), "RECV")
    <3>1. PeerOf(End[t]) \in EPs
      BY <1>0, <2>4, PeerIsOther
    <3> QED BY <2>1, <2>2, <2>4, <3>1, WakesOne
  <2> QED BY <2>1, <2>3, <2>4
<1>7. CASE SendPark(t) \/ RecvPark(t)
  <2>1. /\ pc'[t] \notin Asleep /\ pc[t] \notin Asleep
        /\ UNCHANGED <<waiters, sig>> /\ ParkPrepare(t)
    BY <1>0, <1>7 DEF SendPark, RecvPark, Asleep, RecvWait, CallType, epVars
  <2> QED BY <1>2, <2>1
<1>8. CASE SendLink(t)
  <2> DEFINE p == PeerOf(End[t])
  <2>1. p # None => p = Other(End[t]) /\ p \in EPs
    BY <1>0, PeerIsOther
  <2>2. /\ pc[t] = "send_link" /\ UNCHANGED sig
        /\ \/ /\ ParkFinish(t) /\ pc' = [pc EXCEPT ![t] = "out"] /\ UNCHANGED waiters
           \/ /\ p # None /\ UNCHANGED <<token, reason>>
              /\ waiters' = [waiters EXCEPT ![p] = <<t>> \o @]
              /\ pc' = [pc EXCEPT ![t] = "send_sleep"]
           \/ /\ UNCHANGED <<waiters, token, reason>>
              /\ pc' = [pc EXCEPT ![t] = "send_retry"]
    BY <1>8 DEF SendLink
  <2> HIDE DEF p
  <2>3. CASE ParkFinish(t) /\ pc' = [pc EXCEPT ![t] = "out"] /\ UNCHANGED waiters
    <3>1. pc'[t] \notin Asleep /\ pc'[t] \notin Tokened /\ pc[t] \notin Asleep
      BY <1>0, <2>2, <2>3 DEF CallType, Tokened, Asleep, RecvWait
    <3> QED BY <1>2, <2>2, <2>3, <3>1
  <2>4. CASE /\ p # None /\ UNCHANGED <<token, reason>>
             /\ waiters' = [waiters EXCEPT ![p] = <<t>> \o @]
             /\ pc' = [pc EXCEPT ![t] = "send_sleep"]
    <3>1. pc'[t] = "send_sleep"
      BY <1>0, <2>4 DEF CallType
    <3> QED BY <2>1, <2>2, <2>4, <3>1, OwnEntry
  <2>5. CASE UNCHANGED <<waiters, token, reason>> /\ pc' = [pc EXCEPT ![t] = "send_retry"]
    <3>1. pc'[t] = "send_retry"
      BY <1>0, <2>5 DEF CallType
    <3>2. ASSUME NEW u \in Threads, u # t PROVE LinkedOf(u)' /\ TokenOf(u)'
      <4>1. TokenOf(u)
        BY DEF CInv, Tokens
      <4>2. /\ token'[u] = "woken" => reason'[u] # "none"
            /\ u \notin Signalled => ~sig'[u] /\ reason'[u] # "SIGNAL"
        BY <2>2, <2>5, <4>1 DEF TokenOf
      <4> QED BY <2>5, <3>2, <4>2, WaitKept
    <3>3. LinkedOf(t)' /\ TokenOf(t)'
      <4>1. \A e \in EPs : ~OnList(t, waiters'[e])
        BY <1>1, <2>2, <2>5 DEF Asleep, RecvWait
      <4> QED BY <1>0, <2>2, <2>5, <3>1, <4>1
              DEF LinkedOf, TokenOf, Tokened, Asleep, RecvWait
    <3> QED BY <1>0, <2>5, <3>2, <3>3 DEF Linked, Tokens, ParkType
  <2> QED BY <2>2, <2>3, <2>4, <2>5
<1>9. CASE SendRetry(t) \/ SendWoken(t) \/ RecvWoken(t)
  <2>1. /\ UNCHANGED sig /\ ParkFinish(t)
        /\ Unlink(t) \/ (UNCHANGED waiters /\ pc[t] \notin Asleep)
        /\ pc'[t] \in {"send", "out", "recv"}
    BY <1>0, <1>9 DEF SendRetry, SendWoken, RecvWoken, CallType, Asleep, RecvWait
  <2> QED BY <1>2, <2>1 DEF Asleep, RecvWait, Tokened
<1>10. CASE RecvCheck(t)
  <2>1. /\ pc[t] = "recv" /\ UNCHANGED sig
        /\ \E p \in {"out", "out_short", "recv_park"} : pc' = [pc EXCEPT ![t] = p]
        /\ \/ UNCHANGED <<waiters, token, reason>>
           \/ WakeOne(End[t], "SEND")
    BY <1>10 DEF RecvCheck
  <2>2. Settled(t)
    BY <1>0, <2>1 DEF Settled, Tokened, Asleep, RecvWait, CallType
  <2>3. CASE UNCHANGED <<waiters, token, reason>>
    BY <2>1, <2>2, <2>3, Undisturbed
  <2>4. CASE WakeOne(End[t], "SEND")
    BY <1>0, <2>1, <2>2, <2>4, WakesOne
  <2> QED BY <2>1, <2>3, <2>4
<1>11. CASE RecvLink(t)
  <2>1. /\ pc[t] = "recv_link" /\ UNCHANGED sig
        /\ \/ /\ ParkFinish(t) /\ pc' = [pc EXCEPT ![t] = "recv"] /\ UNCHANGED waiters
           \/ /\ UNCHANGED <<token, reason>>
              /\ waiters' = [waiters EXCEPT ![End[t]] = <<t>> \o @]
              /\ \/ pc' = [pc EXCEPT ![t] = "recv_sleep"]
                 \/ pc' = [pc EXCEPT ![t] = "peek"]
    BY <1>11 DEF RecvLink
  <2>2. CASE ParkFinish(t) /\ pc' = [pc EXCEPT ![t] = "recv"] /\ UNCHANGED waiters
    <3>1. pc'[t] \notin Asleep /\ pc'[t] \notin Tokened /\ pc[t] \notin Asleep
      BY <1>0, <2>1, <2>2 DEF CallType, Tokened, Asleep, RecvWait
    <3> QED BY <1>2, <2>1, <2>2, <3>1
  <2>3. CASE /\ UNCHANGED <<token, reason>>
             /\ waiters' = [waiters EXCEPT ![End[t]] = <<t>> \o @]
             /\ \/ pc' = [pc EXCEPT ![t] = "recv_sleep"]
                \/ pc' = [pc EXCEPT ![t] = "peek"]
    <3>1. pc'[t] \in RecvWait
      BY <1>0, <2>3 DEF CallType, RecvWait
    <3> QED BY <1>0, <2>1, <2>3, <3>1, OwnEntry
  <2> QED BY <2>1, <2>2, <2>3
<1>12. CASE DeferredWake(t)
  <2>1. pc[t] \in RecvWait /\ pc'[t] \in RecvWait /\ UNCHANGED sig
    BY <1>0, <1>12 DEF DeferredWake, CallType, RecvWait
  <2>2. \/ UNCHANGED <<waiters, token, reason>>
        \/ peer[End[t]] # None /\ WakeOne(peer[End[t]], "RECV")
    BY <1>12 DEF DeferredWake
  <2>3. CASE UNCHANGED <<waiters, token, reason>>
    BY <1>4, <2>1, <2>3, Undisturbed
  <2>4. CASE peer[End[t]] # None /\ WakeOne(peer[End[t]], "RECV")
    <3>1. peer[End[t]] \in EPs
      BY <1>0, <2>4, PeerIsOther
    <3> QED BY <1>4, <2>1, <2>4, <3>1, WakesOne
  <2> QED BY <2>2, <2>3, <2>4
<1>13. CASE PeerShutdown(t)
  <2>1. /\ pc' = pc /\ UNCHANGED sig /\ peer[End[t]] # None /\ WakeAll(peer[End[t]])
    BY <1>13 DEF PeerShutdown
  <2>2. Settled(t) /\ peer[End[t]] \in EPs
    BY <1>0, <2>1, PeerIsOther DEF Settled
  <2> QED BY <2>1, <2>2, WakesAll
<1>14. CASE Teardown(t)
  <2>1. /\ pc' = pc /\ UNCHANGED sig /\ rel[t] # None
        /\ \/ UNCHANGED <<waiters, token, reason>>
           \/ peer[rel[t]] # None /\ WakeAll(peer[rel[t]])
    BY <1>14 DEF Teardown
  <2>2. Settled(t) /\ rel[t] \in EPs
    BY <1>0, <2>1 DEF Settled, CallType
  <2>3. CASE UNCHANGED <<waiters, token, reason>>
    BY <2>1, <2>2, <2>3, Undisturbed
  <2>4. CASE peer[rel[t]] # None /\ WakeAll(peer[rel[t]])
    <3>1. peer[rel[t]] \in EPs
      BY <1>0, <2>2, <2>4, PeerIsOther
    <3> QED BY <2>1, <2>2, <2>4, <3>1, WakesAll
  <2> QED BY <2>1, <2>3, <2>4
<1>15. CASE ParkCommit(t) \/ Handoff(t) \/ Signal(t)
  <2>1. UNCHANGED waiters
    BY <1>15 DEF ParkCommit, Handoff, Signal, epVars
  <2>2. Settled(t)
    BY <1>0, <1>15 DEF ParkCommit, Handoff, Signal, Settled, RecvWait, CallType
  <2>3. /\ ParkType'
        /\ \A u \in Threads :
             /\ token[u] # "idle" => token'[u] # "idle"
             /\ token[u] = "woken" => token'[u] = "woken"
             /\ token'[u] = "woken" => reason'[u] # "none"
             /\ u \notin Signalled => ~sig'[u] /\ reason'[u] # "SIGNAL"
    <3>0. \A u \in Threads : TokenOf(u)
      BY DEF CInv, Tokens
    <3>1. CASE ParkCommit(t)
      BY <1>0, <3>0, <3>1 DEF ParkCommit, ParkType, TokenOf, epVars
    <3>2. CASE Handoff(t)
      <4>1. target[t] \in Threads /\ target[t] # t
        BY <1>0, <3>2 DEF Handoff, CallOf, CallType
      <4>2. UNCHANGED <<waiters, sig>>
        BY <3>2 DEF Handoff, epVars
      <4>3. CASE UNCHANGED <<token, reason>>
        BY <1>0, <3>0, <4>2, <4>3 DEF ParkType, TokenOf
      <4>4. CASE /\ token[t] = "preparing" /\ token' = [token EXCEPT ![t] = "parked"]
                 /\ UNCHANGED reason
        BY <1>0, <3>0, <4>2, <4>4 DEF ParkType, TokenOf
      <4>5. CASE /\ token[t] = "preparing" /\ token[target[t]] = "parked"
                 /\ token' = [token EXCEPT ![t] = "parked", ![target[t]] = "woken"]
                 /\ reason' = [reason EXCEPT ![target[t]] = "EVENT"]
        BY <1>0, <3>0, <4>1, <4>2, <4>5 DEF ParkType, TokenOf
      <4> QED BY <3>2, <4>3, <4>4, <4>5 DEF Handoff
    <3>3. CASE Signal(t)
      <4>1. /\ t \in Signalled /\ UNCHANGED waiters
            /\ sig' = [sig EXCEPT ![t] = TRUE]
            /\ token' = [u \in Threads |-> IF u \in Woken({t}) THEN "woken" ELSE token[u]]
            /\ reason' = [u \in Threads |-> IF u \in Woken({t}) THEN "SIGNAL" ELSE reason[u]]
            /\ \A u : u \in Woken({t}) <=> u = t /\ token[u] \in {"preparing", "parked"}
        BY <3>3 DEF Signal, TryWake, Woken, epVars
      <4> QED BY <1>0, <3>0, <4>1 DEF ParkType, TokenOf, CallType
    <3> QED BY <1>15, <3>1, <3>2, <3>3
  <2>4. \A u \in Threads : LinkedOf(u)' /\ TokenOf(u)'
    BY <2>1, <2>2, <2>3, WaitKept
  <2>5. \A f \in EPs : Distinct(waiters'[f])
    BY <1>0, <2>1
  <2> QED BY <2>3, <2>4, <2>5 DEF Linked, Tokens
<1> QED BY <1>5, <1>6, <1>7, <1>8, <1>9, <1>10, <1>11, <1>12, <1>13, <1>14, <1>15
        DEF Step

-----------------------------------------------------------------------------
(* Counting.                                                               *)

\* When at most one thread joins or leaves a set, its size changes by one at
\* most.
LEMMA OneMoves ==
  ASSUME NEW A \in SUBSET Threads, NEW B \in SUBSET Threads, NEW t \in Threads,
         \A u \in Threads : u # t => (u \in A <=> u \in B)
  PROVE  /\ Cardinality(A) \in Nat /\ Cardinality(B) \in Nat
         /\ Cardinality(B) = Cardinality(A) + (IF t \in B THEN 1 ELSE 0)
                               - (IF t \in A THEN 1 ELSE 0)
         /\ t \in A => Cardinality(A) >= 1
<1>1. IsFiniteSet(A) /\ IsFiniteSet(B)
  BY ChannelAssumption, FS_Subset
<1>2. Cardinality(A) \in Nat /\ Cardinality(B) \in Nat
  BY <1>1, FS_CardinalityType
<1>3. t \in A => Cardinality(A) >= 1
  BY <1>1, <1>2, FS_EmptySet
<1>4. CASE (t \in A) = (t \in B)
  <2>1. A = B
    BY <1>4
  <2> QED BY <1>2, <1>3, <2>1
<1>5. CASE t \in A /\ t \notin B
  <2>1. B = A \ {t}
    BY <1>5
  <2> QED BY <1>1, <1>2, <1>3, <1>5, <2>1, FS_RemoveElement
<1>6. CASE t \notin A /\ t \in B
  <2>1. B = A \cup {t}
    BY <1>6
  <2> QED BY <1>1, <1>2, <1>6, <2>1, FS_AddElement
<1> QED BY <1>4, <1>5, <1>6

\* The threads that hold a message.
Msgs == {t \in Threads : msg[t] # None}

\* How a step of t changes the numbers of calls, peer pointers and messages.
LEMMA CountsMove ==
  ASSUME CInv, NEW t \in Threads, Step(t), CallType', CallShape'
  PROVE  /\ Cardinality(Calls(Other(End[t]))') = Cardinality(Calls(Other(End[t])))
         /\ Cardinality(Ptrs(End[t])') = Cardinality(Ptrs(End[t]))
         /\ Cardinality(Calls(End[t])') = Cardinality(Calls(End[t]))
              + (IF pc'[t] \in {"user", "short"} THEN 0 ELSE 1)
              - (IF pc[t] \in {"user", "short"} THEN 0 ELSE 1)
         /\ Cardinality(Ptrs(Other(End[t]))') = Cardinality(Ptrs(Other(End[t])))
              + (IF pc'[t] \in Holding THEN 1 ELSE 0)
              - (IF pc[t] \in Holding THEN 1 ELSE 0)
         /\ Cardinality(Msgs') = Cardinality(Msgs)
              + (IF pc'[t] \in Sending THEN 1 ELSE 0)
              - (IF pc[t] \in Sending THEN 1 ELSE 0)
         /\ \A e \in EPs : Cardinality(Calls(e)) \in Nat /\ Cardinality(Ptrs(e)) \in Nat
         /\ Cardinality(Msgs) \in Nat
<1>0. /\ CallType /\ CallOf(t) /\ CallOf(t)'
      /\ End[t] \in EPs /\ Other(End[t]) \in EPs /\ Other(End[t]) # End[t]
      /\ None \notin EPs
  BY ChannelAssumption DEF CInv, CallShape, Other, EPs
<1>1. \A u \in Threads : u # t =>
        pc'[u] = pc[u] /\ ptr'[u] = ptr[u] /\ msg'[u] = msg[u]
  BY <1>0, OthersStay
<1>2. ASSUME NEW e \in EPs
      PROVE  /\ Cardinality(Calls(e)) \in Nat
             /\ Cardinality(Calls(e)') = Cardinality(Calls(e))
                  + (IF t \in Calls(e)' THEN 1 ELSE 0)
                  - (IF t \in Calls(e) THEN 1 ELSE 0)
  <2>1. /\ Calls(e) \in SUBSET Threads /\ Calls(e)' \in SUBSET Threads
        /\ \A u \in Threads : u # t => (u \in Calls(e) <=> u \in Calls(e)')
    BY <1>1 DEF Calls
  <2> QED BY <2>1, OneMoves
<1>3. ASSUME NEW e \in EPs
      PROVE  /\ Cardinality(Ptrs(e)) \in Nat
             /\ Cardinality(Ptrs(e)') = Cardinality(Ptrs(e))
                  + (IF t \in Ptrs(e)' THEN 1 ELSE 0)
                  - (IF t \in Ptrs(e) THEN 1 ELSE 0)
  <2>1. /\ Ptrs(e) \in SUBSET Threads /\ Ptrs(e)' \in SUBSET Threads
        /\ \A u \in Threads : u # t => (u \in Ptrs(e) <=> u \in Ptrs(e)')
    BY <1>1 DEF Ptrs
  <2> QED BY <2>1, OneMoves
<1>4. /\ Cardinality(Msgs) \in Nat
      /\ Cardinality(Msgs') = Cardinality(Msgs)
           + (IF t \in Msgs' THEN 1 ELSE 0) - (IF t \in Msgs THEN 1 ELSE 0)
  <2>1. /\ Msgs \in SUBSET Threads /\ Msgs' \in SUBSET Threads
        /\ \A u \in Threads : u # t => (u \in Msgs <=> u \in Msgs')
    BY <1>1 DEF Msgs
  <2> QED BY <2>1, OneMoves
<1>5. /\ t \in Calls(End[t]) <=> pc[t] \notin {"user", "short"}
      /\ t \in Calls(End[t])' <=> pc'[t] \notin {"user", "short"}
      /\ t \notin Calls(Other(End[t])) /\ t \notin Calls(Other(End[t]))'
  BY <1>0 DEF Calls
<1>6. /\ t \in Ptrs(Other(End[t])) <=> pc[t] \in Holding
      /\ t \in Ptrs(Other(End[t]))' <=> pc'[t] \in Holding
      /\ t \notin Ptrs(End[t]) /\ t \notin Ptrs(End[t])'
  BY <1>0 DEF Ptrs, CallOf
<1>7. /\ t \in Msgs <=> pc[t] \in Sending
      /\ t \in Msgs' <=> pc'[t] \in Sending
  BY <1>0 DEF Msgs, CallOf
<1>8. /\ Cardinality(Calls(Other(End[t]))') = Cardinality(Calls(Other(End[t])))
      /\ Cardinality(Calls(End[t])') = Cardinality(Calls(End[t]))
           + (IF pc'[t] \in {"user", "short"} THEN 0 ELSE 1)
           - (IF pc[t] \in {"user", "short"} THEN 0 ELSE 1)
  BY <1>0, <1>2, <1>5
<1>9. /\ Cardinality(Ptrs(End[t])') = Cardinality(Ptrs(End[t]))
      /\ Cardinality(Ptrs(Other(End[t]))') = Cardinality(Ptrs(Other(End[t])))
           + (IF pc'[t] \in Holding THEN 1 ELSE 0)
           - (IF pc[t] \in Holding THEN 1 ELSE 0)
  BY <1>0, <1>3, <1>6
<1>10. Cardinality(Msgs') = Cardinality(Msgs)
         + (IF pc'[t] \in Sending THEN 1 ELSE 0) - (IF pc[t] \in Sending THEN 1 ELSE 0)
  BY <1>4, <1>7
<1> QED BY <1>2, <1>3, <1>4, <1>8, <1>9, <1>10

\* A reference that somebody holds is counted.
LEMMA HeldIsCounted ==
  ASSUME CInv, NEW e \in EPs
  PROVE  /\ refcount[e] \in Nat
         /\ handle[e] => refcount[e] > 0
         /\ \A t \in Threads : End[t] = e /\ pc[t] \notin {"user", "short"} => refcount[e] > 0
         /\ \A t \in Threads : ptr[t] = e => refcount[e] > 0
         /\ refcount[e] = 0 => ~handle[e] /\ Calls(e) = {} /\ Ptrs(e) = {}
         /\ refcount[e] > 0 => alive[e] /\ \A t \in Threads : rel[t] # e
<1>1. IsFiniteSet(Calls(e)) /\ IsFiniteSet(Ptrs(e))
  <2>1. Calls(e) \in SUBSET Threads /\ Ptrs(e) \in SUBSET Threads
    BY DEF Calls, Ptrs
  <2> QED BY <2>1, ChannelAssumption, FS_Subset
<1>2. /\ Cardinality(Calls(e)) \in Nat /\ Cardinality(Ptrs(e)) \in Nat
      /\ Cardinality(Calls(e)) = 0 <=> Calls(e) = {}
      /\ Cardinality(Ptrs(e)) = 0 <=> Ptrs(e) = {}
  BY <1>1, FS_CardinalityType, FS_EmptySet
<1>3. refcount[e] = (IF handle[e] THEN 1 ELSE 0)
                      + Cardinality(Calls(e)) + Cardinality(Ptrs(e))
  BY DEF CInv, Counted
<1>4. /\ refcount[e] \in Nat
      /\ handle[e] => refcount[e] > 0
      /\ Calls(e) # {} => refcount[e] > 0
      /\ Ptrs(e) # {} => refcount[e] > 0
      /\ refcount[e] = 0 => ~handle[e]
  BY <1>2, <1>3
<1>5. /\ \A t \in Threads : End[t] = e /\ pc[t] \notin {"user", "short"} => Calls(e) # {}
      /\ \A t \in Threads : ptr[t] = e => Ptrs(e) # {}
  BY DEF Calls, Ptrs
<1>6. refcount[e] > 0 => alive[e] /\ \A t \in Threads : rel[t] # e
  BY <1>4 DEF CInv, Dying
<1> QED BY <1>4, <1>5, <1>6

-----------------------------------------------------------------------------
(* The endpoints.                                                          *)

\* How far a step may move the reference counts: the stepping thread's own end
\* by its handle and its call, the other end by its peer pointer.
RefMove(t) ==
  /\ handle'[Other(End[t])] = handle[Other(End[t])]
  /\ refcount'[End[t]] = refcount[End[t]]
       + (IF handle'[End[t]] THEN 1 ELSE 0) - (IF handle[End[t]] THEN 1 ELSE 0)
       + (IF pc'[t] \in {"user", "short"} THEN 0 ELSE 1)
       - (IF pc[t] \in {"user", "short"} THEN 0 ELSE 1)
  /\ refcount'[Other(End[t])] = refcount[Other(End[t])]
       + (IF pc'[t] \in Holding THEN 1 ELSE 0) - (IF pc[t] \in Holding THEN 1 ELSE 0)

\* Every step takes and drops exactly the references its call gains and loses.
LEMMA RefStep ==
  ASSUME CInv, NEW t \in Threads, Step(t)
  PROVE  /\ refcount' \in [EPs -> Int] /\ handle' \in [EPs -> BOOLEAN]
         /\ RefMove(t)
<1> USE ChannelAssumption
<1>0. /\ CallType /\ EndType /\ CallOf(t) /\ Pair
      /\ End[t] \in EPs /\ Other(End[t]) \in EPs /\ Other(End[t]) # End[t]
      /\ PeerOf(End[t]) # None => PeerOf(End[t]) = Other(End[t])
  <2>1. End[t] \in EPs
    OBVIOUS
  <2> QED BY <2>1, PeerIsOther DEF CInv, CallShape
<1> USE <1>0 DEF CallType, EndType, Goto, At, Release
<1>1. CASE /\ UNCHANGED <<refcount, handle>>
           /\ \/ pc'[t] = pc[t]
              \/ /\ pc[t] \notin {"user", "short"} \cup Holding
                 /\ pc'[t] \notin {"user", "short"} \cup Holding
  BY <1>1 DEF RefMove
<1>2. CASE SendPark(t) \/ ParkCommit(t) \/ RecvPark(t) \/ Peek(t) \/ Handoff(t)
           \/ DeferredWake(t) \/ RecvWoken(t) \/ Signal(t) \/ PeerShutdown(t) \/ Teardown(t)
  <2>1. CASE SendPark(t) \/ RecvPark(t) \/ DeferredWake(t) \/ RecvWoken(t)
    BY <1>1, <2>1 DEF SendPark, RecvPark, DeferredWake, RecvWoken, epVars, Holding
  <2>2. CASE Peek(t) \/ Handoff(t)
    BY <1>1, <2>2 DEF Peek, Handoff, epVars, Holding
  <2>3. CASE ParkCommit(t) \/ Signal(t) \/ PeerShutdown(t) \/ Teardown(t)
    BY <1>1, <2>3 DEF ParkCommit, Signal, PeerShutdown, Teardown, epVars
  <2> QED BY <1>2, <2>1, <2>2, <2>3
<1>3. CASE RecvCheck(t) \/ RecvLink(t)
  <2>1. CASE RecvCheck(t)
    <3>1. /\ pc[t] = "recv" /\ UNCHANGED <<refcount, handle>>
          /\ \E p \in {"out", "out_short", "recv_park"} : pc' = [pc EXCEPT ![t] = p]
      BY <2>1 DEF RecvCheck
    <3> QED BY <1>1, <3>1 DEF Holding
  <2>2. CASE RecvLink(t)
    <3>1. /\ pc[t] = "recv_link" /\ UNCHANGED <<refcount, handle>>
          /\ \E p \in {"recv", "recv_sleep", "peek"} : pc' = [pc EXCEPT ![t] = p]
      BY <2>2 DEF RecvLink
    <3> QED BY <1>1, <3>1 DEF Holding
  <2> QED BY <1>3, <2>1, <2>2
<1>4. CASE SendBegin(t) \/ RecvBegin(t)
  <2>1. /\ pc[t] \in {"user", "short"} /\ UNCHANGED handle
        /\ refcount' = [refcount EXCEPT ![End[t]] = @ + 1]
        /\ \E p \in {"send", "recv"} : pc' = [pc EXCEPT ![t] = p]
    BY <1>4 DEF SendBegin, RecvBegin
  <2>2. pc'[t] \in {"send", "recv"}
    BY <2>1
  <2> QED BY <2>1, <2>2 DEF RefMove, Holding
<1>5. CASE TryEnqueue(t)
  <2>1. /\ pc[t] = "send" /\ UNCHANGED handle
        /\ \/ pc' = [pc EXCEPT ![t] = "out"] /\ UNCHANGED refcount
           \/ /\ refcount' = [refcount EXCEPT ![Other(End[t])] = @ + 1]
              /\ \E p \in {"enqueue_dead", "enqueue_full", "enqueued"} :
                   pc' = [pc EXCEPT ![t] = p]
    BY <1>5 DEF TryEnqueue
  <2> QED BY <2>1 DEF RefMove, Holding
<1>6. CASE SendLink(t)
  <2>1. /\ pc[t] = "send_link" /\ UNCHANGED handle
        /\ \/ pc' = [pc EXCEPT ![t] = "out"] /\ UNCHANGED refcount
           \/ /\ refcount' = [refcount EXCEPT ![Other(End[t])] = @ + 1]
              /\ \E p \in {"send_sleep", "send_retry"} : pc' = [pc EXCEPT ![t] = p]
    BY <1>6 DEF SendLink
  <2> QED BY <2>1 DEF RefMove, Holding
<1>7. CASE EnqueueReturn(t) \/ SendRetry(t) \/ SendWoken(t)
  <2>1. /\ pc[t] \in Holding
        /\ refcount' = [refcount EXCEPT ![ptr[t]] = @ - 1] /\ UNCHANGED handle
        /\ \E p \in {"recv", "send_park", "out", "send"} : pc' = [pc EXCEPT ![t] = p]
    <3>1. CASE EnqueueReturn(t)
      BY <3>1 DEF EnqueueReturn, Holding
    <3>2. CASE SendRetry(t) \/ SendWoken(t)
      BY <3>2 DEF SendRetry, SendWoken, Holding
    <3> QED BY <1>7, <3>1, <3>2
  <2>2. ptr[t] = Other(End[t])
    BY <2>1 DEF CallOf
  <2> QED BY <2>1, <2>2 DEF RefMove, Holding
<1>8. CASE Return(t)
  BY <1>8 DEF Return, RefMove, Holding
<1>9. CASE HandleClose(t)
  BY <1>9 DEF HandleClose, RefMove, Holding
<1> QED BY <1>2, <1>3, <1>4, <1>5, <1>6, <1>7, <1>8, <1>9 DEF Step

\* The reference counts stay exact.
LEMMA CountedStep ==
  ASSUME CInv, NEW t \in Threads, Step(t), CallType', CallShape'
  PROVE  Counted'
<1>1. /\ refcount' \in [EPs -> Int] /\ RefMove(t)
      /\ refcount \in [EPs -> Int]
  BY RefStep DEF CInv, EndType
<1>2. /\ End[t] \in EPs /\ Other(End[t]) \in EPs
      /\ \A e \in EPs : e = End[t] \/ e = Other(End[t])
  BY ChannelAssumption DEF Other, EPs
<1>3. \A e \in EPs : refcount[e] = (IF handle[e] THEN 1 ELSE 0)
                       + Cardinality(Calls(e)) + Cardinality(Ptrs(e))
  BY DEF CInv, Counted
<1>4. refcount'[End[t]] = (IF handle'[End[t]] THEN 1 ELSE 0)
        + Cardinality(Calls(End[t])') + Cardinality(Ptrs(End[t])')
  BY <1>1, <1>2, <1>3, CountsMove DEF RefMove
<1>5. refcount'[Other(End[t])] = (IF handle'[Other(End[t])] THEN 1 ELSE 0)
        + Cardinality(Calls(Other(End[t]))') + Cardinality(Ptrs(Other(End[t]))')
  BY <1>1, <1>2, <1>3, CountsMove DEF RefMove
<1> QED BY <1>2, <1>4, <1>5 DEF Counted

\* a20_channel_ep_release(): the thread that drops the last reference, and no
\* other, tears the endpoint down.
LEMMA ReleaseDying ==
  ASSUME CInv, NEW t \in Threads, NEW e \in EPs, rel[t] = None, refcount[e] > 0,
         Release(t, e), UNCHANGED alive
  PROVE  Dying'
<1>1. /\ refcount \in [EPs -> Int] /\ rel \in [Threads -> EPs \cup {None}]
      /\ alive[e] /\ \A u \in Threads : rel[u] # e
      /\ None \notin EPs
  BY ChannelAssumption, HeldIsCounted DEF CInv, EndType, CallType
<1>2. CASE refcount[e] = 1
  <2>1. /\ refcount' = [refcount EXCEPT ![e] = 0] /\ rel' = [rel EXCEPT ![t] = e]
    BY <1>1, <1>2 DEF Release
  <2> QED BY <1>1, <2>1 DEF CInv, Dying
<1>3. CASE refcount[e] # 1
  <2>1. /\ refcount'[e] # 0 /\ \A f \in EPs : f # e => refcount'[f] = refcount[f]
        /\ rel' = rel
    BY <1>1, <1>3 DEF Release
  <2> QED BY <1>1, <2>1 DEF CInv, Dying
<1> QED BY <1>2, <1>3

\* No endpoint is lost or destroyed twice.
LEMMA DyingStep ==
  ASSUME CInv, NEW t \in Threads, Step(t)
  PROVE  Dying' /\ rel' \in [Threads -> EPs \cup {None}] /\ alive' \in [EPs -> BOOLEAN]
<1> USE ChannelAssumption
<1>0. /\ CallType /\ EndType /\ CallOf(t) /\ Pair /\ Dying
      /\ End[t] \in EPs /\ Other(End[t]) \in EPs /\ Other(End[t]) # End[t]
      /\ PeerOf(End[t]) # None => /\ PeerOf(End[t]) = Other(End[t])
                                  /\ refcount[Other(End[t])] > 0
  <2>1. End[t] \in EPs
    OBVIOUS
  <2> QED BY <2>1, PeerIsOther DEF CInv, CallShape
<1>1. ASSUME UNCHANGED <<refcount, alive, rel>> PROVE Dying'
  BY <1>0, <1>1 DEF Dying
<1>2. ASSUME NEW e \in EPs, refcount[e] > 0, UNCHANGED <<alive, rel>>,
             refcount' = [refcount EXCEPT ![e] = @ + 1]
      PROVE  Dying'
  BY <1>0, <1>2 DEF Dying, EndType
<1>3. CASE SendPark(t) \/ ParkCommit(t) \/ RecvPark(t) \/ Peek(t) \/ Handoff(t)
           \/ DeferredWake(t) \/ RecvWoken(t) \/ Signal(t) \/ PeerShutdown(t)
           \/ RecvCheck(t) \/ RecvLink(t)
  <2>1. UNCHANGED <<refcount, alive, rel>>
    BY <1>3 DEF SendPark, ParkCommit, RecvPark, Peek, Handoff, DeferredWake,
                RecvWoken, Signal, PeerShutdown, RecvCheck, RecvLink, epVars
  <2> QED BY <1>0, <1>1, <2>1 DEF CallType, EndType
<1>4. CASE SendBegin(t) \/ RecvBegin(t)
  <2>1. /\ refcount' = [refcount EXCEPT ![End[t]] = @ + 1] /\ handle[End[t]]
        /\ UNCHANGED <<alive, rel>>
    BY <1>4 DEF SendBegin, RecvBegin
  <2> QED BY <1>0, <1>2, <2>1, HeldIsCounted DEF CallType, EndType
<1>5. CASE TryEnqueue(t) \/ SendLink(t)
  <2>1. /\ UNCHANGED <<alive, rel>>
        /\ \/ UNCHANGED refcount
           \/ /\ refcount[Other(End[t])] > 0
              /\ refcount' = [refcount EXCEPT ![Other(End[t])] = @ + 1]
    BY <1>0, <1>5 DEF TryEnqueue, SendLink
  <2> QED BY <1>0, <1>1, <1>2, <2>1 DEF CallType, EndType
<1>6. CASE EnqueueReturn(t) \/ SendRetry(t) \/ SendWoken(t)
  <2>1. /\ pc[t] \in Holding /\ rel[t] = None /\ Release(t, ptr[t]) /\ UNCHANGED alive
    BY <1>6 DEF EnqueueReturn, SendRetry, SendWoken, At, Holding
  <2>2. ptr[t] \in EPs
    BY <1>0, <2>1 DEF CallOf
  <2>3. refcount[ptr[t]] > 0
    BY <2>2, HeldIsCounted
  <2> QED BY <1>0, <2>1, <2>2, <2>3, ReleaseDying DEF CallType, EndType, Release
<1>7. CASE Return(t) \/ HandleClose(t)
  <2>1. /\ rel[t] = None /\ Release(t, End[t]) /\ UNCHANGED alive
        /\ pc[t] \notin {"user", "short"} \/ handle[End[t]]
    BY <1>7 DEF Return, HandleClose, At
  <2>2. refcount[End[t]] > 0
    BY <1>0, <2>1, HeldIsCounted
  <2> QED BY <1>0, <2>1, <2>2, ReleaseDying DEF CallType, EndType, Release
<1>8. CASE Teardown(t)
  <2>1. /\ rel[t] # None /\ rel' = [rel EXCEPT ![t] = None]
        /\ alive' = [alive EXCEPT ![rel[t]] = FALSE] /\ UNCHANGED refcount
    BY <1>8 DEF Teardown
  <2>2. rel[t] \in EPs /\ None \notin EPs
    BY <1>0, <2>1 DEF CallType
  <2> QED BY <1>0, <2>1, <2>2 DEF Dying, CallType, EndType
<1> QED BY <1>3, <1>4, <1>5, <1>6, <1>7, <1>8 DEF Step

\* The queue of e gets a message or loses its first one, or nothing happens to it.
LEMMA QueueOps ==
  ASSUME NEW q \in Seq({"ok", "mistyped"})
  PROVE  /\ Len(q) \in Nat
         /\ \A m \in {"ok", "mistyped"} : /\ Append(q, m) \in Seq({"ok", "mistyped"})
                                          /\ Len(Append(q, m)) = Len(q) + 1
         /\ q # <<>> => /\ Tail(q) \in Seq({"ok", "mistyped"})
                        /\ Len(Tail(q)) = Len(q) - 1 /\ Len(q) > 0
                        /\ Head(q) \in {"ok", "mistyped"}
         /\ <<>> \in Seq({"ok", "mistyped"}) /\ Len(<<>>) = 0
<1>1. Len(q) \in Nat /\ (Len(q) = 0 <=> q = <<>>)
  BY LenProperties, EmptySeq
<1>2. \A m \in {"ok", "mistyped"} : /\ Append(q, m) \in Seq({"ok", "mistyped"})
                                    /\ Len(Append(q, m)) = Len(q) + 1
  BY AppendProperties
<1>3. q # <<>> => /\ Tail(q) \in Seq({"ok", "mistyped"})
                  /\ Len(Tail(q)) = Len(q) - 1 /\ Len(q) > 0
                  /\ Head(q) \in {"ok", "mistyped"}
  BY <1>1, HeadTailProperties
<1> QED BY <1>1, <1>2, <1>3, EmptySeq

\* What a step does to the message queues and to the references in messages.
MsgMove(t) ==
  LET e == End[t] o == Other(End[t])
      had == IF pc[t] \in Sending THEN 1 ELSE 0
      has == IF pc'[t] \in Sending THEN 1 ELSE 0 IN
  \/ queue' = queue /\ xfer' = xfer + has - had
  \/ /\ refcount[o] > 0 /\ xfer' = xfer /\ had = 1 /\ has = 0
     /\ \E m \in {"ok", "mistyped"} : queue' = [queue EXCEPT ![o] = Append(@, m)]
  \/ /\ queue[e] # <<>> /\ xfer' = xfer - 1 /\ had = 0 /\ has = 0
     /\ queue' = [queue EXCEPT ![e] = Tail(@)]
  \/ /\ rel[t] # None /\ xfer' = xfer - Len(queue[rel[t]]) /\ had = has
     /\ queue' = [queue EXCEPT ![rel[t]] = <<>>]

\* A message's reference moves with the message.
LEMMA MsgStep ==
  ASSUME CInv, NEW t \in Threads, Step(t)
  PROVE  MsgMove(t)
<1> USE ChannelAssumption
<1>0. /\ CallType /\ EndType /\ CallOf(t) /\ Pair
      /\ End[t] \in EPs /\ Other(End[t]) \in EPs
      /\ PeerOf(End[t]) # None => /\ PeerOf(End[t]) = Other(End[t])
                                  /\ refcount[Other(End[t])] > 0
  <2>1. End[t] \in EPs
    OBVIOUS
  <2> QED BY <2>1, PeerIsOther DEF CInv, CallShape
<1> USE <1>0 DEF CallType, EndType, Goto, At, MsgFree
<1>1. CASE SendBegin(t)
  BY <1>1 DEF SendBegin, MsgMove, Sending
<1>2. CASE TryEnqueue(t)
  <2>1. /\ pc[t] = "send"
        /\ \/ pc' = [pc EXCEPT ![t] = "out"] /\ xfer' = xfer - 1 /\ UNCHANGED queue
           \/ /\ UNCHANGED <<queue, xfer>>
              /\ \E p \in {"enqueue_dead", "enqueue_full"} : pc' = [pc EXCEPT ![t] = p]
           \/ /\ queue' = [queue EXCEPT ![Other(End[t])] = Append(@, msg[t])]
              /\ pc' = [pc EXCEPT ![t] = "enqueued"] /\ UNCHANGED xfer
              /\ refcount[Other(End[t])] > 0
    BY <1>2 DEF TryEnqueue
  <2>2. msg[t] \in {"ok", "mistyped"}
    BY <2>1 DEF CallOf, Sending
  <2> QED BY <2>1, <2>2 DEF MsgMove, Sending
<1>3. CASE EnqueueReturn(t)
  <2>1. /\ UNCHANGED queue
        /\ \/ /\ pc[t] = "enqueued" /\ UNCHANGED xfer
              /\ \E p \in {"recv", "out"} : pc' = [pc EXCEPT ![t] = p]
           \/ /\ pc[t] = "enqueue_full" /\ UNCHANGED xfer
              /\ pc' = [pc EXCEPT ![t] = "send_park"]
           \/ /\ pc[t] \in {"enqueue_dead", "enqueue_full"} /\ xfer' = xfer - 1
              /\ pc' = [pc EXCEPT ![t] = "out"]
    BY <1>3 DEF EnqueueReturn, FreesMsg
  <2> QED BY <2>1 DEF MsgMove, Sending
<1>4. CASE SendPark(t) \/ SendRetry(t) \/ SendLink(t)
  BY <1>4 DEF SendPark, SendRetry, SendLink, MsgMove, Sending, epVars, refVars
<1>5. CASE SendWoken(t)
  BY <1>5 DEF SendWoken, MsgMove, Sending
<1>6. CASE ParkCommit(t) \/ Signal(t) \/ HandleClose(t) \/ PeerShutdown(t)
  BY <1>6 DEF ParkCommit, Signal, HandleClose, PeerShutdown, MsgMove, epVars, refVars
<1>7. CASE RecvBegin(t) \/ RecvPark(t) \/ Handoff(t) \/ DeferredWake(t)
  <2>1. /\ UNCHANGED <<queue, xfer>> /\ pc[t] \notin Sending
        /\ \E p \in {"recv", "recv_link", "recv_sleep"} : pc' = [pc EXCEPT ![t] = p]
    BY <1>7 DEF RecvBegin, RecvPark, Handoff, DeferredWake, Sending, epVars, refVars
  <2>2. pc'[t] \notin Sending
    BY <2>1 DEF Sending
  <2>3. xfer' = xfer + 0 - 0 /\ queue' = queue
    BY <2>1
  <2> QED BY <2>1, <2>2, <2>3 DEF MsgMove
<1>8. CASE RecvWoken(t) \/ Return(t) \/ Peek(t) \/ RecvLink(t)
  BY <1>8 DEF RecvWoken, Return, Peek, RecvLink, MsgMove, Sending, epVars, refVars
<1>9. CASE RecvCheck(t)
  <2>1. /\ pc[t] = "recv"
        /\ \E p \in {"out", "out_short", "recv_park"} : pc' = [pc EXCEPT ![t] = p]
        /\ \/ UNCHANGED <<queue, xfer>>
           \/ /\ queue[End[t]] # <<>> /\ xfer' = xfer - 1
              /\ queue' = [queue EXCEPT ![End[t]] = Tail(@)]
    BY <1>9 DEF RecvCheck
  <2>2. pc[t] \notin Sending /\ pc'[t] \notin Sending
    BY <2>1 DEF Sending
  <2> QED BY <2>1, <2>2 DEF MsgMove
<1>10. CASE Teardown(t)
  BY <1>10 DEF Teardown, MsgMove
<1> QED BY <1>1, <1>2, <1>3, <1>4, <1>5, <1>6, <1>7, <1>8, <1>9, <1>10 DEF Step

\* The messages on both queues.
Queued(q) == Len(q["a"]) + Len(q["b"])

\* r is q with the queue of endpoint o longer by d.
Grows(q, r, o, d) == /\ o \in EPs /\ d \in Int
                     /\ \A e \in EPs : Len(q[e]) \in Nat
                     /\ Len(r[o]) = Len(q[o]) + d
                     /\ \A e \in EPs : e # o => r[e] = q[e]

\* When one queue changes, their number changes by as much.
LEMMA QueuedMoves ==
  ASSUME NEW q, NEW r, NEW o, NEW d, Grows(q, r, o, d)
  PROVE  Queued(q) \in Nat /\ Queued(r) = Queued(q) + d
<1> USE DEF Grows
<1> DEFINE qa == q["a"]  qb == q["b"]  ra == r["a"]  rb == r["b"]
<1>1. Len(qa) \in Nat /\ Len(qb) \in Nat
  BY DEF EPs
<1>2. \/ Len(ra) = Len(qa) + d /\ rb = qb
      \/ Len(rb) = Len(qb) + d /\ ra = qa
  <2>1. CASE o = "a"
    <3>1. rb = qb
      BY <2>1 DEF EPs
    <3>2. Len(ra) = Len(qa) + d
      BY <2>1
    <3> QED BY <3>1, <3>2
  <2>2. CASE o = "b"
    <3>1. ra = qa
      BY <2>2 DEF EPs
    <3>2. Len(rb) = Len(qb) + d
      BY <2>2
    <3> QED BY <3>1, <3>2
  <2> QED BY <2>1, <2>2 DEF EPs
<1> HIDE DEF qa, qb, ra, rb
<1>3. Len(qa) + Len(qb) \in Nat /\ Len(ra) + Len(rb) = Len(qa) + Len(qb) + d
  BY <1>1, <1>2
<1> QED BY <1>3 DEF qa, qb, ra, rb, Queued

\* Every queued or held message still has exactly one reference.
LEMMA TravelStep ==
  ASSUME CInv, NEW t \in Threads, Step(t), CallType', CallShape'
  PROVE  /\ HandleRefsTravel' /\ xfer' \in Int
         /\ queue' \in [EPs -> Seq({"ok", "mistyped"})]
         /\ \A e \in EPs : ~alive'[e] => queue'[e] = <<>>
<1>0. /\ CallType /\ EndType /\ Pair /\ Dying /\ HandleRefsTravel
      /\ End[t] \in EPs /\ Other(End[t]) \in EPs
  BY ChannelAssumption DEF CInv, Other, EPs
<1>1. /\ Cardinality(Msgs) \in Nat
      /\ Cardinality(Msgs') = Cardinality(Msgs)
           + (IF pc'[t] \in Sending THEN 1 ELSE 0) - (IF pc[t] \in Sending THEN 1 ELSE 0)
  BY CountsMove
<1>2. MsgMove(t) /\ \A e \in EPs : queue[e] \in Seq({"ok", "mistyped"})
  BY <1>0, MsgStep DEF EndType
<1>3. \A e \in EPs : Len(queue[e]) \in Nat
  BY <1>2, QueueOps
<1>4. /\ xfer = Queued(queue) + Cardinality(Msgs)
      /\ HandleRefsTravel' <=> xfer' = Queued(queue') + Cardinality(Msgs')
  BY <1>0 DEF HandleRefsTravel, Msgs, Queued
<1>5. /\ \A e \in EPs : alive[e] /\ ~alive'[e] => e = rel[t] /\ queue'[e] = <<>>
      /\ \A e \in EPs : refcount[e] > 0 => alive[e]
      /\ pc[t] \notin {"user", "short"} => alive[End[t]]
  <2>1. Teardown(t) \/ alive' = alive
    BY DEF Step, SendBegin, TryEnqueue, EnqueueReturn, SendPark, SendLink, SendRetry,
           ParkCommit, SendWoken, RecvBegin, RecvCheck, RecvPark, RecvLink, Peek,
           Handoff, DeferredWake, RecvWoken, Return, Signal, HandleClose,
           PeerShutdown, epVars
  <2>2. Teardown(t) => /\ alive' = [alive EXCEPT ![rel[t]] = FALSE] /\ rel[t] # None
                       /\ queue' = [queue EXCEPT ![rel[t]] = <<>>]
    BY DEF Teardown
  <2> QED BY <1>0, <2>1, <2>2, HeldIsCounted DEF EndType, CallType
<1>6. alive' \in [EPs -> BOOLEAN] /\ "a" \in EPs /\ "b" \in EPs
  BY DyingStep DEF EPs
<1>7. CASE /\ queue' = queue
           /\ xfer' = xfer + (IF pc'[t] \in Sending THEN 1 ELSE 0)
                           - (IF pc[t] \in Sending THEN 1 ELSE 0)
  <2>1. Queued(queue) \in Nat
    <3>1. 0 \in Int /\ Len(queue["a"]) = Len(queue["a"]) + 0
      BY <1>3, <1>6
    <3>2. Grows(queue, queue, "a", 0)
      BY <1>3, <1>6, <3>1 DEF Grows
    <3> QED BY <3>2, QueuedMoves
  <2>2. xfer' = Queued(queue') + Cardinality(Msgs')
    BY <1>1, <1>4, <1>7, <2>1
  <2>3. \A e \in EPs : ~alive'[e] => queue'[e] = <<>>
    BY <1>0, <1>5, <1>6, <1>7 DEF Pair, EndType
  <2> QED BY <1>0, <1>1, <1>4, <1>7, <2>2, <2>3 DEF EndType
<1>8. CASE /\ refcount[Other(End[t])] > 0 /\ xfer' = xfer
           /\ pc[t] \in Sending /\ pc'[t] \notin Sending
           /\ \E m \in {"ok", "mistyped"} :
                queue' = [queue EXCEPT ![Other(End[t])] = Append(@, m)]
  <2> PICK m \in {"ok", "mistyped"} :
             queue' = [queue EXCEPT ![Other(End[t])] = Append(@, m)]
    BY <1>8
  <2> DEFINE o == Other(End[t])
  <2>1. /\ Append(queue[o], m) \in Seq({"ok", "mistyped"})
        /\ Len(Append(queue[o], m)) = Len(queue[o]) + 1
    BY <1>0, <1>2, QueueOps
  <2>2. /\ queue' \in [EPs -> Seq({"ok", "mistyped"})]
        /\ Len(queue'[o]) = Len(queue[o]) + 1
        /\ \A e \in EPs : e # o => queue'[e] = queue[e]
    BY <1>0, <2>1 DEF EndType
  <2>3. Queued(queue) \in Nat /\ Queued(queue') = Queued(queue) + (1)
    <3>1. o \in EPs /\ Len(queue[o]) \in Nat
      BY <1>0, <1>3
    <3>2. 1 \in Int /\ Len(queue'[o]) = Len(queue[o]) + (1)
      BY <2>2, <3>1
    <3>3. \A e \in EPs : e # o => queue'[e] = queue[e]
      BY <2>2
    <3>4. Grows(queue, queue', o, 1)
      BY <1>3, <3>1, <3>2, <3>3 DEF Grows
    <3> QED BY <3>4, QueuedMoves
  <2>4. alive[o] /\ alive'[o]
    <3>1. alive[o]
      BY <1>0, <1>5, <1>8
    <3>2. rel[t] # o
      BY <1>0, <1>8, HeldIsCounted
    <3> QED BY <1>0, <1>5, <1>6, <3>1, <3>2
  <2> HIDE DEF o
  <2>5. \A e \in EPs : ~alive'[e] => queue'[e] = <<>>
    BY <1>0, <1>5, <1>6, <2>2, <2>4 DEF Pair, EndType
  <2>9. Cardinality(Msgs') = Cardinality(Msgs) - 1
    BY <1>1, <1>8
  <2>10. xfer' = Queued(queue') + Cardinality(Msgs')
    BY <1>1, <1>3, <1>8, <1>4, <2>1, <2>3, <2>9
  <2> QED BY <1>0, <1>4, <1>8, <2>2, <2>5, <2>10 DEF EndType
<1>9. CASE /\ queue[End[t]] # <<>> /\ xfer' = xfer - 1
           /\ pc[t] \notin Sending /\ pc'[t] \notin Sending
           /\ queue' = [queue EXCEPT ![End[t]] = Tail(@)]
  <2> DEFINE o == End[t]
  <2>1. /\ Tail(queue[o]) \in Seq({"ok", "mistyped"})
        /\ Len(Tail(queue[o])) = Len(queue[o]) - 1
    BY <1>0, <1>2, <1>9, QueueOps
  <2>2. /\ queue' \in [EPs -> Seq({"ok", "mistyped"})]
        /\ Len(queue'[o]) = Len(queue[o]) - 1
        /\ \A e \in EPs : e # o => queue'[e] = queue[e]
    BY <1>0, <1>9, <2>1 DEF EndType
  <2>3. Queued(queue) \in Nat /\ Queued(queue') = Queued(queue) + (-1)
    <3>1. o \in EPs /\ Len(queue[o]) \in Nat
      BY <1>0, <1>3
    <3>2. -1 \in Int /\ Len(queue'[o]) = Len(queue[o]) + (-1)
      BY <2>2, <3>1
    <3>3. Grows(queue, queue', o, -1)
      BY <1>3, <2>2, <3>1, <3>2 DEF Grows
    <3> QED BY <3>3, QueuedMoves
  <2>4. alive[o]
    BY <1>0, <1>9 DEF Pair, EndType
  <2>5. \A e \in EPs : ~alive'[e] => queue'[e] = <<>>
    BY <1>0, <1>5, <1>6, <2>2, <2>4 DEF Pair, EndType
  <2>9. Cardinality(Msgs') = Cardinality(Msgs)
    BY <1>1, <1>9
  <2>10. xfer' = Queued(queue') + Cardinality(Msgs')
    BY <1>1, <1>3, <1>9, <1>4, <2>1, <2>3, <2>9
  <2> QED BY <1>0, <1>4, <1>9, <2>2, <2>5, <2>10 DEF EndType
<1>10. CASE /\ rel[t] # None /\ xfer' = xfer - Len(queue[rel[t]])
            /\ pc[t] \in Sending <=> pc'[t] \in Sending
            /\ queue' = [queue EXCEPT ![rel[t]] = <<>>]
  <2> DEFINE o == rel[t]
  <2>1. o \in EPs
    BY <1>0, <1>10 DEF CallType
  <2>2. /\ queue' \in [EPs -> Seq({"ok", "mistyped"})]
        /\ Len(queue'[o]) = 0 /\ queue'[o] = <<>>
        /\ \A e \in EPs : e # o => queue'[e] = queue[e]
    BY <1>0, <1>2, <1>10, <2>1, QueueOps DEF EndType
  <2>3. Queued(queue) \in Nat /\ Queued(queue') = Queued(queue) + (-Len(queue[o]))
    <3>1. o \in EPs /\ Len(queue[o]) \in Nat
      BY <1>0, <1>3, <2>1
    <3>2. -Len(queue[o]) \in Int /\ Len(queue'[o]) = Len(queue[o]) + (-Len(queue[o]))
      BY <2>2, <3>1
    <3>3. Grows(queue, queue', o, -Len(queue[o]))
      BY <1>3, <2>2, <3>1, <3>2 DEF Grows
    <3> QED BY <3>3, QueuedMoves
  <2>5. \A e \in EPs : ~alive'[e] => queue'[e] = <<>>
    BY <1>0, <1>5, <1>6, <2>2 DEF Pair, EndType
  <2>6. xfer' \in Int
    BY <1>0, <1>3, <1>10, <2>1 DEF EndType
  <2>9. Cardinality(Msgs') = Cardinality(Msgs)
    BY <1>1, <1>10
  <2>10. xfer' = Queued(queue') + Cardinality(Msgs')
    BY <1>1, <1>3, <1>10, <1>4, <2>1, <2>3, <2>9
  <2> QED BY <1>0, <1>4, <1>10, <2>2, <2>5, <2>6, <2>10 DEF EndType
<1> QED BY <1>2, <1>7, <1>8, <1>9, <1>10 DEF MsgMove

\* A wait queue that nobody is on is empty.
LEMMA NobodyIsEmpty ==
  ASSUME NEW q \in Seq(Threads), \A u \in Threads : ~OnList(u, q)
  PROVE  q = <<>>
<1>1. Len(q) \in Nat /\ (Len(q) = 0 <=> q = <<>>)
  BY LenProperties, EmptySeq
<1>2. ASSUME Len(q) # 0 PROVE FALSE
  <2>1. 1 \in 1..Len(q)
    BY <1>1, <1>2
  <2>2. q[1] \in Threads /\ OnList(q[1], q)
    BY <2>1, ElementOfSeq DEF OnList
  <2> QED BY <2>2
<1> QED BY <1>1, <1>2

\* A thread links only its own entry, and only after it has found nothing to
\* receive, or no room to send, with the peer still open.
Links(t, e) ==
  /\ ~pclosed[e]
  /\ \/ e = End[t] /\ pc[t] = "recv_link" /\ queue[e] = <<>>
     \/ e = Other(End[t]) /\ pc[t] = "send_link" /\ Len(queue[e]) >= Cap

\* wait_queue_link() is the only way onto a queue.
LEMMA NewEntry ==
  ASSUME CInv, NEW t \in Threads, Step(t), NEW e \in EPs, NEW u \in Threads,
         OnList(u, waiters'[e]), ~OnList(u, waiters[e])
  PROVE  u = t /\ Links(t, e)
<1>0. /\ ParkType /\ CallType /\ Pair /\ End[t] \in EPs
      /\ \A f \in EPs : Distinct(waiters[f])
  BY ChannelAssumption DEF CInv, Linked
<1>1. ASSUME NEW f \in EPs, NEW k, WakeOne(f, k) PROVE FALSE
  <2>1. CASE UNCHANGED <<waiters, token, reason>>
    BY <2>1
  <2>2. CASE \E v \in Threads : OnList(v, waiters[f]) /\ Takes(f, v)
    <3> PICK v \in Threads : OnList(v, waiters[f]) /\ Takes(f, v)
      BY <2>2
    <3> QED BY <1>0, TakesEffect
  <2> QED BY <1>0, <1>1, <2>1, <2>2, WakeOneTakes
<1>2. ASSUME Unlink(t) PROVE FALSE
  BY <1>0, <1>2, UnlinkEffect DEF ParkType
<1>3. ASSUME NEW f \in EPs, WakeAll(f) PROVE FALSE
  BY <1>0, <1>3, WakeAllEffect
<1>4. ASSUME NEW f \in EPs, waiters' = [waiters EXCEPT ![f] = <<t>> \o @]
      PROVE  e = f /\ u = t
  <2>1. e = f
    BY <1>0, <1>4 DEF ParkType
  <2>2. waiters'[e] = <<t>> \o waiters[e] /\ waiters[e] \in Seq(Threads)
    BY <1>0, <1>4, <2>1 DEF ParkType
  <2> QED BY <2>1, <2>2, LinkHead
<1>5. CASE \/ SendBegin(t) \/ EnqueueReturn(t) \/ SendPark(t) \/ SendRetry(t)
           \/ ParkCommit(t) \/ RecvBegin(t) \/ RecvPark(t) \/ Peek(t) \/ Handoff(t)
           \/ Return(t) \/ Signal(t) \/ HandleClose(t)
  <2>1. UNCHANGED waiters
    BY <1>5 DEF SendBegin, EnqueueReturn, SendPark, SendRetry, ParkCommit, RecvBegin,
                RecvPark, Peek, Handoff, Return, Signal, HandleClose, epVars
  <2> QED BY <2>1
<1>6. CASE TryEnqueue(t) \/ SendLink(t)
  <2>1. PeerOf(End[t]) # None => PeerOf(End[t]) \in EPs /\ PeerOf(End[t]) = Other(End[t])
    BY <1>0, PeerIsOther
  <2>2. CASE TryEnqueue(t)
    <3>1. \/ UNCHANGED waiters
          \/ PeerOf(End[t]) # None /\ WakeOne(PeerOf(End[t]), "RECV")
      BY <2>2 DEF TryEnqueue
    <3> QED BY <1>1, <2>1, <3>1
  <2>3. CASE SendLink(t)
    <3>1. /\ pc[t] = "send_link"
          /\ \/ UNCHANGED waiters
             \/ /\ PeerOf(End[t]) # None /\ ~pclosed[PeerOf(End[t])]
                /\ Len(queue[PeerOf(End[t])]) >= Cap
                /\ waiters' = [waiters EXCEPT ![PeerOf(End[t])] = <<t>> \o @]
      BY <2>3 DEF SendLink, At
    <3> QED BY <1>4, <2>1, <3>1 DEF Links
  <2> QED BY <1>6, <2>2, <2>3
<1>7. CASE SendWoken(t) \/ RecvWoken(t)
  <2>1. Unlink(t)
    BY <1>7 DEF SendWoken, RecvWoken
  <2> QED BY <1>2, <2>1
<1>8. CASE RecvCheck(t)
  <2>1. UNCHANGED waiters \/ WakeOne(End[t], "SEND")
    BY <1>8 DEF RecvCheck
  <2> QED BY <1>0, <1>1, <2>1
<1>9. CASE RecvLink(t)
  <2>1. /\ pc[t] = "recv_link"
        /\ \/ UNCHANGED waiters
           \/ /\ ~pclosed[End[t]] /\ queue[End[t]] = <<>>
              /\ waiters' = [waiters EXCEPT ![End[t]] = <<t>> \o @]
    BY <1>9 DEF RecvLink, At
  <2> QED BY <1>0, <1>4, <2>1 DEF Links
<1>10. CASE DeferredWake(t) \/ PeerShutdown(t)
  <2>1. peer[End[t]] # None => peer[End[t]] \in EPs
    BY <1>0, PeerIsOther
  <2>2. \/ UNCHANGED waiters
        \/ peer[End[t]] # None /\ WakeOne(peer[End[t]], "RECV")
        \/ peer[End[t]] # None /\ WakeAll(peer[End[t]])
    BY <1>10 DEF DeferredWake, PeerShutdown
  <2> QED BY <1>1, <1>3, <2>1, <2>2
<1>11. CASE Teardown(t)
  <2>1. /\ rel[t] # None
        /\ UNCHANGED waiters \/ (peer[rel[t]] # None /\ WakeAll(peer[rel[t]]))
    BY <1>11 DEF Teardown
  <2>2. rel[t] \in EPs
    BY <1>0, <2>1 DEF CallType
  <2>3. peer[rel[t]] # None => peer[rel[t]] \in EPs
    BY <1>0, <2>2, PeerIsOther
  <2> QED BY <1>3, <2>1, <2>3
<1> QED BY <1>5, <1>6, <1>7, <1>8, <1>9, <1>10, <1>11 DEF Step

\* Nobody joins the wait queue of an endpoint whose peer has closed.
LEMMA ClosedStaysEmpty ==
  ASSUME CInv, NEW t \in Threads, Step(t), NEW e \in EPs, waiters[e] = <<>>, pclosed[e]
  PROVE  waiters'[e] = <<>>
<1>1. \A u \in Threads : ~OnList(u, waiters[e])
  BY DEF OnList
<1>2. \A u \in Threads : ~OnList(u, waiters'[e])
  BY <1>1, NewEntry DEF Links
<1>3. waiters'[e] \in Seq(Threads)
  BY QueueStep DEF ParkType
<1> QED BY <1>2, <1>3, NobodyIsEmpty

\* The endpoints' own types and their pairing.
LEMMA PairStep ==
  ASSUME CInv, NEW t \in Threads, Step(t), CallType', CallShape'
  PROVE  EndType' /\ Pair'
<1> USE ChannelAssumption
<1>0. /\ ParkType /\ CallType /\ EndType /\ Pair /\ End[t] \in EPs
  BY DEF CInv
<1>1. /\ refcount' \in [EPs -> Int] /\ handle' \in [EPs -> BOOLEAN]
      /\ alive' \in [EPs -> BOOLEAN] /\ queue' \in [EPs -> Seq({"ok", "mistyped"})]
      /\ xfer' \in Int /\ \A e \in EPs : ~alive'[e] => queue'[e] = <<>>
  BY RefStep, DyingStep, TravelStep
<1>2. got' \in Nat /\ sent' \in 0..MaxSends
  <2>1. /\ got' = got \/ got' = got + 1
        /\ sent' = sent \/ (sent < MaxSends /\ sent' = sent + 1)
    BY DEF Step, SendBegin, TryEnqueue, EnqueueReturn, SendPark, SendLink, SendRetry,
           ParkCommit, SendWoken, RecvBegin, RecvCheck, RecvPark, RecvLink, Peek,
           Handoff, DeferredWake, RecvWoken, Return, Signal, HandleClose,
           PeerShutdown, Teardown, refVars
  <2>2. got \in Nat /\ sent \in 0..MaxSends /\ MaxSends \in Nat
    BY <1>0 DEF EndType
  <2> QED BY <2>1, <2>2
<1>3. ASSUME NEW e \in EPs, waiters[e] = <<>>, pclosed[e] PROVE waiters'[e] = <<>>
  BY <1>3, ClosedStaysEmpty
<1>4. CASE ~PeerShutdown(t) /\ ~Teardown(t)
  <2>1. UNCHANGED <<peer, pclosed, alive>>
    BY <1>4 DEF Step, SendBegin, TryEnqueue, EnqueueReturn, SendPark, SendLink,
           SendRetry, ParkCommit, SendWoken, RecvBegin, RecvCheck, RecvPark, RecvLink,
           Peek, Handoff, DeferredWake, RecvWoken, Return, Signal, HandleClose, epVars
  <2>2. \A e \in EPs : pclosed'[e] => waiters'[e] = <<>>
    BY <1>0, <1>3, <2>1 DEF Pair
  <2> QED BY <1>0, <1>1, <1>2, <2>1, <2>2 DEF EndType, Pair
<1>5. CASE PeerShutdown(t)
  <2> DEFINE p == peer[End[t]]
  <2>1. /\ p # None /\ pclosed' = [pclosed EXCEPT ![p] = TRUE] /\ WakeAll(p)
        /\ UNCHANGED <<peer, alive>>
    BY <1>5 DEF PeerShutdown
  <2>2. p \in EPs
    BY <1>0, <2>1, PeerIsOther
  <2> HIDE DEF p
  <2>3. waiters'[p] = <<>>
    BY <1>0, <2>1, <2>2 DEF WakeAll, ParkType
  <2>4. \A e \in EPs : pclosed'[e] => waiters'[e] = <<>>
    BY <1>0, <1>3, <2>1, <2>2, <2>3 DEF Pair, EndType
  <2> QED BY <1>0, <1>1, <1>2, <2>1, <2>2, <2>4 DEF EndType, Pair
<1>6. CASE Teardown(t)
  <2> DEFINE e == rel[t]
             p == peer[e]
  <2>1. /\ e \in EPs /\ alive' = [alive EXCEPT ![e] = FALSE]
        /\ \/ p = None /\ UNCHANGED <<pclosed, waiters, peer>>
           \/ /\ p # None /\ pclosed' = [pclosed EXCEPT ![p] = TRUE]
              /\ peer' = [peer EXCEPT ![p] = None, ![e] = None] /\ WakeAll(p)
    BY <1>0, <1>6 DEF Teardown, CallType
  <2>2. /\ p # None => p = Other(e) /\ p \in EPs
        /\ p = None <=> ~(alive["a"] /\ alive["b"])
    BY <1>0, <2>1, PeerIsOther DEF Pair
  <2>3. ~(alive'["a"] /\ alive'["b"])
    BY <1>0, <2>1 DEF EndType, EPs
  <2>4. \A f \in EPs : peer'[f] = None
    <3>1. CASE p = None
      BY <1>0, <2>1, <2>2, <3>1 DEF Pair
    <3>2. CASE p # None
      BY <1>0, <2>1, <2>2, <3>2 DEF EndType, EPs, Other
    <3> QED BY <3>1, <3>2
  <2> HIDE DEF e, p
  <2>5. peer' \in [EPs -> EPs \cup {None}] /\ pclosed' \in [EPs -> BOOLEAN]
    BY <1>0, <2>1, <2>2 DEF EndType
  <2>6. p # None => waiters'[p] = <<>>
    BY <1>0, <2>1, <2>2 DEF WakeAll, ParkType
  <2>7. \A f \in EPs : pclosed'[f] => waiters'[f] = <<>>
    BY <1>0, <1>3, <2>1, <2>2, <2>6 DEF Pair, EndType
  <2> QED BY <1>1, <1>2, <2>3, <2>4, <2>5, <2>7 DEF EndType, Pair
<1> QED BY <1>4, <1>5, <1>6

-----------------------------------------------------------------------------
(* The invariant and what it says.                                         *)

\* a20_channel_create() establishes the invariant.
LEMMA InitCInv ==
  ASSUME Init
  PROVE  CInv
<1> USE ChannelAssumption
<1>1. <<>> \in Seq(Threads) /\ <<>> \in Seq({"ok", "mistyped"}) /\ Len(<<>>) = 0
      /\ Distinct(<<>>) /\ \A u : ~OnList(u, <<>>)
  BY EmptySeq DEF Distinct, OnList
<1>2. ParkType /\ CallType /\ EndType
  BY <1>1 DEF Init, ParkType, CallType, EndType, PCs, EPs
<1>3. CallShape /\ Pair
  BY <1>1 DEF Init, CallShape, CallOf, Pair, Sending, Holding, Other, EPs
<1>4. \A e \in EPs : Calls(e) = {} /\ Ptrs(e) = {} 
  BY DEF Init, Calls, Ptrs
<1>5. Msgs = {} /\ Cardinality({}) = 0
  BY FS_EmptySet DEF Init, Msgs
<1>6. Counted
  <2> SUFFICES ASSUME NEW e \in EPs
               PROVE  refcount[e] = (IF handle[e] THEN 1 ELSE 0)
                        + Cardinality(Calls(e)) + Cardinality(Ptrs(e))
    BY DEF Counted
  <2>1. Cardinality(Calls(e)) = 0 /\ Cardinality(Ptrs(e)) = 0
    BY <1>4, <1>5
  <2> QED BY <2>1 DEF Init
<1>7. Dying
  BY DEF Init, Dying
<1>8. Linked /\ Tokens
  BY <1>1 DEF Init, Linked, LinkedOf, Tokens, TokenOf, Tokened, Asleep, RecvWait
<1>9. HandleRefsTravel
  <2>1. xfer = 0 /\ queue["a"] = <<>> /\ queue["b"] = <<>>
    BY DEF Init, EPs
  <2>2. Cardinality({t \in Threads : msg[t] # None}) = 0
    BY <1>5 DEF Msgs
  <2> QED BY <1>1, <2>1, <2>2 DEF HandleRefsTravel
<1> QED BY <1>2, <1>3, <1>6, <1>7, <1>8, <1>9 DEF CInv

\* Every step of every thread keeps it.
LEMMA NextCInv ==
  ASSUME CInv, [Next]_vars
  PROVE  CInv'
<1>1. ASSUME NEW t \in Threads, Step(t) PROVE CInv'
  <2>1. CallType' /\ CallShape'
    BY <1>1, CallStep
  <2>2. ParkType' /\ Linked' /\ Tokens'
    BY <1>1, QueueStep
  <2>3. Counted' /\ Dying' /\ HandleRefsTravel' /\ EndType' /\ Pair'
    BY <1>1, <2>1, CountedStep, DyingStep, TravelStep, PairStep
  <2> QED BY <2>1, <2>2, <2>3 DEF CInv
<1>2. CASE UNCHANGED vars
  <2>1. UNCHANGED <<ParkType, CallType, EndType>>
    BY <1>2 DEF vars, epVars, parkVars, refVars, ParkType, CallType, EndType
  <2>2. UNCHANGED <<CallShape, Pair, Linked, Tokens>>
    BY <1>2 DEF vars, epVars, parkVars, refVars, CallShape, CallOf, Pair, Linked,
                LinkedOf, Tokens, TokenOf, WaitsOn
  <2>3. UNCHANGED <<Counted, Dying, HandleRefsTravel>>
    BY <1>2 DEF vars, epVars, parkVars, refVars, Counted, Calls, Ptrs, Dying,
                HandleRefsTravel
  <2> QED BY <2>1, <2>2, <2>3 DEF CInv
<1> QED BY <1>1, <1>2 DEF Next

\* The references, the wait-queue entries and the tokens of a channel agree with
\* the calls in progress at all times.
THEOREM CallInvariance == Spec => []CInv
<1>1. Init => CInv
  BY InitCInv
<1>2. CInv /\ [Next]_vars => CInv'
  BY NextCInv
<1> QED BY <1>1, <1>2, PTL DEF Spec

\* Every variable has the type of the field it stands for: in particular no
\* reference count and no count of handle references goes below zero.
THEOREM Types == Spec => []TypeOK
<1>1. CInv => TypeOK
  <2> SUFFICES ASSUME CInv PROVE TypeOK
    OBVIOUS
  <2>1. ParkType /\ CallType /\ EndType
    BY DEF CInv
  <2>2. \A e \in EPs : refcount[e] \in Nat
    BY HeldIsCounted
  <2>3. refcount \in [EPs -> Nat]
    BY <2>1, <2>2 DEF EndType
  <2>4. xfer \in Nat
    <3>1. \A e \in EPs : Len(queue[e]) \in Nat
      BY <2>1, LenProperties DEF EndType
    <3>2. "a" \in EPs /\ 0 \in Int /\ Len(queue["a"]) = Len(queue["a"]) + 0
      BY <3>1 DEF EPs
    <3>3. Queued(queue) \in Nat
      <4>1. Grows(queue, queue, "a", 0)
        BY <3>1, <3>2 DEF Grows
      <4> QED BY <4>1, QueuedMoves
    <3>4. Msgs \in SUBSET Threads
      BY DEF Msgs
    <3>5. Cardinality(Msgs) \in Nat
      BY <3>4, ChannelAssumption, FS_Subset, FS_CardinalityType
    <3>6. xfer = Queued(queue) + Cardinality(Msgs)
      BY DEF CInv, HandleRefsTravel, Queued, Msgs
    <3> QED BY <3>3, <3>5, <3>6
  <2> QED BY <2>1, <2>3, <2>4 DEF TypeOK, ParkType, CallType, EndType
<1> QED BY <1>1, CallInvariance, PTL

\* CH_PEER_TEARDOWN_PROTOCOL: no call, peer pointer, handle, peer link or wait
\* queue ever reaches an endpoint that a20_channel_ep_release() has freed.
THEOREM NeverUsedAfterFree == Spec => []NoUseAfterFree
<1>1. CInv => NoUseAfterFree
  <2> SUFFICES ASSUME CInv PROVE NoUseAfterFree
    OBVIOUS
  <2>0. /\ ParkType /\ CallType /\ EndType /\ CallShape /\ Pair /\ Dying /\ Linked
        /\ \A t \in Threads : End[t] \in EPs
    BY ChannelAssumption DEF CInv
  <2>1. ASSUME NEW t \in Threads
        PROVE  /\ pc[t] \notin {"user", "short"} => alive[End[t]]
               /\ ptr[t] # None => alive[ptr[t]]
               /\ rel[t] # None => alive[rel[t]]
    <3>1. pc[t] \notin {"user", "short"} => alive[End[t]]
      BY <2>0, HeldIsCounted
    <3>2. ptr[t] # None => alive[ptr[t]]
      <4>1. ptr[t] # None => ptr[t] \in EPs
        BY <2>0 DEF CallType
      <4> QED BY <4>1, HeldIsCounted
    <3>3. rel[t] # None => alive[rel[t]]
      BY <2>0 DEF Dying, CallType
    <3> QED BY <3>1, <3>2, <3>3
  <2>2. ASSUME NEW e \in EPs
        PROVE  /\ handle[e] => alive[e]
               /\ alive[e] /\ peer[e] # None => alive[peer[e]]
               /\ ~alive[e] => waiters[e] = <<>> /\ queue[e] = <<>>
    <3>1. handle[e] => alive[e]
      BY HeldIsCounted
    <3>2. alive[e] /\ peer[e] # None => alive[peer[e]]
      BY <2>0 DEF Pair, Other
    <3>3. ASSUME ~alive[e] PROVE waiters[e] = <<>> /\ queue[e] = <<>>
      <4>1. Calls(e) = {} /\ Ptrs(e) = {}
        BY <2>0, <3>3, HeldIsCounted DEF Dying
      <4>2. ASSUME NEW u \in Threads, OnList(u, waiters[e]) PROVE FALSE
        <5>1. pc[u] \in (IF End[u] = e THEN RecvWait ELSE {"send_sleep"})
          BY <2>0, <4>2 DEF Linked, LinkedOf
        <5>2. CASE End[u] = e
          BY <4>1, <5>1, <5>2 DEF Calls, RecvWait
        <5>3. CASE End[u] # e
          <6>1. ptr[u] = Other(End[u])
            BY <2>0, <5>1, <5>3 DEF CallShape, CallOf, Holding
          <6>2. Other(End[u]) = e
            BY <2>0, <5>3 DEF Other, EPs
          <6> QED BY <4>1, <6>1, <6>2 DEF Ptrs
        <5> QED BY <5>2, <5>3
      <4>3. waiters[e] = <<>>
        BY <2>0, <4>2, NobodyIsEmpty DEF ParkType
      <4> QED BY <2>0, <3>3, <4>3 DEF Pair
    <3> QED BY <3>1, <3>2, <3>3
  <2> QED BY <2>1, <2>2 DEF NoUseAfterFree
<1> QED BY <1>1, CallInvariance, PTL

\* a20_channel_ep_release(): an endpoint is being freed or has been freed exactly
\* when its handle is closed, no call is in it and no peer pointer leads to it.
THEOREM EndpointsAreFreed == Spec => []NoEndpointLeak
<1>1. CInv => NoEndpointLeak
  <2> SUFFICES ASSUME CInv, NEW e \in EPs
               PROVE  Unused(e) <=> (~alive[e] \/ \E t \in Threads : rel[t] = e)
    BY DEF NoEndpointLeak
  <2>1. refcount[e] = 0 <=> (~alive[e] \/ \E t \in Threads : rel[t] = e)
    BY DEF CInv, Dying
  <2>2. Calls(e) \in SUBSET Threads /\ Ptrs(e) \in SUBSET Threads
    BY DEF Calls, Ptrs
  <2>3. refcount[e] = (IF handle[e] THEN 1 ELSE 0)
                        + Cardinality(Calls(e)) + Cardinality(Ptrs(e))
    BY DEF CInv, Counted
  <2>4. ~handle[e] /\ Calls(e) = {} /\ Ptrs(e) = {} => refcount[e] = 0
    BY <2>3, FS_EmptySet
  <2>5. refcount[e] = 0 => ~handle[e] /\ Calls(e) = {} /\ Ptrs(e) = {}
    BY HeldIsCounted
  <2>6. Unused(e) <=> ~handle[e] /\ Calls(e) = {} /\ Ptrs(e) = {}
    BY DEF Unused, Calls, Ptrs
  <2> QED BY <2>1, <2>4, <2>5, <2>6
<1> QED BY <1>1, CallInvariance, PTL

\* ch_msg_free(), the enqueue and the receive: each undelivered message holds
\* exactly one reference on the object it carries, on every path.
THEOREM RefsTravel == Spec => []HandleRefsTravel
<1>1. CInv => HandleRefsTravel
  BY DEF CInv
<1> QED BY <1>1, CallInvariance, PTL

\* wait_queue_link() and wait_queue_unlink(): an entry on a channel's wait queue
\* is on the stack of a thread that is still in that wait, and is there once.
THEOREM LiveEntries == Spec => []EntriesAreLive
<1>1. CInv => EntriesAreLive
  <2> SUFFICES ASSUME CInv, NEW e \in EPs, NEW i \in 1..Len(waiters[e])
               PROVE  LET t == waiters[e][i] IN
                      /\ pc[t] \in (IF End[t] = e
                                    THEN {"peek", "handoff", "deferred", "recv_sleep"}
                                    ELSE {"send_sleep"})
                      /\ End[t] # e => ptr[t] = e
                      /\ \A j \in 1..Len(waiters[e]) : waiters[e][j] = t => i = j
    BY DEF EntriesAreLive
  <2>1. PICK t \in Threads : t = waiters[e][i] /\ OnList(t, waiters[e])
    BY ElementOfSeq DEF CInv, ParkType, OnList
  <2>2. pc[t] \in (IF End[t] = e THEN RecvWait ELSE {"send_sleep"})
    BY <2>1 DEF CInv, Linked, LinkedOf
  <2>3. End[t] # e => ptr[t] = e
    <3>1. End[t] \in EPs /\ (End[t] # e => Other(End[t]) = e)
      BY ChannelAssumption DEF Other, EPs
    <3> QED BY <2>2, <3>1 DEF CInv, CallShape, CallOf, Holding
  <2>4. \A j \in 1..Len(waiters[e]) : waiters[e][j] = t => i = j
    BY <2>1 DEF CInv, Linked, Distinct
  <2> QED BY <2>1, <2>2, <2>3, <2>4 DEF RecvWait
<1> QED BY <1>1, CallInvariance, PTL

-----------------------------------------------------------------------------
(* Nobody is left behind.  The count has to be taken over the threads that *)
(* are OFF the queue: a waiter that has been woken while its entry is      *)
(* still linked, by a donation to a stale target, may be taken again.      *)

RecvOn(e) == \E u \in Threads : End[u] = e /\ OnList(u, waiters[e])
SendOn(e) == \E u \in Threads : End[u] # e /\ OnList(u, waiters[e])

\* Receivers of e, and senders into e, that will look at the queue again.
Lookers(e) ==
  {t \in Threads :
     /\ End[t] = e
     /\ \/ pc[t] \in {"recv", "recv_park", "recv_link", "out_short", "short"}
        \/ pc[t] \in RecvWait /\ ~OnList(t, waiters[e])}
Fillers(e) ==
  {t \in Threads :
     /\ End[t] # e
     /\ \/ pc[t] \in {"send", "send_park", "send_link", "send_retry"}
        \/ pc[t] = "enqueue_full" /\ t \notin NonBlocking
        \/ pc[t] = "send_sleep" /\ ~OnList(t, waiters[e])}

QuietReceivers(e) == Quiet(EndOf(e)) /\ (Threads \ EndOf(e)) \cap Callers = {}
QuietSenders(e) == Quiet(Threads \ EndOf(e))

RecvSupply ==
  \A e \in EPs : QuietReceivers(e) /\ RecvOn(e) => Len(queue[e]) <= Cardinality(Lookers(e))
SendSupply ==
  \A e \in EPs : QuietSenders(e) /\ SendOn(e) => Cap - Len(queue[e]) <= Cardinality(Fillers(e))

\* A waiter no signal can reach is woken by an event, and goes on to look.
LEMMA QuietWoken ==
  ASSUME CInv, NEW t \in Threads, t \notin Signalled
  PROVE  reason[t] # "SIGNAL" /\ (token[t] = "woken" => reason[t] = "EVENT")
BY DEF CInv, ParkType, Tokens, TokenOf

\* Only a receive that takes a message, finds none, or links its entry stops a
\* receiver from looking.
LEMMA LookersKept ==
  ASSUME CInv, NEW t \in Threads, Step(t), NEW e \in EPs, Quiet(EndOf(e)),
         End[t] = e => ~RecvCheck(t) /\ ~RecvLink(t)
  PROVE  Lookers(e) \subseteq Lookers(e)'
<1> SUFFICES ASSUME NEW u \in Threads, u \in Lookers(e) PROVE u \in Lookers(e)'
  BY DEF Lookers
<1>0. /\ CallType /\ End[u] = e
  BY DEF CInv, Lookers
<1>1. CASE u # t
  <2>1. pc'[u] = pc[u]
    BY <1>0, <1>1, OthersStay
  <2>2. OnList(u, waiters'[e]) => OnList(u, waiters[e])
    BY <1>1, NewEntry
  <2> QED BY <1>0, <2>1, <2>2 DEF Lookers
<1>2. CASE u = t
  <2>1. t \notin Signalled
    BY <1>0, <1>2 DEF Quiet, EndOf
  <2>2. reason[t] # "SIGNAL"
    BY <2>1, QuietWoken
  <2>3. pc[t] # "recv_link" => (OnList(t, waiters'[e]) => OnList(t, waiters[e]))
    <3>1. e # Other(End[t])
      BY <1>0, <1>2 DEF Other, EPs
    <3> QED BY <3>1, NewEntry DEF Links
  <2>4. \/ pc'[t] = pc[t]
        \/ pc'[t] \in {"recv", "recv_link", "short"}
        \/ pc[t] \in RecvWait /\ pc'[t] \in RecvWait
    <3> USE <1>0, <1>2 DEF At, Goto, CallType
    <3>1. CASE SendBegin(t) \/ TryEnqueue(t) \/ EnqueueReturn(t) \/ SendPark(t)
               \/ SendLink(t) \/ SendRetry(t) \/ SendWoken(t)
      BY <3>1 DEF SendBegin, TryEnqueue, EnqueueReturn, SendPark, SendLink, SendRetry,
                  SendWoken, Lookers, RecvWait
    <3>2. CASE ParkCommit(t) \/ Signal(t) \/ HandleClose(t) \/ PeerShutdown(t)
               \/ Teardown(t)
      BY <3>2 DEF ParkCommit, Signal, HandleClose, PeerShutdown, Teardown
    <3>3. CASE RecvBegin(t) \/ RecvPark(t) \/ Peek(t) \/ Handoff(t) \/ DeferredWake(t)
      BY <3>3 DEF RecvBegin, RecvPark, Peek, Handoff, DeferredWake, RecvWait
    <3>4. CASE RecvWoken(t) \/ Return(t)
      BY <2>2, <3>4 DEF RecvWoken, Return, Lookers, RecvWait
    <3> QED BY <3>1, <3>2, <3>3, <3>4 DEF Step
  <2> QED BY <1>0, <1>2, <2>3, <2>4 DEF Lookers, RecvWait
<1> QED BY <1>1, <1>2

\* Only a send that enqueues, gives up or links its entry stops a sender from
\* looking.
LEMMA FillersKept ==
  ASSUME CInv, NEW t \in Threads, Step(t), NEW e \in EPs, QuietSenders(e),
         End[t] # e => ~TryEnqueue(t) /\ ~SendLink(t)
  PROVE  Fillers(e) \subseteq Fillers(e)'
<1> SUFFICES ASSUME NEW u \in Threads, u \in Fillers(e) PROVE u \in Fillers(e)'
  BY DEF Fillers
<1>0. /\ CallType /\ End[u] # e
  BY DEF CInv, Fillers
<1>1. CASE u # t
  <2>1. pc'[u] = pc[u]
    BY <1>0, <1>1, OthersStay
  <2>2. OnList(u, waiters'[e]) => OnList(u, waiters[e])
    BY <1>1, NewEntry
  <2> QED BY <1>0, <2>1, <2>2 DEF Fillers
<1>2. CASE u = t
  <2>1. t \notin Signalled
    BY <1>0, <1>2 DEF QuietSenders, Quiet, EndOf
  <2>2. reason[t] # "SIGNAL"
    BY <2>1, QuietWoken
  <2>3. pc[t] # "send_link" => (OnList(t, waiters'[e]) => OnList(t, waiters[e]))
    <3>1. e # End[t]
      BY <1>0, <1>2
    <3> QED BY <3>1, NewEntry DEF Links
  <2>4. pc'[t] = pc[t] \/ pc'[t] \in {"send", "send_park", "send_link"}
    <3> USE <1>0, <1>2 DEF At, Goto, CallType
    <3>1. CASE SendBegin(t) \/ SendPark(t) \/ SendRetry(t)
      BY <3>1 DEF SendBegin, SendPark, SendRetry
    <3>2. CASE EnqueueReturn(t) \/ SendWoken(t)
      BY <2>2, <3>2 DEF EnqueueReturn, SendWoken, Fillers
    <3>3. CASE ParkCommit(t) \/ Signal(t) \/ HandleClose(t) \/ PeerShutdown(t)
               \/ Teardown(t)
      BY <3>3 DEF ParkCommit, Signal, HandleClose, PeerShutdown, Teardown
    <3>4. CASE RecvBegin(t) \/ RecvCheck(t) \/ RecvPark(t) \/ RecvLink(t) \/ Peek(t)
      BY <3>4 DEF RecvBegin, RecvCheck, RecvPark, RecvLink, Peek, Fillers
    <3>5. CASE Handoff(t) \/ DeferredWake(t) \/ RecvWoken(t) \/ Return(t)
      BY <3>5 DEF Handoff, DeferredWake, RecvWoken, Return, Fillers
    <3> QED BY <3>1, <3>2, <3>3, <3>4, <3>5 DEF Step
  <2> QED BY <1>0, <1>2, <2>3, <2>4 DEF Fillers
<1> QED BY <1>1, <1>2

\* How many will look.
LEMMA SupplySize ==
  ASSUME NEW A \in SUBSET Threads, NEW B \in SUBSET Threads, A \subseteq B
  PROVE  /\ Cardinality(A) \in Nat /\ Cardinality(B) \in Nat
         /\ Cardinality(A) <= Cardinality(B)
<1>1. IsFiniteSet(B) /\ IsFiniteSet(A)
  BY ChannelAssumption, FS_Subset
<1> QED BY <1>1, FS_Subset, FS_CardinalityType

\* The queue lengths a step can produce.
LEMMA QueueLengths ==
  ASSUME CInv, NEW t \in Threads, Step(t), NEW e \in EPs
  PROVE  /\ Len(queue[e]) \in Nat /\ Len(queue'[e]) \in Nat
         /\ queue'[e] = <<>> => Len(queue'[e]) = 0
         /\ Len(queue'[e]) > Len(queue[e]) =>
              /\ TryEnqueue(t) /\ End[t] # e /\ Len(queue'[e]) = Len(queue[e]) + 1
              /\ pc'[t] = "enqueued"
         /\ Len(queue'[e]) < Len(queue[e]) =>
              \/ /\ RecvCheck(t) /\ End[t] = e /\ Len(queue'[e]) = Len(queue[e]) - 1
                 /\ pc'[t] = "out" /\ WakeOne(e, "SEND")
              \/ Teardown(t) /\ rel[t] = e /\ queue'[e] = <<>>
<1>0. /\ CallType /\ EndType /\ Pair /\ End[t] \in EPs /\ CallOf(t)
      /\ queue[e] \in Seq({"ok", "mistyped"})
      /\ PeerOf(End[t]) # None => PeerOf(End[t]) = Other(End[t])
  <2>1. End[t] \in EPs
    BY ChannelAssumption
  <2> QED BY <2>1, PeerIsOther DEF CInv, EndType, CallShape
<1>1. /\ Len(queue[e]) \in Nat /\ Len(<<>>) = 0
      /\ \A m \in {"ok", "mistyped"} : Len(Append(queue[e], m)) = Len(queue[e]) + 1
      /\ queue[e] # <<>> => Len(Tail(queue[e])) = Len(queue[e]) - 1 /\ Len(queue[e]) > 0
  BY <1>0, QueueOps
<1>2. CASE TryEnqueue(t)
  <2>1. /\ pc[t] = "send"
        /\ \/ UNCHANGED queue
           \/ /\ queue' = [queue EXCEPT ![Other(End[t])] = Append(@, msg[t])]
              /\ pc' = [pc EXCEPT ![t] = "enqueued"]
    BY <1>0, <1>2 DEF TryEnqueue, At, Goto
  <2>2. msg[t] \in {"ok", "mistyped"} /\ Other(End[t]) # End[t] /\ Other(End[t]) \in EPs
    BY <1>0, <2>1 DEF CallOf, CallType, Sending, Other, EPs
  <2>3. CASE UNCHANGED queue
    BY <1>1, <2>3
  <2>4. CASE /\ queue' = [queue EXCEPT ![Other(End[t])] = Append(@, msg[t])]
             /\ pc' = [pc EXCEPT ![t] = "enqueued"]
    <3>1. CASE e = Other(End[t])
      <4>1. queue'[e] = Append(queue[e], msg[t]) /\ pc'[t] = "enqueued"
        BY <1>0, <2>4, <3>1 DEF EndType, CallType
      <4>2. Len(queue'[e]) = Len(queue[e]) + 1
        BY <1>1, <2>2, <4>1
      <4>3. queue'[e] # <<>>
        BY <1>1, <4>2
      <4> QED BY <1>1, <1>2, <2>2, <3>1, <4>1, <4>2, <4>3
    <3>2. CASE e # Other(End[t])
      <4>1. queue'[e] = queue[e]
        BY <1>0, <2>4, <3>2 DEF EndType
      <4> QED BY <1>1, <4>1
    <3> QED BY <3>1, <3>2
  <2> QED BY <2>1, <2>3, <2>4
<1>3. CASE RecvCheck(t)
  <2>1. \/ UNCHANGED queue
        \/ /\ queue[End[t]] # <<>> /\ queue' = [queue EXCEPT ![End[t]] = Tail(@)]
           /\ pc' = [pc EXCEPT ![t] = "out"] /\ WakeOne(End[t], "SEND")
    BY <1>3 DEF RecvCheck, Goto
  <2>2. CASE UNCHANGED queue
    BY <1>1, <2>2
  <2>3. CASE /\ queue[End[t]] # <<>> /\ queue' = [queue EXCEPT ![End[t]] = Tail(@)]
             /\ pc' = [pc EXCEPT ![t] = "out"] /\ WakeOne(End[t], "SEND")
    <3>1. CASE e = End[t]
      <4>1. queue'[e] = Tail(queue[e]) /\ pc'[t] = "out"
        BY <1>0, <2>3, <3>1 DEF EndType, CallType
      <4>2. queue[e] # <<>>
        BY <2>3, <3>1
      <4>3. Len(Tail(queue[e])) = Len(queue[e]) - 1 /\ Len(queue[e]) > 0
        BY <1>1, <4>2
      <4>4. Len(queue'[e]) = Len(queue[e]) - 1
        BY <4>1, <4>3
      <4>5. Len(queue'[e]) \in Nat
        BY <1>1, <4>3, <4>4
      <4>6. WakeOne(e, "SEND") /\ (queue'[e] = <<>> => Len(queue'[e]) = 0)
        BY <1>1, <2>3, <3>1
      <4> QED BY <1>1, <1>3, <3>1, <4>1, <4>4, <4>5, <4>6
    <3>2. CASE e # End[t]
      <4>1. queue'[e] = queue[e]
        BY <1>0, <2>3, <3>2 DEF EndType
      <4> QED BY <1>1, <4>1
    <3> QED BY <3>1, <3>2
  <2> QED BY <2>1, <2>2, <2>3
<1>4. CASE Teardown(t)
  <2>1. queue' = [queue EXCEPT ![rel[t]] = <<>>]
    BY <1>4 DEF Teardown
  <2>2. CASE rel[t] = e
    <3>1. queue'[e] = <<>>
      BY <1>0, <2>1, <2>2 DEF EndType
    <3>2. Len(queue'[e]) = 0
      BY <1>1, <3>1
    <3> QED BY <1>1, <1>4, <2>2, <3>1, <3>2
  <2>3. CASE rel[t] # e
    <3>1. queue'[e] = queue[e]
      BY <1>0, <2>1, <2>3 DEF EndType
    <3> QED BY <1>1, <3>1
  <2> QED BY <2>2, <2>3
<1>5. CASE ~TryEnqueue(t) /\ ~RecvCheck(t) /\ ~Teardown(t)
  <2>1. UNCHANGED queue
    BY <1>5 DEF Step, SendBegin, EnqueueReturn, SendPark, SendLink, SendRetry,
           ParkCommit, SendWoken, RecvBegin, RecvPark, RecvLink, Peek, Handoff,
           DeferredWake, RecvWoken, Return, Signal, HandleClose, PeerShutdown, epVars
  <2> QED BY <1>1, <2>1
<1> QED BY <1>2, <1>3, <1>4, <1>5

\* A step of another thread does not stop one from looking.
LEMMA OthersLook ==
  ASSUME CInv, NEW t \in Threads, Step(t), NEW e \in EPs, NEW u \in Threads, u # t
  PROVE  /\ u \in Lookers(e) => u \in Lookers(e)'
         /\ u \in Fillers(e) => u \in Fillers(e)'
<1>1. pc'[u] = pc[u]
  BY OthersStay DEF CInv
<1>2. OnList(u, waiters'[e]) => OnList(u, waiters[e])
  BY NewEntry
<1> QED BY <1>1, <1>2 DEF Lookers, Fillers

\* With the key's waiters gone from the queue there is nobody to wake.
LEMMA WaitingIsOn ==
  ASSUME NEW e \in EPs
  PROVE  /\ Waiting(e, "RECV") = {} => ~RecvOn(e)
         /\ Waiting(e, "SEND") = {} => ~SendOn(e)
BY DEF Waiting, RecvOn, SendOn, OnList, Key

\* Messages never outnumber the receivers that will look, while one sleeps.
LEMMA RecvSupplyStep ==
  ASSUME CInv, RecvSupply, NEW t \in Threads, Step(t)
  PROVE  RecvSupply'
<1> USE ChannelAssumption
<1> SUFFICES ASSUME NEW e \in EPs, QuietReceivers(e), RecvOn(e)'
             PROVE  Len(queue'[e]) <= Cardinality(Lookers(e)')
  BY DEF RecvSupply, QuietReceivers, Quiet, EndOf
<1>0. /\ ParkType /\ CallType /\ EndType /\ Pair /\ Linked /\ Quiet(EndOf(e))
      /\ End[t] \in EPs
  BY DEF CInv, QuietReceivers
<1>1. /\ Lookers(e) \in SUBSET Threads /\ Lookers(e)' \in SUBSET Threads
  BY DEF Lookers
<1>2. Cardinality(Lookers(e)) \in Nat /\ Cardinality(Lookers(e)') \in Nat
  BY <1>1, SupplySize
<1>3. /\ Len(queue[e]) \in Nat /\ Len(queue'[e]) \in Nat
  BY QueueLengths
<1>4. RecvOn(e) \/ (queue[e] = <<>> /\ End[t] = e)
  <2>1. PICK u \in Threads : End[u] = e /\ OnList(u, waiters'[e])
    BY DEF RecvOn
  <2>2. CASE OnList(u, waiters[e])
    BY <2>1, <2>2 DEF RecvOn
  <2>3. CASE ~OnList(u, waiters[e])
    <3>1. u = t /\ Links(t, e)
      BY <2>1, <2>3, NewEntry
    <3>2. e # Other(End[t])
      BY <2>1, <3>1 DEF Other, EPs
    <3> QED BY <2>1, <3>1, <3>2 DEF Links
  <2> QED BY <2>2, <2>3
<1>5. RecvOn(e) => Len(queue[e]) <= Cardinality(Lookers(e))
  BY DEF RecvSupply
<1>6. ASSUME Lookers(e) \subseteq Lookers(e)', Len(queue'[e]) <= Len(queue[e])
      PROVE  Len(queue'[e]) <= Cardinality(Lookers(e)')
  <2>1. Cardinality(Lookers(e)) <= Cardinality(Lookers(e)')
    BY <1>1, <1>6, SupplySize
  <2>2. queue[e] = <<>> => Len(queue[e]) = 0
    BY EmptySeq, LenProperties
  <2> QED BY <1>2, <1>3, <1>4, <1>5, <1>6, <2>1, <2>2
<1>7. CASE Len(queue'[e]) > Len(queue[e])
  <2>1. TryEnqueue(t) /\ End[t] # e /\ Len(queue'[e]) = Len(queue[e]) + 1
        /\ pc'[t] = "enqueued"
    BY <1>7, QueueLengths
  <2>2. t \notin Callers
    BY <2>1 DEF QuietReceivers, EndOf
  <2>3. PeerOf(End[t]) # None => PeerOf(End[t]) = e
    <3>1. Other(End[t]) = e
      BY <1>0, <2>1 DEF Other, EPs
    <3> QED BY <1>0, <3>1, PeerIsOther
  <2>4. WakeOne(e, "RECV")
    <3>1. /\ PeerOf(End[t]) # None
          /\ WakeOne(PeerOf(End[t]), "RECV")
      BY <1>0, <2>1, <2>2 DEF TryEnqueue, Goto, CallType
    <3> QED BY <2>3, <3>1
  <2>5. PICK u \in Threads : OnList(u, waiters[e]) /\ Key(u, e) = "RECV" /\ Takes(e, u)
    <3>1. Waiting(e, "RECV") # {} \/ ~(UNCHANGED <<waiters, token, reason>>)
      <4>1. UNCHANGED waiters => (RecvOn(e)' <=> RecvOn(e))
        BY DEF RecvOn
      <4> QED BY <4>1, WaitingIsOn
    <3> QED BY <1>0, <2>4, <3>1, WakeOneTakes
  <2>6. End[u] = e /\ pc[u] \in RecvWait /\ u # t /\ RecvOn(e)
    <3>1. End[u] = e
      BY <2>5 DEF Key
    <3> QED BY <1>0, <2>1, <2>5, <3>1 DEF Linked, LinkedOf, RecvOn
  <2>7. u \notin Lookers(e)
    BY <2>5, <2>6 DEF Lookers, RecvWait
  <2>8. u \in Lookers(e)'
    <3>1. pc'[u] = pc[u]
      BY <1>0, <2>6, OthersStay
    <3>2. ~OnList(u, waiters'[e])
      BY <1>0, <2>5, TakesEffect DEF Linked
    <3> QED BY <2>6, <3>1, <3>2 DEF Lookers
  <2>9. Lookers(e) \cup {u} \subseteq Lookers(e)' /\ Lookers(e) \cup {u} \in SUBSET Threads
    <3>1. Lookers(e) \subseteq Lookers(e)'
      BY <1>0, <2>1, LookersKept
    <3> QED BY <1>1, <2>8, <3>1
  <2>10. /\ Cardinality(Lookers(e) \cup {u}) = Cardinality(Lookers(e)) + 1
         /\ Cardinality(Lookers(e) \cup {u}) <= Cardinality(Lookers(e)')
    <3>1. IsFiniteSet(Lookers(e))
      BY <1>1, FS_Subset
    <3> QED BY <1>1, <2>7, <2>9, <3>1, FS_AddElement, SupplySize
  <2> QED BY <1>2, <1>3, <1>5, <2>1, <2>6, <2>10
<1>8. CASE End[t] = e /\ RecvCheck(t) /\ Len(queue'[e]) <= Len(queue[e])
  <2>1. pc[t] = "recv" /\ t \in Lookers(e)
    BY <1>8 DEF RecvCheck, At, Lookers
  <2>2. CASE Len(queue'[e]) < Len(queue[e])
    <3>1. Len(queue'[e]) = Len(queue[e]) - 1 \/ queue'[e] = <<>>
      BY <2>2, QueueLengths
    <3>2. Lookers(e) \ {t} \subseteq Lookers(e)' /\ Lookers(e) \ {t} \in SUBSET Threads
      BY <1>1, OthersLook
    <3>3. /\ Cardinality(Lookers(e) \ {t}) = Cardinality(Lookers(e)) - 1
          /\ Cardinality(Lookers(e) \ {t}) <= Cardinality(Lookers(e)')
      <4>1. IsFiniteSet(Lookers(e))
        BY <1>1, FS_Subset
      <4> QED BY <1>1, <2>1, <3>2, <4>1, FS_RemoveElement, SupplySize
    <3>4. /\ queue[e] = <<>> => Len(queue[e]) = 0
          /\ queue'[e] = <<>> => Len(queue'[e]) = 0
      BY QueueLengths, EmptySeq, LenProperties
    <3> QED BY <1>2, <1>3, <1>4, <1>5, <2>2, <3>1, <3>3, <3>4
  <2>3. CASE Len(queue'[e]) = Len(queue[e])
    <3>1. queue' = queue /\ (queue[e] = <<>> \/ pc' = [pc EXCEPT ![t] = "out_short"])
      <4>1. \/ queue' = [queue EXCEPT ![e] = Tail(@)] /\ queue[e] # <<>>
            \/ queue' = queue /\ (queue[e] = <<>> \/ pc' = [pc EXCEPT ![t] = "out_short"])
        BY <1>8 DEF RecvCheck, Goto
      <4>2. ~(queue' = [queue EXCEPT ![e] = Tail(@)] /\ queue[e] # <<>>)
        <5> SUFFICES ASSUME queue' = [queue EXCEPT ![e] = Tail(@)], queue[e] # <<>>
                     PROVE  FALSE
          OBVIOUS
        <5>1. queue'[e] = Tail(queue[e]) /\ queue[e] \in Seq({"ok", "mistyped"})
          BY <1>0 DEF EndType
        <5>2. Len(Tail(queue[e])) = Len(queue[e]) - 1
          BY <5>1, QueueOps
        <5>3. Len(queue'[e]) = Len(queue[e]) - 1
          BY <5>1, <5>2
        <5> QED BY <1>3, <2>3, <5>3
      <4> QED BY <4>1, <4>2
    <3>2. CASE queue[e] = <<>>
      <4>1. Len(queue'[e]) = 0
        BY <3>1, <3>2, QueueLengths
      <4> QED BY <1>2, <4>1
    <3>3. CASE pc' = [pc EXCEPT ![t] = "out_short"]
      <4>1. t \in Lookers(e)'
        BY <1>0, <1>8, <3>3 DEF Lookers, CallType
      <4>2. Lookers(e) \subseteq Lookers(e)'
        BY <1>1, <4>1, OthersLook
      <4> QED BY <1>6, <1>8, <4>2
    <3> QED BY <3>1, <3>2, <3>3
  <2> QED BY <1>3, <1>8, <2>2, <2>3
<1>9. CASE End[t] = e /\ RecvLink(t) /\ Len(queue'[e]) <= Len(queue[e])
  <2>1. /\ pc[t] = "recv_link" /\ UNCHANGED queue
        /\ \/ queue[e] = <<>>
           \/ pc' = [pc EXCEPT ![t] = "recv"]
    BY <1>9 DEF RecvLink, At, Goto
  <2>2. CASE queue[e] = <<>>
    <3>1. Len(queue'[e]) = 0
      BY <2>1, <2>2, QueueLengths
    <3> QED BY <1>2, <3>1
  <2>3. CASE pc' = [pc EXCEPT ![t] = "recv"]
    <3>1. t \in Lookers(e)'
      BY <1>0, <1>9, <2>3 DEF Lookers, CallType
    <3>2. Lookers(e) \subseteq Lookers(e)'
      BY <1>1, <3>1, OthersLook
    <3> QED BY <1>6, <1>9, <3>2
  <2> QED BY <2>1, <2>2, <2>3
<1>10. CASE Len(queue'[e]) <= Len(queue[e]) /\ (End[t] = e => ~RecvCheck(t) /\ ~RecvLink(t))
  <2>1. Lookers(e) \subseteq Lookers(e)'
    BY <1>0, <1>10, LookersKept
  <2> QED BY <1>6, <1>10, <2>1
<1> QED BY <1>3, <1>7, <1>8, <1>9, <1>10

\* A sender asleep on e's queue keeps both ends in place, and open.
LEMMA SenderKeepsPair ==
  ASSUME CInv, NEW e \in EPs, SendOn(e)
  PROVE  /\ refcount[e] > 0 /\ ~pclosed[e]
         /\ \A t \in Threads : End[t] # e => PeerOf(End[t]) = e
<1>1. PICK u \in Threads : End[u] # e /\ OnList(u, waiters[e])
  BY DEF SendOn
<1>2. End[u] \in EPs /\ Other(End[u]) = e /\ Other(e) = End[u]
  BY <1>1, ChannelAssumption DEF Other, EPs
<1>3. pc[u] = "send_sleep" /\ ptr[u] = e
  BY <1>1, <1>2 DEF CInv, Linked, LinkedOf, CallShape, CallOf, Holding
<1>4. refcount[e] > 0 /\ refcount[End[u]] > 0 /\ alive[e] /\ alive[End[u]]
  BY <1>2, <1>3, HeldIsCounted
<1>5. alive["a"] /\ alive["b"]
  BY <1>2, <1>4 DEF EPs, Other
<1>6. ASSUME NEW t \in Threads, End[t] # e PROVE PeerOf(End[t]) = e
  <2>1. End[t] = End[u]
    BY <1>1, <1>2, <1>6, ChannelAssumption DEF EPs, Other
  <2>2. peer[End[u]] = e
    BY <1>2, <1>5 DEF CInv, Pair
  <2> QED BY <1>4, <2>1, <2>2, ChannelAssumption DEF PeerOf
<1>7. ~pclosed[e]
  <2>1. waiters[e] # <<>>
    BY <1>1, EmptySeq, LenProperties DEF OnList
  <2> QED BY <2>1 DEF CInv, Pair
<1> QED BY <1>4, <1>6, <1>7

\* Free slots never outnumber the senders that will look, while one sleeps.
LEMMA SendSupplyStep ==
  ASSUME CInv, SendSupply, NEW t \in Threads, Step(t)
  PROVE  SendSupply'
<1> USE ChannelAssumption
<1> SUFFICES ASSUME NEW e \in EPs, QuietSenders(e), SendOn(e)'
             PROVE  Cap - Len(queue'[e]) <= Cardinality(Fillers(e)')
  BY DEF SendSupply, QuietSenders, Quiet, EndOf
<1>0. /\ ParkType /\ CallType /\ EndType /\ Pair /\ Linked /\ End[t] \in EPs /\ Cap \in Nat
  BY DEF CInv
<1>1. Fillers(e) \in SUBSET Threads /\ Fillers(e)' \in SUBSET Threads
  BY DEF Fillers
<1>2. Cardinality(Fillers(e)) \in Nat /\ Cardinality(Fillers(e)') \in Nat
  BY <1>1, SupplySize
<1>3. Len(queue[e]) \in Nat /\ Len(queue'[e]) \in Nat
  BY QueueLengths
<1>4. SendOn(e) \/ Len(queue[e]) >= Cap
  <2>1. PICK u \in Threads : End[u] # e /\ OnList(u, waiters'[e])
    BY DEF SendOn
  <2>2. CASE OnList(u, waiters[e])
    BY <2>1, <2>2 DEF SendOn
  <2>3. CASE ~OnList(u, waiters[e])
    <3>1. u = t /\ Links(t, e)
      BY <2>1, <2>3, NewEntry
    <3> QED BY <2>1, <3>1 DEF Links
  <2> QED BY <2>2, <2>3
<1>5. Cap - Len(queue[e]) <= Cardinality(Fillers(e))
  <2>1. CASE SendOn(e)
    BY <2>1 DEF SendSupply
  <2>2. CASE Len(queue[e]) >= Cap
    BY <1>0, <1>2, <1>3, <2>2
  <2> QED BY <1>4, <2>1, <2>2
<1>6. ASSUME Fillers(e) \subseteq Fillers(e)', Len(queue'[e]) >= Len(queue[e])
      PROVE  Cap - Len(queue'[e]) <= Cardinality(Fillers(e)')
  <2>1. Cardinality(Fillers(e)) <= Cardinality(Fillers(e)')
    BY <1>1, <1>6, SupplySize
  <2> QED BY <1>0, <1>2, <1>3, <1>5, <1>6, <2>1
<1>7. CASE Len(queue'[e]) < Len(queue[e]) /\ Teardown(t) /\ rel[t] = e
  <2>1. waiters'[e] = waiters[e]
    <3>1. \/ UNCHANGED waiters
          \/ peer[e] # None /\ waiters' = [waiters EXCEPT ![peer[e]] = <<>>]
      BY <1>7 DEF Teardown, WakeAll
    <3>2. peer[e] # None => peer[e] # e
      BY <1>0, PeerIsOther
    <3> QED BY <1>0, <3>1, <3>2 DEF ParkType
  <2>2. SendOn(e)
    BY <2>1 DEF SendOn
  <2>3. refcount[e] > 0
    BY <2>2, SenderKeepsPair
  <2> QED BY <1>7, <2>3, HeldIsCounted
<1>8. CASE Len(queue'[e]) < Len(queue[e]) /\ ~(Teardown(t) /\ rel[t] = e)
  <2>1. /\ RecvCheck(t) /\ End[t] = e /\ Len(queue'[e]) = Len(queue[e]) - 1
        /\ pc'[t] = "out" /\ WakeOne(e, "SEND")
    BY <1>8, QueueLengths
  <2>2. PICK u \in Threads : OnList(u, waiters[e]) /\ Key(u, e) = "SEND" /\ Takes(e, u)
    <3>1. Waiting(e, "SEND") # {} \/ ~(UNCHANGED <<waiters, token, reason>>)
      <4>1. UNCHANGED waiters => (SendOn(e)' <=> SendOn(e))
        BY DEF SendOn
      <4> QED BY <4>1, WaitingIsOn
    <3> QED BY <1>0, <2>1, <3>1, WakeOneTakes
  <2>3. End[u] # e /\ pc[u] = "send_sleep" /\ u # t
    <3>1. End[u] # e
      BY <2>2 DEF Key
    <3> QED BY <1>0, <2>1, <2>2, <3>1 DEF Linked, LinkedOf
  <2>4. u \notin Fillers(e)
    BY <2>2, <2>3 DEF Fillers
  <2>5. u \in Fillers(e)'
    <3>1. pc'[u] = pc[u]
      BY <1>0, <2>3, OthersStay
    <3>2. ~OnList(u, waiters'[e])
      BY <1>0, <2>2, TakesEffect DEF Linked
    <3> QED BY <2>3, <3>1, <3>2 DEF Fillers
  <2>6. Fillers(e) \cup {u} \subseteq Fillers(e)' /\ Fillers(e) \cup {u} \in SUBSET Threads
    <3>1. Fillers(e) \subseteq Fillers(e)'
      BY <2>1, FillersKept
    <3> QED BY <1>1, <2>5, <3>1
  <2>7. /\ Cardinality(Fillers(e) \cup {u}) = Cardinality(Fillers(e)) + 1
        /\ Cardinality(Fillers(e) \cup {u}) <= Cardinality(Fillers(e)')
    <3>1. IsFiniteSet(Fillers(e))
      BY <1>1, FS_Subset
    <3> QED BY <1>1, <2>4, <2>6, <3>1, FS_AddElement, SupplySize
  <2>8. Len(queue'[e]) = Len(queue[e]) - 1 /\ Cap \in Nat
    BY <1>0, <2>1
  <2>9. Cardinality(Fillers(e)) + 1 <= Cardinality(Fillers(e)')
    BY <2>7
  <2>10. ASSUME NEW n \in Nat, NEW m \in Nat, NEW c \in Nat, NEW d \in Nat,
                Cap - n <= c, m = n - 1, c + 1 <= d
         PROVE  Cap - m <= d
    BY <2>8, <2>10
  <2> QED BY <1>2, <1>3, <1>5, <2>8, <2>9, <2>10
<1>9. CASE Len(queue'[e]) > Len(queue[e])
  <2>1. TryEnqueue(t) /\ End[t] # e /\ Len(queue'[e]) = Len(queue[e]) + 1
    BY <1>9, QueueLengths
  <2>2. t \in Fillers(e)
    BY <2>1 DEF Fillers, TryEnqueue, At
  <2>3. Fillers(e) \ {t} \subseteq Fillers(e)' /\ Fillers(e) \ {t} \in SUBSET Threads
    BY <1>1, OthersLook
  <2>4. /\ Cardinality(Fillers(e) \ {t}) = Cardinality(Fillers(e)) - 1
        /\ Cardinality(Fillers(e) \ {t}) <= Cardinality(Fillers(e)')
    <3>1. IsFiniteSet(Fillers(e))
      BY <1>1, FS_Subset
    <3> QED BY <1>1, <2>2, <2>3, <3>1, FS_RemoveElement, SupplySize
  <2> QED BY <1>0, <1>2, <1>3, <1>5, <2>1, <2>4
<1>10. ASSUME Len(queue'[e]) = Len(queue[e]), Len(queue[e]) >= Cap
       PROVE  Cap - Len(queue'[e]) <= Cardinality(Fillers(e)')
  BY <1>0, <1>2, <1>3, <1>10
<1>11. CASE Len(queue'[e]) = Len(queue[e]) /\ End[t] # e /\ TryEnqueue(t)
  <2>1. CASE Len(queue[e]) >= Cap
    BY <1>10, <1>11, <2>1
  <2>2. CASE Len(queue[e]) < Cap
    <3>1. SendOn(e) /\ PeerOf(End[t]) = e /\ ~pclosed[e]
      BY <1>0, <1>3, <1>4, <1>11, <2>2, SenderKeepsPair
    <3>2. queue' = [queue EXCEPT ![e] = Append(@, msg[t])] /\ pc[t] = "send"
      BY <1>0, <1>3, <1>11, <2>2, <3>1 DEF TryEnqueue, At
    <3>3. queue'[e] = Append(queue[e], msg[t]) /\ queue[e] \in Seq({"ok", "mistyped"})
          /\ msg[t] \in {"ok", "mistyped"}
      BY <1>0, <3>2 DEF EndType, CInv, CallShape, CallOf, CallType, Sending
    <3>4. Len(Append(queue[e], msg[t])) = Len(queue[e]) + 1
      BY <3>3, QueueOps
    <3>5. Len(queue'[e]) = Len(queue[e]) + 1
      BY <3>3, <3>4
    <3> QED BY <1>3, <1>11, <3>5
  <2> QED BY <1>0, <1>3, <2>1, <2>2
<1>12. CASE Len(queue'[e]) = Len(queue[e]) /\ End[t] # e /\ SendLink(t)
  <2>1. CASE Len(queue[e]) >= Cap
    BY <1>10, <1>12, <2>1
  <2>2. CASE Len(queue[e]) < Cap
    <3>1. SendOn(e) /\ PeerOf(End[t]) = e /\ ~pclosed[e]
      BY <1>0, <1>3, <1>4, <1>12, <2>2, SenderKeepsPair
    <3>2. ~(Len(queue[e]) >= Cap)
      BY <1>0, <1>3, <2>2
    <3>3. pc' = [pc EXCEPT ![t] = "send_retry"]
      BY <1>0, <1>12, <3>1, <3>2 DEF SendLink, Goto
    <3>4. t \in Fillers(e)'
      BY <1>0, <1>12, <3>3 DEF Fillers, CallType
    <3>5. Fillers(e) \subseteq Fillers(e)'
      BY <1>1, <3>4, OthersLook
    <3> QED BY <1>3, <1>6, <1>12, <3>5
  <2> QED BY <1>0, <1>3, <2>1, <2>2
<1>13. CASE Len(queue'[e]) = Len(queue[e]) /\ (End[t] # e => ~TryEnqueue(t) /\ ~SendLink(t))
  <2>1. Fillers(e) \subseteq Fillers(e)'
    BY <1>13, FillersKept
  <2> QED BY <1>3, <1>6, <1>13, <2>1
<1> QED BY <1>3, <1>7, <1>8, <1>9, <1>11, <1>12, <1>13

\* The two wake rules hold at all times.
LEMMA SupplyInvariance == Spec => [](RecvSupply /\ SendSupply)
<1>1. Init => RecvSupply /\ SendSupply
  <2> SUFFICES ASSUME Init, NEW e \in EPs PROVE ~RecvOn(e) /\ ~SendOn(e)
    BY DEF RecvSupply, SendSupply
  <2>1. waiters[e] = <<>> /\ Len(<<>>) = 0
    BY EmptySeq, LenProperties DEF Init
  <2> QED BY <2>1 DEF RecvOn, SendOn, OnList
<1>2. CInv /\ RecvSupply /\ SendSupply /\ [Next]_vars => (RecvSupply /\ SendSupply)'
  <2> SUFFICES ASSUME CInv, RecvSupply, SendSupply, [Next]_vars
               PROVE  RecvSupply' /\ SendSupply'
    OBVIOUS
  <2>1. ASSUME NEW t \in Threads, Step(t) PROVE RecvSupply' /\ SendSupply'
    BY <2>1, RecvSupplyStep, SendSupplyStep
  <2>2. CASE UNCHANGED vars
    <3>1. queue' = queue /\ waiters' = waiters /\ pc' = pc
      BY <2>2 DEF vars, epVars
    <3>2. \A e \in EPs : /\ RecvOn(e)' = RecvOn(e) /\ Lookers(e)' = Lookers(e)
                         /\ SendOn(e)' = SendOn(e) /\ Fillers(e)' = Fillers(e)
      BY <3>1 DEF RecvOn, SendOn, Lookers, Fillers
    <3> QED BY <3>1, <3>2 DEF RecvSupply, SendSupply, QuietReceivers, QuietSenders,
               Quiet, EndOf
  <2> QED BY <2>1, <2>2 DEF Next
<1> QED BY <1>1, <1>2, CallInvariance, PTL DEF Spec

\* wait_queue_wake_one() in ch_try_enqueue() and in the dequeue: while a receiver
\* is parked every queued message has a receiver that is going to look, and
\* while a sender is parked every free slot has a sender that is going to look,
\* wherever no caller defers its wake and no signal can take a waiter away.
THEOREM WaitersAreServed == Spec => []PlainWaitersServed
<1>1. CInv /\ RecvSupply /\ SendSupply => PlainWaitersServed
  <2> SUFFICES ASSUME CInv, RecvSupply, SendSupply, NEW e \in EPs
               PROVE  /\ QuietReceivers(e) => ReceiverServed(e)
                      /\ QuietSenders(e) => SenderServed(e)
    BY DEF PlainWaitersServed, QuietReceivers, QuietSenders
  <2>0. CallType /\ EndType /\ Linked /\ Tokens /\ CallShape
    BY DEF CInv
  <2>1. ASSUME QuietReceivers(e), NEW t \in Threads, pc[t] = "recv_sleep", End[t] = e,
               token[t] = "parked"
        PROVE  Len(queue[e]) <= Cardinality(WillReceive(e))
    <3>1. OnList(t, waiters[e])
      BY <2>0, <2>1 DEF Tokens, TokenOf, Asleep, RecvWait, WaitsOn
    <3>2. Len(queue[e]) <= Cardinality(Lookers(e))
      BY <2>1, <3>1 DEF RecvSupply, RecvOn
    <3>3. ASSUME NEW u \in Threads, u \in Lookers(e) PROVE u \in WillReceive(e)
      <4>1. End[u] = e /\ u \notin Signalled
        BY <2>1, <3>3 DEF Lookers, QuietReceivers, Quiet, EndOf
      <4>2. pc[u] \in RecvWait /\ ~OnList(u, waiters[e]) => token[u] = "woken"
        BY <2>0, <4>1 DEF Tokens, TokenOf, Asleep, RecvWait, WaitsOn
      <4>3. token[u] = "woken" => reason[u] = "EVENT"
        BY <4>1, QuietWoken
      <4> QED BY <3>3, <4>1, <4>2, <4>3 DEF Lookers, WillReceive, EndOf, RecvWait
    <3>4. /\ Lookers(e) \subseteq WillReceive(e)
          /\ Lookers(e) \in SUBSET Threads /\ WillReceive(e) \in SUBSET Threads
      BY <3>3 DEF Lookers, WillReceive, EndOf
    <3>5. /\ Cardinality(Lookers(e)) \in Nat /\ Cardinality(WillReceive(e)) \in Nat
          /\ Cardinality(Lookers(e)) <= Cardinality(WillReceive(e))
      BY <3>4, SupplySize
    <3>6. Len(queue[e]) \in Nat
      BY <2>0, LenProperties DEF EndType
    <3> QED BY <3>2, <3>5, <3>6
  <2>2. ASSUME QuietSenders(e), NEW t \in Threads, pc[t] = "send_sleep", ptr[t] = e,
               token[t] = "parked"
        PROVE  Cap - Len(queue[e]) <= Cardinality(WillSend(e))
    <3>1. Other(End[t]) = e /\ End[t] # e
      BY <2>0, <2>2, ChannelAssumption DEF CallShape, CallOf, Holding, Other, EPs
    <3>2. OnList(t, waiters[e])
      BY <2>0, <2>2, <3>1 DEF Tokens, TokenOf, Asleep, WaitsOn
    <3>3. Cap - Len(queue[e]) <= Cardinality(Fillers(e))
      BY <2>2, <3>1, <3>2 DEF SendSupply, SendOn
    <3>4. ASSUME NEW u \in Threads, u \in Fillers(e) PROVE u \in WillSend(e)
      <4>1. End[u] # e /\ Other(End[u]) = e /\ u \notin Signalled
        BY <2>2, <3>4, ChannelAssumption DEF Fillers, QuietSenders, Quiet, EndOf, Other, EPs
      <4>2. pc[u] = "send_sleep" /\ ~OnList(u, waiters[e]) => token[u] = "woken"
        BY <2>0, <4>1 DEF Tokens, TokenOf, Asleep, WaitsOn
      <4>3. token[u] = "woken" => reason[u] = "EVENT"
        BY <4>1, QuietWoken
      <4> QED BY <3>4, <4>1, <4>2, <4>3 DEF Fillers, WillSend, EndOf
    <3>5. /\ Fillers(e) \subseteq WillSend(e)
          /\ Fillers(e) \in SUBSET Threads /\ WillSend(e) \in SUBSET Threads
      BY <3>4 DEF Fillers, WillSend, EndOf
    <3>6. /\ Cardinality(Fillers(e)) \in Nat /\ Cardinality(WillSend(e)) \in Nat
          /\ Cardinality(Fillers(e)) <= Cardinality(WillSend(e))
      BY <3>5, SupplySize
    <3>7. Len(queue[e]) \in Nat /\ Cap \in Nat
      BY <2>0, LenProperties, ChannelAssumption DEF EndType
    <3> QED BY <3>3, <3>6, <3>7
  <2> QED BY <2>1, <2>2 DEF ReceiverServed, SenderServed
<1> QED BY <1>1, SupplyInvariance, CallInvariance, PTL
=============================================================================
