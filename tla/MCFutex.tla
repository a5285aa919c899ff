------------------------------ MODULE MCFutex ------------------------------
(***************************************************************************)
(* Instances of Futex.  Tasks a1 and a2 share an address space, b1 has its *)
(* own.  Word c of the one and word e of the other are the same shared     *)
(* page; k and j are the same page until a store breaks copy-on-write; m   *)
(* and o are locks that waiters are requeued to, l is a PI lock.           *)
(***************************************************************************)
EXTENDS Futex

CONSTANTS a1, a2, b1, c, e, k, j, m, o, l, p1, p2, p3, p4, p5, p6

Program(waits, writes) == [t \in Tasks |-> [waits |-> waits[t], writes |-> writes[t]]]
Only(ts, ws) == [t \in Tasks |-> IF t \in ts THEN ws ELSE {}]

\* A condition variable on a shared page with two waiters, or two notifiers; a
\* futex of a process that has forked; a PI lock.
TwoWaiters   == Program([Only({a1}, {c}) EXCEPT ![b1] = {e}], Only({a2}, {c, m}))
TwoNotifiers == Program(Only({a1}, {c}), [Only({a2}, {c, o}) EXCEPT ![b1] = {e}])
Forked       == Program(Only({a1}, {k}), [Only({a2}, {k}) EXCEPT ![b1] = {j}])
PiLock       == Program(Only({}, {}), Only(Tasks, {l}))

MCPrograms == {TwoWaiters, TwoNotifiers, Forked, PiLock}
MCForked == {Forked}
MCPiLock == {PiLock}

MCMaxVal == [w \in Words |-> IF w \in {c, e} THEN 2 ELSE 1]

MCPageOf ==
  [w \in Words |-> CASE w \in {c, e} -> p1 [] w \in {k, j} -> p2
                     [] w = m -> p3 [] w = o -> p5 [] w = l -> p4]

\* Words c and o share a bucket, c and m do not.
MCBucket ==
  [p \in Pages |-> CASE p \in {p1, p5} -> 1 [] p \in {p2, p3} -> 2 [] OTHER -> 3]
=============================================================================
