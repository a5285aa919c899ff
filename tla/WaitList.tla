------------------------------ MODULE WaitList ------------------------------
(***************************************************************************)
(* The linked list of a wait_queue_t (kernel/core/sync.c) as a sequence,   *)
(* head first.  An entry lives on the stack of the thread that waits, so   *)
(* the thread names its entry.                                             *)
(***************************************************************************)
EXTENDS Integers, Sequences, FiniteSets

\* The thread's entry is linked.
OnList(x, q) == \E i \in 1..Len(q) : q[i] = x

\* No entry is linked twice.
Distinct(q) == \A i, j \in 1..Len(q) : q[i] = q[j] => i = j

\* Where an entry is.
Position(x, q) == CHOOSE i \in 1..Len(q) : q[i] = x

\* The position nearest to the head.
First(I) == CHOOSE i \in I : \A j \in I : i <= j

\* The list after wait_queue_unlink(): the entry's neighbours are joined; an
\* entry that is not linked is left alone.
Unlinked(q, x) ==
  IF OnList(x, q)
  THEN SubSeq(q, 1, Position(x, q) - 1) \o SubSeq(q, Position(x, q) + 1, Len(q))
  ELSE q

\* How many of the positions I there are up to position i.
Count(I, i) == Cardinality({j \in I : j <= i})

\* The n positions of I nearest to the head.
Nearest(I, n) == {i \in I : Count(I, i) <= n}

\* The entries at the positions I, in their order.
Entries(q, I) ==
  [k \in 1..Cardinality(I) |-> q[CHOOSE i \in I : Count(I, i) = k]]
=============================================================================
