--------------------------- MODULE WaitListProofs ---------------------------
(***************************************************************************)
(* What linking, unlinking, splitting and popping do to the entries of a   *)
(* wait queue, for lists of any length.                                    *)
(***************************************************************************)
EXTENDS WaitList, SequenceTheorems, FiniteSetTheorems, WellFoundedInduction, TLAPS

\* A list is empty when it has no entry.
LEMMA EmptyList ==
  ASSUME NEW S, NEW q \in Seq(S)
  PROVE  Len(q) \in Nat /\ (q = <<>> <=> Len(q) = 0)
<1>1. Len(<<>>) = 0 /\ (q # <<>> => Len(q) \in Nat \ {0}) /\ Len(q) \in Nat
  BY EmptySeq, LenProperties
<1> QED BY <1>1

\* wait_queue_link(): the new entry is at the head.
LEMMA LinkHead ==
  ASSUME NEW S, NEW q \in Seq(S), NEW x \in S
  PROVE  /\ <<x>> \o q \in Seq(S) /\ <<x>> \o q # <<>>
         /\ \A y : OnList(y, <<x>> \o q) <=> y = x \/ OnList(y, q)
         /\ Distinct(q) /\ ~OnList(x, q) => Distinct(<<x>> \o q)
<1> DEFINE r == <<x>> \o q
<1>1. /\ r \in Seq(S) /\ Len(r) = Len(q) + 1 /\ Len(q) \in Nat
      /\ r[1] = x /\ \A i \in 2..Len(r) : r[i] = q[i - 1]
  BY ConcatProperties
<1> HIDE DEF r
<1>2. r # <<>>
  BY <1>1
<1>3. ASSUME NEW y PROVE OnList(y, r) <=> y = x \/ OnList(y, q)
  <2>1. ASSUME OnList(y, r), y # x PROVE OnList(y, q)
    <3> PICK i \in 1..Len(r) : r[i] = y
      BY <2>1 DEF OnList
    <3>1. i - 1 \in 1..Len(q) /\ q[i - 1] = y
      BY <1>1, <2>1
    <3> QED BY <3>1 DEF OnList
  <2>2. ASSUME OnList(y, q) PROVE OnList(y, r)
    <3> PICK i \in 1..Len(q) : q[i] = y
      BY <2>2 DEF OnList
    <3>1. i + 1 \in 1..Len(r) /\ r[i + 1] = y
      BY <1>1
    <3> QED BY <3>1 DEF OnList
  <2>3. OnList(x, r)
    BY <1>1 DEF OnList
  <2> QED BY <2>1, <2>2, <2>3
<1>4. ASSUME Distinct(q), ~OnList(x, q) PROVE Distinct(r)
  <2> SUFFICES ASSUME NEW i \in 1..Len(r), NEW j \in 1..Len(r), r[i] = r[j]
               PROVE  i = j
    BY DEF Distinct
  <2>1. CASE i = 1 \/ j = 1
    BY <1>1, <1>4, <2>1 DEF OnList
  <2>2. CASE i # 1 /\ j # 1
    <3>1. i - 1 \in 1..Len(q) /\ j - 1 \in 1..Len(q) /\ q[i - 1] = q[j - 1]
      BY <1>1, <2>2
    <3> QED BY <1>4, <3>1 DEF Distinct
  <2> QED BY <2>1, <2>2
<1> QED BY <1>1, <1>2, <1>3, <1>4 DEF r

\* wait_queue_collect_all(): the first n entries leave the queue for the batch.
LEMMA SplitList ==
  ASSUME NEW S, NEW q \in Seq(S), NEW n \in 0..Len(q)
  PROVE  /\ SubSeq(q, 1, n) \in Seq(S) /\ SubSeq(q, n + 1, Len(q)) \in Seq(S)
         /\ Len(SubSeq(q, 1, n)) = n /\ Len(SubSeq(q, n + 1, Len(q))) = Len(q) - n
         /\ \A y : OnList(y, q) <=> \/ OnList(y, SubSeq(q, 1, n))
                                    \/ OnList(y, SubSeq(q, n + 1, Len(q)))
         /\ Distinct(q) =>
              /\ Distinct(SubSeq(q, 1, n)) /\ Distinct(SubSeq(q, n + 1, Len(q)))
              /\ \A y : ~(/\ OnList(y, SubSeq(q, 1, n))
                          /\ OnList(y, SubSeq(q, n + 1, Len(q))))
<1> DEFINE a == SubSeq(q, 1, n)
           b == SubSeq(q, n + 1, Len(q))
<1>1. /\ Len(q) \in Nat /\ n \in Nat
      /\ a \in Seq(S) /\ Len(a) = n /\ \A i \in 1..n : a[i] = q[i]
  BY LenProperties, SubSeqProperties
<1>2. /\ b \in Seq(S) /\ Len(b) = Len(q) - n
      /\ \A i \in 1..(Len(q) - n) : b[i] = q[n + i]
  <2>1. n + 1 \in 1..(Len(q) + 1)
    BY <1>1
  <2> QED BY <1>1, <2>1, SubSeqProperties
<1> HIDE DEF a, b
<1>3. ASSUME NEW y PROVE OnList(y, q) <=> OnList(y, a) \/ OnList(y, b)
  <2>1. ASSUME OnList(y, q) PROVE OnList(y, a) \/ OnList(y, b)
    <3> PICK i \in 1..Len(q) : q[i] = y
      BY <2>1 DEF OnList
    <3>1. CASE i <= n
      BY <1>1, <3>1 DEF OnList
    <3>2. CASE i > n
      <4>1. i - n \in 1..Len(b) /\ b[i - n] = y
        BY <1>1, <1>2, <3>2
      <4> QED BY <4>1 DEF OnList
    <3> QED BY <1>1, <3>1, <3>2
  <2>2. ASSUME OnList(y, a) PROVE OnList(y, q)
    BY <1>1, <2>2 DEF OnList
  <2>3. ASSUME OnList(y, b) PROVE OnList(y, q)
    <3> PICK i \in 1..Len(b) : b[i] = y
      BY <2>3 DEF OnList
    <3>1. n + i \in 1..Len(q) /\ q[n + i] = y
      BY <1>1, <1>2
    <3> QED BY <3>1 DEF OnList
  <2> QED BY <2>1, <2>2, <2>3
<1>4. ASSUME Distinct(q) PROVE Distinct(a) /\ Distinct(b)
  <2>1. Distinct(a)
    BY <1>1, <1>4 DEF Distinct
  <2>2. ASSUME NEW i \in 1..Len(b), NEW j \in 1..Len(b), b[i] = b[j]
        PROVE  i = j
    <3>1. n + i \in 1..Len(q) /\ n + j \in 1..Len(q) /\ q[n + i] = q[n + j]
      BY <1>1, <1>2, <2>2
    <3> QED BY <1>1, <1>2, <1>4, <3>1 DEF Distinct
  <2> QED BY <2>1, <2>2 DEF Distinct
<1>5. ASSUME Distinct(q), NEW y, OnList(y, a), OnList(y, b) PROVE FALSE
  <2>1. PICK i \in 1..Len(a) : a[i] = y
    BY <1>5 DEF OnList
  <2>2. PICK j \in 1..Len(b) : b[j] = y
    BY <1>5 DEF OnList
  <2>3. /\ i \in 1..Len(q) /\ n + j \in 1..Len(q) /\ q[i] = q[n + j] /\ i # n + j
    BY <1>1, <1>2, <2>1, <2>2
  <2> QED BY <1>5, <2>3 DEF Distinct
<1> QED BY <1>1, <1>2, <1>3, <1>4, <1>5 DEF a, b

\* proc_wake_q_flush(): the head of a batch is taken off.
LEMMA PopHead ==
  ASSUME NEW S, NEW q \in Seq(S), q # <<>>
  PROVE  /\ Head(q) \in S /\ Tail(q) \in Seq(S)
         /\ \A y : OnList(y, q) <=> y = Head(q) \/ OnList(y, Tail(q))
<1>1. /\ Len(q) \in Nat /\ Len(q) # 0 /\ Head(q) = q[1] /\ Head(q) \in S
      /\ Tail(q) \in Seq(S) /\ Len(Tail(q)) = Len(q) - 1
      /\ \A i \in 1..Len(Tail(q)) : Tail(q)[i] = q[i + 1]
  BY HeadTailProperties, LenProperties, EmptySeq
<1>2. ASSUME NEW y PROVE OnList(y, q) <=> y = Head(q) \/ OnList(y, Tail(q))
  <2>1. ASSUME OnList(y, q), y # Head(q) PROVE OnList(y, Tail(q))
    <3> PICK i \in 1..Len(q) : q[i] = y
      BY <2>1 DEF OnList
    <3>1. i - 1 \in 1..Len(Tail(q)) /\ Tail(q)[i - 1] = y
      BY <1>1, <2>1
    <3> QED BY <3>1 DEF OnList
  <2>2. ASSUME OnList(y, Tail(q)) PROVE OnList(y, q)
    <3> PICK i \in 1..Len(Tail(q)) : Tail(q)[i] = y
      BY <2>2 DEF OnList
    <3>1. i + 1 \in 1..Len(q) /\ q[i + 1] = y
      BY <1>1
    <3> QED BY <3>1 DEF OnList
  <2>3. OnList(Head(q), q)
    BY <1>1 DEF OnList
  <2> QED BY <2>1, <2>2, <2>3
<1> QED BY <1>1, <1>2

\* wait_queue_unlink(): the entry is gone and every other one is still there.
LEMMA UnlinkEntry ==
  ASSUME NEW S, NEW q \in Seq(S), NEW x
  PROVE  /\ Unlinked(q, x) \in Seq(S)
         /\ \A y : y # x => (OnList(y, Unlinked(q, x)) <=> OnList(y, q))
         /\ Distinct(q) => Distinct(Unlinked(q, x)) /\ ~OnList(x, Unlinked(q, x))
<1>1. CASE ~OnList(x, q)
  BY <1>1 DEF Unlinked
<1>2. CASE OnList(x, q)
  <2> DEFINE k == Position(x, q)
             a == SubSeq(q, 1, k - 1)
             b == SubSeq(q, k + 1, Len(q))
             r == a \o b
  <2>1. k \in 1..Len(q) /\ q[k] = x /\ Len(q) \in Nat
    BY <1>2, LenProperties DEF OnList, Position
  <2>2. r = Unlinked(q, x)
    BY <1>2 DEF Unlinked
  <2> HIDE DEF k
  <2>3. a \in Seq(S) /\ Len(a) = k - 1 /\ \A i \in 1..(k - 1) : a[i] = q[i]
    <3>1. k - 1 \in 0..Len(q)
      BY <2>1
    <3> QED BY <2>1, <3>1, SubSeqProperties
  <2>4. /\ b \in Seq(S) /\ Len(b) = Len(q) - k
        /\ \A i \in 1..(Len(q) - k) : b[i] = q[k + i]
    <3>1. k + 1 \in 1..(Len(q) + 1)
      BY <2>1
    <3> QED BY <2>1, <3>1, SubSeqProperties
  <2> HIDE DEF a, b
  <2>5. /\ r \in Seq(S) /\ Len(r) = Len(q) - 1
        /\ \A i \in 1..Len(r) : r[i] = IF i < k THEN q[i] ELSE q[i + 1]
    <3>1. /\ r \in Seq(S) /\ Len(r) = Len(a) + Len(b)
          /\ \A i \in 1..Len(r) : r[i] = IF i <= Len(a) THEN a[i] ELSE b[i - Len(a)]
      BY <2>3, <2>4, ConcatProperties
    <3>2. ASSUME NEW i \in 1..Len(r) PROVE r[i] = IF i < k THEN q[i] ELSE q[i + 1]
      <4>1. CASE i < k
        BY <2>1, <2>3, <3>1, <4>1
      <4>2. CASE i >= k
        <5>1. i - (k - 1) \in 1..(Len(q) - k) /\ r[i] = b[i - (k - 1)]
          BY <2>1, <2>3, <2>4, <3>1, <4>2
        <5>2. k + (i - (k - 1)) = i + 1
          BY <2>1
        <5>3. b[i - (k - 1)] = q[k + (i - (k - 1))]
          BY <2>4, <5>1
        <5>4. ~(i < k)
          BY <2>1, <4>2
        <5> QED BY <5>1, <5>2, <5>3, <5>4
      <4> QED BY <2>1, <4>1, <4>2
    <3> QED BY <2>1, <2>3, <2>4, <3>1, <3>2
  <2> HIDE DEF r
  <2>6. ASSUME NEW y, y # x PROVE OnList(y, r) <=> OnList(y, q)
    <3>1. ASSUME OnList(y, q) PROVE OnList(y, r)
      <4> PICK i \in 1..Len(q) : q[i] = y
        BY <3>1 DEF OnList
      <4>1. CASE i < k
        BY <2>1, <2>5, <4>1 DEF OnList
      <4>2. CASE i > k
        <5>1. i - 1 \in 1..Len(r) /\ r[i - 1] = y
          BY <2>1, <2>5, <4>2
        <5> QED BY <5>1 DEF OnList
      <4> QED BY <2>1, <2>6, <4>1, <4>2
    <3>2. ASSUME OnList(y, r) PROVE OnList(y, q)
      <4> PICK i \in 1..Len(r) : r[i] = y
        BY <3>2 DEF OnList
      <4>1. CASE i < k
        BY <2>1, <2>5, <4>1 DEF OnList
      <4>2. CASE i >= k
        <5>1. i + 1 \in 1..Len(q) /\ q[i + 1] = y
          BY <2>1, <2>5, <4>2
        <5> QED BY <5>1 DEF OnList
      <4> QED BY <2>1, <4>1, <4>2
    <3> QED BY <3>1, <3>2
  <2>7. ASSUME Distinct(q) PROVE Distinct(r) /\ ~OnList(x, r)
    <3> DEFINE o(i) == IF i < k THEN i ELSE i + 1
    <3>1. \A i \in 1..Len(r) : o(i) \in 1..Len(q) /\ o(i) # k /\ r[i] = q[o(i)]
      BY <2>1, <2>5
    <3>2. \A i, j \in 1..Len(r) : o(i) = o(j) => i = j
      BY <2>1, <2>5
    <3> HIDE DEF o
    <3>3. Distinct(r)
      BY <2>7, <3>1, <3>2 DEF Distinct
    <3>4. ~OnList(x, r)
      BY <2>1, <2>7, <3>1 DEF Distinct, OnList
    <3> QED BY <3>3, <3>4
  <2> QED BY <2>2, <2>5, <2>6, <2>7
<1> QED BY <1>1, <1>2

\* wait_queue_collect_one() finds the first of the entries it looks for.  The
\* initial segments that end in one of them are well-founded by inclusion.
LEMMA FirstEntry ==
  ASSUME NEW L \in Nat, NEW N \in SUBSET (1..L), N # {}
  PROVE  First(N) \in N /\ \A m \in N : First(N) <= m
<1> SUFFICES \E n \in N : \A m \in N : n <= m
  BY DEF First
<1> DEFINE Inits == {1..n : n \in N}
           R == StrictSubsetOrdering(1..L)
<1>1. IsWellFoundedOn(R, SUBSET (1..L))
  <2>1. IsFiniteSet(1..L)
    BY FS_Interval
  <2>2. FiniteSubsetsOf(1..L) = SUBSET (1..L)
    BY <2>1, FS_FiniteSubsetsOfFinite
  <2>3. IsWellFoundedOn(R, FiniteSubsetsOf(1..L))
    BY FS_StrictSubsetOrderingWellFounded
  <2> QED BY <2>2, <2>3
<1>2. Inits \subseteq SUBSET (1..L) /\ Inits # {}
  <2>1. \A n \in N : 1..n \in SUBSET (1..L)
    OBVIOUS
  <2>2. PICK n \in N : TRUE
    OBVIOUS
  <2>3. 1..n \in Inits
    OBVIOUS
  <2> QED BY <2>1, <2>3
<1> HIDE DEF R
<1>3. PICK a \in Inits : \A b \in Inits : ~(<<b, a>> \in R)
  BY <1>1, <1>2, WFMin
<1>4. PICK n \in N : a = 1..n
  OBVIOUS
<1>5. ASSUME NEW m \in N, m < n PROVE FALSE
  <2>1. 1..m \subseteq 1..n /\ 1..m # 1..n
    BY <1>5
  <2>2. <<1..m, 1..n>> \in R
    BY <2>1 DEF R, StrictSubsetOrdering
  <2> QED BY <1>3, <1>4, <2>2
<1> QED BY <1>5

-----------------------------------------------------------------------------
(* Selecting entries by their positions.                                   *)

\* Positions are counted from 1 to their number, and each number counts one.
LEMMA CountOneToOne ==
  ASSUME NEW n \in Nat, NEW I \in SUBSET (1..n)
  PROVE  /\ IsFiniteSet(I) /\ Cardinality(I) \in Nat
         /\ \A i \in I : Count(I, i) \in 1..Cardinality(I)
         /\ \A i, j \in I : Count(I, i) = Count(I, j) => i = j
         /\ \A k \in 1..Cardinality(I) : \E i \in I : Count(I, i) = k
<1> DEFINE Below(i) == {j \in I : j <= i}
<1>0. 1 \in Int /\ n \in Int /\ \A i \in I : i \in Int
  OBVIOUS
<1>1. IsFiniteSet(I) /\ Cardinality(I) \in Nat
  <2>1. IsFiniteSet(1..n)
    BY <1>0, FS_Interval
  <2>2. IsFiniteSet(I)
    BY <2>1, FS_Subset
  <2> QED BY <2>2, FS_CardinalityType
<1>2. \A i \in I : /\ Below(i) \in SUBSET I /\ IsFiniteSet(Below(i))
                   /\ Cardinality(Below(i)) \in Nat
                   /\ Cardinality(Below(i)) <= Cardinality(I)
                   /\ i \in Below(i) /\ Cardinality(Below(i)) # 0
  <2> SUFFICES ASSUME NEW i \in I
               PROVE  /\ Below(i) \in SUBSET I /\ IsFiniteSet(Below(i))
                      /\ Cardinality(Below(i)) \in Nat
                      /\ Cardinality(Below(i)) <= Cardinality(I)
                      /\ i \in Below(i) /\ Cardinality(Below(i)) # 0
    OBVIOUS
  <2>1. Below(i) \in SUBSET I /\ i \in Below(i)
    OBVIOUS
  <2>2. IsFiniteSet(Below(i)) /\ Cardinality(Below(i)) <= Cardinality(I)
    BY <1>1, <2>1, FS_Subset
  <2>3. Cardinality(Below(i)) \in Nat
    BY <2>2, FS_CardinalityType
  <2>4. Cardinality(Below(i)) # 0
    BY <2>1, <2>2, FS_EmptySet
  <2> QED BY <2>1, <2>2, <2>3, <2>4
<1>3. \A i, j \in I : i < j => Cardinality(Below(i)) # Cardinality(Below(j))
  <2> SUFFICES ASSUME NEW i \in I, NEW j \in I, i < j
               PROVE  Cardinality(Below(i)) # Cardinality(Below(j))
    OBVIOUS
  <2>1. i \in Int /\ j \in Int /\ \A k \in I : k \in Int
    BY <1>0
  <2>2. j \in Below(j) /\ j \notin Below(i)
    BY <2>1
  <2>3. \A k \in I : k <= i => k <= j
    BY <2>1
  <2>4. Below(i) \in SUBSET Below(j)
    BY <2>3
  <2> QED BY <1>2, <2>2, <2>4, FS_Subset
<1>4. \A i \in I : Count(I, i) = Cardinality(Below(i))
  BY DEF Count
<1> HIDE DEF Below
<1>5. \A i \in I : Count(I, i) \in 1..Cardinality(I)
  BY <1>1, <1>2, <1>4
<1>6. \A i, j \in I : Count(I, i) = Count(I, j) => i = j
  BY <1>3, <1>4
<1>7. \A k \in 1..Cardinality(I) : \E i \in I : Count(I, i) = k
  <2> DEFINE f == [i \in I |-> Count(I, i)]
             T == 1..Cardinality(I)
  <2>1. f \in Injection(I, T)
    BY <1>5, <1>6 DEF Injection, IsInjective
  <2>2. IsFiniteSet(T) /\ Cardinality(T) = Cardinality(I)
    BY <1>1, FS_Interval
  <2>3. f \in Surjection(I, T)
    BY <2>1, <2>2, FS_Injection
  <2> QED BY <2>3 DEF Surjection
<1> QED BY <1>1, <1>5, <1>6, <1>7

\* The entries selected are those at the positions, each once.
LEMMA EntriesAt ==
  ASSUME NEW S, NEW q \in Seq(S), NEW I \in SUBSET (1..Len(q))
  PROVE  /\ Entries(q, I) \in Seq(S)
         /\ Cardinality(I) \in Nat /\ Len(Entries(q, I)) = Cardinality(I)
         /\ \A y : OnList(y, Entries(q, I)) <=> \E i \in I : q[i] = y
         /\ Distinct(q) => Distinct(Entries(q, I))
<1> DEFINE r == Entries(q, I)
           m == Cardinality(I)
           At(k) == CHOOSE i \in I : Count(I, i) = k
<1>1. Len(q) \in Nat
  BY LenProperties
<1>2. /\ m \in Nat
      /\ \A i \in I : Count(I, i) \in 1..m
      /\ \A i, j \in I : Count(I, i) = Count(I, j) => i = j
      /\ \A k \in 1..m : \E i \in I : Count(I, i) = k
  BY <1>1, CountOneToOne
<1>3. \A k \in 1..m : At(k) \in I /\ Count(I, At(k)) = k
  BY <1>2
<1>4. r = [k \in 1..m |-> q[At(k)]]
  BY DEF Entries
<1>5. \A i \in I : At(Count(I, i)) = i
  BY <1>2, <1>3
<1> HIDE DEF r, m, At
<1>6. \A k \in 1..m : q[At(k)] \in S
  <2>1. \A k \in 1..m : At(k) \in 1..Len(q)
    BY <1>3
  <2> QED BY <2>1, ElementOfSeq
<1>7. r \in Seq(S) /\ Len(r) = m /\ \A k \in 1..m : r[k] = q[At(k)]
  BY <1>2, <1>4, <1>6, IsASeq, LenProperties
<1>8. ASSUME NEW y PROVE OnList(y, r) <=> \E i \in I : q[i] = y
  <2>1. ASSUME NEW i \in I, q[i] = y PROVE OnList(y, r)
    <3>1. Count(I, i) \in 1..Len(r) /\ r[Count(I, i)] = y
      BY <1>2, <1>5, <1>7, <2>1
    <3> QED BY <3>1 DEF OnList
  <2>2. ASSUME OnList(y, r) PROVE \E i \in I : q[i] = y
    <3> PICK k \in 1..Len(r) : r[k] = y
      BY <2>2 DEF OnList
    <3> QED BY <1>3, <1>7
  <2> QED BY <2>1, <2>2
<1>9. ASSUME Distinct(q) PROVE Distinct(r)
  <2> SUFFICES ASSUME NEW k \in 1..Len(r), NEW l \in 1..Len(r), r[k] = r[l]
               PROVE  k = l
    BY DEF Distinct
  <2>1. At(k) \in 1..Len(q) /\ At(l) \in 1..Len(q) /\ q[At(k)] = q[At(l)]
    BY <1>3, <1>7
  <2>2. At(k) = At(l)
    BY <1>9, <2>1 DEF Distinct
  <2> QED BY <1>3, <1>7, <2>2
<1> QED BY <1>2, <1>7, <1>8, <1>9 DEF r, m

\* The entries at the other positions are the other entries.
LEMMA EntriesApart ==
  ASSUME NEW S, NEW q \in Seq(S), Distinct(q), NEW I \in SUBSET (1..Len(q)),
         NEW K, K = 1..Len(q) \ I
  PROVE  \A y : OnList(y, Entries(q, K)) <=> OnList(y, q) /\ ~OnList(y, Entries(q, I))
<1> SUFFICES ASSUME NEW y
             PROVE  OnList(y, Entries(q, K)) <=> OnList(y, q) /\ ~OnList(y, Entries(q, I))
  OBVIOUS
<1>1. K \in SUBSET (1..Len(q))
  OBVIOUS
<1>2. OnList(y, Entries(q, I)) <=> \E i \in I : q[i] = y
  BY EntriesAt
<1>3. OnList(y, Entries(q, K)) <=> \E i \in K : q[i] = y
  BY <1>1, EntriesAt
<1> HIDE DEF OnList
<1>4. OnList(y, q) <=> \E i \in 1..Len(q) : q[i] = y
  BY DEF OnList
<1>5. \A i, j \in 1..Len(q) : q[i] = q[j] => i = j
  BY DEF Distinct
<1> QED BY <1>2, <1>3, <1>4, <1>5

\* Of the positions nearest to the head there are as many as were asked for, or
\* they are all.
LEMMA NearestAreFirst ==
  ASSUME NEW n \in Nat, NEW I \in SUBSET (1..n), NEW m \in Nat
  PROVE  /\ Nearest(I, m) \in SUBSET I
         /\ Cardinality(Nearest(I, m)) \in 0..m
         /\ Nearest(I, m) = I \/ Cardinality(Nearest(I, m)) = m
         /\ Nearest(I, m) = {} <=> Cardinality(Nearest(I, m)) = 0
<1> DEFINE J == Nearest(I, m)
           f == [i \in J |-> Count(I, i)]
<1>1. /\ IsFiniteSet(I) /\ Cardinality(I) \in Nat
      /\ \A i \in I : Count(I, i) \in 1..Cardinality(I)
      /\ \A i, j \in I : Count(I, i) = Count(I, j) => i = j
      /\ \A k \in 1..Cardinality(I) : \E i \in I : Count(I, i) = k
  BY CountOneToOne
<1>2. J = {i \in I : Count(I, i) <= m}
  BY DEF Nearest
<1> HIDE DEF J
<1>3. J \in SUBSET I /\ IsFiniteSet(J) /\ Cardinality(J) \in Nat
      /\ IsFiniteSet(1..m) /\ Cardinality(1..m) = m
  <2>1. J \in SUBSET I
    BY <1>2
  <2>2. IsFiniteSet(J)
    BY <1>1, <2>1, FS_Subset
  <2>3. Cardinality(J) \in Nat
    BY <2>2, FS_CardinalityType
  <2>4. IsFiniteSet(1..m) /\ Cardinality(1..m) = m
    BY FS_Interval
  <2> QED BY <2>1, <2>2, <2>3, <2>4
<1>4. \A i \in J : Count(I, i) \in 1..m
  BY <1>1, <1>2
<1>5. f \in Injection(J, 1..m)
  BY <1>1, <1>3, <1>4 DEF Injection, IsInjective
<1>6. Cardinality(J) <= m
  BY <1>3, <1>5, FS_Injection
<1>7. ASSUME J # I PROVE Cardinality(J) = m
  <2>1. PICK i \in I : ~(Count(I, i) <= m)
    BY <1>2, <1>7
  <2>2. Cardinality(I) > m
    BY <1>1, <2>1
  <2>3. \A k \in 1..m : \E j \in J : Count(I, j) = k
    BY <1>1, <1>2, <2>2
  <2>4. f \in Surjection(J, 1..m)
    BY <1>4, <2>3 DEF Surjection
  <2>5. f \in Injection(J, 1..m) /\ IsFiniteSet(1..m) /\ Cardinality(1..m) = m
    BY <1>3, <1>5
  <2> QED BY <2>4, <2>5, FS_Injection
<1>8. J = {} <=> Cardinality(J) = 0
  BY <1>3, FS_EmptySet
<1> QED BY <1>3, <1>6, <1>7, <1>8 DEF J

\* One list put before another.
LEMMA JoinLists ==
  ASSUME NEW S, NEW p \in Seq(S), NEW q \in Seq(S)
  PROVE  /\ p \o q \in Seq(S)
         /\ \A y : OnList(y, p \o q) <=> OnList(y, p) \/ OnList(y, q)
         /\ Distinct(p) /\ Distinct(q) /\ (\A y : ~(OnList(y, p) /\ OnList(y, q)))
              => Distinct(p \o q)
<1> DEFINE r == p \o q
<1>1. /\ r \in Seq(S) /\ Len(r) = Len(p) + Len(q) /\ Len(p) \in Nat /\ Len(q) \in Nat
      /\ \A i \in 1..Len(r) : r[i] = IF i <= Len(p) THEN p[i] ELSE q[i - Len(p)]
  BY ConcatProperties
<1> HIDE DEF r
<1>2. ASSUME NEW i \in 1..Len(r)
      PROVE  \/ i \in 1..Len(p) /\ r[i] = p[i]
             \/ i - Len(p) \in 1..Len(q) /\ r[i] = q[i - Len(p)]
  BY <1>1
<1>3. ASSUME NEW y PROVE OnList(y, r) <=> OnList(y, p) \/ OnList(y, q)
  <2>1. OnList(y, r) => OnList(y, p) \/ OnList(y, q)
    BY <1>2 DEF OnList
  <2>2. ASSUME NEW i \in 1..Len(p), p[i] = y PROVE OnList(y, r)
    <3>1. i \in 1..Len(r) /\ r[i] = y
      BY <1>1, <2>2
    <3> QED BY <3>1 DEF OnList
  <2>3. ASSUME NEW i \in 1..Len(q), q[i] = y PROVE OnList(y, r)
    <3> DEFINE k == i + Len(p)
    <3>1. k \in 1..Len(r) /\ ~(k <= Len(p)) /\ k - Len(p) = i
      BY <1>1
    <3> HIDE DEF k
    <3>2. r[k] = y
      BY <1>1, <2>3, <3>1
    <3> QED BY <3>1, <3>2 DEF OnList
  <2> QED BY <2>1, <2>2, <2>3 DEF OnList
<1>4. ASSUME Distinct(p), Distinct(q), \A y : ~(OnList(y, p) /\ OnList(y, q))
      PROVE  Distinct(r)
  <2> SUFFICES ASSUME NEW i \in 1..Len(r), NEW j \in 1..Len(r), r[i] = r[j]
               PROVE  i = j
    BY DEF Distinct
  <2>1. CASE i \in 1..Len(p) /\ j \in 1..Len(p)
    BY <1>1, <1>4, <2>1 DEF Distinct
  <2>2. CASE i \notin 1..Len(p) /\ j \notin 1..Len(p)
    <3>1. /\ i - Len(p) \in 1..Len(q) /\ j - Len(p) \in 1..Len(q)
          /\ q[i - Len(p)] = q[j - Len(p)]
      BY <1>1, <2>2
    <3>2. i - Len(p) = j - Len(p)
      BY <1>4, <3>1 DEF Distinct
    <3> QED BY <1>1, <3>2
  <2>3. ~(i \in 1..Len(p) /\ j \notin 1..Len(p)) /\ ~(i \notin 1..Len(p) /\ j \in 1..Len(p))
    <3>1. \A k, l \in 1..Len(r) : r[k] = r[l] => ~(k \in 1..Len(p) /\ l \notin 1..Len(p))
      <4> SUFFICES ASSUME NEW k \in 1..Len(r), NEW l \in 1..Len(r), r[k] = r[l],
                          k \in 1..Len(p), l \notin 1..Len(p)
                   PROVE  FALSE
        OBVIOUS
      <4>1. p[k] = r[k] /\ l - Len(p) \in 1..Len(q) /\ q[l - Len(p)] = r[k]
        BY <1>1
      <4>2. OnList(r[k], p) /\ OnList(r[k], q)
        BY <4>1 DEF OnList
      <4> QED BY <1>4, <4>2
    <3> QED BY <3>1
  <2> QED BY <2>1, <2>2, <2>3
<1> QED BY <1>1, <1>3, <1>4 DEF r

\* A list turned round.
LEMMA TurnedRound ==
  ASSUME NEW S, NEW q \in Seq(S), NEW r,
         r = [i \in DOMAIN q |-> q[Len(q) + 1 - i]]
  PROVE  /\ r \in Seq(S)
         /\ \A y : OnList(y, r) <=> OnList(y, q)
         /\ Distinct(q) => Distinct(r)
<1>1. Len(q) \in Nat /\ DOMAIN q = 1..Len(q)
  BY LenProperties
<1>2. \A i \in 1..Len(q) : Len(q) + 1 - i \in 1..Len(q) /\ q[i] \in S
  BY <1>1, ElementOfSeq
<1>3. /\ r \in Seq(S) /\ Len(r) = Len(q)
      /\ \A i \in 1..Len(q) : r[i] = q[Len(q) + 1 - i]
  <2>1. r = [i \in 1..Len(q) |-> q[Len(q) + 1 - i]]
    BY <1>1
  <2>2. \A i \in 1..Len(q) : q[Len(q) + 1 - i] \in S
    BY <1>1, <1>2
  <2>3. r \in Seq(S)
    BY <1>1, <2>1, <2>2, IsASeq
  <2>4. DOMAIN r = 1..Len(q)
    BY <2>1
  <2> QED BY <1>1, <2>1, <2>3, <2>4, LenProperties
<1>4. ASSUME NEW y PROVE OnList(y, r) <=> OnList(y, q)
  <2>1. ASSUME NEW i \in 1..Len(q), q[i] = y PROVE OnList(y, r)
    <3>1. Len(q) + 1 - i \in 1..Len(r) /\ r[Len(q) + 1 - i] = q[Len(q) + 1 - (Len(q) + 1 - i)]
      BY <1>1, <1>2, <1>3
    <3>2. Len(q) + 1 - (Len(q) + 1 - i) = i
      BY <1>1
    <3> QED BY <2>1, <3>1, <3>2 DEF OnList
  <2>2. OnList(y, r) => OnList(y, q)
    BY <1>2, <1>3 DEF OnList
  <2> QED BY <2>1, <2>2 DEF OnList
<1>5. ASSUME Distinct(q) PROVE Distinct(r)
  <2> SUFFICES ASSUME NEW i \in 1..Len(r), NEW j \in 1..Len(r), r[i] = r[j]
               PROVE  i = j
    BY DEF Distinct
  <2>1. Len(q) + 1 - i = Len(q) + 1 - j
    <3> DEFINE k == Len(q) + 1 - i
               l == Len(q) + 1 - j
    <3>1. k \in 1..Len(q) /\ l \in 1..Len(q) /\ r[i] = q[k] /\ r[j] = q[l]
      BY <1>2, <1>3
    <3> HIDE DEF k, l
    <3>2. k = l
      BY <1>5, <3>1 DEF Distinct
    <3> QED BY <3>2 DEF k, l
  <2> QED BY <1>1, <1>3, <2>1
<1> QED BY <1>3, <1>4, <1>5
=============================================================================
