---------------------------- MODULE FutexProofs ----------------------------
(***************************************************************************)
(* Proofs about Futex, for any tasks, words, pages, buckets, programs,     *)
(* batch size and bounds: the nodes in the buckets are live, a waiter      *)
(* whose word has changed has a waker on the way, and a PI lock has one    *)
(* holder, named by its word.                                              *)
(***************************************************************************)
EXTENDS Futex, WaitListProofs

\* The contents of a word, and that FUTEX_WAITERS is never alone in it.
Vals == [n : Nat, tid : Tasks \cup {None}, wtr : BOOLEAN, died : BOOLEAN]
Sane(v) == v \in Vals /\ (v.wtr /\ v.tid = None => v.died)

-----------------------------------------------------------------------------
(* User memory.                                                            *)

MemType ==
  /\ uses \in [Tasks -> [waits : SUBSET Words, writes : SUBSET Words]]
  /\ page \in [Words -> Pages] /\ cow \subseteq CowWords
  /\ val \in [Pages -> Vals]

\* Words only part: what shares a page now has always shared it, and a word
\* that copy-on-write has moved is alone on its page.
Parted ==
  /\ \A v, w \in Words : page[v] = page[w] => PageOf[v] = PageOf[w]
  /\ \A w \in CowWords \ cow, v \in Words : page[v] = page[w] => v = w

\* A PI word is no counter.
Contents ==
  /\ \A p \in Pages : Sane(val[p])
  /\ \A w \in PiWords : val[page[w]].n = 0

\* A task holds words it uses as locks, one on a page, and the word says so.
Holders ==
  \A t \in Tasks :
    /\ held[t] \subseteq uses[t].writes \cap PiWords
    /\ \A w \in held[t] : val[page[w]].tid = t
    /\ \A v, w \in held[t] : page[v] = page[w] => v = w

-----------------------------------------------------------------------------
(* Calls.                                                                  *)

PCs == {"user", "prepare", "link", "cancel", "commit", "asleep", "unlink", "relock",
        "opread", "opwrite", "key", "collect", "flush", "phase", "requeue", "lock",
        "exit", "robust", "dead"}
Args == [w : Words \cup {None}, exp : Vals \cup {None}, timed : BOOLEAN,
         ret : {"NONE", "EVENT", "TIMEOUT", "SIGNAL", "FATAL", "EXIT", "CANCEL"},
         own : Buckets \cup {None}, nr : Nat \cup {All}, retry : BOOLEAN,
         priv : BOOLEAN, key : Pages \cup {None},
         then : {"user", "requeue", "wake2", "exit"}, try : BOOLEAN,
         w2 : Words \cup {None}, key2 : Pages \cup {None}]

ParkType ==
  /\ wait \in [Tasks -> {"IDLE", "PREPARING", "PARKED", "WOKEN"}]
  /\ number \in [Tasks -> 0..MaxWaits]
  /\ why \in [Tasks -> {"NONE", "EVENT", "TIMEOUT", "SIGNAL", "FATAL", "EXIT", "CANCEL"}]
  /\ sig \subseteq Tasks /\ kick \subseteq Tasks /\ sent \in 0..MaxSignals

\* The variables of the calls; the nodes and the buckets.
CtlType ==
  /\ pc \in [Tasks -> PCs] /\ arg \in [Tasks -> Args]
  /\ held \in [Tasks -> SUBSET Words] /\ out \in [Tasks -> Seq(Tasks \X Nat)]
ListType == node \in [Tasks -> Nodes \cup {None}] /\ queue \in [Buckets -> Seq(Tasks)]

Waits == {"prepare", "link", "cancel", "commit", "asleep", "unlink", "relock"}
Wakes == {"opread", "opwrite", "key", "collect", "flush", "phase", "requeue"}
Keyed == {"collect", "flush", "phase", "requeue"}

\* What a call knows at point c: a are its arguments, o its wake list, n the
\* waits so far, h the locks held, ws the words the task may write.
Fits(c, a, o, n, h, ws) ==
  /\ c \in Waits \cup Wakes => a.w \in Words
  /\ c \in Waits /\ a.w \in PiWords => a.w \in ws
  /\ c = "lock" => a.w \in ws \cap PiWords
  /\ c = "prepare" => n < MaxWaits
  /\ c = "relock" => a.own \in Buckets
  /\ c \in Wakes /\ a.then \in {"requeue", "wake2"} => a.retry /\ a.w2 \in Targets
  /\ c \in {"opread", "opwrite"} => a.then = "wake2"
  /\ c = "requeue" => a.then = "requeue"
  /\ c \in Keyed => a.key \in Pages /\ (a.then \in {"requeue", "wake2"} => a.key2 \in Pages)
  /\ c = "opwrite" => Sane(a.exp)
  /\ c = "robust" => a.w \in h /\ Sane(a.exp) /\ a.exp.n = 0
  /\ o # <<>> <=> c = "flush"
  /\ Len(o) <= Batch
CallOf(t) == Fits(pc[t], arg[t], out[t], number[t], held[t], uses[t].writes)
Calling == \A t \in Tasks : CallOf(t)

\* A node exists from the link to the unlink, carries the number of its task's
\* wait, and sits in the bucket of its page until a requeue moves it.
NodeOf(t) ==
  /\ pc[t] \in {"commit", "unlink", "relock"} => node[t] # None
  /\ node[t] # None =>
       /\ pc[t] \in {"commit", "asleep", "unlink", "relock"}
       /\ node[t].seq = number[t]
       /\ node[t].w \notin Targets => /\ \E v \in Words : node[t].p = page[v]
                                      /\ node[t].at \in {None, Bucket[node[t].p]}
NodesFit == \A t \in Tasks : NodeOf(t)

\* The entries of the buckets are the linked nodes.
Linked ==
  \A b \in Buckets :
    /\ Distinct(queue[b])
    /\ \A t \in Tasks : OnList(t, queue[b]) <=> node[t] # None /\ node[t].at = b

FInv == /\ MemType /\ Parted /\ Contents /\ Holders /\ ParkType /\ CtlType
        /\ ListType /\ Calling /\ NodesFit /\ Linked

-----------------------------------------------------------------------------
(* Wakers.                                                                 *)

\* No store will move the word to another page.
Stuck(w) == w \notin cow \/ \A v \in Words \ {w} : page[v] # page[w]

\* Notifier n will reach t whatever else happens: its word stays where it is,
\* and it is the last to have changed it.
Reaches(n, t) ==
  /\ WillReach(n, t)
  /\ pc[n] \in {"opread", "opwrite", "key"} => Stuck(arg[n].w)
  /\ pc[n] = "key" /\ arg[n].then = "requeue" => arg[n].exp = val[page[arg[n].w]]

Overdue(t) ==
  /\ Outdated(t) /\ node[t].w \notin Targets \cup PiWords
  /\ page[node[t].w] = node[t].p
Detached(t) == Waiting(t) /\ node[t] # None /\ node[t].at = None

WInv ==
  \A t \in Tasks :
    /\ Overdue(t) => \E n \in Tasks : Reaches(n, t)
    /\ Detached(t) => \E n \in Tasks : OnList(<<t, number[t]>>, out[n])

-----------------------------------------------------------------------------
(* A store, in place or to a fresh page.                                   *)

MemInv == MemType /\ Parted /\ Contents

\* Word w is now on page p, which holds x.
StoredAt(w, p, x) ==
  /\ p \in Pages /\ uses' = uses
  /\ page' = [page EXCEPT ![w] = p] /\ val' = [val EXCEPT ![p] = x]
  /\ \/ p = page[w] /\ cow' = cow /\ Stuck(w)
     \/ /\ w \in cow /\ cow' = cow \ {w} /\ \A v \in Words : page[v] # p
        /\ \E v \in Words \ {w} : page[v] = page[w]

\* Store() does one of the two (handle_cow_fault_locked()).
LEMMA StoreEffect ==
  ASSUME MemType, NEW w \in Words, NEW x, Store(w, x)
  PROVE  \E p \in Pages : StoredAt(w, p, x)
<1>1. page \in [Words -> Pages] /\ page[w] \in Pages /\ uses' = uses
  BY DEF MemType, Store
<1>2. CASE w \in cow /\ \E v \in Words \ {w} : page[v] = page[w]
  <2> PICK p \in Pages \ {page[v] : v \in Words} :
             page' = [page EXCEPT ![w] = p] /\ val' = [val EXCEPT ![p] = x]
    BY <1>2 DEF Store
  <2>1. cow' = cow \ {w}
    BY <1>2 DEF Store
  <2>2. StoredAt(w, p, x)
    BY <1>1, <1>2, <2>1 DEF StoredAt
  <2> QED BY <2>2
<1>3. CASE ~(w \in cow /\ \E v \in Words \ {w} : page[v] = page[w])
  <2>1. /\ val' = [val EXCEPT ![page[w]] = x] /\ page' = page /\ cow' = cow
    BY <1>3 DEF Store
  <2>2. page' = [page EXCEPT ![w] = page[w]]
    BY <1>1, <2>1
  <2>3. StoredAt(w, page[w], x)
    BY <1>1, <1>3, <2>1, <2>2 DEF StoredAt, Stuck
  <2> QED BY <1>1, <2>3
<1> QED BY <1>2, <1>3

\* What each word reads after it, and what shares a page.
LEMMA StoreReads ==
  ASSUME MemType, NEW w \in Words, NEW x, NEW p, StoredAt(w, p, x)
  PROVE  /\ page'[w] = p /\ \A v \in Words : v # w => page'[v] = page[v]
         /\ \A u, v \in Words : page'[u] = page'[v] => page[u] = page[v]
         /\ \A v \in Words : page'[v] = p => /\ page[v] = page[w]
                                             /\ val'[page'[v]] = x
         /\ \A v \in Words : page'[v] # p => /\ v # w /\ page'[v] = page[v]
                                             /\ val'[page'[v]] = val[page[v]]
         /\ \A v \in Words : \E u \in Words : page'[u] = page[v]
<1>1. page \in [Words -> Pages] /\ val \in [Pages -> Vals] /\ p \in Pages
      /\ page' = [page EXCEPT ![w] = p] /\ val' = [val EXCEPT ![p] = x]
  BY DEF MemType, StoredAt
<1>2. page'[w] = p /\ \A v \in Words : v # w => page'[v] = page[v]
  BY <1>1
<1>3. \/ p = page[w]
      \/ (\A v \in Words : page[v] # p) /\ \E v \in Words \ {w} : page[v] = page[w]
  BY DEF StoredAt
<1>4. \A u, v \in Words : page'[u] = page'[v] => page[u] = page[v]
  BY <1>2, <1>3
<1>5. \A v \in Words : page'[v] = p => page[v] = page[w] /\ val'[page'[v]] = x
  BY <1>1, <1>2, <1>3
<1>6. \A v \in Words : page'[v] # p => /\ v # w /\ page'[v] = page[v]
                                       /\ val'[page'[v]] = val[page[v]]
  BY <1>1, <1>2
<1>7. \A v \in Words : \E u \in Words : page'[u] = page[v]
  BY <1>2, <1>3
<1> QED BY <1>2, <1>4, <1>5, <1>6, <1>7

\* A sane value stored to a word keeps memory as it should be.
LEMMA StoreMem ==
  ASSUME MemInv, NEW w \in Words, NEW x, NEW p, StoredAt(w, p, x),
         Sane(x), w \in PiWords => x.n = 0
  PROVE  MemInv'
<1>1. MemType /\ Parted /\ Contents /\ p \in Pages
  BY DEF MemInv, StoredAt
<1>2. MemType'
  BY <1>1 DEF MemType, StoredAt, Sane
<1>3. Parted'
  <2>1. \A u, v \in Words : page'[u] = page'[v] => page[u] = page[v]
    BY <1>1, StoreReads
  <2>2. \A v, u \in Words : page'[v] = page'[u] => PageOf[v] = PageOf[u]
    BY <1>1, <2>1 DEF Parted
  <2>3. ASSUME NEW u \in CowWords \ cow', NEW v \in Words, page'[v] = page'[u]
        PROVE  v = u
    <3>1. CASE u \notin cow
      BY <1>1, <2>1, <2>3, <3>1, FutexAssumption DEF Parted
    <3>2. CASE u \in cow
      <4>1. u = w /\ \A z \in Words : page[z] # p
        BY <2>3, <3>2 DEF StoredAt
      <4>2. page'[u] = p /\ \A z \in Words : z # w => page'[z] = page[z]
        BY <1>1, <4>1, StoreReads
      <4> QED BY <2>3, <4>1, <4>2
    <3> QED BY <3>1, <3>2
  <2> QED BY <2>2, <2>3 DEF Parted
<1>4. Contents'
  <2>1. \A z \in Pages : Sane(val[z]) /\ val'[z] = IF z = p THEN x ELSE val[z]
    BY <1>1 DEF MemType, StoredAt, Contents
  <2>2. \A z \in Pages : Sane(val'[z])
    BY <2>1
  <2>3. ASSUME NEW v \in PiWords PROVE val'[page'[v]].n = 0
    <3>1. v \in Words
      BY FutexAssumption
    <3>2. CASE page'[v] = p
      <4>1. page[v] = page[w] /\ val'[page'[v]] = x
        BY <1>1, <3>1, <3>2, StoreReads
      <4>2. w \in PiWords
        BY <1>1, <3>1, <4>1, FutexAssumption DEF Parted
      <4> QED BY <4>1, <4>2
    <3>3. CASE page'[v] # p
      <4>1. val'[page'[v]] = val[page[v]]
        BY <1>1, <3>1, <3>3, StoreReads
      <4> QED BY <1>1, <4>1 DEF Contents
    <3> QED BY <3>2, <3>3
  <2>4. \A z \in Pages : Sane(val[z])'
    BY <2>2 DEF Sane
  <2> QED BY <2>3, <2>4 DEF Contents
<1> QED BY <1>2, <1>3, <1>4 DEF MemInv

\* Who holds what stays right when w is stored to: nobody gets a lock but w, and
\* the new word names whoever holds it.
LEMMA HoldersStore ==
  ASSUME MemInv, Holders, NEW w \in Words, NEW x, NEW p, StoredAt(w, p, x),
         \A u \in Tasks : \A v \in held'[u] :
           \/ v \in held[u] /\ (page[v] = page[w] => x.tid = u)
           \/ /\ v = w /\ x.tid = u /\ w \in uses[u].writes \cap PiWords
              /\ \A z \in held[u] : page[z] # page[w]
  PROVE  Holders'
<1>1. MemType /\ uses' = uses
  BY DEF MemInv, StoredAt
<1> SUFFICES ASSUME NEW u \in Tasks
             PROVE  /\ held'[u] \subseteq uses[u].writes \cap PiWords
                    /\ \A v \in held'[u] : val'[page'[v]].tid = u
                    /\ \A v, z \in held'[u] : page'[v] = page'[z] => v = z
  BY <1>1 DEF Holders
<1>2. held'[u] \subseteq uses[u].writes \cap PiWords
  BY DEF Holders
<1>3. held'[u] \subseteq Words
  BY <1>2, FutexAssumption
<1>4. ASSUME NEW v \in held'[u] PROVE val'[page'[v]].tid = u
  <2>1. CASE page'[v] = p
    <3>1. page[v] = page[w] /\ val'[page'[v]] = x
      BY <1>1, <1>3, <2>1, StoreReads
    <3> QED BY <3>1
  <2>2. CASE page'[v] # p
    <3>1. v # w /\ val'[page'[v]] = val[page[v]]
      BY <1>1, <1>3, <2>2, StoreReads
    <3> QED BY <3>1 DEF Holders
  <2> QED BY <2>1, <2>2
<1>5. ASSUME NEW v \in held'[u], NEW z \in held'[u], page'[v] = page'[z]
      PROVE  v = z
  <2>1. page[v] = page[z]
    BY <1>1, <1>3, <1>5, StoreReads
  <2> QED BY <2>1 DEF Holders
<1> QED BY <1>2, <1>4, <1>5

\* A store to a word that is no lock leaves the holders alone.
LEMMA HoldersPlain ==
  ASSUME MemInv, Holders, NEW w \in Words, NEW x, NEW p, StoredAt(w, p, x),
         w \notin PiWords, held' = held
  PROVE  Holders'
<1>1. \A u \in Tasks : \A v \in held[u] : page[v] # page[w]
  BY FutexAssumption DEF MemInv, Parted, Holders
<1> QED BY <1>1, HoldersStore

\* An owner lets go.
LEMMA HoldersRelease ==
  ASSUME MemInv, Holders, CtlType, NEW w \in Words, NEW x, NEW p, StoredAt(w, p, x),
         NEW t \in Tasks, w \in held[t], held' = [held EXCEPT ![t] = @ \ {w}]
  PROVE  Holders'
<1>1. \A u \in Tasks : \A v \in held[u] : page[v] = page[w] => u = t /\ v = w
  BY DEF Holders
<1>2. \A u \in Tasks : held'[u] \subseteq held[u] /\ w \notin held'[t]
  BY DEF CtlType
<1> QED BY <1>1, <1>2, HoldersStore

\* A free word is claimed.
LEMMA HoldersClaim ==
  ASSUME MemInv, Holders, CtlType, NEW w \in Words, NEW x, NEW p, StoredAt(w, p, x),
         NEW t \in Tasks, w \in uses[t].writes \cap PiWords,
         val[page[w]].tid = None, x.tid = t, held' = [held EXCEPT ![t] = @ \cup {w}]
  PROVE  Holders'
<1>1. \A u \in Tasks : \A v \in held[u] : page[v] # page[w]
  BY FutexAssumption DEF Holders
<1>2. \A u \in Tasks : \A v \in held'[u] : v \in held[u] \/ (u = t /\ v = w)
  BY DEF CtlType
<1> QED BY <1>1, <1>2, HoldersStore

\* FUTEX_WAITERS is set for the owner.
LEMMA HoldersFlag ==
  ASSUME MemInv, Holders, NEW w \in Words, NEW x, NEW p, StoredAt(w, p, x),
         x.tid = val[page[w]].tid, held' = held
  PROVE  Holders'
BY HoldersStore DEF Holders

\* Without a store and with fewer or the same locks nothing changes.
LEMMA MemKept ==
  ASSUME MemInv, Holders, UNCHANGED memVars, held' = held
  PROVE  MemInv' /\ Holders'
<1>1. UNCHANGED <<uses, page, cow, val>>
  BY DEF memVars
<1>2. MemInv'
  BY <1>1 DEF MemInv, MemType, Parted, Contents, Sane
<1> QED BY <1>1, <1>2 DEF Holders

\* The values the code stores.
LEMMA Values ==
  ASSUME NEW t \in Tasks, NEW v, Sane(v)
  PROVE  /\ Sane(Free) /\ Free.n = 0 /\ Free.tid = None
         /\ Sane(Owner(t)) /\ Owner(t).n = 0 /\ Owner(t).tid = t
         /\ Sane(Incremented(v))
         /\ Sane([v EXCEPT !.tid = t]) /\ [v EXCEPT !.tid = t].n = v.n
         /\ [v EXCEPT !.tid = t].tid = t
         /\ v.tid # None => Sane([v EXCEPT !.wtr = TRUE])
         /\ [v EXCEPT !.wtr = TRUE].n = v.n /\ [v EXCEPT !.wtr = TRUE].tid = v.tid
         /\ Sane([v EXCEPT !.tid = None, !.died = TRUE])
         /\ [v EXCEPT !.tid = None, !.died = TRUE].n = v.n
<1>1. /\ v \in Vals /\ v.n \in Nat /\ v.tid \in Tasks \cup {None}
      /\ v.wtr \in BOOLEAN /\ v.died \in BOOLEAN /\ t # None
      /\ v.wtr /\ v.tid = None => v.died
  BY FutexAssumption DEF Sane, Vals
<1>2. Sane(Free) /\ Free.n = 0 /\ Free.tid = None
  BY DEF Sane, Vals, Free
<1>3. Sane(Owner(t)) /\ Owner(t).n = 0 /\ Owner(t).tid = t
  BY DEF Sane, Vals, Free, Owner
<1>4. Sane(Incremented(v))
  BY <1>1 DEF Sane, Vals, Incremented
<1>5. Sane([v EXCEPT !.tid = t]) /\ [v EXCEPT !.tid = t].n = v.n
      /\ [v EXCEPT !.tid = t].tid = t
  BY <1>1 DEF Sane, Vals
<1>6. /\ v.tid # None => Sane([v EXCEPT !.wtr = TRUE])
      /\ [v EXCEPT !.wtr = TRUE].n = v.n /\ [v EXCEPT !.wtr = TRUE].tid = v.tid
  BY <1>1 DEF Sane, Vals
<1>7. /\ Sane([v EXCEPT !.tid = None, !.died = TRUE])
      /\ [v EXCEPT !.tid = None, !.died = TRUE].n = v.n
  BY <1>1 DEF Sane, Vals
<1> QED BY <1>2, <1>3, <1>4, <1>5, <1>6, <1>7

\* A claimable word has no owner, and one that is not has one.
LEMMA ClaimableIsFree ==
  ASSUME NEW v, Sane(v), v.n = 0
  PROVE  Claimable(v) <=> v.tid = None
<1>1. Claimable(v) => v.tid = None
  BY DEF Claimable
<1>2. ASSUME v.tid = None, ~v.died PROVE v = Free
  <2>1. v \in Vals /\ v.wtr = FALSE /\ v.died = FALSE
    BY <1>2 DEF Sane, Vals
  <2> QED BY <1>2, <2>1 DEF Vals, Free
<1> QED BY <1>1, <1>2 DEF Claimable

\* Every step keeps memory and the holders of the locks as they should be.
LEMMA MemStep ==
  ASSUME FInv, NEW t \in Tasks, Step(t)
  PROVE  MemInv' /\ Holders'
<1>0. /\ MemInv /\ MemType /\ Contents /\ Holders /\ CtlType /\ CallOf(t)
      /\ uses[t].writes \subseteq Words
  BY DEF FInv, MemInv, Calling, MemType
<1>1. \A w \in Words : page[w] \in Pages /\ Sane(val[page[w]])
  BY <1>0 DEF MemType, Contents
<1>2. \A w \in PiWords : w \in Words /\ val[page[w]].n = 0
  BY <1>0, FutexAssumption DEF Contents
<1>3. ASSUME NEW w, NEW c, NEW w2, NEW priv, Notify(t, w, c, w2, priv)
      PROVE  MemInv' /\ Holders'
  <2>1. w \in Words \ PiWords /\ Store(w, Incremented(val[page[w]])) /\ held' = held
    BY <1>0, <1>3 DEF Notify
  <2>2. PICK p \in Pages : StoredAt(w, p, Incremented(val[page[w]]))
    BY <1>0, <2>1, StoreEffect
  <2>3. Sane(Incremented(val[page[w]]))
    BY <1>1, <2>1, Values, Zenon
  <2> QED BY <1>0, <2>1, <2>2, <2>3, StoreMem, HoldersPlain
<1>4. CASE WakeOpWrite(t)
  <2> DEFINE w == arg[t].w2
             x == Incremented(arg[t].exp)
  <2>1. w \in Words \ PiWords /\ Store(w, x) /\ held' = held /\ Sane(arg[t].exp)
    BY <1>0, <1>4, FutexAssumption DEF WakeOpWrite, CallOf, Fits, Wakes
  <2>2. Sane(x)
    BY <2>1, Values, Zenon
  <2> HIDE DEF w, x
  <2>3. PICK p \in Pages : StoredAt(w, p, x)
    BY <1>0, <2>1, StoreEffect
  <2> QED BY <1>0, <2>1, <2>2, <2>3, StoreMem, HoldersPlain
<1>5. ASSUME NEW w, UserLock(t, w) PROVE MemInv' /\ Holders'
  <2>1. /\ w \in Words /\ w \in uses[t].writes \cap PiWords /\ val[page[w]] = Free
        /\ Store(w, Owner(t)) /\ held' = [held EXCEPT ![t] = @ \cup {w}]
    BY <1>0, <1>5 DEF UserLock
  <2>2. Sane(Owner(t)) /\ Owner(t).n = 0 /\ Owner(t).tid = t /\ Free.tid = None
    BY <1>1, <2>1, Values, Zenon
  <2>3. PICK p \in Pages : StoredAt(w, p, Owner(t))
    BY <1>0, <2>1, StoreEffect
  <2> QED BY <1>0, <2>1, <2>2, <2>3, StoreMem, HoldersClaim
<1>6. ASSUME NEW w, UserUnlock(t, w) \/ PiRelease(t, w) PROVE MemInv' /\ Holders'
  <2>1. /\ w \in held[t] /\ w \in Words
        /\ Store(w, Free) /\ held' = [held EXCEPT ![t] = @ \ {w}]
    BY <1>0, <1>6 DEF UserUnlock, PiRelease, Released, Holders
  <2>2. Sane(Free) /\ Free.n = 0
    BY <1>1, <2>1, Values, Zenon
  <2>3. PICK p \in Pages : StoredAt(w, p, Free)
    BY <1>0, <2>1, StoreEffect
  <2> QED BY <1>0, <2>1, <2>2, <2>3, StoreMem, HoldersRelease
<1>7. CASE RobustWrite(t)
  <2> DEFINE w == arg[t].w
             x == [arg[t].exp EXCEPT !.tid = None, !.died = TRUE]
  <2>1. /\ w \in held[t] /\ w \in Words /\ Sane(arg[t].exp) /\ arg[t].exp.n = 0
        /\ Store(w, x) /\ held' = [held EXCEPT ![t] = @ \ {w}]
    BY <1>0, <1>7 DEF RobustWrite, CallOf, Fits, Holders
  <2>2. Sane(x) /\ x.n = 0
    BY <2>1, Values, Zenon
  <2> HIDE DEF w, x
  <2>3. PICK p \in Pages : StoredAt(w, p, x)
    BY <1>0, <2>1, StoreEffect
  <2> QED BY <1>0, <2>1, <2>2, <2>3, StoreMem, HoldersRelease
<1>8. CASE PiAcquire(t)
  <2> DEFINE w == arg[t].w
             v == val[page[w]]
  <2>1. /\ w \in Words /\ w \in uses[t].writes \cap PiWords
        /\ Sane(v) /\ v.n = 0
    BY <1>0, <1>1, <1>2, <1>8 DEF PiAcquire, CallOf, Fits
  <2>2. \/ /\ Claimable(v) /\ Store(w, [v EXCEPT !.tid = t])
           /\ held' = [held EXCEPT ![t] = @ \cup {w}]
        \/ UNCHANGED <<memVars, held>>
        \/ ~Claimable(v) /\ Store(w, [v EXCEPT !.wtr = TRUE]) /\ held' = held
    BY <1>8 DEF PiAcquire
  <2> HIDE DEF w
  <2>3. CASE /\ Claimable(v) /\ Store(w, [v EXCEPT !.tid = t])
             /\ held' = [held EXCEPT ![t] = @ \cup {w}]
    <3> DEFINE x == [v EXCEPT !.tid = t]
    <3>1. Sane(x) /\ x.n = 0 /\ x.tid = t /\ v.tid = None
      BY <2>1, <2>3, Values, ClaimableIsFree, Zenon
    <3> HIDE DEF x
    <3>2. PICK p \in Pages : StoredAt(w, p, x)
      BY <1>0, <2>1, <2>3, StoreEffect DEF x
    <3> QED BY <1>0, <2>1, <2>3, <3>1, <3>2, StoreMem, HoldersClaim
  <2>4. CASE UNCHANGED <<memVars, held>>
    BY <1>0, <2>4, MemKept
  <2>5. CASE ~Claimable(v) /\ Store(w, [v EXCEPT !.wtr = TRUE]) /\ held' = held
    <3> DEFINE x == [v EXCEPT !.wtr = TRUE]
    <3>1. Sane(x) /\ x.n = 0 /\ x.tid = v.tid
      BY <2>1, <2>5, Values, ClaimableIsFree, Zenon
    <3> HIDE DEF x
    <3>2. PICK p \in Pages : StoredAt(w, p, x)
      BY <1>0, <2>1, <2>5, StoreEffect DEF x
    <3> QED BY <1>0, <2>1, <2>5, <3>1, <3>2, StoreMem, HoldersFlag
  <2> QED BY <2>2, <2>3, <2>4, <2>5
<1>9. CASE UNCHANGED <<memVars, held>>
  BY <1>0, <1>9, MemKept
<1>10. ASSUME NEW w, NEW d, WaitCall(t, w, d) \/ LockCall(t, w, d)
       PROVE  UNCHANGED <<memVars, held>>
  BY <1>10 DEF WaitCall, LockCall
<1>11. Prepare(t) \/ Link(t) \/ Cancel(t) \/ Commit(t) \/ Finish(t) \/ Unlink(t)
         \/ UnlinkLocked(t) \/ WakeOpRead(t) \/ Key(t) \/ Collect(t) \/ Flush(t)
         \/ Phase(t) \/ Requeue(t) \/ Exit(t) \/ RobustRead(t) \/ SigSend(t)
         \/ SigKick(t) \/ SigTake(t) \/ DeadlinePasses(t) \/ Timeout(t)
       => UNCHANGED <<memVars, held>>
  BY Zenon DEF Prepare, Link, Cancel, Commit, Finish, Unlink, UnlinkLocked, WakeOpRead,
         Key, Collect, Flush, Phase, Requeue, Exit, RobustRead, SigSend, SigKick,
         SigTake, DeadlinePasses, Timeout, callVars
<1> QED BY <1>3, <1>4, <1>5, <1>6, <1>7, <1>8, <1>9, <1>10, <1>11 DEF Step

-----------------------------------------------------------------------------
(* Calls.                                                                  *)

\* The control state of t becomes what is given; nobody else's changes.
Ctl(t, c, a, o, n, h) ==
  /\ pc' = [pc EXCEPT ![t] = c] /\ arg' = [arg EXCEPT ![t] = a]
  /\ out' = [out EXCEPT ![t] = o] /\ number' = [number EXCEPT ![t] = n]
  /\ held' = [held EXCEPT ![t] = h] /\ uses' = uses

\* A step that leaves t at a point it fits keeps all calls as they should be.
LEMMA CallFrame ==
  ASSUME FInv, NEW t \in Tasks, NEW c \in PCs, NEW a \in Args,
         NEW o \in Seq(Tasks \X Nat), NEW n, NEW h \in SUBSET Words,
         Ctl(t, c, a, o, n, h), Fits(c, a, o, n, h, uses[t].writes)
  PROVE  CtlType' /\ Calling'
<1>1. CtlType /\ Calling /\ number \in [Tasks -> 0..MaxWaits]
  BY DEF FInv, ParkType
<1>2. CtlType'
  BY <1>1 DEF CtlType, Ctl
<1>3. ASSUME NEW u \in Tasks
      PROVE  Fits(pc'[u], arg'[u], out'[u], number'[u], held'[u], uses'[u].writes)
  <2>1. CASE u = t
    <3>1. /\ pc'[t] = c /\ arg'[t] = a /\ out'[t] = o /\ number'[t] = n
          /\ held'[t] = h /\ uses' = uses
      BY <1>1 DEF CtlType, Ctl
    <3> QED BY <2>1, <3>1
  <2>2. CASE u # t
    <3>1. /\ pc'[u] = pc[u] /\ arg'[u] = arg[u] /\ out'[u] = out[u]
          /\ number'[u] = number[u] /\ held'[u] = held[u] /\ uses' = uses
      BY <1>1, <2>2 DEF CtlType, Ctl
    <3> QED BY <1>1, <3>1 DEF Calling, CallOf
  <2> QED BY <2>1, <2>2
<1>4. ASSUME NEW u \in Tasks PROVE CallOf(u)'
  BY <1>3 DEF CallOf, Fits, Sane
<1> QED BY <1>2, <1>4 DEF Calling

\* What is true of every task between calls.
LEMMA CallNow ==
  ASSUME FInv, NEW t \in Tasks
  PROVE  /\ pc[t] \in PCs /\ arg[t] \in Args /\ out[t] \in Seq(Tasks \X Nat)
         /\ held[t] \in SUBSET Words /\ number[t] \in 0..MaxWaits
         /\ uses[t].writes \in SUBSET Words /\ uses[t].waits \in SUBSET Words
         /\ Fits(pc[t], arg[t], out[t], number[t], held[t], uses[t].writes)
         /\ pc = [pc EXCEPT ![t] = pc[t]] /\ arg = [arg EXCEPT ![t] = arg[t]]
         /\ out = [out EXCEPT ![t] = out[t]] /\ held = [held EXCEPT ![t] = held[t]]
         /\ number = [number EXCEPT ![t] = number[t]]
         /\ \A w \in Words : /\ page[w] \in Pages /\ Sane(val[page[w]])
                             /\ val[page[w]] \in Vals
         /\ MaxWaits \in Nat /\ Batch \in Nat
<1>1. MemType /\ CtlType /\ ParkType /\ Contents /\ Calling
  BY DEF FInv
<1>2. \A w \in Words : page[w] \in Pages /\ Sane(val[page[w]]) /\ val[page[w]] \in Vals
  BY <1>1 DEF MemType, Contents
<1> QED BY <1>1, <1>2, FutexAssumption DEF MemType, CtlType, ParkType, Calling, CallOf

\* Nothing is left of a call that has returned.
LEMMA Returned ==
  ASSUME NEW n, NEW h, NEW ws
  PROVE  NoCall \in Args /\ Fits("user", NoCall, <<>>, n, h, ws)
<1>1. NoCall \in Args
  BY DEF NoCall, Args
<1>2. Len(<<>>) = 0 /\ 0 <= Batch
  BY FutexAssumption
<1> QED BY <1>1, <1>2 DEF Fits, Waits, Wakes, Keyed

\* WaitReturns() ends a wait, or has a PI lock tried again.
LEMMA WaitOver ==
  ASSUME FInv, NEW t \in Tasks, NEW ok \in BOOLEAN, NEW n, pc[t] \in Waits,
         WaitReturns(t, ok), out' = out, held' = held, uses' = uses,
         number' = [number EXCEPT ![t] = n]
  PROVE  CtlType' /\ Calling'
<1>1. out[t] = <<>> /\ (arg[t].w \in PiWords => arg[t].w \in uses[t].writes)
  BY CallNow DEF Fits, Waits
<1>2. CASE ok /\ arg[t].w \in PiWords
  <2> DEFINE a == [NoCall EXCEPT !.w = arg[t].w]
  <2>1. a \in Args /\ a.w = arg[t].w
    BY <1>2, FutexAssumption DEF NoCall, Args
  <2>2. Fits("lock", a, <<>>, n, held[t], uses[t].writes)
    <3>1. Len(<<>>) = 0 /\ 0 <= Batch
      BY FutexAssumption
    <3> HIDE DEF a
    <3> QED BY <1>1, <1>2, <2>1, <3>1 DEF Fits, Waits, Wakes, Keyed
  <2>3. Ctl(t, "lock", a, <<>>, n, held[t])
    BY <1>1, <1>2, CallNow DEF WaitReturns, Goto, Ctl
  <2>4. "lock" \in PCs /\ <<>> \in Seq(Tasks \X Nat) /\ held[t] \in SUBSET Words
    BY CallNow DEF PCs
  <2> HIDE DEF a
  <2> QED BY <2>1, <2>2, <2>3, <2>4, CallFrame
<1>3. CASE ~(ok /\ arg[t].w \in PiWords)
  <2>1. Ctl(t, "user", NoCall, <<>>, n, held[t])
    BY <1>1, <1>3, CallNow DEF WaitReturns, Goto, Ctl
  <2>2. "user" \in PCs /\ <<>> \in Seq(Tasks \X Nat) /\ held[t] \in SUBSET Words
    BY CallNow DEF PCs
  <2> QED BY <2>1, <2>2, Returned, CallFrame
<1> QED BY <1>2, <1>3

\* A step that only moves t to another point of its call.
LEMMA CallMoves ==
  ASSUME FInv, NEW t \in Tasks, NEW c \in PCs, NEW n, pc' = [pc EXCEPT ![t] = c],
         UNCHANGED <<arg, out, held, uses>>, number' = [number EXCEPT ![t] = n],
         Fits(c, arg[t], out[t], n, held[t], uses[t].writes)
  PROVE  CtlType' /\ Calling'
<1>1. Ctl(t, c, arg[t], out[t], n, held[t])
  BY CallNow DEF Ctl
<1>2. /\ arg[t] \in Args /\ out[t] \in Seq(Tasks \X Nat) /\ held[t] \in SUBSET Words
  BY CallNow
<1> QED BY <1>1, <1>2, CallFrame

\* futex_wait_ticks(): the calls stay as they should be.
LEMMA CallWait ==
  ASSUME FInv, NEW t \in Tasks,
         Prepare(t) \/ Link(t) \/ Cancel(t) \/ Commit(t) \/ Finish(t) \/ Unlink(t)
           \/ UnlinkLocked(t)
  PROVE  CtlType' /\ Calling'
<1> USE DEF memVars
<1>0. /\ arg[t] \in Args /\ number = [number EXCEPT ![t] = number[t]]
      /\ Fits(pc[t], arg[t], out[t], number[t], held[t], uses[t].writes)
      /\ NodeOf(t) /\ ListType /\ ParkType
  BY CallNow DEF FInv, NodesFit
<1>1. CASE Prepare(t)
  <2>1. pc[t] = "prepare" /\ UNCHANGED <<out, held, uses>>
    BY <1>1 DEF Prepare
  <2>2. CASE WaitReturns(t, FALSE) /\ (UNCHANGED parkVars \/ Park!Refuse(t))
    <3>1. PICK ok \in BOOLEAN : WaitReturns(t, ok)
      BY <2>2, Zenon
    <3>2. CASE UNCHANGED parkVars
      BY <1>0, <2>1, <3>1, <3>2, WaitOver DEF Waits, parkVars
    <3>3. CASE Park!Refuse(t)
      <4> DEFINE n == number[t] + 1
      <4>1. number' = [number EXCEPT ![t] = n]
        BY <3>3 DEF Park!Refuse
      <4>2. pc[t] \in Waits /\ out' = out /\ held' = held /\ uses' = uses
        BY <2>1 DEF Waits
      <4> HIDE DEF n
      <4> QED BY <3>1, <4>1, <4>2, WaitOver
    <3> QED BY <2>2, <3>2, <3>3
  <2>3. CASE /\ Goto(t, "link") /\ UNCHANGED arg
             /\ \/ Park!Begin(t, INTR, arg[t].timed)
                \/ Park!BeginOver(t, INTR, "SIGNAL")
    <3>1. number' = [number EXCEPT ![t] = number[t] + 1]
      BY <2>3 DEF Park!Begin, Park!BeginOver
    <3>2. Fits("link", arg[t], out[t], number[t] + 1, held[t], uses[t].writes)
      BY <1>0, <2>1 DEF Fits, Waits, Wakes, Keyed
    <3> QED BY <2>1, <2>3, <3>1, <3>2, CallMoves DEF PCs, Goto
  <2> QED BY <1>1, <2>2, <2>3 DEF Prepare
<1>2. CASE Link(t)
  <2>1. /\ pc[t] = "link" /\ UNCHANGED <<arg, out, held, uses, number>>
        /\ \E c \in {"commit", "cancel"} : pc' = [pc EXCEPT ![t] = c]
    BY <1>2, Zenon DEF Link, Goto, parkVars
  <2>2. \A c \in {"commit", "cancel"} :
          c \in PCs /\ Fits(c, arg[t], out[t], number[t], held[t], uses[t].writes)
    BY <1>0, <2>1 DEF Fits, Waits, Wakes, Keyed, PCs
  <2> QED BY <1>0, <2>1, <2>2, CallMoves, Zenon
<1>3. CASE Cancel(t) \/ Commit(t)
  <2>1. /\ pc[t] \in {"commit", "cancel"} /\ UNCHANGED <<arg, out, held, uses, number>>
        /\ pc' = [pc EXCEPT ![t] = "asleep"]
    BY <1>3 DEF Cancel, Commit, Goto, parkVars, Park!End, Park!Sleep
  <2>2. Fits("asleep", arg[t], out[t], number[t], held[t], uses[t].writes)
    BY <1>0, <2>1 DEF Fits, Waits, Wakes, Keyed
  <2> QED BY <1>0, <2>1, <2>2, CallMoves DEF PCs
<1>4. CASE Finish(t)
  <2>1. pc[t] = "asleep" /\ UNCHANGED <<out, held, uses, number>>
    BY <1>4 DEF Finish, Park!Retire
  <2>2. CASE WaitReturns(t, FALSE)
    <3>1. PICK ok \in BOOLEAN : WaitReturns(t, ok)
      BY <2>2, Zenon
    <3> QED BY <1>0, <2>1, <3>1, WaitOver DEF Waits
  <2>3. CASE Goto(t, "unlink") /\ arg' = [arg EXCEPT ![t].ret = why[t]]
    <3> DEFINE a == [arg[t] EXCEPT !.ret = why[t]]
    <3>1. a \in Args /\ a.w = arg[t].w
      BY <1>0 DEF Args, ParkType
    <3>2. Fits("unlink", a, out[t], number[t], held[t], uses[t].writes)
      <4> HIDE DEF a
      <4> QED BY <1>0, <2>1, <3>1 DEF Fits, Waits, Wakes, Keyed
    <3>3. Ctl(t, "unlink", a, out[t], number[t], held[t])
      BY <2>1, <2>3, CallNow DEF Ctl, Goto
    <3> HIDE DEF a
    <3>4. "unlink" \in PCs /\ out[t] \in Seq(Tasks \X Nat) /\ held[t] \in SUBSET Words
      BY CallNow DEF PCs
    <3> QED BY <3>1, <3>2, <3>3, <3>4, CallFrame
  <2> QED BY <1>4, <2>2, <2>3 DEF Finish
<1>5. WaitSucceeds(t) \in BOOLEAN
  BY DEF WaitSucceeds
<1>6. CASE Unlink(t)
  <2>1. pc[t] = "unlink" /\ UNCHANGED <<out, held, uses, number>>
    BY <1>6 DEF Unlink, parkVars
  <2>2. CASE WaitReturns(t, WaitSucceeds(t))
    BY <1>0, <1>5, <2>1, <2>2, WaitOver DEF Waits
  <2>3. CASE /\ Goto(t, "relock") /\ node[t].at # None
             /\ arg' = [arg EXCEPT ![t].own = node[t].at]
    <3> DEFINE a == [arg[t] EXCEPT !.own = node[t].at]
    <3>0. node[t].at \in Buckets
      BY <1>0, <2>1, <2>3 DEF NodeOf, ListType, Nodes
    <3>1. a \in Args /\ a.w = arg[t].w /\ a.own \in Buckets
      BY <1>0, <3>0 DEF Args
    <3>2. Fits("relock", a, out[t], number[t], held[t], uses[t].writes)
      <4> HIDE DEF a
      <4> QED BY <1>0, <2>1, <3>1 DEF Fits, Waits, Wakes, Keyed
    <3>3. Ctl(t, "relock", a, out[t], number[t], held[t])
      BY <2>1, <2>3, CallNow DEF Ctl, Goto
    <3> HIDE DEF a
    <3>4. "relock" \in PCs /\ out[t] \in Seq(Tasks \X Nat) /\ held[t] \in SUBSET Words
      BY CallNow DEF PCs
    <3> QED BY <3>1, <3>2, <3>3, <3>4, CallFrame
  <2> QED BY <1>6, <2>2, <2>3 DEF Unlink
<1>7. CASE UnlinkLocked(t)
  <2>1. pc[t] = "relock" /\ UNCHANGED <<out, held, uses, number>>
    BY <1>7 DEF UnlinkLocked, parkVars
  <2>2. CASE WaitReturns(t, WaitSucceeds(t))
    BY <1>0, <1>5, <2>1, <2>2, WaitOver DEF Waits
  <2>3. CASE Goto(t, "unlink") /\ UNCHANGED arg
    <3>1. Fits("unlink", arg[t], out[t], number[t], held[t], uses[t].writes)
      BY <1>0, <2>1 DEF Fits, Waits, Wakes, Keyed
    <3> QED BY <1>0, <2>1, <2>3, <3>1, CallMoves DEF PCs, Goto
  <2> QED BY <1>7, <2>2, <2>3 DEF UnlinkLocked
<1> QED BY <1>1, <1>2, <1>3, <1>4, <1>6, <1>7

\* A call begins.
LEMMA CallBegins ==
  ASSUME FInv, NEW t \in Tasks, NEW c \in PCs, NEW a \in Args, NEW h \in SUBSET Words,
         pc[t] # "flush", c # "flush",
         pc' = [pc EXCEPT ![t] = c], arg' = [arg EXCEPT ![t] = a],
         UNCHANGED <<out, number, uses>>, held' = [held EXCEPT ![t] = h],
         Fits(c, a, <<>>, number[t], h, uses[t].writes)
  PROVE  CtlType' /\ Calling'
<1>1. out[t] = <<>>
  BY CallNow DEF Fits
<1>2. Ctl(t, c, a, <<>>, number[t], h)
  BY <1>1, CallNow DEF Ctl
<1>3. <<>> \in Seq(Tasks \X Nat)
  OBVIOUS
<1> QED BY <1>2, <1>3, CallFrame

\* A call ends.
LEMMA CallEnds ==
  ASSUME FInv, NEW t \in Tasks, NEW h \in SUBSET Words, pc[t] # "flush",
         pc' = [pc EXCEPT ![t] = "user"], arg' = [arg EXCEPT ![t] = NoCall],
         UNCHANGED <<out, number, uses>>, held' = [held EXCEPT ![t] = h]
  PROVE  CtlType' /\ Calling'
<1>1. "user" \in PCs /\ "user" # "flush"
  BY DEF PCs
<1> QED BY <1>1, Returned, CallBegins

\* The calls of user code.
LEMMA CallUser ==
  ASSUME FInv, NEW t \in Tasks, NEW w, NEW d \in BOOLEAN,
         \/ WaitCall(t, w, d) /\ w \in uses[t].waits
         \/ LockCall(t, w, d) /\ w \in uses[t].writes
  PROVE  CtlType' /\ Calling'
<1>0. /\ w \in Words /\ Len(<<>>) = 0 /\ 0 <= Batch /\ held[t] \in SUBSET Words
      /\ held = [held EXCEPT ![t] = held[t]] /\ val[page[w]] \in Vals
  BY CallNow, FutexAssumption
<1>1. CASE WaitCall(t, w, d)
  <2> DEFINE a == [NoCall EXCEPT !.w = w, !.exp = val[page[w]], !.timed = d]
  <2>1. /\ pc[t] = "user" /\ w \notin PiWords /\ number[t] < MaxWaits
        /\ pc' = [pc EXCEPT ![t] = "prepare"] /\ arg' = [arg EXCEPT ![t] = a]
        /\ UNCHANGED <<out, number, uses, held>>
    BY <1>1 DEF WaitCall, Goto, parkVars, memVars
  <2>2. a \in Args /\ a.w = w
    BY <1>0 DEF NoCall, Args
  <2> HIDE DEF a
  <2>3. Fits("prepare", a, <<>>, number[t], held[t], uses[t].writes)
    BY <1>0, <2>1, <2>2 DEF Fits, Waits, Wakes, Keyed
  <2>4. "prepare" \in PCs
    BY DEF PCs
  <2> QED BY <1>0, <2>1, <2>2, <2>3, <2>4, CallBegins
<1>2. CASE LockCall(t, w, d)
  <2> DEFINE a == [NoCall EXCEPT !.w = w, !.try = d]
  <2>1. /\ pc[t] = "user" /\ w \in uses[t].writes \cap PiWords
        /\ pc' = [pc EXCEPT ![t] = "lock"] /\ arg' = [arg EXCEPT ![t] = a]
        /\ UNCHANGED <<out, number, uses, held>>
    BY <1>2 DEF LockCall, Goto, parkVars, memVars
  <2>2. a \in Args /\ a.w = w
    BY <1>0 DEF NoCall, Args
  <2> HIDE DEF a
  <2>3. Fits("lock", a, <<>>, number[t], held[t], uses[t].writes)
    BY <1>0, <2>1, <2>2 DEF Fits, Waits, Wakes, Keyed
  <2>4. "lock" \in PCs
    BY DEF PCs
  <2> QED BY <1>0, <2>1, <2>2, <2>3, <2>4, CallBegins
<1> QED BY <1>1, <1>2

\* The calls of a notifier.
LEMMA CallNotify ==
  ASSUME FInv, NEW t \in Tasks, NEW w \in uses[t].writes, NEW c \in Calls,
         NEW w2 \in uses[t].writes \cup {None}, NEW priv \in BOOLEAN,
         Notify(t, w, c, w2, priv)
  PROVE  CtlType' /\ Calling'
<1> DEFINE x == Incremented(val[page[w]])
           nr == IF c = "REQUEUE" \/ w \in Targets THEN 1 ELSE All
           then == CASE c = "WAKE" -> "user" [] c = "REQUEUE" -> "requeue"
                     [] c = "WAKE_OP" -> "wake2"
           a == [NoCall EXCEPT !.w = w, !.w2 = w2, !.priv = priv, !.exp = x, !.nr = nr,
                               !.retry = c # "WAKE", !.then = then]
           d == IF c = "WAKE_OP" THEN "opread" ELSE "key"
<1>0. /\ w \in Words /\ Len(<<>>) = 0 /\ 0 <= Batch /\ held[t] \in SUBSET Words
      /\ held = [held EXCEPT ![t] = held[t]] /\ w2 \in Words \cup {None}
  BY CallNow, FutexAssumption
<1>1. /\ pc[t] = "user" /\ (c # "WAKE" => w2 \in Targets)
      /\ pc' = [pc EXCEPT ![t] = d] /\ arg' = [arg EXCEPT ![t] = a]
      /\ UNCHANGED <<out, number, held>>
  BY DEF Notify, Goto, parkVars
<1>2. uses' = uses
  BY DEF Notify, Store
<1>3. x \in Vals
  BY <1>0, CallNow, Values, Zenon DEF Sane
<1>4. nr \in Nat \cup {All} /\ (c # "WAKE") \in BOOLEAN
  OBVIOUS
<1>5. \/ c = "WAKE" /\ then = "user" /\ d = "key"
      \/ c = "REQUEUE" /\ then = "requeue" /\ d = "key"
      \/ c = "WAKE_OP" /\ then = "wake2" /\ d = "opread"
  BY DEF Calls
<1> HIDE DEF x, nr, then, d
<1>6. /\ a \in Args /\ a.w = w /\ a.w2 = w2 /\ a.then = then
  BY <1>0, <1>3, <1>4, <1>5, Zenon DEF NoCall, Args
<1>7. a.retry <=> c # "WAKE"
  BY DEF NoCall
<1> HIDE DEF a
<1>8. Fits(d, a, <<>>, number[t], held[t], uses[t].writes)
  BY <1>0, <1>1, <1>5, <1>6, <1>7 DEF Fits, Waits, Wakes, Keyed
<1>9. d \in PCs /\ d # "flush"
  BY <1>5 DEF PCs
<1> QED BY <1>0, <1>1, <1>2, <1>6, <1>8, <1>9, CallBegins

\* A step of t that changes its locals and its wake list, and holds the rest.
LEMMA CallGoes ==
  ASSUME FInv, NEW t \in Tasks, NEW c \in PCs, NEW a \in Args,
         NEW o \in Seq(Tasks \X Nat), UNCHANGED <<number, held, uses>>,
         pc' = [pc EXCEPT ![t] = c], arg' = [arg EXCEPT ![t] = a],
         out' = [out EXCEPT ![t] = o],
         Fits(c, a, o, number[t], held[t], uses[t].writes)
  PROVE  CtlType' /\ Calling'
<1>1. Ctl(t, c, a, o, number[t], held[t]) /\ held[t] \in SUBSET Words
  BY CallNow DEF Ctl
<1> QED BY <1>1, CallFrame

\* futex_wake_op() on its second word.
LEMMA CallWakeOp ==
  ASSUME FInv, NEW t \in Tasks, WakeOpRead(t) \/ WakeOpWrite(t)
  PROVE  CtlType' /\ Calling'
<1>0. /\ arg[t] \in Args /\ out[t] \in Seq(Tasks \X Nat) /\ out = [out EXCEPT ![t] = out[t]]
      /\ Fits(pc[t], arg[t], out[t], number[t], held[t], uses[t].writes)
      /\ number = [number EXCEPT ![t] = number[t]]
  BY CallNow
<1>1. CASE WakeOpRead(t)
  <2> DEFINE x == val[page[arg[t].w2]]
             a == [arg[t] EXCEPT !.exp = x]
  <2>1. /\ pc[t] = "opread" /\ UNCHANGED <<number, held, uses, out>>
        /\ pc' = [pc EXCEPT ![t] = "opwrite"] /\ arg' = [arg EXCEPT ![t] = a]
    BY <1>0, <1>1 DEF WakeOpRead, Goto, parkVars, memVars
  <2>2. arg[t].w2 \in Words
    BY <1>0, <2>1, FutexAssumption DEF Fits, Wakes
  <2>3. Sane(x) /\ x \in Vals
    BY <2>2, CallNow
  <2> HIDE DEF x
  <2>4. /\ a \in Args /\ a.w = arg[t].w /\ a.w2 = arg[t].w2 /\ a.then = arg[t].then
        /\ a.retry = arg[t].retry /\ a.exp = x
    BY <1>0, <2>3 DEF Args
  <2> HIDE DEF a
  <2>5. Fits("opwrite", a, out[t], number[t], held[t], uses[t].writes)
    BY <1>0, <2>1, <2>3, <2>4 DEF Fits, Waits, Wakes, Keyed
  <2>6. "opwrite" \in PCs /\ out' = [out EXCEPT ![t] = out[t]]
    BY <1>0, <2>1 DEF PCs
  <2> QED BY <1>0, <2>1, <2>4, <2>5, <2>6, CallGoes
<1>2. CASE WakeOpWrite(t)
  <2>1. /\ pc[t] = "opwrite" /\ UNCHANGED <<number, held, arg, out>>
        /\ pc' = [pc EXCEPT ![t] = "key"]
    BY <1>2 DEF WakeOpWrite, Goto, parkVars
  <2>2. uses' = uses
    BY <1>2 DEF WakeOpWrite, Store
  <2>3. Fits("key", arg[t], out[t], number[t], held[t], uses[t].writes)
    BY <1>0, <2>1 DEF Fits, Waits, Wakes, Keyed
  <2> QED BY <1>0, <2>1, <2>2, <2>3, CallMoves DEF PCs
<1> QED BY <1>1, <1>2

\* futex_phys_key() and the turn from one phase of a call to the next.
LEMMA CallPhase ==
  ASSUME FInv, NEW t \in Tasks, Key(t) \/ Phase(t) \/ Requeue(t)
  PROVE  CtlType' /\ Calling'
<1>0. /\ arg[t] \in Args /\ out[t] \in Seq(Tasks \X Nat) /\ out = [out EXCEPT ![t] = out[t]]
      /\ Fits(pc[t], arg[t], out[t], number[t], held[t], uses[t].writes)
      /\ number = [number EXCEPT ![t] = number[t]]
      /\ held[t] \in SUBSET Words /\ held = [held EXCEPT ![t] = held[t]]
  BY CallNow
<1>1. pc[t] \in {"key", "phase", "requeue"} /\ UNCHANGED <<number, held, uses, out>>
  BY Zenon DEF Key, Phase, Requeue, parkVars, memVars
<1>2. CASE pc' = [pc EXCEPT ![t] = "user"] /\ arg' = [arg EXCEPT ![t] = NoCall]
  BY <1>0, <1>1, <1>2, CallEnds
<1>3. CASE pc' = [pc EXCEPT ![t] = "exit"] /\ arg' = [arg EXCEPT ![t] = NoCall]
  <2>1. NoCall \in Args /\ Fits("user", NoCall, <<>>, number[t], held[t], uses[t].writes)
    BY Returned
  <2>2. Fits("exit", NoCall, <<>>, number[t], held[t], uses[t].writes)
    BY <2>1 DEF Fits, Waits, Wakes, Keyed
  <2>3. "exit" \in PCs /\ "exit" # "flush" /\ pc[t] # "flush"
    BY <1>1 DEF PCs
  <2> QED BY <1>0, <1>1, <1>3, <2>1, <2>2, <2>3, CallBegins
<1>4. CASE Key(t) /\ pc' = [pc EXCEPT ![t] = "collect"]
           /\ arg' = [arg EXCEPT ![t].key = page[arg[t].w],
                                 ![t].key2 = IF arg[t].w2 = None THEN None
                                             ELSE page[arg[t].w2]]
  <2> DEFINE k == page[arg[t].w]
             l == IF arg[t].w2 = None THEN None ELSE page[arg[t].w2]
             a == [arg[t] EXCEPT !.key = k, !.key2 = l]
  <2>1. pc[t] = "key" /\ arg[t].w \in Words /\ arg[t].w2 \in Words \cup {None}
    BY <1>0, <1>4 DEF Key, Fits, Wakes, Args
  <2>2. k \in Pages /\ l \in Pages \cup {None} /\ (arg[t].w2 \in Targets => l \in Pages)
    BY <2>1, CallNow, FutexAssumption
  <2>3. arg' = [arg EXCEPT ![t] = a]
    BY <1>4, CallNow
  <2> HIDE DEF k, l
  <2>4. /\ a \in Args /\ a.w = arg[t].w /\ a.w2 = arg[t].w2 /\ a.then = arg[t].then
        /\ a.retry = arg[t].retry /\ a.key = k /\ a.key2 = l
    BY <1>0, <2>2 DEF Args
  <2> HIDE DEF a
  <2>5. Fits("collect", a, out[t], number[t], held[t], uses[t].writes)
    BY <1>0, <2>1, <2>2, <2>4 DEF Fits, Waits, Wakes, Keyed
  <2>6. /\ "collect" \in PCs /\ out' = [out EXCEPT ![t] = out[t]]
        /\ pc' = [pc EXCEPT ![t] = "collect"]
    BY <1>0, <1>1, <1>4 DEF PCs
  <2> QED BY <1>0, <1>1, <2>3, <2>4, <2>5, <2>6, CallGoes
<1>5. CASE /\ pc[t] = "phase" /\ arg[t].then = "wake2" /\ pc' = [pc EXCEPT ![t] = "collect"]
           /\ arg' = [arg EXCEPT ![t].w = arg[t].w2, ![t].key = arg[t].key2,
                                 ![t].then = "user", ![t].nr = All]
  <2> DEFINE a == [arg[t] EXCEPT !.w = arg[t].w2, !.key = arg[t].key2,
                                 !.then = "user", !.nr = All]
  <2>1. arg[t].w2 \in Words /\ arg[t].key2 \in Pages
    BY <1>0, <1>5, FutexAssumption DEF Fits, Wakes, Keyed
  <2>2. arg' = [arg EXCEPT ![t] = a]
    BY <1>5, CallNow
  <2>3. a \in Args /\ a.w = arg[t].w2 /\ a.then = "user" /\ a.key = arg[t].key2
    BY <1>0, <2>1 DEF Args
  <2> HIDE DEF a
  <2>4. Fits("collect", a, out[t], number[t], held[t], uses[t].writes)
    BY <1>0, <1>5, <2>1, <2>3 DEF Fits, Waits, Wakes, Keyed
  <2>5. /\ "collect" \in PCs /\ out' = [out EXCEPT ![t] = out[t]]
        /\ pc' = [pc EXCEPT ![t] = "collect"]
    BY <1>0, <1>1, <1>5 DEF PCs
  <2> QED BY <1>0, <1>1, <2>2, <2>3, <2>4, <2>5, CallGoes
<1>6. CASE /\ pc[t] = "phase" /\ arg[t].then = "requeue" /\ UNCHANGED arg
           /\ pc' = [pc EXCEPT ![t] = "requeue"]
  <2>1. Fits("requeue", arg[t], out[t], number[t], held[t], uses[t].writes)
    BY <1>0, <1>6 DEF Fits, Waits, Wakes, Keyed
  <2> QED BY <1>0, <1>1, <1>6, <2>1, CallMoves DEF PCs
<1> QED BY <1>2, <1>3, <1>4, <1>5, <1>6, Zenon DEF Key, Phase, Requeue, Goto

\* proc_wake_q_flush(): the list gets shorter, the number of no wait changes.
LEMMA CallFlush ==
  ASSUME FInv, NEW t \in Tasks, Flush(t)
  PROVE  CtlType' /\ Calling'
<1>0. /\ arg[t] \in Args /\ out[t] \in Seq(Tasks \X Nat) /\ Batch \in Nat
      /\ Fits(pc[t], arg[t], out[t], number[t], held[t], uses[t].writes)
      /\ arg = [arg EXCEPT ![t] = arg[t]]
  BY CallNow
<1> DEFINE o == Tail(out[t])
           c == IF Len(out[t]) > 1 THEN "flush"
                ELSE IF arg[t].nr # 0 THEN "collect" ELSE "phase"
<1>1. /\ pc[t] = "flush" /\ pc' = [pc EXCEPT ![t] = c] /\ out' = [out EXCEPT ![t] = o]
      /\ UNCHANGED <<arg, held, uses>>
  BY DEF Flush, Goto, memVars
<1>2. UNCHANGED number
  BY DEF Flush, parkVars, Park!End
<1>3. /\ o \in Seq(Tasks \X Nat) /\ Len(o) = Len(out[t]) - 1 /\ Len(out[t]) \in Nat
      /\ Len(out[t]) <= Batch
  BY <1>0, <1>1, HeadTailProperties, LenProperties DEF Fits
<1>4. o # <<>> <=> Len(out[t]) > 1
  <2> DEFINE k == Len(out[t])
             m == Len(o)
  <2>1. (o = <<>> <=> m = 0) /\ m \in Nat
    BY <1>3, EmptyList
  <2>2. m = k - 1 /\ k \in Nat
    BY <1>3
  <2> HIDE DEF k, m
  <2>3. m # 0 <=> k > 1
    BY <2>1, <2>2
  <2> QED BY <2>1, <2>3 DEF k
<1>5. (o # <<>> <=> c = "flush") /\ Len(o) <= Batch /\ c \in {"flush", "collect", "phase"}
  BY <1>0, <1>3, <1>4
<1> HIDE DEF o, c
<1>6. Fits(c, arg[t], o, number[t], held[t], uses[t].writes)
  BY <1>0, <1>1, <1>5 DEF Fits, Waits, Wakes, Keyed
<1>7. c \in PCs /\ arg' = [arg EXCEPT ![t] = arg[t]]
  BY <1>0, <1>1, <1>5 DEF PCs
<1> QED BY <1>0, <1>1, <1>2, <1>3, <1>6, <1>7, CallGoes

\* wait_queue_collect_matching() with its list operations carried out: got is
\* the batch, rest what stays in bucket b.
Wanted(a) == IF a.nr = All \/ a.nr > Batch THEN Batch ELSE a.nr
Left(a, got) ==
  IF got = <<>> \/ (Len(got) < Wanted(a) /\ ~a.retry) THEN 0
  ELSE IF a.nr = All THEN All ELSE a.nr - Len(got)
Batched(t, b, got, rest) ==
  /\ Len(got) <= Wanted(arg[t]) /\ Distinct(got) /\ Distinct(rest)
  /\ \A u : OnList(u, got) => u \in Tasks /\ OnList(u, queue[b]) /\ Match(t, u)
  /\ \A u : OnList(u, rest) <=> OnList(u, queue[b]) /\ ~OnList(u, got)
  /\ Len(got) = Wanted(arg[t]) \/ \A u : OnList(u, rest) => ~Match(t, u)
Collected(t, b, got, rest) ==
  /\ queue' = [queue EXCEPT ![b] = rest]
  /\ node' = [u \in Tasks |-> IF OnList(u, got) THEN [node[u] EXCEPT !.at = None]
                              ELSE node[u]]
  /\ out' = [out EXCEPT ![t] = [i \in DOMAIN got |-> <<got[i], node[got[i]].seq>>]]
  /\ arg' = [arg EXCEPT ![t].nr = Left(arg[t], got)]
  /\ pc' = [pc EXCEPT ![t] = IF got = <<>> THEN "phase" ELSE "flush"]

\* What a bucket pass of futex_wake() does, in terms of who is in which list.
LEMMA CollectEffect ==
  ASSUME FInv, NEW t \in Tasks, Collect(t)
  PROVE  \E b \in Buckets, got, rest \in Seq(Tasks) :
           /\ b = Bucket[arg[t].key] /\ Batched(t, b, got, rest)
           /\ Collected(t, b, got, rest)
<1>0. /\ arg[t] \in Args /\ Batch \in Nat /\ pc[t] = "collect"
      /\ Fits(pc[t], arg[t], out[t], number[t], held[t], uses[t].writes)
      /\ ListType /\ Linked
  BY CallNow DEF Collect, FInv
<1> DEFINE b == Bucket[arg[t].key]
           I == Matching(t, b)
           want == Wanted(arg[t])
           J == Nearest(I, want)
           K == 1..Len(queue[b]) \ J
           got == Entries(queue[b], J)
           rest == Entries(queue[b], K)
<1>1. b \in Buckets /\ queue[b] \in Seq(Tasks) /\ Distinct(queue[b])
  BY <1>0 DEF Fits, Keyed, Buckets, ListType, Linked
<1>2. want \in Nat
  BY <1>0 DEF Wanted, Args, All
<1>3. Collected(t, b, got, rest)
  BY DEF Collect, Collected, Left, Goto, Wanted
<1>4. /\ \A i \in I : i \in 1..Len(queue[b]) /\ Match(t, queue[b][i])
      /\ \A i \in 1..Len(queue[b]) : Match(t, queue[b][i]) => i \in I
  BY DEF Matching
<1>5. Len(queue[b]) \in Nat /\ I \in SUBSET (1..Len(queue[b])) /\ K \in SUBSET (1..Len(queue[b]))
  BY <1>1, <1>4, LenProperties
<1> HIDE DEF I, want
<1>6. J \in SUBSET I /\ Cardinality(J) \in 0..want /\ (J = I \/ Cardinality(J) = want)
  BY <1>2, <1>5, NearestAreFirst
<1> HIDE DEF b, J
<1>7. J \in SUBSET (1..Len(queue[b]))
  BY <1>5, <1>6
<1>8. /\ got \in Seq(Tasks) /\ Len(got) = Cardinality(J) /\ Distinct(got)
      /\ \A y : OnList(y, got) <=> \E i \in J : queue[b][i] = y
  BY <1>1, <1>7, EntriesAt
<1>9. /\ rest \in Seq(Tasks) /\ Distinct(rest)
      /\ \A y : OnList(y, rest) <=> \E i \in K : queue[b][i] = y
  BY <1>1, <1>5, EntriesAt
<1> HIDE DEF got, rest
<1>10. Batched(t, b, got, rest)
  <2>1. Len(got) <= want
    BY <1>2, <1>6, <1>8
  <2>2. ASSUME NEW u, OnList(u, got)
        PROVE  u \in Tasks /\ OnList(u, queue[b]) /\ Match(t, u)
    <3>1. PICK i \in J : queue[b][i] = u
      BY <1>8, <2>2
    <3> QED BY <1>1, <1>4, <1>6, <3>1, ElementOfSeq DEF OnList
  <2>3. \A u : OnList(u, rest) <=> OnList(u, queue[b]) /\ ~OnList(u, got)
    BY <1>1, <1>7, EntriesApart DEF got, rest
  <2>4. ASSUME Len(got) # want, NEW u, OnList(u, rest) PROVE ~Match(t, u)
    <3>1. J = I
      BY <1>6, <1>8, <2>4
    <3> QED BY <1>4, <1>9, <2>4, <3>1
  <2>5. Len(got) = want \/ \A u : OnList(u, rest) => ~Match(t, u)
    BY <2>4, Zenon
  <2>6. want = Wanted(arg[t])
    BY DEF want
  <2> QED BY <1>8, <1>9, <2>1, <2>2, <2>3, <2>5, <2>6, Zenon DEF Batched
<1> QED BY <1>1, <1>3, <1>8, <1>9, <1>10 DEF b

\* ... keeps the calls as they should be.
LEMMA CallCollect ==
  ASSUME FInv, NEW t \in Tasks, Collect(t)
  PROVE  CtlType' /\ Calling'
<1>0. /\ arg[t] \in Args /\ Batch \in Nat /\ pc[t] = "collect"
      /\ Fits(pc[t], arg[t], out[t], number[t], held[t], uses[t].writes)
      /\ ListType /\ Linked
  BY CallNow DEF Collect, FInv
<1>1. PICK b \in Buckets, got \in Seq(Tasks), rest \in Seq(Tasks) :
        Batched(t, b, got, rest) /\ Collected(t, b, got, rest)
  BY CollectEffect
<1> DEFINE o == [i \in DOMAIN got |-> <<got[i], node[got[i]].seq>>]
           a == [arg[t] EXCEPT !.nr = Left(arg[t], got)]
           c == IF got = <<>> THEN "phase" ELSE "flush"
<1>2. Len(got) \in Nat /\ DOMAIN got = 1..Len(got)
  BY <1>1, LenProperties
<1>3. \A i \in 1..Len(got) : got[i] \in Tasks /\ node[got[i]].seq \in Nat
  <2> SUFFICES ASSUME NEW i \in 1..Len(got) PROVE got[i] \in Tasks /\ node[got[i]].seq \in Nat
    OBVIOUS
  <2>1. OnList(got[i], got)
    BY DEF OnList
  <2>2. got[i] \in Tasks /\ OnList(got[i], queue[b])
    BY <1>1, <2>1 DEF Batched
  <2>3. node[got[i]] # None
    BY <1>0, <2>2 DEF Linked
  <2> QED BY <1>0, <2>2, <2>3 DEF ListType, Nodes
<1>4. o \in Seq(Tasks \X Nat) /\ Len(o) = Len(got)
  <2>1. o = [i \in 1..Len(got) |-> <<got[i], node[got[i]].seq>>]
    BY <1>2
  <2>2. \A i \in 1..Len(got) : <<got[i], node[got[i]].seq>> \in Tasks \X Nat
    BY <1>3
  <2> QED BY <1>2, <2>1, <2>2, IsASeq
<1>5. Wanted(arg[t]) \in Nat /\ Wanted(arg[t]) <= Batch
  BY <1>0 DEF Wanted, Args, All
<1>6. Len(o) <= Batch
  <2> DEFINE k == Len(got)
             m == Wanted(arg[t])
  <2>1. k \in Nat /\ k <= m /\ m \in Nat /\ m <= Batch /\ Batch \in Nat /\ Len(o) = k
    BY <1>0, <1>1, <1>2, <1>4, <1>5 DEF Batched
  <2> HIDE DEF k, m
  <2> QED BY <2>1
<1>7. o # <<>> <=> got # <<>>
  <2>1. (o = <<>> <=> Len(o) = 0) /\ (got = <<>> <=> Len(got) = 0)
    BY <1>1, <1>4, EmptyList
  <2> QED BY <1>4, <2>1
<1>8. Left(arg[t], got) \in Nat \cup {All}
  <2> DEFINE k == Len(got)
             nr == arg[t].nr
  <2>1. k \in Nat /\ k <= Wanted(arg[t]) /\ nr \in Nat \cup {All}
    BY <1>0, <1>1, <1>2 DEF Batched, Args
  <2>2. nr # All => Wanted(arg[t]) <= nr
    BY <1>0, <2>1 DEF Wanted, All
  <2> HIDE DEF k, nr
  <2>3. nr # All => nr - k \in Nat
    BY <1>5, <2>1, <2>2 DEF All
  <2> QED BY <2>1, <2>3 DEF Left, k, nr
<1>9. /\ a \in Args /\ a.w = arg[t].w /\ a.w2 = arg[t].w2 /\ a.then = arg[t].then
      /\ a.retry = arg[t].retry /\ a.key = arg[t].key /\ a.key2 = arg[t].key2
  <2> DEFINE l == Left(arg[t], got)
  <2>1. l \in Nat \cup {All}
    BY <1>8
  <2> HIDE DEF l
  <2>2. /\ [arg[t] EXCEPT !.nr = l] \in Args
        /\ \A f \in {"w", "w2", "then", "retry", "key", "key2"} :
             [arg[t] EXCEPT !.nr = l][f] = arg[t][f]
    BY <1>0, <2>1 DEF Args
  <2> QED BY <2>2 DEF l
<1>10. (o # <<>> <=> c = "flush") /\ c \in {"flush", "phase"}
  BY <1>7
<1>11. /\ pc' = [pc EXCEPT ![t] = c] /\ arg' = [arg EXCEPT ![t] = a]
       /\ out' = [out EXCEPT ![t] = o]
  BY <1>1 DEF Collected
<1>12. UNCHANGED <<number, held, uses>>
  BY DEF Collect, parkVars, memVars
<1> HIDE DEF o, a, c
<1>13. Fits(c, a, o, number[t], held[t], uses[t].writes)
  BY <1>0, <1>6, <1>9, <1>10 DEF Fits, Waits, Wakes, Keyed
<1>14. c \in PCs
  BY <1>10 DEF PCs
<1> QED BY <1>4, <1>9, <1>11, <1>12, <1>13, <1>14, CallGoes

\* WakeOne() begins a shared wake.
LEMMA WakeOneFits ==
  ASSUME NEW w \in Words, NEW then \in {"user", "exit"}, NEW n, NEW h, NEW ws, NEW a,
         a = [NoCall EXCEPT !.w = w, !.nr = 1, !.then = then]
  PROVE  a \in Args /\ Fits("key", a, <<>>, n, h, ws)
<1>1. a \in Args /\ a.w = w /\ a.then = then
  BY DEF NoCall, Args
<1>2. Len(<<>>) = 0 /\ 0 <= Batch
  BY FutexAssumption
<1> QED BY <1>1, <1>2 DEF Fits, Waits, Wakes, Keyed

\* Locks taken and released by user code, futex_pi_release().
LEMMA CallUnlock ==
  ASSUME FInv, NEW t \in Tasks, NEW w \in uses[t].writes,
         UserLock(t, w) \/ UserUnlock(t, w) \/ PiRelease(t, w)
  PROVE  CtlType' /\ Calling'
<1>0. /\ w \in Words /\ arg[t] \in Args /\ arg = [arg EXCEPT ![t] = arg[t]]
      /\ held[t] \in SUBSET Words /\ pc = [pc EXCEPT ![t] = pc[t]]
      /\ Len(<<>>) = 0 /\ 0 <= Batch
  BY CallNow, FutexAssumption
<1>1. pc[t] = "user" /\ UNCHANGED <<out, number>>
  BY DEF UserLock, UserUnlock, PiRelease, parkVars
<1>2. uses' = uses
  BY DEF UserLock, UserUnlock, PiRelease, Store
<1>3. PICK h \in SUBSET Words : held' = [held EXCEPT ![t] = h]
  <2>1. \/ held' = [held EXCEPT ![t] = held[t] \cup {w}]
        \/ held' = [held EXCEPT ![t] = held[t] \ {w}]
    BY DEF UserLock, UserUnlock, PiRelease
  <2>2. held[t] \cup {w} \in SUBSET Words /\ held[t] \ {w} \in SUBSET Words
    BY <1>0
  <2> QED BY <2>1, <2>2
<1>4. CASE UNCHANGED <<pc, arg>>
  <2>1. Fits("user", arg[t], <<>>, number[t], h, uses[t].writes)
    BY <1>0 DEF Fits, Waits, Wakes, Keyed
  <2>2. /\ pc' = [pc EXCEPT ![t] = "user"] /\ arg' = [arg EXCEPT ![t] = arg[t]]
        /\ "user" \in PCs /\ pc[t] # "flush" /\ "user" # "flush"
    BY <1>0, <1>1, <1>4 DEF PCs
  <2> QED BY <1>0, <1>1, <1>2, <1>3, <2>1, <2>2, CallBegins
<1>5. CASE WakeOne(t, w, "user")
  <2> DEFINE a == [NoCall EXCEPT !.w = w, !.nr = 1, !.then = "user"]
  <2>1. a \in Args /\ Fits("key", a, <<>>, number[t], h, uses[t].writes)
    BY <1>0, WakeOneFits, Zenon
  <2>2. /\ pc' = [pc EXCEPT ![t] = "key"] /\ arg' = [arg EXCEPT ![t] = a]
        /\ "key" \in PCs /\ pc[t] # "flush" /\ "key" # "flush"
    BY <1>1, <1>5 DEF PCs, WakeOne, Goto
  <2> HIDE DEF a
  <2> QED BY <1>1, <1>2, <1>3, <2>1, <2>2, CallBegins
<1> QED BY <1>4, <1>5 DEF UserLock, UserUnlock, PiRelease

\* futex_pi_acquire()
LEMMA CallAcquire ==
  ASSUME FInv, NEW t \in Tasks, PiAcquire(t)
  PROVE  CtlType' /\ Calling'
<1> DEFINE w == arg[t].w
           v == val[page[w]]
<1>0. /\ Fits(pc[t], arg[t], out[t], number[t], held[t], uses[t].writes)
      /\ held[t] \in SUBSET Words /\ held = [held EXCEPT ![t] = held[t]]
      /\ uses[t].writes \in SUBSET Words /\ Contents
      /\ Len(<<>>) = 0 /\ 0 <= Batch
  BY CallNow, FutexAssumption DEF FInv
<1>1. pc[t] = "lock" /\ w \in uses[t].writes \cap PiWords /\ UNCHANGED <<out, number>>
  BY <1>0 DEF PiAcquire, Fits, parkVars
<1>2. uses' = uses
  BY Zenon DEF PiAcquire, Store, memVars
<1>3. w \in Words /\ Sane(v)
  BY <1>0, <1>1, CallNow
<1>4. CASE pc' = [pc EXCEPT ![t] = "user"] /\ arg' = [arg EXCEPT ![t] = NoCall]
  <2>1. PICK h \in SUBSET Words : held' = [held EXCEPT ![t] = h]
    <3>1. \/ held' = [held EXCEPT ![t] = held[t] \cup {w}]
          \/ held' = [held EXCEPT ![t] = held[t]]
      BY <1>0, <1>4 DEF PiAcquire
    <3>2. held[t] \cup {w} \in SUBSET Words
      BY <1>0, <1>3
    <3> QED BY <1>0, <3>1, <3>2
  <2> QED BY <1>1, <1>2, <1>4, <2>1, CallEnds
<1>5. CASE /\ ~Claimable(v) /\ number[t] < MaxWaits /\ held' = held
           /\ pc' = [pc EXCEPT ![t] = "prepare"]
           /\ arg' = [arg EXCEPT ![t] = [NoCall EXCEPT !.w = w, !.exp = [v EXCEPT !.wtr = TRUE]]]
  <2> DEFINE x == [v EXCEPT !.wtr = TRUE]
             a == [NoCall EXCEPT !.w = w, !.exp = x]
  <2>1. x \in Vals
    BY <1>3 DEF Sane, Vals
  <2>2. arg' = [arg EXCEPT ![t] = a]
    BY <1>5
  <2> HIDE DEF x
  <2>3. a \in Args /\ a.w = w
    BY <1>3, <2>1 DEF NoCall, Args
  <2> HIDE DEF a
  <2>4. Fits("prepare", a, <<>>, number[t], held[t], uses[t].writes)
    BY <1>0, <1>1, <1>3, <1>5, <2>3 DEF Fits, Waits, Wakes, Keyed
  <2>5. /\ pc' = [pc EXCEPT ![t] = "prepare"] /\ held' = [held EXCEPT ![t] = held[t]]
        /\ "prepare" \in PCs /\ pc[t] # "flush" /\ "prepare" # "flush"
    BY <1>0, <1>1, <1>5 DEF PCs
  <2> QED BY <1>0, <1>1, <1>2, <2>2, <2>3, <2>4, <2>5, CallBegins
<1> QED BY <1>4, <1>5 DEF PiAcquire, Goto

\* exit_robust_list()
LEMMA CallExit ==
  ASSUME FInv, NEW t \in Tasks, Exit(t) \/ RobustRead(t) \/ RobustWrite(t)
  PROVE  CtlType' /\ Calling'
<1>0. /\ Fits(pc[t], arg[t], out[t], number[t], held[t], uses[t].writes)
      /\ arg[t] \in Args /\ arg = [arg EXCEPT ![t] = arg[t]]
      /\ held[t] \in SUBSET Words /\ held = [held EXCEPT ![t] = held[t]]
      /\ Holders /\ Contents /\ Len(<<>>) = 0 /\ 0 <= Batch
  BY CallNow, FutexAssumption DEF FInv
<1>1. pc[t] \in {"user", "exit", "robust"} /\ pc[t] # "flush" /\ UNCHANGED <<out, number>>
  BY Zenon DEF Exit, RobustRead, RobustWrite, parkVars
<1>2. uses' = uses
  BY Zenon DEF Exit, RobustRead, RobustWrite, Store, memVars
<1>3. PICK h \in SUBSET Words : held' = [held EXCEPT ![t] = h]
  <2>1. held' = [held EXCEPT ![t] = held[t]] \/ held' = [held EXCEPT ![t] = held[t] \ {arg[t].w}]
    BY <1>0, Zenon DEF Exit, RobustRead, RobustWrite
  <2>2. held[t] \ {arg[t].w} \in SUBSET Words
    BY <1>0
  <2> QED BY <1>0, <2>1, <2>2
<1>4. CASE arg' = arg /\ \E c \in {"exit", "dead"} : pc' = [pc EXCEPT ![t] = c]
  <2>1. PICK c \in {"exit", "dead"} : pc' = [pc EXCEPT ![t] = c]
    BY <1>4
  <2>2. Fits(c, arg[t], <<>>, number[t], h, uses[t].writes)
    BY <1>0 DEF Fits, Waits, Wakes, Keyed
  <2>3. arg' = [arg EXCEPT ![t] = arg[t]] /\ c \in PCs /\ c # "flush"
    BY <1>0, <1>4 DEF PCs
  <2> QED BY <1>0, <1>1, <1>2, <1>3, <2>1, <2>2, <2>3, CallBegins
<1>5. CASE pc' = [pc EXCEPT ![t] = "exit"] /\ arg' = [arg EXCEPT ![t] = NoCall]
  <2>1. NoCall \in Args
    BY Returned
  <2>2. Fits("exit", NoCall, <<>>, number[t], h, uses[t].writes)
    BY <1>0 DEF Fits, Waits, Wakes, Keyed
  <2>3. "exit" \in PCs /\ "exit" # "flush"
    BY DEF PCs
  <2> QED BY <1>1, <1>2, <1>3, <1>5, <2>1, <2>2, <2>3, CallBegins
<1>6. CASE RobustRead(t) /\ \E w \in held[t] :
             /\ arg' = [arg EXCEPT ![t] = [NoCall EXCEPT !.w = w, !.exp = val[page[w]]]]
             /\ pc' = [pc EXCEPT ![t] = "robust"]
  <2>1. PICK w \in held[t] :
             /\ arg' = [arg EXCEPT ![t] = [NoCall EXCEPT !.w = w, !.exp = val[page[w]]]]
             /\ pc' = [pc EXCEPT ![t] = "robust"]
    BY <1>6, Zenon
  <2> DEFINE x == val[page[w]]
             a == [NoCall EXCEPT !.w = w, !.exp = x]
  <2>2. w \in Words /\ Sane(x) /\ x \in Vals
    BY <1>0, CallNow
  <2>3. x.n = 0
    BY <1>0 DEF Holders, Contents
  <2>4. arg' = [arg EXCEPT ![t] = a]
    BY <2>1
  <2> HIDE DEF x
  <2>5. a \in Args /\ a.w = w /\ a.exp = x
    BY <2>2 DEF NoCall, Args
  <2> HIDE DEF a
  <2>6. Fits("robust", a, <<>>, number[t], held[t], uses[t].writes)
    BY <1>0, <2>2, <2>3, <2>5 DEF Fits, Waits, Wakes, Keyed
  <2>7. "robust" \in PCs /\ "robust" # "flush"
    BY DEF PCs
  <2>8. held' = [held EXCEPT ![t] = held[t]]
    BY <1>0, <1>6, Zenon DEF RobustRead
  <2> QED BY <1>0, <1>1, <1>2, <2>1, <2>4, <2>5, <2>6, <2>7, <2>8, CallBegins
<1>7. CASE RobustWrite(t) /\ WakeOne(t, arg[t].w, "exit")
  <2> DEFINE a == [NoCall EXCEPT !.w = arg[t].w, !.nr = 1, !.then = "exit"]
  <2>0. arg[t].w \in Words
    BY <1>0, <1>7 DEF RobustWrite, Fits
  <2>1. a \in Args /\ Fits("key", a, <<>>, number[t], h, uses[t].writes)
    BY <2>0, WakeOneFits, Zenon
  <2>2. /\ pc' = [pc EXCEPT ![t] = "key"] /\ arg' = [arg EXCEPT ![t] = a]
        /\ "key" \in PCs /\ "key" # "flush"
    BY <1>7 DEF PCs, WakeOne, Goto
  <2> HIDE DEF a
  <2> QED BY <1>1, <1>2, <1>3, <2>1, <2>2, CallBegins
<1> QED BY <1>4, <1>5, <1>6, <1>7, Zenon DEF Exit, RobustRead, RobustWrite, Goto

\* Signals and timeouts touch no call.
LEMMA CallSignal ==
  ASSUME FInv, NEW t \in Tasks,
         SigSend(t) \/ SigKick(t) \/ SigTake(t) \/ DeadlinePasses(t) \/ Timeout(t)
  PROVE  CtlType' /\ Calling'
<1>1. UNCHANGED <<pc, arg, out, held, uses>>
  BY DEF SigSend, SigKick, SigTake, DeadlinePasses, Timeout, memVars, callVars
<1>2. UNCHANGED number
  BY DEF SigSend, SigKick, SigTake, DeadlinePasses, Timeout, parkVars,
         Park!End, Park!DeadlinePasses
<1>3. CtlType /\ Calling
  BY DEF FInv
<1>4. CtlType'
  BY <1>1, <1>3 DEF CtlType
<1> QED BY <1>1, <1>2, <1>3, <1>4 DEF Calling, CallOf, Fits, Sane

\* Every step leaves every call at a point it fits.
LEMMA CallStep ==
  ASSUME FInv, NEW t \in Tasks, Step(t)
  PROVE  CtlType' /\ Calling'
BY CallWait, CallUser, CallNotify, CallWakeOp, CallPhase, CallFlush, CallCollect,
   CallUnlock, CallAcquire, CallExit, CallSignal DEF Step

-----------------------------------------------------------------------------
(* Waits.                                                                  *)

\* Only its own task numbers a wait and begins it, in Prepare().
WaitsMove(t) ==
  \A u \in Tasks :
    /\ number'[u] = number[u] \/ (u = t /\ pc[t] = "prepare")
    /\ Waiting(u)' => Waiting(u) \/ (u = t /\ pc[t] = "prepare")

\* A wait is ended, committed or retired.
LEMMA WaitEnds ==
  ASSUME ParkType, NEW t \in Tasks, NEW u \in Tasks,
         NEW r \in {"EVENT", "TIMEOUT", "SIGNAL", "CANCEL"},
         UNCHANGED <<sig, sent>>, kick' \subseteq kick,
         Park!End(u, r) \/ Park!Sleep(u) \/ Park!Retire(u) \/ Park!DeadlinePasses(u)
  PROVE  ParkType' /\ WaitsMove(t)
<1>1. UNCHANGED number
  BY DEF Park!End, Park!Sleep, Park!Retire, Park!DeadlinePasses
<1>2. \/ /\ wait' = [wait EXCEPT ![u] = "WOKEN"] /\ why' = [why EXCEPT ![u] = r]
      \/ /\ wait[u] = "PREPARING" /\ wait' = [wait EXCEPT ![u] = "PARKED"] /\ why' = why
      \/ /\ wait' = [wait EXCEPT ![u] = "IDLE"] /\ why' = [why EXCEPT ![u] = "NONE"]
      \/ wait' = wait /\ why' = why
  BY DEF Park!End, Park!Sleep, Park!Retire, Park!DeadlinePasses
<1>3. wait \in [Tasks -> {"IDLE", "PREPARING", "PARKED", "WOKEN"}]
  BY DEF ParkType
<1>4. wait' \in [Tasks -> {"IDLE", "PREPARING", "PARKED", "WOKEN"}]
  BY <1>2, <1>3
<1>5. why' \in [Tasks -> {"NONE", "EVENT", "TIMEOUT", "SIGNAL", "FATAL", "EXIT", "CANCEL"}]
  BY <1>2 DEF ParkType
<1>6. ParkType'
  BY <1>1, <1>4, <1>5 DEF ParkType
<1>7. \A v \in Tasks : wait'[v] \in {"PREPARING", "PARKED"} => wait[v] \in {"PREPARING", "PARKED"}
  BY <1>2, <1>3
<1> QED BY <1>1, <1>6, <1>7 DEF WaitsMove, Waiting

\* ... or left alone.
LEMMA WaitKept ==
  ASSUME ParkType, NEW t \in Tasks, UNCHANGED <<parkVars, sig, sent>>, kick' \subseteq kick
  PROVE  ParkType' /\ WaitsMove(t)
BY DEF ParkType, WaitsMove, Waiting, parkVars

\* Every step keeps the types of the waits, and leaves the waits it may not touch.
LEMMA ParkStep ==
  ASSUME FInv, NEW t \in Tasks, Step(t)
  PROVE  ParkType' /\ WaitsMove(t)
<1>0. /\ ParkType /\ Fits(pc[t], arg[t], out[t], number[t], held[t], uses[t].writes)
      /\ number[t] \in 0..MaxWaits /\ MaxWaits \in Nat /\ out[t] \in Seq(Tasks \X Nat)
      /\ MaxSignals \in Nat
  BY CallNow, FutexAssumption DEF FInv
<1>1. CASE Prepare(t)
  <2>1. /\ pc[t] = "prepare" /\ UNCHANGED sigVars /\ number[t] + 1 \in 0..MaxWaits
    BY <1>0, <1>1 DEF Prepare, Fits
  <2>2. \/ UNCHANGED parkVars \/ Park!Begin(t, INTR, arg[t].timed)
        \/ Park!BeginOver(t, INTR, "SIGNAL") \/ Park!Refuse(t)
    BY <1>1 DEF Prepare
  <2>3. CASE UNCHANGED parkVars
    BY <1>0, <2>1, <2>3, WaitKept DEF sigVars
  <2>4. CASE \/ Park!Begin(t, INTR, arg[t].timed) \/ Park!Refuse(t)
             \/ Park!BeginOver(t, INTR, "SIGNAL")
    <3>1. /\ number' = [number EXCEPT ![t] = number[t] + 1]
          /\ why' = why \/ why' = [why EXCEPT ![t] = "SIGNAL"]
          /\ wait' = wait \/ \E s \in {"PREPARING", "WOKEN"} : wait' = [wait EXCEPT ![t] = s]
      BY <2>4 DEF Park!Begin, Park!BeginOver, Park!Refuse
    <3>2. number' \in [Tasks -> 0..MaxWaits]
      BY <1>0, <2>1, <3>1 DEF ParkType
    <3>3. ParkType'
      BY <1>0, <2>1, <3>1, <3>2 DEF ParkType, sigVars
    <3>4. \A u \in Tasks : u # t => number'[u] = number[u] /\ wait'[u] = wait[u]
      BY <1>0, <3>1 DEF ParkType
    <3> QED BY <2>1, <3>3, <3>4 DEF WaitsMove, Waiting
  <2> QED BY <2>2, <2>3, <2>4
<1>2. ASSUME NEW u \in Tasks, NEW r \in {"EVENT", "TIMEOUT", "SIGNAL", "CANCEL"},
             UNCHANGED <<sig, sent>>, kick' \subseteq kick,
             \/ Park!End(u, r) \/ Park!Sleep(u) \/ Park!Retire(u)
             \/ Park!DeadlinePasses(u) \/ UNCHANGED parkVars
      PROVE  ParkType' /\ WaitsMove(t)
  BY <1>0, <1>2, WaitEnds, WaitKept
<1>3. CASE Cancel(t) \/ Commit(t) \/ Finish(t)
  <2>1. UNCHANGED <<sig, sent>> /\ kick' \subseteq kick
    BY <1>3 DEF Cancel, Commit, Finish, sigVars
  <2>2. Park!End(t, "CANCEL") \/ Park!Sleep(t) \/ Park!Retire(t) \/ UNCHANGED parkVars
    BY <1>3 DEF Cancel, Commit, Finish
  <2> QED BY <1>2, <2>1, <2>2
<1>4. CASE Flush(t)
  <2>1. UNCHANGED <<sig, sent>> /\ kick' \subseteq kick
    BY <1>4 DEF Flush, sigVars
  <2>2. Park!End(out[t][1][1], "EVENT") \/ UNCHANGED parkVars
    BY <1>4 DEF Flush
  <2>3. out[t][1][1] \in Tasks
    <3>1. out[t] # <<>>
      BY <1>0, <1>4 DEF Flush, Fits
    <3>2. out[t][1] \in Tasks \X Nat
      BY <1>0, <3>1
    <3> QED BY <3>2
  <2> QED BY <1>2, <2>1, <2>2, <2>3
<1>5. CASE SigSend(t)
  <2>1. /\ UNCHANGED parkVars /\ sent' \in 0..MaxSignals
        /\ sig' \subseteq Tasks /\ kick' \subseteq Tasks
    BY <1>0, <1>5 DEF SigSend, ParkType
  <2> QED BY <1>0, <2>1 DEF ParkType, WaitsMove, Waiting, parkVars
<1>6. CASE SigKick(t)
  <2>1. UNCHANGED <<sig, sent>> /\ kick' \subseteq kick
    BY <1>6 DEF SigKick
  <2>2. Park!End(t, "SIGNAL") \/ UNCHANGED parkVars
    BY <1>6 DEF SigKick
  <2> QED BY <1>2, <2>1, <2>2
<1>7. CASE SigTake(t)
  <2>1. UNCHANGED <<kick, sent, parkVars>> /\ sig' \subseteq sig
    BY <1>7 DEF SigTake
  <2> QED BY <1>0, <2>1 DEF ParkType, WaitsMove, Waiting, parkVars
<1>8. CASE DeadlinePasses(t) \/ Timeout(t)
  <2>1. UNCHANGED <<sig, sent>> /\ kick' \subseteq kick
    BY <1>8 DEF DeadlinePasses, Timeout, sigVars
  <2>2. Park!End(t, "TIMEOUT") \/ Park!DeadlinePasses(t)
    BY <1>8 DEF DeadlinePasses, Timeout
  <2> QED BY <1>2, <2>1, <2>2
<1>9. CASE UNCHANGED <<parkVars, sigVars>>
  BY <1>0, <1>9, WaitKept DEF sigVars
<1>10. ASSUME NEW w, NEW d, NEW c, NEW w2, NEW priv,
              \/ WaitCall(t, w, d) \/ LockCall(t, w, d) \/ UserLock(t, w)
              \/ UserUnlock(t, w) \/ PiRelease(t, w) \/ Notify(t, w, c, w2, priv)
       PROVE  UNCHANGED <<parkVars, sigVars>>
  BY <1>10 DEF WaitCall, LockCall, UserLock, UserUnlock, PiRelease, Notify
<1>11. Link(t) \/ Unlink(t) \/ UnlinkLocked(t) \/ WakeOpRead(t) \/ WakeOpWrite(t)
         \/ Key(t) \/ Collect(t) \/ Phase(t) \/ Requeue(t) \/ PiAcquire(t) \/ Exit(t)
         \/ RobustRead(t) \/ RobustWrite(t)
       => UNCHANGED <<parkVars, sigVars>>
  BY Zenon DEF Link, Unlink, UnlinkLocked, WakeOpRead, WakeOpWrite, Key, Collect, Phase,
         Requeue, PiAcquire, Exit, RobustRead, RobustWrite
<1> QED BY <1>1, <1>3, <1>4, <1>5, <1>6, <1>7, <1>8, <1>9, <1>10, <1>11 DEF Step

-----------------------------------------------------------------------------
(* Nodes and buckets.                                                      *)

\* A step of t leaves the calls of the other tasks alone.
OthersKept(t) ==
  \A u \in Tasks \ {t} : pc'[u] = pc[u] /\ arg'[u] = arg[u] /\ out'[u] = out[u]

\* No call of the engine writes to the locals of another.
LEMMA Others ==
  ASSUME FInv, NEW t \in Tasks, Step(t)
  PROVE  OthersKept(t)
<1>0. /\ pc \in [Tasks -> PCs] /\ arg \in [Tasks -> Args]
      /\ out \in [Tasks -> Seq(Tasks \X Nat)]
  BY DEF FInv, CtlType
<1> SUFFICES ASSUME NEW u \in Tasks \ {t}
             PROVE  pc'[u] = pc[u] /\ arg'[u] = arg[u] /\ out'[u] = out[u]
  BY DEF OthersKept
<1>1. CASE Collect(t)
  BY <1>0, <1>1 DEF Collect, Goto
<1>2. CASE Flush(t)
  BY <1>0, <1>2 DEF Flush, Goto
<1>4. ASSUME NEW w, NEW d, NEW c, NEW w2, NEW priv,
              \/ WaitCall(t, w, d) \/ LockCall(t, w, d) \/ UserLock(t, w)
              \/ UserUnlock(t, w) \/ PiRelease(t, w) \/ Notify(t, w, c, w2, priv)
       PROVE  pc'[u] = pc[u] /\ arg'[u] = arg[u] /\ out'[u] = out[u]
  BY <1>0, <1>4 DEF WaitCall, LockCall, UserLock, UserUnlock, PiRelease, Notify, Goto, WakeOne
<1>5. Prepare(t) \/ Link(t) \/ Cancel(t) \/ Commit(t) \/ Finish(t) \/ Unlink(t)
        \/ UnlinkLocked(t)
      => pc'[u] = pc[u] /\ arg'[u] = arg[u] /\ out'[u] = out[u]
  BY <1>0, Zenon DEF Prepare, Link, Cancel, Commit, Finish, Unlink, UnlinkLocked, Goto, WaitReturns
<1>6. WakeOpRead(t) \/ WakeOpWrite(t) \/ Key(t) \/ Phase(t) \/ Requeue(t) \/ PiAcquire(t)
      => pc'[u] = pc[u] /\ arg'[u] = arg[u] /\ out'[u] = out[u]
  BY <1>0, Zenon DEF WakeOpRead, WakeOpWrite, Key, Phase, Requeue, PiAcquire, Goto
<1>7. Exit(t) \/ RobustRead(t) \/ RobustWrite(t) \/ SigSend(t) \/ SigKick(t) \/ SigTake(t)
        \/ DeadlinePasses(t) \/ Timeout(t)
      => pc'[u] = pc[u] /\ arg'[u] = arg[u] /\ out'[u] = out[u]
  BY <1>0, Zenon DEF Exit, RobustRead, RobustWrite, SigSend, SigKick, SigTake, DeadlinePasses,
              Timeout, Goto, WakeOne, callVars
<1> QED BY <1>1, <1>2, <1>4, <1>5, <1>6, <1>7 DEF Step

\* A step leaves memory alone or stores to one word.
Stores(t) ==
  \/ UNCHANGED memVars
  \/ \E w \in Words, p \in Pages : \E x : StoredAt(w, p, x)

\* The stores of futex_wake_op(), futex_pi_acquire(), the robust list and user code.
LEMMA Storing ==
  ASSUME FInv, NEW t \in Tasks, Step(t)
  PROVE  Stores(t)
<1>0. MemType /\ CallOf(t) /\ Holders /\ uses[t].writes \subseteq Words
  BY DEF FInv, Calling, MemType
<1>1. ASSUME NEW w \in Words, NEW x, Store(w, x) PROVE Stores(t)
  BY <1>0, <1>1, StoreEffect DEF Stores
<1>2. ASSUME NEW w \in uses[t].writes, NEW c, NEW w2, NEW priv,
             UserLock(t, w) \/ UserUnlock(t, w) \/ PiRelease(t, w) \/ Notify(t, w, c, w2, priv)
      PROVE  Stores(t)
  <2>1. w \in Words /\ \E x : Store(w, x)
    BY <1>0, <1>2 DEF UserLock, UserUnlock, PiRelease, Notify
  <2> QED BY <1>1, <2>1
<1>3. CASE WakeOpWrite(t)
  <2>1. arg[t].w2 \in Words /\ \E x : Store(arg[t].w2, x)
    BY <1>0, <1>3, FutexAssumption DEF WakeOpWrite, CallOf, Fits, Wakes
  <2> QED BY <1>1, <2>1
<1>4. CASE PiAcquire(t)
  <2>1. arg[t].w \in Words /\ (UNCHANGED memVars \/ \E x : Store(arg[t].w, x))
    BY <1>0, <1>4 DEF PiAcquire, CallOf, Fits
  <2> QED BY <1>1, <2>1 DEF Stores
<1>5. CASE RobustWrite(t)
  <2>1. arg[t].w \in Words /\ \E x : Store(arg[t].w, x)
    BY <1>0, <1>5 DEF RobustWrite, CallOf, Fits, Holders
  <2> QED BY <1>1, <2>1
<1>6. ASSUME NEW w, NEW d, WaitCall(t, w, d) \/ LockCall(t, w, d)
       PROVE  UNCHANGED memVars
  BY <1>6 DEF WaitCall, LockCall
<1>7. Prepare(t) \/ Link(t) \/ Cancel(t) \/ Commit(t) \/ Finish(t) \/ Unlink(t)
         \/ UnlinkLocked(t) \/ WakeOpRead(t) \/ Key(t) \/ Collect(t) \/ Flush(t)
         \/ Phase(t) \/ Requeue(t) \/ Exit(t) \/ RobustRead(t) \/ SigSend(t)
         \/ SigKick(t) \/ SigTake(t) \/ DeadlinePasses(t) \/ Timeout(t)
       => UNCHANGED memVars
  BY Zenon DEF Prepare, Link, Cancel, Commit, Finish, Unlink, UnlinkLocked, WakeOpRead,
         Key, Collect, Flush, Phase, Requeue, Exit, RobustRead, SigSend, SigKick,
         SigTake, DeadlinePasses, Timeout
<1> QED BY <1>2, <1>3, <1>4, <1>5, <1>6, <1>7 DEF Step, Stores

\* A page that some word is on stays in use.
LEMMA PagesKept ==
  ASSUME FInv, NEW t \in Tasks, Step(t)
  PROVE  \A v \in Words : \E u \in Words : page'[u] = page[v]
<1>1. Stores(t) /\ MemType
  BY Storing DEF FInv
<1>2. CASE UNCHANGED memVars
  BY <1>2 DEF memVars
<1>3. ASSUME NEW w \in Words, NEW p \in Pages, NEW x, StoredAt(w, p, x)
      PROVE  \A v \in Words : \E u \in Words : page'[u] = page[v]
  BY <1>1, <1>3, StoreReads
<1> QED BY <1>1, <1>2, <1>3 DEF Stores

\* The nodes of the other tasks stay as they should be when they are left alone,
\* detached, or requeued to a target.
NodeKept(u) ==
  \/ node'[u] = node[u]
  \/ /\ node[u] # None /\ node'[u] # None /\ node'[u].seq = node[u].seq
     /\ \/ node'[u].w \in Targets
        \/ node'[u].w = node[u].w /\ node'[u].p = node[u].p /\ node'[u].at = None

\* So they stay in order whatever word the step stores to.
LEMMA OtherNodes ==
  ASSUME FInv, NEW t \in Tasks, Step(t), \A u \in Tasks \ {t} : NodeKept(u)
  PROVE  \A u \in Tasks \ {t} : NodeOf(u)'
<1> SUFFICES ASSUME NEW u \in Tasks \ {t} PROVE NodeOf(u)'
  OBVIOUS
<1>1. pc'[u] = pc[u] /\ number'[u] = number[u] /\ NodeOf(u)
  BY Others, ParkStep DEF OthersKept, WaitsMove, FInv, NodesFit
<1>2. \A v \in Words : \E z \in Words : page'[z] = page[v]
  BY PagesKept
<1>3. NodeKept(u)
  OBVIOUS
<1> QED BY <1>1, <1>2, <1>3 DEF NodeOf, NodeKept

\* A step that touches no node: t stays among the waits that have a node, or
\* among those that have none.
Lists == ListType /\ NodesFit /\ Linked

\* It keeps nodes and buckets in step, even when it moves a word to a new page.
LEMMA Untouched ==
  ASSUME FInv, NEW t \in Tasks, Step(t), UNCHANGED <<queue, node>>,
         IF node[t] = None THEN pc'[t] \notin {"commit", "unlink", "relock"}
         ELSE pc'[t] \in {"commit", "asleep", "unlink", "relock"}
  PROVE  Lists'
<1>0. ListType /\ NodesFit /\ Linked
  BY DEF FInv
<1>1. ListType' /\ Linked'
  BY <1>0 DEF ListType, Linked
<1>2. \A u \in Tasks \ {t} : NodeOf(u)'
  BY OtherNodes DEF NodeKept
<1>3. NodeOf(t)'
  <2>1. NodeOf(t) /\ (pc[t] = "prepare" \/ number'[t] = number[t])
    BY <1>0, ParkStep DEF NodesFit, WaitsMove
  <2>2. \A v \in Words : \E z \in Words : page'[z] = page[v]
    BY PagesKept
  <2>3. CASE node[t] = None
    BY <2>3 DEF NodeOf
  <2>4. CASE node[t] # None
    BY <2>1, <2>2, <2>4 DEF NodeOf
  <2> QED BY <2>3, <2>4
<1> QED BY <1>1, <1>2, <1>3 DEF Lists, NodesFit

\* futex_wait_ticks() up to and after the link.
LEMMA ListsWait ==
  ASSUME FInv, NEW t \in Tasks, Step(t), UNCHANGED <<queue, node>>,
         Prepare(t) \/ Link(t) \/ Cancel(t) \/ Commit(t) \/ Finish(t) \/ Unlink(t)
           \/ UnlinkLocked(t)
  PROVE  Lists'
<1>0. NodeOf(t) /\ pc \in [Tasks -> PCs] /\ ListType
  BY DEF FInv, NodesFit, CtlType
<1>1. CASE Prepare(t)
  <2>1. pc[t] = "prepare" /\ pc'[t] \in {"link", "lock", "user"}
    BY <1>0, <1>1 DEF Prepare, WaitReturns, Goto
  <2> QED BY <1>0, <2>1, Untouched DEF NodeOf
<1>2. CASE Link(t)
  <2>1. pc[t] = "link" /\ pc'[t] \in {"commit", "cancel"} /\ node[t] = None
    BY <1>0, <1>2, Zenon DEF Link, Goto, NodeOf
  <2>2. pc'[t] # "commit"
    <3>2. SUFFICES ASSUME pc'[t] = "commit" PROVE FALSE
      OBVIOUS
    <3>3. pc' # [pc EXCEPT ![t] = "cancel"]
      BY <1>0, <3>2
    <3>4. \E w, p, b : node' = [node EXCEPT ![t] = [w |-> w, p |-> p, seq |-> number[t], at |-> b]]
              /\ w = arg[t].w /\ p = page[w] /\ b = Bucket[p]
      BY <1>2, <3>3, Zenon DEF Link, Goto
    <3>5. arg[t].w \in Words /\ page[arg[t].w] \in Pages /\ number[t] \in Nat
      BY <2>1, CallNow DEF Fits, Waits
    <3>6. node'[t] \in Nodes
      BY <1>0, <3>4, <3>5 DEF Nodes, Buckets, ListType
    <3> QED BY <2>1, <3>6, FutexAssumption
  <2> QED BY <2>1, <2>2, Untouched
<1>3. CASE Cancel(t) \/ Commit(t)
  <2>1. pc[t] \in {"cancel", "commit"} /\ pc'[t] = "asleep"
    BY <1>0, <1>3 DEF Cancel, Commit, Goto
  <2> QED BY <2>1, Untouched
<1>4. CASE Finish(t)
  <2>1. IF node[t] = None THEN pc'[t] \in {"lock", "user"} ELSE pc'[t] = "unlink"
    BY <1>0, <1>4 DEF Finish, WaitReturns, Goto
  <2> QED BY <2>1, Untouched
<1>5. CASE Unlink(t) \/ UnlinkLocked(t)
  <2>1. pc[t] \in {"unlink", "relock"} /\ node[t] # None
    BY <1>0, <1>5 DEF Unlink, UnlinkLocked, NodeOf
  <2>2. node' # [node EXCEPT ![t] = None]
    BY <1>0, <2>1 DEF ListType
  <2>3. pc'[t] \in {"unlink", "relock"}
    BY <1>0, <1>5, <2>2 DEF Unlink, UnlinkLocked, Goto
  <2> QED BY <2>1, <2>3, Untouched
<1> QED BY <1>1, <1>2, <1>3, <1>4, <1>5

\* The steps outside a wait.
LEMMA ListsCalls ==
  ASSUME FInv, NEW t \in Tasks, Step(t), UNCHANGED <<queue, node>>,
         pc[t] \notin Waits, pc'[t] \notin {"commit", "unlink", "relock"}
  PROVE  Lists'
<1>1. node[t] = None
  BY DEF FInv, NodesFit, NodeOf, Waits
<1> QED BY <1>1, Untouched

\* Every step that leaves nodes and buckets alone is of this kind.
LEMMA ListsKept ==
  ASSUME FInv, NEW t \in Tasks, Step(t), UNCHANGED <<queue, node>>
  PROVE  Lists'
<1>0. pc \in [Tasks -> PCs]
  BY DEF FInv, CtlType
<1>1. ASSUME NEW w, NEW d, NEW c, NEW w2, NEW priv,
              \/ WaitCall(t, w, d) \/ LockCall(t, w, d) \/ UserLock(t, w)
              \/ UserUnlock(t, w) \/ PiRelease(t, w) \/ Notify(t, w, c, w2, priv)
      PROVE   pc[t] = "user" /\ pc'[t] \in {"user", "prepare", "lock", "key", "opread"}
  BY <1>0, <1>1 DEF WaitCall, LockCall, UserLock, UserUnlock, PiRelease, Notify, WakeOne, Goto
<1>2. CASE WakeOpRead(t) \/ WakeOpWrite(t) \/ Key(t) \/ Collect(t) \/ Flush(t)
  <2>1. /\ pc[t] \in {"opread", "opwrite", "key", "collect", "flush"}
        /\ pc'[t] \in {"opwrite", "key", "collect", "phase", "flush", "user"}
    BY <1>0, <1>2, Zenon DEF WakeOpRead, WakeOpWrite, Key, Collect, Flush, Goto
  <2> QED BY <2>1, ListsCalls DEF Waits
<1>3. CASE Phase(t) \/ Requeue(t) \/ PiAcquire(t) \/ Exit(t) \/ RobustRead(t) \/ RobustWrite(t)
  <2>1. /\ pc[t] \in {"phase", "requeue", "lock", "user", "exit", "robust"}
        /\ pc'[t] \in {"collect", "requeue", "user", "prepare", "exit", "robust", "dead", "key"}
    BY <1>0, <1>3, Zenon DEF Phase, Requeue, PiAcquire, Exit, RobustRead, RobustWrite, WakeOne, Goto
  <2> QED BY <2>1, ListsCalls DEF Waits
<1>4. CASE SigSend(t) \/ SigKick(t) \/ SigTake(t) \/ DeadlinePasses(t) \/ Timeout(t)
  <2>1. pc' = pc
    BY <1>4 DEF SigSend, SigKick, SigTake, DeadlinePasses, Timeout, callVars
  <2> QED BY <2>1, Untouched DEF FInv, NodesFit, NodeOf
<1>5. CASE pc[t] = "user" /\ pc'[t] \in {"user", "prepare", "lock", "key", "opread"}
  BY <1>5, ListsCalls DEF Waits
<1> QED BY <1>1, <1>2, <1>3, <1>4, <1>5, ListsWait, Zenon DEF Step

\* The lists after a change of bucket b: x is the task that comes or goes.
LEMMA LinkedAfter ==
  ASSUME ListType, Linked, NEW b \in Buckets, NEW q \in Seq(Tasks), Distinct(q),
         queue' = [queue EXCEPT ![b] = q],
         \A u \in Tasks : OnList(u, q) <=> node'[u] # None /\ node'[u].at = b,
         \A u \in Tasks : \A c \in Buckets \ {b} :
           (node'[u] # None /\ node'[u].at = c) <=> (node[u] # None /\ node[u].at = c)
  PROVE  Linked'
<1>1. \A c \in Buckets : queue'[c] = IF c = b THEN q ELSE queue[c]
  BY DEF ListType
<1>2. ASSUME NEW c \in Buckets
      PROVE  /\ Distinct(queue'[c])
             /\ \A u \in Tasks : OnList(u, queue'[c]) <=> node'[u] # None /\ node'[u].at = c
  <2>1. CASE c = b
    BY <1>1, <2>1
  <2>2. CASE c # b
    BY <1>1, <2>2 DEF Linked
  <2> QED BY <2>1, <2>2
<1>3. ASSUME NEW c \in Buckets
      PROVE  (/\ Distinct(queue[c])
              /\ \A u \in Tasks : OnList(u, queue[c]) <=> node[u] # None /\ node[u].at = c)'
  BY <1>2 DEF Distinct, OnList
<1> QED BY <1>3 DEF Linked

\* wait_queue_link() under the bucket lock.
LEMMA ListsLink ==
  ASSUME FInv, NEW t \in Tasks, Step(t), Link(t)
  PROVE  Lists'
<1> DEFINE w == arg[t].w
           p == page[w]
           b == Bucket[p]
           q == Without(queue[b], t)
           m == [w |-> w, p |-> p, seq |-> number[t], at |-> b]
<1>0. ListType /\ Linked /\ NodeOf(t) /\ pc[t] = "link" /\ UNCHANGED page
  BY Zenon DEF FInv, NodesFit, Link, memVars
<1>1. CASE UNCHANGED <<queue, node>>
  BY <1>1, ListsKept
<1>2. CASE /\ queue' = [queue EXCEPT ![b] = <<t>> \o q] /\ node' = [node EXCEPT ![t] = m]
           /\ pc' = [pc EXCEPT ![t] = "commit"]
  <2>0. w \in Words /\ number' = number
    BY <1>0, CallNow, Zenon DEF Fits, Waits, Link, parkVars
  <2>1. w \in Words /\ p \in Pages /\ number[t] \in Nat /\ number' = number
    BY <2>0, CallNow
  <2>2. b \in Buckets /\ m \in Nodes /\ m # None /\ node[t] = None
    BY <1>0, <2>1, FutexAssumption DEF Buckets, Nodes, NodeOf
  <2>3. queue[b] \in Seq(Tasks) /\ Distinct(queue[b])
    BY <1>0, <2>2 DEF ListType, Linked
  <2>4. m.w = w /\ m.p = p /\ m.seq = number[t] /\ m.at = b
    OBVIOUS
  <2>5. page'[w] = p /\ pc'[t] = "commit" /\ number'[t] = number[t]
    BY <1>0, <1>2, <2>1 DEF FInv, CtlType
  <2>6. node'[t] = m /\ \A u \in Tasks \ {t} : node'[u] = node[u]
    BY <1>0, <1>2 DEF ListType
  <2> HIDE DEF w, p, b, m
  <2>7. /\ q \in Seq(Tasks) /\ Distinct(q) /\ ~OnList(t, q)
        /\ \A u : OnList(u, q) <=> OnList(u, queue[b]) /\ u # t
    <3> DEFINE I == {i \in 1..Len(queue[b]) : queue[b][i] # t}
    <3>1. I \in SUBSET (1..Len(queue[b])) /\ q = Entries(queue[b], I)
      BY DEF Without
    <3>2. \A u : (\E i \in I : queue[b][i] = u) <=> OnList(u, queue[b]) /\ u # t
      BY DEF OnList
    <3> HIDE DEF I, q
    <3>3. /\ Entries(queue[b], I) \in Seq(Tasks) /\ Distinct(Entries(queue[b], I))
          /\ \A y : OnList(y, Entries(queue[b], I)) <=> \E i \in I : queue[b][i] = y
      BY <2>3, <3>1, EntriesAt
    <3> QED BY <3>1, <3>2, <3>3, Zenon
  <2> HIDE DEF q
  <2> DEFINE r == <<t>> \o q
  <2>8. r \in Seq(Tasks) /\ Distinct(r) /\ \A u : OnList(u, r) <=> u = t \/ OnList(u, q)
    BY <2>7, LinkHead
  <2>9. queue' = [queue EXCEPT ![b] = r]
    BY <1>2
  <2> HIDE DEF r
  <2>10. ListType'
    BY <1>0, <1>2, <2>2, <2>8, <2>9 DEF ListType
  <2>11. \A u \in Tasks : OnList(u, r) <=> node'[u] # None /\ node'[u].at = b
    BY <1>0, <2>2, <2>4, <2>6, <2>7, <2>8 DEF Linked
  <2>12. Linked'
    BY <1>0, <2>2, <2>4, <2>6, <2>8, <2>9, <2>11, LinkedAfter
  <2>13. \A u \in Tasks \ {t} : NodeOf(u)'
    BY <2>6, OtherNodes DEF NodeKept
  <2>14. NodeOf(t)'
    BY <2>1, <2>2, <2>4, <2>5, <2>6 DEF NodeOf, b
  <2> QED BY <2>10, <2>12, <2>13, <2>14 DEF Lists, NodesFit
<1> QED BY <1>1, <1>2, Zenon DEF Link, Goto

\* wait_queue_unlink(), with a waker gone before or under the owner's lock.
LEMMA ListsUnlink ==
  ASSUME FInv, NEW t \in Tasks, Step(t), Unlink(t) \/ UnlinkLocked(t)
  PROVE  Lists'
<1>0. ListType /\ Linked /\ NodeOf(t) /\ pc \in [Tasks -> PCs]
  BY DEF FInv, NodesFit, CtlType
<1>1. CASE UNCHANGED <<queue, node>>
  BY <1>1, ListsKept
<1>2. ASSUME node' = [node EXCEPT ![t] = None], pc'[t] \in {"lock", "user"}
      PROVE  /\ node' \in [Tasks -> Nodes \cup {None}] /\ node'[t] = None
             /\ \A u \in Tasks \ {t} : node'[u] = node[u]
             /\ NodesFit'
  <2>1. /\ node' \in [Tasks -> Nodes \cup {None}] /\ node'[t] = None
        /\ \A u \in Tasks \ {t} : node'[u] = node[u]
    BY <1>0, <1>2 DEF ListType
  <2>2. \A u \in Tasks \ {t} : NodeOf(u)'
    BY <2>1, OtherNodes DEF NodeKept
  <2>3. NodeOf(t)'
    BY <1>2, <2>1 DEF NodeOf
  <2> QED BY <2>1, <2>2, <2>3 DEF NodesFit
<1>3. CASE /\ Unlink(t) /\ node[t].at = None /\ node' = [node EXCEPT ![t] = None]
           /\ queue' = queue
  <2>1. pc'[t] \in {"lock", "user"}
    BY <1>0, <1>3 DEF Unlink, WaitReturns, Goto
  <2>2. /\ node' \in [Tasks -> Nodes \cup {None}] /\ node'[t] = None
        /\ \A u \in Tasks \ {t} : node'[u] = node[u]
        /\ NodesFit'
    BY <1>2, <1>3, <2>1
  <2>3. ListType'
    BY <1>0, <1>3, <2>2 DEF ListType
  <2>4. \A c \in Buckets, u \in Tasks :
          (node'[u] # None /\ node'[u].at = c) <=> (node[u] # None /\ node[u].at = c)
    BY <1>3, <2>2, FutexAssumption
  <2>5. Linked'
    BY <1>0, <1>3, <2>4 DEF Linked
  <2> QED BY <2>2, <2>3, <2>5 DEF Lists
<1>4. CASE /\ UnlinkLocked(t) /\ node[t].at = arg[t].own /\ node' = [node EXCEPT ![t] = None]
           /\ queue' = [queue EXCEPT ![arg[t].own] = Unlinked(@, t)]
  <2> DEFINE b == arg[t].own
             q == Unlinked(queue[b], t)
  <2>1. pc[t] = "relock" /\ pc'[t] \in {"lock", "user"}
    BY <1>0, <1>4 DEF UnlinkLocked, WaitReturns, Goto
  <2>2. /\ node' \in [Tasks -> Nodes \cup {None}] /\ node'[t] = None
        /\ \A u \in Tasks \ {t} : node'[u] = node[u]
        /\ NodesFit'
    BY <1>2, <1>4, <2>1
  <2>3. b \in Buckets /\ node[t].at = b /\ queue' = [queue EXCEPT ![b] = q]
    BY <1>4, <2>1, CallNow DEF Fits
  <2> HIDE DEF b
  <2>4. queue[b] \in Seq(Tasks) /\ Distinct(queue[b])
    BY <1>0, <2>3 DEF ListType, Linked
  <2>5. /\ q \in Seq(Tasks) /\ Distinct(q) /\ ~OnList(t, q)
        /\ \A u : u # t => (OnList(u, q) <=> OnList(u, queue[b]))
    BY <2>4, UnlinkEntry
  <2> HIDE DEF q
  <2>6. ListType'
    BY <1>0, <2>2, <2>3, <2>5 DEF ListType
  <2>7. \A u \in Tasks : OnList(u, q) <=> node'[u] # None /\ node'[u].at = b
    BY <1>0, <2>2, <2>3, <2>5 DEF Linked
  <2>8. \A u \in Tasks : \A c \in Buckets \ {b} :
          (node'[u] # None /\ node'[u].at = c) <=> (node[u] # None /\ node[u].at = c)
    BY <2>2, <2>3
  <2>9. Linked'
    BY <1>0, <2>3, <2>5, <2>7, <2>8, LinkedAfter
  <2> QED BY <2>2, <2>6, <2>9 DEF Lists
<1> QED BY <1>1, <1>3, <1>4 DEF Unlink, UnlinkLocked

\* wait_queue_collect_matching() under the bucket lock.
LEMMA ListsCollect ==
  ASSUME FInv, NEW t \in Tasks, Step(t), Collect(t)
  PROVE  Lists'
<1>0. ListType /\ Linked /\ NodeOf(t) /\ pc[t] = "collect" /\ pc \in [Tasks -> PCs]
  BY DEF FInv, NodesFit, Collect, CtlType
<1>1. PICK b \in Buckets, got \in Seq(Tasks), rest \in Seq(Tasks) :
        Batched(t, b, got, rest) /\ Collected(t, b, got, rest)
  BY CollectEffect
<1>2. \A u : OnList(u, got) => u \in Tasks /\ OnList(u, queue[b])
  BY <1>1 DEF Batched
<1>3. \A u : OnList(u, got) => node[u] \in Nodes /\ node[u] # None /\ node[u].at = b
  BY <1>0, <1>2 DEF Linked, ListType
<1>4. \A u \in Tasks : ~OnList(u, got) => node'[u] = node[u]
  BY <1>1 DEF Collected
<1>5. ASSUME NEW u, OnList(u, got)
      PROVE  /\ node'[u] \in Nodes /\ node'[u] # None
             /\ node'[u].w = node[u].w /\ node'[u].p = node[u].p /\ node'[u].seq = node[u].seq
             /\ node'[u].at = None
  <2>1. u \in Tasks /\ node[u] \in Nodes
    BY <1>2, <1>3, <1>5
  <2>2. node'[u] = [node[u] EXCEPT !.at = None]
    BY <1>1, <1>5, <2>1 DEF Collected
  <2>3. node'[u] \in Nodes /\ node'[u].w = node[u].w /\ node'[u].p = node[u].p
        /\ node'[u].seq = node[u].seq /\ node'[u].at = None
    BY <2>1, <2>2 DEF Nodes
  <2> QED BY <2>3, FutexAssumption
<1>6. ListType'
  <2>1. \A u \in Tasks : node'[u] \in Nodes \cup {None}
    BY <1>0, <1>4, <1>5 DEF ListType
  <2>2. node' \in [Tasks -> Nodes \cup {None}]
    BY <1>1, <2>1 DEF Collected
  <2>3. queue' \in [Buckets -> Seq(Tasks)]
    BY <1>0, <1>1 DEF Collected, ListType
  <2> QED BY <2>2, <2>3 DEF ListType
<1>7. Linked'
  <2>1. queue' = [queue EXCEPT ![b] = rest] /\ Distinct(rest)
    BY <1>1 DEF Collected, Batched
  <2>2. \A u \in Tasks : OnList(u, rest) <=> node'[u] # None /\ node'[u].at = b
    <3> SUFFICES ASSUME NEW u \in Tasks
                 PROVE  OnList(u, rest) <=> node'[u] # None /\ node'[u].at = b
      OBVIOUS
    <3>1. OnList(u, rest) <=> OnList(u, queue[b]) /\ ~OnList(u, got)
      BY <1>1 DEF Batched
    <3>2. OnList(u, queue[b]) <=> node[u] # None /\ node[u].at = b
      BY <1>0 DEF Linked
    <3> QED BY <1>4, <1>5, <3>1, <3>2, FutexAssumption
  <2>3. \A u \in Tasks : \A c \in Buckets \ {b} :
          (node'[u] # None /\ node'[u].at = c) <=> (node[u] # None /\ node[u].at = c)
    BY <1>3, <1>4, <1>5, FutexAssumption
  <2> QED BY <1>0, <1>1, <2>1, <2>2, <2>3, LinkedAfter
<1>8. \A u \in Tasks \ {t} : NodeOf(u)'
  <2>1. \A u \in Tasks : NodeKept(u)
    BY <1>3, <1>4, <1>5 DEF NodeKept
  <2> QED BY <2>1, OtherNodes
<1>9. NodeOf(t)'
  <2>1. node[t] = None
    BY <1>0 DEF NodeOf
  <2>2. node'[t] = None
    BY <1>3, <1>4, <2>1
  <2>3. pc'[t] \in {"phase", "flush"}
    BY <1>0, <1>1 DEF Collected
  <2> QED BY <2>2, <2>3 DEF NodeOf
<1> QED BY <1>6, <1>7, <1>8, <1>9 DEF Lists, NodesFit

\* wait_queue_requeue_matching() with its list operations carried out: moved
\* leave bucket b, rest stay, and into is then the list of bucket d.
Moved(t, b, d, moved, rest, into) ==
  /\ \A u : OnList(u, moved) <=> OnList(u, queue[b]) /\ Match(t, u)
  /\ \A u : OnList(u, rest) <=> OnList(u, queue[b]) /\ ~OnList(u, moved)
  /\ \A u : OnList(u, into) <=> OnList(u, moved) \/ OnList(u, queue[d])
  /\ Distinct(rest) /\ (b # d => Distinct(into))
Requeued(t, b, d, moved, rest, into) ==
  /\ IF b = d THEN queue' = queue ELSE queue' = [queue EXCEPT ![b] = rest, ![d] = into]
  /\ node' = [u \in Tasks |->
                IF OnList(u, moved)
                THEN [node[u] EXCEPT !.w = arg[t].w2, !.at = d,
                                     !.p = IF arg[t].priv THEN None ELSE arg[t].key2]
                ELSE node[u]]

\* What futex_requeue() does under the two bucket locks, in the same terms.
LEMMA RequeueEffect ==
  ASSUME FInv, NEW t \in Tasks, Requeue(t)
  PROVE  \E b, d \in Buckets, moved, rest, into \in Seq(Tasks) :
           /\ b = Bucket[arg[t].key] /\ d = Bucket[arg[t].key2]
           /\ Moved(t, b, d, moved, rest, into) /\ Requeued(t, b, d, moved, rest, into)
<1>0. /\ arg[t] \in Args /\ pc[t] = "requeue"
      /\ Fits(pc[t], arg[t], out[t], number[t], held[t], uses[t].writes)
      /\ ListType /\ Linked
  BY CallNow, Zenon DEF Requeue, FInv
<1> DEFINE b == Bucket[arg[t].key]
           d == Bucket[arg[t].key2]
           I == Matching(t, b)
           K == 1..Len(queue[b]) \ I
           moved == Entries(queue[b], I)
           rest == Entries(queue[b], K)
           back == [i \in DOMAIN moved |-> moved[Len(moved) + 1 - i]]
           into == back \o queue[d]
<1>1. /\ b \in Buckets /\ queue[b] \in Seq(Tasks) /\ Distinct(queue[b])
      /\ d \in Buckets /\ queue[d] \in Seq(Tasks) /\ Distinct(queue[d])
  BY <1>0 DEF Fits, Keyed, Buckets, ListType, Linked
<1>2. Requeued(t, b, d, moved, rest, into)
  <2>1. b # d => queue' = [queue EXCEPT ![b] = rest, ![d] = into]
    <3> SUFFICES ASSUME b # d PROVE queue' = [queue EXCEPT ![b] = rest, ![d] = into]
      BY Zenon
    <3>1. queue' = [queue EXCEPT ![b] = rest, ![d] = back \o @]
      BY Zenon DEF Requeue
    <3> HIDE DEF b, d, rest, back
    <3> QED BY <1>0, <1>1, <3>1 DEF ListType
  <2>2. b = d => queue' = queue
    BY Zenon DEF Requeue
  <2>3. node' = [u \in Tasks |->
                   IF OnList(u, moved)
                   THEN [node[u] EXCEPT !.w = arg[t].w2, !.at = d,
                                        !.p = IF arg[t].priv THEN None ELSE arg[t].key2]
                   ELSE node[u]]
    BY Zenon DEF Requeue
  <2> QED BY <2>1, <2>2, <2>3, Zenon DEF Requeued
<1>3. I \in SUBSET (1..Len(queue[b])) /\ K \in SUBSET (1..Len(queue[b]))
      /\ \A u : OnList(u, queue[b]) /\ Match(t, u) <=> \E i \in I : queue[b][i] = u
  BY DEF Matching, OnList
<1> HIDE DEF b, d, I
<1>4. /\ moved \in Seq(Tasks) /\ Distinct(moved)
      /\ \A y : OnList(y, moved) <=> \E i \in I : queue[b][i] = y
  BY <1>1, <1>3, EntriesAt
<1>5. /\ rest \in Seq(Tasks) /\ Distinct(rest)
      /\ \A y : OnList(y, rest) <=> \E i \in K : queue[b][i] = y
  BY <1>1, <1>3, EntriesAt
<1> HIDE DEF moved, rest
<1>6. /\ back \in Seq(Tasks) /\ Distinct(back)
      /\ \A y : OnList(y, back) <=> OnList(y, moved)
  BY <1>4, TurnedRound
<1> HIDE DEF back
<1>7. /\ into \in Seq(Tasks)
      /\ \A y : OnList(y, into) <=> OnList(y, back) \/ OnList(y, queue[d])
      /\ (\A y : ~(OnList(y, back) /\ OnList(y, queue[d]))) => Distinct(into)
  BY <1>1, <1>6, JoinLists
<1> HIDE DEF into
<1>8. \A u : OnList(u, moved) <=> OnList(u, queue[b]) /\ Match(t, u)
  BY <1>3, <1>4
<1>9. \A u : OnList(u, rest) <=> OnList(u, queue[b]) /\ ~OnList(u, moved)
  BY <1>1, <1>3, EntriesApart DEF moved, rest
<1>10. ASSUME b # d PROVE Distinct(into)
  <2> SUFFICES ASSUME NEW y, OnList(y, back), OnList(y, queue[d]) PROVE FALSE
    BY <1>7
  <2>1. OnList(y, queue[b])
    BY <1>6, <1>8
  <2>2. y \in Tasks
    BY <1>1, <2>1, ElementOfSeq DEF OnList
  <2> QED BY <1>0, <1>1, <1>10, <2>1, <2>2 DEF Linked
<1>11. Moved(t, b, d, moved, rest, into)
  BY <1>5, <1>6, <1>7, <1>8, <1>9, <1>10 DEF Moved
<1> QED BY <1>1, <1>2, <1>4, <1>5, <1>7, <1>11 DEF b, d

\* ... under both bucket locks.
LEMMA ListsRequeue ==
  ASSUME FInv, NEW t \in Tasks, Step(t), Requeue(t)
  PROVE  Lists'
<1>0. /\ ListType /\ Linked /\ NodeOf(t) /\ pc[t] = "requeue" /\ pc'[t] = "user"
      /\ arg[t].w2 \in Words /\ arg[t].w2 \in Targets /\ arg[t].key2 \in Pages
  BY CallNow, FutexAssumption, Zenon DEF FInv, NodesFit, Requeue, CtlType, Goto, Fits, Wakes, Keyed
<1>1. PICK b \in Buckets, d \in Buckets, moved \in Seq(Tasks), rest \in Seq(Tasks),
           into \in Seq(Tasks) :
        Moved(t, b, d, moved, rest, into) /\ Requeued(t, b, d, moved, rest, into)
  BY RequeueEffect
<1>2. \A u : OnList(u, moved) => u \in Tasks /\ OnList(u, queue[b])
  <2>1. \A u : OnList(u, moved) => u \in Tasks
    BY <1>1, ElementOfSeq DEF OnList
  <2> QED BY <1>1, <2>1 DEF Moved
<1>3. \A u : OnList(u, moved) => node[u] \in Nodes /\ node[u] # None /\ node[u].at = b
  BY <1>0, <1>2 DEF Linked, ListType
<1>4. \A u \in Tasks : ~OnList(u, moved) => node'[u] = node[u]
  BY <1>1, Zenon DEF Requeued
<1>5. ASSUME NEW u, OnList(u, moved)
      PROVE  /\ node'[u] \in Nodes /\ node'[u] # None
             /\ node'[u].w \in Targets /\ node'[u].seq = node[u].seq
             /\ node'[u].at = d
  <2>1. u \in Tasks /\ node[u] \in Nodes
    BY <1>2, <1>3, <1>5
  <2> DEFINE k == IF arg[t].priv THEN None ELSE arg[t].key2
  <2>2. k \in Pages \cup {None}
    BY <1>0
  <2>3. node'[u] = [node[u] EXCEPT !.w = arg[t].w2, !.at = d, !.p = k]
    BY <1>1, <1>5, <2>1, Zenon DEF Requeued
  <2> HIDE DEF k
  <2>4. node'[u] \in Nodes /\ node'[u].w = arg[t].w2 /\ node'[u].seq = node[u].seq
        /\ node'[u].at = d
    BY <1>0, <1>1, <2>1, <2>2, <2>3 DEF Nodes
  <2> QED BY <1>0, <2>4, FutexAssumption
<1>6. ListType'
  <2>1. \A u \in Tasks : node'[u] \in Nodes \cup {None}
    BY <1>0, <1>4, <1>5 DEF ListType
  <2>2. node' \in [Tasks -> Nodes \cup {None}]
    BY <1>1, <2>1, Zenon DEF Requeued
  <2>3. queue' \in [Buckets -> Seq(Tasks)]
    BY <1>0, <1>1, Zenon DEF Requeued, ListType
  <2> QED BY <2>2, <2>3 DEF ListType
<1>7. Linked'
  <2>1. \A c \in Buckets : queue'[c] = IF b = d THEN queue[c] ELSE IF c = d THEN into
                                       ELSE IF c = b THEN rest ELSE queue[c]
    BY <1>0, <1>1, Zenon DEF Requeued, ListType
  <2>2. ASSUME NEW c \in Buckets
        PROVE  /\ Distinct(queue'[c])
               /\ \A u \in Tasks : OnList(u, queue'[c]) <=> node'[u] # None /\ node'[u].at = c
    <3>1. Distinct(queue'[c])
      BY <1>0, <1>1, <2>1 DEF Moved, Linked
    <3>2. ASSUME NEW u \in Tasks
          PROVE  OnList(u, queue'[c]) <=> node'[u] # None /\ node'[u].at = c
      <4>1. /\ OnList(u, queue[b]) <=> node[u] # None /\ node[u].at = b
            /\ OnList(u, queue[c]) <=> node[u] # None /\ node[u].at = c
            /\ OnList(u, queue[d]) <=> node[u] # None /\ node[u].at = d
        BY <1>0, <1>1 DEF Linked
      <4>2. /\ OnList(u, rest) <=> OnList(u, queue[b]) /\ ~OnList(u, moved)
            /\ OnList(u, into) <=> OnList(u, moved) \/ OnList(u, queue[d])
        BY <1>1 DEF Moved
      <4>3. CASE OnList(u, moved)
        BY <1>3, <1>5, <2>1, <4>1, <4>2, <4>3
      <4>4. CASE ~OnList(u, moved)
        BY <1>4, <2>1, <4>1, <4>2, <4>4
      <4> QED BY <4>3, <4>4
    <3> QED BY <3>1, <3>2
  <2>3. ASSUME NEW c \in Buckets
        PROVE  (/\ Distinct(queue[c])
                /\ \A u \in Tasks : OnList(u, queue[c]) <=> node[u] # None /\ node[u].at = c)'
    BY <2>2 DEF Distinct, OnList
  <2> QED BY <2>3 DEF Linked
<1>8. \A u \in Tasks \ {t} : NodeOf(u)'
  <2>1. \A u \in Tasks : NodeKept(u)
    BY <1>3, <1>4, <1>5 DEF NodeKept
  <2> QED BY <2>1, OtherNodes
<1>9. NodeOf(t)'
  <2>1. node[t] = None
    BY <1>0 DEF NodeOf
  <2>2. node'[t] = None
    BY <1>3, <1>4, <2>1
  <2> QED BY <1>0, <2>2 DEF NodeOf
<1> QED BY <1>6, <1>7, <1>8, <1>9 DEF Lists, NodesFit

\* Every step keeps the buckets and the nodes in step with each other.
LEMMA ListsStep ==
  ASSUME FInv, NEW t \in Tasks, Step(t)
  PROVE  Lists'
<1>1. CASE Link(t) \/ Unlink(t) \/ UnlinkLocked(t) \/ Collect(t) \/ Requeue(t)
  BY <1>1, ListsLink, ListsUnlink, ListsCollect, ListsRequeue
<1>2. CASE UNCHANGED <<queue, node>>
  BY <1>2, ListsKept
<1>3. ASSUME NEW w, NEW d, NEW c, NEW w2, NEW priv,
              \/ WaitCall(t, w, d) \/ LockCall(t, w, d) \/ UserLock(t, w)
              \/ UserUnlock(t, w) \/ PiRelease(t, w) \/ Notify(t, w, c, w2, priv)
      PROVE   UNCHANGED <<queue, node>>
  BY <1>3 DEF WaitCall, LockCall, UserLock, UserUnlock, PiRelease, Notify
<1>4. Prepare(t) \/ Cancel(t) \/ Commit(t) \/ Finish(t) \/ WakeOpRead(t) \/ WakeOpWrite(t)
        \/ Key(t) \/ Flush(t) \/ Phase(t) \/ PiAcquire(t) \/ Exit(t) \/ RobustRead(t)
        \/ RobustWrite(t) \/ SigSend(t) \/ SigKick(t) \/ SigTake(t) \/ DeadlinePasses(t)
        \/ Timeout(t)
      => UNCHANGED <<queue, node>>
  BY Zenon DEF Prepare, Cancel, Commit, Finish, WakeOpRead, WakeOpWrite, Key, Flush, Phase,
         PiAcquire, Exit, RobustRead, RobustWrite, SigSend, SigKick, SigTake,
         DeadlinePasses, Timeout
<1> QED BY <1>1, <1>2, <1>3, <1>4 DEF Step

-----------------------------------------------------------------------------
(* The invariant.                                                          *)

\* The buckets are empty (WAIT_QUEUE_INIT) and every task is in user code.
LEMMA FInit ==
  ASSUME Init
  PROVE  FInv
<1> USE DEF Init
<1>1. uses \in [Tasks -> [waits : SUBSET Words, writes : SUBSET Words]]
  BY FutexAssumption
<1>2. Sane(Free) /\ Free \in Vals /\ Free.n = 0
  BY DEF Sane, Free, Vals
<1>3. MemType /\ Parted /\ Contents
  <2>1. MemType
    BY <1>1, <1>2, FutexAssumption DEF MemType
  <2>2. Parted
    BY DEF Parted
  <2>3. Contents
    BY <1>2, FutexAssumption DEF Contents
  <2> QED BY <2>1, <2>2, <2>3
<1>4. Holders
  BY DEF Holders
<1>5. ParkType
  BY FutexAssumption DEF ParkType, Park!Init
<1>6. CtlType
  <2>1. "user" \in PCs /\ NoCall \in Args /\ <<>> \in Seq(Tasks \X Nat)
    BY Returned DEF PCs
  <2> QED BY <2>1 DEF CtlType
<1>7. ListType
  BY DEF ListType
<1>8. Calling
  <2> SUFFICES ASSUME NEW t \in Tasks PROVE CallOf(t)
    BY DEF Calling
  <2>1. Fits("user", NoCall, <<>>, number[t], held[t], uses[t].writes)
    BY Returned
  <2> QED BY <2>1 DEF CallOf
<1>9. NodesFit
  BY DEF NodesFit, NodeOf
<1>10. Linked
  <2>1. \A x : ~OnList(x, <<>>)
    BY DEF OnList
  <2>2. Distinct(<<>>)
    BY DEF Distinct
  <2> QED BY <2>1, <2>2 DEF Linked
<1> QED BY <1>3, <1>4, <1>5, <1>6, <1>7, <1>8, <1>9, <1>10 DEF FInv

\* Every step of every task keeps the invariant.
LEMMA FStep ==
  ASSUME FInv, NEW t \in Tasks, Step(t)
  PROVE  FInv'
<1>1. MemInv' /\ Holders'
  BY MemStep
<1>2. CtlType' /\ Calling' /\ ParkType' /\ Lists'
  BY CallStep, ParkStep, ListsStep
<1> QED BY <1>1, <1>2 DEF FInv, MemInv, Lists

\* Nothing the invariant speaks of is outside vars.
LEMMA FStutter ==
  ASSUME FInv, UNCHANGED vars
  PROVE  FInv'
<1>1. UNCHANGED <<wait, number, mode, due, why, sig, kick, sent, uses, page, cow, val,
                  queue, node, pc, arg, out, held>>
  BY DEF vars, parkVars, sigVars, memVars, callVars
<1>2. (MemType /\ Parted /\ Contents /\ Holders)'
  BY <1>1 DEF FInv, MemType, Parted, Contents, Holders, Sane
<1>3. (ParkType /\ CtlType /\ ListType)'
  BY <1>1 DEF FInv, ParkType, CtlType, ListType
<1>4. Calling'
  BY <1>1 DEF FInv, Calling, CallOf, Fits, Sane
<1>5. NodesFit' /\ Linked'
  BY <1>1 DEF FInv, NodesFit, NodeOf, Linked, OnList, Distinct
<1> QED BY <1>2, <1>3, <1>4, <1>5 DEF FInv

\* Memory, calls, waits, nodes and buckets are in step in every reachable state
\* (futex.c and the queue operations of sync.c it is built on).
THEOREM FutexInvariance == Spec => []FInv
<1>1. Init => FInv
  BY FInit
<1>2. FInv /\ [Next]_vars => FInv'
  BY FStep, FStutter DEF Next
<1> QED BY <1>1, <1>2, PTL DEF Spec

\* Every variable keeps its type, and futex_pi_acquire(), futex_pi_release() and
\* exit_robust_list() never leave FUTEX_WAITERS alone in a word.
THEOREM Types == Spec => []TypeOK
<1>1. ASSUME FInv PROVE TypeOK
  <2>1. /\ wait \in [Tasks -> {"IDLE", "PREPARING", "PARKED", "WOKEN"}]
        /\ sig \subseteq Tasks /\ kick \subseteq Tasks /\ sent \in 0..MaxSignals
        /\ page \in [Words -> Pages] /\ cow \subseteq CowWords
    BY <1>1 DEF FInv, ParkType, MemType
  <2>2. ASSUME NEW p \in Pages
        PROVE  /\ val[p].n \in Nat /\ val[p].tid \in Tasks \cup {None}
               /\ val[p].wtr /\ val[p].tid = None => val[p].died
    BY <1>1 DEF FInv, Contents, Sane, Vals
  <2>3. ASSUME NEW t \in Tasks
        PROVE  /\ number[t] \in 0..MaxWaits /\ Len(out[t]) <= Batch
               /\ held[t] \subseteq uses[t].writes \cap PiWords
    BY <1>1, CallNow DEF Fits, FInv, Holders
  <2> QED BY <2>1, <2>2, <2>3 DEF TypeOK
<1> QED BY <1>1, FutexInvariance, PTL

\* No wake, requeue or unlink meets a node that futex_wait_ticks() has freed, or
\* one that another bucket holds.
THEOREM LiveNodes == Spec => []NodesAreLive
<1>1. ASSUME FInv PROVE NodesAreLive
  <2>1. queue \in [Buckets -> Seq(Tasks)] /\ node \in [Tasks -> Nodes \cup {None}] /\ Linked
    BY <1>1 DEF FInv, ListType
  <2>2. ASSUME NEW b \in Buckets
        PROVE  /\ \A i \in DOMAIN queue[b] :
                    node[queue[b][i]] # None /\ node[queue[b][i]].at = b
               /\ \A i, j \in DOMAIN queue[b] : queue[b][i] = queue[b][j] => i = j
    <3>1. queue[b] \in Seq(Tasks) /\ DOMAIN queue[b] = 1..Len(queue[b])
      BY <2>1, LenProperties
    <3>2. \A i \in 1..Len(queue[b]) : queue[b][i] \in Tasks /\ OnList(queue[b][i], queue[b])
      BY <3>1, ElementOfSeq DEF OnList
    <3>3. Distinct(queue[b])
      BY <2>1 DEF Linked
    <3> QED BY <2>1, <3>1, <3>2, <3>3 DEF Linked, Distinct
  <2>3. ASSUME NEW t \in Tasks, node[t] # None, node[t].at # None
        PROVE  OnList(t, queue[node[t].at])
    <3>1. node[t].at \in Buckets
      BY <2>1, <2>3 DEF Nodes
    <3> QED BY <2>1, <2>3, <3>1 DEF Linked
  <2> QED BY <2>1, <2>2, <2>3 DEF NodesAreLive
<1> QED BY <1>1, FutexInvariance, PTL

\* A PI lock has one holder, and its word names the holder until it lets go:
\* futex_pi_acquire(), user code and exit_robust_list() never disagree.
THEOREM PiExcludes == Spec => []PiExclusion
<1>1. FInv => PiExclusion
  BY DEF FInv, Holders, PiExclusion
<1> QED BY <1>1, FutexInvariance, PTL

-----------------------------------------------------------------------------
(* Every sleeper has a waker.                                              *)

\* What is known of a task whose node is in a bucket, or detached.
LEMMA NodeNow ==
  ASSUME FInv, NEW t \in Tasks, node[t] # None
  PROVE  /\ node[t] \in Nodes /\ node[t].w \in Words /\ node[t].seq = number[t]
         /\ pc[t] \in {"commit", "asleep", "unlink", "relock"}
         /\ node[t].w \notin Targets => node[t].at \in {None, Bucket[node[t].p]}
<1>1. node[t] \in Nodes /\ NodeOf(t)
  BY DEF FInv, ListType, NodesFit
<1>2. node[t].w \in Words
  BY <1>1 DEF Nodes
<1> QED BY <1>1, <1>2 DEF NodeOf

\* A notifier that has yet to derive its key is on the page of the waiter.
LEMMA SamePage ==
  ASSUME FInv, NEW n \in Tasks, NEW t \in Tasks, Reaches(n, t), Overdue(t),
         pc[n] \in {"opread", "opwrite", "key"}
  PROVE  arg[n].w \in Words /\ page[arg[n].w] = page[node[t].w] /\ Stuck(arg[n].w)
<1>1. arg[n].w \in Words
  BY CallNow DEF Fits, Wakes
<1>2. node[t].w = arg[n].w \/ node[t].p = page[arg[n].w]
  BY DEF Reaches, WillReach, KeyOf
<1> QED BY <1>1, <1>2 DEF Reaches, Overdue

\* A step that stores nothing.  It leaves the node of t, and what t waits for,
\* alone; or links it with its word unchanged, or requeues it; or detaches it
\* and lists it.  And s stays in the way of whoever it was in the way of.
NodeMoves(s, t) ==
  \/ node'[t] = node[t] /\ arg'[t].exp = arg[t].exp
  \/ node'[t].at # None /\ (node'[t].w \in Targets \/ val[page[node'[t].w]] = arg'[t].exp)
  \/ node'[t].at = None /\ OnList(<<t, number'[t]>>, out'[s])
Goes(s, t) ==
  /\ Overdue(t) /\ Overdue(t)' /\ node'[t] = node[t] /\ Reaches(s, t) => Reaches(s, t)'
  /\ Detached(t) /\ Detached(t)' /\ OnList(<<t, number[t]>>, out[s])
       => OnList(<<t, number[t]>>, out'[s])

\* Such a step leaves every waiter whose word has changed a notifier, or lists it.
LEMMA Quiet ==
  ASSUME FInv, FInv', WInv, NEW s \in Tasks, Step(s), UNCHANGED memVars,
         \A t \in Tasks : Waiting(t)' /\ node'[t] # None => NodeMoves(s, t),
         \A t \in Tasks : Goes(s, t)
  PROVE  WInv'
<1> SUFFICES ASSUME NEW t \in Tasks
             PROVE  /\ Overdue(t)' => \E n \in Tasks : Reaches(n, t)'
                    /\ Detached(t)' => \E n \in Tasks : OnList(<<t, number'[t]>>, out'[n])
  BY DEF WInv, OnList
<1>0. UNCHANGED <<page, cow, val>>
  BY DEF memVars
<1>1. \A n \in Tasks \ {s} : pc'[n] = pc[n] /\ arg'[n] = arg[n] /\ out'[n] = out[n]
  BY Others DEF OthersKept
<1>2. ASSUME node'[t] = node[t], node[t] # None, Waiting(t)'
      PROVE  Waiting(t) /\ number'[t] = number[t]
  BY <1>2, NodeNow, ParkStep DEF WaitsMove
<1>3. ASSUME Overdue(t)' PROVE \E n \in Tasks : Reaches(n, t)'
  <2>1. node'[t] = node[t] /\ arg'[t].exp = arg[t].exp /\ node[t] # None /\ Waiting(t)'
    BY <1>0, <1>3 DEF NodeMoves, Overdue, Outdated
  <2>2. Overdue(t)
    BY <1>0, <1>2, <1>3, <2>1 DEF Overdue, Outdated
  <2>3. PICK n \in Tasks : Reaches(n, t)
    BY <2>2 DEF WInv
  <2>4. CASE n = s
    BY <1>3, <2>1, <2>2, <2>3, <2>4 DEF Goes
  <2>5. CASE n # s
    <3>1. pc'[n] = pc[n] /\ arg'[n] = arg[n]
      BY <1>1, <2>5
    <3>2. Reaches(n, t)'
      BY <1>0, <2>1, <2>3, <3>1 DEF Reaches, WillReach, KeyOf, Stuck
    <3> QED BY <3>2
  <2> QED BY <2>4, <2>5
<1>4. ASSUME Detached(t)' PROVE \E n \in Tasks : OnList(<<t, number'[t]>>, out'[n])
  <2>1. \/ node'[t] = node[t] /\ node[t] # None /\ Waiting(t)'
        \/ OnList(<<t, number'[t]>>, out'[s])
    BY <1>4 DEF NodeMoves, Detached
  <2>2. CASE node'[t] = node[t] /\ node[t] # None /\ Waiting(t)'
    <3>1. Detached(t) /\ number'[t] = number[t]
      BY <1>2, <1>4, <2>2 DEF Detached
    <3>2. PICK n \in Tasks : OnList(<<t, number[t]>>, out[n])
      BY <3>1 DEF WInv
    <3> QED BY <1>1, <1>4, <3>1, <3>2 DEF Goes
  <2> QED BY <2>1, <2>2
<1> QED BY <1>3, <1>4

\* A step of a task that is no notifier, on its own call alone.
LEMMA Calm ==
  ASSUME FInv, FInv', WInv, NEW s \in Tasks, Step(s), UNCHANGED <<memVars, node, out>>,
         node[s] # None => arg'[s].exp = arg[s].exp,
         pc[s] \notin Wakes \/ (pc'[s] = pc[s] /\ arg'[s] = arg[s])
  PROVE  WInv'
<1>0. UNCHANGED <<page, cow, val>>
  BY DEF memVars
<1>1. ASSUME NEW t \in Tasks, node'[t] # None PROVE NodeMoves(s, t)
  BY <1>1, Others DEF OthersKept, NodeMoves
<1>2. ASSUME NEW t \in Tasks PROVE Goes(s, t)
  <2>1. CASE pc[s] \notin Wakes
    BY <2>1 DEF Goes, Reaches, WillReach, Wakes
  <2>2. CASE pc'[s] = pc[s] /\ arg'[s] = arg[s]
    <3>1. Reaches(s, t) => Reaches(s, t)'
      BY <1>0, <2>2 DEF Reaches, WillReach, KeyOf, Stuck
    <3> QED BY <3>1 DEF Goes
  <2> QED BY <2>1, <2>2
<1> QED BY <1>1, <1>2, Quiet

\* Waiters and callers, signals and timeouts.
LEMMA WakersCalm ==
  ASSUME FInv, FInv', WInv, NEW s \in Tasks, Step(s), UNCHANGED <<memVars, node, out>>,
         \/ \E w, d : WaitCall(s, w, d) \/ LockCall(s, w, d)
         \/ Prepare(s) \/ Link(s) \/ Cancel(s) \/ Commit(s) \/ Finish(s) \/ Unlink(s)
         \/ UnlinkLocked(s) \/ PiAcquire(s) \/ Exit(s) \/ RobustRead(s)
         \/ SigSend(s) \/ SigKick(s) \/ SigTake(s) \/ DeadlinePasses(s) \/ Timeout(s)
  PROVE  WInv'
<1>0. NodeOf(s) /\ arg \in [Tasks -> Args] /\ arg[s] \in Args /\ ListType
  BY DEF FInv, NodesFit, CtlType
<1>1. CASE \E w, d : WaitCall(s, w, d) \/ LockCall(s, w, d)
  <2>1. pc[s] = "user"
    BY <1>1, Zenon DEF WaitCall, LockCall
  <2> QED BY <1>0, <2>1, Calm DEF NodeOf, Wakes
<1>2. CASE Prepare(s) \/ Link(s) \/ Cancel(s) \/ Commit(s)
  <2>1. /\ pc[s] \in {"prepare", "link", "cancel", "commit"}
        /\ pc[s] = "commit" => arg' = arg
    BY <1>2, Zenon DEF Prepare, Link, Cancel, Commit
  <2> QED BY <1>0, <2>1, Calm DEF NodeOf, Wakes
<1>3. CASE Finish(s)
  <2>1. pc[s] = "asleep" /\ (node[s] # None => arg'[s].exp = arg[s].exp)
    BY <1>0, <1>3 DEF Finish, Args
  <2> QED BY <2>1, Calm DEF Wakes
<1>4. CASE Unlink(s) \/ UnlinkLocked(s)
  <2>1. pc[s] \in {"unlink", "relock"} /\ node[s] # None
    BY <1>0, <1>4 DEF Unlink, UnlinkLocked, NodeOf
  <2>2. node' # [node EXCEPT ![s] = None]
    BY <1>0, <2>1 DEF ListType
  <2>3. arg'[s].exp = arg[s].exp
    BY <1>0, <1>4, <2>2 DEF Unlink, UnlinkLocked, Args
  <2> QED BY <2>1, <2>3, Calm DEF Wakes
<1>5. CASE PiAcquire(s) \/ Exit(s) \/ RobustRead(s)
  <2>1. pc[s] \in {"lock", "user", "exit"}
    BY <1>5, Zenon DEF PiAcquire, Exit, RobustRead
  <2> QED BY <1>0, <2>1, Calm DEF NodeOf, Wakes
<1>6. CASE SigSend(s) \/ SigKick(s) \/ SigTake(s) \/ DeadlinePasses(s) \/ Timeout(s)
  <2>1. pc' = pc /\ arg' = arg
    BY <1>6 DEF SigSend, SigKick, SigTake, DeadlinePasses, Timeout, callVars
  <2> QED BY <2>1, Calm
<1> QED BY <1>1, <1>2, <1>3, <1>4, <1>5, <1>6

\* A waiter links itself, having read its word again, or unlinks itself.
LEMMA WakersLink ==
  ASSUME FInv, FInv', WInv, NEW s \in Tasks, Step(s), Link(s) \/ Unlink(s) \/ UnlinkLocked(s)
  PROVE  WInv'
<1>0. /\ arg[s] \in Args /\ ListType /\ UNCHANGED <<memVars, out>>
      /\ pc[s] \in {"link", "unlink", "relock"}
  BY CallNow, Zenon DEF Link, Unlink, UnlinkLocked, FInv
<1>1. CASE node' = node
  BY <1>0, <1>1, WakersCalm
<1>2. \A t \in Tasks : Goes(s, t)
  BY <1>0 DEF Goes, Reaches, WillReach
<1>3. ASSUME NEW m, node' = [node EXCEPT ![s] = m],
             m = None \/ (arg' = arg /\ m.at # None /\ val[page[m.w]] = arg[s].exp)
      PROVE  WInv'
  <2>1. node'[s] = m /\ \A t \in Tasks \ {s} : node'[t] = node[t]
    BY <1>0, <1>3 DEF ListType
  <2>2. ASSUME NEW t \in Tasks, node'[t] # None PROVE NodeMoves(s, t)
    <3>1. CASE t = s
      BY <1>3, <2>1, <2>2, <3>1 DEF NodeMoves
    <3>2. CASE t # s
      BY <2>1, <3>2, Others DEF OthersKept, NodeMoves
    <3> QED BY <3>1, <3>2
  <2> QED BY <1>0, <1>2, <2>2, Quiet
<1>4. CASE Link(s) /\ node' # node
  <2> DEFINE w == arg[s].w
             m == [w |-> w, p |-> page[w], seq |-> number[s], at |-> Bucket[page[w]]]
  <2>1. /\ val[page[w]] = arg[s].exp /\ node' = [node EXCEPT ![s] = m] /\ arg' = arg
        /\ pc[s] = "link"
    BY <1>4, Zenon DEF Link
  <2>2. w \in Words
    BY <2>1, CallNow DEF Fits, Waits
  <2>3. page[w] \in Pages
    BY <2>2, CallNow
  <2>4. m.at # None /\ m.w = w
    BY <2>3, FutexAssumption DEF Buckets
  <2> HIDE DEF m
  <2> QED BY <1>3, <2>1, <2>4, Zenon
<1>5. CASE (Unlink(s) \/ UnlinkLocked(s)) /\ node' # node
  <2>1. node' = [node EXCEPT ![s] = None]
    BY <1>5 DEF Unlink, UnlinkLocked
  <2> QED BY <1>3, <2>1
<1> QED BY <1>1, <1>4, <1>5

\* A notifier goes on from one point of its call to the next.
LEMMA WakersPhase ==
  ASSUME FInv, FInv', WInv, NEW s \in Tasks, Step(s), WakeOpRead(s) \/ Key(s) \/ Phase(s)
  PROVE  WInv'
<1>0. /\ arg[s] \in Args /\ UNCHANGED <<memVars, node, out>>
      /\ arg \in [Tasks -> Args] /\ pc \in [Tasks -> PCs]
      /\ Fits(pc[s], arg[s], out[s], number[s], held[s], uses[s].writes)
  BY CallNow DEF WakeOpRead, Key, Phase, FInv, CtlType
<1>1. UNCHANGED <<page, cow, val>>
  BY <1>0 DEF memVars
<1>2. pc[s] \in {"opread", "key", "phase"}
  BY DEF WakeOpRead, Key, Phase
<1>3. node[s] = None
  BY <1>2 DEF FInv, NodesFit, NodeOf
<1>4. ASSUME NEW t \in Tasks, node'[t] # None PROVE NodeMoves(s, t)
  BY <1>0, <1>3, <1>4, Others DEF OthersKept, NodeMoves
<1>5. ASSUME NEW t \in Tasks, Reaches(s, t) PROVE Reaches(s, t)'
  <2>0. node'[t] = node[t]
    BY <1>0
  <2>1. CASE WakeOpRead(s)
    <3>1. /\ pc[s] = "opread" /\ pc'[s] = "opwrite" /\ arg[s].then = "wake2"
          /\ arg'[s] = [arg[s] EXCEPT !.exp = val[page[arg[s].w2]]]
      BY <1>0, <2>1 DEF WakeOpRead, Goto, Fits
    <3>2. /\ arg'[s].w = arg[s].w /\ arg'[s].nr = arg[s].nr /\ arg'[s].then = arg[s].then
          /\ arg'[s].priv = arg[s].priv
      BY <1>0, <3>1 DEF Args
    <3> QED BY <1>1, <1>5, <2>0, <3>1, <3>2 DEF Reaches, WillReach, KeyOf, Stuck
  <2>2. CASE Key(s)
    <3>1. pc[s] = "key" /\ (arg[s].then = "requeue" => val[page[arg[s].w]] = arg[s].exp)
      BY <1>5, <2>2 DEF Key, Reaches
    <3> DEFINE l == IF arg[s].w2 = None THEN None ELSE page[arg[s].w2]
    <3>2. pc'[s] = "collect" /\ arg'[s] = [arg[s] EXCEPT !.key = page[arg[s].w], !.key2 = l]
      BY <1>0, <2>2, <3>1 DEF Key, Goto
    <3> HIDE DEF l
    <3>3. /\ arg'[s].w = arg[s].w /\ arg'[s].nr = arg[s].nr /\ arg'[s].then = arg[s].then
          /\ arg'[s].priv = arg[s].priv /\ arg'[s].key = page[arg[s].w]
      BY <1>0, <3>2 DEF Args
    <3> QED BY <1>5, <2>0, <3>1, <3>2, <3>3 DEF Reaches, WillReach, KeyOf
  <2>3. CASE Phase(s)
    <3>1. pc[s] = "phase" /\ arg[s].then = "requeue"
      BY <1>5, <2>3 DEF Phase, Reaches, WillReach
    <3>2. pc'[s] = "requeue" /\ arg'[s] = arg[s]
      BY <1>0, <2>3, <3>1 DEF Phase, Goto
    <3> QED BY <1>5, <2>0, <3>1, <3>2 DEF Reaches, WillReach, KeyOf
  <2> QED BY <2>1, <2>2, <2>3
<1>6. ASSUME NEW t \in Tasks PROVE Goes(s, t)
  BY <1>0, <1>5 DEF Goes
<1> QED BY <1>0, <1>4, <1>6, Quiet

\* proc_wake_q_flush(): the wait of the waiter it takes off its list is over.
LEMMA WakersFlush ==
  ASSUME FInv, FInv', WInv, NEW s \in Tasks, Step(s), Flush(s)
  PROVE  WInv'
<1>0. /\ arg[s] \in Args /\ UNCHANGED <<memVars, node, arg>>
      /\ arg \in [Tasks -> Args] /\ pc \in [Tasks -> PCs]
      /\ out \in [Tasks -> Seq(Tasks \X Nat)] /\ out[s] \in Seq(Tasks \X Nat)
      /\ Fits(pc[s], arg[s], out[s], number[s], held[s], uses[s].writes)
      /\ pc[s] = "flush" /\ ParkType
  BY CallNow DEF Flush, FInv, CtlType
<1>1. out[s] # <<>> /\ out'[s] = Tail(out[s])
  BY <1>0 DEF Flush, Fits
<1>2. /\ Head(out[s]) \in Tasks \X Nat
      /\ \A y : OnList(y, out[s]) <=> y = Head(out[s]) \/ OnList(y, Tail(out[s]))
  BY <1>0, <1>1, PopHead
<1>3. Head(out[s]) = out[s][1]
  BY <1>0, <1>1, HeadTailProperties
<1>4. ASSUME NEW t \in Tasks, Reaches(s, t) PROVE Reaches(s, t)'
  <2>1. /\ node'[t] = node[t] /\ arg'[s] = arg[s]
        /\ pc'[s] \in {"flush", "collect", "phase"} /\ (arg[s].nr # 0 => pc'[s] # "phase")
    BY <1>0 DEF Flush, Goto
  <2>2. arg[s].nr = All => pc'[s] # "phase"
    BY <2>1 DEF All
  <2> QED BY <1>0, <1>4, <2>1, <2>2 DEF Reaches, WillReach, KeyOf
<1>5. ASSUME NEW t \in Tasks, Detached(t), Detached(t)', OnList(<<t, number[t]>>, out[s])
      PROVE  OnList(<<t, number[t]>>, out'[s])
  <2> SUFFICES ASSUME <<t, number[t]>> = out[s][1] PROVE FALSE
    BY <1>1, <1>2, <1>3, <1>5
  <2>1. out[s][1][1] = t /\ out[s][1][2] = number[t]
    OBVIOUS
  <2>2. Park!End(t, "EVENT")
    BY <1>5, <2>1 DEF Flush, Detached
  <2>3. wait'[t] = "WOKEN"
    BY <1>0, <2>2 DEF Park!End, ParkType
  <2> QED BY <1>5, <2>3 DEF Detached, Waiting
<1>6. ASSUME NEW t \in Tasks PROVE Goes(s, t)
  BY <1>4, <1>5 DEF Goes
<1>7. ASSUME NEW t \in Tasks PROVE NodeMoves(s, t)
  BY <1>0 DEF NodeMoves
<1> QED BY <1>0, <1>6, <1>7, Quiet

\* wait_queue_collect_matching(): a waiter it meets is taken, or the batch is
\* full and there is another round; those taken are listed.
LEMMA WakersCollect ==
  ASSUME FInv, FInv', WInv, NEW s \in Tasks, Step(s), Collect(s)
  PROVE  WInv'
<1>0. /\ arg[s] \in Args /\ arg \in [Tasks -> Args] /\ pc \in [Tasks -> PCs]
      /\ out \in [Tasks -> Seq(Tasks \X Nat)] /\ UNCHANGED memVars
      /\ Fits(pc[s], arg[s], out[s], number[s], held[s], uses[s].writes)
      /\ pc[s] = "collect" /\ Linked /\ Batch \in Nat /\ Batch > 0 /\ number' = number
  BY CallNow, FutexAssumption, Zenon DEF Collect, FInv, CtlType, parkVars
<1>1. PICK b \in Buckets, got \in Seq(Tasks), rest \in Seq(Tasks) :
        /\ b = Bucket[arg[s].key] /\ Batched(s, b, got, rest)
        /\ Collected(s, b, got, rest)
  BY CollectEffect
<1>2. /\ arg'[s].w = arg[s].w /\ arg'[s].then = arg[s].then /\ arg'[s].priv = arg[s].priv
      /\ arg'[s].key = arg[s].key /\ arg'[s].nr = Left(arg[s], got)
      /\ pc'[s] = IF got = <<>> THEN "phase" ELSE "flush"
  <2>1. arg'[s] = [arg[s] EXCEPT !.nr = Left(arg[s], got)]
    BY <1>0, <1>1 DEF Collected
  <2>2. /\ arg'[s].w = arg[s].w /\ arg'[s].then = arg[s].then /\ arg'[s].priv = arg[s].priv
        /\ arg'[s].key = arg[s].key /\ arg'[s].nr = Left(arg[s], got)
    BY <1>0, <2>1 DEF Args
  <2> QED BY <1>0, <1>1, <2>2 DEF Collected
<1>3. ASSUME NEW t \in Tasks, OnList(t, got)
      PROVE  node[t] # None /\ node'[t].at = None /\ OnList(<<t, number'[t]>>, out'[s])
  <2>1. OnList(t, queue[b])
    BY <1>1, <1>3 DEF Batched
  <2>2. node[t] # None
    BY <1>0, <2>1 DEF Linked
  <2>3. node[t].seq = number[t] /\ node[t] \in Nodes
    BY <2>2, NodeNow
  <2>4. node'[t].at = None
    BY <1>1, <1>3, <2>3 DEF Collected, Nodes
  <2> DEFINE o == [i \in DOMAIN got |-> <<got[i], node[got[i]].seq>>]
  <2>5. out'[s] = o
    BY <1>0, <1>1 DEF Collected
  <2>6. Len(got) \in Nat /\ DOMAIN got = 1..Len(got)
    BY <1>1, LenProperties
  <2>7. PICK i \in 1..Len(got) : got[i] = t
    BY <1>3 DEF OnList
  <2>8. o[i] = <<t, number'[t]>> /\ DOMAIN o = 1..Len(got)
    BY <1>0, <2>3, <2>6, <2>7
  <2>9. out'[s] \in Seq(Tasks \X Nat)
    BY DEF FInv, CtlType
  <2>10. Len(o) = Len(got)
    BY <2>5, <2>6, <2>8, <2>9, LenProperties
  <2> HIDE DEF o
  <2> QED BY <2>2, <2>4, <2>5, <2>7, <2>8, <2>10 DEF OnList
<1>4. ASSUME NEW t \in Tasks, ~OnList(t, got) PROVE node'[t] = node[t]
  BY <1>1, <1>4 DEF Collected
<1>5. ASSUME NEW t \in Tasks, node'[t] # None PROVE NodeMoves(s, t)
  <2>1. CASE OnList(t, got)
    BY <1>3, <2>1 DEF NodeMoves
  <2>2. CASE ~OnList(t, got)
    <3>1. node'[t] = node[t] /\ t # s
      BY <1>0, <1>4, <1>5, <2>2, NodeNow
    <3> QED BY <3>1, Others DEF OthersKept, NodeMoves
  <2> QED BY <2>1, <2>2
<1>6. ASSUME NEW t \in Tasks, Overdue(t), node'[t] = node[t], Reaches(s, t)
      PROVE  Reaches(s, t)'
  <2>1. /\ arg[s].nr = All \/ arg[s].then = "requeue"
        /\ node[t] # None /\ node[t].at = b /\ Match(s, t)
    BY <1>0, <1>1, <1>6 DEF Reaches, WillReach, KeyOf, Overdue, Outdated, Match
  <2>2. ~OnList(t, got)
    BY <1>3, <1>6, <2>1, FutexAssumption
  <2>3. Len(got) = Wanted(arg[s])
    BY <1>0, <1>1, <2>1, <2>2 DEF Linked, Batched
  <2>4. arg[s].nr = All => got # <<>> /\ Left(arg[s], got) = All
    <3> SUFFICES ASSUME arg[s].nr = All PROVE got # <<>> /\ Left(arg[s], got) = All
      OBVIOUS
    <3>1. Len(got) = Batch /\ Len(got) # 0
      BY <1>0, <2>3 DEF Wanted
    <3>2. got # <<>>
      BY <1>1, <3>1, EmptyList
    <3>3. ~(Len(got) < Wanted(arg[s]))
      BY <1>0, <2>3, <3>1
    <3> QED BY <3>2, <3>3 DEF Left
  <2> QED BY <1>0, <1>2, <1>6, <2>1, <2>4 DEF Reaches, WillReach, KeyOf
<1>7. ASSUME NEW t \in Tasks PROVE Goes(s, t)
  <2>1. ~OnList(<<t, number[t]>>, out[s])
    BY <1>0 DEF Fits, OnList
  <2> QED BY <1>6, <2>1 DEF Goes
<1> QED BY <1>0, <1>5, <1>7, Quiet, Zenon

\* wait_queue_requeue_matching(): a waiter it meets is moved.
LEMMA WakersRequeue ==
  ASSUME FInv, FInv', WInv, NEW s \in Tasks, Step(s), Requeue(s)
  PROVE  WInv'
<1>0. /\ Fits(pc[s], arg[s], out[s], number[s], held[s], uses[s].writes)
      /\ pc[s] = "requeue" /\ Linked /\ UNCHANGED <<memVars, out>>
  BY CallNow, Zenon DEF Requeue, FInv
<1>1. PICK b \in Buckets, d \in Buckets, moved \in Seq(Tasks), rest \in Seq(Tasks),
           into \in Seq(Tasks) :
        /\ b = Bucket[arg[s].key] /\ d = Bucket[arg[s].key2]
        /\ Moved(s, b, d, moved, rest, into) /\ Requeued(s, b, d, moved, rest, into)
  BY RequeueEffect
<1>2. arg[s].w2 \in Targets
  BY <1>0 DEF Fits, Wakes
<1>3. ASSUME NEW t \in Tasks, OnList(t, moved)
      PROVE  node'[t].at # None /\ node'[t].w \in Targets
  <2>1. OnList(t, queue[b])
    BY <1>1, <1>3 DEF Moved
  <2>2. node[t] # None
    BY <1>0, <2>1 DEF Linked
  <2>3. node[t] \in Nodes
    BY <2>2, NodeNow
  <2>4. node'[t].at = d /\ node'[t].w = arg[s].w2
    BY <1>1, <1>3, <2>3, Zenon DEF Requeued, Nodes
  <2> QED BY <1>1, <1>2, <2>4, FutexAssumption
<1>4. ASSUME NEW t \in Tasks, node'[t] # None PROVE NodeMoves(s, t)
  <2>1. CASE OnList(t, moved)
    BY <1>3, <2>1 DEF NodeMoves
  <2>2. CASE ~OnList(t, moved)
    <3>1. node'[t] = node[t]
      BY <1>1, <2>2, Zenon DEF Requeued
    <3>2. t # s
      BY <1>0, <1>4, <3>1, NodeNow
    <3> QED BY <3>1, <3>2, Others DEF OthersKept, NodeMoves
  <2> QED BY <2>1, <2>2
<1>5. ASSUME NEW t \in Tasks, Overdue(t), node'[t] = node[t], Reaches(s, t)
      PROVE  FALSE
  <2>1. node[t] # None /\ node[t].at = b /\ Match(s, t) /\ node[t].w \notin Targets
    BY <1>0, <1>1, <1>5 DEF Reaches, WillReach, KeyOf, Overdue, Outdated, Match
  <2>2. OnList(t, moved)
    BY <1>0, <1>1, <2>1 DEF Linked, Moved
  <2> QED BY <1>3, <1>5, <2>1, <2>2
<1>6. ASSUME NEW t \in Tasks PROVE Goes(s, t)
  BY <1>0, <1>5 DEF Goes
<1> QED BY <1>0, <1>4, <1>6, Quiet

\* A notifier in the way of a waiter whose word the store does not touch is in
\* its way after it.
LEMMA ReachKept ==
  ASSUME FInv, NEW w \in Words, NEW p, NEW x, StoredAt(w, p, x), NEW n \in Tasks,
         NEW t \in Tasks, Reaches(n, t), Overdue(t), page'[node[t].w] # p, node' = node,
         arg'[n] = arg[n],
         pc'[n] = pc[n] \/ (pc[n] = "opwrite" /\ pc'[n] = "key" /\ arg[n].then # "requeue")
  PROVE  Reaches(n, t)'
<1>0. MemType /\ node[t] # None
  BY DEF FInv, Overdue, Outdated
<1>1. node[t].w \in Words
  BY <1>0, NodeNow
<1>2. CASE pc[n] \in {"opread", "opwrite", "key"}
  <2>1. arg[n].w \in Words /\ page[arg[n].w] = page[node[t].w] /\ Stuck(arg[n].w)
    BY <1>2, SamePage
  <2>2. node[t].w # w /\ page'[node[t].w] = page[node[t].w]
    BY <1>0, <1>1, StoreReads
  <2>3. page'[arg[n].w] = page[arg[n].w]
    <3>1. CASE arg[n].w # w
      BY <1>0, <2>1, <3>1, StoreReads
    <3>2. CASE arg[n].w = w
      <4>1. p = page[w] \/ ~Stuck(w)
        BY DEF StoredAt, Stuck
      <4> QED BY <1>0, <2>1, <3>2, <4>1, StoreReads
    <3> QED BY <3>1, <3>2
  <2>4. val'[page'[arg[n].w]] = val[page[arg[n].w]]
    BY <1>0, <2>1, <2>2, <2>3, StoreReads
  <2>5. Stuck(arg[n].w)'
    <3>1. \A v \in Words : page'[v] = page'[arg[n].w] => page[v] = page[arg[n].w]
      BY <1>0, <2>1, StoreReads
    <3>2. cow' \subseteq cow
      BY DEF StoredAt
    <3>3. arg[n].w \notin cow' \/ \A v \in Words \ {arg[n].w} : page'[v] # page'[arg[n].w]
      BY <2>1, <3>1, <3>2 DEF Stuck
    <3> QED BY <3>3 DEF Stuck
  <2>6. pc'[n] \in {"opread", "opwrite", "key"} /\ (pc'[n] = pc[n] \/ arg[n].then # "requeue")
    BY <1>2
  <2>7. /\ KeyOf(n) = page[arg[n].w] /\ KeyOf(n)' = page[arg[n].w]
    BY <1>2, <2>3, <2>6 DEF KeyOf
  <2>8. WillReach(n, t)'
    BY <1>2, <2>6, <2>7 DEF Reaches, WillReach
  <2> QED BY <2>3, <2>4, <2>5, <2>6, <2>8 DEF Reaches
<1>3. CASE pc[n] \notin {"opread", "opwrite", "key"}
  <2>1. pc'[n] = pc[n] /\ KeyOf(n) = arg[n].key /\ KeyOf(n)' = arg[n].key
    BY <1>3 DEF KeyOf
  <2> QED BY <1>3, <2>1 DEF Reaches, WillReach
<1> QED BY <1>2, <1>3

\* A step of s that stores: the waiters whose word it changes are in its way.
LEMMA WakersStore ==
  ASSUME FInv, FInv', WInv, NEW s \in Tasks, Step(s), UNCHANGED <<parkVars, node, out>>,
         NEW w \in Words, NEW p, NEW x, StoredAt(w, p, x),
         \A t \in Tasks : Overdue(t)' /\ page'[node[t].w] = p => Reaches(s, t)',
         \/ pc[s] \in {"user", "lock", "robust"}
         \/ pc[s] = "opwrite" /\ pc'[s] = "key" /\ arg'[s] = arg[s]
  PROVE  WInv'
<1> SUFFICES ASSUME NEW t \in Tasks
             PROVE  /\ Overdue(t)' => \E n \in Tasks : Reaches(n, t)'
                    /\ Detached(t)' => \E n \in Tasks : OnList(<<t, number'[t]>>, out'[n])
  BY DEF WInv, OnList
<1>0. MemType /\ UNCHANGED <<wait, number>>
  BY DEF FInv, parkVars
<1>1. Detached(t)' => \E n \in Tasks : OnList(<<t, number'[t]>>, out'[n])
  BY <1>0 DEF WInv, Detached, Waiting
<1>2. ASSUME Overdue(t)' PROVE \E n \in Tasks : Reaches(n, t)'
  <2>1. node[t] # None
    BY <1>2 DEF Overdue, Outdated
  <2>2. t # s /\ node[t].w \in Words
    BY <2>1, NodeNow
  <2>3. CASE page'[node[t].w] = p
    BY <1>2, <2>3
  <2>4. CASE page'[node[t].w] # p
    <3>1. /\ page'[node[t].w] = page[node[t].w]
          /\ val'[page'[node[t].w]] = val[page[node[t].w]]
      BY <1>0, <2>2, <2>4, StoreReads
    <3>2. arg'[t] = arg[t]
      BY <2>2, Others DEF OthersKept
    <3>3. Overdue(t)
      BY <1>0, <1>2, <3>1, <3>2 DEF Overdue, Outdated, Waiting
    <3>4. PICK n \in Tasks : Reaches(n, t)
      BY <3>3 DEF WInv
    <3>5. /\ arg'[n] = arg[n]
          /\ pc'[n] = pc[n] \/ (pc[n] = "opwrite" /\ pc'[n] = "key" /\ arg[n].then # "requeue")
      <4>1. CASE n # s
        BY <4>1, Others DEF OthersKept
      <4>2. CASE n = s
        <5>1. pc[s] = "opwrite" /\ pc'[s] = "key" /\ arg'[s] = arg[s]
          BY <3>4, <4>2 DEF Reaches, WillReach
        <5>2. arg[s].then = "wake2"
          BY <5>1, CallNow DEF Fits
        <5> QED BY <4>2, <5>1, <5>2
      <4> QED BY <4>1, <4>2
    <3>6. Reaches(n, t)'
      BY <2>4, <3>3, <3>4, <3>5, ReachKept
    <3> QED BY <3>6
  <2> QED BY <2>3, <2>4
<1> QED BY <1>1, <1>2

\* A store to a PI word or to a target changes no event counter.
LEMMA WakersApart ==
  ASSUME FInv, FInv', WInv, NEW s \in Tasks, Step(s), UNCHANGED <<parkVars, node, out>>,
         NEW w \in Words, NEW p, NEW x, StoredAt(w, p, x), w \in PiWords \cup Targets,
         \/ pc[s] \in {"user", "lock", "robust"}
         \/ pc[s] = "opwrite" /\ pc'[s] = "key" /\ arg'[s] = arg[s]
  PROVE  WInv'
<1>1. ASSUME NEW t \in Tasks, Overdue(t)', page'[node[t].w] = p PROVE FALSE
  <2>0. node[t] # None /\ node[t].w \notin Targets \cup PiWords /\ MemType /\ Parted
    BY <1>1 DEF Overdue, Outdated, FInv
  <2>1. node[t].w \in Words
    BY <2>0, NodeNow
  <2>2. page[node[t].w] = page[w]
    BY <1>1, <2>0, <2>1, StoreReads
  <2>3. PageOf[node[t].w] = PageOf[w]
    BY <2>0, <2>1, <2>2 DEF Parted
  <2> QED BY <2>0, <2>1, <2>3, FutexAssumption
<1> QED BY <1>1, WakersStore

\* A notifier's store: it has yet to search the bucket of the page it stored to,
\* and a private call is made only where no other word shares that page.
LEMMA WakersNotify ==
  ASSUME FInv, FInv', WInv, NEW s \in Tasks, Step(s), NEW w \in uses[s].writes,
         NEW c \in Calls, NEW w2, NEW priv \in BOOLEAN, Notify(s, w, c, w2, priv)
  PROVE  WInv'
<1> DEFINE x == Incremented(val[page[w]])
<1>0. /\ w \in Words /\ w \notin PiWords /\ Store(w, x) /\ MemType /\ Parted
      /\ pc[s] = "user" /\ UNCHANGED <<parkVars, node, out>>
      /\ arg \in [Tasks -> Args] /\ pc \in [Tasks -> PCs]
  BY CallNow DEF Notify, FInv, CtlType
<1>1. priv => Private(w)
  BY <1>0, FutexAssumption DEF Notify
<1>2. /\ arg'[s].w = w /\ arg'[s].priv = priv /\ arg'[s].exp = x
      /\ arg'[s].nr = IF c = "REQUEUE" \/ w \in Targets THEN 1 ELSE All
      /\ c = "REQUEUE" => arg'[s].then = "requeue"
      /\ pc'[s] = IF c = "WAKE_OP" THEN "opread" ELSE "key"
  BY <1>0 DEF Notify, Goto, NoCall
<1> HIDE DEF x
<1>3. PICK p \in Pages : StoredAt(w, p, x)
  BY <1>0, StoreEffect
<1>4. ASSUME NEW t \in Tasks, Overdue(t)', page'[node[t].w] = p PROVE Reaches(s, t)'
  <2>0. /\ node[t] # None /\ node[t].at # None /\ node[t].w \notin Targets
        /\ node[t].p = p /\ node'[t] = node[t]
    BY <1>0, <1>4 DEF Overdue, Outdated
  <2>1. node[t].w \in Words /\ node[t].at = Bucket[p]
    BY <2>0, NodeNow
  <2>2. page'[w] = p /\ val'[p] = x /\ page[node[t].w] = page[w]
    BY <1>0, <1>3, <1>4, <2>1, StoreReads
  <2>3. PageOf[node[t].w] = PageOf[w]
    BY <1>0, <2>1, <2>2 DEF Parted
  <2>4. w \notin Targets
    BY <1>0, <2>0, <2>1, <2>3, FutexAssumption
  <2>5. Stuck(w)'
    <3>1. w \notin cow' \/ (page' = page /\ cow' = cow /\ Stuck(w))
      <4>1. p = page[w] => page' = page
        BY <1>0, <1>3 DEF StoredAt, MemType
      <4> QED BY <1>3, <4>1 DEF StoredAt
    <3> QED BY <3>1 DEF Stuck
  <2>6. priv => node[t].w = w
    <3> SUFFICES ASSUME priv, node[t].w # w PROVE FALSE
      OBVIOUS
    <3>1. w \in CowWords
      BY <1>1, <2>1, <2>3 DEF Private
    <3>2. page'[node[t].w] = page[node[t].w]
      BY <1>0, <1>3, <2>1, StoreReads
    <3>3. p = page[w] /\ Stuck(w)
      BY <1>3, <1>4, <2>1, <3>2 DEF StoredAt
    <3>4. w \in CowWords \ cow
      BY <2>1, <2>2, <3>1, <3>3 DEF Stuck
    <3> QED BY <1>0, <2>1, <2>2, <3>4 DEF Parted
  <2>7. KeyOf(s)' = p
    BY <1>2, <2>2 DEF KeyOf
  <2>8. WillReach(s, t)'
    BY <1>2, <2>0, <2>1, <2>4, <2>6, <2>7 DEF WillReach
  <2> QED BY <1>2, <2>2, <2>5, <2>8 DEF Reaches
<1> QED BY <1>0, <1>3, <1>4, WakersStore

\* The other stores: wake-op to its second word, and PI words.
LEMMA WakersOther ==
  ASSUME FInv, FInv', WInv, NEW s \in Tasks, Step(s),
         \/ \E w \in uses[s].writes : UserLock(s, w) \/ UserUnlock(s, w) \/ PiRelease(s, w)
         \/ WakeOpWrite(s) \/ PiAcquire(s) \/ RobustWrite(s)
  PROVE  WInv'
<1>0. /\ MemType /\ Holders /\ arg \in [Tasks -> Args] /\ pc \in [Tasks -> PCs]
      /\ Fits(pc[s], arg[s], out[s], number[s], held[s], uses[s].writes)
      /\ uses[s].writes \in SUBSET Words
  BY CallNow DEF FInv, CtlType
<1>1. ASSUME NEW w \in PiWords \cup Targets, NEW x, Store(w, x),
             UNCHANGED <<parkVars, node, out>>,
             \/ pc[s] \in {"user", "lock", "robust"}
             \/ pc[s] = "opwrite" /\ pc'[s] = "key" /\ arg'[s] = arg[s]
      PROVE  WInv'
  <2>1. w \in Words
    BY FutexAssumption
  <2>2. PICK p \in Pages : StoredAt(w, p, x)
    BY <1>0, <1>1, <2>1, StoreEffect
  <2> QED BY <1>1, <2>1, <2>2, WakersApart
<1>2. CASE \E w \in uses[s].writes : UserLock(s, w) \/ UserUnlock(s, w) \/ PiRelease(s, w)
  <2>1. PICK w \in uses[s].writes : UserLock(s, w) \/ UserUnlock(s, w) \/ PiRelease(s, w)
    BY <1>2
  <2>2. pc[s] = "user" /\ UNCHANGED <<parkVars, node, out>> /\ \E x : Store(w, x)
    BY <2>1 DEF UserLock, UserUnlock, PiRelease
  <2>3. w \in PiWords
    BY <1>0, <2>1 DEF UserLock, UserUnlock, PiRelease, Holders
  <2> QED BY <1>1, <2>2, <2>3
<1>3. CASE WakeOpWrite(s)
  <2>1. /\ pc[s] = "opwrite" /\ pc'[s] = "key" /\ arg'[s] = arg[s]
        /\ UNCHANGED <<parkVars, node, out>> /\ \E x : Store(arg[s].w2, x)
    BY <1>0, <1>3 DEF WakeOpWrite, Goto
  <2>2. arg[s].w2 \in Targets
    BY <1>0, <2>1 DEF Fits, Wakes
  <2> QED BY <1>1, <2>1, <2>2
<1>4. CASE PiAcquire(s)
  <2>1. pc[s] = "lock" /\ UNCHANGED <<parkVars, node, out>> /\ arg[s].w \in PiWords
    BY <1>0, <1>4 DEF PiAcquire, Fits
  <2>2. UNCHANGED memVars \/ \E x : Store(arg[s].w, x)
    BY <1>4 DEF PiAcquire
  <2>3. CASE UNCHANGED memVars
    BY <1>4, <2>1, <2>3, WakersCalm
  <2>4. CASE \E x : Store(arg[s].w, x)
    BY <1>1, <2>1, <2>4
  <2> QED BY <2>2, <2>3, <2>4
<1>5. CASE RobustWrite(s)
  <2>1. pc[s] = "robust" /\ UNCHANGED <<parkVars, node, out>> /\ \E x : Store(arg[s].w, x)
    BY <1>5 DEF RobustWrite
  <2>2. arg[s].w \in PiWords
    BY <1>0, <2>1 DEF Fits, Holders
  <2> QED BY <1>1, <2>1, <2>2
<1> QED BY <1>2, <1>3, <1>4, <1>5

\* Every step of every task leaves each waiter a waker.
LEMMA WStep ==
  ASSUME FInv, FInv', WInv, NEW s \in Tasks, Step(s)
  PROVE  WInv'
<1>1. ASSUME NEW w \in uses[s].writes, NEW c \in Calls, NEW w2, NEW priv \in BOOLEAN,
             Notify(s, w, c, w2, priv)
      PROVE  WInv'
  BY <1>1, WakersNotify
<1>2. ASSUME NEW w \in uses[s].writes, UserLock(s, w) \/ UserUnlock(s, w) \/ PiRelease(s, w)
      PROVE  WInv'
  BY <1>2, WakersOther
<1>3. ASSUME NEW w, NEW d, WaitCall(s, w, d) \/ LockCall(s, w, d) PROVE WInv'
  <2>1. UNCHANGED <<memVars, node, out>>
    BY <1>3 DEF WaitCall, LockCall
  <2> QED BY <1>3, <2>1, WakersCalm
<1>4. CASE \/ Prepare(s) \/ Cancel(s) \/ Commit(s) \/ Finish(s) \/ Exit(s) \/ RobustRead(s)
           \/ SigSend(s) \/ SigKick(s) \/ SigTake(s) \/ DeadlinePasses(s) \/ Timeout(s)
  <2>1. UNCHANGED <<memVars, node, out>>
    BY <1>4, Zenon DEF Prepare, Cancel, Commit, Finish, Exit, RobustRead, SigSend, SigKick,
                SigTake, DeadlinePasses, Timeout, callVars
  <2> QED BY <1>4, <2>1, WakersCalm
<1>5. CASE Link(s) \/ Unlink(s) \/ UnlinkLocked(s)
  BY <1>5, WakersLink
<1>6. CASE WakeOpRead(s) \/ Key(s) \/ Phase(s)
  BY <1>6, WakersPhase
<1>7. CASE Flush(s) \/ Collect(s) \/ Requeue(s)
  BY <1>7, WakersFlush, WakersCollect, WakersRequeue
<1>8. CASE WakeOpWrite(s) \/ PiAcquire(s) \/ RobustWrite(s)
  BY <1>8, WakersOther
<1> QED BY <1>1, <1>2, <1>3, <1>4, <1>5, <1>6, <1>7, <1>8 DEF Step

\* FUTEX_WAIT_RECHECK_PROTOCOL: a waiter whose word has changed since it read it
\* is in the way of a notifier that has yet to search its bucket, and a waiter
\* taken off its bucket is on the wake list of whoever took it off.
THEOREM SleepersHaveWakers == Spec => []SleeperHasWaker
<1>1. Init => FInv /\ WInv
  <2>1. ASSUME Init PROVE WInv
    BY <2>1 DEF Init, WInv, Overdue, Outdated, Detached
  <2> QED BY <2>1, FInit
<1>2. (FInv /\ WInv) /\ [Next]_vars => (FInv /\ WInv)'
  <2>1. ASSUME FInv, WInv, NEW t \in Tasks, Step(t) PROVE FInv' /\ WInv'
    BY <2>1, FStep, WStep
  <2>2. ASSUME FInv, WInv, UNCHANGED vars PROVE FInv' /\ WInv'
    <3>1. UNCHANGED <<wait, number, page, cow, val, node, pc, arg, out>>
      BY <2>2 DEF vars, parkVars, memVars, callVars
    <3>2. ASSUME NEW t \in Tasks
          PROVE  /\ Overdue(t)' <=> Overdue(t)
                 /\ Detached(t)' <=> Detached(t)
                 /\ \A n \in Tasks : Reaches(n, t) => Reaches(n, t)'
      BY <3>1 DEF Overdue, Outdated, Detached, Waiting, Reaches, WillReach, KeyOf, Stuck
    <3>3. WInv'
      BY <2>2, <3>1, <3>2 DEF WInv, OnList
    <3> QED BY <2>2, <3>3, FStutter
  <2> QED BY <2>1, <2>2 DEF Next
<1>3. FInv /\ WInv => SleeperHasWaker
  BY DEF WInv, SleeperHasWaker, Overdue, Detached, Reaches
<1> QED BY <1>1, <1>2, <1>3, PTL DEF Spec
=============================================================================
