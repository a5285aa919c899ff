--------------------------- MODULE JournalProofs ---------------------------
(***************************************************************************)
(* Proofs about ext4's journal for every set of callers, pages, workloads, *)
(* log length and transaction capacity, and every number of device errors, *)
(* recycled pages and power losses.                                        *)
(*                                                                         *)
(* Base says that the storage and the control state are well formed and    *)
(* that a clean cached page is what the device holds.  Everything else is  *)
(* stated over Survivors, the states a power loss may leave: the journal   *)
(* superblock only moves forward and the log holds one transaction at most *)
(* (LogInv), recovery has found that transaction unless a block could not  *)
(* be read, and reads the pages it found through the cache (Scanning), no  *)
(* page is pinned without a transaction and exactly its pages are until    *)
(* one got out (Pins), and a mount that meets no device error washes the   *)
(* cache and empties the log (Washed, Refusals).                           *)
(*                                                                         *)
(* DurableInv adds what a successful commit promises: no survivor has a    *)
(* page, or a transaction its superblock leads to, that is older than what *)
(* was promised (Kept), a commit's descriptor is as new as the image it    *)
(* leads to before s_start points to it (Staged), and the last sync of a   *)
(* commit has made its promise true before it is given (Lowering).         *)
(***************************************************************************)
EXTENDS Journal, FiniteSetTheorems, TLAPS

Homes == Meta \cup {Data}
Versions == 0..Len(hist)
HomePage == [ver : Versions, rec : BOOLEAN]
SuperBlock == [type : {"super"}, start : 0..LogLen, seq : Nat \ {0}, head : 1..LogLen]

IsLogBlock(b) ==
  \/ b.type \in {"blank", "data"}
  \/ b.type = "commit" /\ b.seq \in Nat \ {0}
  \/ /\ b.type = "descriptor" /\ b.seq \in Nat \ {0}
     /\ b.tags \in Seq(Homes) /\ Len(b.tags) <= TxCapacity
     /\ b.sums \in [1..Len(b.tags) -> HomePage]

PageOK(p, v) ==
  /\ p \in Homes => v \in HomePage
  /\ p = JSB => v \in SuperBlock
  /\ p \in LogPages \ {JSB} => IsLogBlock(v)

\* A cached page is a record of its contents and its two bits.
IsEntry(e) == e = [data |-> e.data, dirty |-> e.dirty, held |-> e.held]

StorageType ==
  /\ DOMAIN media = Pages
  /\ DOMAIN wcache \subseteq Pages
  /\ \A p \in Pages : PageOK(p, media[p])
  /\ \A p \in DOMAIN wcache : PageOK(p, wcache[p])
  /\ DOMAIN cache \subseteq Homes \cup {JSB}
  /\ \A p \in DOMAIN cache :
       /\ PageOK(p, cache[p].data) /\ IsEntry(cache[p])
       /\ cache[p].dirty \in BOOLEAN /\ cache[p].held \in BOOLEAN

ControlType ==
  /\ evicting \subseteq Homes \cup {JSB}
  /\ quarantined \in BOOLEAN /\ mishaps \in 0..MaxMishaps /\ faults \in 0..mishaps
  /\ phase \in {"off", "mounting", "mounted", "closing", "unmounting", "refused"}
  /\ stack \in [Callers -> Seq(Frames)] /\ ok \in [Callers -> BOOLEAN]
  /\ lock \in [owner : Callers \cup {NoTask, "op"}, depth : Nat]
  /\ tx \in Seq(Homes) /\ Len(tx) <= TxCapacity /\ recover_flag \in BOOLEAN
  /\ head \in 1..LogLen /\ seq \in Nat \ {0}
  /\ hookDepth \in Int /\ tmp \in [Callers -> Int]
  /\ rec \in [seq : Nat, head : 0..LogLen, tid : Nat, at : 0..LogLen, faults : Nat]
  /\ op \in Seq(Items) /\ writing \in BOOLEAN
  /\ hist \in Seq(Seq(Items))
  /\ logged \in [Meta -> Versions] /\ stable \in [Meta -> Versions]
  /\ attempts \subseteq [Meta -> Versions] /\ exposed \in BOOLEAN
  /\ torn \in BOOLEAN

-----------------------------------------------------------------------------
(* Pages and the log *)

\* The pages fall into homes, the journal superblock and the log blocks after it.
LEMMA PageKinds ==
  /\ Homes \cap LogPages = {} /\ Pages = Homes \cup LogPages
  /\ JSB \in LogPages /\ JSB \notin Homes /\ Data \in Homes /\ Meta \subseteq Homes
  /\ SB \in Meta /\ Data \notin Meta
  /\ \A i \in Items : PageOf(i) \in Homes
  /\ \A n \in 1..LogLen : LogPage(n) \in LogPages \ {JSB}
  /\ LogLen \in Nat /\ TxCapacity \in Nat \ {0} /\ LogLen >= 2 * (TxCapacity + 2)
<1>1. /\ Homes \cap LogPages = {} /\ Pages = Homes \cup LogPages
      /\ Data \in Homes /\ Meta \subseteq Homes /\ SB \in Meta /\ Data \notin Meta
      /\ LogLen \in Nat /\ TxCapacity \in Nat \ {0} /\ LogLen >= 2 * (TxCapacity + 2)
      /\ JSB \in Nat
  BY JournalAssumption DEF Homes
<1>2. \A n \in 0..LogLen : JSB + n \in LogPages
  BY DEF LogPages
<1>3. JSB \in LogPages
  BY <1>1, <1>2
<1>4. \A n \in 1..LogLen : LogPage(n) \in LogPages \ {JSB}
  BY <1>1, <1>2 DEF LogPage
<1>5. \A i \in Items : PageOf(i) \in Homes
  BY <1>1 DEF Items, PageOf, Homes
<1> QED BY <1>1, <1>3, <1>4, <1>5

\* The type of a page depends on the history's length only.
LEMMA SamePages ==
  ASSUME hist' = hist
  PROVE  \A p, v : PageOK(p, v)' <=> PageOK(p, v)
BY DEF PageOK, HomePage, Versions, IsLogBlock

\* Going round the log.
LEMMA Advance ==
  ASSUME NEW n \in 1..LogLen, NEW k \in 0..LogLen
  PROVE  /\ jbd2_advance_n(n, k) \in 1..LogLen
         /\ \A j \in 0..LogLen : k + j <= LogLen =>
              jbd2_advance_n(jbd2_advance_n(n, k), j) = jbd2_advance_n(n, k + j)
         /\ \A j \in 0..LogLen : j < LogLen /\ k < LogLen /\ jbd2_advance_n(n, k) = jbd2_advance_n(n, j) => k = j
         /\ LogPage(jbd2_advance_n(n, k)) \in LogPages \ {JSB}
         /\ \A a, b \in 1..LogLen : LogPage(a) = LogPage(b) => a = b
<1> USE PageKinds
<1>1. jbd2_advance_n(n, k) \in 1..LogLen
  BY DEF jbd2_advance_n
<1>2. \A j \in 0..LogLen : k + j <= LogLen =>
              jbd2_advance_n(jbd2_advance_n(n, k), j) = jbd2_advance_n(n, k + j)
  BY DEF jbd2_advance_n
<1>3. \A j \in 0..LogLen : j < LogLen /\ k < LogLen /\ jbd2_advance_n(n, k) = jbd2_advance_n(n, j) => k = j
  BY DEF jbd2_advance_n
<1>4. \A a, b \in 1..LogLen : LogPage(a) = LogPage(b) => a = b
  BY JournalAssumption DEF LogPage
<1> QED BY <1>1, <1>2, <1>3, <1>4

-----------------------------------------------------------------------------
(* What a power loss may leave *)

\* A survivor has every page as the media or as the device's write cache has it.
LEMMA SurvivorPages ==
  ASSUME DOMAIN media = Pages, DOMAIN wcache \subseteq Pages, NEW m \in Survivors
  PROVE  /\ DOMAIN m = Pages
         /\ \A p \in Pages : m[p] = media[p] \/ (p \in DOMAIN wcache /\ m[p] = wcache[p])
BY DEF Survivors, Over, Restrict

\* Any choice between the medium and the write cache, page by page, survives some power loss.
LEMMA MakeSurvivor ==
  ASSUME DOMAIN media = Pages, DOMAIN wcache \subseteq Pages, NEW m,
         m = [p \in Pages |-> m[p]],
         \A p \in Pages : m[p] = media[p] \/ (p \in DOMAIN wcache /\ m[p] = wcache[p])
  PROVE  m \in Survivors
<1> DEFINE S == {p \in DOMAIN wcache : m[p] = wcache[p]}
           n == Over(Restrict(wcache, S), media)
<1>1. n \in Survivors
  BY DEF Survivors
<1>2. n = [p \in Pages |-> IF p \in S THEN wcache[p] ELSE media[p]]
  BY DEF Over, Restrict
<1>3. n = m
  BY <1>2
<1> QED BY <1>1, <1>3

\* A power loss may leave everything the device had accepted.
LEMMA DeviceSurvives ==
  ASSUME StorageType
  PROVE  /\ Device \in Survivors /\ DOMAIN Device = Pages
         /\ \A p \in Pages : Device[p] = Dev(p)
<1>1. Device = [p \in Pages |-> Dev(p)]
  BY DEF StorageType, Device, Over, Dev
<1>2. Device = [p \in Pages |-> Device[p]] /\ \A p \in Pages : Device[p] = Dev(p)
  BY <1>1
<1>3. Device \in Survivors
  <2> DEFINE d == Device
  <2>1. d = [p \in Pages |-> d[p]] BY <1>2
  <2>2. \A p \in Pages : d[p] = media[p] \/ (p \in DOMAIN wcache /\ d[p] = wcache[p])
    BY <1>2 DEF Dev
  <2> HIDE DEF d
  <2>3. d \in Survivors
    BY <2>1, <2>2, MakeSurvivor DEF StorageType
  <2> QED BY <2>3 DEF d
<1> QED BY <1>1, <1>3

\* What survives a power loss is typed like the medium and the write cache.
LEMMA SurvivorType ==
  ASSUME StorageType, NEW m \in Survivors
  PROVE  /\ DOMAIN m = Pages /\ \A p \in Pages : PageOK(p, m[p])
         /\ \A p \in Pages : p \notin DOMAIN wcache => m[p] = Dev(p)
         /\ \A p \in Pages : m[p] = media[p] \/ m[p] = Dev(p)
BY SurvivorPages DEF StorageType, Dev

\* Reads of the device and of the cache return pages of the right kind.
LEMMA DevType ==
  ASSUME StorageType
  PROVE  \A p \in Pages : PageOK(p, Dev(p)) /\ PageOK(p, bcache_read_bytes(p))
BY PageKinds DEF StorageType, Dev, bcache_read_bytes

-----------------------------------------------------------------------------
(* The ways the storage changes *)

Stored == <<media, wcache, cache>>

\* The pages of T go home.
HomeWrite(T) ==
  /\ T \subseteq {p \in DOMAIN cache : cache[p].dirty}
  /\ media' = media
  /\ DOMAIN wcache' = DOMAIN wcache \cup T
  /\ \A p \in DOMAIN wcache' : wcache'[p] = IF p \in T THEN cache[p].data ELSE wcache[p]
  /\ DOMAIN cache' = DOMAIN cache
  /\ \A q \in DOMAIN cache' : IsEntry(cache'[q])
  /\ \A q \in DOMAIN cache' : /\ cache'[q].data = cache[q].data
                              /\ cache'[q].held \in BOOLEAN
                              /\ cache'[q].held <=> cache[q].held
                              /\ cache'[q].dirty \in BOOLEAN
                              /\ cache'[q].dirty <=> cache[q].dirty /\ q \notin T

Flushed == media' = Device /\ wcache' = <<>> /\ cache' = cache

\* Cached copies change or appear.
CachePut(W) ==
  /\ media' = media /\ wcache' = wcache
  /\ DOMAIN cache' = DOMAIN cache \cup DOMAIN W
  /\ \A q \in DOMAIN W : IsEntry(cache'[q])
  /\ \A q \in DOMAIN W : /\ cache'[q].data = W[q] /\ cache'[q].dirty = TRUE /\ cache'[q].held \in BOOLEAN
                         /\ cache'[q].held <=> q \in DOMAIN cache /\ cache[q].held
  /\ \A q \in DOMAIN cache \ DOMAIN W : cache'[q] = cache[q]

\* Only holds change.
Holding ==
  /\ media' = media /\ wcache' = wcache
  /\ DOMAIN cache' = DOMAIN cache
  /\ \A q \in DOMAIN cache : IsEntry(cache'[q])
  /\ \A q \in DOMAIN cache : /\ cache'[q].data = cache[q].data
                             /\ cache'[q].dirty \in BOOLEAN
                             /\ cache'[q].dirty <=> cache[q].dirty
                             /\ cache'[q].held \in BOOLEAN

\* A clean page leaves the cache; one may come in its place, with a hold.
Recycled ==
  /\ media' = media /\ wcache' = wcache
  /\ DOMAIN cache' \subseteq DOMAIN cache \cup Homes
  /\ \A q \in DOMAIN cache : q \in DOMAIN cache' \/ ~cache[q].dirty
  /\ \A q \in DOMAIN cache' : q \in DOMAIN cache => cache'[q] = cache[q]
  /\ \A q \in DOMAIN cache' \ DOMAIN cache :
       /\ IsEntry(cache'[q])
       /\ cache'[q].data = Dev(q) /\ cache'[q].dirty = FALSE /\ cache'[q].held = TRUE
       /\ \E p \in DOMAIN cache : cache[p].held /\ p \notin DOMAIN cache'

\* The blocks W are written past the cache.
LogWrite(W) ==
  /\ DOMAIN W \subseteq LogPages
  /\ media' = media
  /\ DOMAIN wcache' = DOMAIN wcache \cup DOMAIN W
  /\ \A p \in DOMAIN wcache' : wcache'[p] = IF p \in DOMAIN W THEN W[p] ELSE wcache[p]
  /\ DOMAIN cache' = DOMAIN cache \ DOMAIN W
  /\ \A q \in DOMAIN cache' : cache'[q] = cache[q]

Clean == \A p \in DOMAIN cache : ~cache[p].dirty => cache[p].data = Dev(p)

\* What writing cached pages home (sync, eviction) does to every later read and power loss.
LEMMA HomeWriteEffect ==
  ASSUME StorageType, hist' = hist, Clean, NEW T, HomeWrite(T)
  PROVE  /\ StorageType' /\ Clean'
         /\ \A p \in Pages : bcache_read_bytes(p)' = bcache_read_bytes(p)
         /\ \A p \in Pages : Dev(p)' = IF p \in T THEN cache[p].data ELSE Dev(p)
         /\ \A m \in Survivors' : \E n \in Survivors :
              \A p \in Pages : m[p] = n[p] \/ (p \in T /\ m[p] = cache[p].data)
<1>1. T \subseteq DOMAIN cache /\ DOMAIN cache \subseteq Pages
  BY PageKinds DEF StorageType, HomeWrite
<1>2. StorageType'
  BY <1>1, SamePages DEF StorageType, HomeWrite
<1>3. \A p \in Pages : Dev(p)' = IF p \in T THEN cache[p].data ELSE Dev(p)
  BY <1>1 DEF HomeWrite, Dev
<1>4. Clean'
  BY <1>1, <1>3 DEF HomeWrite, Clean, StorageType
<1>5. \A p \in Pages : bcache_read_bytes(p)' = bcache_read_bytes(p)
  BY <1>1, <1>3 DEF HomeWrite, Clean, StorageType, bcache_read_bytes
<1>6. ASSUME NEW m \in Survivors'
      PROVE  \E n \in Survivors :
              \A p \in Pages : m[p] = n[p] \/ (p \in T /\ m[p] = cache[p].data)
  <2>1. \A p \in Pages : m[p] = media'[p] \/ (p \in DOMAIN wcache' /\ m[p] = wcache'[p])
    <3>1. DOMAIN media' = Pages /\ DOMAIN wcache' \subseteq Pages
      BY <1>2 DEF StorageType
    <3> QED BY <3>1 DEF Survivors, Over, Restrict
  <2> DEFINE n == [p \in Pages |-> IF p \in T THEN media[p] ELSE m[p]]
  <2>2. \A p \in Pages : n[p] = media[p] \/ (p \in DOMAIN wcache /\ n[p] = wcache[p])
    BY <2>1 DEF HomeWrite
  <2>3. n = [p \in Pages |-> n[p]]
    OBVIOUS
  <2>4. \A p \in Pages : m[p] = n[p] \/ (p \in T /\ m[p] = cache[p].data)
    BY <2>1 DEF HomeWrite
  <2> HIDE DEF n
  <2>5. n \in Survivors
    BY <2>2, <2>3, MakeSurvivor DEF StorageType
  <2> QED BY <2>4, <2>5
<1> QED BY <1>2, <1>3, <1>4, <1>5, <1>6

\* A device flush changes no read, and leaves one survivor.
LEMMA FlushEffect ==
  ASSUME StorageType, hist' = hist, Clean, Flushed
  PROVE  /\ StorageType' /\ Clean'
         /\ \A p \in Pages : bcache_read_bytes(p)' = bcache_read_bytes(p) /\ Dev(p)' = Dev(p)
         /\ \A m \in Survivors' : DOMAIN m = Pages /\ \A p \in Pages : m[p] = Dev(p)
         /\ \A p \in Pages : media'[p] = Dev(p)
<1>0. DOMAIN wcache' = {}
  BY DEF Flushed
<1>1. DOMAIN media' = Pages /\ \A p \in Pages : media'[p] = Dev(p)
  BY DeviceSurvives DEF Flushed
<1>2. \A p \in Pages : Dev(p)' = Dev(p)
  BY <1>0, <1>1 DEF Dev
<1>3. StorageType'
  BY <1>0, <1>1, DevType, SamePages DEF StorageType, Flushed
<1>4. Clean' /\ \A p \in Pages : bcache_read_bytes(p)' = bcache_read_bytes(p)
  BY <1>2, PageKinds DEF Clean, Flushed, bcache_read_bytes, StorageType
<1>5. \A m \in Survivors' : DOMAIN m = Pages /\ \A p \in Pages : m[p] = Dev(p)
  BY <1>0, <1>1 DEF Survivors, Over, Restrict
<1> QED BY <1>1, <1>2, <1>3, <1>4, <1>5

\* Writing through the cache changes what is read and nothing on the device.
LEMMA CachePutEffect ==
  ASSUME StorageType, hist' = hist, Clean, NEW W, CachePut(W),
         DOMAIN W \subseteq Homes \cup {JSB}, \A q \in DOMAIN W : PageOK(q, W[q])
  PROVE  /\ StorageType' /\ Clean' /\ Survivors' = Survivors
         /\ \A p \in Pages : Dev(p)' = Dev(p)
         /\ \A p \in Pages : bcache_read_bytes(p)' =
                               IF p \in DOMAIN W THEN W[p] ELSE bcache_read_bytes(p)
<1>1. StorageType'
  BY SamePages DEF StorageType, CachePut
<1>2. \A p : Dev(p)' = Dev(p)
  BY DEF CachePut, Dev
<1>3. Clean'
  BY <1>2 DEF Clean, CachePut
<1>4. Survivors' = Survivors
  BY DEF CachePut, Survivors, Over, Restrict
<1>5. \A p \in Pages : bcache_read_bytes(p)' =
                               IF p \in DOMAIN W THEN W[p] ELSE bcache_read_bytes(p)
  BY <1>2 DEF CachePut, bcache_read_bytes
<1> QED BY <1>1, <1>2, <1>3, <1>4, <1>5

\* Taking and releasing holds changes no contents.
LEMMA HoldingEffect ==
  ASSUME StorageType, hist' = hist, Clean, Holding
  PROVE  /\ StorageType' /\ Clean' /\ Survivors' = Survivors
         /\ \A p \in Pages : Dev(p)' = Dev(p) /\ bcache_read_bytes(p)' = bcache_read_bytes(p)
<1>1. StorageType'
  BY SamePages DEF StorageType, Holding
<1>2. \A p : Dev(p)' = Dev(p)
  BY DEF Holding, Dev
<1>3. Clean' /\ \A p \in Pages : bcache_read_bytes(p)' = bcache_read_bytes(p)
  BY <1>2 DEF Clean, Holding, bcache_read_bytes, StorageType
<1>4. Survivors' = Survivors
  BY DEF Holding, Survivors, Over, Restrict
<1> QED BY <1>1, <1>2, <1>3, <1>4

\* Recycling a cache entry changes no contents.
LEMMA RecycledEffect ==
  ASSUME StorageType, hist' = hist, Clean, Recycled
  PROVE  /\ StorageType' /\ Clean' /\ Survivors' = Survivors
         /\ \A p \in Pages : Dev(p)' = Dev(p) /\ bcache_read_bytes(p)' = bcache_read_bytes(p)
<1>0. \A q \in DOMAIN cache' : q \in Homes \cup {JSB} /\ q \in Pages
  BY PageKinds DEF StorageType, Recycled
<1>1. StorageType'
  BY <1>0, SamePages, DevType DEF StorageType, Recycled
<1>2. \A p : Dev(p)' = Dev(p)
  BY DEF Recycled, Dev
<1>3. Clean'
  BY <1>2 DEF Clean, Recycled
<1>4. \A p \in Pages : bcache_read_bytes(p)' = bcache_read_bytes(p)
  BY <1>2 DEF Clean, Recycled, bcache_read_bytes
<1>5. Survivors' = Survivors
  BY DEF Recycled, Survivors, Over, Restrict
<1> QED BY <1>1, <1>2, <1>3, <1>4, <1>5

\* What an unbuffered write to the log does to every later read and power loss.
LEMMA LogWriteEffect ==
  ASSUME StorageType, hist' = hist, Clean, NEW W, LogWrite(W),
         \A q \in DOMAIN W : PageOK(q, W[q])
  PROVE  /\ StorageType' /\ Clean'
         /\ \A p \in Pages : Dev(p)' = IF p \in DOMAIN W THEN W[p] ELSE Dev(p)
         /\ \A p \in Homes : bcache_read_bytes(p)' = bcache_read_bytes(p)
         /\ \A m \in Survivors' : \E n \in Survivors :
              \A p \in Pages : m[p] = n[p] \/ (p \in DOMAIN W /\ m[p] = W[p])
<1>1. StorageType'
  BY PageKinds, SamePages DEF StorageType, LogWrite
<1>2. \A p \in Pages : Dev(p)' = IF p \in DOMAIN W THEN W[p] ELSE Dev(p)
  BY DEF LogWrite, Dev
<1>3. Clean'
  BY <1>2, PageKinds DEF Clean, LogWrite, StorageType
<1>4. \A p \in Homes : bcache_read_bytes(p)' = bcache_read_bytes(p)
  BY <1>2, PageKinds DEF LogWrite, bcache_read_bytes
<1>5. ASSUME NEW m \in Survivors'
      PROVE  \E n \in Survivors :
              \A p \in Pages : m[p] = n[p] \/ (p \in DOMAIN W /\ m[p] = W[p])
  <2>1. \A p \in Pages : m[p] = media'[p] \/ (p \in DOMAIN wcache' /\ m[p] = wcache'[p])
    <3>1. DOMAIN media' = Pages /\ DOMAIN wcache' \subseteq Pages
      BY <1>1 DEF StorageType
    <3> QED BY <3>1 DEF Survivors, Over, Restrict
  <2> DEFINE n == [p \in Pages |-> IF p \in DOMAIN W THEN media[p] ELSE m[p]]
  <2>2. \A p \in Pages : n[p] = media[p] \/ (p \in DOMAIN wcache /\ n[p] = wcache[p])
    BY <2>1 DEF LogWrite
  <2>3. n = [p \in Pages |-> n[p]]
    OBVIOUS
  <2>4. \A p \in Pages : m[p] = n[p] \/ (p \in DOMAIN W /\ m[p] = W[p])
    BY <2>1 DEF LogWrite
  <2> HIDE DEF n
  <2>5. n \in Survivors
    BY <2>2, <2>3, MakeSurvivor DEF StorageType
  <2> QED BY <2>4, <2>5
<1> QED BY <1>1, <1>2, <1>3, <1>4, <1>5

\* f may run on top of a frame that waits at l.
CalledBy(l, f) ==
  \/ l \in {"hooked", "fsynced", "close"} /\ f.pc \in CommitPcs
  \/ /\ l \in {"dataHome", "raised", "lowered", "closed", "replayed", "emptied", "open"}
     /\ f.pc \in SyncPcs /\ f.mode = "ALL"
  \/ l = "checkpointed" /\ f.pc \in SyncPcs /\ f.mode = "HELD"

\* Where the outermost frame of a call can be.
Entry ==
  CASE phase = "mounted"    -> SyncPcs \cup {"fsync", "fsynced"}
    [] phase = "closing"    -> {"close"}
    [] phase = "mounting"   -> MountPcs
    [] phase \in {"unmounting", "refused"} -> {"closed"}
    [] OTHER                -> {}

Alone == phase \in {"mounting", "unmounting", "refused"}

Stacked(t) ==
  stack[t] # <<>> =>
    /\ stack[t][1].pc \in Entry
    /\ \A k \in 1..(Len(stack[t]) - 1) : CalledBy(stack[t][k].pc, stack[t][k + 1])
    /\ Alone => Len(stack[t]) <= 2
    /\ Alone /\ Len(stack[t]) = 2 => stack[t][2].pc \in {"sync", "write", "flush"}

Shape ==
  /\ \A t \in Callers : Stacked(t)
  /\ phase # "mounted" => \A t, u \in Callers : stack[t] # <<>> /\ stack[u] # <<>> => t = u

Inside(t) == {k \in DOMAIN stack[t] : stack[t][k].pc \in CommitIn}

Locking ==
  /\ \A t \in Callers : Inside(t) # {} => lock.owner = t
  /\ lock.owner \in Callers => lock.depth = Cardinality(Inside(lock.owner))
  /\ lock.owner = NoTask <=> lock.depth = 0
  /\ lock.owner = "op" <=> writing
  /\ writing => lock.depth = 1 /\ op # <<>> /\ Head(op) # Data
  /\ op # <<>> => phase = "mounted"

-----------------------------------------------------------------------------
(* Stacks *)

\* The innermost frame of a call stack is a frame.
LEMMA TopFrame ==
  ASSUME ControlType, NEW t \in Callers, stack[t] # <<>>
  PROVE  /\ stack[t] \in Seq(Frames)
         /\ Len(stack[t]) \in Nat \ {0} /\ Top(t) \in Frames
         /\ Top(t).pc \in Pcs /\ Mode(t) \in {"", "ALL", "SCOPED", "HELD"}
         /\ \A k \in 1..Len(stack[t]) : stack[t][k] \in Frames
         /\ \A l \in Pcs : Frame(l, Mode(t)) \in Frames
         /\ \A l \in Pcs : Frame(l, Mode(t)).pc = l /\ Frame(l, Mode(t)).mode = Mode(t)
<1>1. stack[t] \in Seq(Frames)
  BY DEF ControlType
<1>2. Len(stack[t]) \in Nat \ {0} /\ \A k \in 1..Len(stack[t]) : stack[t][k] \in Frames
  BY <1>1
<1>3. Top(t) \in Frames
  BY <1>2 DEF Top
<1> QED BY <1>1, <1>2, <1>3 DEF Frames, Mode, Frame

\* Become() replaces the innermost frame.
LEMMA BecomeStack ==
  ASSUME ControlType, NEW t \in Callers, stack[t] # <<>>, NEW f \in Frames, Become(t, f)
  PROVE  /\ stack' \in [Callers -> Seq(Frames)] /\ stack'[t] # <<>>
         /\ \A u \in Callers \ {t} : stack'[u] = stack[u]
         /\ Len(stack'[t]) = Len(stack[t])
         /\ stack'[t][Len(stack[t])] = f
         /\ \A k \in 1..(Len(stack[t]) - 1) : stack'[t][k] = stack[t][k]
<1>1. stack[t] \in Seq(Frames) /\ Len(stack[t]) \in Nat \ {0}
  BY DEF ControlType
<1>2. /\ Below(t) \in Seq(Frames) /\ Len(Below(t)) = Len(stack[t]) - 1
      /\ \A k \in 1..(Len(stack[t]) - 1) : Below(t)[k] = stack[t][k]
  BY <1>1 DEF Below
<1>3. stack' = [stack EXCEPT ![t] = Append(Below(t), f)]
  BY DEF Become
<1>4. stack'[t] = Append(Below(t), f) /\ \A u \in Callers \ {t} : stack'[u] = stack[u]
  BY <1>3 DEF ControlType
<1>5. stack' \in [Callers -> Seq(Frames)]
  BY <1>2, <1>3 DEF ControlType
<1> QED BY <1>1, <1>2, <1>4, <1>5

\* Call() moves the caller's frame on and pushes one.
LEMMA CallStack ==
  ASSUME ControlType, NEW t \in Callers, stack[t] # <<>>, NEW l \in Pcs, NEW f \in Frames,
         Call(t, l, f)
  PROVE  /\ stack' \in [Callers -> Seq(Frames)] /\ stack'[t] # <<>>
         /\ \A u \in Callers \ {t} : stack'[u] = stack[u]
         /\ Len(stack'[t]) = Len(stack[t]) + 1
         /\ stack'[t][Len(stack[t]) + 1] = f
         /\ stack'[t][Len(stack[t])] = Frame(l, Mode(t))
         /\ \A k \in 1..(Len(stack[t]) - 1) : stack'[t][k] = stack[t][k]
<1>1. stack[t] \in Seq(Frames) /\ Len(stack[t]) \in Nat \ {0}
  BY DEF ControlType
<1>2. /\ Below(t) \in Seq(Frames) /\ Len(Below(t)) = Len(stack[t]) - 1
      /\ \A k \in 1..(Len(stack[t]) - 1) : Below(t)[k] = stack[t][k]
  BY <1>1 DEF Below
<1> DEFINE g == Frame(l, Mode(t))
           r == Append(Below(t), g)
<1>0. g \in Frames
  BY TopFrame
<1> HIDE DEF g
<1>3. stack' = [stack EXCEPT ![t] = Append(r, f)]
  BY DEF Call, g
<1>4. stack'[t] = Append(r, f) /\ \A u \in Callers \ {t} : stack'[u] = stack[u]
  BY <1>3 DEF ControlType
<1>5. /\ r \in Seq(Frames) /\ Len(r) = Len(stack[t]) /\ r[Len(stack[t])] = g
      /\ \A k \in 1..(Len(stack[t]) - 1) : r[k] = stack[t][k]
  BY <1>0, <1>1, <1>2
<1> HIDE DEF r
<1>6. stack' \in [Callers -> Seq(Frames)]
  BY <1>3, <1>5 DEF ControlType
<1>7. /\ Len(stack'[t]) = Len(stack[t]) + 1
      /\ stack'[t][Len(stack[t]) + 1] = f
      /\ \A k \in 1..Len(stack[t]) : stack'[t][k] = r[k]
  BY <1>1, <1>4, <1>5
<1>8. stack'[t][Len(stack[t])] = g /\ \A k \in 1..(Len(stack[t]) - 1) : stack'[t][k] = stack[t][k]
  BY <1>1, <1>5, <1>7
<1>9. stack'[t] # <<>>
  BY <1>1, <1>6, <1>7
<1> QED BY <1>4, <1>6, <1>7, <1>8, <1>9 DEF g

\* Return() pops the innermost frame and leaves its result.
LEMMA ReturnStack ==
  ASSUME ControlType, NEW t \in Callers, stack[t] # <<>>, NEW r \in BOOLEAN, Return(t, r)
  PROVE  /\ stack' \in [Callers -> Seq(Frames)] /\ ok' \in [Callers -> BOOLEAN]
         /\ \A u \in Callers \ {t} : stack'[u] = stack[u] /\ ok'[u] = ok[u]
         /\ Len(stack'[t]) = Len(stack[t]) - 1
         /\ \A k \in 1..(Len(stack[t]) - 1) : stack'[t][k] = stack[t][k]
         /\ stack'[t] # <<>> => ok'[t] = r
         /\ ok'[t] <=> r \/ Len(stack[t]) = 1
<1>1. stack[t] \in Seq(Frames) /\ Len(stack[t]) \in Nat \ {0}
  BY DEF ControlType
<1>2. /\ Below(t) \in Seq(Frames) /\ Len(Below(t)) = Len(stack[t]) - 1
      /\ \A k \in 1..(Len(stack[t]) - 1) : Below(t)[k] = stack[t][k]
  BY <1>1 DEF Below
<1>3. stack' = [stack EXCEPT ![t] = Below(t)] /\ ok' = [ok EXCEPT ![t] = r \/ Len(stack[t]) = 1]
  BY DEF Return
<1>4. stack'[t] = Below(t) /\ \A u \in Callers \ {t} : stack'[u] = stack[u] /\ ok'[u] = ok[u]
  BY <1>3 DEF ControlType
<1>5. stack' \in [Callers -> Seq(Frames)] /\ ok' \in [Callers -> BOOLEAN]
  BY <1>2, <1>3 DEF ControlType
<1>6. (ok'[t] <=> r \/ Len(stack[t]) = 1) /\ ok'[t] \in BOOLEAN
  BY <1>3, <1>5 DEF ControlType
<1>7. stack'[t] # <<>> => Len(stack[t]) # 1
  BY <1>1, <1>2, <1>4
<1> QED BY <1>1, <1>2, <1>4, <1>5, <1>6, <1>7

\* The innermost frame is the outermost, or was called by the one below it.
LEMMA TopKind ==
  ASSUME ControlType, Shape, NEW t \in Callers, stack[t] # <<>>
  PROVE  /\ Len(stack[t]) = 1 => Top(t) = stack[t][1] /\ Top(t).pc \in Entry
         /\ Len(stack[t]) # 1 =>
              /\ Len(stack[t]) > 1
              /\ CalledBy(stack[t][Len(stack[t]) - 1].pc, Top(t))
              /\ Top(t).pc \in SyncPcs \cup CommitPcs
              /\ Alone => Len(stack[t]) = 2 /\ Top(t).pc \in {"sync", "write", "flush"}
<1> DEFINE n == Len(stack[t])
<1>1. n \in Nat \ {0} /\ Top(t) = stack[t][n]
  BY TopFrame DEF Top
<1>2. /\ stack[t][1].pc \in Entry
      /\ \A k \in 1..(n - 1) : CalledBy(stack[t][k].pc, stack[t][k + 1])
      /\ Alone => n <= 2
      /\ Alone /\ n = 2 => stack[t][2].pc \in {"sync", "write", "flush"}
  BY DEF Shape, Stacked
<1> HIDE DEF n
<1>3. CASE n = 1
  BY <1>1, <1>2, <1>3 DEF n
<1>4. CASE n # 1
  <2>0. n > 1 BY <1>1, <1>4
  <2>1. n - 1 \in 1..(n - 1) /\ (n - 1) + 1 = n
    BY <1>1, <2>0
  <2>2. CalledBy(stack[t][n - 1].pc, stack[t][n])
    BY <1>2, <2>1
  <2>3. stack[t][n].pc \in SyncPcs \cup CommitPcs
    BY <2>2 DEF CalledBy
  <2>4. Alone => n = 2 /\ stack[t][n].pc \in {"sync", "write", "flush"}
    BY <1>1, <1>2, <2>0
  <2> QED BY <1>1, <1>4, <2>0, <2>2, <2>3, <2>4 DEF n
<1> QED BY <1>1, <1>3, <1>4

\* The frames a system call may start with depend on the phase alone.
LEMMA EntrySame == ASSUME phase' = phase PROVE Entry' = Entry /\ (Alone' <=> Alone)
BY DEF Entry, Alone

\* A step that keeps its own stack well formed keeps the shape of them all.
LEMMA OtherStacks ==
  ASSUME ControlType, Shape, NEW t \in Callers, stack[t] # <<>>, Stacked(t)',
         \A u \in Callers \ {t} : stack'[u] = stack[u],
         phase' = phase \/ \A u \in Callers \ {t} : stack[u] = <<>>
  PROVE  Shape'
<1>1. CASE phase' = phase
  <2>1. \A u \in Callers : Stacked(u)'
    BY <1>1, EntrySame DEF Shape, Stacked
  <2>2. phase # "mounted" => \A u, v \in Callers : stack'[u] # <<>> /\ stack'[v] # <<>> => u = v
    BY <1>1 DEF Shape
  <2> QED BY <1>1, <2>1, <2>2 DEF Shape
<1>2. CASE \A u \in Callers \ {t} : stack[u] = <<>>
  BY <1>2 DEF Shape, Stacked
<1> QED BY <1>1, <1>2

\* Become() keeps the shape of the stacks.
LEMMA ShapeBecome ==
  ASSUME ControlType, Shape, NEW t \in Callers, stack[t] # <<>>, NEW f \in Frames,
         Become(t, f), phase' = phase,
         Len(stack[t]) = 1 => f.pc \in Entry,
         \A l : CalledBy(l, Top(t)) => CalledBy(l, f),
         Alone => Len(stack[t]) = 1 \/ f.pc \in {"sync", "write", "flush"}
  PROVE  Shape'
<1> DEFINE n == Len(stack[t])
<1>1. n \in Nat \ {0} /\ Top(t) = stack[t][n]
  BY TopFrame DEF Top
<1>2. /\ Len(stack'[t]) = n /\ stack'[t][n] = f
      /\ \A k \in 1..(n - 1) : stack'[t][k] = stack[t][k]
      /\ \A u \in Callers \ {t} : stack'[u] = stack[u]
  BY BecomeStack
<1>3. /\ stack[t][1].pc \in Entry
      /\ \A k \in 1..(n - 1) : CalledBy(stack[t][k].pc, stack[t][k + 1])
      /\ Alone => n <= 2
      /\ Alone /\ n = 2 => stack[t][2].pc \in {"sync", "write", "flush"}
  BY DEF Shape, Stacked
<1>4. (n = 1 => f.pc \in Entry) /\ (Alone => n = 1 \/ f.pc \in {"sync", "write", "flush"})
  OBVIOUS
<1> HIDE DEF n
<1>5. stack'[t][1].pc \in Entry
  BY <1>1, <1>2, <1>3, <1>4
<1>6. ASSUME NEW k \in 1..(n - 1) PROVE CalledBy(stack'[t][k].pc, stack'[t][k + 1])
  <2>1. CASE k < n - 1
    <3>1. k + 1 \in 1..(n - 1) BY <1>1, <2>1
    <3> QED BY <1>2, <1>3, <3>1
  <2>2. CASE k = n - 1
    <3>1. k + 1 = n BY <1>1, <2>2
    <3>2. CalledBy(stack[t][k].pc, f) BY <1>1, <1>3, <3>1
    <3> QED BY <1>2, <3>1, <3>2
  <2> QED BY <1>1, <2>1, <2>2
<1>7. Alone => n <= 2 /\ (n = 2 => stack'[t][2].pc \in {"sync", "write", "flush"})
  BY <1>1, <1>2, <1>3, <1>4
<1>8. Stacked(t)'
  <2>1. \A k \in 1..(Len(stack'[t]) - 1) : CalledBy(stack'[t][k].pc, stack'[t][k + 1])
    BY <1>2, <1>6
  <2> QED BY <1>2, <1>5, <1>7, <2>1, EntrySame DEF Stacked
<1> QED BY <1>2, <1>8, OtherStacks

\* Call() keeps the shape of the stacks.
LEMMA ShapeCall ==
  ASSUME ControlType, Shape, NEW t \in Callers, stack[t] # <<>>, NEW l \in Pcs,
         NEW f \in Frames, Call(t, l, f),
         phase' = phase \/ (Len(stack[t]) = 1 /\ \A u \in Callers \ {t} : stack[u] = <<>>),
         Len(stack[t]) = 1 => l \in Entry',
         \A x : CalledBy(x, Top(t)) => CalledBy(x, Frame(l, Mode(t))),
         CalledBy(l, f),
         Alone' => Len(stack[t]) = 1 /\ f.pc \in {"sync", "write", "flush"}
  PROVE  Shape'
<1> DEFINE n == Len(stack[t])
           g == Frame(l, Mode(t))
<1>1. n \in Nat \ {0} /\ Top(t) = stack[t][n] /\ g.pc = l
  BY TopFrame DEF Top
<1>2. /\ Len(stack'[t]) = n + 1 /\ stack'[t][n] = g /\ stack'[t][n + 1] = f
      /\ \A k \in 1..(n - 1) : stack'[t][k] = stack[t][k]
      /\ \A u \in Callers \ {t} : stack'[u] = stack[u]
  BY CallStack
<1>3. /\ stack[t][1].pc \in Entry
      /\ \A k \in 1..(n - 1) : CalledBy(stack[t][k].pc, stack[t][k + 1])
  BY DEF Shape, Stacked
<1>4. /\ n = 1 => l \in Entry'
      /\ phase' = phase \/ n = 1
      /\ Alone' => n = 1 /\ f.pc \in {"sync", "write", "flush"}
      /\ \A x : CalledBy(x, Top(t)) => CalledBy(x, g)
  OBVIOUS
<1> HIDE DEF n, g
<1>5. stack'[t][1].pc \in Entry'
  <2>1. CASE n = 1
    BY <1>1, <1>2, <1>4, <2>1
  <2>2. CASE n # 1
    <3>1. 1 \in 1..(n - 1) BY <1>1, <2>2
    <3> QED BY <1>2, <1>3, <1>4, <2>2, <3>1, EntrySame
  <2> QED BY <2>1, <2>2
<1>6. ASSUME NEW k \in 1..n PROVE CalledBy(stack'[t][k].pc, stack'[t][k + 1])
  <2>1. CASE k < n - 1
    <3>1. k \in 1..(n - 1) /\ k + 1 \in 1..(n - 1) BY <1>1, <2>1
    <3> QED BY <1>2, <1>3, <3>1
  <2>2. CASE k = n - 1
    <3>1. k + 1 = n BY <1>1, <2>2
    <3>2. k \in 1..(n - 1) BY <1>1, <2>2
    <3>3. CalledBy(stack[t][k].pc, g) BY <1>1, <1>3, <1>4, <3>1, <3>2
    <3> QED BY <1>2, <3>1, <3>2, <3>3
  <2>3. CASE k = n
    BY <1>1, <1>2, <2>3
  <2> QED BY <1>1, <2>1, <2>2, <2>3
<1>7. Alone' => n + 1 <= 2 /\ (n + 1 = 2 => stack'[t][2].pc \in {"sync", "write", "flush"})
  BY <1>1, <1>2, <1>4
<1>8. Stacked(t)'
  <2>0. n + 1 - 1 = n BY <1>1
  <2>1. \A k \in 1..(Len(stack'[t]) - 1) : CalledBy(stack'[t][k].pc, stack'[t][k + 1])
    <3>1. Len(stack'[t]) - 1 = n
      BY <1>1, <1>2
    <3> QED BY <1>6, <3>1
  <2>2. Alone' => Len(stack'[t]) <= 2 /\ (Len(stack'[t]) = 2 => stack'[t][2].pc \in {"sync", "write", "flush"})
    BY <1>1, <1>2, <1>7
  <2> QED BY <1>5, <2>1, <2>2 DEF Stacked
<1> QED BY <1>2, <1>8, OtherStacks

\* Return() keeps the shape of the stacks.
LEMMA ShapeReturn ==
  ASSUME ControlType, Shape, NEW t \in Callers, stack[t] # <<>>, NEW r \in BOOLEAN,
         Return(t, r), phase' = phase
  PROVE  Shape'
<1> DEFINE n == Len(stack[t])
<1>1. n \in Nat \ {0}
  BY TopFrame
<1>2. /\ Len(stack'[t]) = n - 1
      /\ \A k \in 1..(n - 1) : stack'[t][k] = stack[t][k]
      /\ \A u \in Callers \ {t} : stack'[u] = stack[u]
      /\ stack'[t] \in Seq(Frames)
  BY ReturnStack
<1>3. /\ stack[t][1].pc \in Entry
      /\ \A k \in 1..(n - 1) : CalledBy(stack[t][k].pc, stack[t][k + 1])
      /\ Alone => n <= 2
  BY DEF Shape, Stacked
<1> HIDE DEF n
<1>4. Stacked(t)'
  <2>1. SUFFICES ASSUME stack'[t] # <<>> PROVE Stacked(t)'
    BY DEF Stacked
  <2>2. n > 1
    <3>1. Len(stack'[t]) > 0
      BY <1>2, <2>1
    <3> QED BY <1>1, <1>2, <3>1
  <2>3. \A k \in 1..(n - 2) : CalledBy(stack'[t][k].pc, stack'[t][k + 1])
    BY <1>1, <1>2, <1>3
  <2>4. stack'[t][1].pc \in Entry
    BY <1>1, <1>2, <1>3, <2>2
  <2>5. \A k \in 1..(Len(stack'[t]) - 1) : CalledBy(stack'[t][k].pc, stack'[t][k + 1])
    <3>1. n - 1 - 1 = n - 2 BY <1>1
    <3> QED BY <1>2, <2>3, <3>1
  <2>6. Alone => Len(stack'[t]) <= 2 /\ Len(stack'[t]) # 2
    BY <1>1, <1>2, <1>3
  <2> QED BY <2>4, <2>5, <2>6, EntrySame DEF Stacked
<1> QED BY <1>2, <1>4, OtherStacks

-----------------------------------------------------------------------------
(* The mutex *)

\* Become() neither enters nor leaves ext4_journal_commit().
LEMMA InsideBecome ==
  ASSUME ControlType, NEW t \in Callers, stack[t] # <<>>, NEW f \in Frames, Become(t, f),
         f.pc \in CommitIn <=> Top(t).pc \in CommitIn
  PROVE  \A u \in Callers : Inside(u)' = Inside(u)
<1> DEFINE n == Len(stack[t])
<1>1. n \in Nat \ {0} /\ Top(t) = stack[t][n] /\ DOMAIN stack[t] = 1..n
  <2>1. stack[t] \in Seq(Frames) BY TopFrame
  <2>2. DOMAIN stack[t] = 1..n BY <2>1
  <2> QED BY <2>2, TopFrame DEF Top
<1>2. /\ Len(stack'[t]) = n /\ stack'[t][n] = f /\ stack'[t] \in Seq(Frames)
      /\ \A k \in 1..(n - 1) : stack'[t][k] = stack[t][k]
      /\ \A u \in Callers \ {t} : stack'[u] = stack[u]
  BY BecomeStack
<1>3. DOMAIN stack'[t] = 1..n
  BY <1>2
<1> HIDE DEF n
<1>4. \A k \in 1..n : stack'[t][k].pc \in CommitIn <=> stack[t][k].pc \in CommitIn
  BY <1>1, <1>2
<1>5. Inside(t)' = Inside(t)
  BY <1>1, <1>3, <1>4 DEF Inside
<1> QED BY <1>2, <1>5 DEF Inside

\* A frame is pushed: sync() or commit before it has the mutex.
LEMMA InsideCall ==
  ASSUME ControlType, NEW t \in Callers, stack[t] # <<>>, NEW l \in Pcs, NEW f \in Frames,
         Call(t, l, f), f.pc \notin CommitIn
  PROVE  /\ \A u \in Callers \ {t} : Inside(u)' = Inside(u)
         /\ (l \in CommitIn <=> Top(t).pc \in CommitIn) => Inside(t)' = Inside(t)
         /\ l \in CommitIn => Inside(t)' = Inside(t) \cup {Len(stack[t])}
<1> DEFINE n == Len(stack[t])
           g == Frame(l, Mode(t))
<1>1. n \in Nat \ {0} /\ Top(t) = stack[t][n] /\ DOMAIN stack[t] = 1..n /\ g.pc = l
  <2>1. stack[t] \in Seq(Frames) BY TopFrame
  <2>2. DOMAIN stack[t] = 1..n BY <2>1
  <2> QED BY <2>2, TopFrame DEF Top
<1>2. /\ Len(stack'[t]) = n + 1 /\ stack'[t][n] = g /\ stack'[t][n + 1] = f
      /\ stack'[t] \in Seq(Frames)
      /\ \A k \in 1..(n - 1) : stack'[t][k] = stack[t][k]
      /\ \A u \in Callers \ {t} : stack'[u] = stack[u]
  BY CallStack
<1>3. DOMAIN stack'[t] = 1..(n + 1)
  BY <1>2
<1> HIDE DEF n, g
<1>4. \A k \in 1..(n - 1) : stack'[t][k].pc \in CommitIn <=> stack[t][k].pc \in CommitIn
  BY <1>1, <1>2
<1>5. (stack'[t][n].pc \in CommitIn <=> l \in CommitIn) /\ stack'[t][n + 1].pc \notin CommitIn
  BY <1>1, <1>2
<1>6. Inside(t)' = {k \in 1..(n + 1) : stack'[t][k].pc \in CommitIn}
  BY <1>3 DEF Inside
<1>7. Inside(t) = {k \in 1..n : stack[t][k].pc \in CommitIn}
  BY <1>1 DEF Inside
<1>8. (l \in CommitIn <=> Top(t).pc \in CommitIn) => Inside(t)' = Inside(t)
  BY <1>1, <1>4, <1>5, <1>6, <1>7
<1>9. l \in CommitIn => Inside(t)' = Inside(t) \cup {n}
  BY <1>1, <1>4, <1>5, <1>6, <1>7
<1> QED BY <1>2, <1>8, <1>9 DEF Inside, n

\* Return() leaves the commit it returns from.
LEMMA InsideReturn ==
  ASSUME ControlType, NEW t \in Callers, stack[t] # <<>>, NEW r \in BOOLEAN, Return(t, r)
  PROVE  /\ \A u \in Callers \ {t} : Inside(u)' = Inside(u)
         /\ Inside(t)' = Inside(t) \ {Len(stack[t])}
         /\ Len(stack[t]) \in Inside(t) <=> Top(t).pc \in CommitIn
<1> DEFINE n == Len(stack[t])
<1>1. n \in Nat \ {0} /\ Top(t) = stack[t][n] /\ DOMAIN stack[t] = 1..n
  <2>1. stack[t] \in Seq(Frames) BY TopFrame
  <2>2. DOMAIN stack[t] = 1..n BY <2>1
  <2> QED BY <2>2, TopFrame DEF Top
<1>2. /\ Len(stack'[t]) = n - 1 /\ stack'[t] \in Seq(Frames)
      /\ \A k \in 1..(n - 1) : stack'[t][k] = stack[t][k]
      /\ \A u \in Callers \ {t} : stack'[u] = stack[u]
  BY ReturnStack
<1>3. DOMAIN stack'[t] = 1..(n - 1)
  BY <1>2
<1> HIDE DEF n
<1>4. Inside(t)' = {k \in 1..(n - 1) : stack'[t][k].pc \in CommitIn}
  BY <1>3 DEF Inside
<1>5. Inside(t) = {k \in 1..n : stack[t][k].pc \in CommitIn}
  BY <1>1 DEF Inside
<1>6. Inside(t)' = Inside(t) \ {n}
  BY <1>1, <1>2, <1>4, <1>5
<1>7. n \in Inside(t) <=> Top(t).pc \in CommitIn
  BY <1>1, <1>5
<1> QED BY <1>2, <1>6, <1>7 DEF Inside, n

\* The commits on a stack can be counted.
LEMMA InsideFinite ==
  ASSUME ControlType, NEW t \in Callers
  PROVE  IsFiniteSet(Inside(t)) /\ Cardinality(Inside(t)) \in Nat
         /\ (Cardinality(Inside(t)) = 0 <=> Inside(t) = {})
<1>1. stack[t] \in Seq(Frames) /\ DOMAIN stack[t] = 1..Len(stack[t]) /\ Len(stack[t]) \in Nat
  BY DEF ControlType
<1>2. IsFiniteSet(1..Len(stack[t]))
  BY <1>1, FS_Interval
<1>3. Inside(t) \subseteq 1..Len(stack[t])
  BY <1>1 DEF Inside
<1>4. IsFiniteSet(Inside(t))
  BY <1>2, <1>3, FS_Subset
<1> QED BY <1>4, FS_CardinalityType, FS_EmptySet

\* A step that enters and leaves no commit keeps the mutex rule.
LEMMA LockSame ==
  ASSUME Locking, \A u \in Callers : Inside(u)' = Inside(u), UNCHANGED <<lock, op, writing, phase>>
  PROVE  Locking'
BY DEF Locking

\* Taking ej->lock on the way into a commit keeps the mutex rule.
LEMMA LockTake ==
  ASSUME ControlType, Locking, NEW t \in Callers, lock.owner \in {NoTask, t},
         lock' = Locked(t), NEW n, n \notin Inside(t),
         Inside(t)' = Inside(t) \cup {n}, \A u \in Callers \ {t} : Inside(u)' = Inside(u),
         UNCHANGED <<op, writing, phase>>
  PROVE  Locking' /\ lock' \in [owner : Callers \cup {NoTask, "op"}, depth : Nat]
<1>1. lock'.owner = t /\ lock'.depth = lock.depth + 1 /\ lock.depth \in Nat
  BY DEF Locked, ControlType
<1>2. t # NoTask /\ t # "op"
  BY JournalAssumption
<1>3. IsFiniteSet(Inside(t)) /\ (lock.owner = NoTask => Inside(t) = {}) /\ Cardinality(Inside(t)) \in Nat
  BY <1>2, InsideFinite DEF Locking
<1>4. lock.depth = Cardinality(Inside(t))
  <2>1. CASE lock.owner = NoTask
    BY <1>3, <2>1, FS_EmptySet DEF Locking
  <2>2. CASE lock.owner = t
    BY <2>2 DEF Locking
  <2> QED BY <2>1, <2>2
<1>5. Cardinality(Inside(t)') = Cardinality(Inside(t)) + 1
  BY <1>3, FS_AddElement
<1>6. \A u \in Callers \ {t} : Inside(u) = {}
  BY JournalAssumption DEF Locking
<1>7. ~writing /\ (op # <<>> => phase = "mounted")
  BY <1>2, JournalAssumption DEF Locking
<1>8. lock'.depth = Cardinality(Inside(t)')
  BY <1>1, <1>4, <1>5
<1>9. lock' \in [owner : Callers \cup {NoTask, "op"}, depth : Nat]
  BY <1>1 DEF Locked
<1>10. /\ lock'.owner \in Callers => lock'.depth = Cardinality(Inside(t)')
       /\ lock'.owner # NoTask /\ lock'.depth # 0 /\ lock'.owner # "op"
  BY <1>1, <1>2, <1>8
<1>11. \A u \in Callers : Inside(u)' # {} => lock'.owner = u
  BY <1>1, <1>6
<1> QED BY <1>1, <1>7, <1>8, <1>9, <1>10, <1>11 DEF Locking

\* Dropping ej->lock on the way out of a commit keeps the mutex rule.
LEMMA LockDrop ==
  ASSUME ControlType, Locking, NEW t \in Callers, NEW n, n \in Inside(t), lock' = Unlocked,
         Inside(t)' = Inside(t) \ {n}, \A u \in Callers \ {t} : Inside(u)' = Inside(u),
         UNCHANGED <<op, writing, phase>>
  PROVE  Locking' /\ lock' \in [owner : Callers \cup {NoTask, "op"}, depth : Nat]
<1>1. lock.owner = t /\ t # NoTask /\ t # "op" /\ lock.depth \in Nat
  BY JournalAssumption DEF Locking, ControlType
<1>2. IsFiniteSet(Inside(t)) /\ lock.depth = Cardinality(Inside(t)) /\ lock.depth # 0
  BY <1>1, InsideFinite DEF Locking
<1>3. Cardinality(Inside(t)') = lock.depth - 1 /\ IsFiniteSet(Inside(t)')
  BY <1>2, FS_RemoveElement
<1>4. \A u \in Callers \ {t} : Inside(u) = {}
  BY <1>1 DEF Locking
<1>5. ~writing /\ (op # <<>> => phase = "mounted")
  BY <1>1 DEF Locking
<1>6. CASE lock.depth = 1
  <2>1. lock' = [owner |-> NoTask, depth |-> 0]
    BY <1>6 DEF Unlocked
  <2>2. Inside(t)' = {}
    BY <1>3, <1>6, FS_EmptySet
  <2> QED BY <1>4, <1>5, <2>1, <2>2, JournalAssumption DEF Locking
<1>7. CASE lock.depth # 1
  <2>1. lock'.owner = t /\ lock'.depth = lock.depth - 1 /\ lock' \in [owner : Callers \cup {NoTask, "op"}, depth : Nat]
    <3>1. lock' = [lock EXCEPT !.depth = @ - 1] /\ lock.depth - 1 \in Nat
      BY <1>1, <1>2, <1>7 DEF Unlocked
    <3> QED BY <1>1, <3>1 DEF ControlType
  <2>2. /\ lock'.owner # NoTask /\ lock'.depth # 0 /\ lock'.owner # "op"
        /\ lock'.depth = Cardinality(Inside(t)')
    BY <1>1, <1>2, <1>3, <1>7, <2>1
  <2>3. \A u \in Callers : Inside(u)' # {} => lock'.owner = u
    BY <1>4, <2>1
  <2> QED BY <1>5, <2>1, <2>2, <2>3 DEF Locking
<1> QED BY <1>6, <1>7

\* The frames of the sync, of the commit and of the mount are disjoint.
LEMMA PcStrings ==
  /\ SyncPcs \subseteq Pcs /\ CommitPcs \subseteq Pcs /\ MountPcs \subseteq Pcs
  /\ SyncPcs \cap CommitPcs = {} /\ MountPcs \cap (SyncPcs \cup CommitPcs) = {}
  /\ CommitIn \subseteq CommitPcs
BY DEF SyncPcs, CommitPcs, CommitIn, MountPcs, Pcs

\* The frames that calls push.
LEMMA FrameKinds ==
  /\ \A m \in {"ALL", "SCOPED", "HELD"} : Sync(m) \in Frames /\ Sync(m).pc = "sync" /\ Sync(m).mode = m
  /\ CommitCall \in Frames /\ CommitCall.pc = "commit"
BY DEF Sync, CommitCall, Frame, Frames, Pcs, SyncPcs, CommitPcs

\* A step inside bcache_sync_common().
LEMMA SyncMove ==
  ASSUME ControlType, Shape, NEW t \in Callers, stack[t] # <<>>, Top(t).pc \in SyncPcs,
         NEW l \in SyncPcs, Goto(t, l), phase' = phase, Alone => l \in {"sync", "write", "flush"}
  PROVE  /\ Shape' /\ stack' \in [Callers -> Seq(Frames)]
         /\ \A u \in Callers : Inside(u)' = Inside(u)
<1> DEFINE f == Frame(l, Mode(t))
<1>1. f \in Frames /\ f.pc = l /\ f.mode = Top(t).mode
  BY TopFrame, PcStrings DEF Mode
<1>2. Become(t, f)
  BY DEF Goto
<1> HIDE DEF f
<1>3. \A x : CalledBy(x, Top(t)) => CalledBy(x, f)
  BY <1>1, PcStrings DEF CalledBy
<1>4. Len(stack[t]) = 1 => f.pc \in Entry
  <2>1. Len(stack[t]) = 1 => Top(t).pc \in Entry
    BY TopKind
  <2> QED BY <1>1, <2>1 DEF Entry, SyncPcs, MountPcs
<1>5. Shape'
  BY <1>1, <1>2, <1>3, <1>4, ShapeBecome
<1>6. f.pc \notin CommitIn /\ Top(t).pc \notin CommitIn
  BY <1>1, PcStrings
<1> QED BY <1>1, <1>2, <1>5, <1>6, InsideBecome, BecomeStack

\* A step inside ext4_journal_commit().
LEMMA CommitMove ==
  ASSUME ControlType, Shape, NEW t \in Callers, stack[t] # <<>>, Top(t).pc \in CommitIn,
         NEW l \in CommitIn, Goto(t, l), phase' = phase
  PROVE  /\ Shape' /\ stack' \in [Callers -> Seq(Frames)]
         /\ \A u \in Callers : Inside(u)' = Inside(u)
<1> DEFINE f == Frame(l, Mode(t))
<1>1. f \in Frames /\ f.pc = l /\ f.mode = Top(t).mode
  BY TopFrame, PcStrings DEF Mode
<1>2. Become(t, f)
  BY DEF Goto
<1> HIDE DEF f
<1>3. \A x : CalledBy(x, Top(t)) => CalledBy(x, f)
  BY <1>1, PcStrings DEF CalledBy
<1>4. Len(stack[t]) # 1 /\ ~Alone
  BY TopKind DEF Entry, SyncPcs, MountPcs, CommitIn
<1>5. Shape'
  BY <1>1, <1>2, <1>3, <1>4, ShapeBecome
<1>6. f.pc \in CommitIn
  BY <1>1
<1> QED BY <1>1, <1>2, <1>5, <1>6, InsideBecome, BecomeStack

\* The commit calls bcache_sync_common().
LEMMA CommitSyncs ==
  ASSUME ControlType, Shape, NEW t \in Callers, stack[t] # <<>>, Top(t).pc \in CommitPcs,
         NEW l, NEW m,
         \/ l \in {"dataHome", "raised", "lowered"} /\ m = "ALL"
         \/ l = "checkpointed" /\ m = "HELD",
         Call(t, l, Sync(m)), phase' = phase
  PROVE  /\ Shape' /\ stack' \in [Callers -> Seq(Frames)]
         /\ \A u \in Callers \ {t} : Inside(u)' = Inside(u)
         /\ Inside(t)' = Inside(t) \cup {Len(stack[t])}
         /\ Len(stack[t]) \in Inside(t) <=> Top(t).pc \in CommitIn
<1> DEFINE f == Frame(l, Mode(t))
<1>0. l \in CommitIn /\ l \in Pcs /\ m \in {"ALL", "SCOPED", "HELD"}
  BY DEF CommitIn, CommitPcs, Pcs
<1>1. f \in Frames /\ f.pc = l /\ f.mode = Top(t).mode
  BY <1>0, TopFrame DEF Mode
<1>2. Sync(m) \in Frames /\ Sync(m).pc = "sync" /\ Sync(m).mode = m
  BY <1>0, FrameKinds
<1>3. \A x : CalledBy(x, Top(t)) => CalledBy(x, f)
  BY <1>0, <1>1, PcStrings DEF CalledBy
<1>4. CalledBy(l, Sync(m))
  BY <1>2 DEF CalledBy, SyncPcs
<1>5. Len(stack[t]) # 1 /\ ~Alone
  BY TopKind DEF Entry, SyncPcs, MountPcs, CommitPcs, CommitIn
<1>6. Shape'
  BY <1>0, <1>2, <1>3, <1>4, <1>5, ShapeCall, EntrySame
<1>7. Sync(m).pc \notin CommitIn
  BY <1>2 DEF CommitIn
<1>8. Len(stack[t]) \in Inside(t) <=> Top(t).pc \in CommitIn
  <2>1. stack[t] \in Seq(Frames) /\ stack[t] # <<>> BY TopFrame
  <2>2. Len(stack[t]) \in DOMAIN stack[t] BY <2>1
  <2> QED BY <2>2 DEF Inside, Top
<1> QED BY <1>0, <1>2, <1>6, <1>7, <1>8, InsideCall, CallStack

\* The mutex is released on the way out of the commit.
LEMMA CommitLeave ==
  ASSUME ControlType, Shape, Locking, NEW t \in Callers, stack[t] # <<>>,
         Top(t).pc \in CommitIn, NEW r \in BOOLEAN, CommitOut(t, r),
         UNCHANGED <<op, writing, phase>>
  PROVE  /\ Shape' /\ Locking' /\ stack' \in [Callers -> Seq(Frames)]
         /\ ok' \in [Callers -> BOOLEAN]
         /\ lock' \in [owner : Callers \cup {NoTask, "op"}, depth : Nat]
<1>1. Return(t, r) /\ lock' = Unlocked
  BY DEF CommitOut
<1>2. Shape' /\ stack' \in [Callers -> Seq(Frames)] /\ ok' \in [Callers -> BOOLEAN]
  BY <1>1, ShapeReturn, ReturnStack
<1>3. /\ \A u \in Callers \ {t} : Inside(u)' = Inside(u)
      /\ Inside(t)' = Inside(t) \ {Len(stack[t])} /\ Len(stack[t]) \in Inside(t)
  BY <1>1, InsideReturn
<1> QED BY <1>1, <1>2, <1>3, LockDrop

\* Any other return.
LEMMA Leave ==
  ASSUME ControlType, Shape, NEW t \in Callers, stack[t] # <<>>, Top(t).pc \notin CommitIn,
         NEW r \in BOOLEAN, Return(t, r), phase' = phase
  PROVE  /\ Shape' /\ stack' \in [Callers -> Seq(Frames)] /\ ok' \in [Callers -> BOOLEAN]
         /\ \A u \in Callers : Inside(u)' = Inside(u)
<1>1. /\ \A u \in Callers \ {t} : Inside(u)' = Inside(u)
      /\ Inside(t)' = Inside(t) \ {Len(stack[t])} /\ Len(stack[t]) \notin Inside(t)
  BY InsideReturn
<1>2. \A u \in Callers : Inside(u)' = Inside(u)
  BY <1>1
<1> QED BY <1>2, ShapeReturn, ReturnStack

\* A step of the mount or of the recovery, and a sync they call.
LEMMA MountMove ==
  ASSUME ControlType, Shape, NEW t \in Callers, stack[t] # <<>>, Top(t).pc \in MountPcs,
         NEW l \in MountPcs, phase' = phase,
         Goto(t, l) \/ (l \in {"replayed", "emptied", "open"} /\ Call(t, l, Sync("ALL")))
  PROVE  /\ Shape' /\ stack' \in [Callers -> Seq(Frames)]
         /\ \A u \in Callers : Inside(u)' = Inside(u)
<1> DEFINE f == Frame(l, Mode(t))
<1>1. f \in Frames /\ f.pc = l /\ l \in Pcs
  BY TopFrame, PcStrings
<1>2. Len(stack[t]) = 1 /\ phase = "mounting" /\ l \in Entry
  BY TopKind, PcStrings DEF Entry, MountPcs, SyncPcs
<1>3. \A x : ~CalledBy(x, Top(t))
  BY PcStrings DEF CalledBy
<1>4. l \notin CommitIn /\ Top(t).pc \notin CommitIn
  BY PcStrings
<1>5. CASE Goto(t, l)
  <2>1. Become(t, f)
    BY <1>5 DEF Goto
  <2> HIDE DEF f
  <2>2. Shape'
    BY <1>1, <1>2, <1>3, <2>1, ShapeBecome
  <2> QED BY <1>1, <1>4, <2>1, <2>2, InsideBecome, BecomeStack
<1>6. CASE l \in {"replayed", "emptied", "open"} /\ Call(t, l, Sync("ALL"))
  <2>1. Sync("ALL") \in Frames /\ Sync("ALL").pc = "sync" /\ Sync("ALL").mode = "ALL"
    BY FrameKinds
  <2>2. CalledBy(l, Sync("ALL")) /\ Sync("ALL").pc \notin CommitIn
    BY <1>6, <2>1 DEF CalledBy, SyncPcs, CommitIn
  <2>3. Shape'
    BY <1>1, <1>2, <1>3, <1>6, <2>1, <2>2, ShapeCall, EntrySame
  <2>4. \A u \in Callers : Inside(u)' = Inside(u)
    BY <1>1, <1>4, <1>6, <2>1, <2>2, InsideCall
  <2> QED BY <1>1, <1>6, <2>1, <2>3, <2>4, CallStack
<1> QED BY <1>5, <1>6

\* Nothing is lost with the page that is being recycled.
Victims == \A p \in evicting \cap DOMAIN cache : ~cache[p].dirty

Base == StorageType /\ ControlType /\ Shape /\ Locking /\ Clean /\ Victims

Bottom(t, l) == stack[t] # <<>> /\ stack[t][1].pc = l
HasTx(m) == m[JSB].start # 0 /\ TxAt(m, m[JSB].start, m[JSB].seq)
Desc(m) == m[LogPage(m[JSB].start)]
Tagged(m) == IF HasTx(m) THEN Range(Desc(m).tags) ELSE {}

\* The transaction that the scan found, its pages read as the log has them.
Recovered ==
  rec.seq > Dev(JSB).seq =>
    \A p \in Tagged(Device) : bcache_read_bytes(p) = Logged(Desc(Device), p)

\* Recovery knows where the log ends and what to replay.
Scanning ==
  LET j == Dev(JSB) IN
  phase = "mounting" => \A t \in Callers :
    /\ Bottom(t, "recover") \/ Bottom(t, "scan") \/ Bottom(t, "empty") => DOMAIN cache = {}
    /\ Bottom(t, "scan") \/ Bottom(t, "replay") \/ Bottom(t, "replayed") =>
         j.start # 0 /\ JSB \notin DOMAIN cache
    /\ Bottom(t, "scan") =>
         /\ rec.tid = j.seq /\ rec.at = j.start
         /\ \/ rec.seq = j.seq /\ rec.head = j.start
            \/ HasTx(Device) /\ rec.seq = j.seq + 1 /\ rec.head = Past(Device, j.start)
    /\ Bottom(t, "replay") \/ Bottom(t, "replayed") =>
         \/ rec.seq = j.seq /\ rec.head = j.start
         \/ HasTx(Device) /\ rec.seq = j.seq + 1 /\ rec.head = Past(Device, j.start)
    /\ Bottom(t, "replay") /\ rec.tid # rec.seq =>
         HasTx(Device) /\ rec.tid = j.seq /\ rec.at = j.start /\ DOMAIN cache = {}
    /\ Bottom(t, "replayed") \/ (Bottom(t, "replay") /\ rec.tid = rec.seq)
        \/ Bottom(t, "emptied") \/ Bottom(t, "open") =>
         Recovered
    /\ Bottom(t, "empty") => j.start = 0 /\ rec.seq = j.seq /\ rec.head = j.head
    /\ Bottom(t, "emptied") =>
         bcache_read_bytes(JSB) = Super(0, rec.seq, rec.head) /\ rec.seq >= j.seq
    /\ Bottom(t, "open") /\ JSB \in DOMAIN cache => cache[JSB].data = Super(0, rec.seq, rec.head)

\* At() reads the innermost frame.
LEMMA AtTop ==
  ASSUME NEW t, NEW l, At(t, l)
  PROVE  stack[t] # <<>> /\ Top(t).pc = l
BY DEF At

\* The counters of device errors and mishaps stay within their bounds.
LEMMA Mishaps ==
  ASSUME ControlType
  PROVE  /\ Mishap /\ faults' = faults => mishaps' \in 0..MaxMishaps /\ faults' \in 0..mishaps'
         /\ Fault => mishaps' \in 0..MaxMishaps /\ faults' \in 0..mishaps' /\ faults' > faults
         /\ UNCHANGED <<mishaps, faults>> => mishaps' \in 0..MaxMishaps /\ faults' \in 0..mishaps'
         /\ faults \in Nat
<1>1. mishaps \in 0..MaxMishaps /\ faults \in 0..mishaps /\ MaxMishaps \in Nat
  BY BlockCacheAssumption DEF ControlType
<1> QED BY <1>1 DEF Fault, Mishap

\* bcache_sync_common() keeps the control state well formed.
LEMMA BaseSync ==
  ASSUME ControlType, Shape, Locking, NEW t \in Callers,
         SyncTest(t) \/ HookCall(t) \/ HookLoad(t) \/ HookReturn(t) \/ SyncWrite(t) \/ SyncFlush(t)
  PROVE  ControlType' /\ Shape' /\ Locking'
<1> USE DEF bcVars, callVars, ejVars, hookVars, opVars, mountVars, hVars
<1>1. CASE SyncTest(t)
  <2> DEFINE l == IF Hooked /\ hookDepth = 0 THEN "hook" ELSE "write"
  <2>1. l \in SyncPcs /\ (Alone => l = "write") /\ Goto(t, l)
    BY <1>1 DEF SyncTest, SyncPcs, Alone, Hooked
  <2>2. stack[t] # <<>> /\ Top(t).pc \in SyncPcs
    BY <1>1, AtTop DEF SyncTest, SyncPcs
  <2> HIDE DEF l
  <2>3. UNCHANGED <<phase, lock, op, writing>>
    BY <1>1 DEF SyncTest
  <2>4. Shape' /\ stack' \in [Callers -> Seq(Frames)] /\ \A u \in Callers : Inside(u)' = Inside(u)
    BY <2>1, <2>2, <2>3, SyncMove
  <2>5. Locking'
    BY <2>3, <2>4, LockSame
  <2>6. ControlType'
    BY <1>1, <2>4 DEF SyncTest, ControlType, Versions
  <2> QED BY <2>4, <2>5, <2>6
<1>2. CASE HookCall(t)
  <2>1. stack[t] # <<>> /\ Top(t).pc = "hook" /\ Call(t, "hooked", CommitCall)
    BY <1>2, AtTop DEF HookCall
  <2>2. UNCHANGED <<phase, lock, op, writing>>
    BY <1>2 DEF HookCall
  <2>3. /\ "hooked" \in Pcs /\ CommitCall \in Frames /\ CommitCall.pc = "commit"
        /\ CommitCall.pc \notin CommitIn /\ CalledBy("hooked", CommitCall)
    BY FrameKinds DEF Pcs, SyncPcs, CommitIn, CommitPcs, CalledBy
  <2>4. \A x : CalledBy(x, Top(t)) => CalledBy(x, Frame("hooked", Mode(t)))
    BY <2>1, <2>3, TopFrame DEF CalledBy, Mode, SyncPcs, CommitPcs, CommitIn
  <2>5. (Len(stack[t]) = 1 => "hooked" \in Entry) /\ ~Alone
    BY <2>1, TopKind DEF Entry, SyncPcs, MountPcs, Alone
  <2>6. Shape' /\ stack' \in [Callers -> Seq(Frames)]
    BY <2>1, <2>2, <2>3, <2>4, <2>5, ShapeCall, CallStack, EntrySame
  <2>7. \A u \in Callers : Inside(u)' = Inside(u)
    BY <2>1, <2>3, InsideCall DEF CommitIn
  <2>8. Locking'
    BY <2>2, <2>7, LockSame
  <2>9. ControlType'
    BY <1>2, <2>6 DEF HookCall, ControlType, Versions
  <2> QED BY <2>6, <2>8, <2>9
<1>3. CASE HookLoad(t)
  <2>1. stack[t] # <<>> /\ Top(t).pc = "hooked" /\ Goto(t, "hookDec") /\ UNCHANGED <<phase, lock, op, writing>>
    BY <1>3, AtTop DEF HookLoad
  <2>2. "hookDec" \in SyncPcs /\ Top(t).pc \in SyncPcs /\ ~Alone
    BY <2>1, TopKind DEF SyncPcs, Alone, Entry, MountPcs
  <2>3. Shape' /\ stack' \in [Callers -> Seq(Frames)] /\ \A u \in Callers : Inside(u)' = Inside(u)
    BY <2>1, <2>2, SyncMove
  <2>4. Locking'
    BY <2>1, <2>3, LockSame
  <2>5. ControlType'
    BY <1>3, <2>3 DEF HookLoad, ControlType, Versions
  <2> QED BY <2>3, <2>4, <2>5
<1>4. CASE HookReturn(t)
  <2>1. stack[t] # <<>> /\ Top(t).pc = "hookDec" /\ UNCHANGED <<phase, lock, op, writing>>
    BY <1>4, AtTop DEF HookReturn
  <2>2. Top(t).pc \in SyncPcs /\ Top(t).pc \notin CommitIn /\ "write" \in SyncPcs
    BY <2>1 DEF SyncPcs, CommitIn
  <2>3. /\ Shape' /\ stack' \in [Callers -> Seq(Frames)] /\ ok' \in [Callers -> BOOLEAN]
        /\ \A u \in Callers : Inside(u)' = Inside(u)
    <3>1. CASE ok[t]
      BY <1>4, <2>1, <2>2, <3>1, SyncMove DEF HookReturn, ControlType
    <3>2. CASE ~ok[t]
      BY <1>4, <2>1, <2>2, <3>2, Leave DEF HookReturn
    <3> QED BY <3>1, <3>2
  <2>4. Locking'
    BY <2>1, <2>3, LockSame
  <2>5. ControlType'
    <3>1. hookDepth' \in Int /\ tmp' \in [Callers -> Int]
      BY <1>4 DEF HookReturn, ControlType
    <3> QED BY <1>4, <2>3, <3>1 DEF HookReturn, ControlType, Versions
  <2> QED BY <2>3, <2>4, <2>5
<1>5. CASE SyncWrite(t)
  <2>1. stack[t] # <<>> /\ Top(t).pc = "write" /\ UNCHANGED <<phase, lock, op, writing>>
    BY <1>5, AtTop DEF SyncWrite
  <2>2. Top(t).pc \in SyncPcs /\ Top(t).pc \notin CommitIn /\ "flush" \in SyncPcs
    BY <2>1 DEF SyncPcs, CommitIn
  <2>3. Return(t, FALSE) \/ (Goto(t, "flush") /\ ok' = ok)
    BY <1>5 DEF SyncWrite
  <2>4. /\ Shape' /\ stack' \in [Callers -> Seq(Frames)] /\ ok' \in [Callers -> BOOLEAN]
        /\ \A u \in Callers : Inside(u)' = Inside(u)
    <3>1. CASE Return(t, FALSE)
      BY <2>1, <2>2, <3>1, Leave
    <3>2. CASE Goto(t, "flush") /\ ok' = ok
      BY <2>1, <2>2, <3>2, SyncMove DEF ControlType
    <3> QED BY <2>3, <3>1, <3>2
  <2>5. Locking'
    BY <2>1, <2>4, LockSame
  <2>6. /\ quarantined' \in BOOLEAN /\ mishaps' \in 0..MaxMishaps /\ faults' \in 0..mishaps'
        /\ evicting' = evicting
    <3>1. /\ \/ UNCHANGED <<mishaps, faults, quarantined>>
             \/ Fault /\ quarantined' = TRUE
          /\ evicting' = evicting
      BY <1>5 DEF SyncWrite, WritePages, WritePagesFail
    <3> QED BY <3>1, Mishaps DEF ControlType
  <2>7. exposed' \in BOOLEAN
    BY <1>5 DEF SyncWrite, ControlType
  <2>8. ControlType'
    BY <1>5, <2>4, <2>6, <2>7 DEF SyncWrite, ControlType, Versions
  <2> QED BY <2>4, <2>5, <2>8
<1>6. CASE SyncFlush(t)
  <2>1. stack[t] # <<>> /\ Top(t).pc = "flush" /\ UNCHANGED <<phase, lock, op, writing>>
    BY <1>6, AtTop DEF SyncFlush
  <2>2. Top(t).pc \notin CommitIn
    BY <2>1 DEF CommitIn
  <2>3. Return(t, FALSE) \/ Return(t, TRUE)
    BY <1>6 DEF SyncFlush
  <2>4. /\ Shape' /\ stack' \in [Callers -> Seq(Frames)] /\ ok' \in [Callers -> BOOLEAN]
        /\ \A u \in Callers : Inside(u)' = Inside(u)
    BY <2>1, <2>2, <2>3, Leave
  <2>5. Locking'
    BY <2>1, <2>4, LockSame
  <2>6. /\ quarantined' \in BOOLEAN /\ mishaps' \in 0..MaxMishaps /\ faults' \in 0..mishaps'
        /\ evicting' = evicting
    <3>1. UNCHANGED <<quarantined, evicting>> /\ (UNCHANGED <<mishaps, faults>> \/ Fault)
      BY <1>6 DEF SyncFlush, DevFlush, DevError
    <3> QED BY <3>1, Mishaps DEF ControlType
  <2>7. ControlType'
    BY <1>6, <2>4, <2>6 DEF SyncFlush, ControlType, Versions
  <2> QED BY <2>4, <2>5, <2>7
<1> QED BY <1>1, <1>2, <1>3, <1>4, <1>5, <1>6

\* The empty sequence.
LEMMA Nil ==
  /\ \A S : <<>> \in Seq(S)
  /\ Len(<<>>) = 0 /\ DOMAIN <<>> = {}
OBVIOUS

\* A task outside every call is in no commit.
LEMMA NoFrames ==
  ASSUME NEW t, stack[t] = <<>>
  PROVE  Inside(t) = {} /\ Len(stack[t]) = 0
BY Nil DEF Inside

\* A system call that starts with one frame.
LEMMA OneFrame ==
  ASSUME ControlType, NEW t \in Callers, NEW f \in Frames, stack' = [stack EXCEPT ![t] = <<f>>]
  PROVE  /\ stack' \in [Callers -> Seq(Frames)] /\ stack'[t] # <<>>
         /\ Len(stack'[t]) = 1 /\ stack'[t][1] = f
         /\ \A u \in Callers \ {t} : stack'[u] = stack[u]
         /\ f.pc \notin CommitIn => Inside(t)' = {}
         /\ 1..(Len(stack'[t]) - 1) = {}
<1> DEFINE s == <<f>>
<1>4. Len(s) - 1 = 0 /\ 1..(Len(s) - 1) = {}
  OBVIOUS
<1>1. s \in Seq(Frames) /\ Len(s) = 1 /\ s[1] = f /\ s # <<>> /\ DOMAIN s = 1..1
  OBVIOUS
<1> HIDE DEF s
<1>2. stack' = [stack EXCEPT ![t] = s]
  BY DEF s
<1>3. stack' \in [Callers -> Seq(Frames)] /\ stack'[t] = s /\ \A u \in Callers \ {t} : stack'[u] = stack[u]
  BY <1>1, <1>2 DEF ControlType
<1> QED BY <1>1, <1>3, <1>4 DEF Inside

\* A system call that starts with two frames.
LEMMA TwoFrames ==
  ASSUME ControlType, NEW t \in Callers, NEW f \in Frames, NEW g \in Frames,
         stack' = [stack EXCEPT ![t] = <<f, g>>]
  PROVE  /\ stack' \in [Callers -> Seq(Frames)] /\ stack'[t] # <<>>
         /\ Len(stack'[t]) = 2 /\ stack'[t][1] = f /\ stack'[t][2] = g
         /\ \A u \in Callers \ {t} : stack'[u] = stack[u]
         /\ f.pc \notin CommitIn /\ g.pc \notin CommitIn => Inside(t)' = {}
         /\ 1..(Len(stack'[t]) - 1) = {1}
<1> DEFINE s == <<f, g>>
<1>5. 1..(Len(s) - 1) = {1}
  OBVIOUS
<1>1. s \in Seq(Frames) /\ Len(s) = 2 /\ s[1] = f /\ s[2] = g /\ s # <<>> /\ DOMAIN s = 1..2
  OBVIOUS
<1> HIDE DEF s
<1>2. stack' = [stack EXCEPT ![t] = s]
  BY DEF s
<1>3. stack' \in [Callers -> Seq(Frames)] /\ stack'[t] = s /\ \A u \in Callers \ {t} : stack'[u] = stack[u]
  BY <1>1, <1>2 DEF ControlType
<1>4. \A k \in 1..2 : k = 1 \/ k = 2
  OBVIOUS
<1> QED BY <1>1, <1>3, <1>4, <1>5 DEF Inside

\* The images of the metadata are typed.
LEMMA ImageType ==
  ASSUME StorageType, ControlType
  PROVE  Image \in [Meta -> Versions] /\ TxImage \in [Meta -> Versions]
<1>1. \A p \in Meta : bcache_read_bytes(p) \in HomePage
  BY DevType, PageKinds DEF PageOK
<1>2. Image \in [Meta -> Versions]
  BY <1>1 DEF Image, HomePage
<1> QED BY <1>2 DEF TxImage, ControlType

\* The ways a step of the commit moves on.
CommitStep(t) ==
  /\ stack[t] # <<>> /\ Top(t).pc \in CommitIn
  /\ UNCHANGED <<phase, op, writing, hist, hookDepth, tmp, rec>>
  /\ \/ \E l \in CommitIn : Goto(t, l) /\ UNCHANGED <<lock, ok, stable>>
     \/ \E l \in {"raised", "lowered"} :
          Call(t, l, Sync("ALL")) /\ UNCHANGED <<lock, ok, stable>>
     \/ Call(t, "checkpointed", Sync("HELD")) /\ UNCHANGED <<lock, ok, stable>>
     \/ CommitOut(t, FALSE)
     \/ Top(t).pc = "lowered" /\ CommitOut(t, ok[t])

\* Every step of ext4_journal_commit() keeps the stacks and the mutex well formed.
LEMMA CommitControl ==
  ASSUME ControlType, Shape, Locking, NEW t \in Callers, CommitStep(t)
  PROVE  /\ Shape' /\ Locking' /\ stack' \in [Callers -> Seq(Frames)]
         /\ ok' \in [Callers -> BOOLEAN] /\ stable' \in [Meta -> Versions]
         /\ lock' \in [owner : Callers \cup {NoTask, "op"}, depth : Nat]
<1>1. stack[t] # <<>> /\ Top(t).pc \in CommitIn /\ UNCHANGED <<phase, op, writing, hist>>
  BY DEF CommitStep
<1>2. CASE \E l \in CommitIn : Goto(t, l) /\ UNCHANGED <<lock, ok, stable>>
  BY <1>1, <1>2, CommitMove, LockSame DEF ControlType
<1>3. ASSUME NEW l, NEW m, Call(t, l, Sync(m)), UNCHANGED <<lock, ok, stable>>,
             \/ l \in {"dataHome", "raised", "lowered"} /\ m = "ALL"
             \/ l = "checkpointed" /\ m = "HELD"
      PROVE  /\ Shape' /\ Locking' /\ stack' \in [Callers -> Seq(Frames)]
             /\ ok' \in [Callers -> BOOLEAN] /\ stable' \in [Meta -> Versions]
             /\ lock' \in [owner : Callers \cup {NoTask, "op"}, depth : Nat]
  <2>1. Top(t).pc \in CommitPcs
    BY <1>1 DEF CommitPcs
  <2>2. /\ Shape' /\ stack' \in [Callers -> Seq(Frames)]
        /\ \A u \in Callers \ {t} : Inside(u)' = Inside(u)
        /\ Inside(t)' = Inside(t) \cup {Len(stack[t])}
        /\ Len(stack[t]) \in Inside(t)
    BY <1>1, <1>3, <2>1, CommitSyncs
  <2>3. \A u \in Callers : Inside(u)' = Inside(u)
    BY <2>2
  <2> QED BY <1>1, <1>3, <2>2, <2>3, LockSame DEF ControlType
<1>4. ASSUME NEW r \in BOOLEAN, CommitOut(t, r)
      PROVE  /\ Shape' /\ Locking' /\ stack' \in [Callers -> Seq(Frames)]
             /\ ok' \in [Callers -> BOOLEAN] /\ stable' \in [Meta -> Versions]
             /\ lock' \in [owner : Callers \cup {NoTask, "op"}, depth : Nat]
  <2>1. stable' \in [Meta -> Versions]
    BY <1>4 DEF CommitOut, ControlType
  <2> QED BY <1>1, <1>4, <2>1, CommitLeave
<1>5. ok[t] \in BOOLEAN
  BY DEF ControlType
<1> QED BY <1>2, <1>3, <1>4, <1>5 DEF CommitStep

\* The actions of the commit are steps of that kind.
LEMMA CommitSteps ==
  ASSUME NEW t \in Callers,
         \/ CommitLowered(t) \/ CommitRaise(t) \/ CommitRaised(t) \/ CommitDescriptor(t)
         \/ CommitData(t) \/ CommitStart(t) \/ CommitBlock(t) \/ CommitFlush(t)
         \/ CommitDurable(t) \/ CommitCheckpoint(t) \/ CommitEmpty(t) \/ CommitLower(t)
         \/ CommitError(t)
  PROVE  CommitStep(t)
<1> USE DEF bcVars, callVars, ejVars, hookVars, opVars, mountVars, hVars
<1>1. CASE CommitLowered(t)
  <2>1. Top(t).pc \in CommitIn BY <1>1 DEF CommitLowered, At, CommitIn
  <2> QED BY <1>1, <2>1 DEF CommitLowered, CommitStep, At
<1>2. CASE CommitRaise(t)
  <2>1. Top(t).pc \in CommitIn /\ "descriptor" \in CommitIn BY <1>2 DEF CommitRaise, At, CommitIn
  <2> QED BY <1>2, <2>1 DEF CommitRaise, CommitStep, At
<1>3. CASE CommitRaised(t)
  <2>1. Top(t).pc \in CommitIn /\ "descriptor" \in CommitIn BY <1>3 DEF CommitRaised, At, CommitIn
  <2> QED BY <1>3, <2>1 DEF CommitRaised, CommitStep, At
<1>4. CASE CommitDescriptor(t)
  <2>1. Top(t).pc \in CommitIn /\ "descriptorFlush" \in CommitIn BY <1>4 DEF CommitDescriptor, At, CommitIn
  <2> QED BY <1>4, <2>1 DEF CommitDescriptor, CommitStep, At
<1>5. CASE CommitData(t)
  <2>1. Top(t).pc \in CommitIn /\ "dataFlush" \in CommitIn BY <1>5 DEF CommitData, At, CommitIn
  <2> QED BY <1>5, <2>1 DEF CommitData, CommitStep, At
<1>6. CASE CommitStart(t)
  <2>1. Top(t).pc \in CommitIn /\ "startFlush" \in CommitIn BY <1>6 DEF CommitStart, At, CommitIn
  <2> QED BY <1>6, <2>1 DEF CommitStart, CommitStep, At
<1>7. CASE CommitBlock(t)
  <2>1. Top(t).pc \in CommitIn /\ "blockFlush" \in CommitIn BY <1>7 DEF CommitBlock, At, CommitIn
  <2> QED BY <1>7, <2>1 DEF CommitBlock, CommitStep, At
<1>8. CASE CommitFlush(t)
  <2>1. \E l \in CommitIn : Goto(t, l) BY <1>8 DEF CommitFlush, CommitIn
  <2>2. stack[t] # <<>> /\ Top(t).pc \in CommitIn BY <1>8 DEF CommitFlush, At, CommitIn
  <2> QED BY <1>8, <2>1, <2>2 DEF CommitFlush, CommitStep
<1>9. CASE CommitDurable(t)
  <2>1. Top(t).pc \in CommitIn /\ "checkpoint" \in CommitIn BY <1>9 DEF CommitDurable, At, CommitIn
  <2> QED BY <1>9, <2>1 DEF CommitDurable, CommitStep, At
<1>10. CASE CommitCheckpoint(t)
  <2>1. Top(t).pc \in CommitIn BY <1>10 DEF CommitCheckpoint, At, CommitIn
  <2> QED BY <1>10, <2>1 DEF CommitCheckpoint, CommitStep, At
<1>11. CASE CommitEmpty(t)
  <2>1. Top(t).pc \in CommitIn /\ "emptyFlush" \in CommitIn BY <1>11 DEF CommitEmpty, At, CommitIn
  <2> QED BY <1>11, <2>1 DEF CommitEmpty, CommitStep, At
<1>12. CASE CommitLower(t)
  <2>1. Top(t).pc \in CommitIn BY <1>12 DEF CommitLower, At, CommitIn
  <2> QED BY <1>12, <2>1 DEF CommitLower, CommitStep, At
<1>13. CASE CommitError(t)
  <2>1. stack[t] # <<>> /\ Top(t).pc \in CommitIn BY <1>13 DEF CommitError, At, CommitIn
  <2> QED BY <1>13, <2>1 DEF CommitError, CommitStep, DevError
<1> QED BY <1>1, <1>2, <1>3, <1>4, <1>5, <1>6, <1>7, <1>8, <1>9, <1>10, <1>11, <1>12, <1>13

\* ext4_journal_commit() keeps the control state well formed.
LEMMA BaseCommit ==
  ASSUME StorageType, ControlType, Shape, Locking, NEW t \in Callers,
         \/ CommitLowered(t) \/ CommitRaise(t) \/ CommitRaised(t) \/ CommitDescriptor(t)
         \/ CommitData(t) \/ CommitStart(t) \/ CommitBlock(t) \/ CommitFlush(t)
         \/ CommitDurable(t) \/ CommitCheckpoint(t) \/ CommitEmpty(t) \/ CommitLower(t)
         \/ CommitError(t)
  PROVE  ControlType' /\ Shape' /\ Locking'
<1> USE DEF bcVars, callVars, ejVars, hookVars, opVars, mountVars, hVars
<1>1. CommitStep(t) /\ UNCHANGED <<phase, op, writing, hist, hookDepth, tmp, rec>>
  BY CommitSteps DEF CommitStep
<1>2. /\ Shape' /\ Locking' /\ stack' \in [Callers -> Seq(Frames)]
      /\ ok' \in [Callers -> BOOLEAN] /\ stable' \in [Meta -> Versions]
      /\ lock' \in [owner : Callers \cup {NoTask, "op"}, depth : Nat]
  BY <1>1, CommitControl
<1>3. /\ quarantined' \in BOOLEAN /\ mishaps' \in 0..MaxMishaps /\ faults' \in 0..mishaps'
      /\ evicting' = evicting /\ torn' = torn
  <2>1. UNCHANGED <<quarantined, evicting, torn>> /\ (UNCHANGED <<mishaps, faults>> \/ Fault)
    BY DEF CommitLowered, CommitRaise, CommitRaised, CommitDescriptor, CommitData, CommitStart,
           CommitBlock, CommitFlush, CommitDurable, CommitCheckpoint, CommitEmpty, CommitLower,
           CommitError, DevWrite, DevFlush, DevError
  <2> QED BY <2>1, Mishaps DEF ControlType
<1>4. Versions' = Versions
  BY <1>1 DEF Versions
<1>5. /\ tx' \in Seq(Homes) /\ Len(tx') <= TxCapacity /\ recover_flag' \in BOOLEAN
      /\ exposed' = exposed
  <2>1. tx' = tx \/ tx' = <<>>
    BY DEF CommitLowered, CommitRaise, CommitRaised, CommitDescriptor, CommitData, CommitStart,
           CommitBlock, CommitFlush, CommitDurable, CommitCheckpoint, CommitEmpty, CommitLower,
           CommitError
  <2>2. exposed' = exposed /\ (recover_flag' = recover_flag \/ recover_flag' \in BOOLEAN)
    <3>1. CASE CommitLowered(t)
      BY <3>1 DEF CommitLowered, ControlType
    <3>2. CASE CommitRaised(t)
      BY <3>2 DEF CommitRaised, ControlType
    <3>3. CASE ~CommitLowered(t) /\ ~CommitRaised(t)
      BY <3>3 DEF CommitRaise, CommitDescriptor, CommitData, CommitStart, CommitBlock,
           CommitFlush, CommitDurable, CommitCheckpoint, CommitEmpty, CommitLower, CommitError
    <3> QED BY <3>1, <3>2, <3>3
  <2>3. tx' \in Seq(Homes) /\ Len(tx') <= TxCapacity
    <3>1. CASE tx' = tx
      BY <3>1 DEF ControlType
    <3>2. CASE tx' = <<>>
      BY <3>2, Nil, PageKinds
    <3> QED BY <2>1, <3>1, <3>2
  <2> QED BY <2>2, <2>3 DEF ControlType
<1>6. /\ head' \in 1..LogLen /\ seq' \in Nat \ {0}
      /\ logged' \in [Meta -> Versions] /\ attempts' \subseteq [Meta -> Versions]
  <2>1. CASE CommitDurable(t)
    <3>1. tx \in Seq(Homes) /\ Len(tx) <= TxCapacity /\ head \in 1..LogLen
      BY DEF ControlType
    <3>2. Len(tx) + 2 \in 0..LogLen
      BY <3>1, PageKinds
    <3>3. head' \in 1..LogLen
      BY <2>1, <3>1, <3>2, Advance DEF CommitDurable
    <3> QED BY <2>1, <3>3, ImageType DEF CommitDurable, ControlType
  <2>2. CASE ~CommitDurable(t)
    <3>1. /\ UNCHANGED <<head, seq, logged>>
          /\ attempts' = attempts \/ attempts' = attempts \cup {TxImage}
      BY <2>2 DEF CommitLowered, CommitRaise, CommitRaised, CommitDescriptor, CommitData, CommitStart,
           CommitBlock, CommitFlush, CommitCheckpoint, CommitEmpty, CommitLower,
           CommitError
    <3> QED BY <3>1, ImageType DEF ControlType
  <2> QED BY <2>1, <2>2
<1>7. ControlType'
  BY <1>1, <1>2, <1>3, <1>4, <1>5, <1>6 DEF ControlType
<1> QED BY <1>2, <1>7

\* So does its entry, which takes ej->lock.
LEMMA BaseBegin ==
  ASSUME ControlType, Shape, Locking, NEW t \in Callers, CommitBegin(t)
  PROVE  ControlType' /\ Shape' /\ Locking'
<1> USE DEF bcVars, callVars, ejVars, hookVars, opVars, mountVars, hVars
<1>1. /\ stack[t] # <<>> /\ Top(t).pc = "commit" /\ lock.owner \in {NoTask, t}
      /\ UNCHANGED <<op, writing, phase, hist>>
  BY DEF CommitBegin, At
<1>2. "commit" \in CommitPcs /\ "commit" \notin CommitIn
  BY DEF CommitPcs, CommitIn
<1>3. CASE tx = <<>> /\ ~recover_flag
  <2>1. Return(t, TRUE) /\ UNCHANGED <<lock, stable>>
    BY <1>3 DEF CommitBegin
  <2>2. /\ Shape' /\ stack' \in [Callers -> Seq(Frames)] /\ ok' \in [Callers -> BOOLEAN]
        /\ \A u \in Callers : Inside(u)' = Inside(u)
    BY <1>1, <1>2, <2>1, Leave
  <2>3. Locking'
    BY <1>1, <2>1, <2>2, LockSame
  <2>4. ControlType'
    BY <2>1, <2>2 DEF CommitBegin, ControlType, Versions
  <2> QED BY <2>2, <2>3, <2>4
<1>4. CASE ~(tx = <<>> /\ ~recover_flag)
  <2>1. PICK l \in {"lowered", "dataHome"} : Call(t, l, Sync("ALL")) /\ lock' = Locked(t) /\ UNCHANGED <<ok, stable>>
    BY <1>4 DEF CommitBegin
  <2>2. /\ Shape' /\ stack' \in [Callers -> Seq(Frames)]
        /\ \A u \in Callers \ {t} : Inside(u)' = Inside(u)
        /\ Inside(t)' = Inside(t) \cup {Len(stack[t])}
        /\ Len(stack[t]) \notin Inside(t)
    <3>1. l \in {"dataHome", "raised", "lowered"}
      BY <2>1
    <3> HIDE <2>1
    <3>2. Call(t, l, Sync("ALL"))
      BY <2>1
    <3> QED BY <1>1, <1>2, <3>1, <3>2, CommitSyncs
  <2>3. Locking' /\ lock' \in [owner : Callers \cup {NoTask, "op"}, depth : Nat]
    BY <1>1, <2>1, <2>2, LockTake
  <2>4. ControlType'
    BY <2>1, <2>2, <2>3 DEF CommitBegin, ControlType, Versions
  <2> QED BY <2>2, <2>3, <2>4
<1> QED BY <1>3, <1>4

\* sync(), fsync() and umount() keep the control state well formed.
LEMMA BaseCall ==
  ASSUME ControlType, Shape, Locking, NEW t \in Callers,
         SyncCall(t) \/ FsyncStep(t) \/ UnmountCommit(t) \/ UnmountSync(t) \/ Closed(t)
  PROVE  ControlType' /\ Shape' /\ Locking'
<1> USE DEF bcVars, callVars, ejVars, hookVars, opVars, mountVars, hVars
<1>0. /\ Sync("ALL") \in Frames /\ Sync("ALL").pc = "sync" /\ Sync("ALL").mode = "ALL"
      /\ Sync("SCOPED") \in Frames /\ Sync("SCOPED").pc = "sync"
      /\ CommitCall \in Frames /\ CommitCall.pc = "commit"
      /\ Frame("fsync", "") \in Frames /\ Frame("fsync", "").pc = "fsync"
      /\ Frame("close", "") \in Frames /\ Frame("close", "").pc = "close"
      /\ "commit" \notin CommitIn /\ "sync" \notin CommitIn /\ "fsync" \notin CommitIn
      /\ "close" \notin CommitIn /\ "fsynced" \notin CommitIn /\ "closed" \notin CommitIn
      /\ "fsynced" \in Pcs /\ "closed" \in Pcs
      /\ "commit" \in CommitPcs /\ "sync" \in SyncPcs
  <2>1. Frame("fsync", "") \in Frames /\ Frame("close", "") \in Frames
    BY DEF Frame, Frames, Pcs
  <2> QED BY <2>1, FrameKinds DEF Frame, Pcs, CommitIn, CommitPcs, SyncPcs
<1>1. CASE SyncCall(t)
  <2>1. PICK f \in {Sync("ALL"), Frame("fsync", "")} : stack' = [stack EXCEPT ![t] = <<f>>]
    BY <1>1 DEF SyncCall
  <2>2. phase = "mounted" /\ stack[t] = <<>> /\ UNCHANGED <<phase, lock, op, writing>>
    BY <1>1 DEF SyncCall
  <2>3. f \in Frames /\ f.pc \in {"sync", "fsync"} /\ f.pc \notin CommitIn
    BY <1>0
  <2>4. /\ stack' \in [Callers -> Seq(Frames)]
        /\ stack'[t] # <<>> /\ Len(stack'[t]) = 1 /\ stack'[t][1] = f /\ Inside(t)' = {}
        /\ 1..(Len(stack'[t]) - 1) = {}
        /\ \A u \in Callers \ {t} : stack'[u] = stack[u]
    BY <2>1, <2>3, OneFrame
  <2>5. Stacked(t)'
    <3>1. f.pc \in Entry' /\ ~Alone'
      BY <2>2, <2>3 DEF Entry, SyncPcs, Alone
    <3> QED BY <2>4, <3>1 DEF Stacked
  <2>6. Shape'
    <3>1. \A u \in Callers \ {t} : Stacked(u)'
      BY <2>2, <2>4, EntrySame DEF Shape, Stacked
    <3> QED BY <2>2, <2>5, <3>1 DEF Shape
  <2>7. \A u \in Callers : Inside(u)' = Inside(u)
    <3>1. Inside(t)' = {} /\ Inside(t) = {}
      BY <2>2, <2>4, NoFrames
    <3> QED BY <2>4, <3>1 DEF Inside
  <2>8. Locking'
    BY <2>2, <2>7, LockSame
  <2>9. ControlType'
    BY <1>1, <2>4 DEF SyncCall, ControlType, Versions
  <2> QED BY <2>6, <2>8, <2>9
<1>2. CASE FsyncStep(t)
  <2>1. stack[t] # <<>> /\ Top(t).pc \in {"fsync", "fsynced"} /\ Top(t).pc \notin CommitIn
        /\ UNCHANGED <<phase, lock, op, writing>>
    BY <1>2, <1>0 DEF FsyncStep, At
  <2>2. Len(stack[t]) = 1 /\ phase = "mounted" /\ Top(t).pc \in Entry
    BY <2>1, TopKind DEF SyncPcs, CommitPcs, CommitIn, Entry, MountPcs
  <2>3. \A x : ~CalledBy(x, Top(t))
    BY <2>1 DEF CalledBy, SyncPcs, CommitPcs, CommitIn
  <2>4. /\ Shape' /\ stack' \in [Callers -> Seq(Frames)] /\ ok' \in [Callers -> BOOLEAN]
        /\ \A u \in Callers : Inside(u)' = Inside(u)
    <3>1. CASE Call(t, "fsynced", CommitCall) /\ UNCHANGED ok
      <4>1. CalledBy("fsynced", CommitCall) /\ "fsynced" \in Entry /\ ~Alone
        BY <1>0, <2>2 DEF CalledBy, Entry, Alone
      <4>2. Shape' /\ stack' \in [Callers -> Seq(Frames)]
        BY <1>0, <2>1, <2>2, <2>3, <3>1, <4>1, ShapeCall, CallStack, EntrySame
      <4> QED BY <1>0, <2>1, <3>1, <4>2, InsideCall DEF ControlType
    <3>2. CASE Return(t, FALSE)
      BY <2>1, <3>2, Leave
    <3>3. CASE Become(t, Sync("SCOPED")) /\ UNCHANGED ok
      <4>1. "sync" \in Entry /\ ~Alone
        BY <2>2 DEF Entry, Alone, SyncPcs
      <4>2. Shape' /\ stack' \in [Callers -> Seq(Frames)]
        BY <1>0, <2>1, <2>2, <2>3, <3>3, <4>1, ShapeBecome, BecomeStack
      <4> QED BY <1>0, <2>1, <3>3, <4>2, InsideBecome DEF ControlType
    <3> QED BY <1>2, <3>1, <3>2, <3>3 DEF FsyncStep
  <2>5. Locking'
    BY <2>1, <2>4, LockSame
  <2>6. ControlType'
    BY <1>2, <2>4 DEF FsyncStep, ControlType, Versions
  <2> QED BY <2>4, <2>5, <2>6
<1>3. CASE UnmountCommit(t)
  <2>1. /\ phase = "mounted" /\ op = <<>> /\ \A u \in Callers : stack[u] = <<>>
        /\ phase' = "closing" /\ UNCHANGED <<lock, op, writing>>
        /\ stack' = [stack EXCEPT ![t] = <<Frame("close", ""), CommitCall>>]
    BY <1>3 DEF UnmountCommit
  <2>2. /\ stack' \in [Callers -> Seq(Frames)]
        /\ Len(stack'[t]) = 2 /\ stack'[t][1] = Frame("close", "") /\ stack'[t][2] = CommitCall
        /\ stack'[t] # <<>> /\ Inside(t)' = {} /\ 1..(Len(stack'[t]) - 1) = {1}
        /\ \A u \in Callers \ {t} : stack'[u] = <<>>
    <3> DEFINE f == Frame("close", "")
    <3>1. f \in Frames /\ f.pc \notin CommitIn /\ CommitCall.pc \notin CommitIn
      BY <1>0
    <3>2. stack' = [stack EXCEPT ![t] = <<f, CommitCall>>]
      BY <2>1
    <3> HIDE DEF f
    <3>3. /\ stack' \in [Callers -> Seq(Frames)] /\ stack'[t] # <<>>
          /\ Len(stack'[t]) = 2 /\ stack'[t][1] = f /\ stack'[t][2] = CommitCall
          /\ \A u \in Callers \ {t} : stack'[u] = stack[u]
          /\ Inside(t)' = {} /\ 1..(Len(stack'[t]) - 1) = {1}
      BY <1>0, <3>1, <3>2, TwoFrames
    <3> QED BY <2>1, <3>3 DEF f
  <2>3. Stacked(t)'
    <3>1. "close" \in Entry' /\ ~Alone' /\ CalledBy("close", CommitCall)
      BY <1>0, <2>1 DEF Entry, Alone, CalledBy
    <3>2. stack'[t][1].pc = "close" /\ stack'[t][1 + 1] = CommitCall
      <4>1. stack'[t][1].pc = "close"
        BY <1>0, <2>2
      <4>2. 1 + 1 = 2
        OBVIOUS
      <4> QED BY <2>2, <4>1, <4>2
    <3>3. \A k \in 1..(Len(stack'[t]) - 1) : CalledBy(stack'[t][k].pc, stack'[t][k + 1])
      BY <2>2, <3>1, <3>2
    <3> QED BY <2>2, <3>1, <3>2, <3>3 DEF Stacked, CalledBy
  <2>4. Shape'
    BY <2>2, <2>3 DEF Shape, Stacked
  <2>5. \A u \in Callers : Inside(u)' = Inside(u)
    <3>1. \A u \in Callers : Inside(u) = {}
      BY <2>1, NoFrames
    <3>2. \A u \in Callers \ {t} : Inside(u)' = Inside(u)
      BY <2>1, <2>2 DEF Inside
    <3> QED BY <2>2, <3>1, <3>2
  <2>6. Locking'
    BY <2>1, <2>5 DEF Locking
  <2>7. ControlType'
    BY <1>3, <2>2 DEF UnmountCommit, ControlType, Versions
  <2> QED BY <2>4, <2>6, <2>7
<1>4. CASE UnmountSync(t)
  <2>1. stack[t] # <<>> /\ Top(t).pc = "close" /\ phase' = "unmounting"
        /\ UNCHANGED <<lock, op, writing>> /\ Call(t, "closed", Sync("ALL"))
    BY <1>4 DEF UnmountSync, At
  <2>2. Len(stack[t]) = 1 /\ phase = "closing"
    BY <2>1, TopKind DEF SyncPcs, CommitPcs, CommitIn, Entry, MountPcs
  <2>3. \A x : ~CalledBy(x, Top(t))
    BY <2>1 DEF CalledBy, SyncPcs, CommitPcs, CommitIn
  <2>4. CalledBy("closed", Sync("ALL")) /\ "closed" \in Entry'
    BY <1>0, <2>1 DEF CalledBy, Entry
  <2>5. \A u \in Callers \ {t} : stack[u] = <<>>
    BY <2>1, <2>2 DEF Shape
  <2>6. Shape' /\ stack' \in [Callers -> Seq(Frames)]
    BY <1>0, <2>1, <2>2, <2>3, <2>4, <2>5, ShapeCall, CallStack
  <2>7. \A u \in Callers : Inside(u)' = Inside(u)
    BY <1>0, <2>1, InsideCall
  <2>8. Locking'
    BY <2>1, <2>2, <2>7 DEF Locking
  <2>9. ControlType'
    BY <1>4, <2>6 DEF UnmountSync, ControlType, Versions
  <2> QED BY <2>6, <2>8, <2>9
<1>5. CASE Closed(t)
  <2>1. stack[t] # <<>> /\ Top(t).pc = "closed" /\ UNCHANGED <<lock, op, writing>>
        /\ stack' = [stack EXCEPT ![t] = <<>>] /\ phase' = "off"
    BY <1>5 DEF Closed, At, Forget
  <2>2. Len(stack[t]) = 1 /\ phase \in {"unmounting", "refused"}
    BY <2>1, TopKind DEF SyncPcs, CommitPcs, CommitIn, Entry, MountPcs
  <2>3. \A u \in Callers \ {t} : stack[u] = <<>>
    BY <2>1, <2>2 DEF Shape
  <2>4. stack' \in [Callers -> Seq(Frames)] /\ \A u \in Callers : stack'[u] = <<>>
    BY <2>1, <2>3 DEF ControlType
  <2>5. Shape'
    BY <2>4 DEF Shape, Stacked
  <2>6. \A u \in Callers : Inside(u)' = {}
    BY <2>4, Nil DEF Inside
  <2>7. \A u \in Callers : Inside(u) = {}
    <3>1. Inside(t) = {}
      <4>1. stack[t] \in Seq(Frames) /\ DOMAIN stack[t] = 1..Len(stack[t])
        BY DEF ControlType
      <4>2. \A k \in DOMAIN stack[t] : k = Len(stack[t])
        BY <2>2, <4>1
      <4> QED BY <1>0, <2>1, <4>2 DEF Inside, Top
    <3> QED BY <2>3, <3>1, NoFrames
  <2>8. Locking'
    BY <2>1, <2>2, <2>6, <2>7 DEF Locking
  <2>9. ControlType'
    <3>1. /\ tx' = <<>> /\ recover_flag' = FALSE /\ head' = 1 /\ hookDepth' = 0
          /\ tmp' = [u \in Callers |-> 0] /\ ok' = [u \in Callers |-> TRUE]
          /\ rec' = NoRec /\ quarantined' = FALSE /\ evicting' = {}
          /\ UNCHANGED <<opVars, faults, mishaps, lock, seq, hist, logged, attempts, stable, torn>>
      BY <1>5 DEF Closed, Forget
    <3>5. phase' \in {"off", "mounting", "mounted", "closing", "unmounting", "refused"}
      BY <2>1
    <3>6. hookDepth' \in Int /\ tmp' \in [Callers -> Int] /\ ok' \in [Callers -> BOOLEAN]
      BY <3>1
    <3>2. NoRec \in [seq : Nat, head : 0..LogLen, tid : Nat, at : 0..LogLen, faults : Nat]
      BY PageKinds DEF NoRec
    <3>3. exposed' \in BOOLEAN
      BY <1>5 DEF Closed, ControlType
    <3>4. tx' \in Seq(Homes) /\ Len(tx') <= TxCapacity /\ head' \in 1..LogLen
      BY <3>1, PageKinds, Nil
    <3> QED BY <2>1, <2>4, <3>1, <3>2, <3>3, <3>4, <3>5, <3>6 DEF ControlType, Versions
  <2> QED BY <2>5, <2>8, <2>9
<1> QED BY <1>1, <1>2, <1>3, <1>4, <1>5

\* A transaction found in the log: its descriptor is well formed.
LEMMA TxType ==
  ASSUME StorageType, NEW m \in Survivors, NEW n \in 1..LogLen, NEW s, TxAt(m, n, s)
  PROVE  LET d == m[LogPage(n)] IN
         /\ d.tags \in Seq(Homes) /\ Len(d.tags) \in 1..TxCapacity
         /\ d.sums \in [1..Len(d.tags) -> HomePage]
         /\ DOMAIN d.tags = 1..Len(d.tags)
         /\ Past(m, n) \in 1..LogLen
         /\ \A p \in Range(d.tags) : p \in Homes /\ Logged(d, p) \in HomePage
<1> DEFINE d == m[LogPage(n)]
<1>1. LogPage(n) \in LogPages \ {JSB} /\ LogPage(n) \in Pages
  BY PageKinds
<1>2. PageOK(LogPage(n), d)
  BY <1>1, SurvivorType
<1>3. d.type = "descriptor" /\ d.tags # <<>>
  BY DEF TxAt
<1>4. /\ d.tags \in Seq(Homes) /\ Len(d.tags) <= TxCapacity
      /\ d.sums \in [1..Len(d.tags) -> HomePage]
  BY <1>1, <1>2, <1>3 DEF PageOK, IsLogBlock
<1> HIDE DEF d
<1>5. Len(d.tags) \in Nat \ {0} /\ DOMAIN d.tags = 1..Len(d.tags)
  BY <1>3, <1>4
<1>6. Len(d.tags) + 2 \in 0..LogLen /\ Len(d.tags) \in 1..TxCapacity
  BY <1>4, <1>5, PageKinds
<1>7. Past(m, n) \in 1..LogLen
  BY <1>6, Advance DEF Past, d
<1>8. ASSUME NEW p \in Range(d.tags)
      PROVE  p \in Homes /\ Logged(d, p) \in HomePage
  <2>1. \E i \in DOMAIN d.tags : d.tags[i] = p
    BY DEF Range
  <2>2. (CHOOSE i \in DOMAIN d.tags : d.tags[i] = p) \in DOMAIN d.tags
    BY <2>1
  <2> QED BY <1>4, <1>5, <2>1, <2>2 DEF Logged
<1> QED BY <1>4, <1>5, <1>6, <1>7, <1>8 DEF d

\* Recovery's position stays typed when its fields move.
LEMMA RecType ==
  ASSUME NEW r \in [seq : Nat, head : 0..LogLen, tid : Nat, at : 0..LogLen, faults : Nat],
         NEW s \in Nat, NEW i \in Nat, NEW h \in 0..LogLen, NEW a \in 0..LogLen
  PROVE  /\ [r EXCEPT !.seq = s, !.tid = i, !.at = a, !.head = h]
              \in [seq : Nat, head : 0..LogLen, tid : Nat, at : 0..LogLen, faults : Nat]
         /\ [r EXCEPT !.seq = s, !.head = h]
              \in [seq : Nat, head : 0..LogLen, tid : Nat, at : 0..LogLen, faults : Nat]
         /\ [r EXCEPT !.tid = i, !.at = a]
              \in [seq : Nat, head : 0..LogLen, tid : Nat, at : 0..LogLen, faults : Nat]
         /\ [r EXCEPT !.faults = s]
              \in [seq : Nat, head : 0..LogLen, tid : Nat, at : 0..LogLen, faults : Nat]
OBVIOUS

\* A mount that is refused goes on to the sync of its cache.
LEMMA RefuseControl ==
  ASSUME ControlType, Shape, Locking, NEW t \in Callers, stack[t] # <<>>,
         Top(t).pc \in MountPcs, Refuse(t), UNCHANGED <<lock, op, writing>>
  PROVE  /\ Shape' /\ Locking' /\ stack' \in [Callers -> Seq(Frames)]
         /\ phase = "mounting" /\ phase' = "refused"
<1>1. phase' = "refused" /\ Call(t, "closed", Sync("ALL"))
  BY DEF Refuse
<1>2. Len(stack[t]) = 1 /\ phase = "mounting"
  BY TopKind, PcStrings DEF Entry, SyncPcs, MountPcs
<1>3. \A u \in Callers \ {t} : stack[u] = <<>>
  BY <1>2 DEF Shape
<1>4. /\ Sync("ALL") \in Frames /\ Sync("ALL").pc = "sync" /\ "closed" \in Pcs /\ "closed" \in Entry'
      /\ CalledBy("closed", Sync("ALL")) /\ "sync" \notin CommitIn /\ "closed" \notin CommitIn
      /\ Top(t).pc \notin CommitIn
  BY <1>1, FrameKinds DEF Pcs, Entry, CalledBy, SyncPcs, CommitIn, MountPcs
<1>5. \A x : ~CalledBy(x, Top(t))
  BY DEF CalledBy, SyncPcs, CommitPcs, CommitIn, MountPcs
<1>6. Shape' /\ stack' \in [Callers -> Seq(Frames)]
  BY <1>1, <1>2, <1>3, <1>4, <1>5, ShapeCall, CallStack
<1>7. \A u \in Callers : Inside(u)' = Inside(u)
  BY <1>1, <1>4, InsideCall
<1>8. Locking'
  BY <1>1, <1>2, <1>7 DEF Locking
<1> QED BY <1>1, <1>2, <1>6, <1>8

\* Mount and recovery keep the control state well formed.
LEMMA BaseMount ==
  ASSUME StorageType, ControlType, Shape, Locking, Scanning, NEW t \in Callers,
         \A u \in Callers : phase = "off" => stack[u] = <<>>,
         Mount(t) \/ Recover(t) \/ ScanPass(t) \/ ReplayPass(t) \/ RecoverDefer(t)
           \/ RecoverEmpty(t) \/ MountError(t) \/ Open(t)
  PROVE  ControlType' /\ Shape' /\ Locking'
<1> USE DEF bcVars, callVars, ejVars, hookVars, opVars, mountVars, hVars
<1>0. Dev(JSB) \in SuperBlock /\ bcache_read_bytes(JSB) \in SuperBlock
  BY DevType, PageKinds DEF PageOK
<1>1. CASE Mount(t)
  <2> DEFINE f == Frame(IF Dev(SB).rec \/ Dev(JSB).start # 0 THEN "recover" ELSE "open", "")
  <2>1. /\ phase = "off" /\ phase' = "mounting" /\ stack' = [stack EXCEPT ![t] = <<f>>]
        /\ UNCHANGED <<lock, op, writing>>
    BY <1>1 DEF Mount
  <2>2. f \in Frames /\ f.pc \in {"recover", "open"} /\ f.pc \notin CommitIn
    BY DEF Frame, Frames, Pcs, MountPcs, CommitIn
  <2> HIDE DEF f
  <2>3. \A u \in Callers : stack[u] = <<>>
    BY <2>1
  <2>4. /\ stack' \in [Callers -> Seq(Frames)] /\ Len(stack'[t]) = 1 /\ stack'[t][1] = f
        /\ 1..(Len(stack'[t]) - 1) = {} /\ Inside(t)' = {}
        /\ \A u \in Callers \ {t} : stack'[u] = <<>>
    BY <2>1, <2>2, <2>3, OneFrame
  <2>5. Stacked(t)'
    <3>1. f.pc \in Entry'
      BY <2>1, <2>2 DEF Entry, MountPcs
    <3> QED BY <2>4, <3>1 DEF Stacked
  <2>6. Shape'
    BY <2>4, <2>5 DEF Shape, Stacked
  <2>7. \A u \in Callers : Inside(u)' = Inside(u)
    <3>1. \A u \in Callers : Inside(u) = {}
      BY <2>3, NoFrames
    <3>2. \A u \in Callers \ {t} : Inside(u)' = Inside(u)
      BY <2>3, <2>4 DEF Inside
    <3> QED BY <2>4, <3>1, <3>2
  <2>8. Locking'
    BY <2>1, <2>7 DEF Locking
  <2>9. rec' \in [seq : Nat, head : 0..LogLen, tid : Nat, at : 0..LogLen, faults : Nat]
    <3>1. NoRec \in [seq : Nat, head : 0..LogLen, tid : Nat, at : 0..LogLen, faults : Nat]
      BY PageKinds DEF NoRec
    <3>2. faults \in Nat /\ 0 \in Nat /\ 0 \in 0..LogLen
      BY Mishaps, PageKinds
    <3>3. rec' = [NoRec EXCEPT !.faults = faults]
      BY <1>1 DEF Mount
    <3> QED BY <3>1, <3>2, <3>3, RecType
  <2> QED BY <1>1, <2>4, <2>6, <2>8, <2>9 DEF Mount, ControlType, Versions
<1>2. ASSUME Recover(t) \/ ScanPass(t) \/ ReplayPass(t) \/ RecoverDefer(t) \/ RecoverEmpty(t)
      PROVE  ControlType' /\ Shape' /\ Locking'
  <2>1. /\ stack[t] # <<>> /\ Top(t).pc \in MountPcs
        /\ UNCHANGED <<phase, lock, op, writing, evicting, quarantined, ok, tx, recover_flag,
                       head, seq, hookDepth, tmp, hist, logged, stable, attempts, exposed>>
        /\ torn' \in BOOLEAN
        /\ UNCHANGED <<mishaps, faults>> \/ Fault
    BY <1>2 DEF Recover, ScanPass, ReplayPass, RecoverDefer, RecoverEmpty, DevError, At, MountPcs, ControlType
  <2>2. /\ Shape' /\ stack' \in [Callers -> Seq(Frames)]
        /\ \A u \in Callers : Inside(u)' = Inside(u)
    <3>1. \/ \E l \in MountPcs : Goto(t, l)
          \/ \E l \in {"replayed", "emptied", "open"} : l \in MountPcs /\ Call(t, l, Sync("ALL"))
          \/ UNCHANGED stack
      BY <1>2 DEF Recover, ScanPass, ReplayPass, RecoverDefer, RecoverEmpty, MountPcs
    <3>2. CASE UNCHANGED stack
      BY <2>1, <3>2, EntrySame DEF Shape, Stacked, Inside, ControlType
    <3> QED BY <2>1, <3>1, <3>2, MountMove
  <2>3. Locking'
    BY <2>1, <2>2, LockSame
  <2>4. Len(stack[t]) = 1 /\ phase = "mounting" /\ Top(t) = stack[t][1]
    BY <2>1, TopKind, PcStrings DEF Entry, SyncPcs, MountPcs
  <2>5. rec' \in [seq : Nat, head : 0..LogLen, tid : Nat, at : 0..LogLen, faults : Nat]
    <3>0. rec \in [seq : Nat, head : 0..LogLen, tid : Nat, at : 0..LogLen, faults : Nat]
      BY DEF ControlType
    <3>1. CASE Recover(t)
      <4>1. rec' = [rec EXCEPT !.seq = bcache_read_bytes(JSB).seq, !.tid = bcache_read_bytes(JSB).seq,
                       !.at = bcache_read_bytes(JSB).start,
                       !.head = IF bcache_read_bytes(JSB).start = 0 THEN bcache_read_bytes(JSB).head
                                ELSE bcache_read_bytes(JSB).start]
        BY <3>1 DEF Recover
      <4>2. bcache_read_bytes(JSB).seq \in Nat /\ bcache_read_bytes(JSB).start \in 0..LogLen
            /\ bcache_read_bytes(JSB).head \in 0..LogLen
        BY <1>0, PageKinds DEF SuperBlock
      <4> DEFINE h == IF bcache_read_bytes(JSB).start = 0 THEN bcache_read_bytes(JSB).head
                                ELSE bcache_read_bytes(JSB).start
      <4>3. h \in 0..LogLen
        BY <4>2
      <4> HIDE DEF h
      <4>4. rec' = [rec EXCEPT !.seq = bcache_read_bytes(JSB).seq, !.tid = bcache_read_bytes(JSB).seq,
                       !.at = bcache_read_bytes(JSB).start, !.head = h]
        BY <4>1 DEF h
      <4> QED BY <3>0, <4>2, <4>3, <4>4, RecType
    <3>2. CASE ScanPass(t)
      <4>1. CASE UNCHANGED rec
        BY <3>0, <4>1
      <4>2. CASE TxAt(Device, rec.head, rec.seq) /\ rec' = [rec EXCEPT !.seq = @ + 1, !.head = Past(Device, @)]
        <5>1. Bottom(t, "scan")
          BY <2>4, <3>2 DEF ScanPass, At, Bottom
        <5>2. rec.head \in 1..LogLen
          <6>1. Dev(JSB).start \in 1..LogLen /\ Device[JSB] = Dev(JSB)
            BY <1>0, <2>4, <5>1, DeviceSurvives, PageKinds DEF Scanning, SuperBlock
          <6>2. HasTx(Device) => Past(Device, Dev(JSB).start) \in 1..LogLen
            BY <6>1, TxType, DeviceSurvives DEF HasTx
          <6> QED BY <2>4, <5>1, <6>1, <6>2 DEF Scanning
        <5>3. Past(Device, rec.head) \in 1..LogLen
          BY <4>2, <5>2, TxType, DeviceSurvives
        <5>4. rec.seq + 1 \in Nat /\ Past(Device, rec.head) \in 0..LogLen
          BY <3>0, <5>3
        <5>5. rec' = [rec EXCEPT !.seq = rec.seq + 1, !.head = Past(Device, rec.head)]
          BY <4>2
        <5> QED BY <3>0, <5>4, <5>5, RecType
      <4> QED BY <3>2, <4>1, <4>2 DEF ScanPass
    <3>3. CASE ReplayPass(t)
      <4>1. CASE UNCHANGED rec
        BY <3>0, <4>1
      <4>2. CASE rec.tid # rec.seq /\ rec' = [rec EXCEPT !.tid = @ + 1, !.at = Past(Device, @)]
        <5>1. Bottom(t, "replay")
          BY <2>4, <3>3 DEF ReplayPass, At, Bottom
        <5>2. HasTx(Device) /\ rec.at = Dev(JSB).start /\ Dev(JSB).start \in 1..LogLen
          BY <1>0, <2>4, <4>2, <5>1, DeviceSurvives, PageKinds DEF Scanning, SuperBlock
        <5>3. Past(Device, rec.at) \in 1..LogLen
          BY <5>2, TxType, DeviceSurvives, PageKinds DEF HasTx
        <5>4. rec.tid + 1 \in Nat /\ Past(Device, rec.at) \in 0..LogLen
          BY <3>0, <5>3
        <5>5. rec' = [rec EXCEPT !.tid = rec.tid + 1, !.at = Past(Device, rec.at)]
          BY <4>2
        <5> QED BY <3>0, <5>4, <5>5, RecType
      <4> QED BY <3>3, <4>1, <4>2 DEF ReplayPass
    <3>4. CASE RecoverDefer(t) \/ RecoverEmpty(t)
      BY <3>0, <3>4 DEF RecoverDefer, RecoverEmpty
    <3> QED BY <1>2, <3>1, <3>2, <3>3, <3>4
  <2>6. ControlType'
    <3>1. Versions' = Versions
      BY <2>1 DEF Versions
    <3>2. mishaps' \in 0..MaxMishaps /\ faults' \in 0..mishaps'
      BY <2>1, Mishaps
    <3> QED BY <2>1, <2>2, <2>5, <3>1, <3>2 DEF ControlType
  <2> QED BY <2>2, <2>3, <2>6
<1>3. CASE Open(t)
  <2>1. stack[t] # <<>> /\ Top(t).pc = "open" /\ UNCHANGED <<lock, op, writing>>
    BY <1>3 DEF Open, At
  <2>2. Len(stack[t]) = 1 /\ phase = "mounting"
    BY <2>1, TopKind DEF SyncPcs, CommitPcs, CommitIn, Entry, MountPcs
  <2>3. \A u \in Callers \ {t} : stack[u] = <<>>
    BY <2>1, <2>2 DEF Shape
  <2>4. CASE bcache_read_bytes(JSB).start # 0
    <3>1. Refuse(t) /\ "open" \in MountPcs /\ UNCHANGED <<ok, rec, head, seq, logged, attempts>>
      BY <1>3, <2>4 DEF Open, MountPcs
    <3>2. Shape' /\ Locking' /\ stack' \in [Callers -> Seq(Frames)] /\ phase' = "refused"
      BY <2>1, <3>1, RefuseControl
    <3>3. ControlType'
      BY <1>3, <3>1, <3>2 DEF Open, ControlType, Versions
    <3> QED BY <3>2, <3>3
  <2>5. CASE ~(bcache_read_bytes(JSB).start # 0)
    <3>1. /\ phase' = "mounted" /\ Return(t, TRUE) /\ rec' = NoRec /\ head' = bcache_read_bytes(JSB).head
          /\ seq' = bcache_read_bytes(JSB).seq /\ logged' = Image /\ attempts' = {}
      BY <1>3, <2>5 DEF Open
    <3>2. /\ stack' \in [Callers -> Seq(Frames)] /\ ok' \in [Callers -> BOOLEAN]
          /\ \A u \in Callers \ {t} : stack'[u] = stack[u]
          /\ Len(stack'[t]) = Len(stack[t]) - 1
      BY <2>1, <3>1, ReturnStack
    <3>3. stack'[t] = <<>>
      <4>1. stack'[t] \in Seq(Frames) /\ Len(stack'[t]) = 0
        BY <2>2, <3>2
      <4> QED BY <4>1
    <3>4. \A u \in Callers : stack'[u] = <<>>
      BY <2>3, <3>2, <3>3
    <3>5. Shape'
      BY <3>4 DEF Shape, Stacked
    <3>6. \A u \in Callers : Inside(u)' = Inside(u)
      <4>1. "open" \notin CommitIn
        BY DEF CommitIn
      <4>2. Inside(t)' = Inside(t) \ {Len(stack[t])} /\ Len(stack[t]) \notin Inside(t)
        BY <2>1, <3>1, <4>1, InsideReturn
      <4>3. \A u \in Callers \ {t} : Inside(u)' = Inside(u)
        BY <3>2 DEF Inside
      <4> QED BY <4>2, <4>3
    <3>7. Locking'
      BY <2>1, <2>2, <3>1, <3>6 DEF Locking
    <3>8. NoRec \in [seq : Nat, head : 0..LogLen, tid : Nat, at : 0..LogLen, faults : Nat]
      BY PageKinds DEF NoRec
    <3>9. head' \in 1..LogLen /\ seq' \in Nat \ {0} /\ logged' \in [Meta -> Versions]
      BY <1>0, <3>1, ImageType DEF SuperBlock
    <3>10. ControlType'
      BY <1>3, <3>1, <3>2, <3>8, <3>9 DEF Open, ControlType, Versions
    <3> QED BY <3>5, <3>7, <3>10
  <2> QED BY <2>4, <2>5
<1>4. CASE MountError(t)
  <2>1. /\ stack[t] # <<>> /\ Top(t).pc \in MountPcs /\ Refuse(t) /\ Fault
        /\ UNCHANGED <<ejVars, hookVars, opVars, hVars, evicting, quarantined, rec, ok>>
    BY <1>4 DEF MountError, At, MountPcs
  <2>2. Shape' /\ Locking' /\ stack' \in [Callers -> Seq(Frames)] /\ phase' = "refused"
    BY <2>1, RefuseControl
  <2>3. mishaps' \in 0..MaxMishaps /\ faults' \in 0..mishaps'
    BY <2>1, Mishaps
  <2>4. ControlType'
    BY <2>1, <2>2, <2>3 DEF ControlType, Versions
  <2> QED BY <2>2, <2>4
<1> QED BY <1>1, <1>2, <1>3, <1>4

\* The first and the other elements of a sequence that has one.
LEMMA HeadTail ==
  ASSUME NEW S, NEW s \in Seq(S), s # <<>>
  PROVE  /\ Len(s) \in Nat \ {0} /\ Head(s) = s[1] /\ s[1] \in S /\ 1 \in DOMAIN s
         /\ Tail(s) \in Seq(S) /\ Len(Tail(s)) = Len(s) - 1 /\ DOMAIN s = 1..Len(s)
         /\ DOMAIN Tail(s) = 1..(Len(s) - 1)
         /\ \A i \in DOMAIN Tail(s) : Tail(s)[i] = s[i + 1] /\ i + 1 \in DOMAIN s
OBVIOUS

\* The file-system operations keep the control state well formed.
LEMMA BaseOps ==
  ASSUME ControlType, Shape, Locking,
         (\E w \in Workloads : OpBegin(w)) \/ DataWrite \/ MetaWrite \/ MetaRecord
  PROVE  ControlType' /\ Shape' /\ Locking'
<1> USE DEF bcVars, callVars, ejVars, hookVars, opVars, mountVars, hVars
<1>0. UNCHANGED <<stack, ok, phase, rec, evicting, quarantined, faults, mishaps, hookDepth, tmp, recover_flag,
                  head, seq, logged, stable, attempts, exposed>>
  BY DEF OpBegin, DataWrite, MetaWrite, MetaRecord
<1>7. torn' \in BOOLEAN
  BY DEF OpBegin, DataWrite, MetaWrite, MetaRecord, ControlType
<1>1. Shape' /\ \A u \in Callers : Inside(u)' = Inside(u)
  BY <1>0, EntrySame DEF Shape, Stacked, Inside
<1>2. "op" \notin Callers /\ NoTask \notin Callers /\ NoTask # "op"
  BY JournalAssumption
<1>3. ASSUME NEW w \in Workloads, OpBegin(w)
      PROVE  ControlType' /\ Locking'
  <2>1. w \in Seq(Seq(Items) \ {<<>>})
    BY JournalAssumption
  <2>2. phase = "mounted" /\ op = <<>> /\ Len(hist) < Len(w) /\ op' = w[Len(hist) + 1]
        /\ hist' = Append(hist, op') /\ UNCHANGED <<lock, tx, writing>>
    BY <1>3 DEF OpBegin
  <2>3. hist \in Seq(Seq(Items)) /\ Len(hist) \in Nat
    BY DEF ControlType
  <2>4. Len(hist) + 1 \in 1..Len(w)
    BY <2>1, <2>2, <2>3
  <2>5. op' \in Seq(Items)
    BY <2>1, <2>2, <2>4
  <2>6. hist' \in Seq(Seq(Items)) /\ Len(hist') = Len(hist) + 1
    BY <2>2, <2>3, <2>5
  <2>7. Versions \subseteq Versions'
    BY <2>3, <2>6 DEF Versions
  <2>8. ~writing /\ ~writing'
    BY <2>2 DEF Locking
  <2>9. Locking'
    BY <1>0, <1>1, <2>2, <2>8 DEF Locking
  <2>10. logged' \in [Meta -> Versions'] /\ stable' \in [Meta -> Versions'] /\ attempts' \subseteq [Meta -> Versions']
    BY <1>0, <2>7 DEF ControlType
  <2> QED BY <1>0, <1>7, <2>2, <2>5, <2>6, <2>9, <2>10 DEF ControlType
<1>4. CASE DataWrite
  <2>1. op # <<>> /\ op' = Tail(op) /\ UNCHANGED <<lock, tx, writing, hist>> /\ Head(op) = Data
    BY <1>4 DEF DataWrite
  <2>2. op \in Seq(Items) /\ op' \in Seq(Items)
    BY <2>1, HeadTail DEF ControlType
  <2>3. ~writing
    BY <2>1, PageKinds DEF Locking
  <2>4. Locking'
    BY <1>0, <1>1, <2>1, <2>3 DEF Locking
  <2> QED BY <1>0, <1>1, <1>7, <2>1, <2>2, <2>4 DEF ControlType, Versions
<1>5. CASE MetaWrite
  <2>1. /\ op # <<>> /\ Head(op) # Data /\ ~writing /\ lock.owner = NoTask
        /\ lock' = [owner |-> "op", depth |-> 1] /\ writing' = TRUE /\ UNCHANGED <<tx, op, hist>>
    BY <1>5 DEF MetaWrite
  <2>3. \A u \in Callers : Inside(u) = {}
    BY <1>2, <2>1 DEF Locking
  <2>4. lock' \in [owner : Callers \cup {NoTask, "op"}, depth : Nat] /\ lock'.owner = "op" /\ lock'.depth = 1
    BY <2>1
  <2>5. Locking'
    BY <1>0, <1>1, <1>2, <2>1, <2>3, <2>4 DEF Locking
  <2>6. writing' \in BOOLEAN
    BY <2>1
  <2> QED BY <1>0, <1>1, <1>7, <2>1, <2>4, <2>5, <2>6 DEF ControlType, Versions
<1>6. CASE MetaRecord
  <2>1. writing /\ writing' = FALSE /\ lock' = Unlocked /\ UNCHANGED hist
    BY <1>6 DEF MetaRecord
  <2>2. lock.owner = "op" /\ lock.depth = 1 /\ op # <<>> /\ PageOf(Head(op)) \in Homes
    BY <2>1, HeadTail, PageKinds DEF Locking, ControlType
  <2>3. \A u \in Callers : Inside(u) = {}
    BY <1>2, <2>2 DEF Locking
  <2>4. lock' = [owner |-> NoTask, depth |-> 0]
    BY <2>1, <2>2 DEF Unlocked
  <2>5. lock' \in [owner : Callers \cup {NoTask, "op"}, depth : Nat] /\ lock'.owner = NoTask /\ lock'.depth = 0
    BY <2>4
  <2>6. op' \in Seq(Items)
    <3>1. op' = Tail(op) \/ op' = <<>>
      BY <1>6 DEF MetaRecord
    <3>2. Tail(op) \in Seq(Items)
      BY <2>2, HeadTail DEF ControlType
    <3>3. <<>> \in Seq(Items)
      BY Nil
    <3> QED BY <3>1, <3>2, <3>3
  <2>7. tx' \in Seq(Homes) /\ Len(tx') <= TxCapacity
    <3>1. \/ tx' = <<>> \/ tx' = tx
          \/ Len(tx) < TxCapacity /\ tx' = Append(tx, PageOf(Head(op)))
      BY <1>6 DEF MetaRecord
    <3>2. tx \in Seq(Homes) /\ Len(tx) <= TxCapacity
      BY DEF ControlType
    <3>3. CASE tx' = <<>>
      BY <3>3, Nil, PageKinds
    <3>4. CASE Len(tx) < TxCapacity /\ tx' = Append(tx, PageOf(Head(op)))
      BY <2>2, <3>2, <3>4, PageKinds
    <3> QED BY <3>1, <3>2, <3>3, <3>4
  <2>8. Locking'
    <3>1. op' # <<>> => phase' = "mounted"
      BY <1>0, <2>2 DEF Locking
    <3> QED BY <1>0, <1>1, <1>2, <2>1, <2>3, <2>5, <3>1 DEF Locking
  <2>9. writing' \in BOOLEAN
    BY <2>1
  <2> QED BY <1>0, <1>1, <1>7, <2>1, <2>5, <2>6, <2>7, <2>8, <2>9 DEF ControlType, Versions
<1> QED BY <1>1, <1>3, <1>4, <1>5, <1>6

\* So do eviction, the end of a quarantine and a power loss.
LEMMA BaseEnv ==
  ASSUME StorageType, ControlType, Shape, Locking,
         EvictPage \/ EvictDone \/ QuarantinePasses \/ Crash
  PROVE  ControlType' /\ Shape' /\ Locking'
<1> USE DEF bcVars, callVars, ejVars, hookVars, opVars, mountVars, hVars, jVars
<1>1. CASE EvictPage \/ EvictDone \/ QuarantinePasses
  <2>1. UNCHANGED <<stack, ok, lock, tx, recover_flag, head, seq, hookDepth, tmp, op, writing, phase, rec,
                    hist, logged, attempts, stable, torn>>
    BY <1>1 DEF EvictPage, EvictDone, QuarantinePasses
  <2>2. Shape' /\ \A u \in Callers : Inside(u)' = Inside(u)
    BY <2>1, EntrySame DEF Shape, Stacked, Inside
  <2>3. Locking'
    BY <2>1, <2>2, LockSame
  <2>4. quarantined' \in BOOLEAN /\ mishaps' \in 0..MaxMishaps /\ faults' \in 0..mishaps'
    <3>1. /\ quarantined' = quarantined \/ quarantined' \in BOOLEAN
          /\ (UNCHANGED <<mishaps, faults>> \/ Fault \/ (Mishap /\ UNCHANGED faults))
      BY <1>1 DEF EvictPage, EvictDone, QuarantinePasses, Evict, EvictFail, EvictEnd, QuarantineEnds
    <3> QED BY <3>1, Mishaps DEF ControlType
  <2>5. exposed' \in BOOLEAN
    BY <1>1 DEF EvictPage, EvictDone, QuarantinePasses, ControlType
  <2>6. evicting' \subseteq Homes \cup {JSB}
    <3>1. evicting' = evicting \/ evicting' = {} \/ \E p \in DOMAIN cache : evicting' = {p}
      BY <1>1 DEF EvictPage, EvictDone, QuarantinePasses, Evict, EvictFail, EvictEnd, QuarantineEnds
    <3> QED BY <3>1 DEF ControlType, StorageType
  <2> QED BY <2>1, <2>2, <2>3, <2>4, <2>5, <2>6 DEF ControlType, Versions
<1>2. CASE Crash
  <2>1. /\ stack' = [t \in Callers |-> <<>>] /\ lock' = [owner |-> NoTask, depth |-> 0]
        /\ op' = <<>> /\ writing' = FALSE /\ phase' = "off"
        /\ UNCHANGED <<seq, hist, logged, attempts, stable>>
        /\ tx' = <<>> /\ recover_flag' = FALSE /\ head' = 1 /\ hookDepth' = 0
        /\ tmp' = [u \in Callers |-> 0] /\ ok' = [u \in Callers |-> TRUE]
        /\ rec' = NoRec /\ quarantined' = FALSE /\ evicting' = {} /\ torn' = torn
    BY <1>2 DEF Crash, Forget, PowerLoss
  <2>2. \A u \in Callers : stack'[u] = <<>>
    BY <2>1
  <2>3. Shape' /\ \A u \in Callers : Inside(u)' = {}
    BY <2>2, Nil DEF Shape, Stacked, Inside
  <2>4. lock' \in [owner : Callers \cup {NoTask, "op"}, depth : Nat] /\ lock'.owner = NoTask /\ lock'.depth = 0
    BY <2>1
  <2>5. Locking'
    BY <2>1, <2>3, <2>4, JournalAssumption DEF Locking
  <2>6. mishaps' \in 0..MaxMishaps /\ faults' \in 0..mishaps'
    BY <1>2, Mishaps DEF Crash, PowerLoss
  <2>7. exposed' \in BOOLEAN
    BY <1>2 DEF Crash, ControlType
  <2>8. NoRec \in [seq : Nat, head : 0..LogLen, tid : Nat, at : 0..LogLen, faults : Nat]
    BY PageKinds DEF NoRec
  <2>9. tx' \in Seq(Homes) /\ Len(tx') <= TxCapacity /\ head' \in 1..LogLen /\ op' \in Seq(Items)
    <3>1. tx' \in Seq(Homes) /\ op' \in Seq(Items)
      BY <2>1, Nil
    <3>2. Len(tx') = 0
      BY <2>1, Nil
    <3> QED BY <2>1, <3>1, <3>2, PageKinds
  <2>10. hookDepth' \in Int /\ tmp' \in [Callers -> Int] /\ ok' \in [Callers -> BOOLEAN]
         /\ quarantined' \in BOOLEAN /\ recover_flag' \in BOOLEAN /\ writing' \in BOOLEAN
    <3>1. hookDepth' \in Int /\ tmp' \in [Callers -> Int]
      BY <2>1
    <3>2. ok' \in [Callers -> BOOLEAN]
      BY <2>1
    <3>3. quarantined' \in BOOLEAN /\ recover_flag' \in BOOLEAN /\ writing' \in BOOLEAN
      BY <2>1
    <3> QED BY <3>1, <3>2, <3>3
  <2>11. stack' \in [Callers -> Seq(Frames)]
    BY <2>1, Nil
  <2>12. phase' \in {"off", "mounting", "mounted", "closing", "unmounting", "refused"}
    BY <2>1
  <2> QED BY <2>1, <2>3, <2>4, <2>5, <2>6, <2>7, <2>8, <2>9, <2>10, <2>11, <2>12 DEF ControlType, Versions
<1> QED BY <1>1, <1>2

\* What the file system reads stays; the dirty pages of T go home.
Mild(T) ==
  /\ \A p \in Pages : bcache_read_bytes(p)' = bcache_read_bytes(p)
  /\ \A p \in Pages : Dev(p)' = IF p \in T THEN bcache_read_bytes(p) ELSE Dev(p)
  /\ \A m \in Survivors' : \E n \in Survivors :
       \A p \in Pages : m[p] = n[p] \/ (p \in T /\ m[p] = bcache_read_bytes(p))
  /\ T \subseteq {p \in DOMAIN cache : cache[p].dirty}
  /\ \A p \in DOMAIN cache' \ DOMAIN cache : p \in Homes /\ \E q \in DOMAIN cache : cache[q].held
  /\ \A p \in DOMAIN cache : cache[p].dirty => p \in T \/ (p \in DOMAIN cache' /\ cache'[p].dirty)
  /\ \A p \in DOMAIN cache' : cache'[p].dirty => p \in DOMAIN cache /\ cache[p].dirty
  /\ \A p \in DOMAIN cache' : p \in DOMAIN cache => cache'[p].data = cache[p].data

\* No page gains or loses a hold, and none comes or goes.
HoldsStay ==
  /\ DOMAIN cache' = DOMAIN cache
  /\ \A p \in DOMAIN cache : cache'[p].held <=> cache[p].held

\* The pages that go home do not put the file system at risk, or are known to.
Covered(T) ==
  ~exposed' => IF phase \in {"mounting", "refused"}
               THEN T \cap Meta = {} \/ DOMAIN wcache \cap LogPages = {}
               ELSE /\ \A p \in T \cap Meta : cache[p].data.ver <= logged[p]
                    /\ ~(writing /\ PageOf(Head(op)) \in T)

Settled == \A m \in Survivors : \A p \in Pages : m[p] = Dev(p)

Unstored == UNCHANGED <<media, wcache, cache>>

\* A step that leaves the storage alone is mild.
LEMMA UnstoredMild ==
  ASSUME StorageType, Clean, hist' = hist, Unstored
  PROVE  StorageType' /\ Clean' /\ Mild({}) /\ Covered({}) /\ Survivors' = Survivors /\ HoldsStay
<1>1. \A p : Dev(p)' = Dev(p) /\ bcache_read_bytes(p)' = bcache_read_bytes(p)
  BY DEF Unstored, Dev, bcache_read_bytes
<1>2. Survivors' = Survivors
  BY DEF Unstored, Survivors, Over, Restrict
<1>3. StorageType'
  BY SamePages DEF Unstored, StorageType
<1>4. Clean'
  BY <1>1 DEF Unstored, Clean
<1> QED BY <1>1, <1>2, <1>3, <1>4 DEF Mild, Covered, Unstored, HoldsStay

\* Writing pages home is mild.
LEMMA HomeMild ==
  ASSUME StorageType, Clean, hist' = hist, NEW T, HomeWrite(T)
  PROVE  StorageType' /\ Clean' /\ Mild(T) /\ HoldsStay
<1>1. /\ StorageType' /\ Clean'
      /\ \A p \in Pages : bcache_read_bytes(p)' = bcache_read_bytes(p)
      /\ \A p \in Pages : Dev(p)' = IF p \in T THEN cache[p].data ELSE Dev(p)
      /\ \A m \in Survivors' : \E n \in Survivors :
           \A p \in Pages : m[p] = n[p] \/ (p \in T /\ m[p] = cache[p].data)
  BY HomeWriteEffect
<1>2. T \subseteq DOMAIN cache /\ \A p \in T : bcache_read_bytes(p) = cache[p].data
  BY DEF HomeWrite, bcache_read_bytes
<1>3. \A p \in Pages : Dev(p)' = IF p \in T THEN bcache_read_bytes(p) ELSE Dev(p)
  BY <1>1, <1>2
<1>4. ASSUME NEW m \in Survivors'
      PROVE  \E n \in Survivors :
               \A p \in Pages : m[p] = n[p] \/ (p \in T /\ m[p] = bcache_read_bytes(p))
  BY <1>1, <1>2
<1>5. \A p \in DOMAIN cache : cache[p].dirty => p \in T \/ (p \in DOMAIN cache' /\ cache'[p].dirty)
  BY DEF HomeWrite
<1>6. HoldsStay /\ \A p \in DOMAIN cache' : /\ cache'[p].data = cache[p].data
                                            /\ cache'[p].dirty => cache[p].dirty
  BY DEF HomeWrite, HoldsStay
<1>7. DOMAIN cache' = DOMAIN cache /\ T \subseteq {p \in DOMAIN cache : cache[p].dirty}
  BY DEF HomeWrite
<1> QED BY <1>1, <1>3, <1>4, <1>5, <1>6, <1>7 DEF Mild

\* A device flush is mild.
LEMMA FlushMild ==
  ASSUME StorageType, Clean, hist' = hist, DevFlush
  PROVE  /\ StorageType' /\ Clean' /\ Mild({}) /\ Covered({}) /\ Settled' /\ HoldsStay
         /\ DOMAIN wcache' = {} /\ \A p \in Pages : media'[p] = Dev(p)
<1>1. Flushed
  BY DEF DevFlush, Flushed
<1>2. /\ StorageType' /\ Clean'
      /\ \A p \in Pages : bcache_read_bytes(p)' = bcache_read_bytes(p) /\ Dev(p)' = Dev(p)
      /\ \A m \in Survivors' : DOMAIN m = Pages /\ \A p \in Pages : m[p] = Dev(p)
      /\ \A p \in Pages : media'[p] = Dev(p)
  BY <1>1, FlushEffect
<1>3. Device \in Survivors /\ \A p \in Pages : Device[p] = Dev(p)
  BY DeviceSurvives
<1>4. Mild({}) /\ HoldsStay
  BY <1>1, <1>2, <1>3 DEF Mild, Flushed, HoldsStay
<1>5. Covered({})
  BY DEF Covered
<1>6. Settled'
  BY <1>2 DEF Settled
<1>7. DOMAIN wcache' = {}
  BY <1>1, Nil DEF Flushed
<1> QED BY <1>2, <1>4, <1>5, <1>6, <1>7

\* Updating one bit of a cache entry keeps the others.
LEMMA EntryUpdate ==
  /\ \A e, b, f : IsEntry(e) /\ f = [e EXCEPT !.dirty = b] =>
       IsEntry(f) /\ f.data = e.data /\ f.held = e.held /\ f.dirty = b
  /\ \A e, b, f : IsEntry(e) /\ f = [e EXCEPT !.held = b] =>
       IsEntry(f) /\ f.data = e.data /\ f.dirty = e.dirty /\ f.held = b
BY DEF IsEntry

\* The same for the dirty bit of one page.
LEMMA DirtyUpdate ==
  ASSUME NEW p, IsEntry(cache[p]), NEW b, cache'[p] = [cache[p] EXCEPT !.dirty = b]
  PROVE  /\ IsEntry(cache'[p]) /\ cache'[p].data = cache[p].data
         /\ cache'[p].held = cache[p].held /\ cache'[p].dirty = b
BY EntryUpdate

\* The same for the hold of one page.
LEMMA HeldUpdate ==
  ASSUME NEW p, IsEntry(cache[p]), NEW b, cache'[p] = [cache[p] EXCEPT !.held = b]
  PROVE  /\ IsEntry(cache'[p]) /\ cache'[p].data = cache[p].data
         /\ cache'[p].dirty = cache[p].dirty /\ cache'[p].held = b
BY EntryUpdate

\* The pages that a sync or a recycled page sends home.
LEMMA GoHome ==
  ASSUME StorageType, NEW T, T \subseteq {p \in DOMAIN cache : cache[p].dirty},
         wcache' = Accepted(T), media' = media,
         cache' = [p \in DOMAIN cache |-> [cache[p] EXCEPT !.dirty = @ /\ p \notin T]]
  PROVE  HomeWrite(T)
<1>2. DOMAIN wcache' = DOMAIN wcache \cup T
      /\ \A p \in DOMAIN wcache' : wcache'[p] = IF p \in T THEN cache[p].data ELSE wcache[p]
  BY DEF Accepted, Over
<1> DEFINE b(p) == cache[p].dirty /\ p \notin T
<1>6. \A p \in DOMAIN cache : cache'[p] = [cache[p] EXCEPT !.dirty = b(p)]
  OBVIOUS
<1>7. \A p : b(p) \in BOOLEAN /\ (b(p) <=> cache[p].dirty /\ p \notin T)
  OBVIOUS
<1> HIDE DEF b
<1>3. ASSUME NEW p \in DOMAIN cache
      PROVE  /\ IsEntry(cache'[p]) /\ cache'[p].data = cache[p].data
             /\ cache'[p].held = cache[p].held
             /\ cache'[p].dirty = b(p)
  <2>1. IsEntry(cache[p]) /\ cache'[p] = [cache[p] EXCEPT !.dirty = b(p)]
    BY <1>6 DEF StorageType
  <2> QED BY <2>1, DirtyUpdate
<1>4. DOMAIN cache' = DOMAIN cache
  OBVIOUS
<1>5. \A q \in DOMAIN cache' : IsEntry(cache'[q])
  BY <1>3, <1>4
<1>8. \A q \in DOMAIN cache' : /\ cache'[q].data = cache[q].data
                               /\ cache'[q].held \in BOOLEAN
                               /\ cache'[q].held <=> cache[q].held
                               /\ cache'[q].dirty \in BOOLEAN
                               /\ cache'[q].dirty <=> cache[q].dirty /\ q \notin T
  BY <1>3, <1>4, <1>7 DEF StorageType
<1> QED BY <1>2, <1>4, <1>5, <1>8 DEF HomeWrite

\* A step that leaves the file system as it reads, and what it says of the pages
\* that went home.
MildStep == /\ StorageType' /\ Clean'
            /\ exposed => exposed'
            /\ \E T : Mild(T) /\ Covered(T)

\* What bcache_sync_common() writes is mild, and clears the dirty bits it selected.
LEMMA SyncStore ==
  ASSUME StorageType, ControlType, Clean, NEW t, SyncWrite(t)
  PROVE  /\ MildStep /\ HoldsStay
         /\ At(t, "write")
         /\ \/ Return(t, FALSE)
            \/ /\ Goto(t, "flush") /\ ok' = ok
               /\ \A p \in DOMAIN cache' :
                    cache'[p].dirty => cache[p].dirty /\ p \notin SyncSelection(Mode(t))
<1> USE DEF bcVars, callVars, ejVars, hookVars, opVars, mountVars, hVars
<1>0. /\ hist' = hist /\ UNCHANGED <<phase, logged>> /\ At(t, "write")
  BY DEF SyncWrite
<1>1. CASE quarantined
  <2>1. Unstored /\ exposed' = exposed /\ Return(t, FALSE)
    BY <1>1 DEF SyncWrite, Unstored
  <2> QED BY <1>0, <1>1, <2>1, UnstoredMild DEF MildStep
<1>2. CASE ~quarantined
  <2> DEFINE S == SyncSelection(Mode(t))
  <2>1. exposed' = (exposed \/ Uncovered(S)) /\ (WritePages(S) \/ WritePagesFail(S))
    BY <1>2 DEF SyncWrite
  <2>2. S \subseteq {p \in DOMAIN cache : cache[p].dirty}
    BY DEF SyncSelection
  <2> HIDE DEF S
  <2>3. PICK T \in SUBSET S :
          /\ wcache' = Accepted(T) /\ media' = media
          /\ cache' = [p \in DOMAIN cache |-> [cache[p] EXCEPT !.dirty = @ /\ p \notin T]]
          /\ Return(t, FALSE) \/ (T = S /\ Goto(t, "flush") /\ ok' = ok)
    BY <1>2 DEF SyncWrite, S, WritePages, WritePagesFail
  <2>4. HomeWrite(T)
    BY <2>2, <2>3, GoHome
  <2>5. StorageType' /\ Clean' /\ Mild(T) /\ HoldsStay
    BY <1>0, <2>4, HomeMild
  <2>6. Covered(T)
    <3>1. ~exposed' => ~Uncovered(S)
      BY <2>1
    <3>2. T \cap Meta \subseteq S \cap Meta
      BY <2>3
    <3>3. \A p \in S \cap Meta : PageOK(p, cache[p].data)
      BY <2>2 DEF StorageType
    <3>4. \A p \in S \cap Meta : cache[p].data.ver \in Int /\ logged[p] \in Int
      BY <3>3, PageKinds DEF PageOK, HomePage, Versions, ControlType
    <3>5. CASE phase \in {"mounting", "refused"}
      <4>1. ~exposed' => S \cap Meta = {} \/ DOMAIN wcache \cap LogPages = {}
        BY <3>1, <3>5 DEF Uncovered
      <4>2. S \cap Meta = {} => T \cap Meta = {}
        BY <3>2
      <4> QED BY <3>5, <4>1, <4>2 DEF Covered
    <3>6. CASE phase \notin {"mounting", "refused"}
      <4>1. ~exposed' => /\ \A p \in S \cap Meta : cache[p].data.ver <= logged[p]
                         /\ ~(writing /\ PageOf(Head(op)) \in S)
        BY <3>1, <3>4, <3>6 DEF Uncovered
      <4> QED BY <2>3, <3>2, <3>6, <4>1 DEF Covered
    <3> QED BY <3>5, <3>6
  <2>7. exposed => exposed'
    BY <2>1
  <2>8. \A p \in DOMAIN cache' : cache'[p].dirty => cache[p].dirty /\ p \notin T
    BY <2>4 DEF HomeWrite
  <2> QED BY <1>0, <2>3, <2>5, <2>6, <2>7, <2>8 DEF MildStep, S
<1> QED BY <1>1, <1>2

\* Recycling a page is mild.
LEMMA EvictStore ==
  ASSUME StorageType, ControlType, Clean, EvictPage
  PROVE  /\ MildStep /\ HoldsStay
         /\ \E T : /\ Mild(T) /\ Covered(T)
                   /\ \/ evicting' = evicting
                      \/ \E p \in DOMAIN cache :
                           evicting' = {p} /\ ~cache[p].held /\ (cache[p].dirty => p \in T)
         /\ evicting' = evicting \/ \E p \in DOMAIN cache : evicting' = {p} /\ ~cache'[p].dirty
<1> USE DEF bcVars, callVars, ejVars, hookVars, opVars, mountVars, hVars, jVars
<1>0. hist' = hist /\ UNCHANGED <<phase, logged>>
  BY DEF EvictPage
<1>1. PICK p \in DOMAIN cache :
        \/ Evict(p) /\ exposed' = (exposed \/ Uncovered(FlushRun(p)))
        \/ EvictFail(p) /\ UNCHANGED exposed
  BY DEF EvictPage
<1>2. CASE EvictFail(p) /\ UNCHANGED exposed
  <2>1. Unstored /\ evicting' = evicting
    BY <1>2 DEF EvictFail, Unstored
  <2> QED BY <1>0, <1>2, <2>1, UnstoredMild DEF MildStep
<1>3. CASE Evict(p) /\ exposed' = (exposed \/ Uncovered(FlushRun(p)))
  <2> DEFINE T == FlushRun(p)
  <2>1. T \subseteq {q \in DOMAIN cache : cache[q].dirty} /\ (cache[p].dirty => p \in T)
    <3>1. p \in Pages /\ Pages \subseteq Nat
      BY PageKinds, BlockCacheAssumption DEF StorageType
    <3>2. ASSUME NEW q \in T PROVE q \in DOMAIN cache /\ cache[q].dirty
      <4>1. q \in Pages /\ q >= p /\ \A r \in p..q : r \in DOMAIN cache /\ cache[r].dirty
        BY DEF FlushRun
      <4> QED BY <3>1, <4>1
    <3>3. cache[p].dirty => p \in T
      <4>1. \A r \in p..p : r = p
        BY <3>1
      <4> QED BY <3>1, <4>1 DEF FlushRun
    <3> QED BY <3>2, <3>3
  <2>2. ~cache[p].held /\ wcache' = Accepted(T) /\ media' = media /\ evicting' = {p}
        /\ cache' = [q \in DOMAIN cache |-> [cache[q] EXCEPT !.dirty = @ /\ q \notin T]]
    BY <1>3 DEF Evict, Evictable
  <2>4. exposed' = (exposed \/ Uncovered(T))
    BY <1>3
  <2> HIDE DEF T
  <2>5. HomeWrite(T)
    BY <2>1, <2>2, GoHome
  <2>6. StorageType' /\ Clean' /\ Mild(T) /\ HoldsStay
    BY <1>0, <2>5, HomeMild
  <2>7. Covered(T)
    <3>3. \A q \in T \cap Meta : PageOK(q, cache[q].data)
      BY <2>1 DEF StorageType
    <3>1. \A q \in T \cap Meta : cache[q].data \in HomePage
      BY <3>3, PageKinds DEF PageOK
    <3>4. \A q \in T \cap Meta : cache[q].data.ver \in Int /\ logged[q] \in Int
      BY <3>1 DEF HomePage, Versions, ControlType
    <3>5. CASE phase \in {"mounting", "refused"}
      BY <2>4, <3>5 DEF Uncovered, Covered
    <3>6. CASE phase \notin {"mounting", "refused"}
      <4>1. ~exposed' => /\ \A q \in T \cap Meta : cache[q].data.ver <= logged[q]
                         /\ ~(writing /\ PageOf(Head(op)) \in T)
        <5>1. ~exposed' => ~Uncovered(T)
          BY <2>4
        <5> QED BY <3>4, <3>6, <5>1 DEF Uncovered
      <4> QED BY <3>6, <4>1 DEF Covered
    <3> QED BY <3>5, <3>6
  <2>8. ~cache'[p].dirty
    BY <2>1, <2>5 DEF HomeWrite
  <2> QED BY <2>1, <2>2, <2>4, <2>6, <2>7, <2>8 DEF MildStep
<1> QED BY <1>1, <1>2, <1>3

\* So is the end of a recycling: the victim has been clean all the while.
LEMMA RecycleStore ==
  ASSUME StorageType, ControlType, Clean, Victims, EvictDone
  PROVE  /\ MildStep /\ Mild({}) /\ Survivors' = Survivors /\ Recycled
         /\ evicting' = {} /\ hist' = hist /\ exposed' = exposed
         /\ (\A p \in evicting \cap DOMAIN cache : ~cache[p].held) =>
              DOMAIN cache' = DOMAIN cache \ evicting /\ \A p \in DOMAIN cache' : cache'[p] = cache[p]
<1> USE DEF hVars, jVars
<1>0. /\ hist' = hist /\ exposed' = exposed /\ media' = media /\ wcache' = wcache /\ evicting' = {}
      /\ EvictEnd(Homes)
  BY DEF EvictDone, EvictEnd, Homes
<1> DEFINE rest == Restrict(cache, DOMAIN cache \ evicting)
<1>1. DOMAIN rest = DOMAIN cache \ evicting /\ \A p \in DOMAIN rest : rest[p] = cache[p]
  BY DEF Restrict
<1>2. ASSUME cache' = rest
      PROVE  /\ Recycled
             /\ DOMAIN cache' = DOMAIN cache \ evicting /\ \A p \in DOMAIN cache' : cache'[p] = cache[p]
  BY <1>0, <1>1, <1>2 DEF Recycled, Victims
<1>3. ASSUME NEW p \in evicting \cap DOMAIN cache, cache[p].held, NEW q \in Homes \ DOMAIN cache,
             cache' = Over([r \in {q} |-> [data |-> Dev(q), dirty |-> FALSE, held |-> TRUE]], rest)
      PROVE  Recycled
  <2> DEFINE e == [data |-> Dev(q), dirty |-> FALSE, held |-> TRUE]
  <2>1. IsEntry(e) /\ e.data = Dev(q) /\ e.dirty = FALSE /\ e.held = TRUE
    BY DEF IsEntry
  <2>2. cache' = Over([r \in {q} |-> e], rest)
    BY <1>3
  <2> HIDE DEF e, rest
  <2>3. /\ DOMAIN cache' = {q} \cup DOMAIN rest /\ cache'[q] = e
        /\ \A r \in DOMAIN rest : r # q => cache'[r] = rest[r]
    BY <2>2 DEF Over
  <2>4. \A r \in DOMAIN cache : r # q
    BY <1>3
  <2>5. \A r \in DOMAIN cache' \ DOMAIN cache : r = q
    BY <1>1, <2>3
  <2> QED BY <1>0, <1>1, <1>3, <2>1, <2>3, <2>4, <2>5 DEF Recycled, Victims
<1>4. /\ Recycled
      /\ (\A p \in evicting \cap DOMAIN cache : ~cache[p].held) =>
              DOMAIN cache' = DOMAIN cache \ evicting /\ \A p \in DOMAIN cache' : cache'[p] = cache[p]
  BY <1>0, <1>2, <1>3 DEF EvictEnd
<1>5. /\ StorageType' /\ Clean' /\ Survivors' = Survivors
      /\ \A p \in Pages : Dev(p)' = Dev(p) /\ bcache_read_bytes(p)' = bcache_read_bytes(p)
  BY <1>0, <1>4, RecycledEffect
<1>6. Mild({})
  BY <1>4, <1>5, PageKinds DEF Mild, Recycled, StorageType
<1> QED BY <1>0, <1>4, <1>5, <1>6 DEF MildStep, Covered

\* The steps that do not touch the storage.
StillStep(t) ==
  \/ SyncTest(t) \/ HookCall(t) \/ HookLoad(t) \/ HookReturn(t)
  \/ CommitLowered(t) \/ CommitRaised(t) \/ CommitError(t)
  \/ (CommitBegin(t) /\ ~(tx = <<>> /\ recover_flag))
  \/ (CommitRaise(t) /\ ~(ok[t] /\ ~recover_flag))
  \/ (CommitEmpty(t) /\ ~ok[t])
  \/ (SyncFlush(t) /\ DevError)
  \/ SyncCall(t) \/ FsyncStep(t) \/ UnmountCommit(t) \/ UnmountSync(t)
  \/ Mount(t) \/ Recover(t) \/ ScanPass(t) \/ RecoverDefer(t) \/ Open(t)
  \/ (MountError(t) /\ UNCHANGED cache)
  \/ (ReplayPass(t) /\ rec.tid = rec.seq)

\* The steps that touch no storage.
LEMMA StillStore ==
  ASSUME StorageType, Clean, NEW t, StillStep(t)
  PROVE  MildStep /\ Mild({}) /\ Survivors' = Survivors /\ exposed' = exposed /\ hist' = hist
         /\ UNCHANGED <<media, wcache, cache, evicting>> /\ HoldsStay
<1> USE DEF bcVars, callVars, ejVars, hookVars, opVars, mountVars, hVars
<1>1. Unstored /\ hist' = hist /\ exposed' = exposed /\ evicting' = evicting
  <2>1. CASE \/ SyncTest(t) \/ HookCall(t) \/ HookLoad(t) \/ HookReturn(t)
             \/ CommitLowered(t) \/ CommitRaised(t) \/ CommitError(t)
    BY <2>1 DEF SyncTest, HookCall, HookLoad, HookReturn, CommitLowered, CommitRaised, CommitError,
                Unstored, DevError
  <2>2. CASE CommitBegin(t) /\ ~(tx = <<>> /\ recover_flag)
    BY <2>2 DEF CommitBegin, Unstored
  <2>3. CASE CommitRaise(t) /\ ~(ok[t] /\ ~recover_flag)
    BY <2>3 DEF CommitRaise, Unstored
  <2>4. CASE CommitEmpty(t) /\ ~ok[t]
    BY <2>4 DEF CommitEmpty, Unstored
  <2>5. CASE SyncFlush(t) /\ DevError
    BY <2>5 DEF SyncFlush, DevError, Unstored
  <2>6. CASE SyncCall(t) \/ FsyncStep(t) \/ UnmountCommit(t) \/ UnmountSync(t)
    BY <2>6 DEF SyncCall, FsyncStep, UnmountCommit, UnmountSync, Unstored
  <2>7. CASE Mount(t) \/ Recover(t) \/ ScanPass(t) \/ RecoverDefer(t) \/ Open(t)
    BY <2>7 DEF Mount, Recover, ScanPass, DevError, RecoverDefer, Open, Unstored
  <2>8. CASE ReplayPass(t) /\ rec.tid = rec.seq
    BY <2>8 DEF ReplayPass, Unstored
  <2>9. CASE MountError(t) /\ UNCHANGED cache
    BY <2>9 DEF MountError, Unstored
  <2> QED BY <2>1, <2>2, <2>3, <2>4, <2>5, <2>6, <2>7, <2>8, <2>9 DEF StillStep
<1> QED BY <1>1, UnstoredMild DEF MildStep, Unstored

FlushStep(t) == (SyncFlush(t) /\ ~DevError) \/ CommitFlush(t) \/ CommitDurable(t)

\* The device flushes of the sync and of the commit.
LEMMA FlushStore ==
  ASSUME StorageType, Clean, NEW t, FlushStep(t)
  PROVE  /\ MildStep /\ Mild({}) /\ Settled' /\ exposed' = exposed /\ hist' = hist /\ cache' = cache
         /\ DOMAIN wcache' = {} /\ HoldsStay /\ evicting' = evicting
<1> USE DEF bcVars, callVars, ejVars, hookVars, opVars, mountVars, hVars
<1>1. DevFlush /\ hist' = hist /\ exposed' = exposed
  BY DEF FlushStep, SyncFlush, CommitFlush, CommitDurable
<1> QED BY <1>1, FlushMild DEF MildStep, DevFlush

\* One cached page changes.
Put(p, v) ==
  /\ Survivors' = Survivors
  /\ \A q \in Pages : Dev(q)' = Dev(q)
  /\ \A q \in Pages : bcache_read_bytes(q)' = IF q = p THEN v ELSE bcache_read_bytes(q)
  /\ DOMAIN cache' = DOMAIN cache \cup {p}
  /\ \A q \in DOMAIN cache \ {p} : cache'[q] = cache[q]
  /\ cache'[p].data = v /\ cache'[p].dirty
  /\ cache'[p].held <=> p \in DOMAIN cache /\ cache[p].held
  /\ wcache' = wcache

\* bcache_write_bytes() of one page.
LEMMA PutStore ==
  ASSUME StorageType, Clean, hist' = hist, NEW p \in Homes \cup {JSB}, NEW v, PageOK(p, v),
         cache' = bcache_write_bytes(cache, p, v), UNCHANGED <<media, wcache>>
  PROVE  StorageType' /\ Clean' /\ Put(p, v)
<1> DEFINE W == [q \in {p} |-> v]
           h == p \in DOMAIN cache /\ cache[p].held
           e == [data |-> v, dirty |-> TRUE, held |-> h]
<1>0. h \in BOOLEAN /\ (h <=> p \in DOMAIN cache /\ cache[p].held)
  OBVIOUS
<1>1. cache' = [q \in {p} \cup DOMAIN cache |-> IF q \in {p} THEN e ELSE cache[q]]
  BY DEF bcache_write_bytes, Over
<1> HIDE DEF h
<1>2. IsEntry(e) /\ e.data = v /\ e.dirty = TRUE /\ e.held = h
  BY DEF IsEntry
<1> HIDE DEF e
<1>3. /\ DOMAIN cache' = DOMAIN cache \cup {p} /\ cache'[p] = e
      /\ \A q \in DOMAIN cache \ {p} : cache'[q] = cache[q]
  BY <1>1
<1>4. DOMAIN W = {p} /\ W[p] = v
  OBVIOUS
<1> HIDE DEF W
<1>5. CachePut(W)
  BY <1>0, <1>2, <1>3, <1>4 DEF CachePut
<1>6. /\ StorageType' /\ Clean' /\ Survivors' = Survivors
      /\ \A q \in Pages : Dev(q)' = Dev(q)
      /\ \A q \in Pages : bcache_read_bytes(q)' = IF q \in DOMAIN W THEN W[q] ELSE bcache_read_bytes(q)
  BY <1>4, <1>5, CachePutEffect
<1>7. cache'[p].data = v /\ cache'[p].dirty /\ (cache'[p].held <=> p \in DOMAIN cache /\ cache[p].held)
  BY <1>0, <1>2, <1>3
<1>8. \A q \in Pages : bcache_read_bytes(q)' = IF q = p THEN v ELSE bcache_read_bytes(q)
  BY <1>4, <1>6
<1> QED BY <1>3, <1>6, <1>7, <1>8 DEF Put

\* ext4_set_recover_feature() leaves every version alone.
LEMMA FlagStore ==
  ASSUME StorageType, Clean, hist' = hist, NEW b \in BOOLEAN, SetRecoverFeature(b),
         UNCHANGED <<media, wcache>>
  PROVE  /\ StorageType' /\ Clean'
         /\ \E v \in HomePage : Put(SB, v) /\ v.ver = bcache_read_bytes(SB).ver /\ (v.rec <=> b)
<1> DEFINE v == [bcache_read_bytes(SB) EXCEPT !.rec = b]
<1>1. bcache_read_bytes(SB) \in HomePage
  BY DevType, PageKinds DEF PageOK
<1>2. v \in HomePage /\ v.ver = bcache_read_bytes(SB).ver /\ v.rec = b
  BY <1>1 DEF HomePage
<1>3. cache' = bcache_write_bytes(cache, SB, v)
  BY DEF SetRecoverFeature
<1> HIDE DEF v
<1>4. SB \in Homes /\ SB # JSB /\ SB \notin LogPages
  BY PageKinds
<1>5. PageOK(SB, v) /\ SB \in Homes \cup {JSB}
  BY <1>2, <1>4 DEF PageOK
<1>6. StorageType' /\ Clean' /\ Put(SB, v)
  BY <1>3, <1>5, PutStore
<1> QED BY <1>2, <1>6

\* One block is written past the cache.
LogPut(p, v) ==
  /\ \A q \in Pages : Dev(q)' = IF q = p THEN v ELSE Dev(q)
  /\ \A q \in Homes : bcache_read_bytes(q)' = bcache_read_bytes(q)
  /\ \A m \in Survivors' : \E n \in Survivors :
       \A q \in Pages : m[q] = n[q] \/ (q = p /\ m[q] = v)
  /\ DOMAIN cache' = DOMAIN cache \ {p}
  /\ \A q \in DOMAIN cache' : cache'[q] = cache[q]

\* An unbuffered write of one log page.
LEMMA LogStore ==
  ASSUME StorageType, Clean, hist' = hist, NEW p \in LogPages, NEW v, PageOK(p, v), DevWrite(p, v)
  PROVE  StorageType' /\ Clean' /\ LogPut(p, v)
<1> DEFINE W == [q \in {p} |-> v]
<1>1. DOMAIN W = {p} /\ W[p] = v
  OBVIOUS
<1>2. wcache' = Over(W, wcache) /\ media' = media /\ cache' = Restrict(cache, DOMAIN cache \ {p})
  BY DEF DevWrite, bcache_invalidate_page
<1> HIDE DEF W
<1>3. LogWrite(W)
  <2>1. DOMAIN wcache' = DOMAIN wcache \cup DOMAIN W
        /\ \A q \in DOMAIN wcache' : wcache'[q] = IF q \in DOMAIN W THEN W[q] ELSE wcache[q]
    BY <1>2 DEF Over
  <2>2. DOMAIN cache' = DOMAIN cache \ {p} /\ \A q \in DOMAIN cache' : cache'[q] = cache[q]
    BY <1>2 DEF Restrict
  <2> QED BY <1>1, <1>2, <2>1, <2>2 DEF LogWrite
<1>4. \A q \in DOMAIN W : PageOK(q, W[q])
  BY <1>1
<1>5. /\ StorageType' /\ Clean'
      /\ \A q \in Pages : Dev(q)' = IF q \in DOMAIN W THEN W[q] ELSE Dev(q)
      /\ \A q \in Homes : bcache_read_bytes(q)' = bcache_read_bytes(q)
      /\ \A m \in Survivors' : \E n \in Survivors :
           \A q \in Pages : m[q] = n[q] \/ (q \in DOMAIN W /\ m[q] = W[q])
  BY <1>3, <1>4, LogWriteEffect
<1>6. ASSUME NEW m \in Survivors'
      PROVE  \E n \in Survivors : \A q \in Pages : m[q] = n[q] \/ (q = p /\ m[q] = v)
  BY <1>1, <1>5
<1>7. \A q \in Pages : Dev(q)' = IF q = p THEN v ELSE Dev(q)
  BY <1>1, <1>5
<1>8. DOMAIN cache' = DOMAIN cache \ {p} /\ \A q \in DOMAIN cache' : cache'[q] = cache[q]
  BY <1>1, <1>3 DEF LogWrite
<1> QED BY <1>5, <1>6, <1>7, <1>8 DEF LogPut

\* The log's data blocks.
LEMMA DataBlocks ==
  ASSUME StorageType, ControlType, NEW k \in 0..Len(tx)
  PROVE  /\ DOMAIN LogData(k) = {LogPage(jbd2_advance_n(head, i)) : i \in 1..k}
         /\ \A i \in 1..k : /\ i \in 0..LogLen /\ jbd2_advance_n(head, i) \in 1..LogLen
                            /\ LogData(k)[LogPage(jbd2_advance_n(head, i))] =
                                 [type |-> "data", page |-> bcache_read_bytes(tx[i])]
         /\ DOMAIN LogData(k) \subseteq LogPages \ {JSB}
         /\ \A q \in DOMAIN LogData(k) : PageOK(q, LogData(k)[q])
<1>0. tx \in Seq(Homes) /\ Len(tx) <= TxCapacity /\ head \in 1..LogLen
  BY DEF ControlType
<1>1. k \in Nat /\ k < LogLen
  BY <1>0, PageKinds
<1> DEFINE L(i) == LogPage(jbd2_advance_n(head, i))
<1>2. \A i \in 1..k : i \in 0..LogLen /\ i < LogLen
  BY <1>1, PageKinds
<1>3. \A i \in 1..k : jbd2_advance_n(head, i) \in 1..LogLen /\ L(i) \in LogPages \ {JSB}
  BY <1>0, <1>2, Advance
<1>4. \A i, j \in 1..k : L(i) = L(j) => i = j
  <2> SUFFICES ASSUME NEW i \in 1..k, NEW j \in 1..k, L(i) = L(j) PROVE i = j
    OBVIOUS
  <2>1. jbd2_advance_n(head, i) = jbd2_advance_n(head, j)
    <3>1. i \in 0..LogLen BY <1>2
    <3> QED BY <1>0, <1>3, <3>1, Advance
  <2> QED BY <1>0, <1>2, <2>1, Advance
<1>5. LogData(k) = [n \in {L(i) : i \in 1..k} |->
        [type |-> "data", page |-> bcache_read_bytes(tx[CHOOSE i \in 1..k : L(i) = n])]]
  BY DEF LogData
<1> HIDE DEF L
<1>6. DOMAIN LogData(k) = {L(i) : i \in 1..k}
  BY <1>5
<1>7. ASSUME NEW i \in 1..k
      PROVE  LogData(k)[L(i)] = [type |-> "data", page |-> bcache_read_bytes(tx[i])]
  <2>1. (CHOOSE j \in 1..k : L(j) = L(i)) = i
    BY <1>4
  <2> QED BY <1>5, <2>1
<1>8. ASSUME NEW q \in DOMAIN LogData(k)
      PROVE  q \in LogPages \ {JSB} /\ PageOK(q, LogData(k)[q])
  <2>1. PICK i \in 1..k : q = L(i)
    BY <1>6
  <2>2. q \in LogPages \ {JSB} /\ q \notin Homes
    BY <1>3, <2>1, PageKinds
  <2>4. LogData(k)[q] = [type |-> "data", page |-> bcache_read_bytes(tx[i])]
    BY <1>7, <2>1
  <2>3. LogData(k)[q].type = "data"
    BY <2>4
  <2> QED BY <2>2, <2>3 DEF PageOK, IsLogBlock
<1> QED BY <1>2, <1>3, <1>6, <1>7, <1>8 DEF L

\* The commit's data blocks, as many as reached the device.
LEMMA DataStore ==
  ASSUME StorageType, ControlType, Clean, hist' = hist, NEW k \in 0..Len(tx),
         wcache' = Over(LogData(k), wcache), UNCHANGED <<media, cache>>
  PROVE  /\ StorageType' /\ Clean'
         /\ \A q \in Pages : Dev(q)' = IF q \in DOMAIN LogData(k) THEN LogData(k)[q] ELSE Dev(q)
         /\ \A q \in Homes \cup {JSB} : bcache_read_bytes(q)' = bcache_read_bytes(q)
         /\ \A m \in Survivors' : \E n \in Survivors :
              \A q \in Pages : m[q] = n[q] \/ (q \in DOMAIN LogData(k) /\ m[q] = LogData(k)[q])
<1> DEFINE W == LogData(k)
<1>1. DOMAIN W \subseteq LogPages \ {JSB} /\ \A q \in DOMAIN W : PageOK(q, W[q])
  BY DataBlocks
<1>0. wcache' = Over(W, wcache)
  OBVIOUS
<1> HIDE DEF W
<1>2. LogWrite(W)
  <2>1. DOMAIN wcache' = DOMAIN wcache \cup DOMAIN W
        /\ \A q \in DOMAIN wcache' : wcache'[q] = IF q \in DOMAIN W THEN W[q] ELSE wcache[q]
    BY <1>0 DEF Over
  <2>2. DOMAIN cache' = DOMAIN cache \ DOMAIN W
    BY <1>1, PageKinds DEF StorageType
  <2> QED BY <1>1, <2>1, <2>2 DEF LogWrite
<1>3. /\ StorageType' /\ Clean'
      /\ \A q \in Pages : Dev(q)' = IF q \in DOMAIN W THEN W[q] ELSE Dev(q)
      /\ \A q \in Homes : bcache_read_bytes(q)' = bcache_read_bytes(q)
      /\ \A m \in Survivors' : \E n \in Survivors :
           \A q \in Pages : m[q] = n[q] \/ (q \in DOMAIN W /\ m[q] = W[q])
  BY <1>1, <1>2, LogWriteEffect
<1>4. bcache_read_bytes(JSB)' = bcache_read_bytes(JSB)
  BY <1>1, <1>3, PageKinds DEF bcache_read_bytes
<1> QED BY <1>3, <1>4 DEF W

\* Holds are taken or released.
LEMMA HoldStore ==
  ASSUME StorageType, Clean, hist' = hist, UNCHANGED <<media, wcache>>, NEW p,
         cache' = bcache_hold_page(cache, p) \/ cache' = bcache_release_holds(cache)
  PROVE  /\ StorageType' /\ Clean' /\ Survivors' = Survivors
         /\ \A q \in Pages : Dev(q)' = Dev(q) /\ bcache_read_bytes(q)' = bcache_read_bytes(q)
         /\ DOMAIN cache' = DOMAIN cache
         /\ \A q \in DOMAIN cache : /\ cache'[q].data = cache[q].data
                                    /\ cache'[q].dirty <=> cache[q].dirty
         /\ \/ \A q \in DOMAIN cache : cache'[q].held <=> cache[q].held \/ q = p
            \/ cache' = bcache_release_holds(cache) /\ \A q \in DOMAIN cache : ~cache'[q].held
<1> DEFINE b(q) == IF cache' = bcache_release_holds(cache) THEN FALSE ELSE cache[q].held \/ q = p
<1>0. \A q : b(q) \in BOOLEAN
  BY DEF StorageType
<1>1. DOMAIN cache' = DOMAIN cache /\ \A q \in DOMAIN cache : cache'[q] = [cache[q] EXCEPT !.held = b(q)]
  BY DEF bcache_hold_page, bcache_release_holds
<1>2. \/ \A q : b(q) <=> cache[q].held \/ q = p
      \/ cache' = bcache_release_holds(cache) /\ \A q : ~b(q)
  OBVIOUS
<1> HIDE DEF b
<1>3. ASSUME NEW q \in DOMAIN cache
      PROVE  /\ IsEntry(cache'[q]) /\ cache'[q].data = cache[q].data
             /\ cache'[q].dirty = cache[q].dirty /\ cache'[q].held = b(q)
  <2>1. IsEntry(cache[q]) /\ cache'[q] = [cache[q] EXCEPT !.held = b(q)]
    BY <1>1 DEF StorageType
  <2> QED BY <2>1, HeldUpdate
<1>4. \A q \in DOMAIN cache : IsEntry(cache'[q])
  BY <1>3
<1>5. \A q \in DOMAIN cache : /\ cache'[q].data = cache[q].data
                              /\ cache'[q].dirty \in BOOLEAN
                              /\ cache'[q].dirty <=> cache[q].dirty
                              /\ cache'[q].held \in BOOLEAN
  BY <1>0, <1>3 DEF StorageType
<1>6. Holding
  BY <1>1, <1>4, <1>5 DEF Holding
<1>7. /\ StorageType' /\ Clean' /\ Survivors' = Survivors
      /\ \A q \in Pages : Dev(q)' = Dev(q) /\ bcache_read_bytes(q)' = bcache_read_bytes(q)
  BY <1>6, HoldingEffect
<1>8. \/ \A q \in DOMAIN cache : cache'[q].held <=> cache[q].held \/ q = p
      \/ cache' = bcache_release_holds(cache) /\ \A q \in DOMAIN cache : ~cache'[q].held
  BY <1>2, <1>3
<1> QED BY <1>1, <1>5, <1>7, <1>8

Ver(p) == bcache_read_bytes(p).ver

\* Between the cache write and the hold the page cannot go home unnoticed.
Pinned ==
  writing /\ ~exposed =>
    /\ PageOf(Head(op)) \in DOMAIN cache /\ PageOf(Head(op)) \notin evicting
    /\ cache[PageOf(Head(op))].held \/ cache[PageOf(Head(op))].dirty

\* No hold is lost with the page that is being recycled.
Loose == ~exposed => \A p \in evicting \cap DOMAIN cache : ~cache[p].held

Pins == Pinned /\ Loose /\ HoldsMatchTx

\* No hold changes, and the page being written neither becomes clean nor is
\* recycled without a trace.
PinStep ==
  /\ exposed => exposed'
  /\ \A p \in DOMAIN cache' : cache'[p].held => \E q \in DOMAIN cache : cache[q].held
  /\ ~exposed' =>
       /\ \A p \in DOMAIN cache \cap Homes : cache[p].held => p \in DOMAIN cache' /\ cache'[p].held
       /\ \A p \in DOMAIN cache' : cache'[p].held => p \in DOMAIN cache /\ cache[p].held
       /\ writing /\ PageOf(Head(op)) \in DOMAIN cache /\ cache[PageOf(Head(op))].dirty =>
            PageOf(Head(op)) \in DOMAIN cache' /\ cache'[PageOf(Head(op))].dirty
       /\ \A p \in evicting' : \/ p \in evicting
                               \/ p \in DOMAIN cache' => ~cache'[p].held
       /\ writing => PageOf(Head(op)) \notin evicting' \ evicting

\* Versions are numbers of operations that have begun.
LEMMA VerType ==
  ASSUME StorageType, ControlType
  PROVE  /\ \A p \in Homes : bcache_read_bytes(p) \in HomePage /\ Ver(p) \in Versions /\ Ver(p) \in Nat /\ Ver(p) <= Len(hist)
         /\ \A p \in DOMAIN cache \cap Homes : bcache_read_bytes(p) = cache[p].data /\ Ver(p) = cache[p].data.ver
         /\ \A p \in Meta : logged[p] \in Nat /\ logged[p] <= Len(hist) /\ stable[p] \in Nat
         /\ Len(hist) \in Nat /\ Versions \subseteq Nat
<1>1. Len(hist) \in Nat
  BY DEF ControlType
<1>2. \A p \in Homes : bcache_read_bytes(p) \in HomePage
  BY DevType, PageKinds DEF PageOK
<1>3. \A p \in Homes : Ver(p) \in Versions
  BY <1>2 DEF Ver, HomePage
<1>4. \A p \in Meta : logged[p] \in Versions /\ stable[p] \in Versions
  BY DEF ControlType
<1>5. \A x \in Versions : x \in Nat /\ x <= Len(hist)
  BY <1>1 DEF Versions
<1>6. \A p \in DOMAIN cache \cap Homes : bcache_read_bytes(p) = cache[p].data
  BY DEF bcache_read_bytes
<1> QED BY <1>1, <1>2, <1>3, <1>4, <1>5, <1>6 DEF Ver

\* A step that loses no pin keeps the pins.
LEMMA PinKeep ==
  ASSUME StorageType, ControlType, Locking, Pins, PinStep,
         UNCHANGED <<op, writing, tx>>,
         Hooked' => Hooked \/ tx = <<>>
  PROVE  Pins'
<1>0. writing => PageOf(Head(op)) \in Homes
  BY HeadTail, PageKinds DEF Locking, ControlType
<1>1. Pinned'
  BY <1>0 DEF Pins, Pinned, PinStep
<1>2. Loose'
  BY DEF Pins, Loose, PinStep
<1>3. HoldsMatchTx'
  <2>1. /\ tx' = <<>> => \A p \in DOMAIN cache' : ~cache'[p].held
        /\ ~exposed' => \A p \in DOMAIN cache' : cache'[p].held => p \in Range(tx')
    BY DEF Pins, HoldsMatchTx, PinStep
  <2>2. ASSUME Hooked', ~exposed', NEW p \in Range(tx')
        PROVE  p \in DOMAIN cache' /\ cache'[p].held
    <3>1. tx # <<>> /\ p \in Range(tx) /\ p \in Homes
      BY <2>2, Nil, PageKinds DEF Range, ControlType
    <3>2. Hooked /\ ~exposed
      BY <2>2, <3>1 DEF PinStep
    <3>3. p \in DOMAIN cache /\ cache[p].held
      BY <3>1, <3>2 DEF Pins, HoldsMatchTx
    <3> QED BY <2>2, <3>1, <3>3 DEF PinStep
  <2> QED BY <2>1, <2>2 DEF HoldsMatchTx
<1> QED BY <1>1, <1>2, <1>3 DEF Pins

\* Writing home what the log covers loses no pin.
LEMMA MildPins ==
  ASSUME StorageType, ControlType, Locking, Pins, NEW T, Mild(T), Covered(T), HoldsStay,
         exposed => exposed',
         \/ evicting' = evicting
         \/ \E p \in DOMAIN cache :
              evicting' = {p} /\ ~cache[p].held /\ (cache[p].dirty => p \in T)
  PROVE  PinStep
<1> DEFINE w == PageOf(Head(op))
<1>1. ~exposed' /\ writing =>
        w \notin T /\ w \in DOMAIN cache /\ (cache[w].held \/ cache[w].dirty)
  BY DEF Pins, Pinned, Locking, Covered
<1> HIDE DEF w
<1>2. ~exposed' /\ writing /\ cache[w].dirty => w \in DOMAIN cache' /\ cache'[w].dirty
  BY <1>1 DEF Mild
<1>3. ~exposed' /\ writing => w \notin evicting' \ evicting
  BY <1>1
<1>4. \A p \in evicting' : p \in evicting \/ (p \in DOMAIN cache' => ~cache'[p].held)
  BY DEF HoldsStay
<1> QED BY <1>2, <1>3, <1>4 DEF PinStep, HoldsStay, w

\* Neither does the end of a recycling.
LEMMA RecyclePins ==
  ASSUME StorageType, ControlType, Locking, Clean, Victims, Pins, EvictDone
  PROVE  PinStep
<1>1. /\ Recycled /\ evicting' = {} /\ exposed' = exposed
      /\ (\A p \in evicting \cap DOMAIN cache : ~cache[p].held) =>
              DOMAIN cache' = DOMAIN cache \ evicting /\ \A p \in DOMAIN cache' : cache'[p] = cache[p]
  BY RecycleStore
<1>2. \A p \in DOMAIN cache' : cache'[p].held => \E q \in DOMAIN cache : cache[q].held
  BY <1>1 DEF Recycled
<1>3. ASSUME ~exposed'
      PROVE  /\ DOMAIN cache' = DOMAIN cache \ evicting /\ \A p \in DOMAIN cache' : cache'[p] = cache[p]
             /\ \A p \in evicting \cap DOMAIN cache : ~cache[p].held
             /\ writing => PageOf(Head(op)) \notin evicting
  BY <1>1, <1>3 DEF Pins, Pinned, Loose
<1> QED BY <1>1, <1>2, <1>3 DEF PinStep

\* A cache write to a page that is not being recycled loses no pin.
LEMMA PutPins ==
  ASSUME StorageType, ControlType, NEW p, NEW v, Put(p, v), exposed => exposed',
         evicting' = evicting
  PROVE  PinStep
BY DEF Put, PinStep

\* A log write loses no pin of a metadata page.
LEMMA LogPins ==
  ASSUME StorageType, ControlType, Locking, exposed => exposed', evicting' = evicting,
         DOMAIN cache' \subseteq DOMAIN cache, DOMAIN cache \cap Homes \subseteq DOMAIN cache',
         \A q \in DOMAIN cache' : cache'[q] = cache[q]
  PROVE  PinStep
<1>1. writing => PageOf(Head(op)) \in Homes
  BY HeadTail, PageKinds DEF Locking, ControlType
<1> QED BY <1>1 DEF PinStep

\* The steps that change the needs_recovery bit.
FlagStep(t) ==
  \/ CommitBegin(t) /\ tx = <<>> /\ recover_flag
  \/ CommitRaise(t) /\ ok[t] /\ ~recover_flag
  \/ CommitLower(t)
  \/ RecoverEmpty(t) /\ At(t, "emptied")

\* ext4_set_recover_feature() writes the superblock page and keeps its version.
LEMMA FlagEffect ==
  ASSUME StorageType, Clean, NEW t, FlagStep(t)
  PROVE  /\ StorageType' /\ Clean' /\ SB \notin evicting
         /\ \E v \in HomePage : Put(SB, v) /\ v.ver = bcache_read_bytes(SB).ver
         /\ UNCHANGED <<op, writing, hist, logged, tx, exposed, phase, faults, mishaps, evicting, quarantined,
                        ok, head, seq, recover_flag, rec, stable, attempts, media, wcache>>
         /\ SetRecoverFeature(TRUE) \/ SetRecoverFeature(FALSE)
<1> USE DEF bcVars, callVars, ejVars, hookVars, opVars, mountVars, hVars
<1>1. /\ SetRecoverFeature(TRUE) \/ SetRecoverFeature(FALSE)
      /\ UNCHANGED <<op, writing, hist, logged, tx, exposed, phase, faults, mishaps, evicting, quarantined,
                        ok, head, seq, recover_flag, rec, stable, attempts, media, wcache>>
  <2>1. CASE CommitBegin(t) /\ tx = <<>> /\ recover_flag
    BY <2>1 DEF CommitBegin
  <2>2. CASE CommitRaise(t) /\ ok[t] /\ ~recover_flag
    BY <2>2 DEF CommitRaise
  <2>3. CASE CommitLower(t)
    BY <2>3 DEF CommitLower
  <2>4. CASE RecoverEmpty(t) /\ At(t, "emptied")
    <3>1. ~At(t, "empty") /\ ~At(t, "replayed")
      BY <2>4 DEF At
    <3> QED BY <2>4, <3>1 DEF RecoverEmpty
  <2> QED BY <2>1, <2>2, <2>3, <2>4 DEF FlagStep
<1>2. SB \notin evicting
  BY <1>1 DEF SetRecoverFeature, Writable
<1> QED BY <1>1, <1>2, FlagStore

\* The steps that write one block past the cache: where and what.
LogTarget(t) ==
  CASE At(t, "descriptor")   -> LogPage(head)
    [] At(t, "block")        -> LogPage(jbd2_advance_n(head, Len(tx) + 1))
    [] OTHER                 -> JSB
LogBlock(t) ==
  CASE At(t, "descriptor")   -> Descriptor(tx)
    [] At(t, "start")        -> Super(head, seq, head)
    [] At(t, "block")        -> Commit
    [] OTHER                 -> Super(0, seq, head)

LogStep(t) ==
  CommitDescriptor(t) \/ CommitStart(t) \/ CommitBlock(t) \/ (CommitEmpty(t) /\ ok[t])

\* Where the commit's unbuffered writes go, and what they write.
LEMMA LogTargets ==
  ASSUME NEW t
  PROVE  /\ At(t, "descriptor") => LogTarget(t) = LogPage(head) /\ LogBlock(t) = Descriptor(tx)
         /\ At(t, "start") => LogTarget(t) = JSB /\ LogBlock(t) = Super(head, seq, head)
         /\ At(t, "block") => LogTarget(t) = LogPage(jbd2_advance_n(head, Len(tx) + 1)) /\ LogBlock(t) = Commit
         /\ At(t, "checkpointed") => LogTarget(t) = JSB /\ LogBlock(t) = Super(0, seq, head)
<1>1. \A l, k : l # k /\ At(t, l) => ~At(t, k)
  BY DEF At
<1>2. CASE At(t, "descriptor")
  BY <1>1, <1>2 DEF LogTarget, LogBlock
<1>3. CASE At(t, "start")
  BY <1>1, <1>3 DEF LogTarget, LogBlock
<1>4. CASE At(t, "block")
  BY <1>1, <1>4 DEF LogTarget, LogBlock
<1>5. CASE At(t, "checkpointed")
  BY <1>1, <1>5 DEF LogTarget, LogBlock
<1> QED BY <1>2, <1>3, <1>4, <1>5, <1>1

\* The blocks of the commit are well formed.
LEMMA BlockTypes ==
  ASSUME StorageType, ControlType
  PROVE  /\ LogPage(head) \in LogPages \ {JSB} /\ PageOK(LogPage(head), Descriptor(tx))
         /\ Len(tx) + 1 \in 0..LogLen /\ Len(tx) + 1 < LogLen
         /\ LogPage(jbd2_advance_n(head, Len(tx) + 1)) \in LogPages \ {JSB}
         /\ PageOK(LogPage(jbd2_advance_n(head, Len(tx) + 1)), Commit)
         /\ PageOK(JSB, Super(head, seq, head)) /\ PageOK(JSB, Super(0, seq, head))
<1>1. tx \in Seq(Homes) /\ Len(tx) <= TxCapacity /\ head \in 1..LogLen /\ seq \in Nat \ {0}
  BY DEF ControlType
<1>2. Len(tx) + 1 \in 0..LogLen /\ Len(tx) + 1 < LogLen
  BY <1>1, PageKinds
<1>3. LogPage(head) \in LogPages \ {JSB}
  BY <1>1, PageKinds
<1>4. LogPage(jbd2_advance_n(head, Len(tx) + 1)) \in LogPages \ {JSB}
  BY <1>1, <1>2, Advance
<1>5. PageOK(LogPage(head), Descriptor(tx))
  <2> DEFINE d == Descriptor(tx)
  <2>1. \A i \in 1..Len(tx) : bcache_read_bytes(tx[i]) \in HomePage
    BY <1>1, DevType, PageKinds DEF PageOK
  <2>2. d.type = "descriptor" /\ d.seq = seq /\ d.tags = tx
        /\ d.sums = [i \in DOMAIN tx |-> bcache_read_bytes(tx[i])]
    BY DEF Descriptor
  <2>3. DOMAIN tx = 1..Len(tx)
    BY <1>1
  <2>4. d.sums \in [1..Len(tx) -> HomePage]
    BY <2>1, <2>2, <2>3
  <2> HIDE DEF d
  <2>5. IsLogBlock(d)
    BY <1>1, <2>2, <2>4 DEF IsLogBlock
  <2>6. PageOK(LogPage(head), d)
    BY <1>3, <2>5, PageKinds DEF PageOK
  <2> QED BY <2>6 DEF d
<1>6. PageOK(LogPage(jbd2_advance_n(head, Len(tx) + 1)), Commit)
  <2> DEFINE c == Commit
  <2>1. c.type = "commit" /\ c.seq = seq
    BY DEF Commit
  <2> HIDE DEF c
  <2>2. IsLogBlock(c)
    BY <1>1, <2>1 DEF IsLogBlock
  <2> QED BY <1>4, <2>2, PageKinds DEF PageOK, c
<1>7. Super(head, seq, head) \in SuperBlock /\ Super(0, seq, head) \in SuperBlock
  BY <1>1, PageKinds DEF Super, SuperBlock
<1> QED BY <1>2, <1>3, <1>4, <1>5, <1>6, <1>7, PageKinds DEF PageOK

\* What one unbuffered write of the commit does.
LEMMA LogEffect ==
  ASSUME StorageType, ControlType, Clean, NEW t, LogStep(t)
  PROVE  /\ StorageType' /\ Clean' /\ LogPut(LogTarget(t), LogBlock(t))
         /\ LogTarget(t) \in LogPages
         /\ UNCHANGED <<op, writing, hist, logged, tx, exposed, phase, faults, mishaps, evicting, quarantined,
                        ok, head, seq, recover_flag, rec, stable, lock>>
<1> USE DEF bcVars, callVars, ejVars, hookVars, opVars, mountVars, hVars
<1>1. /\ DevWrite(LogTarget(t), LogBlock(t))
      /\ UNCHANGED <<op, writing, hist, logged, tx, exposed, phase, faults, mishaps, evicting, quarantined,
                        ok, head, seq, recover_flag, rec, stable, lock>>
  <2>1. CASE CommitDescriptor(t)
    BY <2>1, LogTargets DEF CommitDescriptor, DevWrite
  <2>2. CASE CommitStart(t)
    BY <2>2, LogTargets DEF CommitStart, DevWrite
  <2>3. CASE CommitBlock(t)
    BY <2>3, LogTargets DEF CommitBlock, DevWrite
  <2>4. CASE CommitEmpty(t) /\ ok[t]
    BY <2>4, LogTargets DEF CommitEmpty, DevWrite
  <2> QED BY <2>1, <2>2, <2>3, <2>4 DEF LogStep
<1>2. At(t, "descriptor") \/ At(t, "start") \/ At(t, "block") \/ At(t, "checkpointed")
  BY DEF LogStep, CommitDescriptor, CommitStart, CommitBlock, CommitEmpty
<1>3. LogTarget(t) \in LogPages /\ PageOK(LogTarget(t), LogBlock(t))
  BY <1>2, BlockTypes, LogTargets, PageKinds
<1> QED BY <1>1, <1>3, LogStore

\* jbd2_mark_empty(): the journal superblock, through the cache.
MarkStep(t) == RecoverEmpty(t) /\ ~At(t, "emptied")

\* What jbd2_mark_empty() does.
LEMMA MarkEffect ==
  ASSUME StorageType, ControlType, Shape, Scanning, Clean, NEW t \in Callers, MarkStep(t)
  PROVE  /\ StorageType' /\ Clean' /\ Put(JSB, Super(0, rec.seq, rec.head))
         /\ stack[t] # <<>> /\ phase = "mounting" /\ Len(stack[t]) = 1
         /\ Bottom(t, "empty") \/ (Bottom(t, "replayed") /\ At(t, "replayed") /\ ok[t])
         /\ Call(t, "emptied", Sync("ALL")) /\ JSB \notin evicting
         /\ UNCHANGED <<op, writing, hist, logged, tx, exposed, phase, faults, mishaps, evicting, quarantined,
                        ok, head, seq, recover_flag, rec, stable, attempts, lock, media, wcache>>
<1> USE DEF bcVars, callVars, ejVars, hookVars, opVars, mountVars, hVars
<1>1. /\ At(t, "empty") \/ (At(t, "replayed") /\ ok[t])
      /\ cache' = bcache_write_bytes(cache, JSB, Super(0, rec.seq, rec.head))
      /\ Call(t, "emptied", Sync("ALL")) /\ JSB \notin evicting
      /\ UNCHANGED <<op, writing, hist, logged, tx, exposed, phase, faults, mishaps, evicting, quarantined,
                     ok, head, seq, recover_flag, rec, stable, attempts, lock, media, wcache>>
  BY DEF MarkStep, RecoverEmpty, Writable
<1>2. stack[t] # <<>> /\ Top(t).pc \in {"empty", "replayed"}
  BY <1>1 DEF At
<1>3. Len(stack[t]) = 1 /\ phase = "mounting" /\ Top(t) = stack[t][1]
  BY <1>2, TopKind DEF Entry, SyncPcs, CommitPcs, CommitIn, MountPcs
<1>4. Bottom(t, "empty") \/ (Bottom(t, "replayed") /\ At(t, "replayed") /\ ok[t])
  BY <1>1, <1>2, <1>3 DEF Bottom, At
<1>5. Dev(JSB) \in SuperBlock
  BY DevType, PageKinds DEF PageOK
<1>6. rec.seq \in Nat \ {0} /\ rec.head \in 1..LogLen
  <2>1. CASE Bottom(t, "empty")
    BY <1>3, <1>5, <2>1 DEF Scanning, SuperBlock
  <2>2. CASE Bottom(t, "replayed")
    <3>1. Dev(JSB).start \in 1..LogLen /\ Device[JSB] = Dev(JSB)
      BY <1>3, <1>5, <2>2, DeviceSurvives, PageKinds DEF Scanning, SuperBlock
    <3>2. HasTx(Device) => Past(Device, Dev(JSB).start) \in 1..LogLen
      BY <3>1, TxType, DeviceSurvives DEF HasTx
    <3> QED BY <1>3, <1>5, <2>2, <3>1, <3>2 DEF Scanning, SuperBlock
  <2> QED BY <1>4, <2>1, <2>2
<1>7. PageOK(JSB, Super(0, rec.seq, rec.head)) /\ JSB \in Homes \cup {JSB}
  <2>1. Super(0, rec.seq, rec.head) \in SuperBlock
    BY <1>6, PageKinds DEF Super, SuperBlock
  <2> QED BY <2>1, PageKinds DEF PageOK
<1>8. StorageType' /\ Clean' /\ Put(JSB, Super(0, rec.seq, rec.head))
  BY <1>1, <1>7, PutStore
<1> QED BY <1>1, <1>2, <1>3, <1>4, <1>8

\* The descriptor that the replay starts from has tags.
LEMMA ReplayTags ==
  ASSUME StorageType, HasTx(Device), rec.at = Dev(JSB).start
  PROVE  Len(Dev(LogPage(rec.at)).tags) \in Nat
<1>6. Dev(JSB) \in SuperBlock /\ Device[JSB] = Dev(JSB)
  BY DevType, DeviceSurvives, PageKinds DEF PageOK
<1>7. Dev(JSB).start \in 1..LogLen
  BY <1>6, PageKinds DEF HasTx, SuperBlock
<1>8. Desc(Device) = Dev(LogPage(rec.at))
  BY <1>6, <1>7, DeviceSurvives, PageKinds DEF Desc
<1>9. Desc(Device).tags \in Seq(Homes)
  BY <1>6, <1>7, TxType, DeviceSurvives DEF HasTx, Desc
<1> QED BY <1>8, <1>9

\* Recovery copies blocks of the transaction in the log into an empty cache.
LEMMA CopyCore ==
  ASSUME StorageType, ControlType, Clean, HasTx(Device), rec.at = Dev(JSB).start, DOMAIN cache = {},
         UNCHANGED <<media, wcache, hist>>, NEW k \in Nat, k <= Len(Dev(LogPage(rec.at)).tags),
         cache' = Replayed(Dev(LogPage(rec.at)), k)
  PROVE  /\ StorageType' /\ Clean' /\ Survivors' = Survivors
         /\ \A p \in Pages : Dev(p)' = Dev(p)
         /\ \A p \in Pages : bcache_read_bytes(p)' =
              IF p \in DOMAIN cache' THEN Logged(Desc(Device), p) ELSE bcache_read_bytes(p)
         /\ DOMAIN cache' \subseteq Tagged(Device) /\ Tagged(Device) \subseteq Homes
         /\ Tagged(Device) = Range(Dev(LogPage(rec.at)).tags)
         /\ k = Len(Dev(LogPage(rec.at)).tags) => DOMAIN cache' = Tagged(Device)
         /\ \A p \in DOMAIN cache' : ~cache'[p].held /\ cache'[p].dirty
<1>6. Dev(JSB) \in SuperBlock /\ Device[JSB] = Dev(JSB)
  BY DevType, DeviceSurvives, PageKinds DEF PageOK
<1>7. Dev(JSB).start \in 1..LogLen
  BY <1>6, PageKinds DEF HasTx, SuperBlock
<1> DEFINE d == Desc(Device)
<1>8. d = Dev(LogPage(rec.at)) /\ Tagged(Device) = Range(d.tags)
  BY <1>6, <1>7, DeviceSurvives, PageKinds DEF Desc, Tagged
<1>9. \A p \in Range(d.tags) : p \in Homes /\ Logged(d, p) \in HomePage
  BY <1>6, <1>7, TxType, DeviceSurvives DEF HasTx, Desc
<1>20. d.tags \in Seq(Homes) /\ DOMAIN d.tags = 1..Len(d.tags)
  BY <1>6, <1>7, TxType, DeviceSurvives DEF HasTx, Desc
<1> DEFINE R == {d.tags[i] : i \in 1..k}
           W == [p \in R |-> Logged(d, p)]
           e(p) == [data |-> Logged(d, p), dirty |-> TRUE, held |-> FALSE]
<1>10. cache' = [p \in R \cup DOMAIN cache |-> IF p \in R THEN e(p) ELSE cache[p]]
  BY <1>8 DEF Replayed, Over
<1>11. DOMAIN W = R /\ \A p \in R : W[p] = Logged(d, p)
  OBVIOUS
<1>12. \A p : IsEntry(e(p)) /\ e(p).data = Logged(d, p) /\ e(p).dirty = TRUE /\ e(p).held = FALSE
  BY DEF IsEntry
<1>21. R \subseteq Range(d.tags) /\ (k = Len(d.tags) => R = Range(d.tags))
  <2>1. DOMAIN d.tags = 1..Len(d.tags) /\ k <= Len(d.tags) /\ Len(d.tags) \in Nat
    BY <1>8, <1>20
  <2> QED BY <2>1 DEF Range
<1> HIDE DEF d, W, R, e
<1>13. DOMAIN cache' = R /\ \A p \in R : cache'[p] = e(p)
  BY <1>10
<1>14. CachePut(W)
  <2>1. \A q \in DOMAIN W : IsEntry(cache'[q])
    BY <1>11, <1>12, <1>13
  <2>2. \A q \in DOMAIN W : cache'[q].data = W[q] /\ cache'[q].dirty = TRUE /\ cache'[q].held = FALSE
    BY <1>11, <1>12, <1>13
  <2> QED BY <1>11, <1>13, <2>1, <2>2 DEF CachePut
<1>15. DOMAIN W \subseteq Homes \cup {JSB} /\ \A q \in DOMAIN W : PageOK(q, W[q])
  <2>1. \A q \in R : q \in Homes /\ q \notin LogPages /\ q # JSB /\ W[q] \in HomePage
    BY <1>9, <1>11, <1>21, PageKinds
  <2> QED BY <1>11, <2>1 DEF PageOK
<1>16. /\ StorageType' /\ Clean' /\ Survivors' = Survivors
       /\ \A p \in Pages : Dev(p)' = Dev(p)
       /\ \A p \in Pages : bcache_read_bytes(p)' =
                               IF p \in DOMAIN W THEN W[p] ELSE bcache_read_bytes(p)
  BY <1>14, <1>15, CachePutEffect
<1>17. \A p \in DOMAIN cache' : ~cache'[p].held /\ cache'[p].dirty
  BY <1>12, <1>13
<1>18. \A p \in Pages : bcache_read_bytes(p)' =
              IF p \in DOMAIN cache' THEN Logged(d, p) ELSE bcache_read_bytes(p)
  BY <1>11, <1>13, <1>16
<1>19. DOMAIN cache' \subseteq Tagged(Device) /\ Tagged(Device) \subseteq Homes
       /\ (k = Len(d.tags) => DOMAIN cache' = Tagged(Device))
  BY <1>8, <1>9, <1>13, <1>21
<1> QED BY <1>8, <1>16, <1>17, <1>18, <1>19 DEF d

\* The whole transaction is copied.
CopyStep(t) == ReplayPass(t) /\ rec.tid # rec.seq

\* What replaying a transaction does.
LEMMA CopyEffect ==
  ASSUME StorageType, ControlType, Shape, Scanning, Clean, NEW t \in Callers, CopyStep(t)
  PROVE  /\ StorageType' /\ Clean' /\ Survivors' = Survivors
         /\ HasTx(Device) /\ \A p \in Pages : Dev(p)' = Dev(p)
         /\ \A p \in Pages : bcache_read_bytes(p)' =
              IF p \in Tagged(Device) THEN Logged(Desc(Device), p) ELSE bcache_read_bytes(p)
         /\ DOMAIN cache = {} /\ DOMAIN cache' = Tagged(Device) /\ Tagged(Device) \subseteq Homes
         /\ \A p \in DOMAIN cache' : ~cache'[p].held /\ cache'[p].dirty /\ p \notin evicting
         /\ stack[t] # <<>> /\ phase = "mounting" /\ Bottom(t, "replay") /\ Len(stack[t]) = 1
         /\ rec' = [rec EXCEPT !.tid = rec.tid + 1, !.at = Past(Device, rec.at)]
         /\ UNCHANGED <<op, writing, hist, logged, tx, exposed, phase, faults, mishaps, evicting, quarantined,
                        ok, head, seq, recover_flag, stable, attempts, lock, media, wcache, stack>>
<1> USE DEF bcVars, callVars, ejVars, hookVars, opVars, mountVars, hVars
<1> DEFINE d == Dev(LogPage(rec.at))
<1>1. /\ At(t, "replay") /\ cache' = Replayed(d, Len(d.tags))
      /\ \A p \in Range(d.tags) : p \notin evicting
      /\ rec' = [rec EXCEPT !.tid = rec.tid + 1, !.at = Past(Device, rec.at)]
      /\ UNCHANGED <<op, writing, hist, logged, tx, exposed, phase, faults, mishaps, evicting, quarantined,
                     ok, head, seq, recover_flag, stable, attempts, lock, media, wcache, stack>>
      /\ rec.tid # rec.seq
  BY DEF CopyStep, ReplayPass, Writable
<1>2. stack[t] # <<>> /\ Top(t).pc = "replay"
  BY <1>1 DEF At
<1>3. Len(stack[t]) = 1 /\ phase = "mounting" /\ Top(t) = stack[t][1]
  BY <1>2, TopKind DEF Entry, SyncPcs, CommitPcs, CommitIn, MountPcs
<1>4. Bottom(t, "replay")
  BY <1>2, <1>3 DEF Bottom
<1>5. HasTx(Device) /\ rec.at = Dev(JSB).start /\ DOMAIN cache = {}
  BY <1>1, <1>3, <1>4 DEF Scanning
<1>6. Len(d.tags) \in Nat
  BY <1>5, ReplayTags
<1> HIDE DEF d
<1>7. /\ StorageType' /\ Clean' /\ Survivors' = Survivors
      /\ \A p \in Pages : Dev(p)' = Dev(p)
      /\ \A p \in Pages : bcache_read_bytes(p)' =
           IF p \in DOMAIN cache' THEN Logged(Desc(Device), p) ELSE bcache_read_bytes(p)
      /\ DOMAIN cache' = Tagged(Device) /\ Tagged(Device) \subseteq Homes
      /\ Tagged(Device) = Range(d.tags)
      /\ \A p \in DOMAIN cache' : ~cache'[p].held /\ cache'[p].dirty
  BY <1>1, <1>5, <1>6, CopyCore DEF d
<1> QED BY <1>1, <1>2, <1>3, <1>4, <1>5, <1>7

\* A read error stops the copy in the middle of the transaction.
PartStep(t) == MountError(t) /\ cache' # cache

\* What the replay leaves that cannot read the whole transaction.
LEMMA PartEffect ==
  ASSUME StorageType, ControlType, Shape, Scanning, Clean, NEW t \in Callers, PartStep(t)
  PROVE  /\ StorageType' /\ Clean' /\ Survivors' = Survivors
         /\ HasTx(Device) /\ \A p \in Pages : Dev(p)' = Dev(p)
         /\ \A p \in Pages : bcache_read_bytes(p)' =
              IF p \in DOMAIN cache' THEN Logged(Desc(Device), p) ELSE bcache_read_bytes(p)
         /\ DOMAIN cache = {} /\ DOMAIN cache' \subseteq Tagged(Device) /\ Tagged(Device) \subseteq Homes
         /\ \A p \in DOMAIN cache' : ~cache'[p].held /\ cache'[p].dirty /\ p \notin evicting
         /\ stack[t] # <<>> /\ phase = "mounting" /\ Bottom(t, "replay") /\ Len(stack[t]) = 1
         /\ Refuse(t) /\ Fault
         /\ UNCHANGED <<op, writing, hist, logged, tx, exposed, evicting, quarantined, rec,
                        ok, head, seq, recover_flag, stable, attempts, lock, media, wcache>>
<1> USE DEF bcVars, callVars, ejVars, hookVars, opVars, mountVars, hVars
<1> DEFINE d == Dev(LogPage(rec.at))
<1>1. /\ At(t, "replay") /\ \E k \in 0..(Len(d.tags) - 1) : cache' = Replayed(d, k)
      /\ \A p \in Range(d.tags) : p \notin evicting
      /\ Refuse(t) /\ Fault
      /\ UNCHANGED <<op, writing, hist, logged, tx, exposed, evicting, quarantined, rec,
                     ok, head, seq, recover_flag, stable, attempts, lock, media, wcache>>
      /\ rec.tid # rec.seq
  BY DEF PartStep, MountError, Writable
<1>2. stack[t] # <<>> /\ Top(t).pc = "replay"
  BY <1>1 DEF At
<1>3. Len(stack[t]) = 1 /\ phase = "mounting" /\ Top(t) = stack[t][1]
  BY <1>2, TopKind DEF Entry, SyncPcs, CommitPcs, CommitIn, MountPcs
<1>4. Bottom(t, "replay")
  BY <1>2, <1>3 DEF Bottom
<1>5. HasTx(Device) /\ rec.at = Dev(JSB).start /\ DOMAIN cache = {}
  BY <1>1, <1>3, <1>4 DEF Scanning
<1>6. Len(d.tags) \in Nat
  BY <1>5, ReplayTags
<1>8. PICK k \in 0..(Len(d.tags) - 1) : cache' = Replayed(d, k)
  BY <1>1
<1>9. k \in Nat /\ k <= Len(d.tags)
  BY <1>6
<1> HIDE DEF d
<1>7. /\ StorageType' /\ Clean' /\ Survivors' = Survivors
      /\ \A p \in Pages : Dev(p)' = Dev(p)
      /\ \A p \in Pages : bcache_read_bytes(p)' =
           IF p \in DOMAIN cache' THEN Logged(Desc(Device), p) ELSE bcache_read_bytes(p)
      /\ DOMAIN cache' \subseteq Tagged(Device) /\ Tagged(Device) \subseteq Homes
      /\ Tagged(Device) = Range(d.tags)
      /\ \A p \in DOMAIN cache' : ~cache'[p].held /\ cache'[p].dirty
  BY <1>1, <1>5, <1>8, <1>9, CopyCore DEF d
<1> QED BY <1>1, <1>2, <1>3, <1>4, <1>5, <1>7

\* The cache is destroyed.
LEMMA CloseEffect ==
  ASSUME StorageType, Clean, NEW t, Closed(t)
  PROVE  /\ StorageType' /\ Clean' /\ Survivors' = Survivors /\ DOMAIN cache' = {}
         /\ \A p \in Pages : Dev(p)' = Dev(p) /\ bcache_read_bytes(p)' = Dev(p)
         /\ Device' = Device /\ evicting' = {}
<1>1. cache' = <<>> /\ evicting' = {} /\ UNCHANGED <<media, wcache, hist>>
  BY DEF Closed
<1>2. DOMAIN cache' = {}
  BY <1>1, Nil
<1>3. StorageType'
  BY <1>1, <1>2, SamePages DEF StorageType
<1>4. Survivors' = Survivors /\ Device' = Device
  BY <1>1 DEF Survivors, Device, Over, Restrict
<1>5. \A p \in Pages : Dev(p)' = Dev(p) /\ bcache_read_bytes(p)' = Dev(p)
  BY <1>1, <1>2 DEF Dev, bcache_read_bytes
<1> QED BY <1>1, <1>2, <1>3, <1>4, <1>5 DEF Clean

\* The power fails.
LEMMA CrashEffect ==
  ASSUME StorageType, Clean, Crash
  PROVE  /\ StorageType' /\ Clean' /\ DOMAIN cache' = {} /\ DOMAIN wcache' = {} /\ media' \in Survivors
         /\ \A p \in Pages : Dev(p)' = media'[p] /\ bcache_read_bytes(p)' = media'[p]
         /\ \A m \in Survivors' : m = media'
         /\ Device' = media' /\ evicting' = {}
<1>1. cache' = <<>> /\ evicting' = {} /\ wcache' = <<>> /\ media' \in Survivors /\ hist' = hist
  BY DEF Crash, PowerLoss
<1>2. DOMAIN cache' = {} /\ DOMAIN wcache' = {}
  BY <1>1, Nil
<1>3. DOMAIN media' = Pages /\ \A p \in Pages : PageOK(p, media'[p])
  BY <1>1, SurvivorType
<1>4. StorageType'
  BY <1>1, <1>2, <1>3, SamePages DEF StorageType
<1>5. \A p \in Pages : Dev(p)' = media'[p] /\ bcache_read_bytes(p)' = media'[p]
  BY <1>2 DEF Dev, bcache_read_bytes
<1>6. media' = [p \in Pages |-> media'[p]]
  BY <1>1, <1>3 DEF Survivors, Over
<1>7. ASSUME NEW m \in Survivors' PROVE m = media'
  <2>1. m = [p \in Pages |-> media'[p]]
    BY <1>2, <1>3 DEF Survivors, Over, Restrict
  <2> QED BY <1>6, <2>1
<1>8. Device' = media'
  <2>1. Device' = [p \in Pages |-> media'[p]]
    BY <1>2, <1>3 DEF Device, Over
  <2> QED BY <1>6, <2>1
<1> QED BY <1>1, <1>2, <1>4, <1>5, <1>7, <1>8 DEF Clean

\* An operation begins: the versions grow, the storage stays.
LEMMA BeginEffect ==
  ASSUME StorageType, ControlType, Clean, NEW w \in Workloads, OpBegin(w)
  PROVE  /\ StorageType' /\ Clean' /\ Survivors' = Survivors /\ UNCHANGED <<media, wcache, cache, evicting>>
         /\ \A p : Dev(p)' = Dev(p) /\ bcache_read_bytes(p)' = bcache_read_bytes(p)
         /\ Len(hist') = Len(hist) + 1 /\ Len(hist) \in Nat
         /\ \A p, v : PageOK(p, v) => PageOK(p, v)'
<1> USE DEF bcVars
<1>1. UNCHANGED <<media, wcache, cache, evicting>> /\ hist' = Append(hist, op') /\ Len(hist) \in Nat
      /\ hist \in Seq(Seq(Items))
  BY DEF OpBegin, ControlType
<1>2. Len(hist') = Len(hist) + 1
  BY <1>1
<1>3. Versions \subseteq Versions'
  BY <1>1, <1>2 DEF Versions
<1>4. HomePage \subseteq HomePage'
  BY <1>3 DEF HomePage
<1>5. ASSUME NEW p, NEW v, PageOK(p, v) PROVE PageOK(p, v)'
  <2>1. p \in Homes => v \in HomePage'
    BY <1>4, <1>5 DEF PageOK
  <2>2. p = JSB => v \in SuperBlock
    BY <1>5 DEF PageOK
  <2>3. p \in LogPages \ {JSB} => IsLogBlock(v)'
    <3>1. \A n, f : f \in [1..n -> HomePage] => f \in [1..n -> HomePage']
      BY <1>4
    <3> QED BY <1>5, <3>1 DEF PageOK, IsLogBlock
  <2> QED BY <2>1, <2>2, <2>3 DEF PageOK
<1>6. StorageType'
  BY <1>1, <1>5 DEF StorageType
<1>7. \A p : Dev(p)' = Dev(p) /\ bcache_read_bytes(p)' = bcache_read_bytes(p)
  BY <1>1 DEF Dev, bcache_read_bytes
<1>8. Survivors' = Survivors
  BY <1>1 DEF Survivors, Over, Restrict
<1>9. Clean'
  BY <1>1, <1>7 DEF Clean
<1> QED BY <1>1, <1>2, <1>5, <1>6, <1>7, <1>8, <1>9

\* An operation writes a page through the cache, file data or metadata.
LEMMA WriteEffect ==
  ASSUME StorageType, ControlType, Locking, Clean, DataWrite \/ MetaWrite
  PROVE  /\ StorageType' /\ Clean'
         /\ op # <<>> /\ PageOf(Head(op)) \in Homes \ evicting /\ phase = "mounted"
         /\ \E v \in HomePage : Put(PageOf(Head(op)), v) /\ v.ver = Len(hist)
         /\ UNCHANGED <<hist, logged, tx, exposed, phase, faults, mishaps, evicting, quarantined, stack,
                        ok, head, seq, recover_flag, rec, stable, attempts, media, wcache>>
<1> USE DEF bcVars, callVars, ejVars, hookVars, opVars, mountVars, hVars
<1>1. /\ op # <<>>
      /\ UNCHANGED <<hist, logged, tx, exposed, phase, faults, mishaps, evicting, quarantined, stack,
                     ok, head, seq, recover_flag, rec, stable, attempts, media, wcache>>
  BY DEF DataWrite, MetaWrite
<1> DEFINE p == PageOf(Head(op))
<1>2. p \in Homes /\ phase = "mounted"
  BY <1>1, HeadTail, PageKinds DEF ControlType, Locking
<1>8. Head(op) = Data => p = Data
  BY JournalAssumption DEF PageOf
<1>9. p \notin evicting
  BY <1>8 DEF DataWrite, MetaWrite, Writable
<1>3. Len(hist) \in Versions
  BY DEF ControlType, Versions
<1>4. bcache_read_bytes(p) \in HomePage
  BY <1>2, VerType
<1>5. PICK v \in HomePage : v.ver = Len(hist) /\ cache' = bcache_write_bytes(cache, p, v)
  <2>1. CASE DataWrite
    <3>1. [ver |-> Len(hist), rec |-> FALSE] \in HomePage
      BY <1>3 DEF HomePage
    <3>2. cache' = bcache_write_bytes(cache, p, [ver |-> Len(hist), rec |-> FALSE])
      BY <1>8, <2>1 DEF DataWrite
    <3> QED BY <3>1, <3>2
  <2>2. CASE MetaWrite
    <3> DEFINE v == [bcache_read_bytes(p) EXCEPT !.ver = Len(hist)]
    <3>1. v \in HomePage /\ v.ver = Len(hist)
      BY <1>3, <1>4 DEF HomePage
    <3>2. cache' = bcache_write_bytes(cache, p, v)
      BY <2>2 DEF MetaWrite
    <3> QED BY <3>1, <3>2
  <2> QED BY <2>1, <2>2
<1> HIDE DEF p
<1>6. PageOK(p, v)
  BY <1>2, PageKinds DEF PageOK
<1>7. StorageType' /\ Clean' /\ Put(p, v)
  BY <1>1, <1>2, <1>5, <1>6, PutStore
<1> QED BY <1>1, <1>2, <1>5, <1>7, <1>9 DEF p

CallerKind(t) ==
  \/ StillStep(t) \/ SyncWrite(t) \/ FlushStep(t) \/ FlagStep(t) \/ LogStep(t)
  \/ CommitData(t) \/ CommitCheckpoint(t) \/ MarkStep(t) \/ CopyStep(t) \/ PartStep(t)
  \/ Closed(t)

\* Every step of a caller is of one of these kinds.
LEMMA CallerKinds == ASSUME NEW t, CallerStep(t) PROVE CallerKind(t)
  BY DEF CallerStep, CallerKind, StillStep, FlushStep, FlagStep, LogStep, MarkStep, CopyStep, PartStep

\* What CommitData hands to the device.
LEMMA DataEffect ==
  ASSUME StorageType, ControlType, Clean, NEW t, CommitData(t)
  PROVE  /\ StorageType' /\ Clean'
         /\ \E k \in 0..Len(tx) :
              /\ \A q \in Pages : Dev(q)' = IF q \in DOMAIN LogData(k) THEN LogData(k)[q] ELSE Dev(q)
              /\ \A q \in Homes \cup {JSB} : bcache_read_bytes(q)' = bcache_read_bytes(q)
              /\ \A m \in Survivors' : \E n \in Survivors :
                   \A q \in Pages : m[q] = n[q] \/ (q \in DOMAIN LogData(k) /\ m[q] = LogData(k)[q])
              /\ \/ k = Len(tx) /\ Goto(t, "dataFlush") /\ ok' = ok
                 \/ CommitOut(t, FALSE)
         /\ UNCHANGED <<op, writing, hist, logged, tx, exposed, phase, evicting, quarantined,
                        head, seq, recover_flag, rec, stable, attempts, media, cache>>
<1> USE DEF bcVars, callVars, ejVars, hookVars, opVars, mountVars, hVars
<1>1. UNCHANGED <<op, writing, hist, logged, tx, exposed, phase, evicting, quarantined,
                  head, seq, recover_flag, rec, stable, attempts, media, cache>>
  BY DEF CommitData, CommitOut
<1>0. tx \in Seq(Homes) /\ Len(tx) \in Nat
  BY DEF ControlType
<1>2. PICK k \in 0..Len(tx) :
        /\ wcache' = Over(LogData(k), wcache)
        /\ \/ k = Len(tx) /\ Goto(t, "dataFlush") /\ ok' = ok
           \/ CommitOut(t, FALSE)
  <2> DEFINE n == Len(tx)
  <2>1. n \in 0..n /\ \A k \in 0..(n - 1) : k \in 0..n
    BY <1>0
  <2> HIDE DEF n
  <2>2. \/ wcache' = Over(LogData(n), wcache) /\ Goto(t, "dataFlush") /\ ok' = ok
        \/ \E k \in 0..(n - 1) : wcache' = Over(LogData(k), wcache) /\ CommitOut(t, FALSE)
    BY DEF CommitData, n
  <2> QED BY <2>1, <2>2 DEF n
<1>3. UNCHANGED <<media, cache>> /\ hist' = hist
  BY <1>1
<1>4. /\ StorageType' /\ Clean'
      /\ \A q \in Pages : Dev(q)' = IF q \in DOMAIN LogData(k) THEN LogData(k)[q] ELSE Dev(q)
      /\ \A q \in Homes \cup {JSB} : bcache_read_bytes(q)' = bcache_read_bytes(q)
      /\ \A m \in Survivors' : \E n \in Survivors :
           \A q \in Pages : m[q] = n[q] \/ (q \in DOMAIN LogData(k) /\ m[q] = LogData(k)[q])
  BY <1>2, <1>3, DataStore
<1> QED BY <1>1, <1>2, <1>4

\* The holds of the transaction are released.
LEMMA ReleaseEffect ==
  ASSUME StorageType, Clean, NEW t, CommitCheckpoint(t)
  PROVE  /\ StorageType' /\ Clean' /\ Survivors' = Survivors
         /\ \A q \in Pages : Dev(q)' = Dev(q) /\ bcache_read_bytes(q)' = bcache_read_bytes(q)
         /\ DOMAIN cache' = DOMAIN cache
         /\ \A q \in DOMAIN cache : /\ cache'[q].data = cache[q].data
                                    /\ cache'[q].dirty <=> cache[q].dirty
         /\ \A q \in DOMAIN cache : ~cache'[q].held
         /\ tx' = <<>> /\ At(t, "checkpoint") /\ Call(t, "checkpointed", Sync("HELD"))
         /\ UNCHANGED <<op, writing, hist, logged, exposed, phase, faults, mishaps, evicting, quarantined,
                        ok, head, seq, recover_flag, rec, stable, attempts, media, wcache, lock>>
<1> USE DEF bcVars, callVars, ejVars, hookVars, opVars, mountVars, hVars
<1>1. /\ tx' = <<>> /\ At(t, "checkpoint") /\ Call(t, "checkpointed", Sync("HELD"))
      /\ cache' = bcache_release_holds(cache)
      /\ UNCHANGED <<op, writing, hist, logged, exposed, phase, faults, mishaps, evicting, quarantined,
                     ok, head, seq, recover_flag, rec, stable, attempts, media, wcache, lock>>
  BY DEF CommitCheckpoint
<1>2. hist' = hist /\ UNCHANGED <<media, wcache>>
  BY <1>1
<1>3. /\ StorageType' /\ Clean' /\ Survivors' = Survivors
      /\ \A q \in Pages : Dev(q)' = Dev(q) /\ bcache_read_bytes(q)' = bcache_read_bytes(q)
      /\ DOMAIN cache' = DOMAIN cache
      /\ \A q \in DOMAIN cache : /\ cache'[q].data = cache[q].data
                                 /\ cache'[q].dirty <=> cache[q].dirty
  BY <1>1, <1>2, HoldStore
<1>4. \A q \in DOMAIN cache : ~cache'[q].held
  <2>1. ASSUME NEW q \in DOMAIN cache PROVE ~cache'[q].held
    <3>1. cache'[q] = [cache[q] EXCEPT !.held = FALSE] /\ IsEntry(cache[q])
      BY <1>1 DEF bcache_release_holds, StorageType
    <3> QED BY <3>1, HeldUpdate
  <2> QED BY <2>1
<1> QED BY <1>1, <1>3, <1>4

\* The page of the metadata write is held and recorded, or the transaction goes.
LEMMA RecordEffect ==
  ASSUME StorageType, ControlType, Locking, Clean, MetaRecord
  PROVE  /\ StorageType' /\ Clean' /\ Survivors' = Survivors
         /\ \A q \in Pages : Dev(q)' = Dev(q) /\ bcache_read_bytes(q)' = bcache_read_bytes(q)
         /\ DOMAIN cache' = DOMAIN cache
         /\ \A q \in DOMAIN cache : /\ cache'[q].data = cache[q].data
                                    /\ cache'[q].dirty <=> cache[q].dirty
         /\ writing /\ writing' = FALSE /\ PageOf(Head(op)) \in Homes /\ op # <<>> /\ phase = "mounted"
         /\ \/ /\ op' = Tail(op) /\ Range(tx') = Range(tx) \cup {PageOf(Head(op))}
               /\ \A q \in DOMAIN cache : cache'[q].held <=> cache[q].held \/ q = PageOf(Head(op))
            \/ /\ op' = <<>> /\ tx' = <<>>
               /\ \A q \in DOMAIN cache : ~cache'[q].held
         /\ UNCHANGED <<hist, logged, exposed, phase, faults, mishaps, evicting, quarantined, stack,
                        ok, head, seq, recover_flag, rec, stable, attempts, media, wcache>>
<1> USE DEF bcVars, callVars, ejVars, hookVars, opVars, mountVars, hVars
<1> DEFINE p == PageOf(Head(op))
           fits == p \in Range(tx) \/ Len(tx) < TxCapacity
<1>1. /\ writing /\ writing' = FALSE
      /\ UNCHANGED <<hist, logged, exposed, phase, faults, mishaps, evicting, quarantined, stack,
                     ok, head, seq, recover_flag, rec, stable, attempts, media, wcache>>
      /\ fits => /\ op' = Tail(op) /\ cache' = bcache_hold_page(cache, p)
                 /\ tx' = IF p \in Range(tx) THEN tx ELSE Append(tx, p)
      /\ ~fits => op' = <<>> /\ tx' = <<>> /\ cache' = bcache_release_holds(cache)
  BY DEF MetaRecord
<1>2. p \in Homes /\ op # <<>> /\ phase = "mounted"
  BY <1>1, HeadTail, PageKinds DEF Locking, ControlType
<1> HIDE DEF p, fits
<1>3. hist' = hist /\ UNCHANGED <<media, wcache>>
  BY <1>1
<1>4. cache' = bcache_hold_page(cache, p) \/ cache' = bcache_release_holds(cache)
  BY <1>1
<1>5. /\ StorageType' /\ Clean' /\ Survivors' = Survivors
      /\ \A q \in Pages : Dev(q)' = Dev(q) /\ bcache_read_bytes(q)' = bcache_read_bytes(q)
      /\ DOMAIN cache' = DOMAIN cache
      /\ \A q \in DOMAIN cache : /\ cache'[q].data = cache[q].data
                                 /\ cache'[q].dirty <=> cache[q].dirty
  BY <1>3, <1>4, HoldStore
<1>6. CASE fits
  <2>1. \A q \in DOMAIN cache : cache'[q].held <=> cache[q].held \/ q = p
    <3>1. ASSUME NEW q \in DOMAIN cache PROVE cache'[q].held <=> cache[q].held \/ q = p
      <4>1. cache'[q] = [cache[q] EXCEPT !.held = cache[q].held \/ q = p] /\ IsEntry(cache[q])
        BY <1>1, <1>6 DEF bcache_hold_page, StorageType
      <4>2. cache'[q].held = (cache[q].held \/ q = p)
        BY <4>1, HeldUpdate
      <4> QED BY <4>2
    <3> QED BY <3>1
  <2>2. Range(tx') = Range(tx) \cup {p}
    <3>1. tx \in Seq(Homes)
      BY DEF ControlType
    <3>2. CASE p \in Range(tx)
      BY <1>1, <1>6, <3>2
    <3>3. CASE p \notin Range(tx)
      <4>1. tx' = Append(tx, p)
        BY <1>1, <1>6, <3>3
      <4>2. /\ Len(tx) \in Nat /\ DOMAIN tx = 1..Len(tx) /\ DOMAIN tx' = 1..(Len(tx) + 1)
            /\ \A i \in 1..Len(tx) : tx'[i] = tx[i]
            /\ tx'[Len(tx) + 1] = p
        BY <3>1, <4>1, <1>2
      <4>3. \A i \in DOMAIN tx' : i \in DOMAIN tx \/ i = Len(tx) + 1
        BY <4>2
      <4>4. Len(tx) + 1 \in DOMAIN tx' /\ DOMAIN tx \subseteq DOMAIN tx'
        BY <4>2
      <4> HIDE <4>1
      <4> QED BY <4>2, <4>3, <4>4 DEF Range
    <3> QED BY <3>2, <3>3
  <2> QED BY <1>1, <1>2, <1>5, <1>6, <2>1, <2>2 DEF p
<1>7. CASE ~fits
  <2>1. \A q \in DOMAIN cache : ~cache'[q].held
    <3>1. ASSUME NEW q \in DOMAIN cache PROVE ~cache'[q].held
      <4>1. cache'[q] = [cache[q] EXCEPT !.held = FALSE] /\ IsEntry(cache[q])
        BY <1>1, <1>7 DEF bcache_release_holds, StorageType
      <4> QED BY <4>1, HeldUpdate
    <3> QED BY <3>1
  <2> QED BY <1>1, <1>2, <1>5, <1>7, <2>1 DEF p
<1> QED BY <1>6, <1>7

\* The end of a quarantine touches no storage.
LEMMA QuarantineEffect ==
  ASSUME StorageType, Clean, QuarantinePasses
  PROVE  StorageType' /\ Clean' /\ Mild({}) /\ Covered({}) /\ Survivors' = Survivors
         /\ UNCHANGED <<media, wcache, cache, evicting, exposed, jVars, hVars, faults>>
         /\ HoldsStay
         /\ quarantined' = FALSE
<1>1. Unstored /\ hist' = hist
  BY DEF QuarantinePasses, QuarantineEnds, Unstored, hVars
<1> QED BY <1>1, UnstoredMild DEF QuarantinePasses, QuarantineEnds, hVars

\* Every step keeps the storage typed, and clean pages equal to the device.
LEMMA StoreStep ==
  ASSUME Base, Scanning, Next
  PROVE  StorageType' /\ Clean'
<1> USE DEF Base
<1>1. ASSUME NEW t \in Callers, CallerStep(t) PROVE StorageType' /\ Clean'
  <2>1. CASE StillStep(t)
    BY <2>1, StillStore DEF MildStep
  <2>2. CASE SyncWrite(t)
    BY <2>2, SyncStore DEF MildStep
  <2>3. CASE FlushStep(t)
    BY <2>3, FlushStore DEF MildStep
  <2>4. CASE FlagStep(t)
    BY <2>4, FlagEffect
  <2>5. CASE LogStep(t)
    BY <2>5, LogEffect
  <2>6. CASE CommitData(t)
    BY <2>6, DataEffect
  <2>7. CASE CommitCheckpoint(t)
    BY <2>7, ReleaseEffect
  <2>8. CASE MarkStep(t)
    BY <2>8, MarkEffect
  <2>9. CASE CopyStep(t)
    BY <2>9, CopyEffect
  <2>10. CASE Closed(t)
    BY <2>10, CloseEffect
  <2>11. CASE PartStep(t)
    BY <2>11, PartEffect
  <2> QED BY <1>1, CallerKinds, <2>1, <2>2, <2>3, <2>4, <2>5, <2>6, <2>7, <2>8, <2>9, <2>10, <2>11
      DEF CallerKind
<1>2. ASSUME NEW w \in Workloads, OpBegin(w) PROVE StorageType' /\ Clean'
  BY <1>2, BeginEffect
<1>3. CASE DataWrite \/ MetaWrite
  BY <1>3, WriteEffect
<1>4. CASE MetaRecord
  BY <1>4, RecordEffect
<1>5. CASE EvictPage
  BY <1>5, EvictStore DEF MildStep
<1>6. CASE QuarantinePasses
  BY <1>6, QuarantineEffect
<1>7. CASE Crash
  BY <1>7, CrashEffect
<1>8. CASE EvictDone
  BY <1>8, RecycleStore DEF MildStep
<1> QED BY <1>1, <1>2, <1>3, <1>4, <1>5, <1>6, <1>7, <1>8 DEF Next

\* No step makes the page dirty that is being recycled.
LEMMA VictimStep ==
  ASSUME Base, Scanning, Next
  PROVE  Victims'
<1> USE DEF Base
<1>0. ASSUME evicting' = evicting,
             \A p \in DOMAIN cache' : cache'[p].dirty => p \in DOMAIN cache /\ cache[p].dirty
      PROVE  Victims'
  BY <1>0 DEF Victims
<1>00. ASSUME NEW T, Mild(T), evicting' = evicting PROVE Victims'
  BY <1>0, <1>00 DEF Mild
<1>01. ASSUME NEW p, NEW v, Put(p, v), p \notin evicting, evicting' = evicting PROVE Victims'
  BY <1>01 DEF Victims, Put
<1>1. ASSUME NEW t \in Callers, CallerStep(t) PROVE Victims'
  <2>1. CASE StillStep(t)
    BY <2>1, <1>00, StillStore
  <2>2. CASE SyncWrite(t)
    <3>1. evicting' = evicting
      BY <2>2 DEF SyncWrite, WritePages, WritePagesFail, bcVars
    <3> QED BY <2>2, <3>1, <1>00, SyncStore DEF MildStep
  <2>3. CASE FlushStep(t)
    BY <2>3, <1>00, FlushStore DEF MildStep
  <2>4. CASE FlagStep(t)
    BY <2>4, <1>01, FlagEffect
  <2>5. CASE LogStep(t)
    BY <2>5, <1>0, LogEffect DEF LogPut
  <2>6. CASE CommitData(t)
    BY <2>6, <1>0, DataEffect
  <2>7. CASE CommitCheckpoint(t)
    BY <2>7, <1>0, ReleaseEffect
  <2>8. CASE MarkStep(t)
    BY <2>8, <1>01, MarkEffect
  <2>9. CASE CopyStep(t)
    BY <2>9, CopyEffect DEF Victims
  <2>10. CASE Closed(t)
    BY <2>10, CloseEffect DEF Victims
  <2>11. CASE PartStep(t)
    BY <2>11, PartEffect DEF Victims
  <2> QED BY <1>1, CallerKinds, <2>1, <2>2, <2>3, <2>4, <2>5, <2>6, <2>7, <2>8, <2>9, <2>10, <2>11
      DEF CallerKind
<1>2. ASSUME NEW w \in Workloads, OpBegin(w) PROVE Victims'
  BY <1>2, BeginEffect DEF Victims
<1>3. CASE DataWrite \/ MetaWrite
  BY <1>3, <1>01, WriteEffect
<1>4. CASE MetaRecord
  BY <1>4, <1>0, RecordEffect
<1>5. CASE EvictPage
  <2>1. CASE evicting' = evicting
    BY <1>5, <2>1, <1>00, EvictStore DEF MildStep
  <2>2. CASE \E p \in DOMAIN cache : evicting' = {p} /\ ~cache'[p].dirty
    BY <2>2 DEF Victims
  <2> QED BY <1>5, <2>1, <2>2, EvictStore
<1>6. CASE QuarantinePasses
  BY <1>6, <1>00, QuarantineEffect
<1>7. CASE Crash
  BY <1>7, CrashEffect DEF Victims
<1>8. CASE EvictDone
  BY <1>8, RecycleStore DEF Victims
<1> QED BY <1>1, <1>2, <1>3, <1>4, <1>5, <1>6, <1>7, <1>8 DEF Next

\* Between two mounts no task is in a call.
LEMMA OffStacks ==
  ASSUME ControlType, Shape, phase = "off", NEW u \in Callers
  PROVE  stack[u] = <<>>
BY DEF Shape, Stacked, Entry

\* Every step keeps the control state well formed.
LEMMA ControlStep ==
  ASSUME Base, Scanning, Next
  PROVE  ControlType' /\ Shape' /\ Locking'
<1> USE DEF Base
<1>1. ASSUME NEW t \in Callers, CallerStep(t) PROVE ControlType' /\ Shape' /\ Locking'
  <2>1. CASE SyncTest(t) \/ HookCall(t) \/ HookLoad(t) \/ HookReturn(t) \/ SyncWrite(t) \/ SyncFlush(t)
    BY <2>1, BaseSync
  <2>2. CASE CommitBegin(t)
    BY <2>2, BaseBegin
  <2>3. CASE \/ CommitLowered(t) \/ CommitRaise(t) \/ CommitRaised(t) \/ CommitDescriptor(t)
             \/ CommitData(t) \/ CommitStart(t) \/ CommitBlock(t) \/ CommitFlush(t)
             \/ CommitDurable(t) \/ CommitCheckpoint(t) \/ CommitEmpty(t) \/ CommitLower(t)
             \/ CommitError(t)
    BY <2>3, BaseCommit
  <2>4. CASE SyncCall(t) \/ FsyncStep(t) \/ UnmountCommit(t) \/ UnmountSync(t) \/ Closed(t)
    BY <2>4, BaseCall
  <2>5. CASE Mount(t) \/ Recover(t) \/ ScanPass(t) \/ ReplayPass(t) \/ RecoverDefer(t)
               \/ RecoverEmpty(t) \/ MountError(t) \/ Open(t)
    BY <2>5, BaseMount, OffStacks
  <2> QED BY <1>1, <2>1, <2>2, <2>3, <2>4, <2>5 DEF CallerStep
<1>2. CASE (\E w \in Workloads : OpBegin(w)) \/ DataWrite \/ MetaWrite \/ MetaRecord
  BY <1>2, BaseOps
<1>3. CASE EvictPage \/ EvictDone \/ QuarantinePasses \/ Crash
  BY <1>3, BaseEnv
<1> QED BY <1>1, <1>2, <1>3 DEF Next

\* Every step keeps the base of the invariant.
LEMMA BaseStep ==
  ASSUME Base, Scanning, Next
  PROVE  Base'
BY StoreStep, ControlStep, VictimStep DEF Base

\* Outside a mount nothing is open and nothing is cached.
Idle ==
  /\ phase \in {"off", "mounting", "refused"} => tx = <<>>
  /\ phase = "off" => DOMAIN cache = {} /\ ~quarantined /\ \A t \in Callers : ok[t]

\* What the steps that touch no storage leave alone.
LEMMA StillFrame ==
  ASSUME NEW t, StillStep(t), ~Open(t)
  PROVE  /\ UNCHANGED <<op, writing, hist, logged, tx, head, seq, attempts, exposed, quarantined>>
         /\ Hooked' => Hooked
<1> USE DEF bcVars, callVars, ejVars, hookVars, opVars, mountVars, hVars
<1>1. CASE SyncTest(t) \/ HookCall(t) \/ HookLoad(t) \/ HookReturn(t)
  BY <1>1 DEF SyncTest, HookCall, HookLoad, HookReturn, Hooked
<1>2. CASE CommitLowered(t) \/ CommitRaised(t) \/ CommitError(t) \/ (SyncFlush(t) /\ DevError)
  BY <1>2 DEF CommitLowered, CommitRaised, CommitError, SyncFlush, DevError, Hooked
<1>3. CASE \/ (CommitBegin(t) /\ ~(tx = <<>> /\ recover_flag))
           \/ (CommitRaise(t) /\ ~(ok[t] /\ ~recover_flag))
           \/ (CommitEmpty(t) /\ ~ok[t])
  BY <1>3 DEF CommitBegin, CommitRaise, CommitEmpty, Hooked
<1>4. CASE SyncCall(t) \/ FsyncStep(t) \/ UnmountCommit(t) \/ UnmountSync(t)
  BY <1>4 DEF SyncCall, FsyncStep, UnmountCommit, UnmountSync, Hooked
<1>5. CASE \/ Mount(t) \/ Recover(t) \/ ScanPass(t) \/ RecoverDefer(t) \/ ReplayPass(t)
           \/ (MountError(t) /\ UNCHANGED cache)
  BY <1>5 DEF Mount, Recover, ScanPass, RecoverDefer, ReplayPass, MountError, Refuse, DevError, Hooked
<1> QED BY <1>1, <1>2, <1>3, <1>4, <1>5 DEF StillStep

\* What the device flushes leave alone.
LEMMA FlushFrame ==
  ASSUME NEW t, FlushStep(t)
  PROVE  /\ UNCHANGED <<op, writing, hist, tx, exposed, phase, quarantined, rec, faults, stable>>
         /\ ~CommitDurable(t) => UNCHANGED <<logged, attempts, head, seq>>
<1> USE DEF bcVars, callVars, ejVars, hookVars, opVars, mountVars, hVars
<1>1. CASE SyncFlush(t) /\ ~DevError
  BY <1>1 DEF SyncFlush, DevFlush
<1>2. CASE CommitFlush(t)
  BY <1>2 DEF CommitFlush, DevFlush
<1>3. CASE CommitDurable(t)
  BY <1>3 DEF CommitDurable, DevFlush
<1> QED BY <1>1, <1>2, <1>3 DEF FlushStep

\* What the writes of a sync leave alone.
LEMMA WriteFrame ==
  ASSUME NEW t, SyncWrite(t)
  PROVE  UNCHANGED <<op, writing, hist, tx, phase, rec, stable, logged, attempts, head, seq>>
BY DEF SyncWrite, bcVars, callVars, ejVars, hookVars, opVars, mountVars, hVars

\* Someone in the commit sequence keeps the operations from writing metadata.
LEMMA CommitQuiet ==
  ASSUME ControlType, Locking, NEW t \in Callers, stack[t] # <<>>, Top(t).pc \in CommitIn
  PROVE  lock.owner = t /\ ~writing
<1>1. Len(stack[t]) \in DOMAIN stack[t]
  <2>1. stack[t] \in Seq(Frames) /\ Len(stack[t]) \in Nat \ {0}
    BY TopFrame
  <2> QED BY <2>1
<1>2. Inside(t) # {}
  BY <1>1 DEF Inside, Top
<1>3. "op" \notin Callers
  BY JournalAssumption
<1> QED BY <1>2, <1>3 DEF Locking

\* The steps of a caller keep the pins.
LEMMA PinCaller ==
  ASSUME Base, Scanning, Idle, Pins, NEW t \in Callers, CallerStep(t)
  PROVE  Pins'
<1> USE DEF Base
<1>0. ASSUME tx' = <<>>, writing' = FALSE, \A p \in DOMAIN cache' : ~cache'[p].held
      PROVE  Pins'
  <2>1. Range(tx') = {}
    BY <1>0, Nil DEF Range
  <2> QED BY <1>0, <2>1 DEF Pins, Pinned, Loose, HoldsMatchTx
<1>1. CASE StillStep(t) /\ ~Open(t)
  <2>1. PinStep
    BY <1>1, StillStore, MildPins DEF MildStep
  <2> QED BY <1>1, <2>1, StillFrame, PinKeep
<1>2. CASE Open(t)
  <2>1. phase = "mounting"
    <3>1. stack[t] # <<>> /\ Top(t).pc = "open"
      BY <1>2 DEF Open, At
    <3> QED BY <3>1, TopKind DEF Entry, SyncPcs, CommitPcs, CommitIn, MountPcs
  <2>2. tx = <<>> /\ UNCHANGED <<op, writing, tx>>
    BY <1>2, <2>1 DEF Idle, Open, opVars
  <2>3. StillStep(t)
    BY <1>2 DEF StillStep
  <2>4. PinStep
    BY <2>3, StillStore, MildPins DEF MildStep
  <2> QED BY <2>2, <2>4, PinKeep
<1>3. CASE SyncWrite(t)
  <2>0. evicting' = evicting
    BY <1>3 DEF SyncWrite, WritePages, WritePagesFail, bcVars
  <2>1. PinStep
    BY <1>3, <2>0, SyncStore, MildPins DEF MildStep
  <2> QED BY <1>3, <2>1, WriteFrame, PinKeep DEF Hooked
<1>4. CASE FlushStep(t)
  <2>1. PinStep
    BY <1>4, FlushStore, MildPins DEF MildStep
  <2> QED BY <1>4, <2>1, FlushFrame, PinKeep DEF Hooked
<1>6. CASE FlagStep(t)
  <2>0. PICK v \in HomePage : Put(SB, v) /\ v.ver = bcache_read_bytes(SB).ver
    BY <1>6, FlagEffect
  <2>1. UNCHANGED <<op, writing, tx, exposed, phase, evicting>>
    BY <1>6, FlagEffect
  <2>2. PinStep
    BY <2>0, <2>1, PutPins
  <2> QED BY <2>1, <2>2, PinKeep DEF Hooked
<1>7. CASE LogStep(t)
  <2>1. UNCHANGED <<op, writing, tx, exposed, phase, evicting>> /\ LogTarget(t) \in LogPages
        /\ LogPut(LogTarget(t), LogBlock(t))
    BY <1>7, LogEffect
  <2>2. PinStep
    BY <2>1, LogPins, PageKinds DEF LogPut
  <2> QED BY <2>1, <2>2, PinKeep DEF Hooked
<1>8. CASE CommitData(t)
  <2>1. UNCHANGED <<op, writing, tx, exposed, phase, cache, evicting>>
    BY <1>8, DataEffect
  <2>2. PinStep
    BY <2>1, LogPins
  <2> QED BY <2>1, <2>2, PinKeep DEF Hooked
<1>9. CASE CommitCheckpoint(t)
  <2>1. /\ tx' = <<>> /\ DOMAIN cache' = DOMAIN cache /\ At(t, "checkpoint")
        /\ \A q \in DOMAIN cache : ~cache'[q].held
        /\ UNCHANGED <<op, writing>>
    BY <1>9, ReleaseEffect
  <2>2. writing' = FALSE
    <3>1. stack[t] # <<>> /\ Top(t).pc \in CommitIn
      BY <2>1 DEF At, CommitIn
    <3> QED BY <2>1, <3>1, CommitQuiet DEF ControlType
  <2> QED BY <1>0, <2>1, <2>2
<1>10. CASE MarkStep(t)
  <2>1. Put(JSB, Super(0, rec.seq, rec.head)) /\ UNCHANGED <<op, writing, tx, exposed, phase, evicting>>
    BY <1>10, MarkEffect
  <2>2. PinStep
    BY <2>1, PutPins
  <2> QED BY <2>1, <2>2, PinKeep DEF Hooked
<1>11. CASE CopyStep(t) \/ PartStep(t)
  <2>1. /\ phase = "mounting" /\ \A p \in DOMAIN cache' : ~cache'[p].held
        /\ UNCHANGED <<op, writing, tx>>
    BY <1>11, CopyEffect, PartEffect
  <2>2. tx = <<>> /\ op = <<>> /\ ~writing /\ writing \in BOOLEAN
    BY <2>1 DEF Idle, Locking, ControlType
  <2> QED BY <1>0, <2>1, <2>2
<1>12. CASE Closed(t)
  <2>1. DOMAIN cache' = {} /\ tx' = <<>> /\ phase' = "off" /\ op' = op /\ writing' = writing
    BY <1>12, CloseEffect DEF Closed, Forget, opVars
  <2>2. phase # "mounted"
    <3>1. stack[t] # <<>> /\ Top(t).pc = "closed"
      BY <1>12 DEF Closed, At
    <3> QED BY <3>1, TopKind DEF Entry, SyncPcs, CommitPcs, CommitIn, MountPcs
  <2>3. op = <<>> /\ ~writing /\ writing \in BOOLEAN
    BY <2>2 DEF Locking, ControlType
  <2> QED BY <1>0, <2>1, <2>3
<1> QED BY CallerKinds, <1>1, <1>2, <1>3, <1>4, <1>6, <1>7, <1>8, <1>9, <1>10, <1>11, <1>12 DEF CallerKind

\* The steps of an operation keep the pins.
LEMMA PinOps ==
  ASSUME Base, Scanning, Idle, Pins,
         (\E w \in Workloads : OpBegin(w)) \/ DataWrite \/ MetaWrite \/ MetaRecord
  PROVE  Pins'
<1> USE DEF Base
<1>1. ASSUME NEW w \in Workloads, OpBegin(w) PROVE Pins'
  <2>1. op = <<>> /\ UNCHANGED <<writing, tx, phase, exposed, cache, evicting>>
    BY <1>1 DEF OpBegin, ejVars, bcVars, mountVars
  <2>10. ~writing
    BY <2>1 DEF Locking
  <2> QED BY <2>1, <2>10 DEF Pins, Pinned, Loose, HoldsMatchTx, Hooked
<1>2. CASE DataWrite \/ MetaWrite
  <2> DEFINE p == PageOf(Head(op))
  <2>1. /\ op # <<>> /\ p \in Homes \ evicting /\ phase = "mounted"
        /\ UNCHANGED <<tx, exposed, phase, evicting>>
    BY <1>2, WriteEffect
  <2>2. PICK v \in HomePage : Put(p, v) /\ v.ver = Len(hist)
    BY <1>2, WriteEffect
  <2> HIDE DEF p
  <2>3. \A q \in DOMAIN cache' : cache'[q].held => q \in DOMAIN cache /\ cache[q].held
    BY <2>2 DEF Put
  <2>4. \A q \in DOMAIN cache : cache[q].held => q \in DOMAIN cache' /\ cache'[q].held
    BY <2>2 DEF Put
  <2>5. HoldsMatchTx'
    BY <2>1, <2>3, <2>4 DEF Pins, HoldsMatchTx, Hooked
  <2>6. Loose'
    BY <2>1, <2>3 DEF Pins, Loose
  <2>7. CASE DataWrite
    <3>1. Head(op) = Data /\ writing' = writing
      BY <2>7 DEF DataWrite
    <3>2. ~writing
      BY <3>1 DEF Locking
    <3> QED BY <2>5, <2>6, <3>1, <3>2 DEF Pins, Pinned
  <2>8. CASE MetaWrite
    <3>1. op' = op
      BY <2>8 DEF MetaWrite
    <3>2. p \in DOMAIN cache' /\ cache'[p].dirty
      BY <2>2 DEF Put
    <3>3. Pinned'
      BY <2>1, <3>1, <3>2 DEF Pinned, p
    <3> QED BY <2>5, <2>6, <3>3 DEF Pins
  <2> QED BY <1>2, <2>7, <2>8
<1>3. CASE MetaRecord
  <2> DEFINE p == PageOf(Head(op))
  <2>1. /\ writing /\ writing' = FALSE /\ p \in Homes /\ op # <<>> /\ phase = "mounted"
        /\ DOMAIN cache' = DOMAIN cache
        /\ UNCHANGED <<exposed, phase, evicting>>
        /\ \/ /\ Range(tx') = Range(tx) \cup {p}
              /\ \A q \in DOMAIN cache : cache'[q].held <=> cache[q].held \/ q = p
           \/ /\ tx' = <<>>
              /\ \A q \in DOMAIN cache : ~cache'[q].held
    BY <1>3, RecordEffect
  <2>2. ~exposed => p \in DOMAIN cache /\ p \notin evicting
    BY <2>1 DEF Pins, Pinned
  <2> HIDE DEF p
  <2>3. CASE /\ Range(tx') = Range(tx) \cup {p}
             /\ \A q \in DOMAIN cache : cache'[q].held <=> cache[q].held \/ q = p
    <3>1. tx' # <<>>
      BY <2>3, Nil DEF Range
    <3>2. HoldsMatchTx'
      BY <2>1, <2>2, <2>3, <3>1 DEF Pins, HoldsMatchTx, Hooked
    <3>3. Loose'
      BY <2>1, <2>2, <2>3 DEF Pins, Loose
    <3> QED BY <2>1, <3>2, <3>3 DEF Pins, Pinned
  <2>4. CASE tx' = <<>> /\ \A q \in DOMAIN cache : ~cache'[q].held
    <3>1. Range(tx') = {}
      BY <2>4, Nil DEF Range
    <3> QED BY <2>1, <2>4, <3>1 DEF Pins, Loose, Pinned, HoldsMatchTx
  <2> QED BY <2>1, <2>3, <2>4
<1> QED BY <1>1, <1>2, <1>3

\* Eviction, the end of a quarantine and a power loss keep the pins.
LEMMA PinEnv ==
  ASSUME Base, Scanning, Idle, Pins, EvictPage \/ EvictDone \/ QuarantinePasses \/ Crash
  PROVE  Pins'
<1> USE DEF Base
<1>1. CASE EvictPage
  <2>1. PinStep
    BY <1>1, EvictStore, MildPins DEF MildStep
  <2>2. UNCHANGED <<op, writing, tx, phase>>
    BY <1>1 DEF EvictPage, jVars, opVars, ejVars, mountVars
  <2> QED BY <2>1, <2>2, PinKeep DEF Hooked
<1>2. CASE QuarantinePasses
  <2>0. exposed' = exposed
    BY <1>2 DEF QuarantinePasses, hVars
  <2>1. PinStep
    BY <1>2, <2>0, QuarantineEffect, MildPins
  <2>2. UNCHANGED <<op, writing, tx, phase>>
    BY <1>2 DEF QuarantinePasses, jVars, opVars, ejVars, mountVars, hVars
  <2> QED BY <2>1, <2>2, PinKeep DEF Hooked
<1>3. CASE Crash
  <2>1. DOMAIN cache' = {} /\ tx' = <<>> /\ phase' = "off" /\ op' = <<>> /\ writing' = FALSE
    BY <1>3, CrashEffect DEF Crash, Forget
  <2>2. Range(tx') = {}
    BY <2>1, Nil DEF Range
  <2> QED BY <2>1, <2>2 DEF Pins, Loose, Pinned, HoldsMatchTx
<1>4. CASE EvictDone
  <2>1. PinStep
    BY <1>4, RecyclePins
  <2>2. UNCHANGED <<op, writing, tx, phase>>
    BY <1>4 DEF EvictDone, jVars, opVars, ejVars, mountVars
  <2> QED BY <2>1, <2>2, PinKeep DEF Hooked
<1> QED BY <1>1, <1>2, <1>3, <1>4

\* Every step keeps the pins.
LEMMA PinsStep ==
  ASSUME Base, Scanning, Idle, Pins, Next
  PROVE  Pins'
BY PinCaller, PinOps, PinEnv DEF Next

Live == phase \in {"mounted", "closing", "unmounting"}

\* Which phases a frame belongs to.
LEMMA CommitPhase ==
  ASSUME ControlType, Shape, NEW t \in Callers, stack[t] # <<>>,
         Top(t).pc \in CommitPcs \cup {"hook", "hooked", "hookDec"}
  PROVE  Hooked /\ Live
<1>1. phase # "off"
  BY OffStacks
<1>2. CASE Len(stack[t]) = 1
  BY <1>1, <1>2, TopKind DEF Entry, SyncPcs, CommitPcs, CommitIn, MountPcs, Hooked, Live
<1>3. CASE Len(stack[t]) # 1
  <2>1. ~Alone
    BY <1>3, TopKind DEF CommitPcs, CommitIn
  <2> QED BY <1>1, <2>1 DEF Alone, Hooked, Live, ControlType
<1> QED BY <1>2, <1>3

\* The frames of the mount are there while it runs.
LEMMA MountPhase ==
  ASSUME ControlType, Shape, NEW t \in Callers, stack[t] # <<>>, Top(t).pc \in MountPcs
  PROVE  phase = "mounting" /\ Len(stack[t]) = 1 /\ Top(t) = stack[t][1]
BY TopKind DEF Entry, SyncPcs, CommitPcs, CommitIn, MountPcs

\* The frames of umount() and fsync() are there in their phases.
LEMMA ClosePhase ==
  ASSUME ControlType, Shape, NEW t \in Callers, stack[t] # <<>>
  PROVE  /\ Top(t).pc = "close" => phase = "closing" /\ Len(stack[t]) = 1
         /\ Top(t).pc = "closed" => phase \in {"unmounting", "refused"} /\ Len(stack[t]) = 1
         /\ Top(t).pc \in {"fsync", "fsynced"} => phase = "mounted" /\ Len(stack[t]) = 1
BY TopKind DEF Entry, SyncPcs, CommitPcs, CommitIn, MountPcs

\* How the steps that touch no storage change the phase.
LEMMA StillPhase ==
  ASSUME ControlType, Shape, NEW t \in Callers, StillStep(t)
  PROVE  \/ phase' = phase /\ phase # "off"
         \/ Mount(t) /\ phase = "off" /\ phase' = "mounting"
         \/ UnmountCommit(t) /\ phase = "mounted" /\ phase' = "closing"
         \/ UnmountSync(t) /\ phase = "closing" /\ phase' = "unmounting"
         \/ Open(t) /\ phase = "mounting" /\ phase' \in {"refused", "mounted"}
         \/ MountError(t) /\ phase = "mounting" /\ phase' = "refused"
<1> USE DEF bcVars, callVars, ejVars, hookVars, opVars, mountVars, hVars
<1>0. stack[t] # <<>> => phase # "off"
  BY OffStacks
<1>1. CASE SyncTest(t) \/ HookCall(t) \/ HookLoad(t) \/ HookReturn(t)
  BY <1>0, <1>1 DEF SyncTest, HookCall, HookLoad, HookReturn, At
<1>2. CASE CommitLowered(t) \/ CommitRaised(t) \/ CommitError(t) \/ (SyncFlush(t) /\ DevError)
  BY <1>0, <1>2 DEF CommitLowered, CommitRaised, CommitError, SyncFlush, At
<1>3. CASE CommitBegin(t) \/ CommitRaise(t) \/ CommitEmpty(t)
  BY <1>0, <1>3 DEF CommitBegin, CommitRaise, CommitEmpty, At
<1>4. CASE SyncCall(t) \/ FsyncStep(t)
  BY <1>0, <1>4 DEF SyncCall, FsyncStep, At
<1>5. CASE UnmountCommit(t)
  BY <1>5 DEF UnmountCommit
<1>6. CASE UnmountSync(t)
  <2>1. stack[t] # <<>> /\ Top(t).pc = "close" /\ phase' = "unmounting"
    BY <1>6 DEF UnmountSync, At
  <2> QED BY <1>6, <2>1, ClosePhase
<1>7. CASE Mount(t)
  BY <1>7 DEF Mount
<1>8. CASE Recover(t) \/ ScanPass(t) \/ RecoverDefer(t) \/ ReplayPass(t)
  BY <1>0, <1>8 DEF Recover, ScanPass, RecoverDefer, ReplayPass, At
<1>9. CASE Open(t)
  <2>1. stack[t] # <<>> /\ Top(t).pc \in MountPcs /\ phase' \in {"refused", "mounted"}
    BY <1>9 DEF Open, Refuse, At, MountPcs
  <2> QED BY <1>9, <2>1, MountPhase
<1>10. CASE MountError(t)
  <2>1. stack[t] # <<>> /\ Top(t).pc \in MountPcs /\ phase' = "refused"
    BY <1>10 DEF MountError, Refuse, At, MountPcs
  <2> QED BY <1>10, <2>1, MountPhase
<1> QED BY <1>1, <1>2, <1>3, <1>4, <1>5, <1>6, <1>7, <1>8, <1>9, <1>10 DEF StillStep

\* Who runs the steps that change what is stored.
LEMMA KindPhase ==
  ASSUME ControlType, Shape, NEW t \in Callers
  PROVE  /\ SyncWrite(t) \/ FlushStep(t) => phase # "off" /\ phase' = phase
         /\ LogStep(t) \/ CommitData(t) \/ CommitCheckpoint(t) =>
              Hooked /\ Live /\ phase' = phase /\ stack[t] # <<>> /\ Top(t).pc \in CommitIn
         /\ CommitDurable(t) => Hooked /\ Live /\ stack[t] # <<>> /\ Top(t).pc \in CommitIn
         /\ CommitFlush(t) => Hooked /\ Live /\ stack[t] # <<>> /\ Top(t).pc \in CommitIn
         /\ FlagStep(t) => phase' = phase /\ (Live \/ phase = "mounting")
         /\ Closed(t) => phase' = "off" /\ phase \in {"unmounting", "refused"}
<1> USE DEF bcVars, callVars, ejVars, hookVars, opVars, mountVars, hVars
<1>0. stack[t] # <<>> => phase # "off"
  BY OffStacks
<1>1. SyncWrite(t) \/ FlushStep(t) => stack[t] # <<>> /\ phase' = phase
  BY DEF SyncWrite, FlushStep, SyncFlush, CommitFlush, CommitDurable, At
<1>2. LogStep(t) \/ CommitData(t) \/ CommitCheckpoint(t) =>
         stack[t] # <<>> /\ Top(t).pc \in CommitIn /\ phase' = phase
  BY DEF LogStep, CommitDescriptor, CommitStart, CommitBlock, CommitEmpty, CommitData,
         CommitCheckpoint, At, CommitIn
<1>3. CommitDurable(t) \/ CommitFlush(t) => stack[t] # <<>> /\ Top(t).pc \in CommitIn
  BY DEF CommitDurable, CommitFlush, At, CommitIn
<1>4. FlagStep(t) => /\ stack[t] # <<>> /\ phase' = phase
                     /\ Top(t).pc \in CommitPcs \/ Top(t).pc \in MountPcs
  BY DEF FlagStep, CommitBegin, CommitRaise, CommitLower, RecoverEmpty, At, CommitPcs, CommitIn, MountPcs
<1>5. Closed(t) => stack[t] # <<>> /\ Top(t).pc = "closed" /\ phase' = "off"
  BY DEF Closed, At, Forget
<1>6. CommitIn \subseteq CommitPcs
  BY PcStrings
<1> QED BY <1>0, <1>1, <1>2, <1>3, <1>4, <1>5, <1>6, CommitPhase, MountPhase, ClosePhase

\* The steps of a caller keep what holds between mounts.
LEMMA IdleCaller ==
  ASSUME Base, Scanning, Idle, NEW t \in Callers, CallerStep(t)
  PROVE  Idle'
<1> USE DEF Base
<1>1. CASE StillStep(t)
  <2>1. UNCHANGED <<cache>>
    BY <1>1, StillStore
  <2>2. UNCHANGED <<tx>>
    <3>1. Open(t) => tx' = tx
      BY DEF Open
    <3> QED BY <1>1, <3>1, StillFrame
  <2>3. CASE phase' = phase /\ phase # "off"
    BY <2>1, <2>2, <2>3 DEF Idle
  <2>4. CASE phase = "off" /\ phase' = "mounting"
    BY <2>1, <2>2, <2>4 DEF Idle
  <2>5. CASE phase' \in {"closing", "unmounting"}
    BY <2>5 DEF Idle
  <2>6. CASE phase = "mounting" /\ phase' \in {"refused", "mounted"}
    BY <2>1, <2>2, <2>6 DEF Idle
  <2> QED BY <1>1, <2>3, <2>4, <2>5, <2>6, StillPhase
<1>2. CASE SyncWrite(t)
  <2>1. tx' = tx /\ phase' = phase /\ phase # "off"
    BY <1>2, WriteFrame, KindPhase
  <2> QED BY <2>1 DEF Idle
<1>3. CASE FlushStep(t)
  <2>1. tx' = tx /\ phase' = phase /\ phase # "off"
    BY <1>3, FlushFrame, KindPhase
  <2> QED BY <2>1 DEF Idle
<1>4. CASE FlagStep(t)
  <2>1. tx' = tx /\ phase' = phase
    BY <1>4, FlagEffect
  <2>2. phase # "off"
    BY <1>4, KindPhase DEF Live
  <2> QED BY <2>1, <2>2 DEF Idle
<1>5. CASE LogStep(t) \/ CommitData(t) \/ CommitCheckpoint(t)
  <2>1. phase' \in {"mounted", "closing"}
    BY <1>5, KindPhase DEF Hooked
  <2> QED BY <2>1 DEF Idle
<1>6. CASE MarkStep(t)
  <2>1. tx' = tx /\ phase' = phase /\ phase = "mounting"
    BY <1>6, MarkEffect
  <2> QED BY <2>1 DEF Idle
<1>7. CASE CopyStep(t) \/ PartStep(t)
  <2>1. tx' = tx /\ phase' \in {"mounting", "refused"} /\ phase = "mounting"
    BY <1>7, CopyEffect, PartEffect DEF Refuse
  <2> QED BY <2>1 DEF Idle
<1>8. CASE Closed(t)
  <2>1. DOMAIN cache' = {} /\ phase' = "off" /\ tx' = <<>> /\ quarantined' = FALSE
        /\ ok' = [u \in Callers |-> TRUE]
    BY <1>8, CloseEffect DEF Closed, Forget
  <2> QED BY <2>1 DEF Idle
<1> QED BY CallerKinds, <1>1, <1>2, <1>3, <1>4, <1>5, <1>6, <1>7, <1>8 DEF CallerKind

\* Every step keeps what holds between mounts.
LEMMA IdleStep ==
  ASSUME Base, Scanning, Idle, Next
  PROVE  Idle'
<1> USE DEF Base
<1>1. CASE \E t \in Callers : CallerStep(t)
  BY <1>1, IdleCaller
<1>2. CASE \E w \in Workloads : OpBegin(w)
  <2>1. phase' = "mounted"
    BY <1>2 DEF OpBegin, mountVars
  <2> QED BY <2>1 DEF Idle
<1>3. CASE DataWrite \/ MetaWrite
  <2>1. phase' = "mounted"
    BY <1>3, WriteEffect
  <2> QED BY <2>1 DEF Idle
<1>4. CASE MetaRecord
  <2>1. phase' = "mounted"
    BY <1>4, RecordEffect
  <2> QED BY <2>1 DEF Idle
<1>5. CASE EvictPage
  <2>1. DOMAIN cache' = DOMAIN cache
    BY <1>5, EvictStore DEF HoldsStay
  <2>2. UNCHANGED <<phase, tx, ok>> /\ DOMAIN cache # {}
    BY <1>5 DEF EvictPage, jVars, mountVars, ejVars, callVars
  <2> QED BY <2>1, <2>2 DEF Idle
<1>6. CASE QuarantinePasses
  <2>1. UNCHANGED <<phase, tx, ok, cache>> /\ quarantined' = FALSE
    BY <1>6 DEF QuarantinePasses, QuarantineEnds, jVars, mountVars, ejVars, callVars
  <2> QED BY <2>1 DEF Idle
<1>7. CASE Crash
  <2>1. DOMAIN cache' = {} /\ phase' = "off" /\ tx' = <<>> /\ quarantined' = FALSE
        /\ ok' = [u \in Callers |-> TRUE]
    BY <1>7, CrashEffect DEF Crash, Forget, PowerLoss
  <2> QED BY <2>1 DEF Idle
<1>8. CASE EvictDone
  <2>1. DOMAIN cache = {} => DOMAIN cache' = {}
    BY <1>8, RecycleStore DEF Mild
  <2>2. UNCHANGED <<phase, tx, ok, quarantined>>
    BY <1>8 DEF EvictDone, EvictEnd, jVars, mountVars, ejVars, callVars
  <2> QED BY <2>1, <2>2 DEF Idle
<1> QED BY <1>1, <1>2, <1>3, <1>4, <1>5, <1>6, <1>7, <1>8 DEF Next

\* Where a caller's step leaves its stack.
LEMMA TopMoves ==
  ASSUME ControlType, Shape, NEW t \in Callers, stack[t] # <<>>, NEW l
  PROVE  /\ \A x \in Pcs : Goto(t, x) /\ At(t, l)' => l = x
         /\ \A f \in Frames : Become(t, f) /\ At(t, l)' => l = f.pc
         /\ \A x \in Pcs : \A f \in Frames : Call(t, x, f) /\ At(t, l)' => l = f.pc
         /\ \A r \in BOOLEAN : Return(t, r) /\ At(t, l)' =>
              Len(stack[t]) > 1 /\ CalledBy(l, Top(t)) /\ stack'[t] # <<>>
              /\ Len(stack'[t]) = Len(stack[t]) - 1 /\ Top(t)' = stack[t][Len(stack[t]) - 1]
<1>0. stack[t] \in Seq(Frames) /\ Len(stack[t]) \in Nat \ {0}
  BY TopFrame
<1>1. ASSUME NEW f \in Frames, Become(t, f), At(t, l)' PROVE l = f.pc
  <2>1. Len(stack'[t]) = Len(stack[t]) /\ stack'[t][Len(stack[t])] = f
    BY <1>1, BecomeStack
  <2> QED BY <1>1, <2>1 DEF At, Top
<1>2. ASSUME NEW x \in Pcs, Goto(t, x), At(t, l)' PROVE l = x
  <2>1. Frame(x, Mode(t)) \in Frames /\ Frame(x, Mode(t)).pc = x
    BY TopFrame
  <2> QED BY <1>1, <1>2, <2>1 DEF Goto
<1>3. ASSUME NEW x \in Pcs, NEW f \in Frames, Call(t, x, f), At(t, l)' PROVE l = f.pc
  <2>1. Len(stack'[t]) = Len(stack[t]) + 1 /\ stack'[t][Len(stack[t]) + 1] = f
    BY <1>3, CallStack
  <2> QED BY <1>3, <2>1 DEF At, Top
<1>4. ASSUME NEW r \in BOOLEAN, Return(t, r), At(t, l)'
      PROVE  /\ Len(stack[t]) > 1 /\ CalledBy(l, Top(t)) /\ stack'[t] # <<>>
             /\ Len(stack'[t]) = Len(stack[t]) - 1 /\ Top(t)' = stack[t][Len(stack[t]) - 1]
  <2>1. /\ Len(stack'[t]) = Len(stack[t]) - 1 /\ stack' \in [Callers -> Seq(Frames)]
        /\ \A k \in 1..(Len(stack[t]) - 1) : stack'[t][k] = stack[t][k]
    BY <1>4, ReturnStack
  <2>2. stack'[t] # <<>> /\ stack'[t] \in Seq(Frames)
    BY <1>4, <2>1 DEF At
  <2>3. Len(stack'[t]) # 0
    BY <2>2
  <2> DEFINE n == Len(stack[t])
  <2>n. n \in Nat \ {0} /\ n - 1 # 0
    BY <1>0, <2>1, <2>3
  <2> HIDE DEF n
  <2>m. n > 1 /\ n # 1
    BY <2>n
  <2>4. Len(stack[t]) > 1
    BY <2>m DEF n
  <2>5. Top(t)' = stack[t][Len(stack[t]) - 1]
    BY <1>0, <2>1, <2>4 DEF Top
  <2>6. CalledBy(stack[t][Len(stack[t]) - 1].pc, Top(t))
    BY <2>m, TopKind DEF n
  <2>7. Top(t)'.pc = l
    BY <1>4 DEF At
  <2> QED BY <2>1, <2>2, <2>4, <2>5, <2>6, <2>7
<1> QED BY <1>1, <1>2, <1>3, <1>4

\* Which action leads to each place in the commit.
LEMMA NewTop ==
  ASSUME ControlType, Shape, NEW t \in Callers, CallerStep(t), NEW l, At(t, l)'
  PROVE  /\ l = "descriptor" => (CommitRaise(t) /\ ok[t] /\ recover_flag) \/ (CommitRaised(t) /\ ok[t])
         /\ l = "descriptorFlush" => CommitDescriptor(t)
         /\ l = "data" => CommitFlush(t) /\ At(t, "descriptorFlush")
         /\ l = "dataFlush" => CommitData(t) /\ Goto(t, "dataFlush")
         /\ l = "start" => CommitFlush(t) /\ At(t, "dataFlush")
         /\ l = "startFlush" => CommitStart(t)
         /\ l = "block" => CommitFlush(t) /\ At(t, "startFlush")
         /\ l = "blockFlush" => CommitBlock(t)
         /\ l = "checkpoint" => CommitDurable(t)
         /\ l = "emptyFlush" => CommitEmpty(t) /\ ok[t]
         /\ l = "lower" => CommitFlush(t) /\ At(t, "emptyFlush")
         /\ l = "flush" => SyncWrite(t) /\ Goto(t, "flush")
<1> DEFINE Own == {"descriptor", "descriptorFlush", "data", "dataFlush", "start", "startFlush",
                   "block", "blockFlush", "checkpoint", "emptyFlush", "lower", "flush"}
<1>a. ASSUME stack[t] # <<>>, NEW r \in BOOLEAN, Return(t, r) PROVE l \notin Own
  <2>1. CalledBy(l, Top(t))
    BY <1>a, TopMoves
  <2> QED BY <2>1 DEF CalledBy
<1>b. ASSUME stack[t] # <<>>, NEW x \in Pcs, NEW f \in {Sync("ALL"), Sync("HELD"), CommitCall}, Call(t, x, f)
      PROVE  l \notin Own
  <2>1. f \in Frames /\ f.pc \in {"sync", "commit"}
    BY FrameKinds
  <2> QED BY <1>b, <2>1, TopMoves
<1>c. ASSUME stack[t] # <<>>, NEW x \in Pcs, Goto(t, x) PROVE l = x
  BY <1>c, TopMoves
<1>d. \A x : At(t, x) => stack[t] # <<>>
  BY DEF At
<1> HIDE DEF Own
<1>p. {"hook", "write", "hookDec", "hooked", "dataHome", "raised", "lowered", "descriptor", "descriptorFlush",
       "data", "dataFlush", "start", "startFlush", "block", "blockFlush", "checkpoint", "checkpointed",
       "emptyFlush", "lower", "flush", "fsynced", "closed", "empty", "scan", "replay", "replayed", "open",
       "emptied"} \subseteq Pcs
  BY DEF Pcs, SyncPcs, CommitPcs, CommitIn, MountPcs
<1>1. CASE SyncTest(t)
  <2>1. l \in {"hook", "write"}
    BY <1>1, <1>c, <1>d, <1>p DEF SyncTest
  <2> QED BY <2>1
<1>2. CASE HookLoad(t)
  <2>1. l = "hookDec"
    BY <1>2, <1>c, <1>d, <1>p DEF HookLoad
  <2> QED BY <2>1
<1>3. CASE HookCall(t)
  <2>1. l \notin Own
    BY <1>3, <1>b, <1>d, <1>p DEF HookCall
  <2> QED BY <2>1 DEF Own
<1>4. CASE HookReturn(t)
  <2>1. l = "write" \/ l \notin Own
    BY <1>4, <1>a, <1>c, <1>d, <1>p DEF HookReturn
  <2> QED BY <2>1 DEF Own
<1>5. CASE SyncWrite(t)
  <2>1. (l = "flush" /\ Goto(t, "flush")) \/ l \notin Own
    BY <1>5, <1>a, <1>c, <1>d, <1>p DEF SyncWrite
  <2> QED BY <1>5, <2>1 DEF Own
<1>6. CASE SyncFlush(t)
  <2>1. l \notin Own
    BY <1>6, <1>a, <1>d, <1>p DEF SyncFlush
  <2> QED BY <2>1 DEF Own
<1>7. CASE CommitBegin(t)
  <2>1. l \notin Own
    BY <1>7, <1>a, <1>b, <1>d, <1>p DEF CommitBegin
  <2> QED BY <2>1 DEF Own
<1>8. CASE CommitLowered(t)
  <2>0. ok[t] \in BOOLEAN
    BY DEF ControlType
  <2>1. l \notin Own
    BY <1>8, <2>0, <1>a, <1>d, <1>p DEF CommitLowered, CommitOut
  <2> QED BY <2>1 DEF Own
<1>9. CASE CommitRaise(t)
  <2>1. (l = "descriptor" /\ ok[t] /\ recover_flag) \/ l \notin Own
    BY <1>9, <1>a, <1>b, <1>c, <1>d, <1>p DEF CommitRaise, CommitOut
  <2> QED BY <1>9, <2>1 DEF Own
<1>10. CASE CommitRaised(t)
  <2>1. (l = "descriptor" /\ ok[t]) \/ l \notin Own
    BY <1>10, <1>a, <1>c, <1>d, <1>p DEF CommitRaised, CommitOut
  <2> QED BY <1>10, <2>1 DEF Own
<1>11. CASE CommitDescriptor(t)
  <2>1. l = "descriptorFlush"
    BY <1>11, <1>c, <1>d, <1>p DEF CommitDescriptor
  <2> QED BY <1>11, <2>1
<1>12. CASE CommitData(t)
  <2>1. (l = "dataFlush" /\ Goto(t, "dataFlush")) \/ l \notin Own
    BY <1>12, <1>a, <1>c, <1>d, <1>p DEF CommitData, CommitOut
  <2> QED BY <1>12, <2>1 DEF Own
<1>13. CASE CommitStart(t)
  <2>1. l = "startFlush"
    BY <1>13, <1>c, <1>d, <1>p DEF CommitStart
  <2> QED BY <1>13, <2>1
<1>14. CASE CommitBlock(t)
  <2>1. l = "blockFlush"
    BY <1>14, <1>c, <1>d, <1>p DEF CommitBlock
  <2> QED BY <1>14, <2>1
<1>15. CASE CommitFlush(t)
  <2>1. \/ At(t, "descriptorFlush") /\ l = "data"
        \/ At(t, "dataFlush") /\ l = "start"
        \/ At(t, "startFlush") /\ l = "block"
        \/ At(t, "emptyFlush") /\ l = "lower"
    BY <1>15, <1>c, <1>d, <1>p DEF CommitFlush
  <2> QED BY <1>15, <2>1
<1>16. CASE CommitDurable(t)
  <2>1. l = "checkpoint"
    BY <1>16, <1>c, <1>d, <1>p DEF CommitDurable
  <2> QED BY <1>16, <2>1
<1>17. CASE CommitCheckpoint(t) \/ CommitLower(t)
  <2>1. l \notin Own
    BY <1>17, <1>b, <1>d, <1>p DEF CommitCheckpoint, CommitLower
  <2> QED BY <2>1 DEF Own
<1>18. CASE CommitEmpty(t)
  <2>1. (l = "emptyFlush" /\ ok[t]) \/ l \notin Own
    BY <1>18, <1>a, <1>c, <1>d, <1>p DEF CommitEmpty, CommitOut
  <2> QED BY <1>18, <2>1 DEF Own
<1>19. CASE CommitError(t)
  <2>1. l \notin Own
    BY <1>19, <1>a, <1>d, <1>p DEF CommitError, CommitOut
  <2> QED BY <2>1 DEF Own
<1>20. CASE SyncCall(t)
  <2>1. PICK f \in {Sync("ALL"), Frame("fsync", "")} : stack' = [stack EXCEPT ![t] = <<f>>]
    BY <1>20 DEF SyncCall
  <2>2. f \in Frames /\ f.pc \in {"sync", "fsync"}
    <3>1. CASE f = Sync("ALL")
      BY <3>1, FrameKinds
    <3>2. CASE f = Frame("fsync", "")
      BY <3>2 DEF Frame, Frames, Pcs
    <3> QED BY <2>1, <3>1, <3>2
  <2>3. Len(stack'[t]) = 1 /\ stack'[t][1] = f
    BY <2>1, <2>2, OneFrame
  <2>4. l \in {"sync", "fsync"}
    BY <2>2, <2>3 DEF At, Top
  <2> QED BY <2>4
<1>21. CASE FsyncStep(t)
  <2>0. Sync("SCOPED") \in Frames /\ Sync("SCOPED").pc = "sync"
    BY FrameKinds
  <2>1. l = "sync" \/ l \notin Own
    BY <1>21, <2>0, <1>a, <1>b, <1>d, <1>p, TopMoves DEF FsyncStep
  <2> QED BY <2>1 DEF Own
<1>22. CASE UnmountCommit(t)
  <2>1. stack' = [stack EXCEPT ![t] = <<Frame("close", ""), CommitCall>>]
    BY <1>22 DEF UnmountCommit
  <2>2. Frame("close", "") \in Frames /\ CommitCall \in Frames /\ CommitCall.pc = "commit"
    BY FrameKinds DEF Frame, Frames, Pcs
  <2>3. Len(stack'[t]) = 2 /\ stack'[t][2] = CommitCall
    BY <2>1, <2>2, TwoFrames
  <2>4. l = "commit"
    BY <2>2, <2>3 DEF At, Top
  <2> QED BY <2>4
<1>23. CASE UnmountSync(t)
  <2>1. l \notin Own
    BY <1>23, <1>b, <1>d, <1>p DEF UnmountSync
  <2> QED BY <2>1 DEF Own
<1>24. CASE Closed(t)
  <2>1. stack'[t] = <<>>
    BY <1>24 DEF Closed, ControlType
  <2> QED BY <2>1 DEF At
<1>25. CASE Mount(t)
  <2>1. PICK x \in {"recover", "open"} : stack' = [stack EXCEPT ![t] = <<Frame(x, "")>>]
    BY <1>25 DEF Mount
  <2>2. Frame(x, "") \in Frames /\ Frame(x, "").pc = x
    BY <2>1 DEF Frame, Frames, Pcs, MountPcs
  <2>3. Len(stack'[t]) = 1 /\ stack'[t][1] = Frame(x, "")
    BY <2>1, <2>2, OneFrame
  <2>4. l \in {"recover", "open"}
    BY <2>2, <2>3 DEF At, Top
  <2> QED BY <2>4
<1>26. CASE Recover(t)
  <2>1. l \in {"empty", "scan"}
    BY <1>26, <1>c, <1>d, <1>p DEF Recover
  <2> QED BY <2>1
<1>27. CASE ScanPass(t)
  <2>1. l \in {"scan", "replay"}
    <3>1. CASE stack' = stack
      BY <1>27, <3>1 DEF ScanPass, At, Top
    <3>2. CASE Goto(t, "replay")
      BY <1>27, <3>2, <1>c, <1>d, <1>p DEF ScanPass
    <3> QED BY <1>27, <3>1, <3>2 DEF ScanPass
  <2> QED BY <2>1
<1>28. CASE ReplayPass(t)
  <2>1. l = "replay" \/ l \notin Own
    <3>1. CASE stack' = stack
      BY <1>28, <3>1 DEF ReplayPass, At, Top
    <3>2. CASE Call(t, "replayed", Sync("ALL"))
      BY <1>28, <3>2, <1>b, <1>d, <1>p DEF ReplayPass
    <3> QED BY <1>28, <3>1, <3>2 DEF ReplayPass
  <2> QED BY <2>1 DEF Own
<1>29. CASE RecoverDefer(t)
  <2>1. l = "open"
    BY <1>29, <1>c, <1>d, <1>p DEF RecoverDefer
  <2> QED BY <2>1
<1>30. CASE RecoverEmpty(t)
  <2>1. l \notin Own
    BY <1>30, <1>b, <1>d, <1>p DEF RecoverEmpty
  <2> QED BY <2>1 DEF Own
<1>31. CASE Open(t)
  <2>1. l \notin Own
    BY <1>31, <1>a, <1>b, <1>d, <1>p DEF Open, Refuse
  <2> QED BY <2>1 DEF Own
<1>32. CASE MountError(t)
  <2>1. l \notin Own
    BY <1>32, <1>b, <1>d, <1>p DEF MountError, Refuse
  <2> QED BY <2>1 DEF Own
<1> QED BY <1>1, <1>2, <1>3, <1>4, <1>5, <1>6, <1>7, <1>8, <1>9, <1>10, <1>11, <1>12, <1>13, <1>14, <1>15,
          <1>16, <1>17, <1>18, <1>19, <1>20, <1>21, <1>22, <1>23, <1>24, <1>25, <1>26, <1>27, <1>28, <1>29,
          <1>30, <1>31, <1>32 DEF CallerStep

\* A caller's step moves its own stack only.
LEMMA OthersStay ==
  ASSUME ControlType, NEW t \in Callers, CallerStep(t)
  PROVE  \A u \in Callers \ {t} : stack'[u] = stack[u]
<1> USE DEF bcVars, callVars, ejVars, hookVars, opVars, mountVars, hVars,
       Goto, Call, Become, Return, CommitOut, ControlType
<1>1. CASE SyncTest(t) \/ HookLoad(t) \/ HookCall(t) \/ HookReturn(t) \/ SyncWrite(t) \/ SyncFlush(t)
  BY <1>1 DEF SyncTest, HookLoad, HookCall, HookReturn, SyncWrite, SyncFlush
<1>2. CASE CommitBegin(t) \/ CommitLowered(t) \/ CommitRaise(t) \/ CommitRaised(t)
  BY <1>2 DEF CommitBegin, CommitLowered, CommitRaise, CommitRaised
<1>3. CASE CommitDescriptor(t) \/ CommitData(t) \/ CommitStart(t) \/ CommitBlock(t)
           \/ CommitFlush(t) \/ CommitDurable(t)
  BY <1>3 DEF CommitDescriptor, CommitData, CommitStart, CommitBlock, CommitFlush, CommitDurable
<1>4. CASE CommitCheckpoint(t) \/ CommitEmpty(t) \/ CommitLower(t) \/ CommitError(t)
  BY <1>4 DEF CommitCheckpoint, CommitEmpty, CommitLower, CommitError
<1>5. CASE SyncCall(t) \/ FsyncStep(t) \/ UnmountCommit(t) \/ UnmountSync(t) \/ Closed(t)
  BY <1>5 DEF SyncCall, FsyncStep, UnmountCommit, UnmountSync, Closed
<1>6. CASE Mount(t) \/ Recover(t) \/ ScanPass(t) \/ ReplayPass(t) \/ RecoverDefer(t)
            \/ RecoverEmpty(t) \/ MountError(t) \/ Open(t)
  BY <1>6 DEF Mount, Recover, ScanPass, ReplayPass, RecoverDefer, RecoverEmpty, MountError, Refuse, Open
<1> QED BY <1>1, <1>2, <1>3, <1>4, <1>5, <1>6 DEF CallerStep

\* The journal superblock's sequence number only grows, towards the open
\* transaction's; a cached copy says that the log is empty.
SuperMono ==
  /\ \A m \in Survivors : m[JSB].seq <= Dev(JSB).seq
  /\ JSB \in DOMAIN cache => Dev(JSB).seq <= cache[JSB].data.seq /\ cache[JSB].data.start = 0
  /\ Live => /\ Dev(JSB).seq <= seq
             /\ JSB \in DOMAIN cache => cache[JSB].data = Super(0, seq, head)

\* From the write of s_start to that of the commit block the journal superblock
\* is with the device, and then durable.
StageAt(t) == At(t, "startFlush") \/ At(t, "block") \/ At(t, "blockFlush")
SuperStaged(t) ==
  /\ StageAt(t) => JSB \notin DOMAIN cache
  /\ At(t, "startFlush") => Dev(JSB) = Super(head, seq, head)
  /\ At(t, "block") \/ At(t, "blockFlush") => \A m \in Survivors : m[JSB] = Super(head, seq, head)
SuperStage == \A t \in Callers : SuperStaged(t)

\* No commit block is newer than the superblock: the log holds one transaction.
OneTx == \A m \in Survivors : \A n \in 1..LogLen :
           m[LogPage(n)].type = "commit" => m[LogPage(n)].seq <= m[JSB].seq

\* The journal superblock, wherever it is read from, is one.
LEMMA SuperType ==
  ASSUME StorageType
  PROVE  /\ Dev(JSB) \in SuperBlock /\ bcache_read_bytes(JSB) \in SuperBlock
         /\ \A m \in Survivors : m[JSB] \in SuperBlock
         /\ JSB \in DOMAIN cache => cache[JSB].data \in SuperBlock
         /\ JSB \in Pages
         /\ \A j \in SuperBlock : j.seq \in Nat /\ j.start \in 0..LogLen /\ j.head \in 1..LogLen
                                  /\ j.start \in Nat /\ j = Super(j.start, j.seq, j.head)
<1>1. JSB \in Pages
  BY PageKinds
<1>2. /\ Dev(JSB) \in SuperBlock /\ bcache_read_bytes(JSB) \in SuperBlock
  BY <1>1, DevType DEF PageOK
<1>3. \A m \in Survivors : m[JSB] \in SuperBlock
  BY <1>1, SurvivorType DEF PageOK
<1>4. JSB \in DOMAIN cache => cache[JSB].data \in SuperBlock
  BY DEF StorageType, PageOK
<1>5. \A j \in SuperBlock : j.seq \in Nat /\ j.start \in 0..LogLen /\ j.head \in 1..LogLen
                                  /\ j.start \in Nat /\ j = Super(j.start, j.seq, j.head)
  BY PageKinds DEF SuperBlock, Super
<1> QED BY <1>1, <1>2, <1>3, <1>4, <1>5

\* The fields of a journal superblock.
LEMMA SuperFields ==
  ASSUME NEW a, NEW b, NEW c
  PROVE  Super(a, b, c).start = a /\ Super(a, b, c).seq = b /\ Super(a, b, c).head = c
BY DEF Super

\* A step that leaves the journal superblock alone keeps its order.
LEMMA SuperKeep ==
  ASSUME SuperMono, \A m \in Survivors' : \E n \in Survivors : m[JSB] = n[JSB],
         Dev(JSB)' = Dev(JSB),
         JSB \in DOMAIN cache' => JSB \in DOMAIN cache /\ cache'[JSB].data = cache[JSB].data,
         Live' => Live /\ UNCHANGED <<head, seq>>
  PROVE  SuperMono'
<1>1. \A m \in Survivors' : m[JSB].seq <= Dev(JSB)'.seq
  BY DEF SuperMono
<1> QED BY <1>1 DEF SuperMono, Super

\* So does a mild step.
LEMMA SuperMild ==
  ASSUME StorageType, SuperMono, NEW T, Mild(T), Live' => Live /\ UNCHANGED <<head, seq>>
  PROVE  SuperMono'
<1>0. JSB \in Pages /\ Dev(JSB).seq \in Nat /\ (\A m \in Survivors : m[JSB].seq \in Nat)
      /\ (JSB \in DOMAIN cache => cache[JSB].data.seq \in Nat)
  BY SuperType
<1>1. CASE JSB \notin T
  <2>1. Dev(JSB)' = Dev(JSB)
    BY <1>0, <1>1 DEF Mild
  <2>2. \A m \in Survivors' : \E n \in Survivors : m[JSB] = n[JSB]
    BY <1>0, <1>1 DEF Mild
  <2>3. JSB \in DOMAIN cache' => JSB \in DOMAIN cache /\ cache'[JSB].data = cache[JSB].data
    BY PageKinds DEF Mild
  <2> QED BY <2>1, <2>2, <2>3, SuperKeep
<1>2. CASE JSB \in T
  <2>1. JSB \in DOMAIN cache /\ bcache_read_bytes(JSB) = cache[JSB].data
    BY <1>2 DEF Mild, bcache_read_bytes
  <2>2. Dev(JSB)' = cache[JSB].data
    BY <1>0, <1>2, <2>1 DEF Mild
  <2>3. \A m \in Survivors' : m[JSB].seq <= cache[JSB].data.seq
    <3>1. ASSUME NEW m \in Survivors' PROVE m[JSB].seq <= cache[JSB].data.seq
      <4>1. PICK n \in Survivors : m[JSB] = n[JSB] \/ m[JSB] = cache[JSB].data
        BY <1>0, <2>1 DEF Mild
      <4>2. n[JSB].seq <= Dev(JSB).seq /\ Dev(JSB).seq <= cache[JSB].data.seq
        BY <2>1 DEF SuperMono
      <4>3. n[JSB].seq \in Nat /\ Dev(JSB).seq \in Nat /\ cache[JSB].data.seq \in Nat
        BY <1>0, <2>1
      <4> QED BY <4>1, <4>2, <4>3
    <3> QED BY <3>1
  <2>4. JSB \in DOMAIN cache' => cache'[JSB].data = cache[JSB].data
    BY <2>1 DEF Mild
  <2>5. cache[JSB].data.seq \in Nat
    BY <1>0, <2>1
  <2>6. cache[JSB].data.start = 0
    BY <2>1 DEF SuperMono
  <2>7. Live' => cache[JSB].data = Super(0, seq, head) /\ cache[JSB].data.seq = seq
                 /\ head' = head /\ seq' = seq
    BY <2>1, SuperFields DEF SuperMono
  <2>8. Live' => Dev(JSB)'.seq <= seq'
    BY <2>2, <2>5, <2>7
  <2>9. JSB \in DOMAIN cache' =>
          Dev(JSB)'.seq <= cache'[JSB].data.seq /\ cache'[JSB].data.start = 0
    BY <2>2, <2>4, <2>5, <2>6
  <2>10. Live' /\ JSB \in DOMAIN cache' => cache'[JSB].data = Super(0, seq, head)'
    BY <2>4, <2>7 DEF Super
  <2>11. \A m \in Survivors' : m[JSB].seq <= Dev(JSB)'.seq
    BY <2>2, <2>3
  <2> QED BY <2>8, <2>9, <2>10, <2>11 DEF SuperMono
<1> QED BY <1>1, <1>2

\* The journal superblock stays where it is unless it is cached.
JsbStill ==
  JSB \notin DOMAIN cache =>
    /\ JSB \notin DOMAIN cache' /\ Dev(JSB)' = Dev(JSB)
    /\ \A m \in Survivors' : \E n \in Survivors : m[JSB] = n[JSB]

\* A mild step leaves an uncached journal superblock alone.
LEMMA StillMild == ASSUME NEW T, Mild(T) PROVE JsbStill
<1>1. JSB \in Pages /\ JSB \notin Homes
  BY PageKinds
<1> QED BY <1>1 DEF Mild, JsbStill

\* A commit's superblock stays as it is while others step.
LEMMA StageKeep ==
  ASSUME SuperStage, JsbStill, NEW u \in Callers, stack'[u] = stack[u],
         StageAt(u) => UNCHANGED <<head, seq>>
  PROVE  SuperStaged(u)'
<1>1. \A l : At(u, l)' <=> At(u, l)
  BY DEF At, Top
<1>2. CASE StageAt(u)
  <2>1. JSB \notin DOMAIN cache /\ head' = head /\ seq' = seq
    BY <1>2 DEF SuperStage, SuperStaged
  <2> QED BY <1>1, <1>2, <2>1 DEF SuperStage, SuperStaged, JsbStill, StageAt, Super
<1>3. CASE ~StageAt(u)
  BY <1>1, <1>3 DEF SuperStaged, StageAt
<1> QED BY <1>2, <1>3

\* Survivors get no newer commit blocks.
LogMono ==
  \A m \in Survivors' : \E n \in Survivors :
    /\ \A p \in LogPages \ {JSB} : m[p] = n[p] \/ m[p].type # "commit"
    /\ n[JSB].seq <= m[JSB].seq /\ m[JSB].seq \in Nat

\* A step that adds no commit block keeps the log at one transaction.
LEMMA OneTxKeep ==
  ASSUME StorageType, OneTx, LogMono
  PROVE  OneTx'
<1> SUFFICES ASSUME NEW m \in Survivors', NEW i \in 1..LogLen, m[LogPage(i)].type = "commit"
    PROVE  m[LogPage(i)].seq <= m[JSB].seq
  BY DEF OneTx
<1>1. PICK n \in Survivors : /\ \A p \in LogPages \ {JSB} : m[p] = n[p] \/ m[p].type # "commit"
                             /\ n[JSB].seq <= m[JSB].seq /\ m[JSB].seq \in Nat
  BY DEF LogMono
<1>2. LogPage(i) \in LogPages \ {JSB}
  BY PageKinds
<1>3. m[LogPage(i)] = n[LogPage(i)]
  BY <1>1, <1>2
<1>4. n[LogPage(i)].seq <= n[JSB].seq
  BY <1>3 DEF OneTx
<1>5. n[JSB].seq \in Nat
  BY SuperType
<1>7. n[LogPage(i)].seq \in Nat
  <2>1. PageOK(LogPage(i), n[LogPage(i)])
    BY <1>2, SurvivorType, PageKinds
  <2> QED BY <1>2, <1>3, <2>1 DEF PageOK, IsLogBlock
<1> QED BY <1>1, <1>3, <1>4, <1>5, <1>7

\* A mild step adds no commit block.
LEMMA MildLog ==
  ASSUME StorageType, SuperMono, NEW T, Mild(T)
  PROVE  LogMono
<1> SUFFICES ASSUME NEW m \in Survivors'
    PROVE  \E n \in Survivors : /\ \A p \in LogPages \ {JSB} : m[p] = n[p]
                                /\ n[JSB].seq <= m[JSB].seq /\ m[JSB].seq \in Nat
  BY DEF LogMono
<1>1. PICK n \in Survivors : \A p \in Pages : m[p] = n[p] \/ (p \in T /\ m[p] = bcache_read_bytes(p))
  BY DEF Mild
<1>2. T \subseteq DOMAIN cache /\ DOMAIN cache \subseteq Homes \cup {JSB}
  BY DEF Mild, StorageType
<1>3. \A p \in LogPages \ {JSB} : p \in Pages /\ p \notin T
  BY <1>2, PageKinds
<1>4. n[JSB].seq <= m[JSB].seq /\ m[JSB].seq \in Nat
  <2>1. n[JSB].seq \in Nat /\ Dev(JSB).seq \in Nat /\ JSB \in Pages /\ (JSB \in DOMAIN cache => cache[JSB].data.seq \in Nat)
    BY SuperType
  <2>2. CASE m[JSB] = n[JSB]
    BY <2>1, <2>2
  <2>3. CASE JSB \in T /\ m[JSB] = bcache_read_bytes(JSB)
    <3>1. JSB \in DOMAIN cache /\ m[JSB] = cache[JSB].data
      BY <1>2, <2>3 DEF bcache_read_bytes
    <3>2. n[JSB].seq <= Dev(JSB).seq /\ Dev(JSB).seq <= cache[JSB].data.seq
      BY <3>1 DEF SuperMono
    <3> QED BY <2>1, <3>1, <3>2
  <2> QED BY <1>1, <2>1, <2>2, <2>3
<1> QED BY <1>1, <1>3, <1>4

\* A step that leaves the survivors alone adds no commit block.
LEMMA SameLog ==
  ASSUME StorageType, Survivors' = Survivors
  PROVE  LogMono
<1>1. \A m \in Survivors : m[JSB].seq <= m[JSB].seq /\ m[JSB].seq \in Nat
  BY SuperType
<1> QED BY <1>1 DEF LogMono

LogInv == SuperMono /\ SuperStage /\ OneTx

\* A commit that has written s_start is inside ext4_journal_commit().
LEMMA StageTop ==
  ASSUME NEW u, StageAt(u)
  PROVE  stack[u] # <<>> /\ Top(u).pc \in CommitIn /\ Top(u).pc \in CommitPcs
BY DEF StageAt, At, CommitIn, CommitPcs

\* One caller at a time is in the commit sequence.
LEMMA CommitAlone ==
  ASSUME ControlType, Locking, NEW t \in Callers, NEW u \in Callers, t # u,
         stack[t] # <<>>, Top(t).pc \in CommitIn, stack[u] # <<>>, Top(u).pc \in CommitIn
  PROVE  FALSE
BY CommitQuiet

\* The step of one caller keeps the stage of another.
LEMMA StageOthers ==
  ASSUME Base, SuperStage, NEW t \in Callers, CallerStep(t), JsbStill,
         UNCHANGED <<head, seq>> \/ ~Hooked \/ (stack[t] # <<>> /\ Top(t).pc \in CommitIn),
         NEW u \in Callers \ {t}
  PROVE  SuperStaged(u)'
<1> USE DEF Base
<1>1. stack'[u] = stack[u]
  BY OthersStay
<1>2. StageAt(u) => UNCHANGED <<head, seq>>
  <2>1. StageAt(u) => Hooked
    BY StageTop, CommitPhase
  <2>2. StageAt(u) => ~(stack[t] # <<>> /\ Top(t).pc \in CommitIn)
    BY StageTop, CommitAlone
  <2> QED BY <2>1, <2>2
<1> QED BY <1>1, <1>2, StageKeep

\* Only three actions lead to a stage with s_start written.
LEMMA StageNotOwn ==
  ASSUME ControlType, Shape, NEW t \in Callers, CallerStep(t),
         ~CommitStart(t), ~CommitBlock(t), ~CommitFlush(t)
  PROVE  SuperStaged(t)'
<1>1. ~At(t, "startFlush")' /\ ~At(t, "block")' /\ ~At(t, "blockFlush")'
  BY NewTop
<1> QED BY <1>1 DEF SuperStaged, StageAt

\* The kinds of the commit's writes and flushes.
LEMMA LogKinds ==
  ASSUME NEW t
  PROVE  /\ CommitStart(t) => LogStep(t) /\ At(t, "start")
         /\ CommitBlock(t) => LogStep(t) /\ At(t, "block")
         /\ CommitFlush(t) => FlushStep(t)
         /\ CommitDurable(t) => FlushStep(t) /\ At(t, "blockFlush")
BY DEF LogStep, FlushStep, CommitStart, CommitBlock, CommitDurable

\* ext4_journal_open() takes the sequence from the superblock.
LEMMA SuperOpen ==
  ASSUME Base, LogInv, NEW t \in Callers, Open(t)
  PROVE  LogInv'
<1> USE DEF Base
<1>1. StillStep(t)
  BY DEF StillStep
<1>2. Survivors' = Survivors /\ UNCHANGED <<media, wcache, cache>> /\ Mild({})
  BY <1>1, StillStore
<1>3. phase = "mounting"
  <2>1. stack[t] # <<>> /\ Top(t).pc \in MountPcs
    BY DEF Open, At, MountPcs
  <2> QED BY <2>1, MountPhase
<1>4. Dev(JSB)' = Dev(JSB)
  BY <1>2, SuperType DEF Mild
<1>5. SuperMono'
  <2> DEFINE j == bcache_read_bytes(JSB)
  <2>1. Dev(JSB).seq \in Nat /\ j.seq \in Nat /\ j = Super(j.start, j.seq, j.head)
    BY SuperType
  <2>2. Dev(JSB).seq <= j.seq
    <3>1. CASE JSB \in DOMAIN cache
      BY <3>1 DEF bcache_read_bytes, SuperMono, LogInv
    <3>2. CASE JSB \notin DOMAIN cache
      BY <2>1, <3>2 DEF bcache_read_bytes
    <3> QED BY <3>1, <3>2
  <2>3. CASE j.start # 0
    <3>1. phase' = "refused"
      BY <2>3 DEF Open, Refuse
    <3>2. ~Live'
      BY <3>1 DEF Live
    <3> QED BY <1>2, <3>2, SuperMild DEF LogInv
  <2>4. CASE j.start = 0
    <3>1. head' = j.head /\ seq' = j.seq
      BY <2>4 DEF Open
    <3>2. JSB \in DOMAIN cache' => cache'[JSB].data = Super(0, seq, head)'
      <4>1. JSB \in DOMAIN cache => cache[JSB].data = j
        BY DEF bcache_read_bytes
      <4> HIDE DEF j
      <4> QED BY <1>2, <2>1, <2>4, <3>1, <4>1 DEF Super
    <3> HIDE DEF j
    <3>3. Dev(JSB)'.seq <= seq'
      BY <1>4, <2>2, <3>1
    <3>4. \A m \in Survivors' : m[JSB].seq <= Dev(JSB)'.seq
      BY <1>2, <1>4 DEF SuperMono, LogInv
    <3>5. JSB \in DOMAIN cache' => Dev(JSB)'.seq <= cache'[JSB].data.seq /\ cache'[JSB].data.start = 0
      BY <1>2, <1>4 DEF SuperMono, LogInv
    <3> QED BY <3>2, <3>3, <3>4, <3>5 DEF SuperMono
  <2> QED BY <2>3, <2>4
<1>6. SuperStage'
  <2>1. CallerStep(t)
    BY DEF CallerStep
  <2>2. ~Hooked
    BY <1>3 DEF Hooked
  <2>3. JsbStill
    BY <1>2, StillMild
  <2>4. \A u \in Callers \ {t} : SuperStaged(u)'
    BY <2>1, <2>2, <2>3, StageOthers DEF LogInv
  <2>5. SuperStaged(t)'
    <3>1. stack[t] # <<>> /\ Top(t).pc = "open"
      BY DEF Open, At
    <3>2. ~CommitStart(t) /\ ~CommitBlock(t) /\ ~CommitFlush(t)
      BY <3>1 DEF CommitStart, CommitBlock, CommitFlush, At
    <3> QED BY <2>1, <3>2, StageNotOwn
  <2> QED BY <2>4, <2>5 DEF SuperStage
<1>7. OneTx'
  BY <1>2, SameLog, OneTxKeep DEF LogInv
<1> QED BY <1>5, <1>6, <1>7 DEF LogInv

\* What a step with these effects keeps of the log's bookkeeping.
LEMMA LogCallerKeep ==
  ASSUME Base, LogInv, NEW t \in Callers, CallerStep(t),
         SuperMono', JsbStill, LogMono,
         UNCHANGED <<head, seq>> \/ ~Hooked \/ (stack[t] # <<>> /\ Top(t).pc \in CommitIn),
         SuperStaged(t)'
  PROVE  LogInv'
<1>1. \A u \in Callers \ {t} : SuperStaged(u)'
  BY StageOthers DEF LogInv
<1>2. OneTx'
  BY OneTxKeep DEF LogInv, Base
<1> QED BY <1>1, <1>2 DEF LogInv, SuperStage

\* The journal superblock and the commit blocks stay as they are.
LEMMA LogQuiet ==
  ASSUME StorageType, SuperMono,
         \A m \in Survivors' : \E n \in Survivors :
           /\ m[JSB] = n[JSB]
           /\ \A p \in LogPages \ {JSB} : m[p] = n[p] \/ m[p].type # "commit",
         Dev(JSB)' = Dev(JSB),
         JSB \in DOMAIN cache' => JSB \in DOMAIN cache /\ cache'[JSB].data = cache[JSB].data,
         Live' => Live /\ UNCHANGED <<head, seq>>
  PROVE  SuperMono' /\ JsbStill /\ LogMono
<1>1. SuperMono'
  BY SuperKeep
<1>2. \A n \in Survivors : n[JSB].seq <= n[JSB].seq /\ n[JSB].seq \in Nat
  BY SuperType
<1> QED BY <1>1, <1>2 DEF JsbStill, LogMono

\* While one caller is inside the commit no other is.
LEMMA StageAlone ==
  ASSUME Base, NEW t \in Callers, CallerStep(t), stack[t] # <<>>, Top(t).pc \in CommitIn,
         NEW u \in Callers \ {t}
  PROVE  SuperStaged(u)'
<1> USE DEF Base
<1>1. stack'[u] = stack[u]
  BY OthersStay
<1>2. ~StageAt(u)
  BY StageTop, CommitAlone
<1>3. ~StageAt(u)'
  BY <1>1, <1>2 DEF StageAt, At, Top
<1> QED BY <1>3 DEF SuperStaged, StageAt

\* s_start is written past the cache, or cleared.
LEMMA LogSuper ==
  ASSUME Base, LogInv, NEW t \in Callers, CommitStart(t) \/ (CommitEmpty(t) /\ ok[t])
  PROVE  LogInv'
<1> USE DEF Base
<1>1. CallerStep(t) /\ LogStep(t)
  BY DEF CallerStep, LogStep
<1>2. At(t, "start") \/ At(t, "checkpointed")
  BY DEF CommitStart, CommitEmpty
<1>3. stack[t] # <<>> /\ Top(t).pc \in CommitIn /\ Live /\ phase' = phase
  BY <1>1, KindPhase
<1>4. /\ LogPut(LogTarget(t), LogBlock(t)) /\ UNCHANGED <<head, seq>>
  BY <1>1, LogEffect
<1>5. LogTarget(t) = JSB /\ LogBlock(t).seq = seq
  BY <1>2, LogTargets, SuperFields
<1> DEFINE v == LogBlock(t)
<1>6. /\ Dev(JSB)' = v /\ JSB \notin DOMAIN cache'
      /\ \A m \in Survivors' : \E n \in Survivors :
           \A q \in Pages : m[q] = n[q] \/ (q = JSB /\ m[q] = v)
  BY <1>4, <1>5, SuperType DEF LogPut
<1>7. Dev(JSB).seq <= seq /\ Dev(JSB).seq \in Nat /\ seq \in Nat
  BY <1>3, SuperType DEF LogInv, SuperMono, ControlType
<1>8. \A n \in Survivors : n[JSB].seq <= seq /\ n[JSB].seq \in Nat
  <2>1. ASSUME NEW n \in Survivors PROVE n[JSB].seq <= seq /\ n[JSB].seq \in Nat
    <3>1. n[JSB].seq <= Dev(JSB).seq /\ n[JSB].seq \in Nat
      BY SuperType DEF LogInv, SuperMono
    <3> QED BY <1>7, <3>1
  <2> QED BY <2>1
<1> HIDE DEF v
<1>9. v.seq = seq
  BY <1>5 DEF v
<1>10. \A m \in Survivors' : \E n \in Survivors :
         /\ m[JSB] = n[JSB] \/ m[JSB] = v
         /\ \A p \in LogPages \ {JSB} : m[p] = n[p]
  BY <1>6, PageKinds
<1>11. SuperMono'
  <2>1. \A m \in Survivors' : m[JSB].seq <= Dev(JSB)'.seq
    BY <1>6, <1>7, <1>8, <1>9, <1>10
  <2>2. Dev(JSB)'.seq <= seq'
    BY <1>4, <1>6, <1>7, <1>9
  <2> QED BY <1>6, <2>1, <2>2 DEF SuperMono
<1>12. LogMono
  BY <1>7, <1>8, <1>9, <1>10 DEF LogMono
<1>13. OneTx'
  BY <1>12, OneTxKeep DEF LogInv
<1>14. SuperStaged(t)'
  <2>1. CASE At(t, "start")
    <3>1. ~At(t, "block")' /\ ~At(t, "blockFlush")'
      <4>1. ~CommitFlush(t) /\ ~CommitBlock(t)
        BY <2>1 DEF CommitFlush, CommitBlock, At
      <4> QED BY <1>1, <4>1, NewTop
    <3>2. v = Super(head, seq, head)
      BY <2>1, LogTargets DEF v
    <3>3. Dev(JSB)' = Super(head, seq, head)'
      BY <1>4, <1>6, <3>2 DEF Super
    <3> QED BY <1>6, <3>1, <3>3 DEF SuperStaged, StageAt
  <2>2. CASE At(t, "checkpointed")
    <3>1. ~CommitFlush(t) /\ ~CommitBlock(t) /\ ~CommitStart(t)
      BY <2>2 DEF CommitFlush, CommitBlock, CommitStart, At
    <3> QED BY <1>1, <3>1, StageNotOwn
  <2> QED BY <1>2, <2>1, <2>2
<1>15. \A u \in Callers \ {t} : SuperStaged(u)'
  BY <1>1, <1>3, StageAlone
<1> QED BY <1>11, <1>13, <1>14, <1>15 DEF LogInv, SuperStage

\* The commit block follows a durable superblock of its own sequence.
LEMMA LogCommit ==
  ASSUME Base, LogInv, NEW t \in Callers, CommitBlock(t)
  PROVE  LogInv'
<1> USE DEF Base
<1>1. CallerStep(t) /\ LogStep(t) /\ At(t, "block")
  BY LogKinds DEF CallerStep
<1>3. stack[t] # <<>> /\ Top(t).pc \in CommitIn /\ Live /\ phase' = phase
  BY <1>1, KindPhase
<1>4. /\ LogPut(LogTarget(t), LogBlock(t)) /\ UNCHANGED <<head, seq>>
  BY <1>1, LogEffect
<1> DEFINE c == LogPage(jbd2_advance_n(head, Len(tx) + 1))
<1>5. LogTarget(t) = c /\ LogBlock(t) = Commit
  BY <1>1, LogTargets
<1>6. c \in LogPages \ {JSB}
  BY BlockTypes
<1> HIDE DEF c
<1>7. /\ Dev(JSB)' = Dev(JSB)
      /\ JSB \in DOMAIN cache' => JSB \in DOMAIN cache /\ cache'[JSB].data = cache[JSB].data
      /\ \A m \in Survivors' : \E n \in Survivors :
           \A q \in Pages : m[q] = n[q] \/ (q = c /\ m[q] = Commit)
  BY <1>4, <1>5, <1>6, SuperType DEF LogPut
<1>8. \A m \in Survivors' : \E n \in Survivors :
           m[JSB] = n[JSB] /\ \A p \in LogPages \ {JSB} : m[p] = n[p] \/ m[p] = Commit
  BY <1>6, <1>7, PageKinds
<1>9. \A n \in Survivors : n[JSB] = Super(head, seq, head)
  BY <1>1 DEF LogInv, SuperStage, SuperStaged
<1>10. SuperMono'
  BY <1>3, <1>4, <1>7, <1>8, SuperKeep DEF LogInv, Live
<1>11. OneTx'
  <2> SUFFICES ASSUME NEW m \in Survivors', NEW i \in 1..LogLen, m[LogPage(i)].type = "commit"
      PROVE  m[LogPage(i)].seq <= m[JSB].seq
    BY DEF OneTx
  <2>1. PICK n \in Survivors : m[JSB] = n[JSB] /\ \A p \in LogPages \ {JSB} : m[p] = n[p] \/ m[p] = Commit
    BY <1>8
  <2>2. LogPage(i) \in LogPages \ {JSB}
    BY PageKinds
  <2>3. CASE m[LogPage(i)] = n[LogPage(i)]
    BY <2>1, <2>3 DEF LogInv, OneTx
  <2>4. CASE m[LogPage(i)] = Commit
    <3>1. m[JSB].seq = seq /\ seq \in Nat
      BY <2>1, <1>9, SuperFields DEF ControlType
    <3>2. m[LogPage(i)].seq = seq
      BY <2>4 DEF Commit
    <3> QED BY <3>1, <3>2
  <2> QED BY <2>1, <2>2, <2>3, <2>4
<1>12. SuperStaged(t)'
  <2>1. ~At(t, "block")' /\ ~At(t, "startFlush")'
    <3>1. ~CommitFlush(t) /\ ~CommitStart(t)
      BY <1>1 DEF CommitFlush, CommitStart, At
    <3> QED BY <1>1, <3>1, NewTop
  <2>2. JSB \notin DOMAIN cache'
    BY <1>1, <1>7 DEF LogInv, SuperStage, SuperStaged, StageAt
  <2>3. \A m \in Survivors' : m[JSB] = Super(head, seq, head)'
    BY <1>4, <1>8, <1>9 DEF Super
  <2> QED BY <2>1, <2>2, <2>3 DEF SuperStaged, StageAt
<1>15. \A u \in Callers \ {t} : SuperStaged(u)'
  BY <1>1, <1>3, StageAlone
<1> QED BY <1>10, <1>11, <1>12, <1>15 DEF LogInv, SuperStage

\* The commit's flushes keep the log invariant.
LEMMA LogFlush ==
  ASSUME Base, LogInv, NEW t \in Callers, CommitFlush(t) \/ CommitDurable(t)
  PROVE  LogInv'
<1> USE DEF Base
<1>1. CallerStep(t) /\ FlushStep(t)
  BY LogKinds DEF CallerStep
<1>3. stack[t] # <<>> /\ Top(t).pc \in CommitIn /\ Live /\ phase' = phase
  BY <1>1, KindPhase
<1>4. Mild({}) /\ Settled' /\ cache' = cache
  BY <1>1, FlushStore
<1>5. Dev(JSB)' = Dev(JSB) /\ \A m \in Survivors' : m[JSB] = Dev(JSB)
  BY <1>4, SuperType DEF Mild, Settled
<1>6. SuperMono'
  <2>1. CASE CommitDurable(t)
    <3>1. seq' = seq + 1 /\ At(t, "blockFlush")
      BY <2>1 DEF CommitDurable
    <3>2. JSB \notin DOMAIN cache'
      BY <1>4, <3>1 DEF LogInv, SuperStage, SuperStaged, StageAt
    <3>3. Dev(JSB).seq <= seq /\ Dev(JSB).seq \in Nat /\ seq \in Nat
      BY <1>3, SuperType DEF LogInv, SuperMono, ControlType
    <3>4. Dev(JSB)'.seq <= seq'
      BY <1>5, <3>1, <3>3
    <3>5. \A m \in Survivors' : m[JSB].seq <= Dev(JSB)'.seq
      BY <1>5, <3>3
    <3> QED BY <3>2, <3>4, <3>5 DEF SuperMono
  <2>2. CASE ~CommitDurable(t)
    BY <1>1, <1>3, <1>4, <2>2, FlushFrame, SuperMild DEF LogInv, Live
  <2> QED BY <2>1, <2>2
<1>7. OneTx'
  BY <1>4, MildLog, OneTxKeep DEF LogInv
<1>8. SuperStaged(t)'
  <2>1. ~At(t, "startFlush")' /\ ~At(t, "blockFlush")'
    <3>1. ~CommitStart(t) /\ ~CommitBlock(t)
      BY DEF CommitStart, CommitBlock, CommitFlush, CommitDurable, At
    <3> QED BY <1>1, <3>1, NewTop
  <2>2. CASE At(t, "block")'
    <3>1. CommitFlush(t) /\ At(t, "startFlush")
      BY <1>1, <2>2, NewTop
    <3>2. UNCHANGED <<head, seq>>
      BY <3>1 DEF CommitFlush, ejVars
    <3>3. JSB \notin DOMAIN cache /\ Dev(JSB) = Super(head, seq, head)
      BY <3>1 DEF LogInv, SuperStage, SuperStaged, StageAt
    <3>4. \A m \in Survivors' : m[JSB] = Super(head, seq, head)'
      BY <1>5, <3>2, <3>3 DEF Super
    <3> QED BY <1>4, <2>1, <3>3, <3>4 DEF SuperStaged, StageAt
  <2>3. CASE ~At(t, "block")'
    BY <2>1, <2>3 DEF SuperStaged, StageAt
  <2> QED BY <2>2, <2>3
<1>15. \A u \in Callers \ {t} : SuperStaged(u)'
  BY <1>1, <1>3, StageAlone
<1> QED BY <1>6, <1>7, <1>8, <1>15 DEF LogInv, SuperStage

\* The steps of a caller keep the log invariant.
LEMMA LogCaller ==
  ASSUME Base, Scanning, LogInv, NEW t \in Callers, CallerStep(t)
  PROVE  LogInv'
<1> USE DEF Base
<1>1. CASE CommitStart(t) \/ (CommitEmpty(t) /\ ok[t])
  BY <1>1, LogSuper
<1>2. CASE CommitBlock(t)
  BY <1>2, LogCommit
<1>3. CASE CommitFlush(t) \/ CommitDurable(t)
  BY <1>3, LogFlush
<1>4. CASE Open(t)
  BY <1>4, SuperOpen
<1> SUFFICES ASSUME ~(CommitStart(t) \/ (CommitEmpty(t) /\ ok[t])), ~CommitBlock(t),
                    ~(CommitFlush(t) \/ CommitDurable(t)), ~Open(t)
    PROVE  LogInv'
  BY <1>1, <1>2, <1>3, <1>4
<1>5. SuperStaged(t)'
  BY StageNotOwn
<1>6. SuperMono /\ JSB \in Pages
  BY SuperType DEF LogInv
<1>7. CASE StillStep(t)
  <2>1. Mild({}) /\ Survivors' = Survivors
    BY <1>7, StillStore
  <2>2. UNCHANGED <<head, seq>>
    BY <1>7, StillFrame
  <2>3. Live' => Live
    BY <1>7, StillPhase DEF Live
  <2>4. SuperMono' /\ JsbStill /\ LogMono
    BY <1>6, <2>1, <2>2, <2>3, SuperMild, StillMild, SameLog
  <2> QED BY <1>5, <2>2, <2>4, LogCallerKeep
<1>8. CASE SyncWrite(t) \/ FlushStep(t)
  <2>1. PICK T : Mild(T)
    BY <1>8, SyncStore, FlushStore DEF MildStep
  <2>2. UNCHANGED <<head, seq>> /\ phase' = phase
    BY <1>8, WriteFrame, FlushFrame
  <2>4. SuperMono' /\ JsbStill /\ LogMono
    BY <1>6, <2>1, <2>2, SuperMild, StillMild, MildLog DEF Live
  <2> QED BY <1>5, <2>2, <2>4, LogCallerKeep
<1>9. CASE FlagStep(t)
  <2>1. UNCHANGED <<head, seq, phase>> /\ \E v : Put(SB, v)
    BY <1>9, FlagEffect
  <2>2. SB # JSB
    BY PageKinds
  <2>3. /\ Survivors' = Survivors /\ Dev(JSB)' = Dev(JSB)
        /\ JSB \in DOMAIN cache' => JSB \in DOMAIN cache /\ cache'[JSB].data = cache[JSB].data
    BY <1>6, <2>1, <2>2 DEF Put
  <2>4. SuperMono' /\ JsbStill /\ LogMono
    BY <1>6, <2>1, <2>3, LogQuiet DEF Live
  <2> QED BY <1>5, <2>1, <2>4, LogCallerKeep
<1>10. CASE LogStep(t)
  <2>1. CommitDescriptor(t) /\ At(t, "descriptor")
    BY <1>10 DEF LogStep, CommitDescriptor
  <2>2. LogPut(LogPage(head), Descriptor(tx)) /\ UNCHANGED <<head, seq, phase>>
    BY <1>10, <2>1, LogEffect, LogTargets
  <2>3. LogPage(head) \in LogPages \ {JSB}
    BY BlockTypes
  <2>4. /\ Dev(JSB)' = Dev(JSB)
        /\ JSB \in DOMAIN cache' => JSB \in DOMAIN cache /\ cache'[JSB].data = cache[JSB].data
        /\ \A m \in Survivors' : \E n \in Survivors :
             \A q \in Pages : m[q] = n[q] \/ (q = LogPage(head) /\ m[q] = Descriptor(tx))
    BY <1>6, <2>2, <2>3 DEF LogPut
  <2>5. \A m \in Survivors' : \E n \in Survivors :
           /\ m[JSB] = n[JSB]
           /\ \A p \in LogPages \ {JSB} : m[p] = n[p] \/ m[p].type # "commit"
    <3>1. Descriptor(tx).type # "commit"
      BY DEF Descriptor
    <3> QED BY <1>6, <2>3, <2>4, <3>1, PageKinds
  <2>6. SuperMono' /\ JsbStill /\ LogMono
    BY <1>6, <2>2, <2>4, <2>5, LogQuiet DEF Live
  <2> QED BY <1>5, <2>2, <2>6, LogCallerKeep
<1>11. CASE CommitData(t)
  <2>1. UNCHANGED <<head, seq, phase, cache>>
    BY <1>11, DataEffect
  <2>2. PICK k \in 0..Len(tx) :
              /\ \A q \in Pages : Dev(q)' = IF q \in DOMAIN LogData(k) THEN LogData(k)[q] ELSE Dev(q)
              /\ \A m \in Survivors' : \E n \in Survivors :
                   \A q \in Pages : m[q] = n[q] \/ (q \in DOMAIN LogData(k) /\ m[q] = LogData(k)[q])
    BY <1>11, DataEffect
  <2>3. /\ DOMAIN LogData(k) = {LogPage(jbd2_advance_n(head, i)) : i \in 1..k}
        /\ \A i \in 1..k : LogData(k)[LogPage(jbd2_advance_n(head, i))] =
                             [type |-> "data", page |-> bcache_read_bytes(tx[i])]
        /\ DOMAIN LogData(k) \subseteq LogPages \ {JSB}
    BY DataBlocks
  <2>4. \A q \in DOMAIN LogData(k) : LogData(k)[q].type # "commit"
    <3>1. ASSUME NEW q \in DOMAIN LogData(k) PROVE LogData(k)[q].type # "commit"
      <4>1. PICK i \in 1..k : q = LogPage(jbd2_advance_n(head, i))
        BY <2>3
      <4>2. LogData(k)[q] = [type |-> "data", page |-> bcache_read_bytes(tx[i])]
        BY <2>3, <4>1
      <4> QED BY <4>2
    <3> QED BY <3>1
  <2>5. /\ Dev(JSB)' = Dev(JSB)
    BY <1>6, <2>2, <2>3
  <2>6. \A m \in Survivors' : \E n \in Survivors :
           /\ m[JSB] = n[JSB]
           /\ \A p \in LogPages \ {JSB} : m[p] = n[p] \/ m[p].type # "commit"
    <3> HIDE DEF LogData
    <3> QED BY <1>6, <2>2, <2>3, <2>4, PageKinds
  <2>7. SuperMono' /\ JsbStill /\ LogMono
    BY <1>6, <2>1, <2>5, <2>6, LogQuiet DEF Live
  <2> QED BY <1>5, <2>1, <2>7, LogCallerKeep
<1>12. CASE CommitCheckpoint(t)
  <2>1. /\ UNCHANGED <<head, seq, phase>> /\ Survivors' = Survivors /\ Dev(JSB)' = Dev(JSB)
        /\ JSB \in DOMAIN cache' => JSB \in DOMAIN cache /\ cache'[JSB].data = cache[JSB].data
    BY <1>6, <1>12, ReleaseEffect
  <2>4. SuperMono' /\ JsbStill /\ LogMono
    BY <1>6, <2>1, LogQuiet DEF Live
  <2> QED BY <1>5, <2>1, <2>4, LogCallerKeep
<1>13. CASE MarkStep(t)
  <2>1. /\ Put(JSB, Super(0, rec.seq, rec.head)) /\ phase = "mounting" /\ phase' = phase
        /\ Bottom(t, "empty") \/ Bottom(t, "replayed")
        /\ UNCHANGED <<head, seq>>
    BY <1>13, MarkEffect
  <2>2. /\ Survivors' = Survivors /\ Dev(JSB)' = Dev(JSB)
        /\ cache'[JSB].data = Super(0, rec.seq, rec.head)
    BY <1>6, <2>1 DEF Put
  <2>3. Dev(JSB).seq <= rec.seq
    <3>1. Dev(JSB).seq \in Nat
      BY SuperType
    <3>2. rec.seq = Dev(JSB).seq \/ rec.seq = Dev(JSB).seq + 1
      BY <2>1 DEF Scanning
    <3> QED BY <3>1, <3>2
  <2>4. SuperMono'
    <3>1. \A m \in Survivors' : m[JSB].seq <= Dev(JSB)'.seq
      BY <1>6, <2>2 DEF SuperMono
    <3>2. Dev(JSB)'.seq <= cache'[JSB].data.seq /\ cache'[JSB].data.start = 0
      BY <2>2, <2>3, SuperFields
    <3>3. ~Live'
      BY <2>1 DEF Live
    <3> QED BY <3>1, <3>2, <3>3 DEF SuperMono
  <2>5. OneTx'
    BY <2>2, SameLog, OneTxKeep DEF LogInv
  <2>6. \A u \in Callers \ {t} : SuperStaged(u)'
    <3> SUFFICES ASSUME NEW u \in Callers \ {t} PROVE SuperStaged(u)'
      OBVIOUS
    <3>1. ~StageAt(u)
      BY <2>1, StageTop, CommitPhase DEF Live
    <3>2. stack'[u] = stack[u]
      BY OthersStay
    <3>3. ~StageAt(u)'
      BY <3>1, <3>2 DEF StageAt, At, Top
    <3> QED BY <3>3 DEF SuperStaged, StageAt
  <2> QED BY <1>5, <2>4, <2>5, <2>6 DEF LogInv, SuperStage
<1>14. CASE CopyStep(t)
  <2>1. /\ UNCHANGED <<head, seq, phase>> /\ Survivors' = Survivors /\ Dev(JSB)' = Dev(JSB)
        /\ DOMAIN cache' \subseteq Homes
    BY <1>6, <1>14, CopyEffect
  <2>2. JSB \notin DOMAIN cache'
    BY <2>1, PageKinds
  <2>4. SuperMono' /\ JsbStill /\ LogMono
    BY <1>6, <2>1, <2>2, LogQuiet DEF Live
  <2> QED BY <1>5, <2>1, <2>4, LogCallerKeep
<1>15. CASE Closed(t)
  <2>1. /\ Survivors' = Survivors /\ Dev(JSB)' = Dev(JSB) /\ DOMAIN cache' = {}
    BY <1>6, <1>15, CloseEffect
  <2>2. ~Live' /\ ~Hooked
    BY <1>15, KindPhase DEF Live, Hooked
  <2>4. SuperMono' /\ JsbStill /\ LogMono
    BY <1>6, <2>1, <2>2, LogQuiet
  <2> QED BY <1>5, <2>2, <2>4, LogCallerKeep
<1>16. CASE PartStep(t)
  <2>1. /\ UNCHANGED <<head, seq>> /\ phase' = "refused" /\ Survivors' = Survivors /\ Dev(JSB)' = Dev(JSB)
        /\ DOMAIN cache' \subseteq Homes
    BY <1>6, <1>16, PartEffect DEF Refuse
  <2>2. JSB \notin DOMAIN cache'
    BY <2>1, PageKinds
  <2>4. SuperMono' /\ JsbStill /\ LogMono
    BY <1>6, <2>1, <2>2, LogQuiet DEF Live
  <2> QED BY <1>5, <2>1, <2>4, LogCallerKeep
<1> QED BY CallerKinds, <1>7, <1>8, <1>9, <1>10, <1>11, <1>12, <1>13, <1>14, <1>15, <1>16 DEF CallerKind

\* Steps outside the callers keep it when they leave the superblock alone.
LEMMA LogEnvKeep ==
  ASSUME Base, LogInv, SuperMono', JsbStill, LogMono, UNCHANGED <<head, seq, stack>>
  PROVE  LogInv'
<1>1. \A u \in Callers : SuperStaged(u)'
  BY StageKeep DEF LogInv
<1>2. OneTx'
  BY OneTxKeep DEF LogInv, Base
<1> QED BY <1>1, <1>2 DEF LogInv, SuperStage

\* Every step keeps the log invariant.
LEMMA LogInvStep ==
  ASSUME Base, Scanning, LogInv, Next
  PROVE  LogInv'
<1> USE DEF Base
<1>6. SuperMono /\ JSB \in Pages
  BY SuperType DEF LogInv
<1>1. CASE \E t \in Callers : CallerStep(t)
  BY <1>1, LogCaller
<1>2. ASSUME NEW w \in Workloads, OpBegin(w) PROVE LogInv'
  <2>1. /\ UNCHANGED <<head, seq, phase, stack>> /\ Survivors' = Survivors /\ Dev(JSB)' = Dev(JSB)
        /\ cache' = cache
    BY <1>2, BeginEffect DEF OpBegin, ejVars, mountVars, callVars
  <2>2. SuperMono' /\ JsbStill /\ LogMono
    BY <1>6, <2>1, LogQuiet DEF Live
  <2> QED BY <2>1, <2>2, LogEnvKeep
<1>3. CASE DataWrite \/ MetaWrite
  <2>0. PageOf(Head(op)) \in Homes /\ UNCHANGED <<head, seq, phase, stack>>
    BY <1>3, WriteEffect
  <2>1. PICK v : Put(PageOf(Head(op)), v)
    BY <1>3, WriteEffect
  <2>2. PageOf(Head(op)) # JSB
    BY <2>0, PageKinds
  <2>3. /\ Survivors' = Survivors /\ Dev(JSB)' = Dev(JSB)
        /\ JSB \in DOMAIN cache' => JSB \in DOMAIN cache /\ cache'[JSB].data = cache[JSB].data
    BY <1>6, <2>1, <2>2 DEF Put
  <2>4. SuperMono' /\ JsbStill /\ LogMono
    BY <1>6, <2>0, <2>3, LogQuiet DEF Live
  <2> QED BY <2>0, <2>4, LogEnvKeep
<1>4. CASE MetaRecord
  <2>1. /\ UNCHANGED <<head, seq, phase, stack>> /\ Survivors' = Survivors /\ Dev(JSB)' = Dev(JSB)
        /\ JSB \in DOMAIN cache' => JSB \in DOMAIN cache /\ cache'[JSB].data = cache[JSB].data
    BY <1>4, <1>6, RecordEffect
  <2>2. SuperMono' /\ JsbStill /\ LogMono
    BY <1>6, <2>1, LogQuiet DEF Live
  <2> QED BY <2>1, <2>2, LogEnvKeep
<1>5. CASE EvictPage
  <2>1. PICK T : Mild(T)
    BY <1>5, EvictStore DEF MildStep
  <2>2. UNCHANGED <<head, seq, phase, stack>>
    BY <1>5 DEF EvictPage, jVars, ejVars, mountVars, callVars
  <2>3. SuperMono' /\ JsbStill /\ LogMono
    BY <1>6, <2>1, <2>2, SuperMild, StillMild, MildLog DEF Live
  <2> QED BY <2>2, <2>3, LogEnvKeep
<1>7. CASE QuarantinePasses
  <2>1. Mild({})
    BY <1>7, QuarantineEffect
  <2>2. UNCHANGED <<head, seq, phase, stack>>
    BY <1>7 DEF QuarantinePasses, jVars, ejVars, mountVars, callVars
  <2>3. SuperMono' /\ JsbStill /\ LogMono
    BY <1>6, <2>1, <2>2, SuperMild, StillMild, MildLog DEF Live
  <2> QED BY <2>2, <2>3, LogEnvKeep
<1>8. CASE Crash
  <2>1. /\ DOMAIN cache' = {} /\ media' \in Survivors /\ Dev(JSB)' = media'[JSB]
        /\ \A m \in Survivors' : m = media'
    BY <1>6, <1>8, CrashEffect
  <2>2. phase' = "off" /\ stack' = [u \in Callers |-> <<>>]
    BY <1>8 DEF Crash, Forget
  <2>3. \A n \in Survivors : n[JSB].seq \in Nat
    BY SuperType
  <2>4. SuperMono'
    BY <2>1, <2>2, <2>3 DEF SuperMono, Live
  <2>5. OneTx'
    BY <2>1 DEF LogInv, OneTx
  <2>6. SuperStage'
    BY <2>2 DEF SuperStage, SuperStaged, StageAt, At
  <2> QED BY <2>4, <2>5, <2>6 DEF LogInv
<1>9. CASE EvictDone
  <2>1. Mild({})
    BY <1>9, RecycleStore
  <2>2. UNCHANGED <<head, seq, phase, stack>>
    BY <1>9 DEF EvictDone, jVars, ejVars, mountVars, callVars
  <2>3. SuperMono' /\ JsbStill /\ LogMono
    BY <1>6, <2>1, <2>2, SuperMild, StillMild, MildLog DEF Live
  <2> QED BY <2>2, <2>3, LogEnvKeep
<1> QED BY <1>1, <1>2, <1>3, <1>4, <1>5, <1>7, <1>8, <1>9 DEF Next

\* The device as one image.
LEMMA DeviceIs == StorageType => Device = [p \in Pages |-> Dev(p)]
<1>1. ASSUME StorageType PROVE Device = [p \in Pages |-> Dev(p)]
  BY <1>1 DEF Device, Over, Dev, StorageType
<1> QED BY <1>1

\* The same after a step.
LEMMA DeviceNext == StorageType' => (Device = [p \in Pages |-> Dev(p)])'
  BY DeviceIs, PTL

\* A step that changes no device read leaves the device alone.
LEMMA DeviceSame ==
  ASSUME StorageType, StorageType', \A p \in Pages : Dev(p)' = Dev(p)
  PROVE  Device' = Device
<1>1. Device = [p \in Pages |-> Dev(p)]
  BY DeviceIs
<1>2. (Device = [p \in Pages |-> Dev(p)])'
  BY DeviceNext
<1> QED BY <1>1, <1>2

\* Reading the image is reading the device, before and after a step.
LEMMA DeviceAt ==
  ASSUME StorageType, StorageType'
  PROVE  \A p \in Pages : Device[p] = Dev(p) /\ Device'[p] = Dev(p)'
<1>1. Device = [p \in Pages |-> Dev(p)]
  BY DeviceIs
<1>2. (Device = [p \in Pages |-> Dev(p)])'
  BY DeviceNext
<1> QED BY <1>1, <1>2

\* The pages a transaction at block k of m occupies are log pages.
LEMMA TxPages ==
  ASSUME StorageType, NEW m \in Survivors, NEW k \in 1..LogLen, m[LogPage(k)].type = "descriptor"
  PROVE  LET d == m[LogPage(k)] IN
         /\ d.tags \in Seq(Homes) /\ Len(d.tags) \in Nat /\ Len(d.tags) <= TxCapacity /\ Len(d.tags) + 2 < LogLen
         /\ DOMAIN d.tags = 1..Len(d.tags) /\ d.sums \in [1..Len(d.tags) -> HomePage]
         /\ \A i \in 0..(Len(d.tags) + 2) : i \in 0..LogLen /\ LogPage(jbd2_advance_n(k, i)) \in LogPages \ {JSB}
         /\ jbd2_advance_n(k, Len(d.tags) + 2) \in 1..LogLen
         /\ d.seq \in Nat \ {0}
<1> DEFINE d == m[LogPage(k)]
<1>1. LogPage(k) \in LogPages \ {JSB} /\ LogPage(k) \in Pages
  BY PageKinds
<1>2. IsLogBlock(d)
  BY <1>1, SurvivorType DEF PageOK
<1>3. /\ d.tags \in Seq(Homes) /\ Len(d.tags) <= TxCapacity
      /\ d.sums \in [1..Len(d.tags) -> HomePage] /\ d.seq \in Nat \ {0}
  BY <1>2 DEF IsLogBlock
<1> DEFINE c == Len(d.tags)
<1>4. c \in Nat /\ c <= TxCapacity /\ DOMAIN d.tags = 1..c
  BY <1>3
<1> HIDE DEF c
<1>5. c + 2 < LogLen /\ c + 2 \in 0..LogLen /\ \A i \in 0..(c + 2) : i \in 0..LogLen
  BY <1>4, PageKinds
<1>6. \A i \in 0..LogLen : LogPage(jbd2_advance_n(k, i)) \in LogPages \ {JSB} /\ jbd2_advance_n(k, i) \in 1..LogLen
  BY Advance
<1> QED BY <1>3, <1>4, <1>5, <1>6 DEF c

\* What recovery reads of the log is the same where the log pages are.
LEMMA TxSame ==
  ASSUME StorageType, NEW m \in Survivors, NEW n, \A p \in LogPages : n[p] = m[p]
  PROVE  /\ \A k \in 1..LogLen : \A s : TxAt(n, k, s) <=> TxAt(m, k, s)
         /\ \A k \in 1..LogLen : Past(n, k) = Past(m, k)
         /\ HasTx(n) <=> HasTx(m)
         /\ m[JSB].start # 0 => Desc(n) = Desc(m)
         /\ Tagged(n) = Tagged(m)
<1>0. \A k \in 1..LogLen : LogPage(k) \in LogPages \ {JSB} /\ n[LogPage(k)] = m[LogPage(k)]
  BY PageKinds
<1>1. ASSUME NEW k \in 1..LogLen, NEW s PROVE TxAt(n, k, s) <=> TxAt(m, k, s)
  <2> DEFINE d == m[LogPage(k)]
  <2>1. n[LogPage(k)] = d
    BY <1>0
  <2>2. CASE d.type # "descriptor"
    BY <2>1, <2>2 DEF TxAt
  <2>3. CASE d.type = "descriptor"
    <3>1. DOMAIN d.tags = 1..Len(d.tags) /\ Len(d.tags) \in Nat
          /\ \A i \in 0..(Len(d.tags) + 2) : LogPage(jbd2_advance_n(k, i)) \in LogPages \ {JSB}
      BY <2>3, TxPages
    <3> DEFINE c == Len(d.tags)
    <3>2. c \in Nat /\ c + 1 \in 0..(c + 2) /\ \A i \in 1..c : i \in 0..(c + 2)
      BY <3>1
    <3>3. \A i \in DOMAIN d.tags : n[LogPage(jbd2_advance_n(k, i))] = m[LogPage(jbd2_advance_n(k, i))]
      BY <3>1, <3>2
    <3>4. n[LogPage(jbd2_advance_n(k, Len(d.tags) + 1))] = m[LogPage(jbd2_advance_n(k, Len(d.tags) + 1))]
      BY <3>1, <3>2
    <3> QED BY <2>1, <3>3, <3>4 DEF TxAt
  <2> QED BY <2>2, <2>3
<1>2. \A k \in 1..LogLen : Past(n, k) = Past(m, k)
  BY <1>0 DEF Past
<1>3. n[JSB] = m[JSB] /\ m[JSB].start \in 0..LogLen /\ (m[JSB].start # 0 => m[JSB].start \in 1..LogLen)
  <2>1. n[JSB] = m[JSB] /\ m[JSB].start \in 0..LogLen
    BY PageKinds, SuperType
  <2>2. LogLen \in Nat
    BY PageKinds
  <2> QED BY <2>1, <2>2
<1>4. HasTx(n) <=> HasTx(m)
  BY <1>1, <1>3 DEF HasTx
<1>5. m[JSB].start # 0 => Desc(n) = Desc(m)
  BY <1>0, <1>3 DEF Desc
<1>6. Tagged(n) = Tagged(m)
  BY <1>4, <1>5 DEF Tagged, HasTx
<1> QED BY <1>1, <1>2, <1>4, <1>5, <1>6

\* A log with s_start = 0 holds no transaction.
LEMMA EmptyLog ==
  ASSUME NEW m, m[JSB].start = 0
  PROVE  ~HasTx(m) /\ Tagged(m) = {}
BY DEF HasTx, Tagged

\* The transaction that a log holds.
LEMMA HasTxAt ==
  ASSUME StorageType, NEW m \in Survivors, HasTx(m)
  PROVE  /\ m[JSB].start \in 1..LogLen /\ TxAt(m, m[JSB].start, m[JSB].seq)
         /\ Desc(m) = m[LogPage(m[JSB].start)] /\ Desc(m).type = "descriptor"
         /\ Tagged(m) = Range(Desc(m).tags) /\ Tagged(m) \subseteq Homes
         /\ \A p \in Tagged(m) : Logged(Desc(m), p) \in HomePage
         /\ Past(m, m[JSB].start) \in 1..LogLen
<1>1. m[JSB].start \in 0..LogLen /\ LogLen \in Nat /\ m[JSB].start # 0
  BY SuperType, PageKinds DEF HasTx
<1>2. m[JSB].start \in 1..LogLen
  BY <1>1
<1>3. TxAt(m, m[JSB].start, m[JSB].seq)
  BY DEF HasTx
<1> QED BY <1>2, <1>3, TxType DEF Desc, Tagged, TxAt

\* A mild step below the mount's outermost frame keeps what the scan has found.
LEMMA ScanKeep ==
  ASSUME Base, StorageType', Scanning, SuperMono, NEW T, Mild(T), phase' = phase, rec' = rec,
         \A u \in Callers : \A l : Bottom(u, l)' <=> Bottom(u, l)
  PROVE  Scanning'
<1> USE DEF Base
<1> SUFFICES ASSUME phase = "mounting" PROVE Scanning'
  BY DEF Scanning
<1>0. JSB \in Pages /\ Dev(JSB).seq \in Nat
  BY SuperType
<1>1. /\ DOMAIN cache = {} => DOMAIN cache' = {}
      /\ T \subseteq DOMAIN cache
      /\ JSB \in DOMAIN cache' => JSB \in DOMAIN cache /\ cache'[JSB].data = cache[JSB].data
  BY PageKinds DEF Mild
<1>2. \A p \in Pages : bcache_read_bytes(p)' = bcache_read_bytes(p)
  BY DEF Mild
<1>3. CASE JSB \notin T
  <2>1. \A p \in LogPages : p \in Pages /\ Dev(p)' = Dev(p)
    BY <1>1, <1>3, PageKinds DEF Mild, StorageType
  <2>2. \A p \in LogPages : Device'[p] = Device[p]
    BY <2>1, DeviceAt
  <2>3. Device \in Survivors /\ Device[JSB] = Dev(JSB) /\ Dev(JSB)' = Dev(JSB)
    BY <1>0, <2>1, DeviceSurvives, PageKinds
  <2>4. /\ \A k \in 1..LogLen : Past(Device', k) = Past(Device, k)
        /\ HasTx(Device') <=> HasTx(Device)
        /\ Device[JSB].start # 0 => Desc(Device') = Desc(Device)
        /\ Tagged(Device') = Tagged(Device)
    BY <2>2, <2>3, TxSame
  <2>5. HasTx(Device) => Dev(JSB).start \in 1..LogLen /\ Dev(JSB).start # 0
    BY <2>3, HasTxAt DEF HasTx
  <2>6. HasTx(Device)' <=> HasTx(Device)
    BY <2>4 DEF HasTx, TxAt
  <2>7. HasTx(Device) => Past(Device, Dev(JSB).start)' = Past(Device, Dev(JSB).start)
    BY <2>3, <2>4, <2>5 DEF Past
  <2>8. ASSUME \A p \in Tagged(Device) : bcache_read_bytes(p) = Logged(Desc(Device), p)
        PROVE  (\A p \in Tagged(Device) : bcache_read_bytes(p) = Logged(Desc(Device), p))'
    <3>1. Tagged(Device)' = Tagged(Device)
      BY <2>4 DEF Tagged, HasTx, TxAt, Desc
    <3>2. CASE HasTx(Device)
      <4>1. Desc(Device)' = Desc(Device)
        BY <2>3, <2>4, <2>5, <3>2 DEF Desc
      <4>2. Tagged(Device) \subseteq Pages
        BY <2>3, <3>2, HasTxAt, PageKinds
      <4> QED BY <1>2, <2>8, <3>1, <4>1, <4>2 DEF Logged
    <3>3. CASE ~HasTx(Device)
      <4>1. Tagged(Device) = {}
        BY <3>3 DEF Tagged
      <4> QED BY <3>1, <4>1
    <3> QED BY <3>2, <3>3
  <2>9. bcache_read_bytes(JSB)' = bcache_read_bytes(JSB) /\ Super(0, rec.seq, rec.head)' = Super(0, rec.seq, rec.head)
    BY <1>0, <1>2 DEF Super
  <2> SUFFICES ASSUME NEW t \in Callers
      PROVE (LET j == Dev(JSB) IN
        /\ Bottom(t, "recover") \/ Bottom(t, "scan") \/ Bottom(t, "empty") => DOMAIN cache = {}
        /\ Bottom(t, "scan") \/ Bottom(t, "replay") \/ Bottom(t, "replayed") =>
             j.start # 0 /\ JSB \notin DOMAIN cache
        /\ Bottom(t, "scan") =>
             /\ rec.tid = j.seq /\ rec.at = j.start
             /\ \/ rec.seq = j.seq /\ rec.head = j.start
                \/ HasTx(Device) /\ rec.seq = j.seq + 1 /\ rec.head = Past(Device, j.start)
        /\ Bottom(t, "replay") \/ Bottom(t, "replayed") =>
             \/ rec.seq = j.seq /\ rec.head = j.start
             \/ HasTx(Device) /\ rec.seq = j.seq + 1 /\ rec.head = Past(Device, j.start)
        /\ Bottom(t, "replay") /\ rec.tid # rec.seq =>
             HasTx(Device) /\ rec.tid = j.seq /\ rec.at = j.start /\ DOMAIN cache = {}
        /\ Bottom(t, "replayed") \/ (Bottom(t, "replay") /\ rec.tid = rec.seq)
            \/ Bottom(t, "emptied") \/ Bottom(t, "open") =>
             Recovered
        /\ Bottom(t, "empty") => j.start = 0 /\ rec.seq = j.seq /\ rec.head = j.head
        /\ Bottom(t, "emptied") =>
             bcache_read_bytes(JSB) = Super(0, rec.seq, rec.head) /\ rec.seq >= j.seq
        /\ Bottom(t, "open") /\ JSB \in DOMAIN cache => cache[JSB].data = Super(0, rec.seq, rec.head))'
    BY DEF Scanning
  <2>10. (Bottom(t, "replayed") \/ (Bottom(t, "replay") /\ rec.tid = rec.seq)
            \/ Bottom(t, "emptied") \/ Bottom(t, "open"))' =>
             Recovered'
    BY <2>3, <2>8 DEF Scanning, Recovered
  <2>11. (Bottom(t, "recover") \/ Bottom(t, "scan") \/ Bottom(t, "empty"))' => DOMAIN cache' = {}
    BY <1>1 DEF Scanning
  <2>12. (Bottom(t, "scan") \/ Bottom(t, "replay") \/ Bottom(t, "replayed"))' =>
             Dev(JSB)'.start # 0 /\ JSB \notin DOMAIN cache'
    BY <1>1, <2>3 DEF Scanning
  <2>13. Bottom(t, "scan")' =>
             /\ rec'.tid = Dev(JSB)'.seq /\ rec'.at = Dev(JSB)'.start
             /\ \/ rec'.seq = Dev(JSB)'.seq /\ rec'.head = Dev(JSB)'.start
                \/ HasTx(Device)' /\ rec'.seq = Dev(JSB)'.seq + 1 /\ rec'.head = Past(Device, Dev(JSB).start)'
    BY <2>3, <2>6, <2>7 DEF Scanning
  <2>14. (Bottom(t, "replay") \/ Bottom(t, "replayed"))' =>
             \/ rec'.seq = Dev(JSB)'.seq /\ rec'.head = Dev(JSB)'.start
             \/ HasTx(Device)' /\ rec'.seq = Dev(JSB)'.seq + 1 /\ rec'.head = Past(Device, Dev(JSB).start)'
    BY <2>3, <2>6, <2>7 DEF Scanning
  <2>15. Bottom(t, "replay")' /\ rec'.tid # rec'.seq =>
             HasTx(Device)' /\ rec'.tid = Dev(JSB)'.seq /\ rec'.at = Dev(JSB)'.start /\ DOMAIN cache' = {}
    BY <1>1, <2>3, <2>6 DEF Scanning
  <2>16. Bottom(t, "empty")' => Dev(JSB)'.start = 0 /\ rec'.seq = Dev(JSB)'.seq /\ rec'.head = Dev(JSB)'.head
    BY <2>3 DEF Scanning
  <2>17. Bottom(t, "emptied")' =>
             bcache_read_bytes(JSB)' = Super(0, rec.seq, rec.head)' /\ rec'.seq >= Dev(JSB)'.seq
    BY <2>3, <2>9 DEF Scanning
  <2>18. Bottom(t, "open")' /\ JSB \in DOMAIN cache' => cache'[JSB].data = Super(0, rec.seq, rec.head)'
    BY <1>1, <2>9 DEF Scanning
  <2> QED BY <2>10, <2>11, <2>12, <2>13, <2>14, <2>15, <2>16, <2>17, <2>18
<1>4. CASE JSB \in T
  <2>1. JSB \in DOMAIN cache
    BY <1>1, <1>4
  <2>2. Dev(JSB)' = bcache_read_bytes(JSB) /\ bcache_read_bytes(JSB) = cache[JSB].data
    BY <1>0, <1>4, <2>1 DEF Mild, bcache_read_bytes
  <2>3. Dev(JSB)'.start = 0
    BY <2>1, <2>2 DEF SuperMono
  <2>4. Device'[JSB] = Dev(JSB)'
    BY <1>0, DeviceAt
  <2>5. Tagged(Device') = {}
    BY <2>3, <2>4, EmptyLog
  <2>6. Tagged(Device)' = {}
    BY <2>5 DEF Tagged, HasTx, TxAt, Desc
  <2>7. \A t \in Callers : ~Bottom(t, "recover") /\ ~Bottom(t, "scan") /\ ~Bottom(t, "empty")
                           /\ ~Bottom(t, "replay") /\ ~Bottom(t, "replayed")
    BY <2>1 DEF Scanning
  <2>8. Super(0, rec.seq, rec.head)' = Super(0, rec.seq, rec.head) /\ Super(0, rec.seq, rec.head).seq = rec.seq
    BY DEF Super
  <2>9. ASSUME NEW t \in Callers, Bottom(t, "emptied")
        PROVE  bcache_read_bytes(JSB)' = Super(0, rec.seq, rec.head)' /\ rec'.seq >= Dev(JSB)'.seq
    <3>1. bcache_read_bytes(JSB) = Super(0, rec.seq, rec.head)
      BY <2>9 DEF Scanning
    <3>2. rec.seq \in Nat
      BY DEF ControlType
    <3>3. Dev(JSB)'.seq = rec.seq
      BY <2>2, <2>8, <3>1
    <3> QED BY <1>0, <1>2, <2>8, <3>1, <3>2, <3>3
  <2>10. ASSUME NEW t \in Callers, Bottom(t, "open"), JSB \in DOMAIN cache'
        PROVE  cache'[JSB].data = Super(0, rec.seq, rec.head)'
    BY <1>1, <2>8, <2>10 DEF Scanning
  <2> QED BY <2>6, <2>7, <2>9, <2>10 DEF Scanning, Recovered
<1> QED BY <1>3, <1>4

\* The steps of a mount that is under way or was refused.
LEMMA AloneSteps ==
  ASSUME ControlType, Shape, phase \in {"mounting", "refused"}, NEW t \in Callers, CallerStep(t)
  PROVE  /\ stack[t] # <<>>
         /\ \/ SyncTest(t) \/ SyncWrite(t) \/ SyncFlush(t)
            \/ Recover(t) \/ ScanPass(t) \/ ReplayPass(t) \/ RecoverDefer(t) \/ RecoverEmpty(t)
            \/ MountError(t) \/ Open(t)
            \/ Closed(t)
<1>1. \A l : At(t, l) => l \in MountPcs \cup {"sync", "write", "flush", "closed"}
  <2> SUFFICES ASSUME NEW l, At(t, l) PROVE l \in MountPcs \cup {"sync", "write", "flush", "closed"}
    OBVIOUS
  <2>1. stack[t] # <<>> /\ Top(t).pc = l
    BY DEF At
  <2>2. Alone /\ Entry \subseteq MountPcs \cup {"closed"}
    BY DEF Alone, Entry
  <2> QED BY <2>1, <2>2, TopKind
<1> HIDE DEF At
<1>2. ~HookLoad(t) /\ ~HookCall(t) /\ ~HookReturn(t) /\ ~FsyncStep(t) /\ ~UnmountSync(t)
      /\ ~SyncCall(t) /\ ~UnmountCommit(t) /\ ~Mount(t)
  <2>1. /\ ~At(t, "hooked") /\ ~At(t, "hook") /\ ~At(t, "hookDec") /\ ~At(t, "fsync") /\ ~At(t, "fsynced")
        /\ ~At(t, "close")
    BY <1>1 DEF MountPcs
  <2> QED BY <2>1 DEF HookLoad, HookCall, HookReturn, FsyncStep, UnmountSync, SyncCall, UnmountCommit, Mount
<1>3. ~CommitBegin(t) /\ ~CommitLowered(t) /\ ~CommitRaise(t) /\ ~CommitRaised(t)
      /\ ~CommitDescriptor(t) /\ ~CommitData(t) /\ ~CommitStart(t) /\ ~CommitBlock(t)
  <2>1. /\ ~At(t, "commit") /\ ~At(t, "lowered") /\ ~At(t, "dataHome") /\ ~At(t, "raised")
        /\ ~At(t, "descriptor") /\ ~At(t, "data") /\ ~At(t, "start") /\ ~At(t, "block")
    BY <1>1 DEF MountPcs
  <2> QED BY <2>1 DEF CommitBegin, CommitLowered, CommitRaise, CommitRaised, CommitDescriptor, CommitData,
              CommitStart, CommitBlock
<1>4. ~CommitFlush(t) /\ ~CommitDurable(t) /\ ~CommitCheckpoint(t) /\ ~CommitEmpty(t) /\ ~CommitLower(t)
  <2>1. /\ ~At(t, "descriptorFlush") /\ ~At(t, "dataFlush") /\ ~At(t, "startFlush") /\ ~At(t, "emptyFlush")
        /\ ~At(t, "blockFlush") /\ ~At(t, "checkpoint") /\ ~At(t, "checkpointed") /\ ~At(t, "lower")
    BY <1>1 DEF MountPcs
  <2> QED BY <2>1 DEF CommitFlush, CommitDurable, CommitCheckpoint, CommitEmpty, CommitLower
<1>5. ~CommitError(t)
  BY <1>1 DEF CommitError, MountPcs
<1>6. \/ SyncTest(t) \/ SyncWrite(t) \/ SyncFlush(t)
      \/ Recover(t) \/ ScanPass(t) \/ ReplayPass(t) \/ RecoverDefer(t) \/ RecoverEmpty(t)
            \/ MountError(t) \/ Open(t)
      \/ Closed(t)
  BY <1>2, <1>3, <1>4, <1>5 DEF CallerStep
<1>7. stack[t] # <<>>
  BY <1>6 DEF SyncTest, SyncWrite, SyncFlush, Recover, ScanPass, ReplayPass, RecoverDefer, RecoverEmpty,
         MountError, Open, Closed, At
<1> QED BY <1>6, <1>7

\* The steps a mount takes.
LEMMA MountSteps ==
  ASSUME ControlType, Shape, phase = "mounting", NEW t \in Callers, CallerStep(t)
  PROVE  /\ stack[t] # <<>>
         /\ \/ SyncTest(t) \/ SyncWrite(t) \/ SyncFlush(t)
            \/ Recover(t) \/ ScanPass(t) \/ ReplayPass(t) \/ RecoverDefer(t) \/ RecoverEmpty(t)
            \/ MountError(t) \/ Open(t)
<1>1. ~Closed(t)
  BY ClosePhase DEF Closed, At
<1> QED BY <1>1, AloneSteps

\* A sync of the mount runs above one of its frames.
LEMMA MountSync ==
  ASSUME ControlType, Shape, phase = "mounting", NEW t \in Callers, stack[t] # <<>>, Top(t).pc \in SyncPcs
  PROVE  /\ Len(stack[t]) = 2 /\ Mode(t) = "ALL" /\ stack[t][1].pc \in MountPcs
         /\ \A l \in Pcs : Goto(t, l) => \A k : Bottom(t, k)' <=> Bottom(t, k)
         /\ \A r \in BOOLEAN : Return(t, r) =>
              /\ \A k : Bottom(t, k)' <=> Bottom(t, k)
              /\ Len(stack'[t]) = 1 /\ (ok'[t] <=> r)
<1> DEFINE n == Len(stack[t])
<1>1. Alone /\ Entry = MountPcs
  BY DEF Alone, Entry
<1>2. n # 1
  <2>1. Top(t).pc \notin MountPcs
    BY PcStrings
  <2> QED BY <1>1, <2>1, TopKind
<1>3. n = 2 /\ CalledBy(stack[t][n - 1].pc, Top(t))
  BY <1>1, <1>2, TopKind
<1>4. stack[t][1].pc \in MountPcs
  BY <1>1 DEF Shape, Stacked
<1> HIDE DEF n
<1>5. n - 1 = 1 /\ 1 \in 1..(n - 1)
  BY <1>3
<1>6. Mode(t) = "ALL"
  <2>1. CalledBy(stack[t][1].pc, Top(t))
    BY <1>3, <1>5
  <2> QED BY <1>4, <2>1 DEF CalledBy, MountPcs, Mode, SyncPcs, CommitPcs, CommitIn
<1>7. ASSUME NEW l \in Pcs, Goto(t, l), NEW k PROVE Bottom(t, k)' <=> Bottom(t, k)
  <2>1. Frame(l, Mode(t)) \in Frames
    BY TopFrame
  <2>2. stack'[t] # <<>> /\ stack'[t][1] = stack[t][1]
    BY <1>5, <1>7, <2>1, BecomeStack DEF Goto, n
  <2> QED BY <2>2 DEF Bottom
<1>8. ASSUME NEW r \in BOOLEAN, Return(t, r)
      PROVE  /\ \A k : Bottom(t, k)' <=> Bottom(t, k)
             /\ Len(stack'[t]) = 1 /\ (ok'[t] <=> r)
  <2>1. /\ Len(stack'[t]) = n - 1 /\ stack'[t][1] = stack[t][1] /\ (stack'[t] # <<>> => ok'[t] = r)
    BY <1>5, <1>8, ReturnStack DEF n
  <2>2. stack'[t] # <<>>
    <3>1. Len(stack'[t]) = 1
      BY <1>5, <2>1
    <3>2. SUFFICES ASSUME stack'[t] = <<>> PROVE FALSE
      OBVIOUS
    <3>3. Len(stack'[t]) = 0
      BY <3>2, Nil
    <3> QED BY <3>1, <3>3
  <2> QED BY <1>5, <2>1, <2>2 DEF Bottom
<1> QED BY <1>3, <1>4, <1>6, <1>7, <1>8 DEF n

\* Outside the mounted phase at most one task is in a call.
LEMMA MountOne ==
  ASSUME ControlType, Shape, phase # "mounted", NEW t \in Callers, stack[t] # <<>>, NEW u \in Callers \ {t}
  PROVE  stack[u] = <<>> /\ \A l : ~Bottom(u, l) /\ ~At(u, l)
BY DEF Shape, Bottom, At

\* A mount's sync that got as far as the device flush has written every page.
Washed ==
  phase = "mounting" => \A t \in Callers :
    At(t, "flush") \/ ((At(t, "replayed") \/ At(t, "emptied")) /\ ok[t]) =>
      \A p \in DOMAIN cache : ~cache[p].dirty

\* The steps of a mount keep a washed cache washed.
LEMMA WashedCaller ==
  ASSUME Base, Scanning, Idle, Pins, Washed, NEW t \in Callers, CallerStep(t), phase = "mounting", phase' = "mounting"
  PROVE  Washed'
<1> USE DEF Base
<1>0. stack[t] # <<>>
  BY MountSteps
<1>1. \A u \in Callers \ {t} : \A l : ~At(u, l)'
  BY <1>0, MountOne, OthersStay DEF At, Top
<1>a. \A l : At(t, l) => Top(t).pc = l
  BY DEF At
<1> SUFFICES ASSUME At(t, "flush")' \/ ((At(t, "replayed")' \/ At(t, "emptied")') /\ ok'[t])
    PROVE  \A p \in DOMAIN cache' : ~cache'[p].dirty
  BY <1>1 DEF Washed
<1>2. CASE SyncTest(t)
  <2>1. PICK l \in {"hook", "write"} : Goto(t, l)
    BY <1>2 DEF SyncTest
  <2>2. l \in Pcs
    BY DEF Pcs, SyncPcs
  <2>3. \A x : At(t, x)' => x = l
    BY <1>0, <2>1, <2>2, TopMoves
  <2> QED BY <2>1, <2>3
<1>3. CASE SyncWrite(t)
  <2>0. At(t, "write") /\ Top(t).pc \in SyncPcs
    BY <1>3, <1>a DEF SyncWrite, SyncPcs
  <2>1. Mode(t) = "ALL"
    BY <1>0, <2>0, MountSync
  <2>2. CASE Return(t, FALSE)
    <3>1. ~ok'[t]
      BY <1>0, <2>0, <2>2, MountSync
    <3>2. ~At(t, "flush")'
      <4>1. At(t, "flush")' => CalledBy("flush", Top(t))
        BY <1>0, <2>2, TopMoves
      <4> QED BY <4>1 DEF CalledBy
    <3> QED BY <3>1, <3>2
  <2>3. CASE \A p \in DOMAIN cache' :
                    cache'[p].dirty => cache[p].dirty /\ p \notin SyncSelection(Mode(t))
    <3>1. DOMAIN cache' = DOMAIN cache
      BY <1>3, SyncStore DEF HoldsStay
    <3>2. \A p \in DOMAIN cache : ~cache[p].held
      <4>1. tx = <<>>
        BY DEF Idle
      <4> QED BY <4>1 DEF Pins, HoldsMatchTx
    <3> QED BY <2>1, <2>3, <3>1, <3>2 DEF SyncSelection
  <2> QED BY <1>3, <2>2, <2>3, SyncStore
<1>4. CASE SyncFlush(t)
  <2>0. At(t, "flush") /\ Top(t).pc \in SyncPcs
    BY <1>4, <1>a DEF SyncFlush, SyncPcs
  <2>1. \A p \in DOMAIN cache : ~cache[p].dirty
    BY <2>0 DEF Washed
  <2>2. cache' = cache
    BY <1>4 DEF SyncFlush, DevFlush, DevError
  <2> QED BY <2>1, <2>2
<1>5. CASE Recover(t) \/ RecoverDefer(t)
  <2>1. PICK l \in {"empty", "scan", "open"} : Goto(t, l)
    BY <1>5 DEF Recover, RecoverDefer
  <2>2. l \in Pcs
    BY DEF Pcs, MountPcs
  <2>3. \A x : At(t, x)' => x = l
    BY <1>0, <2>1, <2>2, TopMoves
  <2> QED BY <2>1, <2>3
<1>6. CASE ScanPass(t)
  <2>1. CASE stack' = stack
    <3>1. Top(t).pc = "scan"
      BY <1>6, <1>a DEF ScanPass
    <3> QED BY <2>1, <3>1 DEF At, Top
  <2>2. CASE Goto(t, "replay")
    <3>1. "replay" \in Pcs
      BY DEF Pcs, MountPcs
    <3>2. \A x : At(t, x)' => x = "replay"
      BY <1>0, <2>2, <3>1, TopMoves
    <3> QED BY <3>2
  <2> QED BY <1>6, <2>1, <2>2 DEF ScanPass
<1>7. CASE ReplayPass(t)
  <2>1. CASE stack' = stack
    <3>1. Top(t).pc = "replay"
      BY <1>7, <1>a DEF ReplayPass
    <3> QED BY <2>1, <3>1 DEF At, Top
  <2>2. CASE Call(t, "replayed", Sync("ALL"))
    <3>1. "replayed" \in Pcs /\ Sync("ALL") \in Frames /\ Sync("ALL").pc = "sync"
      BY FrameKinds DEF Pcs, MountPcs
    <3>2. \A x : At(t, x)' => x = "sync"
      BY <1>0, <2>2, <3>1, TopMoves
    <3> QED BY <3>2
  <2> QED BY <1>7, <2>1, <2>2 DEF ReplayPass
<1>8. CASE RecoverEmpty(t)
  <2>1. PICK l \in {"emptied", "open"} : Call(t, l, Sync("ALL"))
    BY <1>8 DEF RecoverEmpty
  <2>2. l \in Pcs /\ Sync("ALL") \in Frames /\ Sync("ALL").pc = "sync"
    BY FrameKinds DEF Pcs, MountPcs
  <2>3. \A x : At(t, x)' => x = "sync"
    BY <1>0, <2>1, <2>2, TopMoves
  <2> QED BY <2>3
<1>9. CASE Open(t)
  BY <1>9 DEF Open, Refuse
<1>10. CASE MountError(t)
  BY <1>10 DEF MountError, Refuse
<1> QED BY MountSteps, <1>2, <1>3, <1>4, <1>5, <1>6, <1>7, <1>8, <1>9, <1>10

\* Every step keeps a washed cache washed.
LEMMA WashedStep ==
  ASSUME Base, Scanning, Idle, Pins, Washed, Next
  PROVE  Washed'
<1> USE DEF Base
<1> SUFFICES ASSUME phase' = "mounting" PROVE Washed'
  BY DEF Washed
<1>1. ASSUME NEW t \in Callers, CallerStep(t) PROVE Washed'
  <2>1. CASE phase = "mounting"
    BY <1>1, <2>1, WashedCaller
  <2>2. CASE phase # "mounting"
    <3>1. Mount(t)
      <4>1. CASE StillStep(t)
        BY <4>1, <2>2, StillPhase
      <4>2. CASE ~StillStep(t)
        BY <1>1, <2>2, <4>2, CallerKinds, KindPhase, MarkEffect, CopyEffect, PartEffect DEF CallerKind
      <4> QED BY <4>1, <4>2
    <3>2. DOMAIN cache' = {}
      BY <3>1 DEF Mount, Idle, bcVars
    <3> QED BY <3>2 DEF Washed
  <2> QED BY <2>1, <2>2
<1>2. CASE (\E w \in Workloads : OpBegin(w)) \/ DataWrite \/ MetaWrite \/ MetaRecord
  BY <1>2, WriteEffect, RecordEffect DEF OpBegin, mountVars
<1>3. CASE EvictPage \/ EvictDone \/ QuarantinePasses
  <2>1. PICK T : Mild(T)
    BY <1>3, EvictStore, RecycleStore, QuarantineEffect DEF MildStep
  <2>2. UNCHANGED <<phase, stack, ok>>
    BY <1>3 DEF EvictPage, EvictDone, QuarantinePasses, jVars, mountVars, callVars
  <2>3. \A t \in Callers : \A l : At(t, l)' <=> At(t, l)
    BY <2>2 DEF At, Top
  <2> QED BY <2>1, <2>2, <2>3 DEF Mild, Washed
<1>4. CASE Crash
  BY <1>4 DEF Crash, Forget
<1> QED BY <1>1, <1>2, <1>3, <1>4 DEF Next

\* What Scanning says of one caller.
ScanAt(t) ==
  LET j == Dev(JSB) IN
    /\ Bottom(t, "recover") \/ Bottom(t, "scan") \/ Bottom(t, "empty") => DOMAIN cache = {}
    /\ Bottom(t, "scan") \/ Bottom(t, "replay") \/ Bottom(t, "replayed") =>
         j.start # 0 /\ JSB \notin DOMAIN cache
    /\ Bottom(t, "scan") =>
         /\ rec.tid = j.seq /\ rec.at = j.start
         /\ \/ rec.seq = j.seq /\ rec.head = j.start
            \/ HasTx(Device) /\ rec.seq = j.seq + 1 /\ rec.head = Past(Device, j.start)
    /\ Bottom(t, "replay") \/ Bottom(t, "replayed") =>
         \/ rec.seq = j.seq /\ rec.head = j.start
         \/ HasTx(Device) /\ rec.seq = j.seq + 1 /\ rec.head = Past(Device, j.start)
    /\ Bottom(t, "replay") /\ rec.tid # rec.seq =>
         HasTx(Device) /\ rec.tid = j.seq /\ rec.at = j.start /\ DOMAIN cache = {}
    /\ Bottom(t, "replayed") \/ (Bottom(t, "replay") /\ rec.tid = rec.seq)
        \/ Bottom(t, "emptied") \/ Bottom(t, "open") =>
         Recovered
    /\ Bottom(t, "empty") => j.start = 0 /\ rec.seq = j.seq /\ rec.head = j.head
    /\ Bottom(t, "emptied") =>
         bcache_read_bytes(JSB) = Super(0, rec.seq, rec.head) /\ rec.seq >= j.seq
    /\ Bottom(t, "open") /\ JSB \in DOMAIN cache => cache[JSB].data = Super(0, rec.seq, rec.head)

\* Scanning is a statement about each caller.
LEMMA ScanIs == Scanning <=> (phase = "mounting" => \A t \in Callers : ScanAt(t))
BY DEF Scanning, ScanAt

\* The same after a step.
LEMMA ScanIsNext == Scanning' <=> (phase = "mounting" => \A t \in Callers : ScanAt(t))'
BY ScanIs, PTL

\* Only one caller can be mounting.
LEMMA ScanOnly ==
  ASSUME NEW t \in Callers, ScanAt(t)', \A u \in Callers \ {t} : stack'[u] = <<>>
  PROVE  Scanning'
<1>1. \A u \in Callers \ {t} : \A l : ~Bottom(u, l)'
  BY DEF Bottom
<1>2. \A u \in Callers \ {t} : ScanAt(u)'
  BY <1>1 DEF ScanAt
<1> QED BY <1>2, ScanIsNext

\* The outermost frame of a mount moves with its steps.
LEMMA MountBottom ==
  ASSUME ControlType, Shape, NEW t \in Callers, stack[t] # <<>>, Top(t).pc \in MountPcs,
         NEW l \in Pcs, Goto(t, l) \/ Call(t, l, Sync("ALL"))
  PROVE  /\ \A k : Bottom(t, k)' <=> k = l
         /\ \A k : Bottom(t, k) <=> k = Top(t).pc
         /\ \A u \in Callers \ {t} : stack'[u] = <<>>
<1>1. phase = "mounting" /\ Len(stack[t]) = 1 /\ Top(t) = stack[t][1]
  BY MountPhase
<1>2. Sync("ALL") \in Frames /\ Frame(l, Mode(t)) \in Frames /\ Frame(l, Mode(t)).pc = l
  BY FrameKinds, TopFrame
<1>3. stack'[t] # <<>> /\ stack'[t][1] = Frame(l, Mode(t)) /\ \A u \in Callers \ {t} : stack'[u] = stack[u]
  <2>1. CASE Goto(t, l)
    BY <1>1, <1>2, <2>1, BecomeStack DEF Goto
  <2>2. CASE Call(t, l, Sync("ALL"))
    BY <1>1, <1>2, <2>2, CallStack
  <2> QED BY <2>1, <2>2
<1>4. \A u \in Callers \ {t} : stack[u] = <<>>
  BY <1>1, MountOne
<1> QED BY <1>1, <1>2, <1>3, <1>4 DEF Bottom

\* What updates of recovery's position leave.
LEMMA RecFields ==
  ASSUME NEW r \in [seq : Nat, head : 0..LogLen, tid : Nat, at : 0..LogLen, faults : Nat],
         NEW s, NEW i, NEW h, NEW a
  PROVE  /\ \A q : q = [r EXCEPT !.seq = s, !.tid = i, !.at = a, !.head = h] =>
              q.seq = s /\ q.tid = i /\ q.at = a /\ q.head = h /\ q.faults = r.faults
         /\ \A q : q = [r EXCEPT !.seq = s, !.head = h] =>
              q.seq = s /\ q.tid = r.tid /\ q.at = r.at /\ q.head = h /\ q.faults = r.faults
         /\ \A q : q = [r EXCEPT !.tid = i, !.at = a] =>
              q.seq = r.seq /\ q.tid = i /\ q.at = a /\ q.head = r.head /\ q.faults = r.faults
OBVIOUS

\* Nothing that the scan reads changes when the storage stands still.
LEMMA ScanStill ==
  ASSUME UNCHANGED <<media, wcache, cache>>
  PROVE  /\ Dev(JSB)' = Dev(JSB) /\ Device' = Device /\ (HasTx(Device)' <=> HasTx(Device))
         /\ Past(Device, Dev(JSB).start)' = Past(Device, Dev(JSB).start)
         /\ Tagged(Device)' = Tagged(Device) /\ Desc(Device)' = Desc(Device)
         /\ \A p : bcache_read_bytes(p)' = bcache_read_bytes(p)
         /\ \A p : Logged(Desc(Device), p)' = Logged(Desc(Device), p)
BY DEF Dev, Device, Over, HasTx, TxAt, Past, Tagged, Desc, bcache_read_bytes, Logged

\* Nothing that the scan reads changes while the device does not.
LEMMA ScanDevice ==
  ASSUME Device' = Device, Dev(JSB)' = Dev(JSB)
  PROVE  /\ (HasTx(Device)' <=> HasTx(Device))
         /\ Past(Device, Dev(JSB).start)' = Past(Device, Dev(JSB).start)
         /\ Tagged(Device)' = Tagged(Device) /\ Desc(Device)' = Desc(Device)
         /\ \A p : Logged(Desc(Device), p)' = Logged(Desc(Device), p)
BY DEF HasTx, TxAt, Past, Tagged, Desc, Logged

\* The device's journal superblock and the transaction it leads to.
LEMMA DeviceSuper ==
  ASSUME StorageType
  PROVE  /\ Device \in Survivors /\ Device[JSB] = Dev(JSB)
         /\ Dev(JSB).seq \in Nat /\ Dev(JSB).start \in Nat /\ Dev(JSB).start \in 0..LogLen
         /\ Dev(JSB).start = 0 => Tagged(Device) = {} /\ ~HasTx(Device)
         /\ Dev(JSB).start # 0 => (HasTx(Device) <=> TxAt(Device, Dev(JSB).start, Dev(JSB).seq))
         /\ HasTx(Device) => Dev(JSB).start # 0
<1>1. Device \in Survivors /\ Device[JSB] = Dev(JSB)
  BY DeviceSurvives, SuperType
<1>2. Dev(JSB).seq \in Nat /\ Dev(JSB).start \in Nat /\ Dev(JSB).start \in 0..LogLen
  BY SuperType
<1> QED BY <1>1, <1>2, EmptyLog DEF HasTx

\* A mount starts with an empty cache.
LEMMA ScanMount ==
  ASSUME Base, Idle, NEW t \in Callers, Mount(t)
  PROVE  Scanning'
<1> USE DEF Base
<1>0. UNCHANGED <<media, wcache, cache>> /\ phase = "off"
  BY DEF Mount, bcVars
<1>1. PICK l \in {"recover", "open"} :
        /\ stack' = [stack EXCEPT ![t] = <<Frame(l, "")>>]
        /\ l = "open" => Dev(JSB).start = 0
  BY DEF Mount
<1>2. Frame(l, "") \in Frames /\ Frame(l, "").pc = l
  BY DEF Frame, Frames, Pcs, MountPcs
<1>3. /\ stack'[t] # <<>> /\ stack'[t][1] = Frame(l, "")
      /\ \A u \in Callers \ {t} : stack'[u] = stack[u]
  BY <1>1, <1>2, OneFrame
<1>4. \A k : Bottom(t, k)' => k = l
  BY <1>2, <1>3 DEF Bottom
<1>5. \A u \in Callers \ {t} : stack'[u] = <<>>
  BY <1>0, <1>3, OffStacks
<1>6. DOMAIN cache' = {}
  BY <1>0 DEF Idle
<1>7. l = "open" => Tagged(Device)' = {}
  BY <1>0, <1>1, DeviceSuper, ScanStill
<1>8. ScanAt(t)'
  BY <1>4, <1>6, <1>7 DEF ScanAt, Recovered
<1> QED BY <1>5, <1>8, ScanOnly

\* ext4_journal_recover() starts at the transaction the superblock names.
LEMMA ScanRecover ==
  ASSUME Base, Scanning, NEW t \in Callers, Recover(t)
  PROVE  Scanning'
<1> USE DEF Base
<1> DEFINE j == Dev(JSB)
<1>0. UNCHANGED <<media, wcache, cache>> /\ At(t, "recover")
  BY DEF Recover, bcVars
<1>1. stack[t] # <<>> /\ Top(t).pc = "recover" /\ Top(t).pc \in MountPcs
  BY <1>0 DEF At, MountPcs
<1>2. phase = "mounting"
  BY <1>1, MountPhase
<1>3. Goto(t, IF bcache_read_bytes(JSB).start = 0 THEN "empty" ELSE "scan")
  BY DEF Recover
<1>4. {"empty", "scan"} \subseteq Pcs
  BY DEF Pcs, MountPcs
<1>5. Bottom(t, "recover")
  BY <1>1, <1>3, <1>4, MountBottom
<1>6. DOMAIN cache = {} /\ bcache_read_bytes(JSB) = j
  BY <1>2, <1>5 DEF Scanning, bcache_read_bytes
<1>7. /\ \A k : Bottom(t, k)' <=> k = IF j.start = 0 THEN "empty" ELSE "scan"
      /\ \A u \in Callers \ {t} : stack'[u] = <<>>
  BY <1>1, <1>3, <1>4, <1>6, MountBottom
<1>8. rec' = [rec EXCEPT !.seq = j.seq, !.tid = j.seq, !.at = j.start,
                         !.head = IF j.start = 0 THEN j.head ELSE j.start]
  BY <1>6 DEF Recover
<1>9. rec \in [seq : Nat, head : 0..LogLen, tid : Nat, at : 0..LogLen, faults : Nat]
  BY DEF ControlType
<1> HIDE DEF j
<1>10. rec'.seq = j.seq /\ rec'.tid = j.seq /\ rec'.at = j.start
       /\ rec'.head = IF j.start = 0 THEN j.head ELSE j.start
  BY <1>8, <1>9, RecFields
<1>11. Dev(JSB)' = j /\ DOMAIN cache' = {}
  BY <1>0, <1>6, ScanStill DEF j
<1>12. ScanAt(t)'
  BY <1>7, <1>10, <1>11 DEF ScanAt
<1> QED BY <1>7, <1>12, ScanOnly

\* The log holds at most one transaction: no commit block carries the number of a second one.
LEMMA NoSecond ==
  ASSUME StorageType, OneTx, HasTx(Device), NEW n \in 1..LogLen
  PROVE  ~TxAt(Device, n, Dev(JSB).seq + 1)
<1> SUFFICES ASSUME TxAt(Device, n, Dev(JSB).seq + 1) PROVE FALSE
  OBVIOUS
<1> DEFINE d == Device[LogPage(n)]
           c == jbd2_advance_n(n, Len(d.tags) + 1)
<1>0. Device \in Survivors /\ Device[JSB] = Dev(JSB) /\ Dev(JSB).seq \in Nat
  BY DeviceSuper
<1>1. d.type = "descriptor" /\ Device[LogPage(c)] = [type |-> "commit", seq |-> Dev(JSB).seq + 1]
  BY DEF TxAt
<1>2. Len(d.tags) \in Nat /\ Len(d.tags) + 2 < LogLen /\ LogLen \in Nat
  BY <1>0, <1>1, TxPages, PageKinds
<1>3. c \in 1..LogLen
  <2>1. Len(d.tags) + 1 \in 0..LogLen
    BY <1>2
  <2> QED BY <2>1, Advance
<1>4. Device[LogPage(c)].type = "commit" /\ Device[LogPage(c)].seq = Dev(JSB).seq + 1
  BY <1>1
<1> HIDE DEF c
<1>5. Device[LogPage(c)].seq <= Dev(JSB).seq
  BY <1>0, <1>3, <1>4 DEF OneTx
<1> QED BY <1>0, <1>4, <1>5

\* The scan pass finds one transaction at most.
LEMMA ScanScan ==
  ASSUME Base, Scanning, LogInv, NEW t \in Callers, ScanPass(t)
  PROVE  Scanning'
<1> USE DEF Base
<1> DEFINE j == Dev(JSB)
<1>0. UNCHANGED <<media, wcache, cache>> /\ At(t, "scan")
  BY DEF ScanPass, bcVars, DevError
<1>1. stack[t] # <<>> /\ Top(t).pc = "scan" /\ Top(t).pc \in MountPcs
  BY <1>0 DEF At, MountPcs
<1>2. phase = "mounting" /\ Bottom(t, "scan")
  BY <1>1, MountPhase DEF Bottom
<1>3. /\ DOMAIN cache = {} /\ j.start # 0 /\ JSB \notin DOMAIN cache
      /\ rec.tid = j.seq /\ rec.at = j.start
      /\ \/ rec.seq = j.seq /\ rec.head = j.start
         \/ HasTx(Device) /\ rec.seq = j.seq + 1 /\ rec.head = Past(Device, j.start)
  BY <1>2 DEF Scanning
<1>4. /\ Dev(JSB)' = j /\ (HasTx(Device)' <=> HasTx(Device)) /\ DOMAIN cache' = {}
      /\ Past(Device, Dev(JSB).start)' = Past(Device, j.start)
      /\ Tagged(Device)' = Tagged(Device)
  BY <1>0, <1>3, ScanStill
<1>5. j.seq \in Nat /\ (HasTx(Device) <=> TxAt(Device, j.start, j.seq))
  BY <1>3, DeviceSuper
<1>6. rec \in [seq : Nat, head : 0..LogLen, tid : Nat, at : 0..LogLen, faults : Nat]
  BY DEF ControlType
<1>7. HasTx(Device) => Past(Device, j.start) \in 1..LogLen
  BY DeviceSuper, HasTxAt
<1>8. CASE /\ TxAt(Device, rec.head, rec.seq) /\ stack' = stack
           /\ rec' = [rec EXCEPT !.seq = rec.seq + 1, !.head = Past(Device, rec.head)]
  <2>1. rec' = [rec EXCEPT !.seq = rec.seq + 1, !.head = Past(Device, rec.head)] /\ stack' = stack
    BY <1>8
  <2>2. rec.seq = j.seq /\ rec.head = j.start
    <3>1. SUFFICES ASSUME HasTx(Device), rec.seq = j.seq + 1, rec.head = Past(Device, j.start) PROVE FALSE
      BY <1>3
    <3> QED BY <1>7, <1>8, <3>1, NoSecond DEF LogInv
  <2>3. HasTx(Device)
    BY <1>5, <1>8, <2>2
  <2> HIDE DEF j
  <2>4. rec'.seq = j.seq + 1 /\ rec'.head = Past(Device, j.start) /\ rec'.tid = j.seq /\ rec'.at = j.start
    BY <1>3, <1>6, <2>1, <2>2, RecFields
  <2>5. \A k : Bottom(t, k)' => k = "scan"
    BY <1>1, <1>2, <2>1 DEF Bottom
  <2>6. ScanAt(t)'
    BY <1>3, <1>4, <2>3, <2>4, <2>5 DEF ScanAt
  <2>7. \A u \in Callers \ {t} : stack'[u] = <<>>
    BY <1>1, <1>2, <2>1, MountOne
  <2> QED BY <2>6, <2>7, ScanOnly
<1>9. CASE Goto(t, "replay") /\ rec' = rec
  <2>1. "replay" \in Pcs
    BY DEF Pcs, MountPcs
  <2>2. /\ \A k : Bottom(t, k)' <=> k = "replay"
        /\ \A u \in Callers \ {t} : stack'[u] = <<>>
    BY <1>1, <1>9, <2>1, MountBottom
  <2>3. rec.tid # rec.seq =>
          HasTx(Device) /\ rec.seq = j.seq + 1 /\ rec.head = Past(Device, j.start)
    BY <1>3
  <2>4. rec.tid = rec.seq => Recovered'
    BY <1>3, <1>4, <1>5, <1>9 DEF Recovered
  <2> HIDE DEF j
  <2>5. ScanAt(t)'
    BY <1>3, <1>4, <1>9, <2>2, <2>3, <2>4 DEF ScanAt
  <2> QED BY <2>2, <2>5, ScanOnly
<1> QED BY <1>8, <1>9 DEF ScanPass

\* The replay pass reads through the cache what the log says.
LEMMA ScanReplay ==
  ASSUME Base, Scanning, NEW t \in Callers, ReplayPass(t)
  PROVE  Scanning'
<1> USE DEF Base
<1> DEFINE j == Dev(JSB)
<1>0. At(t, "replay")
  BY DEF ReplayPass
<1>1. stack[t] # <<>> /\ Top(t).pc = "replay" /\ Top(t).pc \in MountPcs
  BY <1>0 DEF At, MountPcs
<1>2. phase = "mounting" /\ Bottom(t, "replay")
  BY <1>1, MountPhase DEF Bottom
<1>3. /\ j.start # 0 /\ JSB \notin DOMAIN cache
      /\ \/ rec.seq = j.seq /\ rec.head = j.start
         \/ HasTx(Device) /\ rec.seq = j.seq + 1 /\ rec.head = Past(Device, j.start)
      /\ rec.tid # rec.seq => HasTx(Device) /\ rec.tid = j.seq /\ rec.at = j.start
      /\ rec.tid = rec.seq => Recovered
  BY <1>2 DEF Scanning
<1>4. CASE rec.tid # rec.seq
  <2>0. CopyStep(t)
    BY <1>4 DEF CopyStep
  <2>1. /\ StorageType' /\ HasTx(Device) /\ \A p \in Pages : Dev(p)' = Dev(p)
        /\ \A p \in Pages : bcache_read_bytes(p)' =
              IF p \in Tagged(Device) THEN Logged(Desc(Device), p) ELSE bcache_read_bytes(p)
        /\ DOMAIN cache' = Tagged(Device) /\ Tagged(Device) \subseteq Homes
        /\ rec' = [rec EXCEPT !.tid = rec.tid + 1, !.at = Past(Device, rec.at)]
        /\ stack' = stack
    BY <2>0, CopyEffect
  <2>2. Device' = Device /\ Dev(JSB)' = j
    BY <2>1, DeviceSame, SuperType
  <2>3. /\ HasTx(Device)' /\ Past(Device, Dev(JSB).start)' = Past(Device, j.start)
        /\ Tagged(Device)' = Tagged(Device)
        /\ \A p : Logged(Desc(Device), p)' = Logged(Desc(Device), p)
    BY <2>1, <2>2, ScanDevice
  <2>4. rec \in [seq : Nat, head : 0..LogLen, tid : Nat, at : 0..LogLen, faults : Nat]
    BY DEF ControlType
  <2>5. JSB \notin DOMAIN cache' /\ Tagged(Device) \subseteq Pages
    BY <2>1, PageKinds
  <2>6. \A p \in Tagged(Device)' : bcache_read_bytes(p)' = Logged(Desc(Device), p)'
    BY <2>1, <2>3, <2>5
  <2> HIDE DEF j
  <2>7. rec'.seq = rec.seq /\ rec'.head = rec.head /\ rec'.tid = rec.tid + 1
    BY <2>1, <2>4, RecFields
  <2>8. rec'.tid = rec'.seq /\ rec'.seq = j.seq + 1 /\ rec'.head = Past(Device, j.start)
    BY <1>3, <1>4, <2>7 DEF j
  <2>9. \A k : Bottom(t, k)' => k = "replay"
    BY <1>1, <1>2, <2>1 DEF Bottom
  <2>10. ScanAt(t)'
    BY <1>3, <2>2, <2>3, <2>5, <2>6, <2>8, <2>9 DEF ScanAt, Recovered
  <2>11. \A u \in Callers \ {t} : stack'[u] = <<>>
    BY <1>1, <1>2, <2>1, MountOne
  <2> QED BY <2>10, <2>11, ScanOnly
<1>5. CASE rec.tid = rec.seq
  <2>0. Call(t, "replayed", Sync("ALL")) /\ UNCHANGED <<media, wcache, cache, rec>> /\ "replayed" \in Pcs
    BY <1>5 DEF ReplayPass, Pcs, MountPcs
  <2>1. /\ \A k : Bottom(t, k)' <=> k = "replayed"
        /\ \A u \in Callers \ {t} : stack'[u] = <<>>
    BY <1>1, <2>0, MountBottom
  <2>2. /\ Dev(JSB)' = j /\ (HasTx(Device)' <=> HasTx(Device)) /\ Tagged(Device)' = Tagged(Device)
        /\ Past(Device, Dev(JSB).start)' = Past(Device, j.start)
    BY <2>0, ScanStill
  <2>3. Recovered'
    BY <1>3, <1>5, <2>0, ScanStill DEF Recovered
  <2> HIDE DEF j
  <2>4. ScanAt(t)'
    BY <1>3, <2>0, <2>1, <2>2, <2>3 DEF ScanAt
  <2> QED BY <2>1, <2>4, ScanOnly
<1> QED BY <1>4, <1>5

\* A deferred cleanup leaves the replayed pages readable.
LEMMA ScanDefer ==
  ASSUME Base, Scanning, NEW t \in Callers, RecoverDefer(t)
  PROVE  Scanning'
<1> USE DEF Base
<1>0. /\ UNCHANGED <<media, wcache, cache, rec>> /\ Goto(t, "open") /\ "open" \in Pcs
      /\ At(t, "replayed") \/ At(t, "emptied")
  BY DEF RecoverDefer, bcVars, mountVars, Pcs, MountPcs
<1>1. stack[t] # <<>> /\ Top(t).pc \in {"replayed", "emptied"} /\ Top(t).pc \in MountPcs
  BY <1>0 DEF At, MountPcs
<1>2. phase = "mounting" /\ (Bottom(t, "replayed") \/ Bottom(t, "emptied"))
  BY <1>1, MountPhase DEF Bottom
<1>3. /\ \A k : Bottom(t, k)' <=> k = "open"
      /\ \A u \in Callers \ {t} : stack'[u] = <<>>
  BY <1>0, <1>1, MountBottom
<1>4. Recovered
  BY <1>2 DEF Scanning
<1>5. JSB \in DOMAIN cache => cache[JSB].data = Super(0, rec.seq, rec.head)
  <2> SUFFICES ASSUME JSB \in DOMAIN cache PROVE cache[JSB].data = Super(0, rec.seq, rec.head)
    OBVIOUS
  <2>1. Bottom(t, "emptied")
    BY <1>2 DEF Scanning
  <2>2. bcache_read_bytes(JSB) = Super(0, rec.seq, rec.head)
    BY <1>2, <2>1 DEF Scanning
  <2> QED BY <2>2 DEF bcache_read_bytes
<1>6. Recovered'
  BY <1>0, <1>4, ScanStill DEF Recovered
<1>7. Super(0, rec.seq, rec.head)' = Super(0, rec.seq, rec.head)
  BY <1>0 DEF Super
<1>8. ScanAt(t)'
  BY <1>0, <1>3, <1>5, <1>6, <1>7 DEF ScanAt
<1> QED BY <1>3, <1>8, ScanOnly

\* jbd2_mark_empty() leaves the replayed pages readable.
LEMMA ScanMark ==
  ASSUME Base, Scanning, NEW t \in Callers, MarkStep(t)
  PROVE  Scanning'
<1> USE DEF Base
<1> DEFINE j == Dev(JSB)
           s == Super(0, rec.seq, rec.head)
<1>0. /\ StorageType' /\ Put(JSB, s) /\ stack[t] # <<>> /\ phase = "mounting" /\ Len(stack[t]) = 1
      /\ Bottom(t, "empty") \/ Bottom(t, "replayed")
      /\ Call(t, "emptied", Sync("ALL")) /\ rec' = rec
  BY MarkEffect
<1>1. Top(t).pc \in MountPcs /\ "emptied" \in Pcs
  BY <1>0 DEF Top, Bottom, Pcs, MountPcs
<1>2. /\ \A k : Bottom(t, k)' <=> k = "emptied"
      /\ \A u \in Callers \ {t} : stack'[u] = <<>>
  BY <1>0, <1>1, MountBottom
<1>3. Device' = Device /\ Dev(JSB)' = j /\ JSB \in Pages
  BY <1>0, DeviceSame, SuperType DEF Put
<1>4. /\ Tagged(Device)' = Tagged(Device)
      /\ \A p : Logged(Desc(Device), p)' = Logged(Desc(Device), p)
  BY <1>3, ScanDevice
<1>5. Recovered
  <2>1. CASE Bottom(t, "empty")
    BY <1>0, <2>1, DeviceSuper DEF Scanning, Recovered
  <2>2. CASE Bottom(t, "replayed")
    BY <1>0, <2>2 DEF Scanning
  <2> QED BY <1>0, <2>1, <2>2
<1>6. Tagged(Device) \subseteq Pages \ {JSB}
  <2>1. CASE HasTx(Device)
    BY <2>1, DeviceSuper, HasTxAt, PageKinds
  <2>2. CASE ~HasTx(Device)
    BY <2>2 DEF Tagged
  <2> QED BY <2>1, <2>2
<1>7. Recovered'
  BY <1>0, <1>3, <1>4, <1>5, <1>6 DEF Put, Recovered
<1>8. bcache_read_bytes(JSB)' = s /\ Super(0, rec.seq, rec.head)' = s
  BY <1>0, <1>3 DEF Put, Super
<1>9. rec.seq >= j.seq
  <2>1. j.seq \in Nat
    BY DeviceSuper
  <2>2. rec.seq = j.seq \/ rec.seq = j.seq + 1
    BY <1>0 DEF Scanning
  <2> QED BY <2>1, <2>2
<1> HIDE DEF j, s
<1>10. ScanAt(t)'
  BY <1>0, <1>2, <1>3, <1>7, <1>8, <1>9 DEF ScanAt
<1> QED BY <1>2, <1>10, ScanOnly

\* The flag is lowered when the log is empty on the device.
LEMMA ScanFlag ==
  ASSUME Base, Scanning, Washed, NEW t \in Callers, RecoverEmpty(t), At(t, "emptied")
  PROVE  Scanning'
<1> USE DEF Base
<1>0. FlagStep(t)
  BY DEF FlagStep
<1>1. stack[t] # <<>> /\ Top(t).pc = "emptied" /\ Top(t).pc \in MountPcs
  BY DEF At, MountPcs
<1>2. phase = "mounting" /\ Bottom(t, "emptied")
  BY <1>1, MountPhase DEF Bottom
<1>3. ok[t] /\ Call(t, "open", Sync("ALL")) /\ "open" \in Pcs
  BY <1>1 DEF RecoverEmpty, At, Pcs, MountPcs
<1>4. StorageType' /\ rec' = rec /\ \E v \in HomePage : Put(SB, v)
  BY <1>0, FlagEffect
<1>5. PICK v \in HomePage : Put(SB, v)
  BY <1>4
<1>6. /\ \A k : Bottom(t, k)' <=> k = "open"
      /\ \A u \in Callers \ {t} : stack'[u] = <<>>
  BY <1>1, <1>3, MountBottom
<1>7. bcache_read_bytes(JSB) = Super(0, rec.seq, rec.head)
  BY <1>2 DEF Scanning
<1>8. bcache_read_bytes(JSB) = Dev(JSB)
  <2>1. JSB \in DOMAIN cache => ~cache[JSB].dirty
    BY <1>2, <1>3 DEF Washed
  <2> QED BY <2>1 DEF Clean, bcache_read_bytes
<1>9. Dev(JSB).start = 0
  BY <1>7, <1>8, SuperFields
<1>10. Device' = Device /\ Dev(JSB)' = Dev(JSB)
  BY <1>4, <1>5, DeviceSame, SuperType DEF Put
<1>11. Tagged(Device)' = {}
  BY <1>9, <1>10, DeviceSuper, ScanDevice
<1>12. JSB \in DOMAIN cache' => cache'[JSB].data = Super(0, rec.seq, rec.head)
  <2> SUFFICES ASSUME JSB \in DOMAIN cache' PROVE cache'[JSB].data = Super(0, rec.seq, rec.head)
    OBVIOUS
  <2>1. JSB # SB
    BY PageKinds
  <2>2. JSB \in DOMAIN cache /\ cache'[JSB] = cache[JSB]
    BY <1>5, <2>1 DEF Put
  <2> QED BY <1>7, <2>2 DEF bcache_read_bytes
<1>13. Super(0, rec.seq, rec.head)' = Super(0, rec.seq, rec.head)
  BY <1>4 DEF Super
<1>14. ScanAt(t)'
  BY <1>6, <1>11, <1>12, <1>13 DEF ScanAt, Recovered
<1> QED BY <1>6, <1>14, ScanOnly

\* A sync of the mount leaves what the scan has found.
LEMMA ScanSync ==
  ASSUME Base, Scanning, LogInv, phase = "mounting", NEW t \in Callers,
         SyncTest(t) \/ SyncWrite(t) \/ SyncFlush(t)
  PROVE  Scanning'
<1> USE DEF Base
<1>0. stack[t] # <<>> /\ Top(t).pc \in SyncPcs
  BY DEF SyncTest, SyncWrite, SyncFlush, At, SyncPcs
<1>1. UNCHANGED <<phase, rec>>
  BY DEF SyncTest, SyncWrite, SyncFlush, mountVars
<1>2. \/ \E l \in Pcs : Goto(t, l)
      \/ \E r \in BOOLEAN : Return(t, r)
  <2>1. {"hook", "write", "flush"} \subseteq Pcs
    BY DEF Pcs, SyncPcs
  <2> QED BY <2>1 DEF SyncTest, SyncWrite, SyncFlush
<1>3. \A k : Bottom(t, k)' <=> Bottom(t, k)
  BY <1>0, <1>2, MountSync
<1>4. CallerStep(t)
  BY DEF CallerStep
<1>5. \A u \in Callers : \A k : Bottom(u, k)' <=> Bottom(u, k)
  BY <1>3, <1>4, OthersStay DEF Bottom
<1>6. \E T : Mild(T)
  <2>1. CASE SyncWrite(t)
    BY <2>1, SyncStore DEF MildStep
  <2>2. CASE SyncTest(t) \/ (SyncFlush(t) /\ DevError)
    <3>1. StillStep(t)
      BY <2>2 DEF StillStep
    <3> QED BY <3>1, StillStore
  <2>3. CASE SyncFlush(t) /\ ~DevError
    <3>1. FlushStep(t)
      BY <2>3 DEF FlushStep
    <3> QED BY <3>1, FlushStore
  <2> QED BY <2>1, <2>2, <2>3
<1>7. StorageType'
  BY <1>4, StoreStep DEF Next
<1> QED BY <1>1, <1>5, <1>6, <1>7, ScanKeep DEF LogInv

\* Every step keeps what recovery has found.
LEMMA ScanningStep ==
  ASSUME Base, Scanning, Idle, Washed, LogInv, Next
  PROVE  Scanning'
<1> USE DEF Base
<1> SUFFICES ASSUME phase' = "mounting" PROVE Scanning'
  BY DEF Scanning
<1>1. ASSUME NEW t \in Callers, CallerStep(t) PROVE Scanning'
  <2>1. CASE phase = "mounting"
    <3>1. CASE SyncTest(t) \/ SyncWrite(t) \/ SyncFlush(t)
      BY <2>1, <3>1, ScanSync
    <3>2. CASE RecoverEmpty(t)
      <4>1. CASE At(t, "emptied")
        BY <3>2, <4>1, ScanFlag
      <4>2. CASE ~At(t, "emptied")
        BY <3>2, <4>2, ScanMark DEF MarkStep
      <4> QED BY <4>1, <4>2
    <3>3. CASE Open(t) \/ MountError(t)
      BY <3>3 DEF Open, MountError, Refuse
    <3> QED BY <1>1, <2>1, <3>1, <3>2, <3>3, MountSteps, ScanRecover, ScanScan, ScanReplay, ScanDefer
  <2>2. CASE phase # "mounting"
    <3>1. Mount(t)
      <4>1. CASE StillStep(t)
        BY <4>1, <2>2, StillPhase
      <4>2. CASE ~StillStep(t)
        BY <1>1, <2>2, <4>2, CallerKinds, KindPhase, MarkEffect, CopyEffect, PartEffect DEF CallerKind
      <4> QED BY <4>1, <4>2
    <3> QED BY <3>1, ScanMount
  <2> QED BY <2>1, <2>2
<1>2. CASE (\E w \in Workloads : OpBegin(w)) \/ DataWrite \/ MetaWrite \/ MetaRecord
  BY <1>2, WriteEffect, RecordEffect DEF OpBegin, mountVars
<1>3. CASE EvictPage \/ EvictDone \/ QuarantinePasses
  <2>1. \E T : Mild(T)
    BY <1>3, EvictStore, RecycleStore, QuarantineEffect DEF MildStep
  <2>2. UNCHANGED <<phase, rec, stack>>
    BY <1>3 DEF EvictPage, EvictDone, QuarantinePasses, jVars, mountVars, callVars
  <2>3. \A u \in Callers : \A k : Bottom(u, k)' <=> Bottom(u, k)
    BY <2>2 DEF Bottom
  <2>4. StorageType'
    BY <1>3, StoreStep DEF Next
  <2> QED BY <2>1, <2>2, <2>3, <2>4, ScanKeep DEF LogInv
<1>4. CASE Crash
  BY <1>4 DEF Crash, Forget
<1> QED BY <1>1, <1>2, <1>3, <1>4 DEF Next

\* Recovery leaves a log that is not empty only when the device failed it.
Refusals ==
  /\ rec.faults <= faults
  /\ phase \in {"mounting", "refused"} /\ faults = rec.faults => ~quarantined /\ \A t \in Callers : ok[t]
  /\ phase = "mounting" => \A t \in Callers :
       Bottom(t, "open") => bcache_read_bytes(JSB).start = 0 \/ faults > rec.faults
  /\ RefusedOnlyAfterFault

\* A device error is counted once.
LEMMA FaultSteps ==
  ASSUME Next
  PROVE  Fault \/ faults' = faults
<1> USE DEF bcVars
<1>1. ASSUME NEW t \in Callers, CallerStep(t) PROVE Fault \/ faults' = faults
  <2>1. CASE SyncTest(t) \/ HookLoad(t) \/ HookCall(t) \/ HookReturn(t) \/ SyncCall(t) \/ FsyncStep(t)
             \/ UnmountCommit(t) \/ UnmountSync(t) \/ Closed(t)
    BY <2>1 DEF SyncTest, HookLoad, HookCall, HookReturn, SyncCall, FsyncStep, UnmountCommit, UnmountSync, Closed
  <2>2. CASE SyncWrite(t) \/ SyncFlush(t)
    BY <2>2 DEF SyncWrite, SyncFlush, WritePages, WritePagesFail, DevFlush, DevError
  <2>3. CASE CommitBegin(t) \/ CommitLowered(t) \/ CommitRaise(t) \/ CommitRaised(t) \/ CommitDescriptor(t)
             \/ CommitData(t)
    BY <2>3 DEF CommitBegin, CommitLowered, CommitRaise, CommitRaised, CommitDescriptor, CommitData, DevWrite
  <2>4. CASE CommitStart(t) \/ CommitBlock(t) \/ CommitFlush(t) \/ CommitDurable(t) \/ CommitCheckpoint(t)
             \/ CommitEmpty(t) \/ CommitLower(t) \/ CommitError(t)
    BY <2>4 DEF CommitStart, CommitBlock, CommitFlush, CommitDurable, CommitCheckpoint, CommitEmpty, CommitLower,
                CommitError, DevWrite, DevFlush, DevError
  <2>5. CASE Mount(t) \/ Recover(t) \/ ScanPass(t) \/ ReplayPass(t) \/ RecoverDefer(t) \/ RecoverEmpty(t)
             \/ MountError(t) \/ Open(t)
    BY <2>5 DEF Mount, Recover, ScanPass, ReplayPass, RecoverDefer, RecoverEmpty, MountError, Open, DevError
  <2> QED BY <1>1, <2>1, <2>2, <2>3, <2>4, <2>5 DEF CallerStep
<1>2. CASE (\E w \in Workloads : OpBegin(w)) \/ DataWrite \/ MetaWrite \/ MetaRecord
  BY <1>2 DEF OpBegin, DataWrite, MetaWrite, MetaRecord
<1>3. CASE EvictPage \/ EvictDone \/ QuarantinePasses \/ Crash
  BY <1>3 DEF EvictPage, Evict, EvictFail, EvictDone, EvictEnd, QuarantinePasses, QuarantineEnds, Crash, PowerLoss
<1> QED BY <1>1, <1>2, <1>3 DEF Next

\* The count of device errors never falls.
LEMMA FaultsGrow ==
  ASSUME ControlType, Next
  PROVE  faults \in Nat /\ faults' \in Nat /\ faults <= faults' /\ (Fault => faults < faults')
<1>1. faults \in Nat
  BY DEF ControlType
<1>2. Fault => faults' = faults + 1
  BY DEF Fault
<1> QED BY <1>1, <1>2, FaultSteps

\* Recovery keeps the number of errors it started from.
LEMMA RecFaults ==
  ASSUME ControlType, Shape, Next
  PROVE  /\ \/ rec'.faults = rec.faults \/ rec'.faults = 0
            \/ (phase = "off" /\ rec'.faults = faults)
         /\ phase \in {"mounting", "refused"} /\ phase' \in {"mounting", "refused"} => rec'.faults = rec.faults
<1>0. rec \in [seq : Nat, head : 0..LogLen, tid : Nat, at : 0..LogLen, faults : Nat]
  BY DEF ControlType
<1>1. ASSUME NEW t \in Callers, CallerStep(t)
      PROVE  /\ \/ rec'.faults = rec.faults \/ rec'.faults = 0
                \/ (phase = "off" /\ rec'.faults = faults)
             /\ phase \in {"mounting", "refused"} /\ phase' \in {"mounting", "refused"} => rec'.faults = rec.faults
  <2> USE DEF mountVars
  <2>1. CASE SyncTest(t) \/ HookLoad(t) \/ HookCall(t) \/ HookReturn(t) \/ SyncCall(t) \/ FsyncStep(t)
             \/ UnmountCommit(t) \/ UnmountSync(t) \/ SyncWrite(t) \/ SyncFlush(t)
    BY <2>1 DEF SyncTest, HookLoad, HookCall, HookReturn, SyncCall, FsyncStep, UnmountCommit, UnmountSync,
                SyncWrite, SyncFlush
  <2>2. CASE Closed(t)
    BY <2>2 DEF Closed, Forget, NoRec
  <2>3. CASE CommitBegin(t) \/ CommitLowered(t) \/ CommitRaise(t) \/ CommitRaised(t) \/ CommitDescriptor(t)
             \/ CommitData(t)
    BY <2>3 DEF CommitBegin, CommitLowered, CommitRaise, CommitRaised, CommitDescriptor, CommitData
  <2>4. CASE CommitStart(t) \/ CommitBlock(t) \/ CommitFlush(t) \/ CommitDurable(t) \/ CommitCheckpoint(t)
             \/ CommitEmpty(t) \/ CommitLower(t) \/ CommitError(t)
    BY <2>4 DEF CommitStart, CommitBlock, CommitFlush, CommitDurable, CommitCheckpoint, CommitEmpty, CommitLower,
                CommitError
  <2>5. CASE RecoverDefer(t) \/ RecoverEmpty(t) \/ MountError(t)
    BY <2>5 DEF RecoverDefer, RecoverEmpty, MountError
  <2>6. CASE Mount(t)
    BY <2>6 DEF Mount, NoRec
  <2>7. CASE Recover(t)
    <3> DEFINE j == bcache_read_bytes(JSB)
               h == IF j.start = 0 THEN j.head ELSE j.start
    <3>1. rec' = [rec EXCEPT !.seq = j.seq, !.tid = j.seq, !.at = j.start, !.head = h]
      BY <2>7 DEF Recover
    <3> HIDE DEF j, h
    <3> QED BY <1>0, <3>1, RecFields
  <2>8. CASE ScanPass(t)
    <3>1. rec' = rec \/ \E s, h : rec' = [rec EXCEPT !.seq = s, !.head = h]
      BY <2>8 DEF ScanPass
    <3> QED BY <1>0, <3>1, RecFields
  <2>9. CASE ReplayPass(t)
    <3>1. rec' = rec \/ \E i, a : rec' = [rec EXCEPT !.tid = i, !.at = a]
      BY <2>9 DEF ReplayPass
    <3> QED BY <1>0, <3>1, RecFields
  <2>10. CASE Open(t)
    <3>1. (phase' = "refused" /\ rec' = rec) \/ (phase' = "mounted" /\ rec' = NoRec)
      BY <2>10 DEF Open, Refuse
    <3>2. NoRec.faults = 0
      BY DEF NoRec
    <3> QED BY <3>1, <3>2
  <2> QED BY <1>1, <2>1, <2>2, <2>3, <2>4, <2>5, <2>6, <2>7, <2>8, <2>9, <2>10 DEF CallerStep
<1>2. CASE (\E w \in Workloads : OpBegin(w)) \/ DataWrite \/ MetaWrite \/ MetaRecord
  BY <1>2 DEF OpBegin, DataWrite, MetaWrite, MetaRecord, mountVars
<1>3. CASE EvictPage \/ EvictDone \/ QuarantinePasses
  BY <1>3 DEF EvictPage, EvictDone, QuarantinePasses, jVars, mountVars
<1>4. CASE Crash
  BY <1>4 DEF Crash, Forget, NoRec
<1> QED BY <1>1, <1>2, <1>3, <1>4 DEF Next

\* Without a device error nothing in a mount fails.
LEMMA NoFault ==
  ASSUME Base, Next, phase \in {"mounting", "refused"}, phase' \in {"mounting", "refused"}, faults' = faults,
         ~quarantined, \A t \in Callers : ok[t]
  PROVE  ~quarantined' /\ \A t \in Callers : ok'[t]
<1> USE DEF Base
<1>0. ~Fault /\ ok \in [Callers -> BOOLEAN]
  BY FaultsGrow DEF ControlType
<1>1. ASSUME NEW t \in Callers, CallerStep(t) PROVE ~quarantined' /\ \A u \in Callers : ok'[u]
  <2>0. stack[t] # <<>>
    BY <1>1, AloneSteps
  <2>1. CASE SyncTest(t)
    BY <2>1 DEF SyncTest, bcVars
  <2>2. CASE SyncWrite(t)
    BY <1>0, <2>2 DEF SyncWrite, WritePages, WritePagesFail
  <2>3. CASE SyncFlush(t)
    <3>1. Return(t, TRUE) /\ quarantined' = quarantined
      BY <1>0, <2>3 DEF SyncFlush, DevFlush, DevError
    <3>2. \A u \in Callers \ {t} : ok'[u] = ok[u]
      BY <2>0, <3>1, ReturnStack
    <3>3. ok'[t]
      BY <2>0, <3>1, ReturnStack
    <3> QED BY <3>1, <3>2, <3>3
  <2>4. CASE Recover(t) \/ ScanPass(t) \/ ReplayPass(t) \/ RecoverDefer(t) \/ RecoverEmpty(t)
    <3>1. UNCHANGED <<quarantined, ok>>
      BY <2>4 DEF Recover, ScanPass, ReplayPass, RecoverDefer, RecoverEmpty, bcVars, DevError
    <3> QED BY <3>1
  <2>5. CASE Open(t) /\ phase' = "refused"
    BY <2>5 DEF Open, bcVars
  <2>7. CASE MountError(t)
    BY <1>0, <2>7 DEF MountError
  <2>8. ~(Open(t) /\ phase' # "refused")
    BY DEF Open, Refuse
  <2>6. CASE Closed(t)
    BY <2>6 DEF Closed, Forget
  <2> QED BY <1>1, <2>1, <2>2, <2>3, <2>4, <2>5, <2>6, <2>7, <2>8, AloneSteps
<1>2. CASE (\E w \in Workloads : OpBegin(w)) \/ DataWrite \/ MetaWrite \/ MetaRecord
  BY <1>2, WriteEffect, RecordEffect DEF OpBegin
<1>3. CASE EvictPage
  <2>1. PICK p \in DOMAIN cache : Evict(p) \/ EvictFail(p)
    BY <1>3 DEF EvictPage
  <2>2. UNCHANGED <<quarantined, ok>>
    BY <1>0, <1>3, <2>1 DEF EvictPage, Evict, EvictFail, jVars, callVars
  <2> QED BY <2>2
<1>5. CASE EvictDone \/ QuarantinePasses
  BY <1>5 DEF EvictDone, EvictEnd, QuarantinePasses, QuarantineEnds, jVars, callVars
<1>4. CASE Crash
  BY <1>4 DEF Crash, Forget
<1> QED BY <1>1, <1>2, <1>3, <1>4, <1>5 DEF Next

\* A mount comes to ext4_journal_open() with an empty log, or after a device error.
OpenReady ==
  phase = "mounting" => \A t \in Callers :
    Bottom(t, "open") => bcache_read_bytes(JSB).start = 0 \/ faults > rec.faults

\* Only one caller can be about to open the log.
LEMMA OpenOnly ==
  ASSUME NEW t \in Callers, \A u \in Callers \ {t} : stack'[u] = <<>>,
         Bottom(t, "open")' => bcache_read_bytes(JSB)'.start = 0 \/ faults' > rec'.faults
  PROVE  OpenReady'
BY DEF OpenReady, Bottom

\* A caller reaches ext4_journal_open() with an empty log or after a device error.
LEMMA OpenCaller ==
  ASSUME Base, Scanning, Idle, Refusals, NEW t \in Callers, CallerStep(t), phase' = "mounting"
  PROVE  OpenReady'
<1> USE DEF Base
<1>0. Next
  BY DEF Next
<1>1. faults \in Nat /\ faults' \in Nat /\ faults <= faults' /\ rec.faults \in Nat
  BY <1>0, FaultsGrow DEF ControlType
<1>2. CASE phase = "mounting"
  <2>0. stack[t] # <<>> /\ rec'.faults = rec.faults
    BY <1>0, <1>2, RecFaults, MountSteps
  <2>o. \A u \in Callers \ {t} : stack'[u] = <<>>
    BY <1>2, <2>0, MountOne, OthersStay
  <2>1. CASE SyncTest(t) \/ SyncWrite(t) \/ SyncFlush(t)
    <3>0. Top(t).pc \in SyncPcs
      BY <2>1 DEF SyncTest, SyncWrite, SyncFlush, At, SyncPcs
    <3>1. \/ \E l \in Pcs : Goto(t, l)
          \/ \E r \in BOOLEAN : Return(t, r)
      <4>1. {"hook", "write", "flush"} \subseteq Pcs
        BY DEF Pcs, SyncPcs
      <4> QED BY <2>1, <4>1 DEF SyncTest, SyncWrite, SyncFlush
    <3>2. Bottom(t, "open")' <=> Bottom(t, "open")
      BY <1>2, <2>0, <3>0, <3>1, MountSync
    <3>3. bcache_read_bytes(JSB)' = bcache_read_bytes(JSB)
      <4>1. \E T : Mild(T)
        <5>1. CASE SyncWrite(t)
          BY <5>1, SyncStore DEF MildStep
        <5>2. CASE SyncTest(t) \/ (SyncFlush(t) /\ DevError)
          <6>1. StillStep(t)
            BY <5>2 DEF StillStep
          <6> QED BY <6>1, StillStore
        <5>3. CASE SyncFlush(t) /\ ~DevError
          <6>1. FlushStep(t)
            BY <5>3 DEF FlushStep
          <6> QED BY <6>1, FlushStore
        <5> QED BY <2>1, <5>1, <5>2, <5>3
      <4> QED BY <4>1, SuperType DEF Mild
    <3> QED BY <1>1, <1>2, <2>0, <2>o, <3>2, <3>3, OpenOnly DEF Refusals
  <2>2. CASE Recover(t) \/ ScanPass(t) \/ ReplayPass(t) \/ MarkStep(t)
    <3>0. {"empty", "scan", "replay", "replayed", "emptied"} \subseteq Pcs
      BY DEF Pcs, MountPcs
    <3>1. Top(t).pc \in MountPcs /\ Top(t).pc # "open"
      BY <2>2 DEF Recover, ScanPass, ReplayPass, MarkStep, RecoverEmpty, At, MountPcs
    <3>2. CASE stack' = stack
      <4>1. ~Bottom(t, "open")'
        BY <2>0, <3>1, <3>2, MountPhase DEF Bottom
      <4> QED BY <2>o, <4>1, OpenOnly
    <3>3. CASE stack' # stack
      <4>1. \E l \in {"empty", "scan", "replay", "replayed", "emptied"} : Goto(t, l) \/ Call(t, l, Sync("ALL"))
        BY <2>2, <3>3 DEF Recover, ScanPass, ReplayPass, MarkStep, RecoverEmpty
      <4>2. ~Bottom(t, "open")'
        BY <2>0, <3>0, <3>1, <4>1, MountBottom
      <4> QED BY <2>o, <4>2, OpenOnly
    <3> QED BY <3>2, <3>3
  <2>3. CASE RecoverDefer(t)
    <3>1. ~ok[t]
      BY <2>3 DEF RecoverDefer
    <3>2. faults > rec.faults
      BY <1>1, <1>2, <3>1 DEF Refusals
    <3> QED BY <1>1, <2>0, <2>o, <3>2, OpenOnly
  <2>4. CASE RecoverEmpty(t) /\ At(t, "emptied")
    <3>0. FlagStep(t)
      BY <2>4 DEF FlagStep
    <3>1. Bottom(t, "emptied")
      <4>1. Top(t).pc = "emptied" /\ Top(t).pc \in MountPcs
        BY <2>4 DEF At, MountPcs
      <4> QED BY <2>0, <4>1, MountPhase DEF Bottom
    <3>2. bcache_read_bytes(JSB).start = 0
      BY <1>2, <3>1, SuperFields DEF Scanning
    <3>3. bcache_read_bytes(JSB)' = bcache_read_bytes(JSB)
      <4>1. JSB # SB /\ JSB \in Pages
        BY PageKinds
      <4> QED BY <3>0, <4>1, FlagEffect DEF Put
    <3> QED BY <2>o, <3>2, <3>3, OpenOnly
  <2>5. CASE Open(t) \/ MountError(t)
    BY <2>5 DEF Open, MountError, Refuse
  <2> QED BY <1>2, <2>1, <2>2, <2>3, <2>4, <2>5, MountSteps DEF MarkStep
<1>3. CASE phase # "mounting"
  <2>1. Mount(t)
    <3>1. CASE StillStep(t)
      BY <3>1, <1>3, StillPhase
    <3>2. CASE ~StillStep(t)
      BY <1>3, <3>2, CallerKinds, KindPhase, MarkEffect, CopyEffect, PartEffect DEF CallerKind
    <3> QED BY <3>1, <3>2
  <2>2. UNCHANGED <<media, wcache, cache>> /\ phase = "off"
    BY <2>1 DEF Mount, bcVars
  <2>3. PICK l \in {"recover", "open"} :
          /\ stack' = [stack EXCEPT ![t] = <<Frame(l, "")>>]
          /\ l = "open" => Dev(JSB).start = 0
    BY <2>1 DEF Mount
  <2>4. Frame(l, "") \in Frames /\ Frame(l, "").pc = l
    BY DEF Frame, Frames, Pcs, MountPcs
  <2>5. /\ stack'[t][1] = Frame(l, "")
        /\ \A u \in Callers \ {t} : stack'[u] = stack[u]
    BY <2>3, <2>4, OneFrame
  <2>6. \A u \in Callers \ {t} : stack'[u] = <<>>
    BY <2>2, <2>5, OffStacks
  <2>7. bcache_read_bytes(JSB)' = Dev(JSB)
    <3>1. DOMAIN cache = {}
      BY <2>2 DEF Idle
    <3> QED BY <2>2, <3>1 DEF bcache_read_bytes, Dev
  <2>8. Bottom(t, "open")' => bcache_read_bytes(JSB)'.start = 0
    BY <2>3, <2>4, <2>5, <2>7 DEF Bottom
  <2> QED BY <2>6, <2>8, OpenOnly
<1> QED BY <1>2, <1>3

\* Every step keeps the reason for a refusal.
LEMMA RefusalsStep ==
  ASSUME Base, Scanning, Idle, Refusals, Next
  PROVE  Refusals'
<1> USE DEF Base
<1>1. faults \in Nat /\ faults' \in Nat /\ faults <= faults' /\ rec.faults \in Nat
  BY FaultsGrow DEF ControlType
<1>2. rec'.faults <= faults'
  BY <1>1, RecFaults DEF Refusals
<1>3. ASSUME phase' \in {"mounting", "refused"}, faults' = rec'.faults
      PROVE  ~quarantined' /\ \A t \in Callers : ok'[t]
  <2>1. CASE phase \in {"mounting", "refused"}
    <3>1. rec'.faults = rec.faults
      BY <1>3, <2>1, RecFaults
    <3>2. faults = rec.faults /\ faults' = faults
      BY <1>1, <1>3, <3>1 DEF Refusals
    <3> QED BY <1>3, <2>1, <3>2, NoFault DEF Refusals
  <2>2. CASE phase \notin {"mounting", "refused"}
    <3>1. ASSUME NEW t \in Callers, CallerStep(t) PROVE Mount(t)
      <4>1. CASE StillStep(t)
        BY <4>1, <1>3, <2>2, StillPhase
      <4>2. CASE ~StillStep(t)
        BY <3>1, <1>3, <2>2, <4>2, CallerKinds, KindPhase, MarkEffect, CopyEffect, PartEffect DEF CallerKind
      <4> QED BY <4>1, <4>2
    <3>2. \E t \in Callers : CallerStep(t)
      <4>1. CASE (\E w \in Workloads : OpBegin(w)) \/ DataWrite \/ MetaWrite \/ MetaRecord
        BY <1>3, <2>2, <4>1, WriteEffect, RecordEffect DEF OpBegin, mountVars
      <4>2. CASE EvictPage \/ EvictDone \/ QuarantinePasses
        BY <1>3, <2>2, <4>2 DEF EvictPage, EvictDone, QuarantinePasses, jVars, mountVars
      <4>3. CASE Crash
        BY <1>3, <4>3 DEF Crash, Forget
      <4> QED BY <4>1, <4>2, <4>3 DEF Next
    <3>3. UNCHANGED <<quarantined, ok>> /\ phase = "off"
      BY <3>1, <3>2 DEF Mount, bcVars
    <3> QED BY <3>3 DEF Idle
  <2> QED BY <2>1, <2>2
<1>4. OpenReady'
  <2> SUFFICES ASSUME phase' = "mounting" PROVE OpenReady'
    BY DEF OpenReady
  <2>1. ASSUME NEW t \in Callers, CallerStep(t) PROVE OpenReady'
    BY <2>1, OpenCaller
  <2>2. CASE (\E w \in Workloads : OpBegin(w)) \/ DataWrite \/ MetaWrite \/ MetaRecord
    BY <2>2, WriteEffect, RecordEffect DEF OpBegin, mountVars
  <2>3. CASE EvictPage \/ EvictDone \/ QuarantinePasses
    <3>1. \E T : Mild(T)
      BY <2>3, EvictStore, RecycleStore, QuarantineEffect DEF MildStep
    <3>2. UNCHANGED <<phase, rec, stack>>
      BY <2>3 DEF EvictPage, EvictDone, QuarantinePasses, jVars, mountVars, callVars
    <3>3. bcache_read_bytes(JSB)' = bcache_read_bytes(JSB)
      BY <3>1, SuperType DEF Mild
    <3> QED BY <1>1, <3>2, <3>3 DEF Refusals, OpenReady, Bottom
  <2>4. CASE Crash
    BY <2>4 DEF Crash, Forget
  <2> QED BY <2>1, <2>2, <2>3, <2>4 DEF Next
<1>5. RefusedOnlyAfterFault'
  <2> SUFFICES ASSUME phase' = "refused" PROVE faults' > rec'.faults
    BY DEF RefusedOnlyAfterFault
  <2>1. CASE phase = "refused"
    BY <1>1, <2>1, RecFaults DEF Refusals, RefusedOnlyAfterFault
  <2>2. CASE phase # "refused"
    <3>1. ASSUME NEW t \in Callers, CallerStep(t) PROVE Open(t) \/ MountError(t)
      <4>1. CASE StillStep(t)
        BY <4>1, <2>2, StillPhase
      <4>2. CASE ~StillStep(t)
        BY <3>1, <2>2, <4>2, CallerKinds, KindPhase, MarkEffect, CopyEffect DEF CallerKind, PartStep
      <4> QED BY <4>1, <4>2
    <3>2. \E t \in Callers : CallerStep(t)
      <4>1. CASE (\E w \in Workloads : OpBegin(w)) \/ DataWrite \/ MetaWrite \/ MetaRecord
        BY <2>2, <4>1, WriteEffect, RecordEffect DEF OpBegin, mountVars
      <4>2. CASE EvictPage \/ EvictDone \/ QuarantinePasses
        BY <2>2, <4>2 DEF EvictPage, EvictDone, QuarantinePasses, jVars, mountVars
      <4>3. CASE Crash
        BY <4>3 DEF Crash, Forget
      <4> QED BY <4>1, <4>2, <4>3 DEF Next
    <3>3. PICK t \in Callers : Open(t) \/ MountError(t)
      BY <3>1, <3>2
    <3>4. CASE MountError(t)
      <4>1. rec' = rec /\ Fault
        BY <3>4 DEF MountError
      <4>2. faults < faults' /\ rec.faults <= faults
        BY <4>1, FaultsGrow DEF Refusals
      <4> QED BY <1>1, <4>1, <4>2
    <3>5. CASE Open(t)
      <4>1. At(t, "open") /\ bcache_read_bytes(JSB).start # 0 /\ rec' = rec
        BY <3>5 DEF Open
      <4>2. phase = "mounting" /\ Bottom(t, "open")
        <5>1. stack[t] # <<>> /\ Top(t).pc = "open" /\ Top(t).pc \in MountPcs
          BY <4>1 DEF At, MountPcs
        <5> QED BY <5>1, MountPhase DEF Bottom
      <4> QED BY <1>1, <4>1, <4>2 DEF Refusals
    <3> QED BY <3>3, <3>4, <3>5
  <2> QED BY <2>1, <2>2
<1> QED BY <1>2, <1>3, <1>4, <1>5 DEF Refusals, OpenReady

\* The journal's inductive invariant.
JournalInv ==
  Base /\ Scanning /\ Idle /\ Pins /\ LogInv /\ Washed /\ Refusals

\* The base of the invariant holds at first.
LEMMA InitBase == Init => Base
<1> SUFFICES ASSUME Init PROVE Base
  OBVIOUS
<1> USE DEF Init
<1>0. DOMAIN cache = {} /\ DOMAIN wcache = {} /\ Len(hist) = 0 /\ DOMAIN op = {}
  BY Nil
<1>1. StorageType
  <2>1. \A p \in Pages : PageOK(p, media[p])
    <3> SUFFICES ASSUME NEW p \in Pages PROVE PageOK(p, media[p])
      OBVIOUS
    <3>1. CASE p = JSB
      <4>1. media[p] = Super(0, 1, 1) /\ 1 \in 1..LogLen /\ 0 \in 0..LogLen
        BY <3>1, PageKinds
      <4>2. media[p] \in SuperBlock
        BY <4>1 DEF Super, SuperBlock
      <4> QED BY <3>1, <4>2, PageKinds DEF PageOK
    <3>2. CASE p \in LogPages \ {JSB}
      <4>1. media[p].type = "blank"
        BY <3>2
      <4> QED BY <3>2, <4>1, PageKinds DEF PageOK, IsLogBlock
    <3>3. CASE p \in Homes
      <4>1. media[p] = [ver |-> 0, rec |-> FALSE]
        BY <3>3, PageKinds
      <4>2. media[p] \in HomePage
        <5>1. 0 \in Versions
          BY <1>0 DEF Versions
        <5>2. \A v \in Versions : [ver |-> v, rec |-> FALSE] \in [ver : Versions, rec : BOOLEAN]
          OBVIOUS
        <5> HIDE DEF Init
        <5> QED BY <4>1, <5>1, <5>2 DEF HomePage
      <4> QED BY <3>3, <4>2, PageKinds DEF PageOK
    <3> QED BY <3>1, <3>2, <3>3, PageKinds
  <2> QED BY <1>0, <2>1 DEF StorageType
<1>2. ControlType
  <2>1. 1 \in 1..LogLen /\ 0 \in 0..LogLen
    BY PageKinds
  <2>2. /\ stack \in [Callers -> Seq(Frames)] /\ ok \in [Callers -> BOOLEAN]
        /\ tx \in Seq(Homes) /\ Len(tx) <= TxCapacity /\ op \in Seq(Items) /\ hist \in Seq(Seq(Items))
    BY Nil, PageKinds
  <2>3. rec \in [seq : Nat, head : 0..LogLen, tid : Nat, at : 0..LogLen, faults : Nat]
    BY <2>1 DEF NoRec
  <2>4. logged \in [Meta -> Versions] /\ stable \in [Meta -> Versions]
    BY <1>0 DEF Versions
  <2>5. lock \in [owner : Callers \cup {NoTask, "op"}, depth : Nat]
    OBVIOUS
  <2>6. MaxMishaps \in Nat
    BY BlockCacheAssumption
  <2>7. /\ mishaps \in 0..MaxMishaps /\ faults \in 0..mishaps
        /\ phase \in {"off", "mounting", "mounted", "closing", "unmounting", "refused"}
        /\ head \in 1..LogLen /\ seq \in Nat \ {0}
    BY <2>1, <2>6
  <2>9. /\ quarantined \in BOOLEAN /\ recover_flag \in BOOLEAN /\ writing \in BOOLEAN /\ exposed \in BOOLEAN
        /\ torn \in BOOLEAN /\ evicting \subseteq Homes \cup {JSB}
    OBVIOUS
  <2>8. hookDepth \in Int /\ tmp \in [Callers -> Int] /\ attempts \subseteq [Meta -> Versions]
    OBVIOUS
  <2> HIDE DEF Init
  <2> QED BY <2>2, <2>3, <2>4, <2>5, <2>7, <2>8, <2>9 DEF ControlType
<1>3. Shape
  <2>1. \A t \in Callers : stack[t] = <<>>
    OBVIOUS
  <2> QED BY <2>1 DEF Shape, Stacked
<1>4. Locking
  <2>1. \A t \in Callers : Inside(t) = {}
    BY NoFrames
  <2>2. NoTask \notin Callers /\ NoTask # "op"
    BY JournalAssumption
  <2> QED BY <2>1, <2>2 DEF Locking
<1>5. Clean
  BY <1>0 DEF Clean
<1>6. Victims
  BY <1>0 DEF Victims
<1> QED BY <1>1, <1>2, <1>3, <1>4, <1>5, <1>6 DEF Base

\* The invariant holds at first.
LEMMA InitInv == Init => JournalInv
<1> SUFFICES ASSUME Init PROVE JournalInv
  OBVIOUS
<1>1. Base
  BY InitBase
<1> USE DEF Init
<1>0. DOMAIN cache = {} /\ DOMAIN wcache = {} /\ Len(hist) = 0 /\ DOMAIN op = {} /\ Range(tx) = {}
  BY Nil DEF Range
<1>2. Scanning /\ Idle /\ Washed
  BY DEF Scanning, Idle, Washed
<1>3. Pins
  BY <1>0 DEF Pins, Pinned, Loose, HoldsMatchTx
<1>4. LogInv
  <2>1. \A m \in Survivors : \A p \in Pages : m[p] = media[p]
    BY <1>0, <1>1, SurvivorPages DEF Base, StorageType
  <2>2. JSB \in Pages /\ Dev(JSB) = media[JSB]
    BY <1>0, PageKinds DEF Dev
  <2>3. media[JSB] = Super(0, 1, 1) /\ media[JSB].seq = 1
    BY <2>2, SuperFields
  <2>4. SuperMono
    BY <1>0, <2>1, <2>2, <2>3 DEF SuperMono
  <2>5. SuperStage
    BY DEF SuperStage, SuperStaged, StageAt, At
  <2>6. OneTx
    <3>1. ASSUME NEW n \in 1..LogLen PROVE LogPage(n) \in Pages /\ media[LogPage(n)].type = "blank"
      <4>1. LogPage(n) \in LogPages \ {JSB} /\ LogPage(n) \in Pages
        BY PageKinds
      <4> QED BY <4>1
    <3> QED BY <2>1, <3>1 DEF OneTx
  <2> QED BY <2>4, <2>5, <2>6 DEF LogInv
<1>5. Refusals
  BY DEF Refusals, RefusedOnlyAfterFault, NoRec
<1> QED BY <1>1, <1>2, <1>3, <1>4, <1>5 DEF JournalInv

\* Nothing is read differently when nothing changes.
LEMMA StoreStutter ==
  ASSUME UNCHANGED vars
  PROVE  /\ \A p : Dev(p)' = Dev(p) /\ bcache_read_bytes(p)' = bcache_read_bytes(p)
         /\ Device' = Device /\ Survivors' = Survivors
         /\ (StorageType' <=> StorageType) /\ (ControlType' <=> ControlType)
<1> USE DEF vars, bcVars, jVars, callVars, ejVars, hookVars, opVars, mountVars, hVars
<1>1. \A p : Dev(p)' = Dev(p) /\ bcache_read_bytes(p)' = bcache_read_bytes(p)
  BY DEF Dev, bcache_read_bytes
<1>2. Device' = Device /\ Survivors' = Survivors
  BY DEF Device, Survivors, Over, Restrict
<1>3. \A p, v : PageOK(p, v)' <=> PageOK(p, v)
  BY SamePages
<1>4. StorageType' <=> StorageType
  BY <1>3 DEF StorageType, IsEntry
<1>5. ControlType' <=> ControlType
  BY DEF ControlType, Versions
<1> QED BY <1>1, <1>2, <1>4, <1>5

\* Stuttering keeps the invariant.
LEMMA InvStutter ==
  ASSUME JournalInv, UNCHANGED vars
  PROVE  JournalInv'
<1> USE DEF vars, bcVars, jVars, callVars, ejVars, hookVars, opVars, mountVars, hVars
<1>0. /\ \A p : Dev(p)' = Dev(p) /\ bcache_read_bytes(p)' = bcache_read_bytes(p)
      /\ Device' = Device /\ Survivors' = Survivors
  BY StoreStutter
<1>1. /\ \A t, l : Bottom(t, l)' <=> Bottom(t, l)
      /\ \A t, l : At(t, l)' <=> At(t, l)
      /\ \A t : Inside(t)' = Inside(t)
  BY DEF Bottom, At, Top, Inside
<1>2. Base'
  <2>1. StorageType' /\ ControlType'
    BY StoreStutter DEF JournalInv, Base
  <2>2. Shape'
    BY DEF JournalInv, Base, Shape, Stacked, Alone, Entry, CalledBy
  <2>3. Locking'
    BY <1>1 DEF JournalInv, Base, Locking
  <2>4. Clean'
    BY <1>0 DEF JournalInv, Base, Clean
  <2>5. Victims'
    BY DEF JournalInv, Base, Victims
  <2> QED BY <2>1, <2>2, <2>3, <2>4, <2>5 DEF Base
<1>3. Scanning'
  <2>1. /\ (HasTx(Device)' <=> HasTx(Device))
        /\ Past(Device, Dev(JSB).start)' = Past(Device, Dev(JSB).start)
        /\ Tagged(Device)' = Tagged(Device) /\ Desc(Device)' = Desc(Device)
        /\ \A p : Logged(Desc(Device), p)' = Logged(Desc(Device), p)
    BY ScanStill
  <2>2. \A t \in Callers : ScanAt(t) => ScanAt(t)'
    BY <1>0, <1>1, <2>1 DEF ScanAt, Super, Recovered
  <2> QED BY <2>2, ScanIs, ScanIsNext DEF JournalInv
<1>4. Idle' /\ Washed'
  BY <1>1 DEF JournalInv, Idle, Washed
<1>5. Pins'
  BY <1>0 DEF JournalInv, Pins, Pinned, Loose, HoldsMatchTx, PageOf, Hooked, Range
<1>6. LogInv'
  BY <1>0, <1>1 DEF JournalInv, LogInv, SuperMono, SuperStage, SuperStaged, StageAt, OneTx, Live, Super
<1>7. Refusals'
  BY <1>0, <1>1 DEF JournalInv, Refusals, RefusedOnlyAfterFault
<1> QED BY <1>2, <1>3, <1>4, <1>5, <1>6, <1>7 DEF JournalInv

\* Every step keeps the invariant.
LEMMA InvStep ==
  ASSUME JournalInv, [Next]_vars
  PROVE  JournalInv'
<1>1. CASE UNCHANGED vars
  BY <1>1, InvStutter
<1>2. CASE Next
  BY <1>2, BaseStep, ScanningStep, IdleStep, PinsStep, LogInvStep, WashedStep, RefusalsStep DEF JournalInv
<1> QED BY <1>1, <1>2

\* The journal's invariant holds in every reachable state, whatever the interleaving,
\* the device errors and the power losses.
THEOREM JournalInvariance == Spec => []JournalInv
BY InitInv, InvStep, PTL DEF Spec

\* The invariant implies the type invariant.
LEMMA InvTypeOK == JournalInv => TypeOK
<1> SUFFICES ASSUME JournalInv PROVE TypeOK
  OBVIOUS
<1>1. StorageType /\ ControlType /\ Locking
  BY DEF JournalInv, Base
<1>2. DOMAIN cache \subseteq Pages
  BY <1>1, PageKinds DEF StorageType
<1>3. lock.owner \in Callers \cup {NoTask, "op"} /\ lock.depth \in Nat
  BY <1>1 DEF ControlType
<1>4. evicting \subseteq Pages
  BY <1>1, PageKinds DEF ControlType
<1> QED BY <1>1, <1>2, <1>3, <1>4 DEF TypeOK, StorageType, ControlType, Locking, Versions, Homes

\* The journal's and the block cache's state is well formed at every step of the commit,
\* of recovery and of a power loss; the recursive ej->lock is owned exactly while its depth
\* is not 0.
THEOREM Types == Spec => []TypeOK
BY JournalInvariance, InvTypeOK, PTL

\* No hold outlives its transaction, and exactly the pages of the open transaction are
\* pinned (bcache_hold_page()), from the record of the write to the checkpoint, until one
\* got out behind the journal's back.
THEOREM PinnedIsOpen == Spec => []HoldsMatchTx
<1>1. JournalInv => HoldsMatchTx
  BY DEF JournalInv, Pins
<1> QED BY <1>1, JournalInvariance, PTL

\* ext4_journal_open() refuses a mount only when the device failed this very mount: no
\* power loss, however placed, leaves a volume that recovery cannot empty.
THEOREM RefusalMeansFault == Spec => []RefusedOnlyAfterFault
<1>1. JournalInv => RefusedOnlyAfterFault
  BY DEF JournalInv, Refusals
<1> QED BY <1>1, JournalInvariance, PTL

-----------------------------------------------------------------------------
(* How a step moves the stack of its caller. *)

\* The frames of a commit that wait for a sync.
SyncReturns == {"dataHome", "raised", "lowered", "checkpointed"}

MoveOf(t) ==
  \/ /\ stack[t] = <<>>
     /\ \A k \in DOMAIN stack'[t] : stack'[t][k].pc \in {"sync", "fsync", "close", "commit", "recover", "open"}
  \/ stack'[t] = <<>>
  \/ /\ stack[t] # <<>>
     /\ \/ stack' = stack /\ Top(t).pc \in MountPcs
        \/ \E x \in Pcs \ SyncReturns :
             /\ Goto(t, x)
             /\ x = "emptyFlush" => At(t, "checkpointed")
             /\ x = "lower" => At(t, "emptyFlush")
        \/ Become(t, Sync("SCOPED"))
        \/ \E x \in Pcs \ {"emptyFlush", "lower"} : \E f \in {Sync("ALL"), Sync("HELD"), CommitCall} :
             /\ Call(t, x, f)
             /\ x = "lowered" => (tx = <<>> /\ tx' = tx) \/ At(t, "lower")
             /\ x = "checkpointed" => tx' = <<>>
        \/ Return(t, FALSE)
        \/ SyncFlush(t) /\ DevFlush /\ Return(t, TRUE)
        \/ \E r \in BOOLEAN : Return(t, r) /\ Top(t).pc \notin SyncPcs

\* The positions of a sequence.
LEMMA SeqDomain == ASSUME NEW S, NEW s \in Seq(S) PROVE DOMAIN s = 1..Len(s)
OBVIOUS

\* The positions of a stack of one or two frames.
LEMMA OneOrTwo == \A n : n \in {1, 2} => \A k \in 1..n : k = 1 \/ (k = 2 /\ n = 2)
OBVIOUS

\* Every step of a caller is such a move.
LEMMA Moves ==
  ASSUME ControlType, Shape, NEW t \in Callers, CallerStep(t)
  PROVE  MoveOf(t)
<1>d. \A x : At(t, x) => stack[t] # <<>> /\ Top(t).pc = x
  BY DEF At
<1>p. {"hook", "write", "hookDec", "hooked", "dataHome", "raised", "lowered", "descriptor", "descriptorFlush",
       "data", "dataFlush", "start", "startFlush", "block", "blockFlush", "checkpoint", "checkpointed",
       "emptyFlush", "lower", "flush", "fsynced", "closed", "empty", "scan", "replay", "replayed", "open",
       "emptied"} \subseteq Pcs
  BY DEF Pcs, SyncPcs, CommitPcs, CommitIn, MountPcs
<1>q. {"hook", "write", "hookDec", "descriptor", "descriptorFlush", "data", "dataFlush", "start", "startFlush",
       "block", "blockFlush", "checkpoint", "emptyFlush", "lower", "flush", "empty", "scan", "replay", "open"}
        \subseteq Pcs \ SyncReturns
  BY <1>p DEF SyncReturns
<1>g. ASSUME stack[t] # <<>>, NEW x \in Pcs \ SyncReturns, Goto(t, x),
             x = "emptyFlush" => At(t, "checkpointed"), x = "lower" => At(t, "emptyFlush")
      PROVE  MoveOf(t)
  BY <1>g DEF MoveOf
<1>c. ASSUME stack[t] # <<>>, NEW x \in Pcs \ {"emptyFlush", "lower"}, NEW f \in {Sync("ALL"), Sync("HELD"), CommitCall},
             Call(t, x, f),
             x = "lowered" => (tx = <<>> /\ tx' = tx) \/ At(t, "lower"), x = "checkpointed" => tx' = <<>>
      PROVE  MoveOf(t)
  BY <1>c DEF MoveOf
<1>r. ASSUME stack[t] # <<>>, NEW r \in BOOLEAN, Return(t, r), Top(t).pc \notin SyncPcs
      PROVE  MoveOf(t)
  BY <1>r DEF MoveOf
<1>f. ASSUME stack[t] # <<>>, Return(t, FALSE)
      PROVE  MoveOf(t)
  BY <1>f DEF MoveOf
<1>s. {"commit", "lowered", "fsynced", "open"} \cap SyncPcs = {}
  BY DEF SyncPcs
<1> HIDE DEF MoveOf
<1>1. CASE SyncTest(t) \/ HookLoad(t) \/ CommitDescriptor(t) \/ CommitStart(t) \/ CommitBlock(t) \/ CommitDurable(t)
           \/ Recover(t) \/ RecoverDefer(t)
  <2>1. \E x \in {"hook", "write", "hookDec", "descriptorFlush", "startFlush", "blockFlush", "checkpoint",
                  "empty", "scan", "open"} : Goto(t, x) /\ stack[t] # <<>>
    BY <1>1, <1>d DEF SyncTest, HookLoad, CommitDescriptor, CommitStart, CommitBlock, CommitDurable, Recover, RecoverDefer
  <2>2. PICK x \in {"hook", "write", "hookDec", "descriptorFlush", "startFlush", "blockFlush", "checkpoint",
                  "empty", "scan", "open"} : Goto(t, x) /\ stack[t] # <<>>
    BY <2>1
  <2>3. x \in Pcs \ SyncReturns /\ x # "emptyFlush" /\ x # "lower"
    BY <1>q
  <2> QED BY <2>2, <2>3, <1>g
<1>2. CASE CommitFlush(t)
  <2>1. \E x \in {"data", "start", "block", "lower"} : Goto(t, x) /\ stack[t] # <<>> /\ (x = "lower" => At(t, "emptyFlush"))
    BY <1>2, <1>d DEF CommitFlush
  <2>2. PICK x \in {"data", "start", "block", "lower"} :
          Goto(t, x) /\ stack[t] # <<>> /\ (x = "lower" => At(t, "emptyFlush"))
    BY <2>1
  <2>3. x \in Pcs \ SyncReturns /\ x # "emptyFlush"
    BY <1>q
  <2> QED BY <2>2, <2>3, <1>g
<1>3. CASE HookCall(t) \/ UnmountSync(t) \/ RecoverEmpty(t)
  <2>1. \E x \in {"hooked", "closed", "emptied", "open"} : \E f \in {Sync("ALL"), Sync("HELD"), CommitCall} :
          Call(t, x, f) /\ stack[t] # <<>>
    BY <1>3, <1>d DEF HookCall, UnmountSync, RecoverEmpty
  <2>2. PICK x \in {"hooked", "closed", "emptied", "open"}, f \in {Sync("ALL"), Sync("HELD"), CommitCall} :
          Call(t, x, f) /\ stack[t] # <<>>
    BY <2>1
  <2>3. x \in Pcs /\ x # "lowered" /\ x # "checkpointed"
    BY <1>p
  <2> QED BY <2>2, <2>3, <1>c
<1>4. CASE HookReturn(t)
  <2>1. stack[t] # <<>>
    BY <1>4, <1>d DEF HookReturn
  <2>2. "write" \in Pcs \ SyncReturns
    BY <1>q
  <2> QED BY <1>4, <2>1, <2>2, <1>g, <1>f DEF HookReturn
<1>5. CASE SyncWrite(t)
  <2>1. stack[t] # <<>>
    BY <1>5, <1>d DEF SyncWrite
  <2>2. "flush" \in Pcs \ SyncReturns
    BY <1>q
  <2>3. Return(t, FALSE) \/ Goto(t, "flush")
    BY <1>5 DEF SyncWrite
  <2> QED BY <2>1, <2>2, <2>3, <1>g, <1>f
<1>6. CASE SyncFlush(t)
  <2>1. stack[t] # <<>>
    BY <1>6, <1>d DEF SyncFlush
  <2>2. Return(t, FALSE) \/ (DevFlush /\ Return(t, TRUE))
    BY <1>6 DEF SyncFlush
  <2> QED BY <1>6, <2>1, <2>2, <1>f DEF MoveOf
<1>7. CASE CommitBegin(t)
  <2>1. stack[t] # <<>> /\ Top(t).pc \notin SyncPcs /\ "lowered" \in Pcs /\ "dataHome" \in Pcs
    BY <1>7, <1>d, <1>s, <1>p DEF CommitBegin
  <2>2. \/ Return(t, TRUE)
        \/ tx = <<>> /\ tx' = tx /\ Call(t, "lowered", Sync("ALL"))
        \/ Call(t, "dataHome", Sync("ALL"))
    BY <1>7 DEF CommitBegin
  <2> QED BY <2>1, <2>2, <1>c, <1>r
<1>8. CASE CommitLowered(t)
  <2>1. stack[t] # <<>> /\ Top(t).pc \notin SyncPcs
    BY <1>8, <1>d, <1>s DEF CommitLowered
  <2>2. Return(t, ok[t]) /\ ok[t] \in BOOLEAN
    BY <1>8 DEF CommitLowered, CommitOut, ControlType
  <2> QED BY <2>1, <2>2, <1>r
<1>9. CASE CommitRaise(t)
  <2>1. stack[t] # <<>> /\ "raised" \in Pcs /\ "descriptor" \in Pcs \ SyncReturns
    BY <1>9, <1>d, <1>p, <1>q DEF CommitRaise
  <2>2. Return(t, FALSE) \/ Goto(t, "descriptor") \/ Call(t, "raised", Sync("ALL"))
    BY <1>9 DEF CommitRaise, CommitOut
  <2> QED BY <2>1, <2>2, <1>c, <1>f, <1>g
<1>10. CASE CommitRaised(t)
  <2>1. stack[t] # <<>> /\ "descriptor" \in Pcs \ SyncReturns
    BY <1>10, <1>d, <1>q DEF CommitRaised
  <2>2. Return(t, FALSE) \/ Goto(t, "descriptor")
    BY <1>10 DEF CommitRaised, CommitOut
  <2> QED BY <2>1, <2>2, <1>f, <1>g
<1>11. CASE CommitData(t)
  <2>1. stack[t] # <<>> /\ "dataFlush" \in Pcs \ SyncReturns
    BY <1>11, <1>d, <1>q DEF CommitData
  <2>2. Return(t, FALSE) \/ Goto(t, "dataFlush")
    BY <1>11 DEF CommitData, CommitOut
  <2> QED BY <2>1, <2>2, <1>f, <1>g
<1>12. CASE CommitEmpty(t)
  <2>1. stack[t] # <<>> /\ At(t, "checkpointed") /\ "emptyFlush" \in Pcs \ SyncReturns
    BY <1>12, <1>d, <1>q DEF CommitEmpty
  <2>2. Return(t, FALSE) \/ Goto(t, "emptyFlush")
    BY <1>12 DEF CommitEmpty, CommitOut
  <2> QED BY <2>1, <2>2, <1>f, <1>g
<1>13. CASE CommitCheckpoint(t)
  <2>1. stack[t] # <<>> /\ "checkpointed" \in Pcs
    BY <1>13, <1>d, <1>p DEF CommitCheckpoint
  <2>2. Call(t, "checkpointed", Sync("HELD")) /\ tx' = <<>>
    BY <1>13 DEF CommitCheckpoint
  <2> QED BY <2>1, <2>2, <1>c
<1>14. CASE CommitLower(t)
  <2>1. stack[t] # <<>> /\ "lowered" \in Pcs /\ At(t, "lower")
    BY <1>14, <1>d, <1>p DEF CommitLower
  <2>2. Call(t, "lowered", Sync("ALL"))
    BY <1>14 DEF CommitLower
  <2> QED BY <2>1, <2>2, <1>c
<1>15. CASE CommitError(t)
  BY <1>15, <1>d, <1>f DEF CommitError, CommitOut
<1>16. CASE SyncCall(t)
  <2>1. PICK f \in {Sync("ALL"), Frame("fsync", "")} : stack' = [stack EXCEPT ![t] = <<f>>]
    BY <1>16 DEF SyncCall
  <2>2. f \in Frames /\ f.pc \in {"sync", "fsync"}
    <3>1. CASE f = Sync("ALL")
      BY <3>1, FrameKinds
    <3>2. CASE f = Frame("fsync", "")
      BY <3>2 DEF Frame, Frames, Pcs
    <3> QED BY <2>1, <3>1, <3>2
  <2>3. Len(stack'[t]) = 1 /\ stack'[t][1] = f /\ stack'[t] \in Seq(Frames)
    BY <2>1, <2>2, OneFrame
  <2>4. \A k \in DOMAIN stack'[t] : k = 1
    <3>1. DOMAIN stack'[t] = 1..Len(stack'[t])
      BY <2>3, SeqDomain
    <3>3. Len(stack'[t]) \in {1, 2}
      BY <2>3
    <3> QED BY <2>3, <3>1, <3>3, OneOrTwo
  <2>5. stack[t] = <<>>
    BY <1>16 DEF SyncCall
  <2> QED BY <2>2, <2>3, <2>4, <2>5 DEF MoveOf
<1>17. CASE UnmountCommit(t)
  <2>1. stack' = [stack EXCEPT ![t] = <<Frame("close", ""), CommitCall>>]
    BY <1>17 DEF UnmountCommit
  <2>2. Frame("close", "") \in Frames /\ CommitCall \in Frames /\ CommitCall.pc = "commit"
        /\ Frame("close", "").pc = "close"
    BY FrameKinds DEF Frame, Frames, Pcs
  <2>3. Len(stack'[t]) = 2 /\ stack'[t][1] = Frame("close", "") /\ stack'[t][2] = CommitCall
        /\ stack'[t] \in Seq(Frames)
    BY <2>1, <2>2, TwoFrames
  <2>4. \A k \in DOMAIN stack'[t] : k = 1 \/ k = 2
    <3>1. DOMAIN stack'[t] = 1..Len(stack'[t])
      BY <2>3, SeqDomain
    <3>3. Len(stack'[t]) \in {1, 2}
      BY <2>3
    <3> QED BY <2>3, <3>1, <3>3, OneOrTwo
  <2>5. stack[t] = <<>>
    BY <1>17 DEF UnmountCommit
  <2> QED BY <2>2, <2>3, <2>4, <2>5 DEF MoveOf
<1>18. CASE Closed(t)
  BY <1>18 DEF Closed, ControlType, MoveOf
<1>19. CASE Mount(t)
  <2>1. PICK x \in {"recover", "open"} : stack' = [stack EXCEPT ![t] = <<Frame(x, "")>>]
    BY <1>19 DEF Mount
  <2>2. Frame(x, "") \in Frames /\ Frame(x, "").pc = x
    BY <2>1 DEF Frame, Frames, Pcs, MountPcs
  <2>3. Len(stack'[t]) = 1 /\ stack'[t][1] = Frame(x, "") /\ stack'[t] \in Seq(Frames)
    BY <2>1, <2>2, OneFrame
  <2>4. \A k \in DOMAIN stack'[t] : k = 1
    <3>1. DOMAIN stack'[t] = 1..Len(stack'[t])
      BY <2>3, SeqDomain
    <3>3. Len(stack'[t]) \in {1, 2}
      BY <2>3
    <3> QED BY <2>3, <3>1, <3>3, OneOrTwo
  <2>5. stack[t] = <<>>
    BY <1>19, OffStacks DEF Mount
  <2> QED BY <2>2, <2>3, <2>4, <2>5 DEF MoveOf
<1>20. CASE ScanPass(t) \/ ReplayPass(t)
  <2>1. stack[t] # <<>> /\ Top(t).pc \in MountPcs /\ "replay" \in Pcs \ SyncReturns /\ "replayed" \in Pcs
    BY <1>20, <1>d, <1>p, <1>q DEF ScanPass, ReplayPass, MountPcs
  <2>2. stack' = stack \/ Goto(t, "replay") \/ Call(t, "replayed", Sync("ALL"))
    BY <1>20 DEF ScanPass, ReplayPass
  <2> QED BY <2>1, <2>2, <1>c, <1>g DEF MoveOf
<1>21. CASE Open(t)
  <2>1. stack[t] # <<>> /\ Top(t).pc \notin SyncPcs /\ "closed" \in Pcs
    BY <1>21, <1>d, <1>p, <1>s DEF Open
  <2>2. Return(t, TRUE) \/ Call(t, "closed", Sync("ALL"))
    BY <1>21 DEF Open, Refuse
  <2> QED BY <2>1, <2>2, <1>c, <1>r
<1>23. CASE MountError(t)
  <2>1. stack[t] # <<>> /\ "closed" \in Pcs /\ Call(t, "closed", Sync("ALL"))
    BY <1>23, <1>d, <1>p DEF MountError, Refuse
  <2> QED BY <2>1, <1>c
<1>22. CASE FsyncStep(t)
  <2>1. stack[t] # <<>> /\ "fsynced" \in Pcs
    BY <1>22, <1>d, <1>p DEF FsyncStep
  <2>2. Call(t, "fsynced", CommitCall) \/ Return(t, FALSE) \/ Become(t, Sync("SCOPED"))
    BY <1>22 DEF FsyncStep
  <2> QED BY <2>1, <2>2, <1>c, <1>f DEF MoveOf
<1> QED BY <1>1, <1>2, <1>3, <1>4, <1>5, <1>6, <1>7, <1>8, <1>9, <1>10, <1>11, <1>12, <1>13, <1>14, <1>15,
          <1>16, <1>17, <1>18, <1>19, <1>20, <1>21, <1>22, <1>23 DEF CallerStep

-----------------------------------------------------------------------------
(* What a power loss would leave is never older than what was promised. *)

\* If d is a descriptor, the metadata it logs is at least as new as f.
AtLeast(d, f) ==
  d.type = "descriptor" => \A i \in DOMAIN d.tags : d.tags[i] \in Meta => d.sums[i].ver >= f[d.tags[i]]
\* So is what recovery may find on media m.
Leads(m, f) == m[JSB].start # 0 => AtLeast(Desc(m), f)
Holds(m, f) == (\A p \in Meta : m[p].ver >= f[p]) /\ Leads(m, f)
Keeps(f) == \A m \in Survivors : Holds(m, f)

\* Where a commit is between the flush of its descriptor and that of its commit block.
LogTop(t) == \E l \in {"data", "dataFlush", "start", "startFlush", "block", "blockFlush"} : At(t, l)
Staged(t) ==
  /\ At(t, "descriptorFlush") => AtLeast(Dev(LogPage(head)), TxImage)
  /\ LogTop(t) => \A m \in Survivors : AtLeast(m[LogPage(head)], TxImage)

\* Media m has nothing older than f that media n did not have.
Gives(m, n, f) ==
  /\ \A p \in Meta : m[p] = n[p] \/ m[p].ver >= f[p]
  /\ \A p \in LogPages \ {JSB} : m[p] = n[p] \/ AtLeast(m[p], f)
  /\ m[JSB] = n[JSB] \/ m[JSB].start = 0 \/ AtLeast(Desc(m), f)

Delivers(f) ==
  /\ Gives(Device', Device, f)
  /\ \A m \in Survivors' : \E n \in Survivors : Gives(m, n, f)

\* Where the transaction starts that recovery may find.
LEMMA StartType ==
  StorageType => /\ \A m \in Survivors : m[JSB].start \in 0..LogLen
                 /\ Device[JSB].start \in 0..LogLen
BY SuperType, DeviceSuper
\* And in the next state.
LEMMA StartNext ==
  StorageType' => (/\ \A m \in Survivors : m[JSB].start \in 0..LogLen
                   /\ Device[JSB].start \in 0..LogLen)'
BY StartType, PTL

\* What f has on n it has on m.
LEMMA Given ==
  ASSUME NEW m, NEW n, NEW f, Gives(m, n, f), m[JSB].start \in 0..LogLen
  PROVE  /\ Leads(n, f) => Leads(m, f)
         /\ Holds(n, f) => Holds(m, f)
<1>1. Holds(n, f) => \A p \in Meta : m[p].ver >= f[p]
  BY DEF Gives, Holds
<1>2. ASSUME m[JSB].start # 0, Leads(n, f) PROVE AtLeast(Desc(m), f)
  <2>1. LogPage(m[JSB].start) \in LogPages \ {JSB}
    <3>1. m[JSB].start \in 1..LogLen
      BY <1>2, PageKinds
    <3> QED BY <3>1, PageKinds
  <2>2. CASE m[JSB] = n[JSB]
    <3>1. AtLeast(n[LogPage(m[JSB].start)], f)
      BY <1>2, <2>2 DEF Leads, Desc
    <3>2. m[LogPage(m[JSB].start)] = n[LogPage(m[JSB].start)] \/ AtLeast(m[LogPage(m[JSB].start)], f)
      BY <2>1 DEF Gives
    <3>3. AtLeast(m[LogPage(m[JSB].start)], f)
      BY <3>1, <3>2
    <3> QED BY <3>3 DEF Desc
  <2> QED BY <1>2, <2>2 DEF Gives
<1> QED BY <1>1, <1>2 DEF Holds, Leads

\* What delivers keeps.
LEMMA Delivery ==
  ASSUME StorageType', NEW f, Delivers(f)
  PROVE  /\ Keeps(f) => \A m \in Survivors' : Holds(m, f)
         /\ Holds(Device, f) => Holds(Device', f)
         /\ Leads(Device, f) => Leads(Device', f)
<1>1. /\ \A m \in Survivors' : m[JSB].start \in 0..LogLen
      /\ Device'[JSB].start \in 0..LogLen
  BY StartNext
<1>2. Keeps(f) => \A m \in Survivors' : Holds(m, f)
  BY <1>1, Given DEF Delivers, Keeps
<1>3. /\ Holds(Device, f) => Holds(Device', f)
      /\ Leads(Device, f) => Leads(Device', f)
  BY <1>1, Given DEF Delivers
<1> QED BY <1>2, <1>3

\* A step that leaves the device and the survivors alone delivers.
LEMMA GiveSame ==
  ASSUME StorageType, StorageType', Survivors' = Survivors, \A p \in Pages : Dev(p)' = Dev(p), NEW f
  PROVE  Delivers(f)
<1>1. Device' = Device
  BY DeviceSame
<1>2. \A m : Gives(m, m, f)
  BY DEF Gives
<1> QED BY <1>1, <1>2 DEF Delivers

\* So does a step that lets pages go home, if what the file system reads is as new as f.
LEMMA GiveMild ==
  ASSUME StorageType, StorageType', SuperMono, NEW T, Mild(T), NEW f, \A p \in Meta : Ver(p) >= f[p]
  PROVE  Delivers(f)
<1>1. /\ \A p \in Meta : p \in Pages
      /\ \A p \in LogPages \ {JSB} : p \in Pages /\ p \notin T
      /\ JSB \in Pages
  <2>1. T \subseteq DOMAIN cache /\ DOMAIN cache \subseteq Homes \cup {JSB}
    BY DEF Mild, StorageType
  <2> QED BY <2>1, PageKinds
<1>2. JSB \in T => bcache_read_bytes(JSB).start = 0
  <2>1. JSB \in T => JSB \in DOMAIN cache
    BY DEF Mild
  <2> QED BY <2>1 DEF SuperMono, bcache_read_bytes
<1>3. ASSUME NEW m, NEW n, \A p \in Pages : m[p] = n[p] \/ (p \in T /\ m[p] = bcache_read_bytes(p))
      PROVE  Gives(m, n, f)
  BY <1>1, <1>2, <1>3 DEF Gives, Ver
<1>4. Gives(Device', Device, f)
  <2>1. \A p \in Pages : Device'[p] = Device[p] \/ (p \in T /\ Device'[p] = bcache_read_bytes(p))
    BY DeviceAt DEF Mild
  <2> QED BY <1>3, <2>1
<1>5. ASSUME NEW m \in Survivors' PROVE \E n \in Survivors : Gives(m, n, f)
  <2>1. PICK n \in Survivors : \A p \in Pages : m[p] = n[p] \/ (p \in T /\ m[p] = bcache_read_bytes(p))
    BY DEF Mild
  <2> QED BY <1>3, <2>1
<1> QED BY <1>4, <1>5 DEF Delivers

\* What a descriptor logs is a version.
LEMMA AtLeastLess ==
  ASSUME ControlType, NEW d, IsLogBlock(d), NEW f, NEW g, AtLeast(d, g),
         \A p \in Meta : f[p] \in Nat /\ g[p] \in Nat /\ g[p] >= f[p]
  PROVE  AtLeast(d, f)
<1> SUFFICES ASSUME d.type = "descriptor", NEW i \in DOMAIN d.tags, d.tags[i] \in Meta
    PROVE  d.sums[i].ver >= f[d.tags[i]]
  BY DEF AtLeast
<1>1. d.tags \in Seq(Homes) /\ d.sums \in [1..Len(d.tags) -> HomePage]
  BY DEF IsLogBlock
<1>2. i \in 1..Len(d.tags)
  BY <1>1
<1>3. d.sums[i] \in HomePage
  BY <1>1, <1>2
<1>4. d.sums[i].ver \in Nat
  <2>1. Len(hist) \in Nat
    BY DEF ControlType
  <2> QED BY <1>3, <2>1 DEF HomePage, Versions
<1>5. d.sums[i].ver >= g[d.tags[i]]
  BY DEF AtLeast
<1> QED BY <1>2, <1>4, <1>5

\* A commit's unbuffered writes deliver.
LEMMA GiveLog ==
  ASSUME StorageType, StorageType', ControlType, Clean, NEW t, LogStep(t), Staged(t), NEW f,
         \A p \in Meta : f[p] \in Nat /\ Ver(p) >= f[p] /\ TxImage[p] >= f[p]
  PROVE  Delivers(f)
<1> DEFINE q == LogTarget(t)
           v == LogBlock(t)
<1>1. LogPut(q, v) /\ q \in LogPages
  BY LogEffect
<1>2. /\ \A p \in Meta : p \in Pages /\ p # q
      /\ \A p \in LogPages : p \in Pages
      /\ JSB \in Pages
  BY <1>1, PageKinds
<1>3. \/ /\ At(t, "descriptor") /\ q = LogPage(head) /\ v = Descriptor(tx)
      \/ /\ At(t, "start") /\ q = JSB /\ v = Super(head, seq, head)
      \/ /\ At(t, "block") /\ q = LogPage(jbd2_advance_n(head, Len(tx) + 1)) /\ v = Commit
      \/ /\ At(t, "checkpointed") /\ q = JSB /\ v = Super(0, seq, head)
  BY LogTargets DEF LogStep, CommitDescriptor, CommitStart, CommitBlock, CommitEmpty
<1>b. LogPage(head) \in LogPages \ {JSB} /\ LogPage(jbd2_advance_n(head, Len(tx) + 1)) \in LogPages \ {JSB}
  BY BlockTypes
<1> HIDE DEF q, v
<1>4. ASSUME NEW m, NEW n \in Survivors, \A p \in Pages : m[p] = n[p] \/ (p = q /\ m[p] = v)
      PROVE  Gives(m, n, f)
  <2>1. \A p \in Meta : m[p] = n[p]
    BY <1>2, <1>4
  <2>2. CASE At(t, "descriptor") /\ q = LogPage(head) /\ v = Descriptor(tx)
    <3>1. AtLeast(v, f)
      <4>1. Descriptor(tx).tags = tx /\ Descriptor(tx).sums = [i \in DOMAIN tx |-> bcache_read_bytes(tx[i])]
        BY DEF Descriptor
      <4> QED BY <2>2, <4>1 DEF AtLeast, Ver
    <3>2. m[JSB] = n[JSB] /\ \A p \in LogPages \ {JSB} : m[p] = n[p] \/ m[p] = v
      BY <1>2, <1>4, <1>b, <2>2
    <3> QED BY <2>1, <3>1, <3>2 DEF Gives
  <2>3. CASE At(t, "block") /\ q = LogPage(jbd2_advance_n(head, Len(tx) + 1)) /\ v = Commit
    <3>1. AtLeast(v, f)
      BY <2>3 DEF AtLeast, Commit
    <3>2. m[JSB] = n[JSB] /\ \A p \in LogPages \ {JSB} : m[p] = n[p] \/ m[p] = v
      BY <1>2, <1>4, <1>b, <2>3
    <3> QED BY <2>1, <3>1, <3>2 DEF Gives
  <2>4. CASE At(t, "checkpointed") /\ q = JSB /\ v = Super(0, seq, head)
    <3>1. v.start = 0
      BY <2>4, SuperFields
    <3>2. (m[JSB] = n[JSB] \/ m[JSB] = v) /\ \A p \in LogPages \ {JSB} : m[p] = n[p]
      BY <1>2, <1>4, <2>4
    <3> QED BY <2>1, <3>1, <3>2 DEF Gives
  <2>5. CASE At(t, "start") /\ q = JSB /\ v = Super(head, seq, head)
    <3>1. v.start = head
      BY <2>5, SuperFields
    <3>2. (m[JSB] = n[JSB] \/ m[JSB] = v) /\ \A p \in LogPages \ {JSB} : m[p] = n[p]
      BY <1>2, <1>4, <2>5
    <3>3. AtLeast(n[LogPage(head)], TxImage)
      BY <2>5 DEF Staged, LogTop
    <3>4. IsLogBlock(n[LogPage(head)])
      BY <1>2, <1>b, SurvivorType DEF PageOK
    <3>5. \A p \in Meta : TxImage[p] \in Nat
      BY ImageType, VerType
    <3>6. AtLeast(n[LogPage(head)], f)
      BY <3>3, <3>4, <3>5, AtLeastLess
    <3>7. m[JSB] = v => Desc(m) = n[LogPage(head)]
      BY <1>b, <3>1, <3>2 DEF Desc
    <3> QED BY <2>1, <3>2, <3>6, <3>7 DEF Gives
  <2> QED BY <1>3, <2>2, <2>3, <2>4, <2>5
<1>5. Gives(Device', Device, f)
  <2>1. \A p \in Pages : Device'[p] = Device[p] \/ (p = q /\ Device'[p] = v)
    BY <1>1, DeviceAt DEF LogPut
  <2> QED BY <1>4, <2>1, DeviceSurvives
<1>6. ASSUME NEW m \in Survivors' PROVE \E n \in Survivors : Gives(m, n, f)
  <2>1. PICK n \in Survivors : \A p \in Pages : m[p] = n[p] \/ (p = q /\ m[p] = v)
    BY <1>1 DEF LogPut
  <2> QED BY <1>4, <2>1
<1> QED BY <1>5, <1>6 DEF Delivers

\* The data blocks of a commit.
LEMMA DataTypes ==
  ASSUME StorageType, ControlType, NEW k \in 0..Len(tx)
  PROVE  /\ DOMAIN LogData(k) \subseteq LogPages \ {JSB}
         /\ \A q \in DOMAIN LogData(k) : LogData(k)[q].type = "data"
<1>1. /\ DOMAIN LogData(k) = {LogPage(jbd2_advance_n(head, i)) : i \in 1..k}
      /\ \A i \in 1..k : LogData(k)[LogPage(jbd2_advance_n(head, i))] =
                           [type |-> "data", page |-> bcache_read_bytes(tx[i])]
      /\ DOMAIN LogData(k) \subseteq LogPages \ {JSB}
  BY DataBlocks
<1>2. ASSUME NEW q \in DOMAIN LogData(k) PROVE LogData(k)[q].type = "data"
  <2>1. PICK i \in 1..k : q = LogPage(jbd2_advance_n(head, i))
    BY <1>1
  <2>2. LogData(k)[q] = [type |-> "data", page |-> bcache_read_bytes(tx[i])]
    BY <1>1, <2>1
  <2> QED BY <2>2
<1> QED BY <1>1, <1>2

\* And so do the data blocks of a commit.
LEMMA GiveData ==
  ASSUME StorageType, StorageType', ControlType, Clean, NEW t, CommitData(t), NEW f
  PROVE  Delivers(f)
<1>1. PICK k \in 0..Len(tx) :
        /\ \A q \in Pages : Dev(q)' = IF q \in DOMAIN LogData(k) THEN LogData(k)[q] ELSE Dev(q)
        /\ \A m \in Survivors' : \E n \in Survivors :
             \A q \in Pages : m[q] = n[q] \/ (q \in DOMAIN LogData(k) /\ m[q] = LogData(k)[q])
  BY DataEffect
<1>2. DOMAIN LogData(k) \subseteq LogPages \ {JSB} /\ \A q \in DOMAIN LogData(k) : LogData(k)[q].type = "data"
  BY DataTypes
<1>3. /\ \A p \in Meta : p \in Pages /\ p \notin DOMAIN LogData(k)
      /\ \A p \in LogPages : p \in Pages
      /\ JSB \in Pages /\ JSB \notin DOMAIN LogData(k)
  BY <1>2, PageKinds
<1> DEFINE D == LogData(k)
<1> HIDE DEF D
<1>4. ASSUME NEW m, NEW n, \A q \in Pages : m[q] = n[q] \/ (q \in DOMAIN D /\ m[q] = D[q])
      PROVE  Gives(m, n, f)
  BY <1>2, <1>3, <1>4 DEF Gives, AtLeast, D
<1>5. Gives(Device', Device, f)
  <2>1. \A p \in Pages : Device'[p] = Device[p] \/ (p \in DOMAIN D /\ Device'[p] = D[p])
    BY <1>1, DeviceAt DEF D
  <2> QED BY <1>4, <2>1
<1>6. ASSUME NEW m \in Survivors' PROVE \E n \in Survivors : Gives(m, n, f)
  <2>1. PICK n \in Survivors : \A q \in Pages : m[q] = n[q] \/ (q \in DOMAIN D /\ m[q] = D[q])
    BY <1>1 DEF D
  <2> QED BY <1>4, <2>1
<1> QED BY <1>5, <1>6 DEF Delivers

\* Every step but a power loss delivers what the file system reads and what the open
\* transaction leads to.
LEMMA Delivered ==
  ASSUME Base, StorageType', Scanning, SuperMono, \A t \in Callers : Staged(t), NEW f,
         \A p \in Meta : f[p] \in Nat /\ Ver(p) >= f[p] /\ (Hooked => TxImage[p] >= f[p]),
         Next, ~Crash
  PROVE  Delivers(f)
<1> USE DEF Base
<1>0. ASSUME NEW T, Mild(T) PROVE Delivers(f)
  BY <1>0, GiveMild
<1>1. ASSUME NEW t \in Callers, CallerStep(t) PROVE Delivers(f)
  <2>1. CASE StillStep(t)
    BY <1>0, <2>1, StillStore
  <2>2. CASE SyncWrite(t)
    BY <1>0, <2>2, SyncStore DEF MildStep
  <2>3. CASE FlushStep(t)
    BY <1>0, <2>3, FlushStore
  <2>4. CASE FlagStep(t)
    BY <2>4, FlagEffect, GiveSame DEF Put
  <2>5. CASE LogStep(t)
    <3>1. Hooked
      BY <2>5, KindPhase
    <3> QED BY <2>5, <3>1, GiveLog
  <2>6. CASE CommitData(t)
    BY <2>6, GiveData
  <2>7. CASE CommitCheckpoint(t)
    BY <2>7, ReleaseEffect, GiveSame
  <2>8. CASE MarkStep(t)
    BY <2>8, MarkEffect, GiveSame DEF Put
  <2>9. CASE CopyStep(t)
    BY <2>9, CopyEffect, GiveSame
  <2>10. CASE Closed(t)
    BY <2>10, CloseEffect, GiveSame
  <2>11. CASE PartStep(t)
    BY <2>11, PartEffect, GiveSame
  <2> QED BY <1>1, <2>1, <2>2, <2>3, <2>4, <2>5, <2>6, <2>7, <2>8, <2>9, <2>10, <2>11, CallerKinds DEF CallerKind
<1>2. ASSUME NEW w \in Workloads, OpBegin(w) PROVE Delivers(f)
  BY <1>2, BeginEffect, GiveSame
<1>3. CASE DataWrite \/ MetaWrite
  BY <1>3, WriteEffect, GiveSame DEF Put
<1>4. CASE MetaRecord
  BY <1>4, RecordEffect, GiveSame
<1>5. CASE EvictPage
  BY <1>0, <1>5, EvictStore DEF MildStep
<1>6. CASE QuarantinePasses
  BY <1>0, <1>6, QuarantineEffect
<1>7. CASE EvictDone
  BY <1>0, <1>7, RecycleStore
<1> QED BY <1>1, <1>2, <1>3, <1>4, <1>5, <1>6, <1>7 DEF Next

\* What a caller outside every call can do.
LEMMA FirstSteps ==
  ASSUME NEW t, stack[t] = <<>>, CallerStep(t)
  PROVE  SyncCall(t) \/ UnmountCommit(t) \/ Mount(t)
<1>1. \A l : ~At(t, l)
  BY DEF At
<1>2. /\ ~SyncTest(t) /\ ~HookLoad(t) /\ ~HookCall(t) /\ ~HookReturn(t) /\ ~SyncWrite(t) /\ ~SyncFlush(t)
      /\ ~CommitBegin(t) /\ ~CommitLowered(t) /\ ~CommitRaise(t) /\ ~CommitRaised(t)
  BY <1>1 DEF SyncTest, HookLoad, HookCall, HookReturn, SyncWrite, SyncFlush, CommitBegin, CommitLowered,
              CommitRaise, CommitRaised
<1>3. /\ ~CommitDescriptor(t) /\ ~CommitData(t) /\ ~CommitStart(t) /\ ~CommitBlock(t) /\ ~CommitFlush(t)
      /\ ~CommitDurable(t) /\ ~CommitCheckpoint(t) /\ ~CommitEmpty(t) /\ ~CommitLower(t) /\ ~CommitError(t)
  BY <1>1 DEF CommitDescriptor, CommitData, CommitStart, CommitBlock, CommitFlush, CommitDurable,
              CommitCheckpoint, CommitEmpty, CommitLower, CommitError
<1>4. /\ ~FsyncStep(t) /\ ~UnmountSync(t) /\ ~Closed(t) /\ ~Recover(t) /\ ~ScanPass(t) /\ ~ReplayPass(t)
      /\ ~RecoverDefer(t) /\ ~RecoverEmpty(t) /\ ~MountError(t) /\ ~Open(t)
  BY <1>1 DEF FsyncStep, UnmountSync, Closed, Recover, ScanPass, ReplayPass, RecoverDefer, RecoverEmpty,
              MountError, Open
<1> QED BY <1>2, <1>3, <1>4 DEF CallerStep

\* A caller's return value is its own.
LEMMA OthersOk ==
  ASSUME ControlType, NEW t \in Callers, CallerStep(t), ~Closed(t)
  PROVE  \A u \in Callers \ {t} : ok'[u] = ok[u]
<1> USE DEF callVars
<1>0. SUFFICES ok' = ok \/ \E r : Return(t, r)
  BY DEF Return, ControlType
<1>1. CASE SyncTest(t) \/ HookLoad(t) \/ HookCall(t) \/ HookReturn(t) \/ SyncWrite(t) \/ SyncFlush(t)
  BY <1>1 DEF SyncTest, HookLoad, HookCall, HookReturn, SyncWrite, SyncFlush
<1>2. CASE CommitBegin(t) \/ CommitLowered(t) \/ CommitRaise(t) \/ CommitRaised(t) \/ CommitDescriptor(t)
           \/ CommitData(t) \/ CommitStart(t) \/ CommitBlock(t)
  BY <1>2 DEF CommitBegin, CommitLowered, CommitRaise, CommitRaised, CommitDescriptor, CommitData,
              CommitStart, CommitBlock, CommitOut
<1>3. CASE CommitFlush(t) \/ CommitDurable(t) \/ CommitCheckpoint(t) \/ CommitEmpty(t) \/ CommitLower(t)
           \/ CommitError(t) \/ SyncCall(t) \/ FsyncStep(t) \/ UnmountCommit(t) \/ UnmountSync(t)
  BY <1>3 DEF CommitFlush, CommitDurable, CommitCheckpoint, CommitEmpty, CommitLower, CommitError, CommitOut,
              SyncCall, FsyncStep, UnmountCommit, UnmountSync
<1>4. CASE Mount(t) \/ Recover(t) \/ ScanPass(t) \/ ReplayPass(t) \/ RecoverDefer(t) \/ RecoverEmpty(t)
           \/ MountError(t) \/ Open(t)
  BY <1>4 DEF Mount, Recover, ScanPass, ReplayPass, RecoverDefer, RecoverEmpty, MountError, Open
<1> QED BY <1>1, <1>2, <1>3, <1>4 DEF CallerStep

\* What other callers can do while u is in ext4_journal_commit() with the mutex.
LEMMA AsideKinds ==
  ASSUME Base, Scanning, NEW u \in Callers, Inside(u) # {}, NEW t \in Callers \ {u}, CallerStep(t)
  PROVE  /\ phase = "mounted"
         /\ \/ StillStep(t) /\ ~Open(t)
            \/ SyncWrite(t)
            \/ FlushStep(t) /\ ~CommitDurable(t)
<1> USE DEF Base
<1>1. lock.owner = u /\ stack[u] # <<>> /\ NoTask # u
  <2>1. stack[u] # <<>>
    BY NoFrames
  <2> QED BY <2>1, JournalAssumption DEF Locking
<1>2. phase = "mounted"
  <2>1. CASE stack[t] # <<>>
    BY <1>1, <2>1 DEF Shape
  <2>2. CASE stack[t] = <<>>
    <3>1. SyncCall(t) \/ UnmountCommit(t) \/ Mount(t)
      BY <2>2, FirstSteps
    <3>2. ~Mount(t)
      BY <1>1, OffStacks DEF Mount
    <3> QED BY <3>1, <3>2 DEF SyncCall, UnmountCommit
  <2> QED BY <2>1, <2>2
<1>3. ~(stack[t] # <<>> /\ Top(t).pc \in CommitIn)
  BY <1>1, CommitQuiet
<1>4. ~(stack[t] # <<>> /\ Top(t).pc \in MountPcs)
  BY <1>2, MountPhase
<1>5. ~Open(t)
  BY <1>4, AtTop DEF Open, MountPcs
<1>6. ~FlagStep(t)
  <2>1. ~CommitBegin(t)
    BY <1>1 DEF CommitBegin
  <2>2. ~CommitRaise(t) /\ ~CommitLower(t)
    BY <1>3, AtTop DEF CommitRaise, CommitLower, CommitIn
  <2>3. ~At(t, "emptied")
    BY <1>4, AtTop DEF MountPcs
  <2> QED BY <2>1, <2>2, <2>3 DEF FlagStep
<1>7. ~LogStep(t) /\ ~CommitData(t) /\ ~CommitCheckpoint(t) /\ ~CommitDurable(t)
  BY <1>3, KindPhase
<1>8. ~MarkStep(t) /\ ~CopyStep(t) /\ ~PartStep(t) /\ ~Closed(t)
  BY <1>2, MarkEffect, CopyEffect, PartEffect, KindPhase
<1> QED BY <1>2, <1>5, <1>6, <1>7, <1>8, CallerKinds DEF CallerKind

\* While u is there, nobody else changes the transaction, the log or a metadata page.
AsideStep(u) ==
  /\ UNCHANGED <<tx, head, seq, logged>> /\ stack'[u] = stack[u] /\ ok'[u] = ok[u]
  /\ \A p \in Meta : bcache_read_bytes(p)' = bcache_read_bytes(p)
  /\ \A p \in LogPages \ {JSB} : Dev(p)' = Dev(p)
  /\ \A m \in Survivors' : \E n \in Survivors : \A p \in LogPages \ {JSB} : m[p] = n[p]

\* A mild step is such a step.
LEMMA MildAside ==
  ASSUME StorageType, NEW T, Mild(T)
  PROVE  /\ \A p \in Meta : bcache_read_bytes(p)' = bcache_read_bytes(p)
         /\ \A p \in LogPages \ {JSB} : Dev(p)' = Dev(p)
         /\ \A m \in Survivors' : \E n \in Survivors : \A p \in LogPages \ {JSB} : m[p] = n[p]
<1>1. /\ \A p \in Meta : p \in Pages
      /\ \A p \in LogPages \ {JSB} : p \in Pages /\ p \notin T
  <2>1. T \subseteq DOMAIN cache /\ DOMAIN cache \subseteq Homes \cup {JSB}
    BY DEF Mild, StorageType
  <2> QED BY <2>1, PageKinds
<1>2. ASSUME NEW m \in Survivors' PROVE \E n \in Survivors : \A p \in LogPages \ {JSB} : m[p] = n[p]
  <2>1. PICK n \in Survivors : \A p \in Pages : m[p] = n[p] \/ (p \in T /\ m[p] = bcache_read_bytes(p))
    BY DEF Mild
  <2> QED BY <1>1, <2>1
<1> QED BY <1>1, <1>2 DEF Mild

\* The mutex keeps everybody else from the transaction and the log.
LEMMA Aside ==
  ASSUME Base, StorageType', Scanning, NEW u \in Callers, Inside(u) # {}, Next, ~CallerStep(u), ~Crash
  PROVE  AsideStep(u)
<1> USE DEF Base
<1>1. lock.owner = u /\ NoTask # u /\ "op" # u
  BY JournalAssumption DEF Locking
<1>2. ASSUME NEW t \in Callers, CallerStep(t) PROVE AsideStep(u)
  <2>1. t # u
    BY <1>2
  <2>2. /\ \/ StillStep(t) /\ ~Open(t)
           \/ SyncWrite(t)
           \/ FlushStep(t) /\ ~CommitDurable(t)
        /\ phase = "mounted"
    BY <1>2, <2>1, AsideKinds
  <2>3. UNCHANGED <<tx, head, seq, logged>> /\ \E T : Mild(T)
    BY <2>2, StillFrame, StillStore, SyncStore, WriteFrame, FlushFrame, FlushStore DEF MildStep
  <2>4. stack'[u] = stack[u] /\ ok'[u] = ok[u]
    <3>1. ~Closed(t)
      BY <2>2, KindPhase
    <3> QED BY <1>2, <2>1, <3>1, OthersStay, OthersOk
  <2> QED BY <2>3, <2>4, MildAside DEF AsideStep
<1>3. ASSUME NEW w \in Workloads, OpBegin(w) PROVE AsideStep(u)
  <2>1. UNCHANGED <<tx, head, seq, logged, stack, ok>>
    BY <1>3 DEF OpBegin, ejVars, callVars
  <2> QED BY <1>3, <2>1, BeginEffect DEF AsideStep
<1>4. CASE DataWrite
  <2>1. UNCHANGED <<tx, head, seq, logged, stack, ok>>
    BY <1>4 DEF DataWrite, ejVars, callVars, hVars
  <2>2. \E v : Put(Data, v)
    BY <1>4, WriteEffect, JournalAssumption DEF DataWrite, PageOf
  <2>3. \A p \in Meta : p \in Pages /\ p # Data
    BY PageKinds
  <2>4. \A p \in LogPages : p \in Pages
    BY PageKinds
  <2> QED BY <2>1, <2>2, <2>3, <2>4 DEF AsideStep, Put
<1>5. ~MetaWrite /\ ~MetaRecord
  BY <1>1 DEF MetaWrite, MetaRecord, Locking
<1>6. CASE EvictPage
  <2>1. UNCHANGED <<tx, head, seq, logged, stack, ok>>
    BY <1>6 DEF EvictPage, jVars, ejVars, callVars
  <2> QED BY <1>6, <2>1, EvictStore, MildAside DEF AsideStep, MildStep
<1>7. CASE QuarantinePasses
  <2>1. UNCHANGED <<tx, head, seq, logged, stack, ok>>
    BY <1>7 DEF QuarantinePasses, jVars, ejVars, callVars, hVars
  <2> QED BY <1>7, <2>1, QuarantineEffect, MildAside DEF AsideStep
<1>8. CASE EvictDone
  <2>1. UNCHANGED <<tx, head, seq, logged, stack, ok>>
    BY <1>8 DEF EvictDone, jVars, ejVars, callVars, hVars
  <2> QED BY <1>8, <2>1, RecycleStore, MildAside DEF AsideStep
<1> QED BY <1>2, <1>3, <1>4, <1>5, <1>6, <1>7, <1>8 DEF Next

\* A caller whose innermost frame is in ext4_journal_commit() holds the mutex.
LEMMA TopInside ==
  ASSUME ControlType, NEW u \in Callers, stack[u] # <<>>, Top(u).pc \in CommitIn
  PROVE  Inside(u) # {}
<1>1. stack[u] \in Seq(Frames) /\ Len(stack[u]) \in Nat \ {0}
  BY TopFrame
<1>2. Len(stack[u]) \in DOMAIN stack[u]
  <2>1. DOMAIN stack[u] = 1..Len(stack[u])
    BY <1>1, SeqDomain
  <2> QED BY <1>1, <2>1
<1> QED BY <1>2 DEF Inside, Top

\* Only its own steps and a power loss move a caller's stack.
LEMMA StackOwn ==
  ASSUME ControlType, Next, ~Crash, NEW u \in Callers, ~CallerStep(u)
  PROVE  stack'[u] = stack[u]
<1>1. ASSUME NEW t \in Callers, CallerStep(t) PROVE stack'[u] = stack[u]
  BY <1>1, OthersStay
<1>2. ASSUME NEW w \in Workloads, OpBegin(w) PROVE stack' = stack
  BY <1>2 DEF OpBegin, callVars
<1>3. CASE DataWrite \/ MetaWrite \/ MetaRecord
  BY <1>3 DEF DataWrite, MetaWrite, MetaRecord, callVars
<1>4. CASE EvictPage \/ EvictDone \/ QuarantinePasses
  BY <1>4 DEF EvictPage, EvictDone, QuarantinePasses, jVars, callVars
<1> QED BY <1>1, <1>2, <1>3, <1>4 DEF Next

\* The image the open transaction leads to.
LEMMA TxImageSame ==
  ASSUME UNCHANGED <<tx, logged>>, \A p \in Meta : Ver(p)' = Ver(p)
  PROVE  TxImage' = TxImage
<1>1. \A p \in Meta : Image'[p] = Image[p]
  BY DEF Image, Ver
<1> QED BY <1>1 DEF TxImage

\* The descriptor in front of the head stays fit.
LEMMA StagedKeep ==
  ASSUME NEW u, UNCHANGED <<tx, logged, head>>, \A p \in Meta : Ver(p)' = Ver(p),
         Staged(u), LogTop(u),
         \A m \in Survivors' : \E n \in Survivors :
           m[LogPage(head)] = n[LogPage(head)] \/ m[LogPage(head)].type # "descriptor"
  PROVE  \A m \in Survivors' : AtLeast(m[LogPage(head)'], TxImage')
<1>1. TxImage' = TxImage /\ LogPage(head)' = LogPage(head)
  BY TxImageSame DEF LogPage
<1>2. \A n \in Survivors : AtLeast(n[LogPage(head)], TxImage)
  BY DEF Staged
<1>3. ASSUME NEW m \in Survivors' PROVE AtLeast(m[LogPage(head)], TxImage)
  <2>1. PICK n \in Survivors :
          m[LogPage(head)] = n[LogPage(head)] \/ m[LogPage(head)].type # "descriptor"
    OBVIOUS
  <2>2. CASE m[LogPage(head)] = n[LogPage(head)]
    BY <1>2, <2>2
  <2>3. CASE m[LogPage(head)].type # "descriptor"
    BY <2>3 DEF AtLeast
  <2> QED BY <2>1, <2>2, <2>3
<1> QED BY <1>1, <1>3

\* The commit's own steps keep its descriptor fit.
LEMMA StagedOwn ==
  ASSUME Base, StorageType', Scanning, NEW u \in Callers, Staged(u), CallerStep(u)
  PROVE  Staged(u)'
<1> USE DEF Base
<1>b. LogPage(head) \in LogPages \ {JSB} /\ LogPage(head) \in Pages
  BY BlockTypes, PageKinds
<1>m. \A p \in Meta : p \in Homes /\ p \in Pages
  BY PageKinds
<1>g. ASSUME LogTop(u), UNCHANGED <<tx, logged, head>>, \A p \in Meta : Ver(p)' = Ver(p),
             \A m \in Survivors' : \E n \in Survivors :
               m[LogPage(head)] = n[LogPage(head)] \/ m[LogPage(head)].type # "descriptor"
      PROVE  \A m \in Survivors' : AtLeast(m[LogPage(head)'], TxImage')
  BY <1>g, StagedKeep
<1>1. ASSUME At(u, "descriptorFlush")' PROVE AtLeast(Dev(LogPage(head)), TxImage)'
  <2>1. CommitDescriptor(u)
    BY <1>1, NewTop
  <2>2. LogStep(u) /\ At(u, "descriptor")
    BY <2>1 DEF LogStep, CommitDescriptor
  <2>3. LogPut(LogPage(head), Descriptor(tx)) /\ UNCHANGED <<tx, logged, head>>
    BY <2>2, LogEffect, LogTargets
  <2>4. TxImage' = TxImage /\ LogPage(head)' = LogPage(head)
    BY <1>m, <2>3, TxImageSame DEF LogPut, LogPage, Ver
  <2>5. Dev(LogPage(head))' = Descriptor(tx)
    BY <1>b, <2>3 DEF LogPut
  <2>6. AtLeast(Descriptor(tx), TxImage)
    <3>1. Descriptor(tx).tags = tx /\ Descriptor(tx).sums = [i \in DOMAIN tx |-> bcache_read_bytes(tx[i])]
      BY DEF Descriptor
    <3>2. ASSUME NEW i \in DOMAIN tx, tx[i] \in Meta
          PROVE  TxImage[tx[i]] = Ver(tx[i]) /\ Ver(tx[i]) \in Nat
      <4>1. tx[i] \in Range(tx)
        BY DEF Range
      <4>2. Ver(tx[i]) \in Nat
        BY <1>m, <3>2, VerType
      <4> QED BY <3>2, <4>1, <4>2 DEF TxImage, Image, Ver
    <3>3. \A i \in DOMAIN tx : Descriptor(tx).sums[i].ver = Ver(tx[i])
      BY <3>1 DEF Ver
    <3> QED BY <3>1, <3>2, <3>3 DEF AtLeast
  <2> QED BY <2>4, <2>5, <2>6
<1>2. ASSUME At(u, "data")' PROVE \A m \in Survivors' : AtLeast(m[LogPage(head)'], TxImage')
  <2>1. CommitFlush(u) /\ At(u, "descriptorFlush")
    BY <1>2, NewTop
  <2>2. FlushStep(u) /\ ~CommitDurable(u)
    BY <2>1 DEF FlushStep, CommitDurable, At
  <2>3. UNCHANGED <<tx, logged, head>> /\ Mild({}) /\ Settled'
    BY <2>2, FlushFrame, FlushStore
  <2>4. TxImage' = TxImage /\ LogPage(head)' = LogPage(head)
    BY <1>m, <2>3, TxImageSame DEF Mild, LogPage, Ver
  <2>5. \A m \in Survivors' : m[LogPage(head)] = Dev(LogPage(head))
    BY <1>b, <2>3 DEF Settled, Mild
  <2>6. AtLeast(Dev(LogPage(head)), TxImage)
    BY <2>1 DEF Staged
  <2> QED BY <2>4, <2>5, <2>6
<1>3. ASSUME At(u, "start")' \/ At(u, "block")'
      PROVE  \A m \in Survivors' : AtLeast(m[LogPage(head)'], TxImage')
  <2>1. CommitFlush(u) /\ (At(u, "dataFlush") \/ At(u, "startFlush"))
    BY <1>3, NewTop
  <2>2. FlushStep(u) /\ ~CommitDurable(u) /\ LogTop(u)
    BY <2>1 DEF FlushStep, CommitDurable, At, LogTop
  <2>3. UNCHANGED <<tx, logged, head>> /\ Mild({})
    BY <2>2, FlushFrame, FlushStore
  <2>4. \A p \in Meta : Ver(p)' = Ver(p)
    BY <1>m, <2>3 DEF Mild, Ver
  <2>5. \A m \in Survivors' : \E n \in Survivors : m[LogPage(head)] = n[LogPage(head)]
    BY <1>b, <2>3 DEF Mild
  <2> QED BY <1>g, <2>2, <2>3, <2>4, <2>5
<1>4. ASSUME At(u, "dataFlush")' PROVE \A m \in Survivors' : AtLeast(m[LogPage(head)'], TxImage')
  <2>1. CommitData(u)
    BY <1>4, NewTop
  <2>2. LogTop(u)
    BY <2>1 DEF CommitData, LogTop
  <2>3. PICK k \in 0..Len(tx) :
        /\ \A q \in Homes \cup {JSB} : bcache_read_bytes(q)' = bcache_read_bytes(q)
        /\ \A m \in Survivors' : \E n \in Survivors :
             \A q \in Pages : m[q] = n[q] \/ (q \in DOMAIN LogData(k) /\ m[q] = LogData(k)[q])
    BY <2>1, DataEffect
  <2>4. \A q \in DOMAIN LogData(k) : LogData(k)[q].type = "data"
    BY DataTypes
  <2>5. UNCHANGED <<tx, logged, head>>
    BY <2>1, DataEffect
  <2>6. \A p \in Meta : Ver(p)' = Ver(p)
    BY <1>m, <2>3 DEF Ver
  <2>7. \A m \in Survivors' : \E n \in Survivors :
          m[LogPage(head)] = n[LogPage(head)] \/ m[LogPage(head)].type # "descriptor"
    BY <1>b, <2>3, <2>4
  <2> QED BY <1>g, <2>2, <2>5, <2>6, <2>7
<1>5. ASSUME At(u, "startFlush")' \/ At(u, "blockFlush")'
      PROVE  \A m \in Survivors' : AtLeast(m[LogPage(head)'], TxImage')
  <2>1. CommitStart(u) \/ CommitBlock(u)
    BY <1>5, NewTop
  <2>2. LogStep(u) /\ (At(u, "start") \/ At(u, "block")) /\ LogTop(u)
    BY <2>1 DEF LogStep, CommitStart, CommitBlock, LogTop
  <2>3. LogPut(LogTarget(u), LogBlock(u)) /\ UNCHANGED <<tx, logged, head>>
    BY <2>2, LogEffect
  <2>4. LogTarget(u) = JSB \/ LogBlock(u) = Commit
    BY <2>2, LogTargets
  <2>5. Commit.type # "descriptor"
    BY DEF Commit
  <2>6. \A p \in Meta : Ver(p)' = Ver(p)
    BY <1>m, <2>3 DEF Ver, LogPut
  <2>7. \A m \in Survivors' : \E n \in Survivors :
          m[LogPage(head)] = n[LogPage(head)] \/ m[LogPage(head)].type # "descriptor"
    BY <1>b, <2>3, <2>4, <2>5 DEF LogPut
  <2> QED BY <1>g, <2>2, <2>3, <2>6, <2>7
<1>6. LogTop(u)' => \A m \in Survivors' : AtLeast(m[LogPage(head)'], TxImage')
  BY <1>2, <1>3, <1>4, <1>5 DEF LogTop
<1> QED BY <1>1, <1>6 DEF Staged

\* Every step keeps the descriptor in front of the head fit.
LEMMA StagedStep ==
  ASSUME Base, StorageType', Scanning, \A t \in Callers : Staged(t), Next
  PROVE  \A u \in Callers : Staged(u)'
<1> USE DEF Base
<1> TAKE u \in Callers
<1>1. CASE CallerStep(u)
  BY <1>1, StagedOwn
<1>2. CASE Crash
  <2>1. \A l : ~At(u, l)'
    BY <1>2 DEF Crash, At
  <2> QED BY <2>1 DEF Staged, LogTop
<1>3. CASE ~CallerStep(u) /\ ~Crash /\ ~(\E l \in CommitIn : At(u, l))
  <2>1. \A l : At(u, l)' <=> At(u, l)
    BY <1>3, StackOwn DEF At, Top
  <2>2. ~At(u, "descriptorFlush") /\ ~LogTop(u)
    BY <1>3 DEF LogTop, CommitIn
  <2> QED BY <2>1, <2>2 DEF Staged, LogTop
<1>4. CASE ~CallerStep(u) /\ ~Crash /\ \E l \in CommitIn : At(u, l)
  <2>1. Inside(u) # {}
    BY <1>4, AtTop, TopInside
  <2>2. AsideStep(u)
    BY <1>4, <2>1, Aside
  <2>3. \A l : At(u, l)' <=> At(u, l)
    BY <2>2 DEF At, Top, AsideStep
  <2>4. \A p \in Meta : Ver(p)' = Ver(p)
    BY <2>2 DEF AsideStep, Ver
  <2>5. LogPage(head) \in LogPages \ {JSB} /\ LogPage(head)' = LogPage(head) /\ UNCHANGED <<tx, logged, head>>
    BY <2>2, BlockTypes DEF AsideStep, LogPage
  <2>6. Dev(LogPage(head))' = Dev(LogPage(head)) /\ TxImage' = TxImage
    BY <2>2, <2>4, <2>5, TxImageSame DEF AsideStep
  <2>7. \A m \in Survivors' : \E n \in Survivors : m[LogPage(head)] = n[LogPage(head)]
    BY <2>2, <2>5 DEF AsideStep
  <2>8. Staged(u)
    OBVIOUS
  <2>9. At(u, "descriptorFlush")' => AtLeast(Dev(LogPage(head)), TxImage)'
    BY <2>3, <2>6, <2>8 DEF Staged
  <2>10. LogTop(u)' => LogTop(u)
    BY <2>3 DEF LogTop
  <2>11. LogTop(u) => \A m \in Survivors' : AtLeast(m[LogPage(head)'], TxImage')
    BY <2>4, <2>5, <2>7, <2>8, StagedKeep
  <2> QED BY <2>9, <2>10, <2>11 DEF Staged
<1> QED BY <1>1, <1>2, <1>3, <1>4

\* A successful commit is a promise: what it promised is on every survivor, in every
\* transaction that a survivor's superblock leads to, and in what the file system reads.
Kept ==
  /\ Keeps(stable)
  /\ \A p \in Meta : Ver(p) >= stable[p]
  /\ Hooked =>
       /\ \A p \in Meta : logged[p] >= stable[p] /\ Ver(p) >= logged[p]
       /\ bcache_read_bytes(JSB).start # 0 => Leads(Device, logged)

LowPcs == {"checkpointed", "emptyFlush", "lower", "lowered"}
Under(t) == Len(stack[t]) > 1 /\ stack[t][Len(stack[t]) - 1].pc = "lowered"

\* The last sync of a commit makes the promise true before it is given.
Lowering(t) ==
  /\ \A k \in DOMAIN stack[t] : stack[t][k].pc \in LowPcs => tx = <<>>
  /\ At(t, "flush") /\ Under(t) => Holds(Device, logged)
  /\ At(t, "lowered") /\ ok[t] => Keeps(logged)

\* A commit is under way only while the hook is set.
LEMMA InsideHooked ==
  ASSUME ControlType, Shape, NEW u \in Callers, Inside(u) # {}
  PROVE  Hooked
<1>1. stack[u] # <<>>
  BY NoFrames
<1>2. PICK k \in DOMAIN stack[u] : stack[u][k].pc \in CommitIn
  BY DEF Inside
<1>3. stack[u] \in Seq(Frames) /\ Len(stack[u]) \in Nat \ {0} /\ DOMAIN stack[u] = 1..Len(stack[u])
  BY <1>1, TopFrame, SeqDomain
<1>4. phase # "off"
  BY <1>1, OffStacks
<1>5. ASSUME Alone PROVE FALSE
  <2>1. /\ stack[u][1].pc \in Entry /\ Len(stack[u]) <= 2
        /\ Len(stack[u]) = 2 => stack[u][2].pc \in {"sync", "write", "flush"}
    BY <1>1, <1>5 DEF Shape, Stacked
  <2>2. Entry \subseteq MountPcs \cup {"closed"}
    <3>1. CASE phase = "mounting"
      <4>1. Entry = MountPcs
        BY <3>1 DEF Entry
      <4> QED BY <4>1
    <3>2. CASE phase = "unmounting"
      BY <3>2 DEF Entry
    <3>3. CASE phase = "refused"
      BY <3>3 DEF Entry
    <3> QED BY <1>5, <3>1, <3>2, <3>3 DEF Alone
  <2>3. k = 1 \/ (k = 2 /\ Len(stack[u]) = 2)
    <3>0. \A n \in Nat \ {0} : n <= 2 => n \in {1, 2}
      OBVIOUS
    <3>1. Len(stack[u]) \in {1, 2}
      BY <1>3, <2>1, <3>0
    <3> QED BY <1>2, <1>3, <3>1, OneOrTwo
  <2> QED BY <1>2, <2>1, <2>2, <2>3 DEF CommitIn, MountPcs
<1> QED BY <1>4, <1>5 DEF ControlType, Alone, Hooked

\* While the hook is set, what is logged is a promise like any other.
LEMMA LoggedFits ==
  ASSUME StorageType, ControlType, Kept, Hooked
  PROVE  \A p \in Meta : logged[p] \in Nat /\ Ver(p) >= logged[p] /\ TxImage[p] >= logged[p]
<1> SUFFICES ASSUME NEW p \in Meta
    PROVE  logged[p] \in Nat /\ Ver(p) >= logged[p] /\ TxImage[p] >= logged[p]
  OBVIOUS
<1>1. logged[p] \in Nat /\ Ver(p) >= logged[p]
  BY VerType DEF Kept
<1>2. TxImage[p] = Ver(p) \/ TxImage[p] = logged[p]
  BY DEF TxImage, Image, Ver
<1> QED BY <1>1, <1>2

\* So is what was promised.
LEMMA StableFits ==
  ASSUME StorageType, ControlType, Kept
  PROVE  \A p \in Meta : stable[p] \in Nat /\ Ver(p) >= stable[p] /\ (Hooked => TxImage[p] >= stable[p])
<1> SUFFICES ASSUME NEW p \in Meta
    PROVE  stable[p] \in Nat /\ Ver(p) >= stable[p] /\ (Hooked => TxImage[p] >= stable[p])
  OBVIOUS
<1>1. stable[p] \in Nat /\ Ver(p) >= stable[p] /\ logged[p] \in Nat /\ (Hooked => logged[p] >= stable[p])
  BY VerType DEF Kept
<1>2. TxImage[p] = Ver(p) \/ TxImage[p] = logged[p]
  BY DEF TxImage, Image, Ver
<1> QED BY <1>1, <1>2

\* Equal media hold the same.
LEMMA HoldsSame ==
  ASSUME NEW m, NEW n, NEW f, \A p \in Pages : m[p] = n[p], m[JSB].start \in 0..LogLen, Holds(n, f)
  PROVE  Holds(m, f)
<1>1. Gives(m, n, f)
  BY PageKinds DEF Gives
<1> QED BY <1>1, Given

\* A caller's own step leaves the transaction alone or closes it.
LEMMA TxOwn ==
  ASSUME Base, Scanning, NEW u \in Callers, CallerStep(u)
  PROVE  tx' = tx \/ tx' = <<>>
<1> USE DEF Base
<1>1. CASE StillStep(u) /\ ~Open(u)
  BY <1>1, StillFrame
<1>2. CASE Open(u)
  BY <1>2 DEF Open
<1>3. CASE Closed(u)
  BY <1>3 DEF Closed, Forget
<1>4. CASE SyncWrite(u) \/ FlushStep(u) \/ FlagStep(u) \/ LogStep(u)
  BY <1>4, WriteFrame, FlushFrame, FlagEffect, LogEffect
<1>5. CASE CommitData(u) \/ CommitCheckpoint(u) \/ MarkStep(u) \/ CopyStep(u) \/ PartStep(u)
  BY <1>5, DataEffect, ReleaseEffect, MarkEffect, CopyEffect, PartEffect
<1> QED BY <1>1, <1>2, <1>3, <1>4, <1>5, CallerKinds DEF CallerKind

\* From the checkpoint to the end of the commit no transaction is open.
LEMMA LowTx ==
  ASSUME Base, Scanning, NEW u \in Callers, Lowering(u), CallerStep(u),
         NEW k \in DOMAIN stack'[u], stack'[u][k].pc \in LowPcs
  PROVE  tx' = <<>>
<1> USE DEF Base
<1>0. SUFFICES tx = <<>> \/ tx' = <<>>
  BY TxOwn
<1>1. MoveOf(u)
  BY Moves
<1>2. ASSUME stack[u] # <<>>, NEW l \in LowPcs, At(u, l) PROVE tx = <<>>
  <2>1. Len(stack[u]) \in DOMAIN stack[u]
    <3>1. stack[u] \in Seq(Frames) /\ Len(stack[u]) \in Nat \ {0}
      BY <1>2, TopFrame
    <3>2. DOMAIN stack[u] = 1..Len(stack[u])
      BY <3>1, SeqDomain
    <3> QED BY <3>1, <3>2
  <2> QED BY <1>2, <2>1 DEF Lowering, At, Top
<1>3. ASSUME stack[u] # <<>>, k \in 1..(Len(stack[u]) - 1), stack'[u][k] = stack[u][k] PROVE tx = <<>>
  <2>1. stack[u] \in Seq(Frames) /\ Len(stack[u]) \in Nat \ {0}
    BY <1>3, TopFrame
  <2>2. DOMAIN stack[u] = 1..Len(stack[u])
    BY <2>1, SeqDomain
  <2>3. k \in DOMAIN stack[u]
    BY <1>3, <2>1, <2>2
  <2> QED BY <1>3, <2>3 DEF Lowering
<1>4. CASE stack[u] = <<>> /\ \A j \in DOMAIN stack'[u] :
             stack'[u][j].pc \in {"sync", "fsync", "close", "commit", "recover", "open"}
  BY <1>4 DEF LowPcs
<1>5. CASE stack'[u] = <<>>
  BY <1>5, Nil
<1>6. CASE stack' = stack
  BY <1>6 DEF Lowering
<1>7. ASSUME stack[u] # <<>>, NEW f \in Frames, Become(u, f), f.pc \in LowPcs => tx = <<>> \/ tx' = <<>>
      PROVE  tx = <<>> \/ tx' = <<>>
  <2>1. /\ stack'[u] \in Seq(Frames) /\ Len(stack'[u]) = Len(stack[u]) /\ stack'[u][Len(stack[u])] = f
        /\ \A j \in 1..(Len(stack[u]) - 1) : stack'[u][j] = stack[u][j]
    BY <1>7, BecomeStack
  <2>2. k \in 1..Len(stack[u]) /\ Len(stack[u]) \in Nat
    BY <1>7, <2>1, SeqDomain, TopFrame
  <2>3. k = Len(stack[u]) \/ k \in 1..(Len(stack[u]) - 1)
    BY <2>2
  <2> QED BY <1>3, <1>7, <2>1, <2>3
<1>8. ASSUME stack[u] # <<>>, NEW x \in Pcs \ {"emptyFlush", "lower"}, NEW f \in {Sync("ALL"), Sync("HELD"), CommitCall},
             Call(u, x, f), x = "lowered" => (tx = <<>> /\ tx' = tx) \/ At(u, "lower"),
             x = "checkpointed" => tx' = <<>>
      PROVE  tx = <<>> \/ tx' = <<>>
  <2>0. f \in Frames /\ f.pc \in {"sync", "commit"}
    BY <1>8, FrameKinds
  <2>1. /\ stack'[u] \in Seq(Frames) /\ Len(stack'[u]) = Len(stack[u]) + 1
        /\ stack'[u][Len(stack[u]) + 1] = f /\ stack'[u][Len(stack[u])] = Frame(x, Mode(u))
        /\ \A j \in 1..(Len(stack[u]) - 1) : stack'[u][j] = stack[u][j]
    BY <1>8, <2>0, CallStack
  <2>2. k \in 1..(Len(stack[u]) + 1) /\ Len(stack[u]) \in Nat
    BY <1>8, <2>1, SeqDomain, TopFrame
  <2>3. k = Len(stack[u]) \/ k = Len(stack[u]) + 1 \/ k \in 1..(Len(stack[u]) - 1)
    BY <2>2
  <2>4. Frame(x, Mode(u)).pc = x
    BY DEF Frame
  <2>5. k # Len(stack[u]) + 1
    BY <2>0, <2>1 DEF LowPcs
  <2>6. CASE k = Len(stack[u])
    <3>1. x \in LowPcs
      BY <2>1, <2>4, <2>6
    <3>2. x \in {"lowered", "checkpointed"}
      BY <3>1 DEF LowPcs
    <3>3. "lower" \in LowPcs
      BY DEF LowPcs
    <3> QED BY <1>2, <1>8, <3>2, <3>3
  <2> QED BY <1>3, <1>8, <2>1, <2>3, <2>5, <2>6
<1>9. ASSUME stack[u] # <<>>, NEW r \in BOOLEAN, Return(u, r) PROVE tx = <<>>
  <2>1. /\ stack'[u] \in Seq(Frames) /\ Len(stack'[u]) = Len(stack[u]) - 1
        /\ \A j \in 1..(Len(stack[u]) - 1) : stack'[u][j] = stack[u][j]
    BY <1>9, ReturnStack
  <2>2. k \in 1..(Len(stack[u]) - 1)
    BY <2>1, SeqDomain
  <2> QED BY <1>3, <1>9, <2>1, <2>2
<1>10. ASSUME stack[u] # <<>>, NEW x \in Pcs \ SyncReturns, Goto(u, x), x = "emptyFlush" => At(u, "checkpointed"),
              x = "lower" => At(u, "emptyFlush")
       PROVE  tx = <<>> \/ tx' = <<>>
  <2>1. Frame(x, Mode(u)) \in Frames /\ Frame(x, Mode(u)).pc = x /\ Become(u, Frame(x, Mode(u)))
    BY <1>10, TopFrame DEF Goto
  <2>2. x \in LowPcs => tx = <<>>
    <3>1. x \in LowPcs => x \in {"emptyFlush", "lower"}
      BY <1>10 DEF LowPcs, SyncReturns
    <3>2. "checkpointed" \in LowPcs /\ "emptyFlush" \in LowPcs
      BY DEF LowPcs
    <3> QED BY <1>2, <1>10, <3>1, <3>2
  <2> QED BY <1>7, <1>10, <2>1, <2>2
<1>11. ASSUME stack[u] # <<>>, Become(u, Sync("SCOPED")) PROVE tx = <<>> \/ tx' = <<>>
  <2>1. Sync("SCOPED") \in Frames /\ Sync("SCOPED").pc = "sync"
    BY FrameKinds
  <2>2. "sync" \notin LowPcs
    BY DEF LowPcs
  <2> QED BY <1>7, <1>11, <2>1, <2>2
<1> QED BY <1>1, <1>4, <1>5, <1>6, <1>8, <1>9, <1>10, <1>11 DEF MoveOf

\* The last sync of a commit has written every page: the device holds what is logged.
LEMMA LowWritten ==
  ASSUME Base, StorageType', Clean', SuperMono, HoldsMatchTx, Kept, NEW u \in Callers, Lowering(u), CallerStep(u),
         At(u, "flush")', Under(u)'
  PROVE  Holds(Device, logged)'
<1> USE DEF Base
<1>1. SyncWrite(u) /\ Goto(u, "flush") /\ At(u, "write")
  BY NewTop DEF SyncWrite
<1>2. stack[u] # <<>> /\ Top(u).pc = "write"
  BY <1>1, AtTop
<1>3. /\ Len(stack[u]) \in Nat \ {0} /\ Frame("flush", Mode(u)) \in Frames /\ Become(u, Frame("flush", Mode(u)))
      /\ stack[u] \in Seq(Frames)
  <2>1. "flush" \in Pcs
    BY DEF Pcs, SyncPcs
  <2> QED BY <1>1, <1>2, <2>1, TopFrame DEF Goto
<1>4. /\ Len(stack'[u]) = Len(stack[u])
      /\ \A k \in 1..(Len(stack[u]) - 1) : stack'[u][k] = stack[u][k]
  BY <1>2, <1>3, BecomeStack
<1>5. Len(stack[u]) > 1 /\ stack[u][Len(stack[u]) - 1].pc = "lowered"
  BY <1>3, <1>4 DEF Under
<1>6. tx = <<>>
  <2>1. DOMAIN stack[u] = 1..Len(stack[u])
    BY <1>3, SeqDomain
  <2>2. Len(stack[u]) - 1 \in DOMAIN stack[u]
    BY <1>3, <1>5, <2>1
  <2> QED BY <1>5, <2>2 DEF Lowering, LowPcs
<1>7. Mode(u) = "ALL"
  <2>1. CalledBy("lowered", Top(u))
    BY <1>2, <1>3, <1>5, TopKind
  <2> QED BY <2>1 DEF CalledBy, Mode
<1>8. ~Return(u, FALSE)
  <2> SUFFICES ASSUME Return(u, FALSE) PROVE FALSE
    OBVIOUS
  <2>1. Len(stack'[u]) = Len(stack[u]) - 1
    BY <1>2, ReturnStack
  <2> QED BY <1>3, <1>4, <2>1
<1>9. /\ MildStep
      /\ \A p \in DOMAIN cache' : cache'[p].dirty => cache[p].dirty /\ p \notin SyncSelection(Mode(u))
  BY <1>1, <1>8, SyncStore
<1>10. PICK T : Mild(T)
  BY <1>9 DEF MildStep
<1>11. \A p \in DOMAIN cache : ~cache[p].held
  BY <1>6 DEF HoldsMatchTx
<1>12. \A p \in DOMAIN cache' : ~cache'[p].dirty
  <2> SUFFICES ASSUME NEW p \in DOMAIN cache', cache'[p].dirty PROVE FALSE
    OBVIOUS
  <2>1. p \in DOMAIN cache /\ cache[p].dirty /\ p \notin SyncSelection("ALL")
    BY <1>7, <1>9, <1>10 DEF Mild
  <2> QED BY <1>11, <2>1 DEF SyncSelection
<1>13. \A p \in Pages : Dev(p)' = bcache_read_bytes(p)
  <2>1. \A p \in Pages : bcache_read_bytes(p)' = Dev(p)'
    BY <1>12 DEF Clean, bcache_read_bytes
  <2> QED BY <1>10, <2>1 DEF Mild
<1>14. Hooked
  <2>1. Inside(u) # {}
    <3>1. DOMAIN stack[u] = 1..Len(stack[u])
      BY <1>3, SeqDomain
    <3>2. Len(stack[u]) - 1 \in DOMAIN stack[u]
      BY <1>3, <1>5, <3>1
    <3> QED BY <1>5, <3>2 DEF Inside, CommitIn
  <2> QED BY <2>1, InsideHooked
<1>15. logged' = logged
  BY <1>1, WriteFrame
<1>16. \A p \in Pages : Device'[p] = bcache_read_bytes(p) /\ Device[p] = Dev(p)
  BY <1>13, DeviceAt
<1>17. \A p \in Meta : Device'[p].ver >= logged[p]
  BY <1>14, <1>16, PageKinds DEF Kept, Ver
<1>18. ASSUME Device'[JSB].start # 0 PROVE AtLeast(Desc(Device'), logged)
  <2>1. JSB \in Pages /\ bcache_read_bytes(JSB).start # 0
    BY <1>16, <1>18, PageKinds
  <2>2. JSB \notin DOMAIN cache
    BY <2>1 DEF SuperMono, bcache_read_bytes
  <2>3. Device'[JSB] = Device[JSB]
    BY <1>16, <2>1, <2>2 DEF bcache_read_bytes
  <2>4. Leads(Device, logged)
    BY <1>14, <2>1 DEF Kept
  <2>5. AtLeast(Device[LogPage(Device[JSB].start)], logged)
    BY <1>18, <2>3, <2>4 DEF Leads, Desc
  <2>6. LogPage(Device[JSB].start) \in Pages /\ LogPage(Device[JSB].start) \notin DOMAIN cache
    <3>1. Device[JSB].start \in 1..LogLen
      BY <1>18, <2>3, StartType, PageKinds
    <3>2. LogPage(Device[JSB].start) \in LogPages \ {JSB}
      BY <3>1, PageKinds
    <3> QED BY <3>2, PageKinds DEF StorageType
  <2>7. Device'[LogPage(Device[JSB].start)] = Device[LogPage(Device[JSB].start)]
    BY <1>16, <2>6 DEF bcache_read_bytes
  <2> QED BY <2>3, <2>5, <2>7 DEF Desc
<1> QED BY <1>15, <1>17, <1>18 DEF Holds, Leads

\* The flush that follows makes it durable.
LEMMA LowFlushed ==
  ASSUME Base, Base', NEW u \in Callers, Lowering(u), CallerStep(u), At(u, "lowered")', ok'[u]
  PROVE  Keeps(logged)'
<1> USE DEF Base
<1>0. MoveOf(u)
  BY Moves
<1>1. stack'[u] # <<>> /\ Top(u)'.pc = "lowered"
  BY DEF At
<1>2. ~(stack[u] = <<>> /\ \A k \in DOMAIN stack'[u] :
             stack'[u][k].pc \in {"sync", "fsync", "close", "commit", "recover", "open"})
  <2>1. stack'[u] \in Seq(Frames)
    BY DEF ControlType
  <2>2. Len(stack'[u]) \in DOMAIN stack'[u]
    <3>1. Len(stack'[u]) \in Nat \ {0}
      BY <1>1, <2>1
    <3>2. DOMAIN stack'[u] = 1..Len(stack'[u])
      BY <2>1, SeqDomain
    <3> QED BY <3>1, <3>2
  <2> QED BY <1>1, <2>2 DEF Top
<1>3. ~(stack' = stack /\ Top(u).pc \in MountPcs)
  BY <1>1 DEF Top, MountPcs
<1>4. ASSUME stack[u] # <<>>, NEW x \in Pcs \ SyncReturns, Goto(u, x) PROVE FALSE
  BY <1>4, TopMoves DEF SyncReturns
<1>5. ASSUME stack[u] # <<>>, NEW f \in Frames, f.pc \in {"sync", "commit"},
             Become(u, f) \/ \E x \in Pcs : Call(u, x, f)
      PROVE  FALSE
  BY <1>5, TopMoves
<1>6. ASSUME stack[u] # <<>>, Return(u, FALSE) PROVE FALSE
  BY <1>1, <1>6, ReturnStack
<1>7. ASSUME stack[u] # <<>>, NEW r \in BOOLEAN, Return(u, r), Top(u).pc \notin SyncPcs PROVE FALSE
  <2>1. CalledBy("lowered", Top(u))
    BY <1>7, TopMoves
  <2> QED BY <1>7, <2>1 DEF CalledBy
<1>8. stack[u] # <<>> /\ SyncFlush(u) /\ DevFlush /\ Return(u, TRUE)
  <2>1. \A f \in {Sync("ALL"), Sync("HELD"), CommitCall, Sync("SCOPED")} : f \in Frames /\ f.pc \in {"sync", "commit"}
    BY FrameKinds
  <2> QED BY <1>0, <1>1, <1>2, <1>3, <1>4, <1>5, <1>6, <1>7, <2>1 DEF MoveOf
<1>9. At(u, "flush") /\ Under(u)
  <2>1. Len(stack[u]) > 1 /\ Top(u)' = stack[u][Len(stack[u]) - 1]
    BY <1>8, TopMoves
  <2> QED BY <1>1, <1>8, <2>1 DEF SyncFlush, Under
<1>10. Holds(Device, logged)
  BY <1>9 DEF Lowering
<1>11. logged' = logged /\ hist' = hist
  BY <1>8 DEF SyncFlush, hVars
<1>12. Settled' /\ Mild({})
  BY <1>8, <1>11, FlushMild
<1>13. ASSUME NEW m \in Survivors' PROVE Holds(m, logged)
  <2>1. \A p \in Pages : m[p] = Device[p]
    BY <1>12, DeviceAt DEF Settled, Mild
  <2>2. m[JSB].start \in 0..LogLen
    BY StartNext
  <2> QED BY <1>10, <2>1, <2>2, HoldsSame
<1> QED BY <1>11, <1>13 DEF Keeps

\* Every step keeps the lowering of the flag in order.
LEMMA LoweringStep ==
  ASSUME Base, Base', Scanning, SuperMono, HoldsMatchTx, Kept, \A t \in Callers : Staged(t),
         \A t \in Callers : Lowering(t), Next
  PROVE  \A u \in Callers : Lowering(u)'
<1> USE DEF Base
<1> TAKE u \in Callers
<1>1. CASE CallerStep(u)
  BY <1>1, LowTx, LowWritten, LowFlushed DEF Lowering
<1>2. CASE Crash
  <2>1. stack'[u] = <<>>
    BY <1>2 DEF Crash
  <2>2. (\A l : ~At(u, l)') /\ DOMAIN stack'[u] = {}
    BY <2>1, Nil DEF At
  <2> QED BY <2>2 DEF Lowering
<1>3. CASE ~CallerStep(u) /\ ~Crash /\ Inside(u) = {}
  <2>1. stack'[u] = stack[u]
    BY <1>3, StackOwn
  <2>2. \A k \in DOMAIN stack[u] : stack[u][k].pc \notin LowPcs
    BY <1>3 DEF Inside, LowPcs, CommitIn
  <2>3. ASSUME At(u, "lowered") \/ (stack[u] # <<>> /\ Under(u)) PROVE FALSE
    <3>1. stack[u] # <<>>
      BY <2>3 DEF At
    <3>2. stack[u] \in Seq(Frames) /\ Len(stack[u]) \in Nat \ {0}
      BY <3>1, TopFrame
    <3>3. DOMAIN stack[u] = 1..Len(stack[u])
      BY <3>2, SeqDomain
    <3>4. Len(stack[u]) \in DOMAIN stack[u] /\ (Len(stack[u]) > 1 => Len(stack[u]) - 1 \in DOMAIN stack[u])
      BY <3>2, <3>3
    <3> QED BY <2>2, <2>3, <3>4 DEF At, Top, Under, LowPcs
  <2>4. /\ \A l : At(u, l)' <=> At(u, l)
        /\ Under(u)' <=> Under(u)
        /\ \A l : At(u, l) => stack[u] # <<>>
    BY <2>1 DEF At, Top, Under
  <2> QED BY <2>1, <2>2, <2>3, <2>4 DEF Lowering
<1>4. CASE ~CallerStep(u) /\ ~Crash /\ Inside(u) # {}
  <2>1. AsideStep(u) /\ Hooked
    BY <1>4, Aside, InsideHooked
  <2>2. stack'[u] = stack[u] /\ ok'[u] = ok[u] /\ tx' = tx /\ logged' = logged
    BY <2>1 DEF AsideStep
  <2>3. Delivers(logged)
    BY <1>4, <2>1, LoggedFits, Delivered
  <2>4. /\ Keeps(logged) => \A m \in Survivors' : Holds(m, logged)
        /\ Holds(Device, logged) => Holds(Device', logged)
    BY <2>3, Delivery
  <2>5. /\ \A l : At(u, l)' <=> At(u, l)
        /\ Under(u)' <=> Under(u)
    BY <2>2 DEF At, Top, Under
  <2>6. Lowering(u)
    OBVIOUS
  <2>7. At(u, "lowered")' /\ ok'[u] => Keeps(logged)'
    BY <2>2, <2>4, <2>5, <2>6 DEF Lowering, Keeps
  <2>8. At(u, "flush")' /\ Under(u)' => Holds(Device', logged')
    BY <2>2, <2>4, <2>5, <2>6 DEF Lowering
  <2> QED BY <2>2, <2>6, <2>7, <2>8 DEF Lowering
<1> QED BY <1>1, <1>2, <1>3, <1>4

\* Only the end of a successful commit gives a new promise.
LEMMA StableFrame ==
  ASSUME NEW t, CallerStep(t), ~(CommitLowered(t) /\ ok[t])
  PROVE  stable' = stable
<1> USE DEF hVars
<1>1. CASE SyncTest(t) \/ HookLoad(t) \/ HookCall(t) \/ HookReturn(t) \/ SyncWrite(t) \/ SyncFlush(t)
  BY <1>1 DEF SyncTest, HookLoad, HookCall, HookReturn, SyncWrite, SyncFlush
<1>2. CASE CommitBegin(t) \/ CommitLowered(t) \/ CommitRaise(t) \/ CommitRaised(t) \/ CommitDescriptor(t)
           \/ CommitData(t) \/ CommitStart(t) \/ CommitBlock(t)
  BY <1>2 DEF CommitBegin, CommitLowered, CommitRaise, CommitRaised, CommitDescriptor, CommitData,
              CommitStart, CommitBlock, CommitOut
<1>3. CASE CommitFlush(t) \/ CommitDurable(t) \/ CommitCheckpoint(t) \/ CommitEmpty(t) \/ CommitLower(t)
           \/ CommitError(t) \/ SyncCall(t) \/ FsyncStep(t) \/ UnmountCommit(t) \/ UnmountSync(t) \/ Closed(t)
  BY <1>3 DEF CommitFlush, CommitDurable, CommitCheckpoint, CommitEmpty, CommitLower, CommitError, CommitOut,
              SyncCall, FsyncStep, UnmountCommit, UnmountSync, Closed
<1>4. CASE Mount(t) \/ Recover(t) \/ ScanPass(t) \/ ReplayPass(t) \/ RecoverDefer(t) \/ RecoverEmpty(t)
           \/ MountError(t) \/ Open(t)
  BY <1>4 DEF Mount, Recover, ScanPass, ReplayPass, RecoverDefer, RecoverEmpty, MountError, Open
<1> QED BY <1>1, <1>2, <1>3, <1>4 DEF CallerStep

\* The workload and the environment give none.
LEMMA StableStep ==
  ASSUME Next, \A t \in Callers : ~(CommitLowered(t) /\ ok[t])
  PROVE  stable' = stable
<1> USE DEF hVars
<1>1. ASSUME NEW t \in Callers, CallerStep(t) PROVE stable' = stable
  BY <1>1, StableFrame
<1>2. ASSUME NEW w \in Workloads, OpBegin(w) PROVE stable' = stable
  BY <1>2 DEF OpBegin
<1>3. CASE DataWrite \/ MetaWrite \/ MetaRecord
  BY <1>3 DEF DataWrite, MetaWrite, MetaRecord
<1>4. CASE EvictPage \/ EvictDone \/ QuarantinePasses \/ Crash
  BY <1>4 DEF EvictPage, EvictDone, QuarantinePasses, Crash
<1> QED BY <1>1, <1>2, <1>3, <1>4 DEF Next

\* While the volume is in use, what the file system reads only gets newer; a power loss,
\* the end of a mount and the replay read the device again.
LEMMA VerRises ==
  ASSUME Base, Scanning, Next, ~Crash, \A t \in Callers : ~Closed(t) /\ ~CopyStep(t) /\ ~PartStep(t)
  PROVE  \A p \in Meta : Ver(p)' >= Ver(p)
<1> USE DEF Base
<1>v. \A p \in Meta : Ver(p) \in Nat /\ Ver(p) <= Len(hist) /\ p \in Pages /\ p \in Homes /\ p # JSB
  BY VerType, PageKinds
<1>h. Len(hist) \in Nat
  BY VerType
<1>s. ASSUME \A p \in Meta : bcache_read_bytes(p)' = bcache_read_bytes(p)
      PROVE  \A p \in Meta : Ver(p)' >= Ver(p)
  BY <1>s, <1>v DEF Ver
<1>p. ASSUME NEW q \in Pages, NEW v, Put(q, v), v.ver = Len(hist) \/ (q = SB /\ v.ver = Ver(SB)) \/ q = JSB
      PROVE  \A p \in Meta : Ver(p)' >= Ver(p)
  <2> SUFFICES ASSUME NEW p \in Meta PROVE Ver(p)' >= Ver(p)
    OBVIOUS
  <2>1. bcache_read_bytes(p)' = IF p = q THEN v ELSE bcache_read_bytes(p)
    BY <1>p, <1>v DEF Put
  <2>2. CASE p # q
    BY <2>1, <2>2, <1>v DEF Ver
  <2>3. CASE p = q
    <3>1. Ver(p)' = v.ver
      BY <2>1, <2>3 DEF Ver
    <3> QED BY <1>p, <1>v, <1>h, <2>3, <3>1
  <2> QED BY <2>2, <2>3
<1>m. ASSUME NEW T, Mild(T) PROVE \A p \in Meta : Ver(p)' >= Ver(p)
  BY <1>m, <1>s, <1>v DEF Mild
<1>1. ASSUME NEW t \in Callers, CallerStep(t) PROVE \A p \in Meta : Ver(p)' >= Ver(p)
  <2>1. CASE StillStep(t)
    BY <1>m, <2>1, StillStore
  <2>2. CASE SyncWrite(t)
    BY <1>m, <2>2, SyncStore DEF MildStep
  <2>3. CASE FlushStep(t)
    BY <1>m, <2>3, FlushStore
  <2>4. CASE FlagStep(t)
    <3>1. PICK v \in HomePage : Put(SB, v) /\ v.ver = bcache_read_bytes(SB).ver
      BY <2>4, FlagEffect
    <3>2. SB \in Pages
      BY <1>v, JournalAssumption
    <3> QED BY <1>p, <3>1, <3>2 DEF Ver
  <2>5. CASE LogStep(t)
    BY <1>s, <1>v, <2>5, LogEffect DEF LogPut
  <2>6. CASE CommitData(t)
    BY <1>s, <1>v, <2>6, DataEffect
  <2>7. CASE CommitCheckpoint(t)
    BY <1>s, <1>v, <2>7, ReleaseEffect
  <2>8. CASE MarkStep(t)
    <3>1. Put(JSB, Super(0, rec.seq, rec.head)) /\ JSB \in Pages
      BY <2>8, MarkEffect, PageKinds
    <3> QED BY <1>p, <3>1
  <2> QED BY <1>1, <2>1, <2>2, <2>3, <2>4, <2>5, <2>6, <2>7, <2>8, CallerKinds DEF CallerKind
<1>2. ASSUME NEW w \in Workloads, OpBegin(w) PROVE \A p \in Meta : Ver(p)' >= Ver(p)
  BY <1>2, <1>s, BeginEffect
<1>3. CASE DataWrite \/ MetaWrite
  <2>1. PageOf(Head(op)) \in Pages
    BY <1>3, WriteEffect, PageKinds
  <2> QED BY <1>3, <1>p, <2>1, WriteEffect
<1>4. CASE MetaRecord
  BY <1>4, <1>s, <1>v, RecordEffect
<1>5. CASE EvictPage
  BY <1>5, <1>m, EvictStore DEF MildStep
<1>6. CASE QuarantinePasses
  BY <1>6, <1>m, QuarantineEffect
<1>7. CASE EvictDone
  BY <1>7, <1>m, RecycleStore
<1> QED BY <1>1, <1>2, <1>3, <1>4, <1>5, <1>6, <1>7 DEF Next

\* At the end of a commit the hook is still set.
LEMMA LoweredHooked ==
  ASSUME ControlType, Shape, NEW t \in Callers, At(t, "lowered")
  PROVE  Hooked
<1>1. stack[t] # <<>> /\ Top(t).pc \in CommitIn
  BY AtTop DEF CommitIn
<1> QED BY <1>1, TopInside, InsideHooked

\* What was promised is on every survivor of the next state.
LEMMA KeptStable ==
  ASSUME Base, StorageType', Scanning, SuperMono, Kept, \A t \in Callers : Staged(t),
         \A t \in Callers : Lowering(t), Next
  PROVE  Keeps(stable)'
<1> USE DEF Base
<1>k. Keeps(stable)
  BY DEF Kept
<1>1. CASE Crash
  <2>1. media' \in Survivors /\ \A m \in Survivors' : m = media'
    BY <1>1, CrashEffect
  <2>2. stable' = stable
    BY <1>1 DEF Crash
  <2> QED BY <1>k, <2>1, <2>2 DEF Keeps
<1>2. CASE \E t \in Callers : CommitLowered(t) /\ ok[t]
  <2>1. PICK t \in Callers : CommitLowered(t) /\ ok[t]
    BY <1>2
  <2>2. Survivors' = Survivors
    BY <2>1, StillStore DEF StillStep
  <2>3. stable' = logged /\ At(t, "lowered")
    BY <2>1 DEF CommitLowered, CommitOut
  <2>4. Keeps(logged)
    BY <2>1, <2>3 DEF Lowering
  <2> QED BY <2>2, <2>3, <2>4 DEF Keeps
<1>3. CASE ~Crash /\ \A t \in Callers : ~(CommitLowered(t) /\ ok[t])
  <2>1. stable' = stable
    BY <1>3, StableStep
  <2>2. Delivers(stable)
    BY <1>3, StableFits, Delivered
  <2>3. \A m \in Survivors' : Holds(m, stable)
    BY <1>k, <2>2, Delivery
  <2> QED BY <2>1, <2>3 DEF Keeps
<1> QED BY <1>1, <1>2, <1>3

\* The replay copies nothing older than what was promised.
LEMMA CopyKeeps ==
  ASSUME Base, Scanning, Kept, NEW t \in Callers, CopyStep(t) \/ PartStep(t)
  PROVE  \A p \in Meta : Ver(p)' >= stable[p]
<1> USE DEF Base
<1>1. /\ HasTx(Device)
      /\ \A p \in Pages : \/ bcache_read_bytes(p)' = bcache_read_bytes(p)
                          \/ p \in Tagged(Device) /\ bcache_read_bytes(p)' = Logged(Desc(Device), p)
  <2>1. CASE CopyStep(t)
    BY <2>1, CopyEffect
  <2>2. CASE PartStep(t)
    BY <2>2, PartEffect
  <2> QED BY <2>1, <2>2
<1>2. Tagged(Device) = Range(Desc(Device).tags) /\ Desc(Device).type = "descriptor" /\ Device[JSB].start # 0
  BY <1>1 DEF Tagged, HasTx, TxAt, Desc
<1>3. AtLeast(Desc(Device), stable)
  BY <1>2, DeviceSurvives DEF Kept, Keeps, Holds, Leads
<1> SUFFICES ASSUME NEW p \in Meta PROVE Ver(p)' >= stable[p]
  OBVIOUS
<1>4. p \in Pages
  BY PageKinds
<1>5. CASE p \in Tagged(Device) /\ bcache_read_bytes(p)' = Logged(Desc(Device), p)
  <2>1. \E i \in DOMAIN Desc(Device).tags : Desc(Device).tags[i] = p
    BY <1>2, <1>5 DEF Range
  <2> DEFINE j == CHOOSE i \in DOMAIN Desc(Device).tags : Desc(Device).tags[i] = p
  <2>2. j \in DOMAIN Desc(Device).tags /\ Desc(Device).tags[j] = p
    BY <2>1
  <2>3. Logged(Desc(Device), p) = Desc(Device).sums[j]
    BY DEF Logged
  <2> HIDE DEF j
  <2>4. Desc(Device).sums[j].ver >= stable[p]
    BY <1>2, <1>3, <2>2 DEF AtLeast
  <2> QED BY <1>5, <2>3, <2>4 DEF Ver
<1>6. CASE bcache_read_bytes(p)' = bcache_read_bytes(p)
  BY <1>6 DEF Kept, Ver
<1> QED BY <1>1, <1>4, <1>5, <1>6

\* A version is a number.
LEMMA VerNat == StorageType /\ ControlType => \A p \in Meta : Ver(p) \in Nat
BY VerType, PageKinds
\* So it is in the next state.
LEMMA VerNext == StorageType' /\ ControlType' => (\A p \in Meta : Ver(p) \in Nat)'
BY VerNat, PTL

\* What the file system reads is as new as what was promised.
LEMMA KeptVer ==
  ASSUME Base, Base', Scanning, Kept, Next
  PROVE  \A p \in Meta : Ver(p)' >= stable'[p]
<1> USE DEF Base
<1>m. \A p \in Meta : p \in Pages
  BY PageKinds
<1>v. \A p \in Meta : Ver(p) \in Nat /\ logged[p] \in Nat /\ stable[p] \in Nat
  BY VerType, PageKinds
<1>w. \A p \in Meta : Ver(p)' \in Nat
  <2>1. StorageType' /\ ControlType'
    OBVIOUS
  <2> QED BY <2>1, VerNext, PageKinds
<1>1. CASE Crash
  <2>1. /\ media' \in Survivors
        /\ \A p \in Pages : bcache_read_bytes(p)' = media'[p]
    BY <1>1, CrashEffect
  <2>2. stable' = stable
    BY <1>1 DEF Crash
  <2> QED BY <1>m, <2>1, <2>2 DEF Kept, Keeps, Holds, Ver
<1>2. CASE \E t \in Callers : Closed(t)
  <2>1. PICK t \in Callers : Closed(t)
    BY <1>2
  <2>2. stable' = stable
    BY <2>1 DEF Closed
  <2>3. \A p \in Pages : bcache_read_bytes(p)' = Device[p]
    BY <2>1, CloseEffect, DeviceSurvives
  <2> QED BY <1>m, <2>2, <2>3, DeviceSurvives DEF Kept, Keeps, Holds, Ver
<1>3. CASE \E t \in Callers : CopyStep(t) \/ PartStep(t)
  <2>1. PICK t \in Callers : CopyStep(t) \/ PartStep(t)
    BY <1>3
  <2>2. stable' = stable
    BY <2>1, CopyEffect, PartEffect
  <2> QED BY <2>1, <2>2, CopyKeeps
<1>4. CASE ~Crash /\ \A t \in Callers : ~Closed(t) /\ ~CopyStep(t) /\ ~PartStep(t)
  <2>1. \A p \in Meta : Ver(p)' >= Ver(p)
    BY <1>4, VerRises
  <2>2. \A p \in Meta : Ver(p) >= stable'[p] /\ stable'[p] \in Nat
    <3>1. CASE \E t \in Callers : CommitLowered(t) /\ ok[t]
      <4>1. PICK t \in Callers : CommitLowered(t) /\ ok[t]
        BY <3>1
      <4>2. stable' = logged /\ At(t, "lowered")
        BY <4>1 DEF CommitLowered, CommitOut
      <4> QED BY <1>v, <4>2, LoweredHooked DEF Kept
    <3>2. CASE \A t \in Callers : ~(CommitLowered(t) /\ ok[t])
      BY <1>v, <3>2, StableStep DEF Kept
    <3> QED BY <3>1, <3>2
  <2> QED BY <1>v, <1>w, <2>1, <2>2
<1> QED BY <1>1, <1>2, <1>3, <1>4

\* Only the opening of the log sets the hook.
LEMMA HookedStep ==
  ASSUME Base, Next, Hooked', \A t \in Callers : ~Open(t)
  PROVE  Hooked
<1> USE DEF Base
<1>1. ASSUME NEW t \in Callers, CallerStep(t) PROVE Hooked
  <2>1. CASE StillStep(t)
    BY <2>1, StillFrame
  <2>2. CASE ~StillStep(t) /\ ~Closed(t) /\ ~CopyStep(t) /\ ~PartStep(t) /\ ~MarkStep(t)
    BY <1>1, <2>2, KindPhase, CallerKinds DEF CallerKind, Hooked
  <2>3. CASE Closed(t)
    BY <2>3, KindPhase DEF Hooked
  <2>4. CASE CopyStep(t) \/ MarkStep(t)
    BY <2>4, CopyEffect, MarkEffect DEF Hooked, CopyStep, MarkStep, ReplayPass, RecoverEmpty, mountVars
  <2>5. CASE PartStep(t)
    BY <2>5 DEF PartStep, MountError, Hooked, Refuse
  <2> QED BY <2>1, <2>2, <2>3, <2>4, <2>5
<1>2. ASSUME NEW w \in Workloads, OpBegin(w) PROVE phase' = phase
  BY <1>2 DEF OpBegin, mountVars
<1>3. CASE DataWrite \/ MetaWrite \/ MetaRecord
  BY <1>3 DEF DataWrite, MetaWrite, MetaRecord, mountVars, Hooked
<1>4. CASE EvictPage \/ EvictDone \/ QuarantinePasses
  BY <1>4 DEF EvictPage, EvictDone, QuarantinePasses, jVars, mountVars, Hooked
<1>5. CASE Crash
  BY <1>5 DEF Crash, Forget, Hooked
<1> QED BY <1>1, <1>2, <1>3, <1>4, <1>5 DEF Next, Hooked

\* Only the end of a log write and the opening of the log change what is logged.
LEMMA LoggedStep ==
  ASSUME Base, Scanning, Next, \A t \in Callers : ~Open(t) /\ ~CommitDurable(t)
  PROVE  logged' = logged
<1> USE DEF Base
<1>1. ASSUME NEW t \in Callers, CallerStep(t) PROVE logged' = logged
  <2>1. CASE StillStep(t)
    BY <2>1, StillFrame
  <2>2. CASE SyncWrite(t) \/ FlushStep(t)
    BY <2>2, WriteFrame, FlushFrame
  <2>3. CASE FlagStep(t) \/ LogStep(t) \/ CommitData(t) \/ CommitCheckpoint(t)
    BY <2>3, FlagEffect, LogEffect, DataEffect, ReleaseEffect
  <2>4. CASE MarkStep(t) \/ CopyStep(t) \/ PartStep(t)
    BY <2>4, MarkEffect, CopyEffect, PartEffect
  <2>5. CASE Closed(t)
    BY <2>5 DEF Closed
  <2> QED BY <1>1, <2>1, <2>2, <2>3, <2>4, <2>5, CallerKinds DEF CallerKind
<1>2. ASSUME NEW w \in Workloads, OpBegin(w) PROVE logged' = logged
  BY <1>2 DEF OpBegin
<1>3. CASE DataWrite \/ MetaWrite \/ MetaRecord
  BY <1>3, WriteEffect, RecordEffect
<1>4. CASE EvictPage \/ EvictDone \/ QuarantinePasses \/ Crash
  BY <1>4 DEF EvictPage, EvictDone, QuarantinePasses, Crash, hVars
<1> QED BY <1>1, <1>2, <1>3, <1>4 DEF Next

\* Only a commit that is about to write its commit block makes the log non-empty.
LEMMA StartRises ==
  ASSUME Base, Scanning, Next, Hooked, ~Crash, bcache_read_bytes(JSB)'.start # 0
  PROVE  bcache_read_bytes(JSB).start # 0 \/ \E t \in Callers : CommitStart(t)
<1> USE DEF Base
<1>0. JSB \in Pages /\ JSB \notin Homes /\ SB # JSB
  BY PageKinds, JournalAssumption
<1>s. ASSUME bcache_read_bytes(JSB)' = bcache_read_bytes(JSB) PROVE bcache_read_bytes(JSB).start # 0
  BY <1>s
<1>m. ASSUME NEW T, Mild(T) PROVE bcache_read_bytes(JSB).start # 0
  BY <1>0, <1>m, <1>s DEF Mild
<1>1. ASSUME NEW t \in Callers, CallerStep(t) PROVE bcache_read_bytes(JSB).start # 0 \/ CommitStart(t)
  <2>1. CASE StillStep(t)
    BY <1>m, <2>1, StillStore
  <2>2. CASE SyncWrite(t)
    BY <1>m, <2>2, SyncStore DEF MildStep
  <2>3. CASE FlushStep(t)
    BY <1>m, <2>3, FlushStore
  <2>4. CASE FlagStep(t)
    BY <1>0, <1>s, <2>4, FlagEffect DEF Put
  <2>5. CASE LogStep(t)
    <3>1. LogPut(LogTarget(t), LogBlock(t))
      BY <2>5, LogEffect
    <3>2. CASE LogTarget(t) # JSB
      <4>1. Dev(JSB)' = Dev(JSB)
        BY <1>0, <3>1, <3>2 DEF LogPut
      <4>2. (JSB \in DOMAIN cache' <=> JSB \in DOMAIN cache) /\ (JSB \in DOMAIN cache => cache'[JSB] = cache[JSB])
        BY <3>1, <3>2 DEF LogPut
      <4>3. bcache_read_bytes(JSB)' = bcache_read_bytes(JSB)
        BY <4>1, <4>2 DEF bcache_read_bytes
      <4> QED BY <1>s, <4>3
    <3>3. CASE LogTarget(t) = JSB
      <4>1. bcache_read_bytes(JSB)' = LogBlock(t)
        BY <1>0, <3>1, <3>3 DEF LogPut, bcache_read_bytes
      <4>2. LogPage(head) # JSB /\ LogPage(jbd2_advance_n(head, Len(tx) + 1)) # JSB
        BY BlockTypes
      <4>3. ~At(t, "descriptor") /\ ~At(t, "block")
        BY <3>3, <4>2, LogTargets
      <4>4. ~At(t, "checkpointed")
        BY <4>1, LogTargets, SuperFields
      <4> QED BY <2>5, <4>3, <4>4 DEF LogStep, CommitDescriptor, CommitBlock, CommitEmpty
    <3> QED BY <3>2, <3>3
  <2>6. CASE CommitData(t)
    BY <1>s, <2>6, DataEffect
  <2>7. CASE CommitCheckpoint(t)
    BY <1>0, <1>s, <2>7, ReleaseEffect
  <2>8. ~MarkStep(t) /\ ~CopyStep(t) /\ ~PartStep(t) /\ ~Closed(t)
    BY MarkEffect, CopyEffect, PartEffect, KindPhase DEF Hooked
  <2> QED BY <1>1, <2>1, <2>2, <2>3, <2>4, <2>5, <2>6, <2>7, <2>8, CallerKinds DEF CallerKind
<1>2. ASSUME NEW w \in Workloads, OpBegin(w) PROVE bcache_read_bytes(JSB).start # 0
  BY <1>2, <1>s, BeginEffect
<1>3. CASE DataWrite \/ MetaWrite
  BY <1>0, <1>3, <1>s, WriteEffect DEF Put
<1>4. CASE MetaRecord
  BY <1>0, <1>4, <1>s, RecordEffect
<1>5. CASE EvictPage
  BY <1>5, <1>m, EvictStore DEF MildStep
<1>6. CASE QuarantinePasses
  BY <1>6, <1>m, QuarantineEffect
<1>7. CASE EvictDone
  BY <1>7, <1>m, RecycleStore
<1> QED BY <1>1, <1>2, <1>3, <1>4, <1>5, <1>6, <1>7 DEF Next

\* The superblock that a commit writes leads to its descriptor.
LEMMA StartLeads ==
  ASSUME Base, StorageType', Kept, Hooked, NEW t \in Callers, CommitStart(t), Staged(t)
  PROVE  Leads(Device', logged)
<1> USE DEF Base
<1>1. LogStep(t) /\ At(t, "start")
  BY DEF LogStep, CommitStart
<1>2. LogPut(JSB, Super(head, seq, head))
  BY <1>1, LogEffect, LogTargets
<1>3. LogPage(head) \in LogPages \ {JSB} /\ LogPage(head) \in Pages /\ JSB \in Pages
  BY BlockTypes, PageKinds
<1>4. Device'[JSB] = Super(head, seq, head) /\ Device'[LogPage(head)] = Device[LogPage(head)]
  BY <1>2, <1>3, DeviceAt DEF LogPut
<1>5. Desc(Device') = Device[LogPage(head)]
  BY <1>4, SuperFields DEF Desc
<1>6. AtLeast(Device[LogPage(head)], TxImage) /\ IsLogBlock(Device[LogPage(head)])
  <2>1. Device \in Survivors
    BY DeviceSurvives
  <2>2. LogTop(t)
    BY <1>1 DEF LogTop
  <2> QED BY <1>3, <2>1, <2>2, SurvivorType DEF Staged, PageOK
<1>7. \A p \in Meta : TxImage[p] \in Nat
  BY ImageType, VerType
<1>8. AtLeast(Device[LogPage(head)], logged)
  BY <1>6, <1>7, LoggedFits, AtLeastLess
<1> QED BY <1>5, <1>8 DEF Leads

\* So does the superblock when the commit block is durable.
LEMMA DurableLeads ==
  ASSUME Base, StorageType', SuperStage, NEW t \in Callers, CommitDurable(t), Staged(t)
  PROVE  Leads(Device', TxImage)
<1> USE DEF Base
<1>1. FlushStep(t) /\ At(t, "blockFlush")
  BY DEF FlushStep, CommitDurable
<1>2. Mild({})
  BY <1>1, FlushStore
<1>3. LogPage(head) \in LogPages \ {JSB} /\ LogPage(head) \in Pages /\ JSB \in Pages
  BY BlockTypes, PageKinds
<1>4. Device'[JSB] = Device[JSB] /\ Device'[LogPage(head)] = Device[LogPage(head)]
  BY <1>2, <1>3, DeviceAt DEF Mild
<1>5. Device \in Survivors
  BY DeviceSurvives
<1>6. Device[JSB] = Super(head, seq, head)
  BY <1>1, <1>5 DEF SuperStage, SuperStaged
<1>7. Desc(Device') = Device[LogPage(head)]
  BY <1>4, <1>6, SuperFields DEF Desc
<1>8. AtLeast(Device[LogPage(head)], TxImage)
  BY <1>1, <1>5 DEF Staged, LogTop
<1> QED BY <1>7, <1>8 DEF Leads

\* What is logged is as new as what was promised and no newer than what is read.
LEMMA KeptLogged ==
  ASSUME Base, Base', Scanning, SuperMono, SuperStage, Kept, \A t \in Callers : Staged(t), Next, Hooked'
  PROVE  /\ \A p \in Meta : logged'[p] >= stable'[p] /\ Ver(p)' >= logged'[p]
         /\ bcache_read_bytes(JSB)'.start # 0 => Leads(Device', logged')
<1> USE DEF Base
<1>m. \A p \in Meta : p \in Pages
  BY PageKinds
<1>v. \A p \in Meta : Ver(p) \in Nat /\ logged[p] \in Nat /\ stable[p] \in Nat
  BY VerType, PageKinds
<1>w. \A p \in Meta : Ver(p)' \in Nat
  <2>1. StorageType' /\ ControlType'
    OBVIOUS
  <2> QED BY <2>1, VerNext
<1>1. CASE \E t \in Callers : Open(t)
  <2>1. PICK t \in Callers : Open(t)
    BY <1>1
  <2>2. UNCHANGED <<media, wcache, cache>>
    BY <2>1, StillStore DEF StillStep
  <2>3. logged' = Image /\ stable' = stable /\ bcache_read_bytes(JSB).start = 0
    BY <2>1 DEF Open, Refuse, Hooked
  <2>4. \A p : bcache_read_bytes(p)' = bcache_read_bytes(p)
    BY <2>2 DEF bcache_read_bytes, Dev
  <2>5. \A p \in Meta : logged'[p] = Ver(p) /\ Ver(p)' = Ver(p)
    BY <2>3, <2>4 DEF Image, Ver
  <2> QED BY <1>v, <2>3, <2>4, <2>5 DEF Kept
<1>2. CASE \E t \in Callers : CommitDurable(t)
  <2>1. PICK t \in Callers : CommitDurable(t)
    BY <1>2
  <2>2. FlushStep(t) /\ logged' = TxImage /\ stable' = stable
    BY <2>1 DEF FlushStep, CommitDurable
  <2>3. Mild({}) /\ Hooked
    BY <2>1, <2>2, FlushStore, KindPhase
  <2>4. \A p \in Meta : Ver(p)' = Ver(p)
    BY <1>m, <2>3 DEF Mild, Ver
  <2>5. \A p \in Meta : TxImage[p] >= stable[p] /\ Ver(p) >= TxImage[p]
    <3>1. \A p \in Meta : TxImage[p] >= stable[p]
      BY <2>3, StableFits
    <3>2. \A p \in Meta : TxImage[p] = Ver(p) \/ TxImage[p] = logged[p]
      BY DEF TxImage, Image, Ver
    <3> QED BY <1>v, <2>3, <3>1, <3>2 DEF Kept
  <2> QED BY <2>1, <2>2, <2>4, <2>5, DurableLeads
<1>3. CASE \A t \in Callers : ~Open(t) /\ ~CommitDurable(t)
  <2>1. Hooked /\ ~Crash
    BY <1>3, HookedStep DEF Crash, Forget, Hooked
  <2>2. logged' = logged
    BY <1>3, LoggedStep
  <2>3. \A t \in Callers : ~Closed(t) /\ ~CopyStep(t) /\ ~PartStep(t)
    BY <2>1, CopyEffect, PartEffect, KindPhase DEF Hooked
  <2>4. \A p \in Meta : Ver(p)' >= Ver(p)
    BY <2>1, <2>3, VerRises
  <2>5. stable' = stable \/ stable' = logged
    <3>1. ASSUME NEW t \in Callers, CommitLowered(t) /\ ok[t] PROVE stable' = logged
      BY <3>1 DEF CommitLowered, CommitOut
    <3> QED BY <3>1, StableStep
  <2>6. \A p \in Meta : logged[p] >= stable'[p] /\ Ver(p)' >= logged[p]
    <3>1. \A p \in Meta : logged[p] >= stable[p] /\ Ver(p) >= logged[p]
      BY <2>1 DEF Kept
    <3>2. CASE stable' = stable
      BY <1>v, <1>w, <2>4, <3>1, <3>2
    <3>3. CASE stable' = logged
      BY <1>v, <1>w, <2>4, <3>1, <3>3
    <3> QED BY <2>5, <3>2, <3>3
  <2>7. ASSUME bcache_read_bytes(JSB)'.start # 0 PROVE Leads(Device', logged)
    <3>1. CASE bcache_read_bytes(JSB).start # 0
      <4>1. Leads(Device, logged)
        BY <2>1, <3>1 DEF Kept
      <4>2. Delivers(logged)
        BY <2>1, LoggedFits, Delivered
      <4> QED BY <4>1, <4>2, Delivery
    <3>2. ASSUME NEW t \in Callers, CommitStart(t) PROVE Leads(Device', logged)
      BY <2>1, <3>2, StartLeads
    <3> QED BY <2>1, <2>7, <3>1, <3>2, StartRises
  <2> QED BY <2>2, <2>6, <2>7
<1> QED BY <1>1, <1>2, <1>3

\* Every step keeps the promise.
LEMMA KeptStep ==
  ASSUME Base, Base', Scanning, SuperMono, SuperStage, Kept, \A t \in Callers : Staged(t),
         \A t \in Callers : Lowering(t), Next
  PROVE  Kept'
<1>1. StorageType'
  BY DEF Base
<1>2. Keeps(stable)'
  BY <1>1, KeptStable
<1>3. \A p \in Meta : Ver(p)' >= stable'[p]
  BY KeptVer
<1>4. Hooked' => /\ \A p \in Meta : logged'[p] >= stable'[p] /\ Ver(p)' >= logged'[p]
                 /\ bcache_read_bytes(JSB)'.start # 0 => Leads(Device', logged')
  BY KeptLogged
<1> QED BY <1>2, <1>3, <1>4 DEF Kept

\* The invariant from which a commit is durable.
DurableInv ==
  /\ JournalInv
  /\ Kept
  /\ \A t \in Callers : Staged(t) /\ Lowering(t)

\* It holds at first.
LEMMA InitDurable == Init => DurableInv
<1> SUFFICES ASSUME Init PROVE DurableInv
  OBVIOUS
<1>1. JournalInv
  BY InitInv
<1>2. Base
  BY <1>1 DEF JournalInv
<1> USE DEF Init
<1>0. DOMAIN cache = {} /\ DOMAIN wcache = {}
  BY Nil
<1>3. \A m \in Survivors : \A p \in Pages : m[p] = media[p]
  BY <1>0, <1>2, SurvivorPages DEF Base, StorageType
<1>4. JSB \in Pages /\ \A p \in Meta : p \in Pages /\ p # JSB /\ p \notin LogPages
  BY PageKinds
<1>5. media[JSB] = Super(0, 1, 1) /\ media[JSB].start = 0
  BY <1>4, SuperFields
<1>6. \A p \in Meta : media[p] = [ver |-> 0, rec |-> FALSE]
  BY <1>4
<1>7. \A p \in Meta : media[p].ver = 0 /\ stable[p] = 0 /\ logged[p] = 0
  <2>1. \A p \in Meta : stable[p] = 0 /\ logged[p] = 0
    OBVIOUS
  <2> HIDE DEF Init
  <2> QED BY <1>6, <2>1
<1>8. \A p \in Pages : bcache_read_bytes(p) = media[p]
  BY <1>0 DEF bcache_read_bytes, Dev
<1>9. \A t \in Callers : stack[t] = <<>> /\ DOMAIN stack[t] = {} /\ \A l : ~At(t, l)
  BY Nil DEF At
<1> HIDE DEF Init
<1>10. Keeps(stable)
  BY <1>3, <1>4, <1>5, <1>7 DEF Keeps, Holds, Leads
<1>11. Kept
  BY <1>4, <1>5, <1>7, <1>8, <1>10 DEF Kept, Ver
<1>12. \A t \in Callers : Staged(t) /\ Lowering(t)
  BY <1>9 DEF Staged, LogTop, Lowering
<1> QED BY <1>1, <1>11, <1>12 DEF DurableInv

\* Every step keeps it.
LEMMA DurableStep ==
  ASSUME DurableInv, [Next]_vars
  PROVE  DurableInv'
<1>1. JournalInv /\ JournalInv'
  BY InvStep DEF DurableInv
<1>2. Base /\ Base' /\ Scanning /\ SuperMono /\ SuperStage /\ HoldsMatchTx
  BY <1>1 DEF JournalInv, LogInv, Pins
<1>3. Kept /\ (\A t \in Callers : Staged(t)) /\ (\A t \in Callers : Lowering(t))
  BY DEF DurableInv
<1>4. CASE Next
  <2>1. StorageType'
    BY <1>2 DEF Base
  <2>2. Kept'
    BY <1>2, <1>3, <1>4, KeptStep
  <2>3. \A t \in Callers : Staged(t)'
    BY <1>2, <1>3, <1>4, <2>1, StagedStep
  <2>4. \A t \in Callers : Lowering(t)'
    BY <1>2, <1>3, <1>4, LoweringStep
  <2> QED BY <1>1, <2>2, <2>3, <2>4 DEF DurableInv
<1>5. CASE UNCHANGED vars
  <2> USE DEF vars, bcVars, jVars, callVars, ejVars, hookVars, opVars, mountVars, hVars
  <2>0. /\ \A p : Dev(p)' = Dev(p) /\ bcache_read_bytes(p)' = bcache_read_bytes(p)
        /\ Device' = Device /\ Survivors' = Survivors
    BY <1>5, StoreStutter
  <2>1. UNCHANGED <<stack, ok, tx, logged, stable, head, phase>>
    BY <1>5
  <2>2. /\ \A t, l : At(t, l)' <=> At(t, l)
        /\ \A t : (Under(t)' <=> Under(t)) /\ (LogTop(t)' <=> LogTop(t))
    BY <2>1 DEF At, Top, Under, LogTop
  <2>3. TxImage' = TxImage /\ LogPage(head)' = LogPage(head)
    BY <2>0, <2>1 DEF TxImage, Image, LogPage, Range
  <2>4. /\ Keeps(stable)' <=> Keeps(stable)
        /\ Keeps(logged)' <=> Keeps(logged)
        /\ Holds(Device, logged)' <=> Holds(Device, logged)
        /\ Leads(Device, logged)' <=> Leads(Device, logged)
    BY <2>0, <2>1 DEF Keeps, Holds, Leads, Desc, AtLeast
  <2>5. Kept'
    BY <1>3, <2>0, <2>1, <2>4 DEF Kept, Ver, Hooked
  <2>6. \A t \in Callers : Staged(t)'
    BY <1>3, <2>0, <2>2, <2>3 DEF Staged
  <2>7. \A t \in Callers : Lowering(t)'
    BY <1>3, <2>1, <2>2, <2>4 DEF Lowering
  <2> QED BY <1>1, <2>5, <2>6, <2>7 DEF DurableInv
<1> QED BY <1>4, <1>5

\* A commit that returned success is on the device or in the log, in every state and on
\* every survivor of a power loss.
THEOREM DurableInvariance == Spec => []DurableInv
BY InitDurable, DurableStep, PTL DEF Spec

\* What ext4_journal_commit() reported as done is there after every later mount, whatever
\* was evicted, failed, lost with the power or replayed twice in between.
THEOREM CommitsAreDurable == Spec => DurableCommits
<1>1. DurableInv /\ [Next]_vars => [Mounts => \A p \in Meta : Image[p] >= stable[p]]_vars
  <2> SUFFICES ASSUME DurableInv, NEW p \in Meta PROVE Image[p] >= stable[p]
    OBVIOUS
  <2> QED BY DEF DurableInv, Kept, Image, Ver
<1> QED BY <1>1, DurableInvariance, PTL DEF Spec, DurableCommits
=============================================================================
