---------------------------- MODULE BlockCache ----------------------------
(***************************************************************************)
(* The page half of the block cache (kernel/fs/block_cache.c) over a       *)
(* device with a volatile write cache.  A page is dirty until a write      *)
(* hands it to the device, and durable only after a device flush; a power  *)
(* loss keeps any subset of what the device had accepted but not flushed.  *)
(* The journal pins pages with a hold.  Module Journal calls these steps.  *)
(***************************************************************************)
EXTENDS Integers, FiniteSets, Sequences, Functions

CONSTANTS
  Pages,        \* the pages of the device the file system touches, by number
  MaxMishaps    \* bound on device errors, recycled pages and power losses together

ASSUME BlockCacheAssumption == Pages \subseteq Nat /\ MaxMishaps \in Nat

VARIABLES
  media,        \* page -> contents that survive a power loss
  wcache,       \* page -> contents accepted by the device, not yet flushed
  cache,        \* resident page -> [data, dirty, held]
  evicting,     \* the page off the hash while its victim's write is under way
  quarantined,  \* write_quarantine_until has not passed
  faults,       \* device errors so far
  mishaps       \* device errors, recycled pages and power losses so far

bcVars == <<media, wcache, cache, evicting, quarantined, faults, mishaps>>

Mishap == mishaps < MaxMishaps /\ mishaps' = mishaps + 1
Fault == Mishap /\ faults' = faults + 1

\* The function g with the values of f where f has one.
Over(f, g) == [p \in DOMAIN f \cup DOMAIN g |-> IF p \in DOMAIN f THEN f[p] ELSE g[p]]

\* What a device read returns: its own write cache is coherent.
Dev(p) == IF p \in DOMAIN wcache THEN wcache[p] ELSE media[p]
Device == Over(wcache, media)

\* What a power loss may leave: of the unflushed writes the device kept some.
Survivors == {Over(Restrict(wcache, S), media) : S \in SUBSET DOMAIN wcache}

bcache_read_bytes(p) == IF p \in DOMAIN cache THEN cache[p].data ELSE Dev(p)

\* bcache_write_bytes(): the page becomes (or stays) resident and dirty.  A miss on
\* the page being evicted waits in pcache_get(): see Writable.
bcache_write_bytes(c, p, v) ==
  Over([q \in {p} |-> [data |-> v, dirty |-> TRUE, held |-> p \in DOMAIN c /\ c[p].held]], c)

Writable(p) == p \notin evicting

\* Holding a page that is not resident is a no-op.
bcache_hold_page(c, p) == [q \in DOMAIN c |-> [c[q] EXCEPT !.held = @ \/ q = p]]

bcache_release_holds(c) == [q \in DOMAIN c |-> [c[q] EXCEPT !.held = FALSE]]

bcache_invalidate_page(c, p) == Restrict(c, DOMAIN c \ {p})

\* The pages one bcache_sync_common() writes.  The scoped mode is taken for a
\* selection that covers every page: the journal decides before it runs.
SyncSelection(mode) ==
  {p \in DOMAIN cache : cache[p].dirty /\ ((mode = "HELD") <=> cache[p].held)}

\* The device has the pages of S, as the cache holds them.
Accepted(S) == Over([p \in S |-> cache[p].data], wcache)

\* Hand the pages of S to the device and clear their dirty bits.  (A page
\* re-dirtied during the write keeps its bit: dirty_gen.  The whole step is
\* under writeback_lock and the copies are taken under bc->lock.)
WritePages(S) ==
  /\ wcache' = Accepted(S)
  /\ cache' = [p \in DOMAIN cache |-> [cache[p] EXCEPT !.dirty = @ /\ p \notin S]]
  /\ UNCHANGED <<media, evicting, quarantined, faults, mishaps>>

\* A write fails: the pages before it in the pool reached the device, the
\* others stay dirty, and the cache stops trying for a while.
WritePagesFail(S) ==
  /\ Fault
  /\ \E T \in SUBSET S :
       /\ T # S
       /\ wcache' = Accepted(T)
       /\ cache' = [p \in DOMAIN cache |-> [cache[p] EXCEPT !.dirty = @ /\ p \notin T]]
  /\ quarantined' = TRUE
  /\ UNCHANGED <<media, evicting>>

DevFlush ==
  /\ media' = Device
  /\ wcache' = <<>>
  /\ UNCHANGED <<cache, evicting, quarantined, faults, mishaps>>

\* Unbuffered write of one page; the cached image of it is dropped.
DevWrite(p, v) ==
  /\ wcache' = Over([q \in {p} |-> v], wcache)
  /\ cache' = bcache_invalidate_page(cache, p)
  /\ UNCHANGED <<media, evicting, quarantined, faults, mishaps>>

\* A device error that leaves no trace but the error itself.
DevError ==
  /\ Fault
  /\ UNCHANGED <<media, wcache, cache, evicting, quarantined>>

\* pcache_flush_run(): a dirty victim takes the dirty pages that follow it on
\* the disk along, whatever their hold says.
FlushRun(p) ==
  IF ~cache[p].dirty THEN {}
  ELSE {q \in Pages : q >= p /\ \A r \in p..q : r \in DOMAIN cache /\ cache[r].dirty}

\* pcache_evict_locked(): an unreferenced, unheld page; dirty ones are left
\* alone while the device is in quarantine.  A miss holds writeback_lock for
\* writing from here to the end of the victim's write.
Evictable(p) == evicting = {} /\ ~cache[p].held /\ ~(quarantined /\ cache[p].dirty)

\* The victim leaves the hash and its run is written, bc->lock dropped.  Its
\* entry is still valid: readers find the contents they would wait for, writers
\* wait, and bcache_hold_page(), which scans the pool, can still hold it.
Evict(p) ==
  /\ Evictable(p)
  /\ Mishap
  /\ LET S == FlushRun(p) IN
       /\ wcache' = Accepted(S)
       /\ cache' = [q \in DOMAIN cache |-> [cache[q] EXCEPT !.dirty = @ /\ q \notin S]]
  /\ evicting' = {p}
  /\ UNCHANGED <<media, quarantined, faults>>

\* The write of the run failed: the victim is put back, dirty.
EvictFail(p) ==
  /\ Evictable(p)
  /\ cache[p].dirty
  /\ Fault
  /\ quarantined' = TRUE
  /\ UNCHANGED <<media, wcache, cache, evicting>>

\* The entry goes to the page whose miss this was, one of Q, and its hold bit with
\* it.  (A page only read is otherwise left out of cache: it is clean and unheld.)
EvictEnd(Q) ==
  LET rest == Restrict(cache, DOMAIN cache \ evicting) IN
  /\ evicting # {}
  /\ \/ cache' = rest
     \/ /\ \E p \in evicting \cap DOMAIN cache : cache[p].held
        /\ \E q \in Q \ DOMAIN cache :
             cache' = Over([r \in {q} |-> [data |-> Dev(q), dirty |-> FALSE, held |-> TRUE]],
                           rest)
  /\ evicting' = {}
  /\ UNCHANGED <<media, wcache, quarantined, faults, mishaps>>

QuarantineEnds ==
  /\ quarantined
  /\ quarantined' = FALSE
  /\ UNCHANGED <<media, wcache, cache, evicting, faults, mishaps>>

\* Memory is gone.
PowerLoss ==
  /\ Mishap
  /\ media' \in Survivors
  /\ wcache' = <<>>
  /\ cache' = <<>>
  /\ evicting' = {}
  /\ quarantined' = FALSE
  /\ UNCHANGED faults
=============================================================================
