------------------------------ MODULE Journal ------------------------------
(***************************************************************************)
(* ext4's ordered-mode JBD2 journal (kernel/fs/diskfs/ext4_journal.c):     *)
(* metadata writes joining the open transaction, the commit sequence, the  *)
(* pre-sync hook through which sync() and fsync() reach it, power loss at  *)
(* any point, and recovery at the next mount.                              *)
(*                                                                         *)
(* A metadata or data page is [ver, rec]: the number of the last operation *)
(* it reflects and, in the superblock page, the needs_recovery bit.  A log *)
(* block is a descriptor, a data block or a commit block; a checksum is    *)
(* modelled by what it is computed from.  Log blocks written by other      *)
(* implementations (revoke blocks, several descriptors) are left out.      *)
(***************************************************************************)
EXTENDS BlockCache

CONSTANTS
  Callers,      \* tasks that call sync(), fsync() and umount()
  SB,           \* page of the superblock: a metadata page
  Meta,         \* metadata pages, SB among them
  Data,         \* a file's data page
  Zero,         \* as an item of an operation: ext4_alloc_block() zeroes the data page
  JSB,          \* page of the journal superblock, log block 0
  LogLen,       \* log blocks 1..LogLen are the pages after JSB
  Workloads,    \* sequences of operations; an operation is the items it writes, in order
  TxCapacity,   \* JBD2_MAX_TAGS_PER_DESCRIPTOR
  NoTask

LogPages == {JSB + n : n \in 0..LogLen}

\* What an operation writes: pages, and the data page through the journal.
Items == Meta \cup {Data, Zero}
PageOf(i) == IF i = Zero THEN Data ELSE i

ASSUME JournalAssumption ==
  /\ SB \in Meta /\ Data \notin Meta /\ Zero \notin Meta \cup {Data}
  /\ JSB \in Nat /\ (Meta \cup {Data}) \cap LogPages = {}
  /\ Pages = Meta \cup {Data} \cup LogPages
  /\ NoTask \notin Callers /\ "op" \notin Callers /\ NoTask # "op"
  /\ TxCapacity \in Nat \ {0}
  \* Two transactions fit: mke2fs makes no log of fewer than 1024 blocks.
  /\ LogLen \in Nat /\ LogLen >= 2 * (TxCapacity + 2)
  /\ Workloads \subseteq Seq(Seq(Items) \ {<<>>})
  \* What writes a page twice counts as two operations.
  /\ \A w \in Workloads : \A k \in DOMAIN w : \A i, j \in DOMAIN w[k] :
       PageOf(w[k][i]) = PageOf(w[k][j]) => i = j

VARIABLES
  phase,        \* "off", "mounting", "mounted", "closing", "unmounting", "refused"
  stack,        \* caller -> call stack, innermost last: [pc, mode]
  ok,           \* caller -> the last return value was not an error
  lock,         \* ej->lock, recursive: [owner, depth]
  tx,           \* ej->tx: pages of the open transaction
  recover_flag, \* ej->recover_flag
  head, seq,    \* ej->head, ej->j.sequence
  hookDepth,    \* bc->sync_hook_depth
  tmp,          \* caller -> the value its -- of the depth has loaded
  rec,          \* recovery's jbd2_t: the end of the log so far (seq, head), the
                \* transaction to replay next (tid, at); device errors before it
  op,           \* operation in progress: its remaining pages
  writing       \* the operation is between the cache write and the hold

\* History: hist numbers the versions, the properties read the rest.
VARIABLES
  hist,         \* operations begun; an operation's index is its version
  logged,       \* Meta -> version under the last commit block known durable
  loggedData,   \* version of the data page there, if the log has it
  attempts,     \* images whose commit block may have survived a failed commit
  stable,       \* Meta -> version a successful commit has promised
  exposed,      \* metadata went home unlogged, or the log let go too early
  torn          \* file data changed under a commit's checksum, or a read error
                \* was taken for the end of the log

callVars == <<stack, ok>>
ejVars == <<lock, tx, recover_flag, head, seq>>
hookVars == <<hookDepth, tmp>>
opVars == <<op, writing>>
mountVars == <<phase, rec>>
jVars == <<callVars, ejVars, hookVars, opVars, mountVars>>
hVars == <<hist, logged, loggedData, attempts, stable, exposed, torn>>
vars == <<bcVars, jVars, hVars>>

-----------------------------------------------------------------------------
(* The log. *)

LogPage(n) == JSB + n

\* The block k after block n, for k up to LogLen.
jbd2_advance_n(n, k) == IF n + k <= LogLen THEN n + k ELSE n + k - LogLen

Descriptor(pages) == [type |-> "descriptor", seq |-> seq, tags |-> pages,
                      sums |-> [i \in DOMAIN pages |-> bcache_read_bytes(pages[i])]]
Commit == [type |-> "commit", seq |-> seq]
Super(start, s, h) == [type |-> "super", start |-> start, seq |-> s, head |-> h]

\* The version of every metadata page as the file system reads it.
Image == [p \in Meta |-> bcache_read_bytes(p).ver]
\* The image the open transaction leads to.
TxImage == [p \in Meta |-> IF p \in Range(tx) THEN Image[p] ELSE logged[p]]

\* On m a whole transaction with sequence s starts at log block n: a descriptor
\* with at least one tag (a descriptor without tags reads as a tag whose
\* checksum fails), the data its tags name, and the commit block.
TxAt(m, n, s) ==
  LET d == m[LogPage(n)] IN
  /\ d.type = "descriptor" /\ d.seq = s /\ d.tags # <<>>
  /\ \A i \in DOMAIN d.tags :
       m[LogPage(jbd2_advance_n(n, i))] = [type |-> "data", page |-> d.sums[i]]
  /\ m[LogPage(jbd2_advance_n(n, Len(d.tags) + 1))] = [type |-> "commit", seq |-> s]

\* On m the log block after the transaction that starts at block n.
Past(m, n) == jbd2_advance_n(n, Len(m[LogPage(n)].tags) + 2)

\* The block that descriptor d logs for page p.
Logged(d, p) == d.sums[CHOOSE i \in DOMAIN d.tags : d.tags[i] = p]

\* The cache after jbd2_process_descriptor() has replayed the first k tags of
\* descriptor d: blind copies of the blocks they name.
Replayed(d, k) ==
  Over([p \in {d.tags[i] : i \in 1..k} |->
          [data |-> Logged(d, p), dirty |-> TRUE, held |-> FALSE]],
       cache)

\* ext4_set_recover_feature(): the superblock page, through the cache.
SetRecoverFeature(b) ==
  /\ Writable(SB)
  /\ cache' = bcache_write_bytes(cache, SB, [bcache_read_bytes(SB) EXCEPT !.rec = b])

-----------------------------------------------------------------------------
(* Calls.  The innermost frame is the last of the stack; the result of the  *)
(* outermost one is the system call's and is not read again.                *)

Top(t) == stack[t][Len(stack[t])]
At(t, l) == stack[t] # <<>> /\ Top(t).pc = l
Frame(l, m) == [pc |-> l, mode |-> m]
Mode(t) == Top(t).mode
Below(t) == SubSeq(stack[t], 1, Len(stack[t]) - 1)
Become(t, f) == stack' = [stack EXCEPT ![t] = Append(Below(t), f)]
Goto(t, l) == Become(t, Frame(l, Mode(t)))
Call(t, l, f) ==
  stack' = [stack EXCEPT ![t] = Append(Append(Below(t), Frame(l, Mode(t))), f)]
Return(t, r) == /\ stack' = [stack EXCEPT ![t] = Below(t)]
                /\ ok' = [ok EXCEPT ![t] = r \/ Len(stack[t]) = 1]

Sync(m) == Frame("sync", m)
CommitCall == Frame("commit", "")

Locked(t) == [owner |-> t, depth |-> lock.depth + 1]

\* The definitions named Bug... are plausible mistakes in the code of the
\* definition that follows: a property must tell them from it.

\* The first unlock of a nested pair gives the mutex away.
BugUnlocked == [owner |-> NoTask, depth |-> lock.depth - 1]

Unlocked == IF lock.depth = 1 THEN [owner |-> NoTask, depth |-> 0]
            ELSE [lock EXCEPT !.depth = @ - 1]

\* Among the pages S that go home is metadata newer than its last durable commit
\* block, or a page between its write and its hold.  Recovery writes what the log
\* holds, as far as that is durable.
Uncovered(S) ==
  IF phase \in {"mounting", "refused"}
  THEN S \cap Meta # {} /\ DOMAIN wcache \cap LogPages # {}
  ELSE \/ \E p \in S \cap Meta : cache[p].data.ver > logged[p]
       \/ writing /\ PageOf(Head(op)) \in S

\* On media m the log still leads to the last committed transaction (the one
\* before seq), or that transaction's pages are home.
HomeOrLogged(m) == \/ m[JSB].start # 0 /\ m[JSB].seq < seq
                   \/ /\ \A p \in Meta : m[p].ver >= logged[p]
                      /\ m[Data].ver >= loggedData

-----------------------------------------------------------------------------
(* File-system operations.  One runs at a time, which is a bound of the     *)
(* model: namespace operations take metadata_lock, ext4_fwrite() does not.  *)

OpBegin(w) ==
  /\ phase = "mounted" /\ op = <<>>
  /\ Len(hist) < Len(w) /\ hist = SubSeq(w, 1, Len(hist))
  /\ op' = w[Len(hist) + 1]
  /\ hist' = Append(hist, op')
  /\ UNCHANGED <<bcVars, callVars, ejVars, hookVars, mountVars, writing, logged, loggedData,
                 attempts, stable, exposed, torn>>

\* A commit has taken its checksums and not yet copied the pages to the log.
Copying == \E t \in Callers : At(t, "descriptorFlush") \/ At(t, "data")

\* ext4_fwrite() puts file data into the cache without ej->lock, with no hold and
\* no record of its own; a page that was just zeroed is in the transaction already.
DataWrite ==
  /\ op # <<>> /\ Head(op) = Data /\ Writable(Data)
  /\ cache' = bcache_write_bytes(cache, Data, [ver |-> Len(hist), rec |-> FALSE])
  /\ op' = Tail(op)
  /\ torn' = (torn \/ (Data \in Range(tx) /\ Copying))
  /\ UNCHANGED <<callVars, ejVars, hookVars, mountVars, hist, logged, loggedData, attempts, stable,
                 exposed, media, wcache, evicting, quarantined, faults, mishaps, writing>>

\* ext4_journal_meta_write() of one page, up to the cache write, under ej->lock.
MetaWrite ==
  /\ op # <<>> /\ Head(op) # Data /\ ~writing /\ lock.owner = NoTask
  /\ Writable(PageOf(Head(op)))
  /\ lock' = [owner |-> "op", depth |-> 1]
  /\ writing' = TRUE
  /\ LET p == PageOf(Head(op)) IN
     cache' = bcache_write_bytes(cache, p, [bcache_read_bytes(p) EXCEPT !.ver = Len(hist)])
  /\ UNCHANGED <<callVars, hookVars, mountVars, hVars, media, wcache, evicting,
                 quarantined, faults, mishaps, tx, recover_flag, head, seq, op>>

\* The hold and jbd2_record_block().  A transaction that cannot grow is
\* dropped with every hold, and the operation fails.
MetaRecord ==
  /\ writing
  /\ LET p == PageOf(Head(op))
         fits == p \in Range(tx) \/ Len(tx) < TxCapacity
     IN /\ op' = IF fits THEN Tail(op) ELSE <<>>
        /\ tx' = IF ~fits THEN <<>> ELSE IF p \in Range(tx) THEN tx ELSE Append(tx, p)
        /\ cache' = IF fits THEN bcache_hold_page(cache, p) ELSE bcache_release_holds(cache)
  /\ writing' = FALSE
  /\ lock' = Unlocked
  /\ UNCHANGED <<callVars, hookVars, mountVars, hVars, media, wcache, evicting, quarantined,
                 faults, mishaps, recover_flag, head, seq>>

-----------------------------------------------------------------------------
(* bcache_sync_common() *)

\* bc->sync_hook is set from mount to ext4_unmount().
Hooked == phase \in {"mounted", "closing"}

\* The hook runs at depth 0.  The test and the ++ read the depth once, the --
\* reads it again; none of it is locked.
SyncTest(t) ==
  /\ At(t, "sync")
  /\ Goto(t, IF Hooked /\ hookDepth = 0 THEN "hook" ELSE "write")
  /\ UNCHANGED <<bcVars, ejVars, hookVars, opVars, mountVars, hVars, ok>>

HookCall(t) ==
  /\ At(t, "hook")
  /\ hookDepth' = 1
  /\ Call(t, "hooked", CommitCall)
  /\ UNCHANGED <<bcVars, ejVars, opVars, mountVars, hVars, ok, tmp>>

HookLoad(t) ==
  /\ At(t, "hooked")
  /\ Goto(t, "hookDec")
  /\ tmp' = [tmp EXCEPT ![t] = hookDepth]
  /\ UNCHANGED <<bcVars, ejVars, opVars, mountVars, hVars, ok, hookDepth>>

HookReturn(t) ==
  /\ At(t, "hookDec")
  /\ hookDepth' = tmp[t] - 1
  /\ tmp' = [tmp EXCEPT ![t] = 0]
  /\ IF ok[t] THEN Goto(t, "write") /\ UNCHANGED ok ELSE Return(t, FALSE)
  /\ UNCHANGED <<bcVars, ejVars, opVars, mountVars, hVars>>

\* The whole pass is under writeback_lock.
SyncWrite(t) ==
  /\ At(t, "write")
  /\ IF quarantined
     THEN Return(t, FALSE) /\ UNCHANGED <<bcVars, exposed>>
     ELSE LET S == SyncSelection(Mode(t)) IN
          /\ evicting = {}
          /\ \/ /\ WritePages(S)
                /\ Goto(t, "flush")
                /\ UNCHANGED ok
             \/ /\ WritePagesFail(S)
                /\ Return(t, FALSE)
          /\ exposed' = (exposed \/ Uncovered(S))
  /\ UNCHANGED <<ejVars, hookVars, opVars, mountVars, hist, logged, loggedData, attempts, stable,
                 torn>>

SyncFlush(t) ==
  /\ At(t, "flush")
  /\ \/ DevFlush /\ Return(t, TRUE)
     \/ DevError /\ Return(t, FALSE)
  /\ UNCHANGED <<ejVars, hookVars, opVars, mountVars, hVars>>

-----------------------------------------------------------------------------
(* ext4_journal_commit() *)

\* The way out: the mutex is released, and success is a promise.
CommitOut(t, r) ==
  /\ lock' = Unlocked
  /\ Return(t, r)
  /\ stable' = IF r THEN logged ELSE stable

\* The data is not forced out before the log is written.
BugCommitBegin(t) ==
  /\ At(t, "commit")
  /\ lock.owner \in {NoTask, t}
  /\ \/ /\ tx = <<>>
        /\ Return(t, TRUE)
        /\ UNCHANGED lock
     \/ /\ tx # <<>>
        /\ lock' = Locked(t)
        /\ Goto(t, "dataHome")
        /\ ok' = [ok EXCEPT ![t] = TRUE]
  /\ UNCHANGED <<bcVars, hookVars, opVars, mountVars, hVars, tx, recover_flag, head, seq>>

\* 1. Force the data out first; with no transaction, finish lowering the flag.
CommitBegin(t) ==
  /\ At(t, "commit")
  /\ lock.owner \in {NoTask, t}
  /\ \/ /\ tx = <<>> /\ ~recover_flag
        /\ Return(t, TRUE)
        /\ UNCHANGED <<lock, cache, stable>>
     \/ /\ tx = <<>> /\ recover_flag
        /\ lock' = Locked(t)
        /\ SetRecoverFeature(FALSE)
        /\ Call(t, "lowered", Sync("ALL"))
        /\ UNCHANGED <<ok, stable>>
     \/ /\ tx # <<>>
        /\ lock' = Locked(t)
        /\ Call(t, "dataHome", Sync("ALL"))
        /\ UNCHANGED <<ok, stable, cache>>
  /\ UNCHANGED <<hookVars, opVars, mountVars, media, wcache, evicting, quarantined, faults, mishaps, tx,
                 recover_flag, head, seq, hist, logged, loggedData, attempts, exposed, torn>>

\* The last step of both ways: the flag is down if the sync succeeded.
CommitLowered(t) ==
  /\ At(t, "lowered")
  /\ recover_flag' = IF ok[t] THEN FALSE ELSE recover_flag
  /\ CommitOut(t, ok[t])
  /\ UNCHANGED <<bcVars, hookVars, opVars, mountVars, tx, head, seq, hist, logged, loggedData,
                 attempts, exposed, torn>>

\* 2. Raise the flag.
CommitRaise(t) ==
  /\ At(t, "dataHome")
  /\ \/ ~ok[t] /\ CommitOut(t, FALSE) /\ UNCHANGED cache
     \/ ok[t] /\ recover_flag /\ Goto(t, "descriptor") /\ UNCHANGED <<cache, lock, ok,
                                                                      stable>>
     \/ /\ ok[t] /\ ~recover_flag
        /\ SetRecoverFeature(TRUE)
        /\ Call(t, "raised", Sync("ALL"))
        /\ UNCHANGED <<lock, ok, stable>>
  /\ UNCHANGED <<hookVars, opVars, mountVars, media, wcache, evicting, quarantined, faults, mishaps, tx,
                 recover_flag, head, seq, hist, logged, loggedData, attempts, exposed, torn>>

CommitRaised(t) ==
  /\ At(t, "raised")
  /\ \/ ~ok[t] /\ CommitOut(t, FALSE) /\ UNCHANGED recover_flag
     \/ /\ ok[t]
        /\ recover_flag' = TRUE
        /\ Goto(t, "descriptor")
        /\ UNCHANGED <<lock, ok, stable>>
  /\ UNCHANGED <<bcVars, hookVars, opVars, mountVars, tx, head, seq, hist, logged, loggedData,
                 attempts, exposed, torn>>

\* 3 and 4. The writes that bypass the cache, each followed by a flush.
\* (A failed attempt may have left this transaction's commit block behind.)
CommitDescriptor(t) ==
  /\ At(t, "descriptor")
  /\ DevWrite(LogPage(head), Descriptor(tx))
  /\ Goto(t, "descriptorFlush")
  /\ attempts' = IF Dev(LogPage(jbd2_advance_n(head, Len(tx) + 1))) = Commit
                 THEN attempts \cup {TxImage} ELSE attempts
  /\ UNCHANGED <<ejVars, hookVars, opVars, mountVars, hist, logged, loggedData, stable, exposed, torn, ok>>

\* The first k data blocks, each the image of a page of the transaction.
LogData(k) ==
  [n \in {LogPage(jbd2_advance_n(head, i)) : i \in 1..k} |->
     [type |-> "data",
      page |-> bcache_read_bytes(tx[CHOOSE i \in 1..k :
                                      LogPage(jbd2_advance_n(head, i)) = n])]]

\* One write after the other; when one fails those before it are with the device.
CommitData(t) ==
  /\ At(t, "data")
  /\ \/ /\ wcache' = Over(LogData(Len(tx)), wcache)
        /\ Goto(t, "dataFlush")
        /\ UNCHANGED <<lock, ok, stable, faults, mishaps>>
     \/ /\ Fault
        /\ \E k \in 0..(Len(tx) - 1) : wcache' = Over(LogData(k), wcache)
        /\ CommitOut(t, FALSE)
  /\ UNCHANGED <<hookVars, opVars, mountVars, media, cache, evicting, quarantined, tx,
                 recover_flag, head, seq, hist, logged, loggedData, attempts, exposed, torn>>

CommitStart(t) ==
  /\ At(t, "start")
  /\ DevWrite(JSB, Super(head, seq, head))
  /\ Goto(t, "startFlush")
  /\ UNCHANGED <<ejVars, hookVars, opVars, mountVars, hVars, ok>>

\* The commit block lands on the last data block.
BugCommitBlock(t) ==
  /\ At(t, "block")
  /\ DevWrite(LogPage(jbd2_advance_n(head, Len(tx))), Commit)
  /\ Goto(t, "blockFlush")
  /\ attempts' = attempts \cup {TxImage}
  /\ UNCHANGED <<ejVars, hookVars, opVars, mountVars, ok, hist, logged, loggedData, stable, exposed, torn>>

CommitBlock(t) ==
  /\ At(t, "block")
  /\ DevWrite(LogPage(jbd2_advance_n(head, Len(tx) + 1)), Commit)
  /\ Goto(t, "blockFlush")
  /\ attempts' = attempts \cup {TxImage}
  /\ UNCHANGED <<ejVars, hookVars, opVars, mountVars, ok, hist, logged, loggedData, stable, exposed, torn>>

\* The flushes between those writes.
CommitFlush(t) ==
  /\ \/ At(t, "descriptorFlush") /\ Goto(t, "data")
     \/ At(t, "dataFlush") /\ Goto(t, "start")
     \/ At(t, "startFlush") /\ Goto(t, "block")
     \/ At(t, "emptyFlush") /\ Goto(t, "lower")
  /\ DevFlush
  /\ UNCHANGED <<ejVars, hookVars, opVars, mountVars, hVars, ok>>

\* The commit block is durable: the transaction is in the log.
CommitDurable(t) ==
  /\ At(t, "blockFlush")
  /\ DevFlush
  /\ seq' = seq + 1
  /\ head' = jbd2_advance_n(head, Len(tx) + 2)
  /\ Goto(t, "checkpoint")
  /\ logged' = TxImage
  /\ loggedData' = IF Data \in Range(tx) THEN Logged(Dev(LogPage(head)), Data).ver
                   ELSE loggedData
  /\ attempts' = {}
  /\ UNCHANGED <<hookVars, opVars, mountVars, ok, lock, tx, recover_flag, hist, stable,
                 exposed, torn>>

\* The holds outlive their transaction.
BugCommitCheckpoint(t) ==
  /\ At(t, "checkpoint")
  /\ tx' = <<>>
  /\ Call(t, "checkpointed", Sync("HELD"))
  /\ UNCHANGED <<bcVars, hookVars, opVars, mountVars, hVars, ok, lock, recover_flag,
                 head, seq>>

\* 5. Release the holds, then flush the held pages.
CommitCheckpoint(t) ==
  /\ At(t, "checkpoint")
  /\ cache' = bcache_release_holds(cache)
  /\ tx' = <<>>
  /\ Call(t, "checkpointed", Sync("HELD"))
  /\ UNCHANGED <<hookVars, opVars, mountVars, hVars, media, wcache, evicting, quarantined,
                 faults, mishaps, ok, lock, recover_flag, head, seq>>

\* 6. The log is empty again.
CommitEmpty(t) ==
  /\ At(t, "checkpointed")
  /\ \/ ~ok[t] /\ CommitOut(t, FALSE) /\ UNCHANGED bcVars
     \/ /\ ok[t]
        /\ DevWrite(JSB, Super(0, seq, head))
        /\ Goto(t, "emptyFlush")
        /\ UNCHANGED <<lock, ok, stable>>
  /\ UNCHANGED <<hookVars, opVars, mountVars, tx, recover_flag, head, seq, hist,
                 logged, loggedData, attempts, exposed, torn>>

\* Success is reported without the final sync.
BugCommitLower(t) ==
  /\ At(t, "lower")
  /\ SetRecoverFeature(FALSE)
  /\ Goto(t, "lowered")
  /\ UNCHANGED <<ejVars, hookVars, opVars, mountVars, hVars, media, wcache,
                 evicting, quarantined, faults, mishaps, ok>>

CommitLower(t) ==
  /\ At(t, "lower")
  /\ SetRecoverFeature(FALSE)
  /\ Call(t, "lowered", Sync("ALL"))
  /\ UNCHANGED <<ejVars, hookVars, opVars, mountVars, hVars, media, wcache,
                 evicting, quarantined, faults, mishaps, ok>>

\* A direct write or flush fails: the transaction stays as it is.
CommitError(t) ==
  /\ \E l \in {"descriptor", "descriptorFlush", "dataFlush", "start",
               "startFlush", "block", "blockFlush", "checkpointed", "emptyFlush"} : At(t, l)
  /\ At(t, "checkpointed") => ok[t]
  /\ DevError
  /\ CommitOut(t, FALSE)
  /\ UNCHANGED <<hookVars, opVars, mountVars, tx, recover_flag, head, seq, hist,
                 logged, loggedData, attempts, exposed, torn>>

-----------------------------------------------------------------------------
(* sync(), fsync() and umount(); mount and recovery *)

\* vfs_sync() syncs the cache; ext4_vn_sync() commits, then syncs.
SyncCall(t) ==
  /\ phase = "mounted" /\ stack[t] = <<>>
  /\ \E f \in {Sync("ALL"), Frame("fsync", "")} : stack' = [stack EXCEPT ![t] = <<f>>]
  /\ UNCHANGED <<bcVars, ejVars, hookVars, opVars, mountVars, hVars, ok>>

FsyncStep(t) ==
  /\ \/ At(t, "fsync") /\ Call(t, "fsynced", CommitCall) /\ UNCHANGED ok
     \/ At(t, "fsynced") /\ ~ok[t] /\ Return(t, FALSE)
     \/ /\ At(t, "fsynced") /\ ok[t]
        /\ Become(t, Sync("SCOPED"))
        /\ UNCHANGED ok
  /\ UNCHANGED <<bcVars, ejVars, hookVars, opVars, mountVars, hVars>>

NoRec == [seq |-> 0, head |-> 0, tid |-> 0, at |-> 0, faults |-> 0]

\* What memory held of the mount is gone.
Forget ==
  /\ tx' = <<>> /\ recover_flag' = FALSE /\ head' = 1
  /\ hookDepth' = 0 /\ tmp' = [t \in Callers |-> 0]
  /\ ok' = [t \in Callers |-> TRUE]
  /\ phase' = "off" /\ rec' = NoRec

\* ext4_unmount(): commit (ext4_journal_close()) ...
UnmountCommit(t) ==
  /\ phase = "mounted" /\ op = <<>> /\ \A u \in Callers : stack[u] = <<>>
  /\ stack' = [stack EXCEPT ![t] = <<Frame("close", ""), CommitCall>>]
  /\ phase' = "closing"
  /\ UNCHANGED <<bcVars, ejVars, hookVars, opVars, hVars, ok, rec>>

\* ... drop the journal and its hook whatever that returned, and sync.
UnmountSync(t) ==
  /\ At(t, "close")
  /\ phase' = "unmounting"
  /\ Call(t, "closed", Sync("ALL"))
  /\ UNCHANGED <<bcVars, ejVars, hookVars, opVars, hVars, ok, rec>>

\* The next mount has a cache of its own: umount abandons this one, a refused
\* mount destroys it.
Closed(t) ==
  /\ At(t, "closed")
  /\ cache' = <<>>
  /\ evicting' = {} /\ quarantined' = FALSE
  /\ stack' = [stack EXCEPT ![t] = <<>>]
  /\ exposed' = (exposed \/ ~HomeOrLogged(Device))
  /\ Forget
  /\ UNCHANGED <<opVars, media, wcache, faults, mishaps, lock, seq, hist, logged, loggedData,
                 attempts, stable, torn>>

\* ext4_mount_flags(): recover if the flag or the log says so.
Mount(t) ==
  /\ phase = "off"
  /\ phase' = "mounting"
  /\ rec' = [NoRec EXCEPT !.faults = faults]
  /\ stack' = [stack EXCEPT ![t] =
       <<Frame(IF Dev(SB).rec \/ Dev(JSB).start # 0 THEN "recover" ELSE "open", "")>>]
  /\ UNCHANGED <<bcVars, ejVars, hookVars, opVars, hVars, ok>>

\* ext4_journal_recover(): the passes start where the superblock says.
Recover(t) ==
  /\ At(t, "recover")
  /\ LET j == bcache_read_bytes(JSB) IN
       /\ rec' = [rec EXCEPT !.seq = j.seq, !.tid = j.seq, !.at = j.start,
                             !.head = IF j.start = 0 THEN j.head ELSE j.start]
       /\ Goto(t, IF j.start = 0 THEN "empty" ELSE "scan")
  /\ UNCHANGED <<bcVars, ejVars, hookVars, opVars, hVars, phase, ok>>

\* jbd2_run_pass(JBD2_PASS_SCAN): one more transaction, or the end of the log.  A
\* block that cannot be read counts as the end too.
ScanPass(t) ==
  /\ At(t, "scan")
  /\ \/ /\ TxAt(Device, rec.head, rec.seq)
        /\ rec' = [rec EXCEPT !.seq = @ + 1, !.head = Past(Device, @)]
        /\ UNCHANGED <<bcVars, stack, torn>>
     \/ /\ ~TxAt(Device, rec.head, rec.seq)
        /\ Goto(t, "replay")
        /\ UNCHANGED <<bcVars, rec, torn>>
     \/ /\ DevError
        /\ Goto(t, "replay")
        /\ torn' = (torn \/ TxAt(Device, rec.head, rec.seq))
        /\ UNCHANGED rec
  /\ UNCHANGED <<ejVars, hookVars, opVars, phase, ok, hist, logged, loggedData, attempts, stable,
                 exposed>>

\* jbd2_run_pass(JBD2_PASS_REPLAY): one transaction, up to the end the scan found.
ReplayPass(t) ==
  /\ At(t, "replay")
  /\ \/ /\ rec.tid # rec.seq
        /\ LET d == Dev(LogPage(rec.at)) IN
             /\ \A p \in Range(d.tags) : Writable(p)
             /\ cache' = Replayed(d, Len(d.tags))
        /\ rec' = [rec EXCEPT !.tid = @ + 1, !.at = Past(Device, @)]
        /\ UNCHANGED stack
     \/ rec.tid = rec.seq /\ Call(t, "replayed", Sync("ALL")) /\ UNCHANGED <<cache, rec>>
  /\ UNCHANGED <<ejVars, hookVars, opVars, hVars, media, wcache, evicting, quarantined,
                 faults, mishaps, phase, ok>>

\* The mount fails; its caller destroys the cache, which syncs it.
Refuse(t) == phase' = "refused" /\ Call(t, "closed", Sync("ALL"))

\* A block that the rest of the mount cannot read refuses it, in the replay
\* after some of a transaction.
MountError(t) ==
  /\ \E l \in {"recover", "replay", "replayed", "empty", "emptied", "open"} : At(t, l)
  /\ At(t, "replayed") \/ At(t, "emptied") => ok[t]
  /\ Fault
  /\ Refuse(t)
  /\ \/ UNCHANGED cache
     \/ /\ At(t, "replay") /\ rec.tid # rec.seq
        /\ LET d == Dev(LogPage(rec.at)) IN
             /\ \A p \in Range(d.tags) : Writable(p)
             /\ \E k \in 0..(Len(d.tags) - 1) : cache' = Replayed(d, k)
  /\ UNCHANGED <<ejVars, hookVars, opVars, hVars, media, wcache, evicting, quarantined,
                 rec, ok>>

\* A failed flush defers the rest of the cleanup and goes on to open the log.
RecoverDefer(t) ==
  /\ \E l \in {"replayed", "emptied"} : At(t, l)
  /\ ~ok[t]
  /\ Goto(t, "open")
  /\ UNCHANGED <<bcVars, ejVars, hookVars, opVars, mountVars, hVars, ok>>

\* Recovery lowers the flag and leaves s_start alone.
BugRecoverEmpty(t) ==
  /\ At(t, "empty") \/ (At(t, "replayed") /\ ok[t])
  /\ SetRecoverFeature(FALSE)
  /\ Call(t, "open", Sync("ALL"))
  /\ UNCHANGED <<ejVars, hookVars, opVars, mountVars, hVars, media, wcache,
                 evicting, quarantined, faults, mishaps, ok>>

\* jbd2_mark_empty(), then the flag, each with a sync of its own.
RecoverEmpty(t) ==
  /\ \/ /\ At(t, "empty") \/ (At(t, "replayed") /\ ok[t])
        /\ Writable(JSB)
        /\ cache' = bcache_write_bytes(cache, JSB, Super(0, rec.seq, rec.head))
        /\ Call(t, "emptied", Sync("ALL"))
     \/ /\ At(t, "emptied") /\ ok[t]
        /\ SetRecoverFeature(FALSE)
        /\ Call(t, "open", Sync("ALL"))
  /\ UNCHANGED <<ejVars, hookVars, opVars, mountVars, hVars, media, wcache,
                 evicting, quarantined, faults, mishaps, ok>>

\* ext4_journal_open(): a log that is not empty refuses the mount.
Open(t) ==
  /\ At(t, "open")
  /\ LET j == bcache_read_bytes(JSB) IN
     IF j.start # 0
     THEN /\ Refuse(t)
          /\ UNCHANGED <<ok, rec, head, seq, logged, loggedData, attempts>>
     ELSE /\ phase' = "mounted"
          /\ Return(t, TRUE)
          /\ rec' = NoRec
          /\ head' = j.head
          /\ seq' = j.seq
          /\ logged' = Image
          /\ loggedData' = bcache_read_bytes(Data).ver
          /\ attempts' = {}
  /\ UNCHANGED <<bcVars, hookVars, opVars, lock, tx, recover_flag, hist, stable,
                 exposed, torn>>

-----------------------------------------------------------------------------
(* The environment *)

\* A cache miss anywhere in the system recycles a page.
EvictPage ==
  /\ \E p \in DOMAIN cache :
       \/ Evict(p) /\ exposed' = (exposed \/ Uncovered(FlushRun(p)))
       \/ EvictFail(p) /\ UNCHANGED exposed
  /\ UNCHANGED <<jVars, hist, logged, loggedData, attempts, stable, torn>>

\* (A log block is read by a mount alone, the journal superblock by a commit, and
\* neither can be the miss during which an operation holds a page.)
EvictDone == EvictEnd(Meta \cup {Data}) /\ UNCHANGED <<jVars, hVars>>

QuarantinePasses == QuarantineEnds /\ UNCHANGED <<jVars, hVars>>

\* The machine stops at any point and loses its memory.
Crash ==
  /\ phase # "off"
  /\ PowerLoss
  /\ Forget
  /\ stack' = [t \in Callers |-> <<>>]
  /\ lock' = [owner |-> NoTask, depth |-> 0]
  /\ op' = <<>>
  /\ writing' = FALSE
  /\ exposed' = (exposed \/ ~HomeOrLogged(media'))
  /\ UNCHANGED <<seq, hist, logged, loggedData, attempts, stable, torn>>

Init ==
  /\ media = [p \in Pages |-> IF p = JSB THEN Super(0, 1, 1)
                             ELSE IF p \in LogPages THEN [type |-> "blank"]
                             ELSE [ver |-> 0, rec |-> FALSE]]
  /\ wcache = <<>> /\ cache = <<>> /\ evicting = {} /\ quarantined = FALSE
  /\ faults = 0 /\ mishaps = 0
  /\ phase = "mounted"
  /\ stack = [t \in Callers |-> <<>>]
  /\ ok = [t \in Callers |-> TRUE]
  /\ lock = [owner |-> NoTask, depth |-> 0]
  /\ tx = <<>> /\ recover_flag = FALSE /\ head = 1 /\ seq = 1
  /\ hookDepth = 0 /\ tmp = [t \in Callers |-> 0]
  /\ rec = NoRec
  /\ op = <<>> /\ writing = FALSE
  /\ hist = <<>>
  /\ logged = [p \in Meta |-> 0] /\ loggedData = 0 /\ attempts = {} /\ stable = logged
  /\ exposed = FALSE /\ torn = FALSE

CallerStep(t) ==
  \/ SyncTest(t) \/ HookLoad(t) \/ HookCall(t) \/ HookReturn(t)
  \/ SyncWrite(t) \/ SyncFlush(t)
  \/ CommitBegin(t) \/ CommitLowered(t) \/ CommitRaise(t) \/ CommitRaised(t)
  \/ CommitDescriptor(t) \/ CommitData(t) \/ CommitStart(t) \/ CommitBlock(t)
  \/ CommitFlush(t) \/ CommitDurable(t) \/ CommitCheckpoint(t) \/ CommitEmpty(t)
  \/ CommitLower(t) \/ CommitError(t)
  \/ SyncCall(t) \/ FsyncStep(t) \/ UnmountCommit(t) \/ UnmountSync(t) \/ Closed(t)
  \/ Mount(t) \/ Recover(t) \/ ScanPass(t) \/ ReplayPass(t) \/ RecoverDefer(t) \/ RecoverEmpty(t)
  \/ MountError(t) \/ Open(t)

Next ==
  \/ \E t \in Callers : CallerStep(t)
  \/ \E w \in Workloads : OpBegin(w)
  \/ DataWrite \/ MetaWrite \/ MetaRecord
  \/ EvictPage \/ EvictDone \/ QuarantinePasses \/ Crash

Spec == Init /\ [][Next]_vars

-----------------------------------------------------------------------------
(* Properties *)

\* Where a frame can be: in bcache_sync_common(), in ext4_journal_commit() with the
\* mutex, in the mount, and in the other calls.
SyncPcs == {"sync", "hook", "hooked", "hookDec", "write", "flush"}
CommitIn == {"dataHome", "raised", "lowered", "descriptor", "descriptorFlush", "data",
             "dataFlush", "start", "startFlush", "block", "blockFlush", "checkpoint",
             "checkpointed", "emptyFlush", "lower"}
CommitPcs == CommitIn \cup {"commit"}
MountPcs == {"recover", "scan", "replay", "replayed", "empty", "emptied", "open"}
Pcs == SyncPcs \cup CommitPcs \cup MountPcs \cup {"fsync", "fsynced", "close", "closed"}

Frames == [pc : Pcs, mode : {"", "ALL", "SCOPED", "HELD"}]

\* The state is well formed.
TypeOK ==
  /\ DOMAIN media = Pages
  /\ DOMAIN wcache \subseteq Pages /\ DOMAIN cache \subseteq Pages
  /\ \A p \in DOMAIN cache : cache[p].dirty \in BOOLEAN /\ cache[p].held \in BOOLEAN
  /\ evicting \subseteq Pages
  /\ quarantined \in BOOLEAN /\ mishaps \in 0..MaxMishaps /\ faults \in 0..mishaps
  /\ phase \in {"off", "mounting", "mounted", "closing", "unmounting", "refused"}
  /\ stack \in [Callers -> Seq(Frames)] /\ ok \in [Callers -> BOOLEAN]
  /\ lock.owner \in Callers \cup {NoTask, "op"} /\ lock.depth \in Nat
  /\ lock.owner = NoTask <=> lock.depth = 0
  /\ tx \in Seq(Meta \cup {Data}) /\ recover_flag \in BOOLEAN
  /\ head \in 1..LogLen /\ seq \in Nat \ {0}
  /\ logged \in [Meta -> 0..Len(hist)] /\ attempts \subseteq [Meta -> 0..Len(hist)]
  /\ stable \in [Meta -> 0..Len(hist)] /\ exposed \in BOOLEAN /\ torn \in BOOLEAN

\* A completed mount.
Mounts == phase = "mounting" /\ phase' = "mounted"

\* The block cache's rule is "a page covered by an uncommitted transaction must
\* not reach its home location".  No hold outlives its transaction, and exactly
\* the pages of the open transaction are pinned until one got out behind the
\* journal's back: a hold that comes while the page is being evicted is lost, and
\* pins the page that gets the entry instead.
HoldsMatchTx ==
  /\ tx = <<>> => \A p \in DOMAIN cache : ~cache[p].held
  /\ ~exposed => \A p \in DOMAIN cache : cache[p].held => p \in Range(tx)
  /\ Hooked /\ ~exposed =>
       \A p \in Range(tx) : p \in DOMAIN cache /\ cache[p].held

\* A power loss at any point of the commit, of recovery or between them leaves
\* the metadata of one transaction boundary: the last commit block known to be
\* durable or one whose write was under way, never a mixture, as long as no file
\* data changed under a commit and the log could be read.
AtomicMount == [][Mounts /\ ~exposed /\ ~torn => Image \in {logged} \cup attempts]_vars

\* What a successful ext4_journal_commit() promised is there after every later
\* mount, whatever else leaked out, was retried or was replayed twice.
DurableCommits == [][Mounts => \A p \in Meta : Image[p] >= stable[p]]_vars

\* Ordered mode: metadata that an operation wrote after its data, and that
\* survives, never refers to data that did not.
OrderedData ==
  [][Mounts /\ ~exposed /\ ~torn =>
       \A k \in DOMAIN hist : \A i, j \in DOMAIN hist[k] :
         i < j /\ hist[k][i] = Data /\ hist[k][j] \in Meta
           /\ Image[hist[k][j]] = k => bcache_read_bytes(Data).ver >= k]_vars

\* ext4_journal_open() turns away a log that is not empty.  Recovery leaves one
\* only when the device failed it: no crash, however placed, bricks the volume.
RefusedOnlyAfterFault == phase = "refused" => faults > rec.faults

\* The commit sequence says of the checkpoint that the log lets go of a
\* transaction only once its metadata is home: at no instant may a power loss
\* find a committed transaction in neither place.
HomeBeforeRelease == HomeOrLogged(media)

\* The code breaks the next two; torn records it (README, section 4).

\* "The transaction is durable in the log" when the commit block is: a power loss
\* right after it finds the whole transaction.
CommittedIsWhole ==
  \A t \in Callers : At(t, "checkpoint") => TxAt(media, media[JSB].start, media[JSB].seq)

\* The scan stops where "the log ends in something that is not a complete,
\* checksummed transaction", so that nothing committed is discarded.
ScanStopsAtEnd ==
  \A t \in Callers :
    At(t, "replay") /\ rec.tid = bcache_read_bytes(JSB).seq => ~TxAt(Device, rec.head, rec.seq)
=============================================================================
