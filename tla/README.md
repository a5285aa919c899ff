# A verification of the A20OS kernel core

A20OS is a hybrid kernel in C (`kernel/`) with a Linux ABI and a native,
capability-based ABI, for SMP machines of several architectures. This directory
holds TLA+ models of the part of it on which everything else waits: the
scheduler's ownership protocol, the park/wake protocol under every blocking
call, the reschedule requests between CPUs, the sleeping locks, the channels
of the native ABI and the futexes of the Linux one, and of the part on which
everything must survive: the block cache and the ext4 journal under power loss.
TLC checks them on small instances (`MC*.tla`, `*.cfg`), TLAPS
proves the central invariants for any number of tasks, CPUs and threads
(`*Proofs.tla`). `PROJECT.json` lists the runs, the mutants, the hazards and, for
every definition that models code, the lines it stands for.

## 1. Inventory

### Parts, state and operations

| Part | State | Operations |
|---|---|---|
| Park/wake (`proc/park.c`) | per task: `park_state`, `wait_seq`, `wait_mode`, `wake_reason`, `wait_deadline` | prepare, cancel, commit, donating commit, finish, try_wake, interrupt_wait, wake batches |
| Scheduler core (`proc/sched.c`, `proc/current.c`) | per task: `state`, `on_rq`, `dispatching`, `on_cpu`, `owner_cpu`, `cpu_id`; per CPU: runqueue, `g_cpu_current`, `g_cpu_switching_out`, `need_resched` | make_ready, enqueue, pick, steal, unpick, yield, keep-current, switch in two windows, switch completion, stop, resume, reap, tick, idle |
| Wait timers (`proc/timer_heap.c`) | a bounded heap of (task, sequence, deadline) | register, cancel, expire |
| Signals, stop, exit (`proc/signal.c`, `proc/exit.c`) | pending sets, `exit_pending` | queue a signal, deliver, stop, continue, force exit, exit |
| CPU quotas (`proc/cg_cpu.c`) | per cgroup runtime, `cg_throttled` | account and throttle, unthrottle |
| Wait queues and locks (`core/sync.c`) | queues of entries on the waiters' stacks; mutex owner and depth; reader count, writer, waiting writers; completion count | link, unlink, collect, wake one/all, lock/unlock, complete, wait |
| Channels (`ipc/a20_channel.c`) | two endpoints: reference count, peer link, message queue, wait queue | create, send, receive, call with donation, shutdown, close |
| Futexes (`ipc/futex.c`) | hash buckets of wait queues keyed by physical page; the user words; PI owners, robust lists | wait, wake, requeue, wake-op, PI lock/unlock, exit cleanup |
| Block cache (`fs/block_cache.c`) | pages: dirty, held; hook depth; write quarantine | read, write, hold, release, sync in three modes, evict |
| ext4 journal (`fs/diskfs/ext4_journal.c`) | open transaction, log head and sequence, recover flag; on disk the log and its superblock | metadata write, commit, open, close, recover |
| Event queues, readiness, epoll | watches, event ring, generation | add, notify, wait, remove |
| Envelopes, capabilities, monitors, pagers | handle tables, rights, expiry | reserve, transfer, revoke |
| Cluster transport (`cluster/`) | sequence numbers, windows, exported endpoints | send, acknowledge, retransmit, export |
| VFS and file systems, page cache | inodes, directories, pages | many |
| Memory (`mm/`) | page tables, frames, VMAs, COW counts | fault, map, unmap, swap |
| Drivers, hypervisor, network, ABI layers | hardware and protocol state | many |

### How they interact

Every blocking call in the kernel has the same shape: *prepare* a park token,
check the condition again and link a wait entry under the object's lock, *commit*
(sleep), unlink, *finish*. A waker takes the entry off the queue under the
queue's lock and calls `proc_try_wake()` with the sequence number the entry
carries. The wake turns the token WOKEN under the task's `park_lock` and, if the
task had committed, makes it READY and tries to enqueue it. Whether it may be
enqueued depends on where its CPU is in the context switch: a task that still
owns a CPU is queued by the *completion* of that switch instead. Signals, timers,
exits and quotas are further wakers. A futex wait is the same shape with the user's
word as the condition and a heap-allocated node that a requeue may move to
another bucket in the meantime. There is no global scheduler lock: each task
has its `park_lock`, each runqueue and the timer heap their own.

ext4 writes all metadata through `ext4_journal_meta_write()`, which changes the
page in the block cache, pins it with a hold and records it in the open
transaction; data goes to the cache without a hold, except that a block allocated
for part of a page is first zeroed through the journal. `sync()` and `fsync()` write
the cache back, and a hook at the head of `bcache_sync_common()` commits the open
transaction first. The commit itself calls the same sync several times, so the
two components are mutually recursive; direct log writes and device flushes
bypass the cache. Any cache miss in the system may evict, and write, a page.

### What is hard

* steps of several CPUs in the switch window, where a task's ownership is spread
  over five fields and three per-CPU slots under different locks;
* wakes that come early (before the sleep), late (after another reason won) or
  from an earlier wait;
* a timer taken off the heap whose wake comes after the lock is dropped;
* a signal, continue or exit published around the moment of the sleep or stop;
* kernel preemption between prepare and commit, or inside an unmasked switch;
* a CPU that goes to sleep while work is queued for it; requests that are
  coalesced with earlier ones;
* reference counts and stack-allocated wait entries under close and interruption;
* wakes handed to a waiter that will not use them;
* words in user memory that change, or move to another page, between a check and
  a sleep, and a protocol word shared with user-space fast paths;
* power loss, device errors and evictions at any point of a commit, of recovery
  or of their retries, with a device that has reordered its unflushed writes.

The list with lines is in `PROJECT.json` ("hazards").

### What makes each part correct

* *Park/wake:* no wake is lost, none reaches a later wait, the first one decides
  the reason, a wait with a deadline ends.
* *Scheduler:* a task is queued, picked or on a CPU, never two of these; a READY
  task is always on its way; no stack is executed by two CPUs; a zombie is not
  run and not reaped too early; a CPU with work does not sleep; a better task is
  announced.
* *Timers:* the heap names live waits only, and covers every deadline.
* *Signals and stop:* neither a signal nor a continue can fall between a check
  and a sleep.
* *Locks:* exclusion, no stranded waiter, writers are not starved.
* *Channels:* endpoints are freed once and only when unused, transferred
  references are conserved, no thread sleeps on a message or a free slot.
* *Futexes:* a waiter whose word has changed is found by the one who changed it;
  a node is not walked after it was freed; a PI lock has one holder and its
  sleepers are announced in the word.
* *Journal:* after any crash a mount finds one transaction boundary, everything a
  successful commit promised and the data the metadata refers to, and can always
  be made unless the device failed.

## 2. Modules

| Module | Models | Checked by | Proved in |
|---|---|---|---|
| `Sched` | park/wake, runqueues, pick, switch, timers, signals, stop, exit, reap, quotas, donation | `MCSched` | `SchedProofs` |
| `Resched` | `need_resched`, the reschedule IPI, preemption requests, idle sleep | `MCResched` | `ReschedProofs` |
| `Sync` | mutex, reader/writer mutex, completion, wait-queue batches | `MCSync` | `SyncProofs` |
| `Channel` | channel endpoints, send, receive, call, close | `MCChannel` | `ChannelProofs` |
| `WaitList` | the linked list of a `wait_queue_t`; used by `Sync`, `Channel` and `Futex` | `MCSync`, `MCChannel`, `MCFutex` | `WaitListProofs` |
| `ParkAbs` | the contract of `park.h`: one wait, its mode, deadline and reason | `MCSched` (as `WaitSpec`) | `ParkProofs` |
| `Futex` | futex wait, wake, requeue, wake-op, PI, robust exit; over `ParkAbs` | `MCFutex` | `FutexProofs` |
| `BlockCache` | cached pages, holds, sync, eviction, the device's write cache | `MCJournal` | `JournalProofs` |
| `Journal` | metadata writes, commit, sync, fsync, umount, crash, recovery; over `BlockCache` | `MCJournal` | `JournalProofs` |

The modules build on each other through `ParkAbs`. `Sched` implements it: the
refinement mapping `Wait` (an `INSTANCE` at the end of `Sched`) shows each task's
token, mode, reason and timer as an abstract wait, `WaitSpec` is checked by TLC in
two runs and proved in `ParkProofs`. `Futex` is composed with it: its steps that
park, wake, time out or finish conjoin the action of `ParkAbs`, so a futex waiter
can do exactly what the scheduler has been shown to provide. `Channel` and `Sync`
keep their own copy of the part they use (the first wake of a token wins it and
carries its wait's sequence; a woken task runs again), and `Resched` refines the
one question `Sched` leaves open, whether a CPU notices the work that was queued
for it. `Journal` extends `BlockCache` and calls its steps.

In all modules one action is one critical section, or the code between two. A
function that takes two locks one after the other is two actions, and everything
that other CPUs may do in between is possible in between. A definition named
`Bug...` is the definition after it with a plausible mistake; no specification
uses it, it serves to show that a property notices (`PROJECT.json`, "mutants").

### Sched

A *task* is a process whose `pc` says where it is in the park API (`user`,
`token` between prepare and commit, `peeked`/`donate`/`donated` in the donating
receive, `finish` after the commit). A *CPU* is a process whose `phase` says where
it is in `sched()` and `context_switch_locked()`:

    run -> sched -> picked -> switch -> setcur -> publish -> published -> complete -> run
                 \-> recheck -> late -> (idle) switch

`current` and `swout` are `g_cpu_current[]` and `g_cpu_switching_out[]`; `stack`
is a ghost: the task whose kernel stack the CPU really executes on, which no
field of the kernel records. `fired`, `inflight` and `toready` are the local
variables of other contexts: a timer taken off the heap, a signal published but
not yet delivered to the wait, a task whose creator or unthrottler will call
`proc_make_ready()`.

| Actions | Code |
|---|---|
| `Prepare`, `Cancel`, `Commit`, `Finish`, `TryWake` | `park.c`, one critical section of `park_lock` each |
| `DonatePeek`, `CommitDonate`, `DonateWake` | the donating receive of `channel_call`: peek, own commit, revalidate and direct switch |
| `TimerExpire`, `TimerWake` | `proc_sched_expire_wait_timers()`: off the heap under its lock, wake afterwards |
| `SendSignal`, `ResumeStopped`, `InterruptWait`, `ForceExit`, `DeliverSignals`, `StopCurrent`, `Exit`, `Reap` | `signal.c`, `exit.c`, `sched.c` |
| `Charge`, `Unthrottle`, `DropThrottled` | `cg_cpu.c` and the throttle test in the pick |
| `MakeReady`, `Yield` | `proc_make_ready()`, `proc_yield()` |
| `PickTask`, `PickNothing`, `Dispatch`, `GiveBack`, `KeepCurrent`, `FallToIdle` | `sched()` and `proc_runq_pick_local()` |
| `FinishPending`, `SetCurrent`, `PublishNext`, `Switch`, `SwitchComplete` | `context_switch_locked()` and `current.c` |
| `PreemptInSwitch` | `kernel_preempt_at_irq_return()` inside a switch that is not masked |

`KernelPreempt` is `CONFIG_KERNEL_PREEMPT`; `FastCurrent` says whether
`proc_current()` follows the stack (`ARCH_FAST_CURRENT`) or reads the slot.
EEVDF's virtual time is data: inside the normal class either comparison result is
possible; between classes `Rank` decides. Pending signals are kept by kind
(`SIGNAL`, `CONT`, `FATAL`, `EXIT`), a stop being the running task's own step
(`StopCurrent`). What a new signal discards of the pending ones
(`signal_apply_generation_rules_locked()`) is left out: a SIGCONT discards pending
stop signals, which are not kept, and a stop signal a pending SIGCONT, which would
only leave `StopNotLost` less to ask for.

### Resched

A wake is a sequence of steps of a *context* (a task or a CPU's interrupt
handler): `Enqueue` (queue and compare under the locks), `Decide` (a remote CPU is
always told, the local one only for a better task), `Request` (the atomic exchange
of `need_resched`), `Send` (the IPI). A task may be preempted between any two and
continue on another CPU. A CPU consumes its mark in `EnterSched`, picks, keeps or
switches, completes the switch, and in the idle loop prepares and sleeps. The
masked part of `sched()` is three steps (`Pick`, `Keep` or `Switch`,
`SwitchComplete`), because other CPUs act between them.

### Sync

The four waiting calls (`mutex_lock`, `rw_mutex_read_lock`,
`rw_mutex_write_lock`, `wait_for_completion`) are one loop: `Enter`, `Try`,
`Prepare`, `Recheck`, `Commit`, `Resume`, with `CanTake` and `Take` saying what
each waits for and does. A release is its own critical section; the wake that
follows is `Collect` (under the queue lock, into a batch of at most `Batch`) and
`Flush`, one task at a time. `Stray` is an event wake meant for something else
(section 4 shows that they exist). The paths for a kernel without a current task,
and for a token or a link that is refused, are left out: they yield and retry.

### Channel

Threads run `send`, `recv` and `channel_call` through their handle; `ptr` is the
local `peer` pointer with the reference it holds, `rel` an endpoint whose last
reference the thread has just dropped and is tearing down. A message is "ok" or
"mistyped" and carries one reference to a transferred object (`xfer`, `got` count
them). The wait queue is shared by the receivers of the endpoint and the senders
into it, told apart by the key, as in the code.

### ParkAbs

Five variables per task and one action per thing that can happen to a wait:
`Begin`, `BeginOver` (a signal was pending), `Refuse` (no timer slot: the number
is spent), `Sleep`, `DeadlinePasses`, `End` and `Retire`. `MayEnd` is the promise:
a timeout only after this wait's own deadline, a signal only in a mode that admits
it, a cancel only before the sleep, and one end per wait. The mapping of the
deadline is the interesting part: it has passed when the timer is off the heap and
its wake has not yet come.

### Futex

A word is an (address space, address) pair with a page that a copy-on-write store
may change (`page`, `cow`). `node[t]` is the kmalloc'ed `futex_node_t` of a waiter
with the bucket it is linked in (`at`), the physical key it was linked under and
the word; `queue` are the buckets. `Programs` says which words each task waits on
and writes, so that one run covers four small user programs: a shared condition
variable with two waiters or with two notifiers, a process that has forked, a PI
lock.

| Actions | Code |
|---|---|
| `WaitCall`, `Prepare`, `Link`, `Cancel`, `Commit`, `Finish`, `Unlink`, `UnlinkLocked` | `futex_wait_ticks()`: token, recheck and link under both locks, sleep, unlink in two steps |
| `Notify`, `Key`, `Collect`, `Flush`, `Phase`, `Requeue` | `futex_wake()`, `futex_requeue()`: store, derive the bucket, collect a batch under its lock, wake it, move the rest |
| `WakeOpRead`, `WakeOpWrite` | `futex_wake_op()`'s separate load and store |
| `UserLock`, `UserUnlock` | the C library's fast paths on a PI word (external) |
| `LockCall`, `PiAcquire`, `PiRelease` | `futex_pi_acquire()`, `futex_pi_release()` |
| `Exit`, `RobustRead`, `RobustWrite` | `proc_exit()` and `exit_robust_list()` |
| `Store`, `SigSend`, `SigKick`, `SigTake`, `DeadlinePasses`, `Timeout` | the environment: memory, signals, time |

Abstractions: words stay resident, so the sweep of all buckets after a failed
translation does not occur; a load and the compare-and-exchange that follows it
under the bucket lock are one step; the robust list is the set of PI words a task
holds, and the exit walk's test that the word still names the task is left out, so
that its store happens in more states than in the code; the PI protocol's weight
donation is left out.

### BlockCache and Journal

`media` is what survives a power loss, `wcache` what the device has accepted,
`cache` the resident pages with `dirty` and `held`. A power loss keeps any subset
of `wcache`. Pages hold `[ver, rec]`: the number of the last operation they
reflect and, in the superblock, the needs-recovery bit; log blocks are descriptors,
data or commit blocks, and a checksum is the contents it was computed from, so
"the checksum matches" is equality.

Each *caller* has a stack of frames, because the calls recurse: a `sync` frame runs
the hook (`SyncTest`, `HookCall`, `HookLoad`, `HookReturn`), writes (`SyncWrite`)
and flushes (`SyncFlush`); a `commit` frame goes through

    CommitBegin -> CommitRaise -> CommitRaised -> CommitDescriptor -> CommitData
    -> CommitStart -> CommitBlock -> CommitDurable -> CommitCheckpoint
    -> CommitEmpty -> CommitLower -> CommitLowered

with `CommitFlush` between the direct writes, `CommitError` at each of them, and a
`sync` frame pushed where the code calls `bcache_sync_*()`. `ej->lock` is
recursive, as in the code. An operation writes its items in order, data with
`DataWrite` (no `ej->lock`, no hold), metadata with `MetaWrite` (the cache write) and
`MetaRecord` (hold and record, or the overflow that drops the transaction). The item
`Zero` is `ext4_alloc_block()` zeroing a block of which `ext4_fwrite()` will write a
part: the *data* page goes through the journal, is held and in the transaction, and
the `DataWrite` that follows changes it there. The next mount is `Mount`,
`Recover`, `ScanPass` (one transaction found per step), `ReplayPass` (one copied
into the cache per step), `RecoverEmpty` with a sync after each of its two writes,
`RecoverDefer` when one of them fails, and `Open`; a power loss may strike between
any two. A failed read ends the scan as if the log ended there, and anywhere else in
the mount refuses it (`MountError`, in the replay after some of a transaction's
blocks); a refused mount's cache is synced and destroyed. `UnmountCommit`,
`UnmountSync` and `Closed` are the orderly end; umount does not destroy its cache but
abandons it, which comes to the same for the next mount.

An eviction is two steps, because the code drops `bc->lock` while the victim is
written: `Evict` takes the page off the hash and writes its run, `EvictEnd` gives the
entry to another page. In between (`evicting`) a write of the page waits, a read sees
the same contents as the device has, and `bcache_hold_page()`, which scans the pool
rather than the hash, still finds the entry: the hold is lost for the page and the
bit, which nobody clears, may go with the entry to a page outside the transaction.
`writeback_lock` excludes a sync's write pass and a second eviction meanwhile.

`logged`, `loggedData`, `attempts`, `stable`, `exposed` and `torn` are history: the
metadata image and the data under the last durable commit block, the images whose
commit block may have survived a failed attempt, what a successful commit has
promised; whether metadata has gone home unlogged (through the window before the
hold, an eviction's neighbours, an overflow, an umount after a failed commit) or the
log was emptied before the metadata was home; and whether file data changed between
a commit's checksums and its log copies, or the scan stopped at a whole transaction
it could not read. `AtomicMount` and `OrderedData` are claimed until `exposed` or
`torn` (what happens then is section 4, items 2, 10 and 11), `DurableCommits` always.
`HoldsMatchTx` says unconditionally that no hold outlives its transaction, and until
`exposed` that the held pages are exactly those of the transaction.

During recovery "metadata went home unlogged" means that it did so while the log
block it came from was not yet durable (`Uncovered`).

Abstractions: a scoped sync is taken to select every page of the file system; a
sync's writes are one step (it holds `writeback_lock`), a failing one keeps any
subset, and a failing log write (`CommitData`) any prefix of its data blocks; the
hook's test and increment read the depth once; of a single direct write that fails
nothing is kept. Device *read* errors occur only in recovery and mount. Elsewhere a
failed read ends the operation or the commit with an error at that point; the model
has that for the device's writes and flushes and for an overflowing transaction only. Operations run one at
a time, which is a bound: namespace operations do so under `metadata_lock`, but
`ext4_fwrite()` takes no such lock and two writers could interleave their pages in
one transaction. An operation writes a page once: what writes it twice is two
operations, and so is an append that zeroes a block and then fills it. `LogLen >= 2 * (TxCapacity + 2)`, so that two transactions fit: the code
refuses nothing smaller, but `mke2fs` makes no log of fewer than 1024 blocks.

## 3. Runs

| Run | Instance | Shows |
|---|---|---|
| `sched_core` | 2 tasks (one real-time), 2 CPUs, 2 waits each, heap of 1, donation, kernel preemption | ownership, no lost wake, stacks, timers, tokens, implements `ParkAbs` |
| `sched_lifecycle` | 1 task, 2 CPUs, all wait modes, all signals, stop, exit, reap, throttle | interrupts and continues are not lost, a reaped task is quiet, zombies stay, waits end only for admitted reasons |
| `sched_liveness` | 2 tasks, 1 CPU, deadlines and signals, fairness | a wait that is won, timed or signalled ends |
| `channel` | 2 threads per end, capacity 1, 3 messages, one caller, non-blocking, short, signalled and shutting-down users | lifetime, references, stack entries, waiters served |
| `channel_call` | 2 threads, a caller and a server, capacity 1, one message | violation, see section 4 |
| `sync` | 3 threads, depth 2, 2 completions, counter 0..3, batch 1, stray wakes for one | exclusion, writers counted, nobody left behind, stack entries, writers get in |
| `resched` | 3 tasks (one real-time), 2 CPUs, one waking task, both interrupt handlers waking | no sleep on work, preemption is announced |
| `futex` | 3 tasks, 2 address spaces, 4 programs, batch 1, one wait each, a timeout, a signal, an exit | nodes are live, changed words have a waker on the way, PI exclusion |
| `futex_cow`, `futex_pi` | the forked program; the PI program | violations |
| `journal` | 1 caller, 2 workloads (a 3-page operation; a partial-block append), 3 metadata pages and 1 data page, log of 8, transactions of 2, any 2 mishaps | atomic, durable, ordered, pinned, mountable |
| `journal_checkpoint` | the same | violation |

*Why the bounds are enough.* Every protocol here is between one task (or lock, or
endpoint) and the parties that race for it. Two CPUs give every race of "own CPU
against another one"; the switch window involves an outgoing and an incoming
task, so two tasks. Two waits per task distinguish a stale wake from a fresh one;
sequence numbers are only compared for equality. A heap, channel and wake batch
of one reach "full" and "not drained" at once. In `sync` a completion counter of
0..3 reaches the wrap of `complete()` after `complete_all()`. Symmetry is used
only for safety, over CPUs and over tasks of equal rank. In `futex` the batch of
one separates every two wakes of a call; words `c` and `o` share a bucket and `c`
and `m` do not, so a requeue stays in its queue or moves.

In `journal` a *mishap* is a power loss, a device error or an eviction, and
`MaxMishaps` bounds them together: two give a crash in the recovery from a crash,
a crash after a failed commit or its retry, and an eviction that exposes metadata
before a crash. Transactions of two pages overflow (superblock after bitmap and
inode) or commit page by page, and the second workload's contains a data page that is
written again while it commits; the log of eight holds two and wraps after a third.
The listed instance has 3.1 million states. The larger instance
`{<<<<2,1,3>>,<<0>>>>, <<<<1,2>>,<<2>>>>, <<<<Zero>>,<<1,3>>>>}` (6.1 million), with
whole-block appends and an inode rewritten in the same transaction or the next, was
run by hand with the present model and found nothing new. Others were run once by
hand, before evictions were split in two and reads could fail, with the same result:
the workload
`<<<<2,1,3>>, <<3,0>>>>` with the same bounds (7.6 million), all pairs of
`<<1,2>>` and `<<0,3>>` (10.2 million), and two callers with one operation and one
mishap (0.7 million, with symmetry), in which the unlocked counting of
`sync_hook_depth` nests commits three deep and deeper.

Deadlock is checked in the scheduler core, `sched_liveness`, `sync`, `resched`
and `journal`. It is off where the instance may really come to rest: a task that
has been reaped, channel threads that have all returned and closed or wait for a
message nobody will send, futex waiters nobody notifies.

*Fairness.* `Sched!Fairness`: a CPU inside `sched()` goes on (masked, no waiting);
the picker does not pass a queued task over for ever within its class (EEVDF
deadlines advance with run time; the liveness run has one class); the tick ends
slices; a caller that has taken work off a list finishes its loop. Nothing obliges
an event to happen: the run only claims that waits which are won, timed or
signalled end. `Sync!FairSpec`: a thread inside a call goes on, a woken thread
runs (this is `WaitEnds`), a holder releases. Nothing obliges a thread to make a
call, so readers may come for ever and `WriterGetsIn` has to hold against them.

## 4. Where the code and its own rules disagree

The first four are runs that TLC ends with a counterexample; `PROJECT.json`
("findings") quotes the rule each one breaks.

1. `channel_call`: the server has linked its wait entry but not yet parked. The
   caller's donating receive finds it as its target, cannot switch to it, and parks
   without delivering the wake its send deferred; the server then parks on the queued
   request. (With `MaxSends = 2` there is a second way: the donating receive finds a
   message of the server already queued and returns before it comes to either.)
2. `journal_checkpoint`: the checkpoint releases the holds and then asks for the
   *held* dirty pages, of which there are none; the log is marked empty while the
   committed metadata is only in the cache. A power loss before the final sync
   loses a committed transaction, or keeps a mixture of its pages. (What
   `ext4_journal_commit()` has *returned* success for is safe: the final sync comes
   first. That is `DurableCommits`.)
3. `futex_cow`: after a fork, a thread sleeps in the bucket of the shared page; its
   sibling's store breaks copy-on-write and moves the word, and the sibling's wake
   looks in the bucket of the new page.
4. `futex_pi`: `futex_pi_release()` stores 0 and wakes one of two waiters, who
   claims the word without `FUTEX_WAITERS`; the second sleeps unannounced and the
   next unlock stays in user space.

Seven more behaviours are in the models and were found with instances or properties
that are not among the listed runs; the passing properties are stated around them.

5. `proc_park_commit_donate()` switches with interrupts enabled, while `sched()`
   masks them ("From here to __switch() nothing may be interrupted",
   `proc/sched.c:2098`). With `KernelPreempt = TRUE`, `FastCurrent = FALSE`, three
   tasks, all of them donors, and two CPUs, `StackOwned` fails: an interrupt inside
   the window leaves the CPU on a stack whose ownership has been given up.
6. The donation wakes its target with the sequence number it has *now*, not the one
   it had when it was found on the channel (`proc/park.c:420`; `park.h:75` says that
   every wake carries it). In `ParkAbs` this is an event that ends the later wait.
7. A throttled task preempted between prepare and commit is dropped from its queue,
   and the unthrottle only touches its token: with two throttled tasks on one CPU
   and `KernelPreempt`, `ReadyIsOwned` fails.
8. A channel wake spent on a receiver that a signal has already won is not passed
   on, and a second receiver sleeps on a queued message (`ipc/a20_channel.c:469`).
   `PlainWaitersServed` excludes signalled and calling threads.
9. A sender asleep on a full channel holds the reference whose release would have
   woken it (`ipc/a20_channel.c:333`).
10. An append of part of a block writes file data, without `ej->lock`
    (`fs/diskfs/ext4_file.c:185`), into a page that is in the transaction because
    `ext4_alloc_block()` zeroed it through the journal (`fs/diskfs/ext4.c:762`). When
    the write falls between the commit's read of the page for the descriptor's checksum
    (`ext4_journal.c:986`) and its read for the log copy (1002), the commit block is
    durable over a transaction that fails its own checksum, although "the transaction
    is durable in the log" (1341): a power loss before the checkpoint is home makes the
    next mount discard it. `CommittedIsWhole` states the rule; with the constants of
    `Journal.cfg` TLC refutes it in 26 steps.
11. A read error in recovery's scan (`ext4_journal.c:418`, and 369 for a logged block)
    counts as the log ending "in something that is not a complete, checksummed
    transaction" (399): a committed transaction is skipped, the log emptied, and the
    mount succeeds. `ScanStopsAtEnd` states the rule; TLC refutes it in 27 steps.

`torn` records that 10 or 11 has happened. `AtomicMount` and `OrderedData` are claimed
until then; `DurableCommits` holds through both, because a commit reports success only
after its final sync.

The theorems on `Sched` name the configurations without 5 and 7
(`SwitchWindowSafe`, `ThrottleWindowSafe`).

## 5. Proofs

Each proof module extends the module it is about and proves one or more
inductive invariants, with a lemma per action (or per kind of step), and derives
the checked properties from them. Every theorem is about `Spec`, the specification
the runs check, for all values of the constants that satisfy the `ASSUME` of the
module; TLC evaluates that `ASSUME` in the runs. Three further hypotheses are
named definitions and appear in the statements that need them:

| Hypothesis | Says | Why |
|---|---|---|
| `SwitchWindowSafe` | `~KernelPreempt \/ Donors = {} \/ FastCurrent`: no preemption, or no unmasked switch, or a `proc_current()` that follows the stack | section 4, item 5, is what happens otherwise |
| `ThrottleWindowSafe` | no quota meets kernel preemption | section 4, item 7 |
| `CompletionsBounded` | fewer calls of `complete()` than `COMPLETION_DONE_ALL` | in the code 2^32 - 1; a count that reaches it is taken for a `complete_all()` |

### SchedProofs

For every number of tasks and CPUs, all ranks, wait modes, timers, senders,
donors and cgroups, under `SwitchWindowSafe`, the theorem `Invariance` proves
`Spec => []IInv`, where `IInv` is the conjunction of the types and

* `SchedState`, the kernel's own task assertion;
* `CpuSlots`: slots and flags agree, which identifies *who* owns a task;
* `SlotPhases`: what each phase of a switch knows about the slots. `CpuSlots` is
  not inductive without it: that releasing `swout` never releases the stack in
  use follows only from "the outgoing task is never the current one", and that
  from "a current task inside `sched()` is not RUNNING until this CPU keeps it";
* `TokenPhases`: the place in the park API determines the token;
* `ReadyOwnedOrNew`: `ReadyIsOwned`, strengthened by "a task waiting to be
  published has no PREPARING token", since a wake of such a token queues nobody.

There is one lemma per action. From the invariant follow `TypeCorrect`,
`SchedStateHolds`, `CpuSlotsHold`, `StackSafe`, `TokenSafe`, `ReapSafe` and, under
`ThrottleWindowSafe`, `NoLostWakeup`.

### SchedProofs: signals and deadlines

`SignalInvariance` proves, on top of `IInv` and under the same hypothesis, that
nothing which should end a wait or a stop gets lost: `DeadlineCovered` (a timed wait
has its heap entry, or the expiry loop holds it), `InterruptNotLost` (a signal or a
forced exit that the wait admits has a wake under way) and `StopNotLost` (the same
for a continue and a stopped task). All three are about a message that one context
holds and another is to receive, and each is kept only because the wake that
consumes the message cannot fail. That is the lemma `Wakeable`; it needs `IInv`: a
task with a live token is no zombie and its sequence is not zero. `DeadlineCovered`
is strengthened by the wait it belongs to (`DeadlineLive`), or a cancelled wait
could leave a deadline behind. `ZombiesStay` proves the action property
`ZombieStays`: a zombie is only ever reaped.

### ParkProofs

`WaitImplemented` proves `Spec => WaitSpec`, the refinement of `ParkAbs`, with no
assumption beyond `ConstAssumption`: unlike the ownership theorems it holds in the
unsafe windows too, because no switch touches a token. There is one lemma per kind
of step (`PrepareBegins`, `CommitSleeps`, `WakeEnds`, `ExpirePasses`, ...), and
`Quiet` for the many that change neither tokens nor timers. The invariant is the
types and

* `TimerInv`: a heap entry names its task's current wait, which has a deadline, and
  an expired entry that still names the current wait belongs to one with a deadline
  and no other entry. Without it a late expiry could end a wait that asked for none;
* `IdleClean`: a task without a wait keeps no reason and no mode of its last one;
* `DoneeInv`: a donating receive that has peeked a target has one.

`TimersLive` (`TimerIsLive`) follows from the same invariant.

### WaitListProofs

What linking at the head (`LinkHead`), unlinking (`UnlinkEntry`), cutting a batch
off (`SplitList`), taking the head of a batch (`PopHead`) and choosing the first
entry with a key (`FirstEntry`) do to *which* entries a list has, and that they keep
the entries distinct, for lists of any length. `Sync`, `Channel` and `Futex` are
proved from these and never look into a sequence again. `FirstEntry` needs a least
position; it comes from the well-foundedness of inclusion between initial segments.

The keyed collect of a futex bucket selects *positions* (`Nearest`) and takes the
entries there in order (`Entries`). `CountOneToOne` shows that counting numbers the
selected positions 1, 2, ... without gaps; from it follow what the selected entries
are (`EntriesAt`), that the two halves of a split share none (`EntriesApart`) and
that a limited selection is either as long as the limit or everything that matched
(`NearestAreFirst`), which is what lets `futex_wake()` stop. `JoinLists` and
`TurnedRound` are the two list operations of a requeue.

### SyncProofs

`LockInvariance` proves `Spec => []LInv` for any finite set of threads, any calls,
recursion depth and batch size. `LInv` is `MutualExclusion` and `WritersCounted`
with the types and "a thread in a call knows which". It does not mention queues,
batches or tokens: the locks exclude because both checks and every release are
made under the object's spinlock, whatever the wake-ups do. Counting uses two
lemmas on the cardinality of a finite set with one element more or less.

`QueueInvariance` adds the queues. `NobodyLeftBehind` speaks of sleeping waiters,
and is not inductive: a stray wake makes a queued waiter look awake, yet a waker may
take its entry instead of a sleeping one's. `QInv` therefore counts
the callers *outside* the queue, whatever their tokens say: while a free lock has a
queued waiter, somebody outside the queue is still in the call or a waker is still
to come (`Supply`; for readers a waker of all), a waiter outside the queue is woken
or in a batch (`WokenOrDue`), and entries are distinct and belong to callers that
sleep (`QueueShape`). For completions the same is a number: what `done` has left is at
most the takers outside plus the wakers to come (`Completions`), proved under
`CompletionsBounded`. From these follow `Types`, `LiveEntries`
(`EntriesAreLive`) and `NobodyIsLeftBehind`.

### ReschedProofs

Three inductive invariants, for any tasks, CPUs and ranks. `PInv` is the types and
the placement of tasks: a task that a CPU runs or switches out is placed there and in
no queue, a CPU's mode determines what it runs, and it picks one task at a time; it
does not say who answers for a queued task, which the other two do. `IdleInv` gives
`SleepersAreTold` (`IdleSeesWork`); alone that is not inductive, because a request
that finds `need_resched` set drops its own IPI: `Marked` says that then the IPI of
the request before it is pending or about to be sent. `Ordered` gives
`PreemptionIsRequested`; the property counts any wake in progress, but a wake that
was judged "not better" is dropped when waker and target share a CPU, so
`Ordered` asks for one that *will* mark the CPU, and covers the masked part of
`sched()`, where the picked task has to be the best.

### ChannelProofs

`CallInvariance` proves `Spec => []CInv` for any finite set of threads at the two
ends, any capacity and any choice of callers, non-blocking, short and signalled
threads. `CInv` is the types and

* `CallShape`: the place in a call determines its message, peer pointer and target;
* `Counted`: the reference count is the handle, the calls in progress and the peer
  pointers, so it can be compared with them rather than trusted;
* `Dying`: a count of zero means that exactly one thread is tearing the endpoint
  down, or has done so; `Pair`: the peer links exist exactly while both ends do;
* `Linked` and `Tokens`: an entry belongs to a thread in that wait, and a sleeper off
  the queue has been woken;
* `HandleRefsTravel`: transferred references are the messages queued plus in calls.

`Types`, `NeverUsedAfterFree`, `EndpointsAreFreed`, `RefsTravel` and `LiveEntries`
follow from it. `WaitersAreServed` (`PlainWaitersServed`) needs a second invariant,
`SupplyInvariance`: while a receiver is queued there are at least as many receivers
off the queue that will look as there are messages, and while a sender is queued as
many senders as free slots. As in `SyncProofs` the count has to be of threads *off*
the queue: a donation to a stale target wakes a thread whose entry is still
linked, and the next wake may be spent on it.

### FutexProofs

`FutexInvariance` proves `Spec => []FInv` for any tasks, words, pages, buckets,
programs, batch size, and any choice of copy-on-write, PI and target words that
`FutexAssumption` admits. `FInv` is the types and

* `Parted`: words that share a page have always shared it, and a word moved by
  copy-on-write is alone on its page. A store therefore never reaches a word that
  was not an alias of it from the start;
* `Contents`, `Holders`: PI words are no counters, `FUTEX_WAITERS` is never alone in
  a word, a task holds at most one word of a page and the word names the task;
* `Calling`: what a call knows at each of its points (`Fits`): a re-lock knows its
  bucket, a search its page, a requeue its target, a non-empty wake list means that
  the call is flushing it;
* `NodesFit`, `Linked`: a node exists from the link to the unlink, carries the number
  of its task's wait, sits in the bucket of its page until a requeue to a target
  moves it; and the entries of the buckets are exactly the linked nodes, each once.

The last is what the two-step unlink needs: between reading `entry->queue` and
taking that bucket's lock the node may be collected or requeued, and only the
recheck under the lock keeps `Linked`. `Types`, `LiveNodes` (`NodesAreLive`) and
`PiExcludes` (`PiExclusion`) follow. A step is proved once for memory (`StoreEffect`:
it leaves memory alone or stores to one word, in place or on a fresh page), once for
the calls, once for the waits and once for the lists.

`SleepersHaveWakers` (`SleeperHasWaker`) is not inductive: a notifier that "will
search the bucket of its word" derives the bucket from a page that copy-on-write
may still change, and a compare-and-requeue gives up when somebody has changed the
word after it. `WInv` therefore asks for a notifier (`Reaches`) that has either
derived its key or whose word no store can move (`Stuck`), and whose compare, if it
has one to come, will succeed: it was the last to change the word. It is kept
because every store to a counter makes the storing task itself such a notifier (it
has just broken the copy-on-write, so its word is stuck), and because a search ends
only once its bucket has no match left, with everybody it took off on its wake list.

The clauses of `FutexAssumption` beyond the types are about the programs, not the
engine: no word is both a PI lock and a requeue target (`FUTEX_CMP_REQUEUE_PI` is not
modelled), and aliases of one word are used alike, since PI words and counters are
different kinds of object to the C library. `None \notin Buckets` and
`None \notin Nodes` say that NULL is neither an index nor a node.

### JournalProofs

`JournalInvariance` proves `Spec => []JournalInv` for every set of callers, pages and
workloads, every log length and transaction capacity that `JournalAssumption` admits,
and any number of device errors, evictions and power losses. The journal's state is
in four places (media, the device's cache, the block cache, memory), so the invariant
is stated over `Survivors`, the set of media a power loss *would* leave, and over what
a read returns (`Dev`, `bcache_read_bytes`). It is the conjunction of

* `Base`: the types of every page (home, journal superblock, log block) in every
  place it can be, the call stacks that the recursion sync - hook - commit - sync can
  build (`Shape`), the recursive mutex counted against the commit frames of its owner
  (`Locking`), "a clean cached page is what the device holds" (`Clean`), and what is
  known of the page being evicted (`Victims`);
* `LogInv`: no survivor's journal superblock is newer than the device's, a cached one
  says that the log is empty, between the write of `s_start` and the commit block it
  is with the device and then durable, and no commit block is newer than the
  superblock: recovery finds one transaction or none, however many commits failed;
* `Scanning`: at each point of recovery, what the scan has counted (a read error lets it
  stop at a whole transaction, so it may count none), what is still to be replayed, and
  that after the replay the pages of the transaction it counted *read* as logged
  (`Recovered`), whichever of them an eviction or a failed sync has already written;
* `Idle` and `Pins`: outside a mount nothing is open; the open transaction's pages are
  held (`HoldsMatchTx`); and until a leak is on record the page between its cache write
  and its hold is dirty or held and not being evicted (`Pinned`), and no page being
  evicted is held (`Loose`). Without these two, `EvictEnd` could lose a hold unnoticed;
* `Washed` and `Refusals`: while no device error has occurred since the mount began, a
  sync of the mount that has reached its flush leaves no dirty page, the mount
  comes to `ext4_journal_open()` with an empty log, and no call has failed.

`Types` (`TypeOK`), `PinnedIsOpen` (`HoldsMatchTx`) and `RefusalMeansFault`
(`RefusedOnlyAfterFault`) follow. `RefusedOnlyAfterFault` alone is far from inductive:
that recovery can empty the log rests on `Washed`, that on `Clean` and on nobody else
running (`Shape`), and that the scan ends at the right place on `LogInv`. A step is
proved once for the stacks (one lemma per frame that can be on top), once for the
lock and once for the storage, where the many actions reduce to six effects: nothing
changes, dirty pages go home (`Mild`), the device flushes, the cache takes a page
(`Put`), a log block bypasses it (`LogPut`), the power goes.

`CommitsAreDurable` proves the action property `DurableCommits`: a commit that returned
success is there after every later mount. `JournalInv` does not say how new anything
is, so `DurableInvariance` strengthens it to `DurableInv` by three conjuncts:

* `Kept`: on *every* survivor each metadata page is at least as new as `stable`, and so
  is every page of the descriptor its superblock leads to, whether or not that
  transaction is complete (a replay must never take a page back); what the file system
  reads is as new as `logged`, and `logged` as `stable`, while the hook is set;
* `Staged`: from the flush of the descriptor on, the log block that `s_start` is about
  to point to logs the image the transaction leads to, on every survivor. Without it
  the superblock could lead to an older descriptor at the same head;
* `Lowering`: from the checkpoint to the end of the commit no transaction is open, after
  the write loop of the last sync the device holds all that is logged, and after its
  flush every survivor does. This is what the final sync of the commit is for
  (`BugCommitLower` leaves it out).

The step lemma is one argument for every step but the power loss: a step *delivers* an
image `f` (`Delivers`) if each page and each log block it lets reach the media was there
before or is as new as `f`; that holds for `stable` and, while the hook is set, for
`logged`, and `Kept` and `Lowering` follow from it. Between its steps the commit relies
on the mutex: `Aside` proves that no step of another caller, of the workload or of an
eviction touches the transaction, the log blocks or a metadata page.

### Only model-checked

Liveness (`WaitEnds`, `WriterGetsIn`), which is beyond the prover; the two action
properties of `Journal` about what a mount shows as a whole (`AtomicMount`,
`OrderedData`), which need an invariant on the image behind every survivor. The
four properties of section 4 that fail are not theorems, of course; nor are the
behaviours that items 5, 7, 8, 9, 10 and 11 exclude from the passing properties.

## 6. Not modelled

EEVDF arithmetic, load-balancing heuristics, statistics; the order of the timer
heap and the POSIX and interval timers; signal frames and dispositions; fork, pid
tables, wait4; channel credits, rights, envelopes and readiness; futex bitsets,
weight donation, `FUTEX_WAIT_REQUEUE_PI`, `waitv`, `clear_child_tid` and NOMMU; the
512-byte half of the block cache, the vnode page cache, revoke blocks, logs of other
implementations, and ext4's own allocation and directory code (an operation is the
pages it writes; that a commit can fall between two of them is modelled); and the
parts of the kernel listed as `not_modelled` in `PROJECT.json`, with the reason for
each. Memory ordering is sequentially
consistent in the models: the fields that are read outside their lock are atomics
with acquire/release in the code, and the reads concerned (`Unthrottle`, the
donation's snapshot) are separate steps. `sched_setaffinity` and CPU hotplug do
not occur in the models.

## 7. Plan

1. `EventQ`: watches, the ring and its overflow, level and edge, the
   generation-checked park; then epoll and readiness on the same pattern, over
   `ParkAbs`.
2. `Handles`/`Envelope`: reservation, transfer, expiry and revocation of handles;
   compose with `Channel` for references in flight.
3. `Cluster`: frames, retransmission and duplicate suppression over a lossy link.
4. Smaller ones: pipe, eventfd, POSIX locks' deadlock detection, the MCS
   page-table lock, the timer heap against a sorted reference; `Channel` and `Sync`
   rewritten over `ParkAbs`.
5. Proofs: `AtomicMount` and `OrderedData` of `Journal` on top of `DurableInv`.
